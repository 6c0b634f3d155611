------------------------- MODULE ConversionLemmas -------------------------
(***************************************************************************)
(* What ParseURL, parse_target, Percent, parse_query_string and the column *)
(* conversions compute, for texts of any length and any characters, and    *)
(* for results of any number of rows.  The facts about sequences are       *)
(* stated here and not taken from SequenceTheorems, and the libraries that *)
(* are needed come in where they are: every theorem in scope is part of    *)
(* every obligation after it.                                              *)
(***************************************************************************)
EXTENDS TextProperties, TLAPS

-----------------------------------------------------------------------------
(* Sequences *)

\* Sequences with the same elements at the same places are equal.
LEMMA SameSeq ==
    ASSUME NEW X, NEW a \in Seq(X), NEW b \in Seq(X), Len(a) = Len(b),
           \A i \in 1..Len(a) : a[i] = b[i]
    PROVE  a = b
  OBVIOUS

\* The empty sequence.
LEMMA NoneSeq ==
    ASSUME NEW X
    PROVE  <<>> \in Seq(X) /\ Len(<<>>) = 0 /\ \A a \in Seq(X) : a # <<>> => Len(a) \in Nat \ {0}
  OBVIOUS

\* The places of a concatenation.
LEMMA ConcatIs ==
    ASSUME NEW X, NEW a \in Seq(X), NEW b \in Seq(X)
    PROVE  /\ a \o b \in Seq(X)
           /\ Len(a \o b) = Len(a) + Len(b)
           /\ \A i \in 1..(Len(a) + Len(b)) :
                (a \o b)[i] = IF i <= Len(a) THEN a[i] ELSE b[i - Len(a)]
  OBVIOUS

\* Nothing appended.
LEMMA ConcatNothing ==
    ASSUME NEW X, NEW a \in Seq(X)
    PROVE  a \o <<>> = a /\ <<>> \o a = a
  OBVIOUS

\* The places of a substring.
LEMMA SubSeqIs ==
    ASSUME NEW X, NEW a, NEW m \in Int, NEW n \in Int, \A i \in m..n : a[i] \in X
    PROVE  /\ SubSeq(a, m, n) \in Seq(X)
           /\ Len(SubSeq(a, m, n)) = IF m <= n THEN n - m + 1 ELSE 0
           /\ \A i \in 1..(n - m + 1) : SubSeq(a, m, n)[i] = a[m + i - 1]
  OBVIOUS

\* An empty substring.
LEMMA SubSeqNone ==
    ASSUME NEW a, NEW m \in Int, NEW n \in Int, n < m
    PROVE  SubSeq(a, m, n) = <<>>
  OBVIOUS

\* The substring that is the whole.
LEMMA SubSeqAll ==
    ASSUME NEW X, NEW a \in Seq(X)
    PROVE  SubSeq(a, 1, Len(a)) = a
  OBVIOUS

\* A substring is its first element and the substring after it.
LEMMA SubSeqFirst ==
    ASSUME NEW X, NEW a \in Seq(X), NEW m \in 1..Len(a), NEW n \in m..Len(a)
    PROVE  SubSeq(a, m, n) = <<a[m]>> \o SubSeq(a, m + 1, n)
  OBVIOUS

\* Adjacent substrings make one.
LEMMA SubSeqParts ==
    ASSUME NEW X, NEW a \in Seq(X), NEW m \in 1..(Len(a) + 1), NEW k \in (m - 1)..Len(a), NEW n \in k..Len(a)
    PROVE  SubSeq(a, m, k) \o SubSeq(a, k + 1, n) = SubSeq(a, m, n)
  OBVIOUS

\* Concatenation is associative.
LEMMA ConcatOrder ==
    ASSUME NEW X, NEW a \in Seq(X), NEW b \in Seq(X), NEW c \in Seq(X)
    PROVE  (a \o b) \o c = a \o (b \o c)
  OBVIOUS

\* A sequence over a set is one over every larger set.
LEMMA SeqWiden ==
    ASSUME NEW X, NEW Y, NEW a \in Seq(X), X \subseteq Y
    PROVE  a \in Seq(Y)
  OBVIOUS

\* What follows the same beginning is the same.
LEMMA ConcatCancel ==
    ASSUME NEW X, NEW a \in Seq(X), NEW b \in Seq(X), NEW c \in Seq(X), a \o b = a \o c
    PROVE  b = c
  <1>1. Len(b) = Len(c)
    OBVIOUS
  <1>2. ASSUME NEW i \in 1..Len(b) PROVE b[i] = c[i]
    <2>1. b[i] = (a \o b)[i + Len(a)] /\ c[i] = (a \o c)[i + Len(a)]
      BY <1>1
    <2>. QED  BY <2>1
  <1>. QED  BY <1>1, <1>2, SameSeq

-----------------------------------------------------------------------------
(* Least and greatest elements, and induction *)

LOCAL INSTANCE WellFoundedInduction

\* A set of naturals has a least element, and Min is it.
LEMMA Least ==
    ASSUME NEW S, S \subseteq Nat, S # {}
    PROVE  Min(S) \in S /\ \A y \in S : Min(S) <= y
  <1>. DEFINE less == OpToRel(<, Nat)
  <1>1. IsWellFoundedOn(less, Nat)
    BY NatLessThanWellFounded, Zenon
  <1>2. \A x, y \in Nat : y < x => <<y, x>> \in less
    BY DEF OpToRel
  <1>. HIDE DEF less
  <1>3. PICK x \in S : \A y \in S : <<y, x>> \notin less
    BY <1>1, WFMin, Zenon
  <1>4. \A y \in S : x <= y
    <2>1. \A y \in S : x \in Nat /\ y \in Nat
      OBVIOUS
    <2>2. \A y \in S : ~(y < x)
      BY <1>2, <1>3, <2>1, Zenon
    <2>. QED  BY <2>1, <2>2
  <1>. QED  BY <1>3, <1>4, Zenon DEF Min

\* Max is the greatest element of a set of naturals that has a bound.
LEMMA Greatest ==
    ASSUME NEW S, NEW L \in Nat, S \subseteq 0..L, S # {}
    PROVE  Max(S) \in S /\ \A y \in S : Max(S) >= y
  <1>. DEFINE T == {n \in Nat : L - n \in S}
  <1>1. T \subseteq Nat /\ T # {}
    <2>1. PICK y \in S : TRUE
      BY Zenon
    <2>2. y \in Nat /\ y <= L /\ L - y \in Nat /\ L - (L - y) = y
      BY <2>1
    <2>. QED  BY <2>1, <2>2, Zenon
  <1>2. Min(T) \in T /\ \A t \in T : Min(T) <= t
    BY <1>1, Least
  <1>. DEFINE least == Min(T)
  <1>3. least \in Nat /\ L - least \in S /\ \A t \in T : least <= t
    BY <1>2
  <1>. HIDE DEF least
  <1>4. \A y \in S : L - least >= y
    <2>. SUFFICES ASSUME NEW y \in S PROVE L - least >= y
      OBVIOUS
    <2>1. y \in Nat /\ y <= L /\ L - y \in Nat /\ L - (L - y) = y
      OBVIOUS
    <2>2. least <= L - y
      BY <1>3, <2>1
    <2>. QED  BY <1>3, <2>1, <2>2
  <1>. QED  BY <1>3, <1>4, Zenon DEF Max

\* Induction over an initial part of the naturals, for sets.
LEMMA Induction ==
    ASSUME NEW L \in Nat, NEW S, 0 \in S, \A n \in 0..L : n \in S /\ n < L => n + 1 \in S
    PROVE  0..L \subseteq S
  <1>. DEFINE T == {n \in 0..L : n \notin S}
  <1>. SUFFICES ASSUME T # {} PROVE FALSE
    OBVIOUS
  <1>1. T \subseteq Nat
    OBVIOUS
  <1>2. PICK x \in T : \A y \in T : x <= y
    BY <1>1, Least, Zenon
  <1>3. x # 0 /\ x \in 0..L /\ x \notin S
    BY <1>2
  <1>4. x - 1 \in 0..L /\ x - 1 < L /\ (x - 1) + 1 = x /\ ~(x <= x - 1)
    BY <1>3
  <1>5. x - 1 \in S
    BY <1>2, <1>4
  <1>. QED  BY <1>3, <1>4, <1>5

-----------------------------------------------------------------------------
(* Loops that append *)

\* What a loop appends from each index on, when at i it appends out[i] and goes on at
\* next[i]: the equation that encode and decode take their values from.
Appends(L, M, out, next, f) ==
    f = [i \in 1..M |-> IF i > L THEN <<>> ELSE out[i] \o f[next[i]]]

Forward(L, M, next) ==
    L \in Nat /\ M \in Nat /\ L < M /\ \A i \in 1..L : next[i] \in (i + 1)..M

\* The second loop does from d + 1 on what the first does from 1 on.
Alike(L, M, d, out, next, f, out2, next2, g) ==
    /\ d \in Nat /\ Forward(L, M, next)
    /\ \A i \in 1..L : out2[i + d] = out[i] /\ next2[i + d] = next[i] + d
    /\ Appends(L, M, out, next, f) /\ Appends(L + d, M + d, out2, next2, g)

\* There is such a function when the loop goes forward.
LEMMA AppendsExist ==
    ASSUME NEW L, NEW M, NEW out, NEW next, Forward(L, M, next)
    PROVE  \E f : Appends(L, M, out, next, f)
  <1>. USE DEF Forward
  <1>. DEFINE From(m, f) ==
                  \A i \in (L + 1 - m)..M : f[i] = IF i > L THEN <<>> ELSE out[i] \o f[next[i]]
              S == {m \in 0..L : \E f : From(m, f)}
  <1>1. 0 \in S
    <2>. DEFINE f == [i \in 1..M |-> <<>>]
    <2>1. From(0, f)
      OBVIOUS
    <2>. QED  BY <2>1
  <1>2. ASSUME NEW m \in 0..L, m \in S, m < L PROVE m + 1 \in S
    <2>1. PICK f : From(m, f)
      BY <1>2
    <2>. DEFINE k == L - m
                g == [i \in 1..M |-> IF i = k THEN out[k] \o f[next[k]] ELSE f[i]]
    <2>2. k \in 1..L /\ k = L + 1 - (m + 1) /\ k + 1 = L + 1 - m /\ k \in 1..M
      BY <1>2
    <2>. HIDE DEF k
    <2>3. \A i \in (k + 1)..M : i \in 1..M /\ i # k /\ g[i] = f[i]
      BY <2>2
    <2>4. next[k] \in (k + 1)..M /\ g[next[k]] = f[next[k]] /\ g[k] = out[k] \o f[next[k]]
      <3>1. next[k] \in (k + 1)..M
        BY <2>2
      <3>2. g[k] = out[k] \o f[next[k]]
        BY <2>2, Zenon
      <3>. HIDE DEF g
      <3>. QED  BY <2>3, <3>1, <3>2
    <2>. HIDE DEF g
    <2>5. ASSUME NEW i \in k..M PROVE g[i] = IF i > L THEN <<>> ELSE out[i] \o g[next[i]]
      <3>1. CASE i = k
        <4>1. ~(k > L)
          BY <2>2
        <4>. QED  BY <2>4, <3>1, <4>1, Zenon
      <3>2. CASE i # k /\ i > L
        <4>1. i \in (k + 1)..M
          BY <2>2, <3>2
        <4>. QED  BY <2>1, <2>2, <2>3, <3>2, <4>1
      <3>3. CASE i # k /\ ~(i > L)
        <4>1. i \in (k + 1)..M /\ i \in 1..L
          BY <2>2, <3>3
        <4>2. next[i] \in (i + 1)..M
          BY <4>1
        <4>3. next[i] \in (k + 1)..M
          BY <2>2, <4>1, <4>2
        <4>4. f[i] = out[i] \o f[next[i]]
          BY <2>1, <2>2, <3>3, <4>1, Zenon
        <4>. QED  BY <2>3, <3>3, <4>1, <4>3, <4>4, Zenon
      <3>. QED  BY <3>1, <3>2, <3>3
    <2>6. From(m + 1, g)
      BY <2>2, <2>5
    <2>. QED  BY <1>2, <2>6
  <1>. HIDE DEF S
  <1>3. L \in S
    BY <1>1, <1>2, Induction
  <1>4. PICK f : From(L, f)
    BY <1>3 DEF S
  <1>. DEFINE g == [i \in 1..M |-> f[i]]
  <1>5. \A i \in 1..M : g[i] = IF i > L THEN <<>> ELSE out[i] \o g[next[i]]
    <2>. SUFFICES ASSUME NEW i \in 1..M
                  PROVE  g[i] = IF i > L THEN <<>> ELSE out[i] \o g[next[i]]
      OBVIOUS
    <2>1. f[i] = IF i > L THEN <<>> ELSE out[i] \o f[next[i]]
      BY <1>4
    <2>2. ~(i > L) => next[i] \in 1..M
      <3>1. ~(i > L) => i \in 1..L /\ next[i] \in (i + 1)..M
        OBVIOUS
      <3>. QED  BY <3>1
    <2>. QED  BY <2>1, <2>2
  <1>6. g = [i \in 1..M |-> g[i]]
    OBVIOUS
  <1>. HIDE DEF g
  <1>. QED  BY <1>5, <1>6, Zenon DEF Appends

\* A loop over the same text further on appends the same.
LEMMA AppendsShift ==
    ASSUME NEW L, NEW M, NEW d, NEW out, NEW next, NEW f, NEW out2, NEW next2, NEW g,
           Alike(L, M, d, out, next, f, out2, next2, g)
    PROVE  g[1 + d] = f[1]
  <1>. USE DEF Forward, Alike
  <1>. DEFINE S == {m \in 0..L : \A i \in (L + 1 - m)..M : g[i + d] = f[i]}
  <1>1. \A i \in 1..M : f[i] = IF i > L THEN <<>> ELSE out[i] \o f[next[i]]
    BY Zenon DEF Appends
  <1>2. \A i \in 1..(M + d) :
          g[i] = IF i > L + d THEN <<>> ELSE out2[i] \o g[next2[i]]
    BY Zenon DEF Appends
  <1>3. 0 \in S
    <2>. SUFFICES ASSUME NEW i \in (L + 1)..M PROVE g[i + d] = f[i]
      OBVIOUS
    <2>1. i \in 1..M /\ i > L /\ i + d \in 1..(M + d) /\ i + d > L + d
      OBVIOUS
    <2>. QED  BY <1>1, <1>2, <2>1
  <1>4. ASSUME NEW m \in 0..L, m \in S, m < L PROVE m + 1 \in S
    <2>. SUFFICES ASSUME NEW i \in (L + 1 - (m + 1))..M PROVE g[i + d] = f[i]
      BY <1>4
    <2>1. CASE i = L - m
      <3>1. i \in 1..L /\ i \in 1..M /\ ~(i > L) /\ i + d \in 1..(M + d) /\ ~(i + d > L + d)
        BY <1>4, <2>1
      <3>2. next[i] \in (L + 1 - m)..M
        <4>1. next[i] \in (i + 1)..M
          BY <3>1
        <4>. QED  BY <2>1, <4>1
      <3>3. g[next[i] + d] = f[next[i]]
        BY <1>4, <3>2
      <3>4. g[i + d] = out2[i + d] \o g[next2[i + d]] /\ f[i] = out[i] \o f[next[i]]
        BY <1>1, <1>2, <3>1, Zenon
      <3>5. out2[i + d] = out[i] /\ next2[i + d] = next[i] + d
        BY <3>1
      <3>. QED  BY <3>3, <3>4, <3>5, Zenon
    <2>2. CASE i # L - m
      <3>1. i \in (L + 1 - m)..M
        BY <1>4, <2>2
      <3>. QED  BY <1>4, <3>1
    <2>. QED  BY <2>1, <2>2
  <1>. HIDE DEF S
  <1>5. 0..L \subseteq S
    BY <1>3, <1>4, Induction
  <1>6. L \in S /\ 1 \in 1..M /\ L + 1 - L = 1
    BY <1>5
  <1>. QED  BY <1>6 DEF S

\* What a loop appends has the type of its parts.
LEMMA AppendsSeq ==
    ASSUME NEW L, NEW M, NEW out, NEW next, NEW f, NEW X, Forward(L, M, next),
           Appends(L, M, out, next, f), \A i \in 1..L : out[i] \in Seq(X)
    PROVE  f[1] \in Seq(X)
  <1>. DEFINE S == {m \in 0..L : \A i \in (L + 1 - m)..M : f[i] \in Seq(X)}
  <1>1. L \in Nat /\ M \in Nat /\ L < M /\ \A i \in 1..L : next[i] \in (i + 1)..M
    BY DEF Forward
  <1>2. \A i \in 1..M : f[i] = IF i > L THEN <<>> ELSE out[i] \o f[next[i]]
    BY Zenon DEF Appends
  <1>3. 0 \in S
    <2>1. \A i \in (L + 1)..M : i \in 1..M /\ i > L
      BY <1>1
    <2>2. <<>> \in Seq(X) /\ 0 \in 0..L /\ L + 1 - 0 = L + 1
      BY <1>1
    <2>3. \A i \in (L + 1)..M : f[i] \in Seq(X)
      BY <1>2, <2>1, <2>2, Zenon
    <2>. QED  BY <2>2, <2>3
  <1>4. ASSUME NEW m \in 0..L, m \in S, m < L PROVE m + 1 \in S
    <2>. SUFFICES ASSUME NEW i \in (L + 1 - (m + 1))..M PROVE f[i] \in Seq(X)
      BY <1>1, <1>4
    <2>1. CASE i = L - m
      <3>1. i \in 1..L /\ i \in 1..M /\ ~(i > L)
        BY <1>1, <1>4, <2>1
      <3>2. next[i] \in (L + 1 - m)..M
        <4>1. next[i] \in (i + 1)..M
          BY <1>1, <3>1
        <4>. QED  BY <1>1, <2>1, <4>1
      <3>3. f[next[i]] \in Seq(X) /\ out[i] \in Seq(X)
        BY <1>4, <3>1, <3>2
      <3>4. f[i] = out[i] \o f[next[i]]
        BY <1>2, <3>1, Zenon
      <3>. QED  BY <3>3, <3>4
    <2>2. CASE i # L - m
      <3>1. i \in (L + 1 - m)..M
        BY <1>1, <1>4, <2>2
      <3>. QED  BY <1>4, <3>1
    <2>. QED  BY <2>1, <2>2
  <1>. HIDE DEF S
  <1>5. 0..L \subseteq S
    BY <1>1, <1>3, <1>4, Induction, Zenon
  <1>6. L \in S /\ 1 \in 1..M /\ L + 1 - L = 1
    BY <1>1, <1>5
  <1>. QED  BY <1>6 DEF S

\* Flatten is such a loop.
LEMMA FlattenAppends ==
    ASSUME NEW parts, Len(parts) \in Nat
    PROVE  \E f : /\ Flatten(parts) = f[1]
                 /\ Appends(Len(parts), Len(parts) + 1, parts, [i \in 1..Len(parts) |-> i + 1], f)
  <1>. DEFINE L == Len(parts)
              next == [i \in 1..L |-> i + 1]
              Eq(f) == f = [i \in 1..(L + 1) |-> IF i > L THEN <<>> ELSE parts[i] \o f[i + 1]]
  <1>1. L \in Nat
    OBVIOUS
  <1>2. \A f : Eq(f) <=> Appends(L, L + 1, parts, next, f)
    <2>. SUFFICES ASSUME NEW f PROVE Eq(f) <=> Appends(L, L + 1, parts, next, f)
      BY Zenon
    <2>1. \A i \in 1..(L + 1) : ~(i > L) => i \in 1..L
      BY <1>1
    <2>2. \A i \in 1..L : next[i] = i + 1
      OBVIOUS
    <2>. HIDE DEF next, L
    <2>3. [i \in 1..(L + 1) |-> IF i > L THEN <<>> ELSE parts[i] \o f[i + 1]]
            = [i \in 1..(L + 1) |-> IF i > L THEN <<>> ELSE parts[i] \o f[next[i]]]
      BY <2>1, <2>2, Zenon
    <2>. QED  BY <2>3, Zenon DEF Appends
  <1>3. \E f : Appends(L, L + 1, parts, next, f)
    <2>1. Forward(L, L + 1, next)
      BY <1>1 DEF Forward
    <2>. QED  BY <2>1, AppendsExist, Zenon
  <1>. DEFINE f == CHOOSE f : Eq(f)
  <1>4. Flatten(parts) = f[1]
    BY DEF Flatten
  <1>. HIDE DEF Appends
  <1>5. Eq(f)
    <2>. HIDE DEF Eq
    <2>. QED  BY <1>2, <1>3, Zenon
  <1>. QED  BY <1>2, <1>4, <1>5, Zenon

\* Flatten, a part at a time.
LEMMA FlattenNone ==
    ASSUME NEW parts, Len(parts) = 0
    PROVE  Flatten(parts) = <<>>
  <1>1. Len(parts) \in Nat
    OBVIOUS
  <1>2. PICK f : /\ Flatten(parts) = f[1]
                 /\ Appends(Len(parts), Len(parts) + 1, parts, [i \in 1..Len(parts) |-> i + 1], f)
    BY <1>1, FlattenAppends, Zenon
  <1>3. f[1] = <<>>
    BY <1>2 DEF Appends
  <1>. QED  BY <1>2, <1>3

\* A loop over one more item appends that item first.
LEMMA FlattenStep ==
    ASSUME NEW parts, NEW later, Len(later) \in Nat, Len(parts) = Len(later) + 1,
           \A i \in 1..Len(later) : parts[i + 1] = later[i]
    PROVE  Flatten(parts) = parts[1] \o Flatten(later)
  <1>. DEFINE L == Len(later)
              next == [i \in 1..L |-> i + 1]
              next2 == [i \in 1..(L + 1) |-> i + 1]
  <1>1. L \in Nat
    OBVIOUS
  <1>2. PICK f : Flatten(later) = f[1] /\ Appends(L, L + 1, later, next, f)
    BY FlattenAppends
  <1>3. PICK g : Flatten(parts) = g[1] /\ Appends(L + 1, (L + 1) + 1, parts, next2, g)
    BY <1>1, FlattenAppends
  <1>4. Alike(L, L + 1, 1, later, next, f, parts, next2, g)
    BY <1>1, <1>2, <1>3 DEF Forward, Alike
  <1>5. next2[1] = 1 + 1 /\ 1 \in 1..((L + 1) + 1) /\ ~(1 > L + 1)
    BY <1>1
  <1>. HIDE DEF next, next2, L
  <1>6. g[1 + 1] = f[1]
    BY <1>4, AppendsShift
  <1>7. g[1] = parts[1] \o g[next2[1]]
    BY <1>3, <1>5, Zenon DEF Appends
  <1>. QED  BY <1>2, <1>3, <1>5, <1>6, <1>7, Zenon

-----------------------------------------------------------------------------
(* Column conversions *)

\* A row that one of the conversions stored, or that comes from elsewhere.
IsRow(type, row) == type = "bool" /\ row.from = "jkit" => row.v \in BOOLEAN

Holds(type, row) == row.from = "jkit" /\ row.v # Fresh(type)
ColumnOf(type, row) == IF row.from = "jkit" THEN to_base(type, row.v) ELSE Null

\* What a variable of the type holds after a row that stores a value.
Read(type, row) == IF type = "ptime" THEN <<row.v[1], 0>> ELSE row.v

\* bool and uuid: a row decides what the variable holds.
LEMMA RowDecides ==
    ASSUME NEW type \in {"bool", "uuid"}, NEW row, IsRow(type, row), NEW mi
    PROVE  from_base(type, ColumnOf(type, row), mi)
             = IF Holds(type, row) THEN row.v ELSE Fresh(type)
  <1>1. CASE row.from # "jkit"
    <2>2. CASE type = "bool"
      BY <1>1, <2>2
         DEF from_base, bool_from_base, ColumnOf, Null, Holds, Fresh
    <2>3. CASE type = "uuid"
      BY <1>1, <2>3
         DEF from_base, uuid_from_base, ColumnOf, Null, Holds, Fresh
    <2>. QED  BY <2>2, <2>3
  <1>2. CASE row.from = "jkit" /\ type = "bool"
    <2>1. row.v \in BOOLEAN
      BY <1>2 DEF IsRow
    <2>2. Fresh(type) = FALSE
      BY <1>2, Zenon DEF Fresh
    <2>3. CASE row.v = TRUE
      <3>1. ColumnOf(type, row) = [ind |-> "ok", i |-> 1]
        BY <1>2, <2>3 DEF ColumnOf, to_base, bool_to_base, Column
      <3>2. from_base(type, ColumnOf(type, row), mi) = TRUE
        BY <1>2, <3>1 DEF from_base, bool_from_base
      <3>3. Holds(type, row)
        BY <1>2, <2>2, <2>3 DEF Holds
      <3>. QED  BY <2>3, <3>2, <3>3, Zenon
    <2>4. CASE row.v = FALSE
      <3>1. ColumnOf(type, row) = [ind |-> "ok", i |-> 0]
        BY <1>2, <2>4 DEF ColumnOf, to_base, bool_to_base, Column
      <3>2. from_base(type, ColumnOf(type, row), mi) = FALSE
        BY <1>2, <3>1 DEF from_base, bool_from_base
      <3>3. ~Holds(type, row)
        BY <2>2, <2>4, Zenon DEF Holds
      <3>. QED  BY <2>2, <3>2, <3>3, Zenon
    <2>. QED  BY <2>1, <2>3, <2>4, Zenon
  <1>3. CASE row.from = "jkit" /\ type = "uuid"
    <2>1. ColumnOf(type, row) = [ind |-> "ok", i |-> <<"text", row.v>>]
      BY <1>3 DEF ColumnOf, to_base, uuid_to_base, Column
    <2>2. from_base(type, ColumnOf(type, row), mi) = row.v
      BY <1>3, <2>1 DEF from_base, uuid_from_base
    <2>3. row.v = 0 \/ Holds(type, row)
      BY <1>3 DEF Holds, Fresh
    <2>. QED  BY <1>3, <2>2, <2>3 DEF Fresh
  <1>. QED  BY <1>1, <1>2, <1>3

\* ptime and json: a row that stores nothing leaves the variable alone.
LEMMA RowReplaces ==
    ASSUME NEW type \in {"ptime", "json"}, NEW row, IsRow(type, row), NEW mi
    PROVE  from_base(type, ColumnOf(type, row), mi)
             = IF Holds(type, row) THEN Read(type, row) ELSE mi
  <1>1. CASE ~Holds(type, row)
    <2>1. ColumnOf(type, row) = Null
      <3>1. CASE row.from # "jkit"
        BY <3>1 DEF ColumnOf
      <3>2. CASE row.from = "jkit" /\ type = "ptime" /\ row.v = <<>>
        BY <3>2 DEF ColumnOf, to_base, ptime_to_base
      <3>3. CASE row.from = "jkit" /\ type = "json" /\ row.v = 0
        BY <3>3 DEF ColumnOf, to_base, json_to_base
      <3>. QED  BY <1>1, <3>1, <3>2, <3>3, Zenon DEF Holds, Fresh
    <2>2. CASE type = "ptime"
      BY <1>1, <2>1, <2>2 DEF from_base, ptime_from_base, Null
    <2>3. CASE type = "json"
      BY <1>1, <2>1, <2>3 DEF from_base, json_from_base, Null
    <2>. QED  BY <2>2, <2>3
  <1>2. CASE Holds(type, row) /\ type = "ptime"
    <2>1. ColumnOf(type, row) = [ind |-> "ok", i |-> [tm |-> row.v[1]]]
      BY <1>2 DEF ColumnOf, to_base, ptime_to_base, Column, Holds, Fresh
    <2>. QED  BY <1>2, <2>1 DEF from_base, ptime_from_base, Read
  <1>3. CASE Holds(type, row) /\ type = "json"
    <2>1. ColumnOf(type, row) = [ind |-> "ok", i |-> <<"text", row.v>>]
      BY <1>3 DEF ColumnOf, to_base, json_to_base, Column, Holds, Fresh
    <2>. QED  BY <1>3, <2>1 DEF from_base, json_from_base, Read
  <1>. QED  BY <1>1, <1>2, <1>3

\* The variable after n rows: the equation that Fetch takes its value from.
Steps(type, cols, L, f) ==
    f = [n \in 0..L |-> IF n = 0 THEN Fresh(type) ELSE from_base(type, cols[n], f[n - 1])]

\* There is such a function.
LEMMA StepsExist ==
    ASSUME NEW type, NEW cols, NEW L \in Nat
    PROVE  \E f : Steps(type, cols, L, f)
  <1>. DEFINE S == {m \in 0..L : \E f : Steps(type, cols, m, f)}
  <1>1. 0 \in S
    <2>. DEFINE f == [n \in 0..0 |-> Fresh(type)]
    <2>1. f = [n \in 0..0 |-> IF n = 0 THEN Fresh(type) ELSE from_base(type, cols[n], f[n - 1])]
      OBVIOUS
    <2>2. Steps(type, cols, 0, f)
      BY <2>1 DEF Steps
    <2>. QED  BY <2>2
  <1>2. ASSUME NEW m \in 0..L, m \in S, m < L PROVE m + 1 \in S
    <2>1. PICK f : Steps(type, cols, m, f)
      BY <1>2
    <2>2. /\ DOMAIN f = 0..m
          /\ \A n \in 0..m :
               f[n] = IF n = 0 THEN Fresh(type) ELSE from_base(type, cols[n], f[n - 1])
      BY <2>1 DEF Steps
    <2>. DEFINE g == [n \in 0..(m + 1) |-> IF n = m + 1 THEN from_base(type, cols[m + 1], f[m])
                                                        ELSE f[n]]
    <2>3. \A n \in 0..(m + 1) :
            g[n] = IF n = 0 THEN Fresh(type) ELSE from_base(type, cols[n], g[n - 1])
      <3>. SUFFICES ASSUME NEW n \in 0..(m + 1)
                    PROVE  g[n] = IF n = 0 THEN Fresh(type) ELSE from_base(type, cols[n], g[n - 1])
        OBVIOUS
      <3>1. CASE n = m + 1
        <4>1. n # 0 /\ n - 1 = m /\ m \in 0..(m + 1) /\ m # m + 1
          BY <3>1
        <4>2. g[n - 1] = f[m]
          BY <4>1
        <4>. QED  BY <3>1, <4>1, <4>2
      <3>2. CASE n \in 0..m
        <4>1. n # m + 1 /\ g[n] = f[n]
          BY <3>2
        <4>2. n # 0 => n - 1 \in 0..(m + 1) /\ n - 1 # m + 1
          BY <3>2
        <4>3. n # 0 => g[n - 1] = f[n - 1]
          BY <4>2
        <4>. QED  BY <2>2, <3>2, <4>1, <4>3
      <3>. QED  BY <3>1, <3>2
    <2>. HIDE DEF g
    <2>4. g = [n \in 0..(m + 1) |-> IF n = 0 THEN Fresh(type)
                                    ELSE from_base(type, cols[n], g[n - 1])]
      <3>1. DOMAIN g = 0..(m + 1) /\ g = [n \in 0..(m + 1) |-> g[n]]
        BY DEF g
      <3>. QED  BY <2>3, <3>1, Zenon
    <2>5. Steps(type, cols, m + 1, g)
      BY <2>4 DEF Steps
    <2>. QED  BY <1>2, <2>5
  <1>. HIDE DEF S
  <1>3. 0..L \subseteq S
    BY <1>1, <1>2, Induction
  <1>4. L \in S
    BY <1>3
  <1>. QED  BY <1>4 DEF S

\* So Fetch is its last value.
LEMMA FetchSteps ==
    ASSUME NEW type, NEW cols, Len(cols) \in Nat
    PROVE  \E f : Fetch(type, cols) = f[Len(cols)] /\ Steps(type, cols, Len(cols), f)
  <1>. DEFINE f == CHOOSE f : Steps(type, cols, Len(cols), f)
  <1>1. Steps(type, cols, Len(cols), f)
    BY StepsExist, Zenon
  <1>2. Fetch(type, cols) = f[Len(cols)]
    BY DEF Fetch, Steps
  <1>. QED  BY <1>1, <1>2, Zenon

\* What is fetched from the rows of one result, however many.
LEMMA RowsFetched ==
    ASSUME NEW type \in Types, NEW L \in Nat, NEW rows, \A n \in 1..L : IsRow(type, rows[n]),
           NEW cols, Len(cols) = L, \A n \in 1..L : cols[n] = ColumnOf(type, rows[n])
    PROVE  LET fetched == Fetch(type, cols)
           IN /\ type \in {"bool", "uuid"} =>
                   fetched = IF L # 0 /\ Holds(type, rows[L]) THEN rows[L].v ELSE Fresh(type)
              /\ type \in {"ptime", "json"} =>
                   /\ (\A k \in 1..L : ~Holds(type, rows[k])) => fetched = Fresh(type)
                   /\ \A m \in 1..L :
                        Holds(type, rows[m]) /\ (\A k \in (m + 1)..L : ~Holds(type, rows[k]))
                            => fetched = Read(type, rows[m])
  <1>1. PICK f : Fetch(type, cols) = f[L] /\ Steps(type, cols, L, f)
    BY FetchSteps
  <1>2. f[0] = Fresh(type) /\ \A n \in 1..L : f[n] = from_base(type, cols[n], f[n - 1])
    BY <1>1 DEF Steps
  <1>3. ASSUME type \in {"bool", "uuid"}
        PROVE  f[L] = IF L # 0 /\ Holds(type, rows[L]) THEN rows[L].v ELSE Fresh(type)
    <2>1. CASE L = 0
      BY <1>2, <2>1
    <2>2. CASE L # 0
      <3>1. L \in 1..L
        BY <2>2
      <3>2. f[L] = from_base(type, ColumnOf(type, rows[L]), f[L - 1])
        BY <1>2, <3>1
      <3>3. IsRow(type, rows[L])
        BY <3>1
      <3>. QED  BY <1>3, <2>2, <3>2, <3>3, RowDecides
    <2>. QED  BY <2>1, <2>2
  <1>4. ASSUME type \in {"ptime", "json"}
        PROVE  /\ (\A k \in 1..L : ~Holds(type, rows[k])) => f[L] = Fresh(type)
               /\ \A m \in 1..L :
                    Holds(type, rows[m]) /\ (\A k \in (m + 1)..L : ~Holds(type, rows[k]))
                        => f[L] = Read(type, rows[m])
    <2>. DEFINE S == {n \in 0..L :
                 /\ (\A k \in 1..n : ~Holds(type, rows[k])) => f[n] = Fresh(type)
                 /\ \A m \in 1..n :
                      Holds(type, rows[m]) /\ (\A k \in (m + 1)..n : ~Holds(type, rows[k]))
                          => f[n] = Read(type, rows[m])}
    <2>1. 0 \in S
      BY <1>2
    <2>2. ASSUME NEW n \in 0..L, n \in S, n < L PROVE n + 1 \in S
      <3>1. n \in Nat /\ n + 1 \in 1..L /\ n + 1 \in 0..L /\ (n + 1) - 1 = n
        BY <2>2
      <3>2. f[n + 1] = from_base(type, ColumnOf(type, rows[n + 1]), f[n])
        BY <1>2, <3>1
      <3>3. IsRow(type, rows[n + 1])
        BY <3>1
      <3>4. f[n + 1] = IF Holds(type, rows[n + 1]) THEN Read(type, rows[n + 1]) ELSE f[n]
        BY <1>4, <3>2, <3>3, RowReplaces
      <3>5. (\A k \in 1..(n + 1) : ~Holds(type, rows[k])) => f[n + 1] = Fresh(type)
        BY <2>2, <3>1, <3>4
      <3>6. ASSUME NEW m \in 1..(n + 1), Holds(type, rows[m]),
                   \A k \in (m + 1)..(n + 1) : ~Holds(type, rows[k])
            PROVE  f[n + 1] = Read(type, rows[m])
        <4>1. CASE m = n + 1
          BY <3>4, <3>6, <4>1
        <4>2. CASE m # n + 1
          <5>1. m \in 1..n /\ n + 1 \in (m + 1)..(n + 1)
            BY <3>1, <4>2
          <5>2. ~Holds(type, rows[n + 1])
            BY <3>6, <5>1
          <5>3. \A k \in (m + 1)..n : k \in (m + 1)..(n + 1)
            BY <3>1
          <5>4. f[n] = Read(type, rows[m])
            BY <2>2, <3>6, <5>1, <5>3
          <5>. QED  BY <3>4, <5>2, <5>4
        <4>. QED  BY <4>1, <4>2
      <3>. QED  BY <3>1, <3>5, <3>6
    <2>3. L \in S
      <3>. HIDE DEF S
      <3>1. 0..L \subseteq S
        BY <2>1, <2>2, Induction
      <3>. QED  BY <3>1
    <2>. QED  BY <2>3
  <1>5. type \in {"bool", "uuid"} =>
          f[L] = IF L # 0 /\ Holds(type, rows[L]) THEN rows[L].v ELSE Fresh(type)
    BY <1>3
  <1>6. type \in {"ptime", "json"} =>
          /\ (\A k \in 1..L : ~Holds(type, rows[k])) => f[L] = Fresh(type)
          /\ \A m \in 1..L :
               Holds(type, rows[m]) /\ (\A k \in (m + 1)..L : ~Holds(type, rows[k]))
                   => f[L] = Read(type, rows[m])
    BY <1>4
  <1>. QED  BY <1>1, <1>5, <1>6 


\* What FetchSeesStored says, for any number of rows.
LEMMA FetchSeesStoredHolds ==
    ASSUME kind = "row" => args \in Types /\ text \in Seq(RowsOf(args))
    PROVE  FetchSeesStored
  <1>. SUFFICES ASSUME kind = "row" PROVE FetchSeesStored
    BY DEF FetchSeesStored
  <1>. DEFINE fetched == Fetch(args, Columns(args, text))
              L == Len(text)
              held == {n \in DOMAIN text : Holds(args, text[n])}
  <1>1. args \in Types /\ text \in Seq(RowsOf(args)) /\ L \in Nat /\ DOMAIN text = 1..L
    OBVIOUS
  <1>. DEFINE cols == Columns(args, text)
  <1>2. \A n \in 1..L : IsRow(args, text[n])
    <2>. SUFFICES ASSUME NEW n \in 1..L, args = "bool", text[n].from = "jkit"
                  PROVE  text[n].v \in BOOLEAN
      BY DEF IsRow
    <2>1. text[n] \in RowsOf(args)
      BY <1>1
    <2>2. text[n] \in [from : {"jkit"}, v : Stored[args]]
      BY <2>1 DEF RowsOf
    <2>3. Stored[args] = BOOLEAN
      BY DEF Stored
    <2>. QED  BY <2>2, <2>3
  <1>3. Len(cols) = L /\ \A n \in 1..L : cols[n] = ColumnOf(args, text[n])
    <2>1. cols = [n \in 1..L |-> ColumnOf(args, text[n])]
      BY <1>1 DEF Columns, ColumnOf
    <2>. HIDE DEF cols
    <2>. QED  BY <1>1, <2>1
  <1>. HIDE DEF cols, L
  <1>4. /\ args \in {"bool", "uuid"} =>
             Fetch(args, cols) = IF L # 0 /\ Holds(args, text[L]) THEN text[L].v ELSE Fresh(args)
        /\ args \in {"ptime", "json"} =>
             /\ (\A k \in 1..L : ~Holds(args, text[k])) => Fetch(args, cols) = Fresh(args)
             /\ \A m \in 1..L :
                  Holds(args, text[m]) /\ (\A k \in (m + 1)..L : ~Holds(args, text[k]))
                      => Fetch(args, cols) = Read(args, text[m])
    BY <1>1, <1>2, <1>3, RowsFetched
  <1>5. Fetch(args, cols) = fetched
    BY DEF cols
  <1>. HIDE DEF fetched
  <1>6. CASE args \in {"bool", "uuid"}
    <2>1. fetched = IF L # 0 /\ Holds(args, text[L]) THEN text[L].v ELSE Fresh(args)
      BY <1>4, <1>5, <1>6
    <2>2. L # 0 <=> text # <<>>
      BY <1>1 DEF L
    <2>. QED  BY <1>6, <2>1, <2>2 DEF FetchSeesStored, Holds, L, fetched
  <1>7. CASE args \in {"ptime", "json"}
    <2>1. /\ (\A k \in 1..L : ~Holds(args, text[k])) => fetched = Fresh(args)
          /\ \A m \in 1..L :
               Holds(args, text[m]) /\ (\A k \in (m + 1)..L : ~Holds(args, text[k]))
                   => fetched = Read(args, text[m])
      BY <1>4, <1>5, <1>7
    <2>2. held = {} => fetched = Fresh(args)
      BY <1>1, <2>1
    <2>3. ASSUME held # {} PROVE fetched = Read(args, text[Max(held)])
      <3>1. held \subseteq 0..L
        BY <1>1
      <3>2. Max(held) \in held /\ \A y \in held : Max(held) >= y
        BY <1>1, <2>3, <3>1, Greatest, Zenon
      <3>. DEFINE m == Max(held)
      <3>3. m \in 1..L /\ Holds(args, text[m]) /\ \A y \in held : m >= y
        BY <1>1, <3>2
      <3>. HIDE DEF m
      <3>4. \A k \in (m + 1)..L : k \in DOMAIN text /\ ~(m >= k)
        BY <1>1, <3>3
      <3>5. \A k \in (m + 1)..L : ~Holds(args, text[k])
        BY <3>3, <3>4
      <3>6. fetched = Read(args, text[m])
        BY <2>1, <3>3, <3>5
      <3>. QED  BY <3>6 DEF m
    <2>4. held = {n \in DOMAIN text : text[n].from = "jkit" /\ text[n].v # Fresh(args)}
      BY DEF Holds
    <2>. HIDE DEF held
    <2>5. args \notin {"bool", "uuid"}
      BY <1>7
    <2>. QED  BY <1>7, <2>2, <2>3, <2>4, <2>5 DEF FetchSeesStored, Read, fetched
  <1>. QED  BY <1>1, <1>6, <1>7 DEF Types

-----------------------------------------------------------------------------
(* Texts *)

\* Character codes other than the terminating NUL.
Codes == Nat \ {0}
Texts == Seq(Codes)

\* The text from the index i on.
Rest(s, i) == SubSeq(s, i, Len(s))

\* A scan ends at the first character in Stop, or past the end of the text.
LEMMA UntilStops ==
    ASSUME NEW s \in Texts, NEW i \in 1..(Len(s) + 1), NEW Stop
    PROVE  LET u == Until(s, i, Stop)
           IN /\ u \in i..(Len(s) + 1)
              /\ \A j \in i..(u - 1) : j \in 1..Len(s) /\ s[j] \notin Stop
              /\ u <= Len(s) => s[u] \in Stop
              /\ \A j \in i..Len(s) : s[j] \in Stop => u <= j
  <1>. DEFINE L == Len(s)
              S == {j \in i..(L + 1) : Char(s, j) \in Stop \cup {0}}
  <1>1. L \in Nat /\ \A j \in 1..L : s[j] # 0
    BY DEF Codes, Texts
  <1>2. L + 1 \in S
    BY <1>1 DEF Char
  <1>3. Min(S) \in S /\ \A y \in S : Min(S) <= y
    <2>1. S \subseteq Nat /\ S # {}
      BY <1>1, <1>2
    <2>. HIDE DEF S
    <2>. QED  BY <2>1, Least, Zenon
  <1>. DEFINE u == Min(S)
  <1>4. u \in i..(L + 1) /\ Char(s, u) \in Stop \cup {0} /\ \A y \in S : u <= y
    BY <1>3
  <1>5. Until(s, i, Stop) = u
    BY DEF Until
  <1>. HIDE DEF u
  <1>6. \A j \in i..L : s[j] \in Stop => u <= j
    BY <1>1, <1>4 DEF Char
  <1>7. \A j \in i..(u - 1) : j \in 1..L /\ s[j] \notin Stop
    <2>. SUFFICES ASSUME NEW j \in i..(u - 1) PROVE j \in 1..L /\ s[j] \notin Stop
      OBVIOUS
    <2>1. j \in i..L /\ j \in 1..L /\ ~(u <= j)
      BY <1>1, <1>4
    <2>. QED  BY <1>6, <2>1
  <1>8. u <= L => s[u] \in Stop
    BY <1>1, <1>4 DEF Char
  <1>. QED  BY <1>4, <1>5, <1>6, <1>7, <1>8

\* A part of a text, and its characters.
LEMMA PartOf ==
    ASSUME NEW s \in Texts, NEW i \in 1..(Len(s) + 2), NEW j \in 0..(Len(s) + 1)
    PROVE  /\ Part(s, i, j) \in Texts
           /\ Len(Part(s, i, j)) = IF i <= j THEN j - i ELSE 0
           /\ \A k \in 1..(j - i) : Part(s, i, j)[k] = s[i + k - 1]
           /\ j <= i => Part(s, i, j) = <<>>
  <1>1. Len(s) \in Nat /\ \A n \in i..(j - 1) : s[n] \in Codes
    BY DEF Texts
  <1>2. /\ SubSeq(s, i, j - 1) \in Texts
        /\ Len(SubSeq(s, i, j - 1)) = IF i <= j - 1 THEN (j - 1) - i + 1 ELSE 0
        /\ \A n \in 1..((j - 1) - i + 1) : SubSeq(s, i, j - 1)[n] = s[i + n - 1]
    BY <1>1, SubSeqIs DEF Texts
  <1>3. j <= i => SubSeq(s, i, j - 1) = <<>>
    BY <1>1, SubSeqNone
  <1>. QED  BY <1>1, <1>2, <1>3 DEF Part

\* A part without the characters at which its scan stops.
LEMMA PartWithout ==
    ASSUME NEW s \in Texts, NEW i \in 1..(Len(s) + 2), NEW j \in 0..(Len(s) + 1), NEW Stop,
           \A k \in i..(j - 1) : s[k] \notin Stop
    PROVE  Without(Part(s, i, j), Stop)
  <1>1. Part(s, i, j) \in Seq(Codes) /\ Len(s) \in Nat
    BY PartOf DEF Texts
  <1>. SUFFICES ASSUME NEW k \in 1..Len(Part(s, i, j)) PROVE Part(s, i, j)[k] \notin Stop
    BY <1>1 DEF Without
  <1>2. i < j /\ k \in 1..(j - i)
    BY <1>1, PartOf
  <1>3. Part(s, i, j)[k] = s[i + k - 1] /\ i + k - 1 \in i..(j - 1)
    BY <1>1, <1>2, PartOf
  <1>. QED  BY <1>3

\* Concatenation, under a name of its own: the provers know of it what CatText,
\* CatAssoc and CatEmpty say.
Cat(a, b) == a \o b

\* Two texts make a text.
LEMMA CatText == \A a, b \in Texts : Cat(a, b) \in Texts
  <1>1. \A a, b \in Texts : a \o b \in Texts
    BY ConcatIs DEF Texts
  <1>. QED  BY <1>1, Zenon DEF Cat

\* Texts may be put together in any order of the steps.
LEMMA CatAssoc == \A a, b, c \in Texts : Cat(Cat(a, b), c) = Cat(a, Cat(b, c))
  <1>1. \A a, b, c \in Texts : (a \o b) \o c = a \o (b \o c)
    BY ConcatOrder DEF Texts
  <1>. QED  BY <1>1, Zenon DEF Cat

\* The empty text adds nothing.
LEMMA CatEmpty == \A a \in Texts : Cat(a, <<>>) = a /\ Cat(<<>>, a) = a
  <1>1. \A a \in Texts : a \o <<>> = a /\ <<>> \o a = a
    BY ConcatNothing, Zenon DEF Texts
  <1>. QED  BY <1>1, Zenon DEF Cat

\* The rest of a text is a text.
LEMMA RestText ==
    ASSUME NEW s \in Texts, NEW i \in 1..(Len(s) + 1)
    PROVE  Rest(s, i) \in Texts
  <1>1. s \in Seq(Codes) /\ Len(s) \in Nat
    BY DEF Texts
  <1>2. \A n \in i..Len(s) : s[n] \in Codes
    BY <1>1
  <1>. QED  BY <1>1, <1>2, SubSeqIs DEF Rest, Texts

\* It is its next part and what follows that part.
LEMMA RestPart ==
    ASSUME NEW s \in Texts, NEW i \in 1..(Len(s) + 1), NEW j \in i..(Len(s) + 1)
    PROVE  Rest(s, i) = Cat(Part(s, i, j), Rest(s, j))
  <1>1. s \in Seq(Codes) /\ Len(s) \in Nat
    BY DEF Texts
  <1>2. j - 1 \in (i - 1)..Len(s) /\ Len(s) \in (j - 1)..Len(s) /\ (j - 1) + 1 = j
    BY <1>1
  <1>3. SubSeq(s, i, j - 1) \o SubSeq(s, (j - 1) + 1, Len(s)) = SubSeq(s, i, Len(s))
    BY <1>1, <1>2, SubSeqParts, Zenon
  <1>. QED  BY <1>2, <1>3, Zenon DEF Rest, Part, Cat

\* It is its next character and what follows that character.
LEMMA RestNext ==
    ASSUME NEW s \in Texts, NEW i \in 1..Len(s)
    PROVE  Rest(s, i) = Cat(<<s[i]>>, Rest(s, i + 1))
  <1>1. s \in Seq(Codes) /\ Len(s) \in Nat
    BY DEF Texts
  <1>2. Len(s) \in i..Len(s)
    BY <1>1
  <1>. QED  BY <1>1, <1>2, SubSeqFirst DEF Rest, Cat

\* It is nothing at the end.
LEMMA RestEnd ==
    ASSUME NEW s \in Texts
    PROVE  Rest(s, Len(s) + 1) = <<>>
  <1>1. Len(s) \in Nat
    BY DEF Texts
  <1>. QED  BY <1>1, SubSeqNone DEF Rest

\* A text after one character.
LEMMA ConsText ==
    ASSUME NEW c \in Codes, NEW s \in Texts
    PROVE  /\ Cat(<<c>>, s) \in Texts /\ Len(s) \in Nat /\ Len(Cat(<<c>>, s)) = Len(s) + 1
           /\ Cat(<<c>>, s)[1] = c /\ \A i \in 1..Len(s) : Cat(<<c>>, s)[i + 1] = s[i]
  <1>1. <<c>> \in Seq(Codes) /\ Len(<<c>>) = 1 /\ <<c>>[1] = c /\ s \in Seq(Codes)
        /\ Len(s) \in Nat
    BY DEF Texts
  <1>2. /\ <<c>> \o s \in Seq(Codes) /\ Len(<<c>> \o s) = Len(<<c>>) + Len(s)
        /\ \A i \in 1..(Len(<<c>>) + Len(s)) :
             (<<c>> \o s)[i] = IF i <= Len(<<c>>) THEN <<c>>[i] ELSE s[i - Len(<<c>>)]
    BY <1>1, ConcatIs
  <1>3. 1 \in 1..(1 + Len(s)) /\ \A i \in 1..Len(s) :
            i + 1 \in 1..(1 + Len(s)) /\ ~(i + 1 <= 1) /\ (i + 1) - 1 = i
    BY <1>1
  <1>. QED  BY <1>1, <1>2, <1>3 DEF Cat, Texts

\* A text after three characters.
LEMMA ThreeText ==
    ASSUME NEW a \in Codes, NEW b \in Codes, NEW c \in Codes, NEW s \in Texts
    PROVE  LET t == Cat(<<a, b, c>>, s)
           IN /\ t \in Texts /\ Len(s) \in Nat /\ Len(t) = Len(s) + 3
              /\ t[1] = a /\ t[2] = b /\ t[3] = c /\ \A i \in 1..Len(s) : t[i + 3] = s[i]
  <1>. DEFINE h == <<a, b, c>>
  <1>1. h \in Seq(Codes) /\ Len(h) = 3 /\ h[1] = a /\ h[2] = b /\ h[3] = c
    OBVIOUS
  <1>. HIDE DEF h
  <1>2. s \in Seq(Codes) /\ Len(s) \in Nat
    BY DEF Texts
  <1>3. /\ h \o s \in Seq(Codes) /\ Len(h \o s) = Len(h) + Len(s)
        /\ \A i \in 1..(Len(h) + Len(s)) :
             (h \o s)[i] = IF i <= Len(h) THEN h[i] ELSE s[i - Len(h)]
    BY <1>1, <1>2, ConcatIs, Zenon
  <1>4. /\ \A i \in 1..3 : i \in 1..(3 + Len(s)) /\ i <= 3
        /\ \A i \in 1..Len(s) : i + 3 \in 1..(3 + Len(s)) /\ ~(i + 3 <= 3) /\ (i + 3) - 3 = i
    BY <1>2
  <1>5. \A i \in 1..3 : (h \o s)[i] = h[i]
    BY <1>1, <1>3, <1>4
  <1>6. \A i \in 1..Len(s) : (h \o s)[i + 3] = s[i]
    BY <1>1, <1>3, <1>4
  <1>7. h \o s \in Texts /\ Len(h \o s) = Len(s) + 3
    BY <1>1, <1>2, <1>3 DEF Texts
  <1>8. (h \o s)[1] = a /\ (h \o s)[2] = b /\ (h \o s)[3] = c
    <2>1. 1 \in 1..3 /\ 2 \in 1..3 /\ 3 \in 1..3
      OBVIOUS
    <2>. QED  BY <1>1, <1>5, <2>1, Zenon
  <1>. QED  BY <1>2, <1>6, <1>7, <1>8 DEF Cat, h

\* The characters of the rest of a text.
LEMMA RestChars ==
    ASSUME NEW s \in Texts, NEW i \in 1..(Len(s) + 1)
    PROVE  /\ Len(Rest(s, i)) = Len(s) + 1 - i
           /\ \A k \in 1..(Len(s) + 1 - i) : Rest(s, i)[k] = s[i + k - 1]
  <1>1. s \in Seq(Codes) /\ Len(s) \in Nat
    BY DEF Texts
  <1>2. \A n \in i..Len(s) : s[n] \in Codes
    BY <1>1
  <1>3. /\ Len(SubSeq(s, i, Len(s))) = IF i <= Len(s) THEN Len(s) - i + 1 ELSE 0
        /\ \A n \in 1..(Len(s) - i + 1) : SubSeq(s, i, Len(s))[n] = s[i + n - 1]
    BY <1>1, <1>2, SubSeqIs
  <1>. QED  BY <1>1, <1>3 DEF Rest

\* The rest of a text after one character.
LEMMA RestCons ==
    ASSUME NEW c \in Codes, NEW s \in Texts, NEW k \in 1..(Len(s) + 1)
    PROVE  Rest(Cat(<<c>>, s), k + 1) = Rest(s, k)
  <1>. DEFINE t == Cat(<<c>>, s)
              a == Rest(t, k + 1)
              b == Rest(s, k)
  <1>1. /\ t \in Texts /\ Len(s) \in Nat /\ Len(t) = Len(s) + 1
        /\ \A i \in 1..Len(s) : t[i + 1] = s[i]
    BY ConsText
  <1>. HIDE DEF t
  <1>2. k + 1 \in 1..(Len(t) + 1)
    BY <1>1
  <1>3. a \in Texts /\ b \in Texts
    BY <1>1, <1>2, RestText
  <1>4. /\ Len(a) = Len(t) + 1 - (k + 1)
        /\ \A n \in 1..(Len(t) + 1 - (k + 1)) : a[n] = t[(k + 1) + n - 1]
    BY <1>1, <1>2, RestChars, Zenon
  <1>5. Len(b) = Len(s) + 1 - k /\ \A n \in 1..(Len(s) + 1 - k) : b[n] = s[k + n - 1]
    BY RestChars
  <1>. HIDE DEF a, b
  <1>6. Len(a) = Len(b)
    BY <1>1, <1>4, <1>5
  <1>7. ASSUME NEW n \in 1..Len(a) PROVE a[n] = b[n]
    <2>1. /\ n \in 1..(Len(t) + 1 - (k + 1)) /\ n \in 1..(Len(s) + 1 - k)
          /\ k + n - 1 \in 1..Len(s) /\ (k + 1) + n - 1 = (k + n - 1) + 1
      BY <1>1, <1>4
    <2>. QED  BY <1>1, <1>4, <1>5, <2>1, Zenon
  <1>8. a = b
    BY <1>3, <1>6, <1>7, SameSeq DEF Texts
  <1>. QED  BY <1>8 DEF a, b, t

\* Sequences after one element differ in it or later.
LEMMA SameAfter ==
    ASSUME NEW x \in Nat, NEW y \in Nat, NEW r \in Seq(Nat), NEW s \in Seq(Nat)
    PROVE  Cat(<<x>>, r) = Cat(<<y>>, s) <=> x = y /\ r = s
  <1>1. \A z \in Nat : <<z>> \in Seq(Nat) /\ Len(<<z>>) = 1 /\ <<z>>[1] = z
    OBVIOUS
  <1>2. \A z \in Nat, q \in Seq(Nat) : (<<z>> \o q)[1] = z
    BY <1>1, ConcatIs
  <1>3. ASSUME <<x>> \o r = <<y>> \o s PROVE x = y /\ r = s
    <2>1. x = y
      BY <1>2, <1>3
    <2>2. <<x>> \o r = <<x>> \o s
      BY <1>3, <2>1
    <2>3. \A p, q, w \in Seq(Nat) : p \o q = p \o w => q = w
      BY ConcatCancel, Zenon
    <2>. QED  BY <1>1, <2>1, <2>2, <2>3, Zenon
  <1>. QED  BY <1>3, Zenon DEF Cat

\* Induction over texts, for sets: what holds for the empty text, and for a text after
\* one more character when it holds for the text, holds for all texts.
LEMMA TextInduction ==
    ASSUME NEW S, <<>> \in S,
           \A c \in Codes, s \in Texts : s \in S => Cat(<<c>>, s) \in S
    PROVE  Texts \subseteq S
  <1>. SUFFICES ASSUME NEW t \in Texts PROVE t \in S
    OBVIOUS
  <1>. DEFINE L == Len(t)
              T == {n \in 0..L : Rest(t, L + 1 - n) \in S}
  <1>1. L \in Nat /\ t \in Seq(Codes)
    BY DEF Texts
  <1>2. 0 \in T
    BY <1>1, RestEnd
  <1>3. ASSUME NEW n \in 0..L, n \in T, n < L PROVE n + 1 \in T
    <2>. DEFINE i == L - n
    <2>1. i \in 1..L /\ i + 1 = L + 1 - n /\ i = L + 1 - (n + 1) /\ i + 1 \in 1..(L + 1)
          /\ n + 1 \in 0..L
      BY <1>1, <1>3
    <2>. HIDE DEF i
    <2>2. Rest(t, i + 1) \in S
      BY <1>3, <2>1
    <2>3. Rest(t, i + 1) \in Texts /\ t[i] \in Codes
      BY <1>1, <2>1, RestText
    <2>4. Rest(t, i) = Cat(<<t[i]>>, Rest(t, i + 1))
      BY <2>1, RestNext
    <2>5. Rest(t, i) \in S
      BY <2>2, <2>3, <2>4
    <2>. QED  BY <2>1, <2>5
  <1>. HIDE DEF T
  <1>4. L \in T
    <2>. HIDE DEF L
    <2>1. 0..L \subseteq T
      BY <1>1, <1>2, <1>3, Induction
    <2>. QED  BY <1>1, <2>1
  <1>5. Rest(t, 1) \in S
    BY <1>1, <1>4 DEF T
  <1>6. Rest(t, 1) = t
    BY <1>1, SubSeqAll DEF Rest
  <1>. QED  BY <1>5, <1>6

-----------------------------------------------------------------------------
(* ParseURL *)

\* The parts of Compose.
QueryText(p, present) == IF "query" \in present THEN Cat(<<Question>>, p.query) ELSE <<>>
FragmentText(p, present) == IF "fragment" \in present THEN Cat(<<Hash>>, p.fragment) ELSE <<>>
PathText(p, present) ==
    IF "path" \in present
    THEN Cat(<<Slash>>, Cat(Cat(p.path, QueryText(p, present)), FragmentText(p, present)))
    ELSE <<>>
PortText(p, present) == IF "port" \in present THEN Cat(<<Colon>>, p.port) ELSE <<>>
PasswordText(p, present) == IF "password" \in present THEN Cat(<<Colon>>, p.password) ELSE <<>>
UserText(p, present) ==
    IF "user" \in present THEN Cat(Cat(p.user, PasswordText(p, present)), <<AtSign>>) ELSE <<>>

\* A result with all its fields.
Results == [error : {"Ok"}, scheme : Texts, user : Texts, password : Texts,
            host : Texts, port : Texts, path : Texts, query : Texts,
            fragment : Texts]

\* The delimiters of a URL are characters, and texts.
LEMMA Delimiters ==
    /\ Slash \in Codes /\ Colon \in Codes /\ Question \in Codes /\ Hash \in Codes
    /\ AtSign \in Codes /\ Open \in Codes /\ Close \in Codes
    /\ <<Slash>> \in Texts /\ <<Colon>> \in Texts /\ <<Question>> \in Texts
    /\ <<Hash>> \in Texts /\ <<AtSign>> \in Texts /\ <<>> \in Texts
    /\ <<Colon, Slash, Slash>> \in Texts
  <1>1. /\ Slash \in Codes /\ Colon \in Codes /\ Question \in Codes /\ Hash \in Codes
        /\ AtSign \in Codes /\ Open \in Codes /\ Close \in Codes
    BY DEF Codes, Slash, Colon, Question, Hash, AtSign, Open, Close
  <1>2. \A c \in Codes : <<c>> \in Texts
    BY DEF Texts
  <1>3. \A c, d, e \in Codes : <<c, d, e>> \in Texts
    BY DEF Texts
  <1>4. <<>> \in Texts
    BY NoneSeq DEF Texts
  <1>. QED  BY <1>1, <1>2, <1>3, <1>4

\* Lines 221-264: the rest from the slash on is the path, the query and the fragment.
LEMMA PathParsed ==
    ASSUME NEW s \in Texts, NEW i \in 1..Len(s), s[i] = Slash, NEW r \in Results
    PROVE  LET p == ParsePath(s, i, r)
           IN /\ p \in Results
              /\ p.scheme = r.scheme /\ p.user = r.user /\ p.password = r.password
              /\ p.host = r.host /\ p.port = r.port
              /\ Without(p.path, {Question, Hash}) /\ Without(p.query, {Hash})
              /\ \E present \in SUBSET {"path", "query", "fragment"} :
                    Rest(s, i) = PathText(p, present)
  <1>. DEFINE L == Len(s)
              pe == Until(s, i + 1, {Hash, Question})
              qe == IF Char(s, pe) = Question THEN Until(s, pe + 1, {Hash}) ELSE pe
              p == ParsePath(s, i, r)
              present == {"path"} \cup (IF Char(s, pe) = Question THEN {"query"} ELSE {})
                                  \cup (IF qe <= L THEN {"fragment"} ELSE {})
  <1>1. L \in Nat /\ i + 1 \in 1..(L + 1) /\ \A j \in 1..L : s[j] # 0
    BY DEF Codes, Texts
  <1>2. /\ pe \in (i + 1)..(L + 1)
        /\ \A j \in (i + 1)..(pe - 1) : s[j] \notin {Question, Hash}
        /\ pe <= L => s[pe] \in {Hash, Question}
    BY <1>1, UntilStops
  <1>3. p = [r EXCEPT !.path = Part(s, i + 1, pe), !.query = Part(s, pe + 1, qe),
                      !.fragment = Rest(s, qe + 1)]
    BY DEF ParsePath, Rest
  <1>. HIDE DEF pe, p
  <1>4. Char(s, pe) = Question => pe <= L /\ s[pe] = Question
    BY <1>1, <1>2 DEF Char, Question
  <1>5. /\ qe \in pe..(L + 1)
        /\ \A j \in (pe + 1)..(qe - 1) : s[j] \notin {Hash}
        /\ qe <= L => s[qe] = Hash
        /\ Char(s, pe) = Question => qe \in (pe + 1)..(L + 1)
    <2>1. CASE Char(s, pe) = Question
      <3>1. pe + 1 \in 1..(L + 1) /\ qe = Until(s, pe + 1, {Hash})
        BY <1>1, <1>2, <1>4, <2>1
      <3>2. /\ qe \in (pe + 1)..(L + 1)
            /\ \A j \in (pe + 1)..(qe - 1) : s[j] \notin {Hash}
            /\ qe <= L => s[qe] \in {Hash}
        BY <3>1, UntilStops
      <3>. HIDE DEF qe
      <3>3. qe \in pe..(L + 1)
        BY <1>1, <1>2, <3>2
      <3>. QED  BY <3>2, <3>3
    <2>2. CASE Char(s, pe) # Question
      BY <1>1, <1>2, <2>2 DEF Char
    <2>. QED  BY <2>1, <2>2, Zenon
  <1>. HIDE DEF qe
  <1>6. /\ Part(s, i + 1, pe) \in Texts /\ Without(Part(s, i + 1, pe), {Question, Hash})
        /\ Part(s, pe + 1, qe) \in Texts /\ Without(Part(s, pe + 1, qe), {Hash})
        /\ Rest(s, qe + 1) \in Texts
    <2>1. /\ i + 1 \in 1..(L + 2) /\ pe \in 0..(L + 1)
          /\ pe + 1 \in 1..(L + 2) /\ qe \in 0..(L + 1)
      BY <1>1, <1>2, <1>5
    <2>2. Part(s, i + 1, pe) \in Texts /\ Part(s, pe + 1, qe) \in Texts
      BY <2>1, PartOf
    <2>3. Without(Part(s, i + 1, pe), {Question, Hash})
      BY <1>2, <2>1, PartWithout
    <2>4. Without(Part(s, pe + 1, qe), {Hash})
      BY <1>5, <2>1, PartWithout
    <2>5. Rest(s, qe + 1) \in Texts
      <3>1. \A n \in (qe + 1)..L : s[n] \in Codes
        BY <1>1, <1>2, <1>5 DEF Texts
      <3>. QED  BY <1>1, <1>2, <1>5, <3>1, SubSeqIs DEF Rest, Texts
    <2>. QED  BY <2>2, <2>3, <2>4, <2>5
  <1>7. /\ p \in Results
        /\ p.scheme = r.scheme /\ p.user = r.user /\ p.password = r.password
        /\ p.host = r.host /\ p.port = r.port
        /\ p.path = Part(s, i + 1, pe) /\ p.query = Part(s, pe + 1, qe)
        /\ p.fragment = Rest(s, qe + 1)
    BY <1>3, <1>6, Zenon DEF Results
  <1>8. pe \in 1..(L + 1) /\ qe \in 1..(L + 1)
    BY <1>1, <1>2, <1>5
  <1>9. /\ Rest(s, qe) \in Texts /\ p.path \in Texts
        /\ QueryText(p, present) \in Texts /\ FragmentText(p, present) \in Texts
    <2>1. Rest(s, qe) \in Texts
      BY <1>8, RestText
    <2>2. p.path \in Texts /\ p.query \in Texts /\ p.fragment \in Texts
      BY <1>6, <1>7
    <2>3. QueryText(p, present) \in Texts /\ FragmentText(p, present) \in Texts
      BY <2>2, Delimiters, CatText DEF QueryText, FragmentText
    <2>. QED  BY <2>1, <2>2, <2>3
  <1>10. Rest(s, qe) = FragmentText(p, present)
    <2>1. CASE qe <= L
      <3>1. Rest(s, qe) = Cat(<<Hash>>, Rest(s, qe + 1))
        BY <1>5, <1>8, <2>1, RestNext
      <3>. QED  BY <1>7, <2>1, <3>1 DEF FragmentText
    <2>2. CASE ~(qe <= L)
      <3>1. qe = L + 1
        BY <1>1, <1>8, <2>2 
      <3>2. Rest(s, qe) = <<>>
        BY <1>8, <3>1, RestEnd
      <3>. QED  BY <2>2, <3>2 DEF FragmentText
    <2>. QED  BY <2>1, <2>2
  <1>11. Rest(s, pe) = Cat(QueryText(p, present), Rest(s, qe))
    <2>1. CASE Char(s, pe) = Question
      <3>1. Rest(s, pe) = Cat(<<Question>>, Rest(s, pe + 1))
        BY <1>4, <1>8, <2>1, RestNext
      <3>2. pe + 1 \in 1..(L + 1) /\ qe \in (pe + 1)..(L + 1)
        BY <1>1, <1>4, <1>5, <1>8, <2>1
      <3>3. Rest(s, pe + 1) = Cat(p.query, Rest(s, qe))
        BY <1>7, <3>2, RestPart
      <3>4. QueryText(p, present) = Cat(<<Question>>, p.query)
        BY <2>1 DEF QueryText
      <3>5. p.query \in Texts /\ <<Question>> \in Texts
        BY <1>6, <1>7, Delimiters
      <3>. HIDE DEF present
      <3>6. Cat(Cat(<<Question>>, p.query), Rest(s, qe)) = Cat(<<Question>>, Cat(p.query, Rest(s, qe)))
        BY <1>9, <3>5, CatAssoc
      <3>. QED  BY <3>1, <3>3, <3>4, <3>6
    <2>2. CASE Char(s, pe) # Question
      <3>1. qe = pe /\ QueryText(p, present) = <<>>
        BY <2>2 DEF QueryText, qe
      <3>. HIDE DEF present
      <3>. QED  BY <1>9, <3>1, CatEmpty
    <2>. QED  BY <2>1, <2>2
  <1>12. Rest(s, i) = PathText(p, present)
    <2>1. Rest(s, i) = Cat(<<Slash>>, Rest(s, i + 1))
      BY <1>1, RestNext
    <2>2. Rest(s, i + 1) = Cat(p.path, Rest(s, pe))
      BY <1>1, <1>2, <1>7, RestPart
    <2>3. "path" \in present
      OBVIOUS
    <2>. HIDE DEF present
    <2>4. Rest(s, i + 1) = Cat(Cat(p.path, QueryText(p, present)), FragmentText(p, present))
      <3>1. Cat(Cat(p.path, QueryText(p, present)), FragmentText(p, present))
              = Cat(p.path, Cat(QueryText(p, present), FragmentText(p, present)))
        BY <1>9, CatAssoc
      <3>. QED  BY <1>10, <1>11, <2>2, <3>1
    <2>. QED  BY <2>1, <2>3, <2>4 DEF PathText
  <1>13. present \in SUBSET {"path", "query", "fragment"}
    OBVIOUS
  <1>. HIDE DEF present
  <1>. QED  BY <1>6, <1>7, <1>12, <1>13 DEF p

\* A host in brackets ends with its bracket, or takes all the rest.
HostClean(p) ==
    IF Char(p.host, 1) = Open
    THEN p.host[Len(p.host)] = Close \/ p.port \o p.path = <<>>
    ELSE Without(p.host, {Colon, Slash})

\* Lines 164-184.
LEMMA HostEnds ==
    ASSUME NEW s \in Texts, NEW i \in 1..(Len(s) + 1)
    PROVE  LET he == HostEnd(s, i)
           IN /\ he \in i..(Len(s) + 1)
              /\ Char(s, i) = Open => he = Len(s) + 1 \/ (i < he /\ s[he - 1] = Close)
              /\ Char(s, i) # Open => \A j \in i..(he - 1) : s[j] \notin {Colon, Slash}
  <1>. DEFINE L == Len(s)
              he == HostEnd(s, i)
              close == Until(s, i, {Close})
  <1>1. L \in Nat
    BY DEF Texts
  <1>2. CASE Char(s, i) = Open
    <2>1. he = IF close <= L THEN close + 1 ELSE close
      BY <1>2 DEF HostEnd
    <2>2. close \in i..(L + 1) /\ (close <= L => s[close] = Close)
      BY UntilStops
    <2>. HIDE DEF he, close
    <2>3. CASE close <= L
      BY <1>1, <1>2, <2>1, <2>2, <2>3 DEF he
    <2>4. CASE ~(close <= L)
      BY <1>1, <1>2, <2>1, <2>2, <2>4 DEF he
    <2>. QED  BY <2>3, <2>4
  <1>3. CASE Char(s, i) # Open
    <2>1. he = Until(s, i, {Colon, Slash})
      BY <1>3 DEF HostEnd
    <2>. QED  BY <1>3, <2>1, UntilStops
  <1>. QED  BY <1>2, <1>3

\* What ParseHost makes of the rest from i on, with what r holds already.
HostOk(s, i, r, p) ==
    /\ p.error \in {"Ok", "NoSlash"}
    /\ p.error = "Ok" =>
         /\ p \in Results
         /\ p.scheme = r.scheme /\ p.user = r.user /\ p.password = r.password
         /\ HostClean(p) /\ Without(p.port, {Slash})
         /\ Without(p.path, {Question, Hash}) /\ Without(p.query, {Hash})
         /\ \E present \in SUBSET {"port", "path", "query", "fragment"} :
              Rest(s, i) = Cat(Cat(p.host, PortText(p, present)), PathText(p, present))

\* Lines 164-219: the rest is the host, the port and the path with what follows it.
LEMMA HostParsed ==
    ASSUME NEW s \in Texts, NEW i \in 1..(Len(s) + 1), NEW r \in Results, r.path = <<>>,
           r.query = <<>>
    PROVE  HostOk(s, i, r, ParseHost(s, i, r))
  <1>. DEFINE L == Len(s)
              he == HostEnd(s, i)
              pe == IF Char(s, he) = Colon THEN Until(s, he + 1, {Slash}) ELSE he
              found == [r EXCEPT !.host = Part(s, i, he), !.port = Part(s, he + 1, pe)]
              p == ParseHost(s, i, r)
              port == IF Char(s, he) = Colon THEN {"port"} ELSE {}
              WellRead(q) == /\ q \in Results
                           /\ q.scheme = r.scheme /\ q.user = r.user /\ q.password = r.password
                           /\ q.host = Part(s, i, he) /\ q.port = Part(s, he + 1, pe)
  <1>1. L \in Nat /\ \A j \in 1..L : s[j] # 0
    BY DEF Codes, Texts
  <1>2. /\ he \in i..(L + 1) /\ he \in 1..(L + 1)
        /\ Char(s, i) = Open => he = L + 1 \/ (i < he /\ s[he - 1] = Close)
        /\ Char(s, i) # Open => \A j \in i..(he - 1) : s[j] \notin {Colon, Slash}
    <2>1. he \in i..(L + 1)
      BY HostEnds
    <2>2. he \in 1..(L + 1)
      BY <1>1, <2>1
    <2>. QED  BY <2>1, <2>2, HostEnds
  <1>3. p = CASE pe > L -> found
              [] Char(s, pe) = Slash -> ParsePath(s, pe, found)
              [] OTHER -> Failed("NoSlash")
    BY DEF ParseHost
  <1>. HIDE DEF he, p
  <1>4. Char(s, he) = Colon => he <= L /\ s[he] = Colon
    BY <1>1, <1>2 DEF Char, Colon
  <1>5. /\ pe \in he..(L + 1)
        /\ \A j \in (he + 1)..(pe - 1) : s[j] \notin {Slash}
        /\ Char(s, he) = Colon => pe \in (he + 1)..(L + 1)
        /\ Char(s, he) # Colon => pe = he
    <2>1. CASE Char(s, he) = Colon
      <3>1. he + 1 \in 1..(L + 1) /\ pe = Until(s, he + 1, {Slash})
        BY <1>1, <1>2, <1>4, <2>1
      <3>. HIDE DEF pe
      <3>2. /\ pe \in (he + 1)..(L + 1)
            /\ \A j \in (he + 1)..(pe - 1) : s[j] \notin {Slash}
        BY <3>1, UntilStops
      <3>3. pe \in he..(L + 1)
        BY <1>1, <1>2, <3>2
      <3>. QED  BY <2>1, <3>2, <3>3
    <2>2. CASE Char(s, he) # Colon
      BY <1>1, <1>2, <2>2
    <2>. QED  BY <2>1, <2>2, Zenon
  <1>. HIDE DEF pe
  <1>6. pe \in 1..(L + 1)
    BY <1>1, <1>2, <1>5
  <1>7. /\ Part(s, i, he) \in Texts /\ Part(s, he + 1, pe) \in Texts
        /\ Without(Part(s, he + 1, pe), {Slash})
    <2>1. /\ i \in 1..(L + 2) /\ he \in 0..(L + 1)
          /\ he + 1 \in 1..(L + 2) /\ pe \in 0..(L + 1)
      BY <1>1, <1>2, <1>6
    <2>2. Part(s, i, he) \in Texts /\ Part(s, he + 1, pe) \in Texts
      BY <2>1, PartOf
    <2>3. Without(Part(s, he + 1, pe), {Slash})
      BY <1>5, <2>1, PartWithout
    <2>. QED  BY <2>2, <2>3
  <1>8. WellRead(found) /\ found.path = <<>> /\ found.query = <<>>
    BY <1>7, Zenon DEF Results
  <1>. HIDE DEF found
  <1>9. ASSUME NEW q, WellRead(q), he = L + 1 => q.path = <<>>
        PROVE  HostClean(q) /\ Without(q.port, {Slash})
    <2>1. i \in 1..(L + 2) /\ he \in 0..(L + 1)
      BY <1>1, <1>2
    <2>2. /\ Len(q.host) = he - i
          /\ \A k \in 1..(he - i) : q.host[k] = s[i + k - 1]
      BY <1>1, <1>2, <1>9, <2>1, PartOf
    <2>3. CASE Char(q.host, 1) = Open
      <3>1. i < he /\ i <= L /\ s[i] = Open
        <4>1. 1 <= Len(q.host) /\ q.host[1] = Open
          BY <2>3 DEF Char, Open
        <4>. QED  BY <1>1, <1>2, <2>2, <4>1
      <3>2. he = L + 1 \/ s[he - 1] = Close
        BY <1>2, <3>1 DEF Char
      <3>3. CASE s[he - 1] = Close
        <4>1. he - i \in 1..(he - i) /\ i + (he - i) - 1 = he - 1
          BY <1>1, <1>2, <3>1
        <4>2. q.host[Len(q.host)] = Close
          BY <2>2, <3>3, <4>1
        <4>. QED  BY <1>7, <1>9, <2>3, <4>2 DEF HostClean
      <3>4. CASE he = L + 1
        <4>1. pe = he
          BY <1>1, <1>4, <1>5, <3>4
        <4>2. he + 1 \in 1..(L + 2) /\ pe \in 0..(L + 1) /\ pe <= he + 1
          BY <1>1, <3>4, <4>1
        <4>3. q.port = <<>> /\ q.path = <<>>
          BY <1>9, <3>4, <4>2, PartOf, Zenon
        <4>4. q.port \o q.path = <<>>
          BY <4>3
        <4>. QED  BY <1>7, <1>9, <2>3, <4>4 DEF HostClean
      <3>. QED  BY <3>2, <3>3, <3>4
    <2>4. CASE Char(q.host, 1) # Open
      <3>1. \A j \in i..(he - 1) : s[j] \notin {Colon, Slash}
        <4>1. CASE Char(s, i) # Open
          BY <1>2, <4>1
        <4>2. CASE i = he
          BY <1>1, <4>2
        <4>3. CASE i # he /\ Char(s, i) = Open
          <5>1. i <= L /\ 1 \in 1..(he - i) /\ 1 <= he - i /\ i + 1 - 1 = i
            BY <1>1, <1>2, <4>3
          <5>2. Char(q.host, 1) = s[i]
            BY <2>2, <5>1 DEF Char
          <5>. QED  BY <2>4, <4>3, <5>1, <5>2 DEF Char
        <4>. QED  BY <4>1, <4>2, <4>3
      <3>2. Without(Part(s, i, he), {Colon, Slash})
        BY <2>1, <3>1, PartWithout
      <3>. QED  BY <1>7, <1>9, <2>4, <3>2 DEF HostClean
    <2>. QED  BY <2>3, <2>4
  <1>10. ASSUME NEW q, WellRead(q), NEW present, "port" \in present <=> Char(s, he) = Colon
         PROVE  /\ Rest(s, he) = Cat(PortText(q, present), Rest(s, pe))
                /\ PortText(q, present) \in Texts
    <2>1. Rest(s, pe) \in Texts
      BY <1>6, RestText
    <2>2. PortText(q, present) \in Texts
      BY <1>7, <1>10, Delimiters, CatText DEF PortText
    <2>3. CASE Char(s, he) = Colon
      <3>1. Rest(s, he) = Cat(<<Colon>>, Rest(s, he + 1))
        BY <1>2, <1>4, <2>3, RestNext
      <3>2. he + 1 \in 1..(L + 1) /\ pe \in (he + 1)..(L + 1)
        BY <1>1, <1>2, <1>4, <1>5, <2>3
      <3>3. Rest(s, he + 1) = Cat(q.port, Rest(s, pe))
        BY <1>10, <3>2, RestPart
      <3>4. PortText(q, present) = Cat(<<Colon>>, q.port)
        BY <1>10, <2>3 DEF PortText
      <3>5. Cat(Cat(<<Colon>>, q.port), Rest(s, pe)) = Cat(<<Colon>>, Cat(q.port, Rest(s, pe)))
        BY <1>7, <1>10, <2>1, Delimiters, CatAssoc
      <3>. QED  BY <2>2, <3>1, <3>3, <3>4, <3>5
    <2>4. CASE Char(s, he) # Colon
      <3>1. PortText(q, present) = <<>> /\ pe = he
        BY <1>5, <1>10, <2>4 DEF PortText
      <3>. QED  BY <2>1, <2>2, <3>1, CatEmpty
    <2>. QED  BY <2>3, <2>4
  <1>11. ASSUME NEW q, WellRead(q), NEW present, "port" \in present <=> Char(s, he) = Colon,
                Rest(s, pe) = PathText(q, present)
         PROVE  Rest(s, i) = Cat(Cat(q.host, PortText(q, present)), PathText(q, present))
    <2>1. Rest(s, pe) \in Texts
      BY <1>6, RestText
    <2>2. /\ Rest(s, he) = Cat(PortText(q, present), Rest(s, pe))
          /\ PortText(q, present) \in Texts
      BY <1>10, <1>11
    <2>3. Rest(s, i) = Cat(q.host, Rest(s, he))
      BY <1>2, <1>11, RestPart
    <2>4. Cat(Cat(q.host, PortText(q, present)), Rest(s, pe))
            = Cat(q.host, Cat(PortText(q, present), Rest(s, pe)))
      BY <1>7, <1>11, <2>1, <2>2, CatAssoc
    <2>. QED  BY <1>11, <2>2, <2>3, <2>4
  <1>12. CASE pe > L
    <2>1. p = found /\ WellRead(p) /\ p.path = <<>> /\ p.query = <<>>
      <3>1. ~(Char(s, pe) = Slash)
        BY <1>1, <1>6, <1>12 DEF Char, Slash
      <3>2. p = found
        BY <1>3, <1>12, <3>1
      <3>. QED  BY <1>8, <3>2
    <2>2. p.error = "Ok"
      BY <2>1 DEF Results
    <2>3. Without(p.path, {Question, Hash}) /\ Without(p.query, {Hash})
      <3>1. Without(<<>>, {Question, Hash}) /\ Without(<<>>, {Hash})
        BY DEF Without
      <3>. QED  BY <2>1, <3>1
    <2>4. Rest(s, pe) = PathText(p, port)
      <3>1. pe = L + 1
        BY <1>1, <1>6, <1>12
      <3>2. Rest(s, pe) = <<>>
        BY <1>6, <3>1, RestEnd
      <3>. QED  BY <3>2 DEF PathText
    <2>5. Rest(s, i) = Cat(Cat(p.host, PortText(p, port)), PathText(p, port))
      BY <1>11, <2>1, <2>4
    <2>6. port \in SUBSET {"port", "path", "query", "fragment"}
      OBVIOUS
    <2>. HIDE DEF port
    <2>. QED  BY <1>9, <2>1, <2>2, <2>3, <2>5, <2>6, Zenon DEF p, HostOk
  <1>13. CASE ~(pe > L) /\ Char(s, pe) = Slash
    <2>1. p = ParsePath(s, pe, found) /\ pe \in 1..L /\ s[pe] = Slash /\ found \in Results
      <3>1. p = ParsePath(s, pe, found)
        BY <1>3, <1>13
      <3>2. pe \in 1..L /\ s[pe] = Slash
        BY <1>1, <1>6, <1>13 DEF Char
      <3>. QED  BY <1>8, <3>1, <3>2
    <2>2. /\ p \in Results
          /\ p.scheme = found.scheme /\ p.user = found.user /\ p.password = found.password
          /\ p.host = found.host /\ p.port = found.port
          /\ Without(p.path, {Question, Hash}) /\ Without(p.query, {Hash})
          /\ \E present \in SUBSET {"path", "query", "fragment"} : Rest(s, pe) = PathText(p, present)
      BY <2>1, PathParsed, Zenon
    <2>3. WellRead(p) /\ p.error = "Ok"
      BY <1>8, <2>2 DEF Results
    <2>4. PICK rest \in SUBSET {"path", "query", "fragment"} : Rest(s, pe) = PathText(p, rest)
      BY <2>2, Zenon
    <2>. DEFINE present == port \cup rest
    <2>5. /\ present \in SUBSET {"port", "path", "query", "fragment"}
          /\ "port" \in present <=> Char(s, he) = Colon
          /\ "path" \in present <=> "path" \in rest
          /\ "query" \in present <=> "query" \in rest
          /\ "fragment" \in present <=> "fragment" \in rest
      OBVIOUS
    <2>. HIDE DEF present
    <2>6. Rest(s, pe) = PathText(p, present)
      BY <2>4, <2>5 DEF PathText, QueryText, FragmentText
    <2>7. Rest(s, i) = Cat(Cat(p.host, PortText(p, present)), PathText(p, present))
      BY <1>11, <2>3, <2>5, <2>6
    <2>8. he # L + 1
      BY <1>1, <1>5, <1>6, <2>1
    <2>9. HostClean(p) /\ Without(p.port, {Slash})
      BY <1>9, <2>3, <2>8, Zenon
    <2>. QED  BY <2>2, <2>3, <2>5, <2>7, <2>9 DEF p, HostOk
  <1>14. CASE ~(pe > L) /\ Char(s, pe) # Slash
    <2>1. p = [error |-> "NoSlash"]
      BY <1>3, <1>14 DEF Failed
    <2>2. p.error = "NoSlash"
      BY <2>1
    <2>. QED  BY <2>2 DEF p, HostOk
  <1>. QED  BY <1>12, <1>13, <1>14

\* The same for ParseUser.
UserOk(s, i, r, p) ==
    /\ p.error \in {"Ok", "NoSlash"}
    /\ p.error = "Ok" =>
         /\ p \in Results /\ p.scheme = r.scheme
         /\ Without(p.user, {Colon, AtSign, Slash}) /\ Without(p.password, {AtSign, Slash})
         /\ HostClean(p) /\ Without(p.port, {Slash})
         /\ Without(p.path, {Question, Hash}) /\ Without(p.query, {Hash})
         /\ \E present \in SUBSET Optional :
              Rest(s, i) = Cat(UserText(p, present), Cat(Cat(p.host, PortText(p, present)),
                                                         PathText(p, present)))

\* Lines 104-162: the rest is the user, the host and what follows it.  When an at sign
\* comes before any slash, the scans for the user name and for the password reach one.
LEMMA UserParsed ==
    ASSUME NEW s \in Texts, NEW i \in 1..(Len(s) + 1), NEW r \in Results, r.path = <<>>,
           r.query = <<>>, r.user = <<>>, r.password = <<>>
    PROVE  UserOk(s, i, r, ParseUser(s, i, r))
  <1>. DEFINE L == Len(s)
              at == Until(s, i, {AtSign, Slash})
              ne == Until(s, i, {Colon, AtSign})
              pe == IF Char(s, ne) = Colon THEN Until(s, ne + 1, {AtSign}) ELSE ne
              named == [r EXCEPT !.user = Part(s, i, ne), !.password = Part(s, ne + 1, pe)]
              p == ParseUser(s, i, r)
  <1>1. L \in Nat /\ \A j \in 1..L : s[j] # 0
    BY DEF Codes, Texts
  <1>2. /\ at \in i..(L + 1)
        /\ \A j \in i..(at - 1) : s[j] \notin {AtSign, Slash}
    BY UntilStops
  <1>3. /\ Char(s, at) # AtSign => p = ParseHost(s, i, r)
        /\ Char(s, at) = AtSign =>
             p = IF Char(s, pe) # AtSign THEN Failed("NoAtSign") ELSE ParseHost(s, pe + 1, named)
    BY DEF ParseUser
  <1>. HIDE DEF at, p
  <1>4. ASSUME NEW h \in 1..(L + 1), NEW q \in Results, q.path = <<>>, q.query = <<>>,
               q.scheme = r.scheme, p = ParseHost(s, h, q),
               Without(q.user, {Colon, AtSign, Slash}), Without(q.password, {AtSign, Slash}),
               NEW user \in SUBSET {"user", "password"}, Rest(s, i) = Cat(UserText(q, user), Rest(s, h))
        PROVE  UserOk(s, i, r, p)
    <2>1. /\ p.error \in {"Ok", "NoSlash"}
          /\ p.error = "Ok" =>
               /\ p \in Results
               /\ p.scheme = q.scheme /\ p.user = q.user /\ p.password = q.password
               /\ HostClean(p) /\ Without(p.port, {Slash})
               /\ Without(p.path, {Question, Hash}) /\ Without(p.query, {Hash})
               /\ \E present \in SUBSET {"port", "path", "query", "fragment"} :
                    Rest(s, h) = Cat(Cat(p.host, PortText(p, present)), PathText(p, present))
      <3>1. HostOk(s, h, q, p)
        BY <1>4, HostParsed
      <3>. QED  BY <3>1, Zenon DEF HostOk
    <2>2. ASSUME p.error = "Ok"
          PROVE  \E present \in SUBSET Optional :
                    Rest(s, i) = Cat(UserText(p, present), Cat(Cat(p.host, PortText(p, present)),
                                                               PathText(p, present)))
      <3>1. PICK rest \in SUBSET {"port", "path", "query", "fragment"} :
                Rest(s, h) = Cat(Cat(p.host, PortText(p, rest)), PathText(p, rest))
        BY <2>1, <2>2
      <3>. DEFINE present == user \cup rest
      <3>2. /\ present \in SUBSET Optional
            /\ "user" \in present <=> "user" \in user
            /\ "password" \in present <=> "password" \in user
            /\ "port" \in present <=> "port" \in rest
            /\ "path" \in present <=> "path" \in rest
            /\ "query" \in present <=> "query" \in rest
            /\ "fragment" \in present <=> "fragment" \in rest
        BY DEF Optional
      <3>. HIDE DEF present
      <3>3. UserText(p, present) = UserText(q, user)
        BY <2>1, <2>2, <3>2 DEF UserText, PasswordText
      <3>4. PortText(p, present) = PortText(p, rest) /\ PathText(p, present) = PathText(p, rest)
        BY <3>2 DEF PortText, PathText, QueryText, FragmentText
      <3>5. Rest(s, i) = Cat(UserText(p, present), Cat(Cat(p.host, PortText(p, present)),
                                                       PathText(p, present)))
        BY <1>4, <3>1, <3>3, <3>4
      <3>. QED  BY <3>2, <3>5
    <2>. QED  BY <1>4, <2>1, <2>2 DEF UserOk
  <1>5. CASE Char(s, at) # AtSign
    <2>1. p = ParseHost(s, i, r)
      BY <1>3, <1>5
    <2>2. Without(r.user, {Colon, AtSign, Slash}) /\ Without(r.password, {AtSign, Slash})
      <3>1. Without(<<>>, {Colon, AtSign, Slash}) /\ Without(<<>>, {AtSign, Slash})
        BY DEF Without
      <3>. QED  BY <3>1
    <2>3. Rest(s, i) = Cat(UserText(r, {}), Rest(s, i))
      <3>1. UserText(r, {}) = <<>>
        BY DEF UserText
      <3>2. Rest(s, i) \in Texts
        BY RestText
      <3>. QED  BY <3>1, <3>2, CatEmpty
    <2>4. {} \in SUBSET {"user", "password"}
      OBVIOUS
    <2>. QED  BY <1>4, <2>1, <2>2, <2>3, <2>4, Zenon DEF p
  <1>6. CASE Char(s, at) = AtSign
    <2>1. at \in i..L /\ s[at] = AtSign
      BY <1>1, <1>2, <1>6 DEF Char, AtSign
    <2>2. /\ ne \in i..at /\ ne \in 1..L
          /\ \A j \in i..(ne - 1) : s[j] \notin {Colon, AtSign, Slash}
          /\ s[ne] \in {Colon, AtSign}
      <3>1. /\ ne \in i..(L + 1)
            /\ \A j \in i..(ne - 1) : s[j] \notin {Colon, AtSign}
            /\ ne <= L => s[ne] \in {Colon, AtSign}
            /\ \A j \in i..L : s[j] \in {Colon, AtSign} => ne <= j
        BY UntilStops
      <3>. HIDE DEF ne
      <3>2. ne <= at
        BY <2>1, <3>1
      <3>3. ne \in i..at /\ ne \in 1..L /\ ne <= L
        BY <1>1, <2>1, <3>1, <3>2
      <3>4. \A j \in i..(ne - 1) : j \in i..(at - 1)
        BY <1>1, <2>1, <3>3
      <3>. QED  BY <1>2, <3>1, <3>3, <3>4
    <2>. HIDE DEF ne
    <2>3. Char(s, ne) = s[ne]
      BY <1>1, <2>2 DEF Char
    <2>4. /\ pe \in ne..at /\ s[pe] = AtSign
          /\ \A j \in (ne + 1)..(pe - 1) : s[j] \notin {AtSign, Slash}
          /\ s[ne] = Colon => pe \in (ne + 1)..(L + 1)
          /\ s[ne] # Colon => pe = ne
      <3>1. CASE s[ne] = Colon
        <4>1. ne # at
          BY <2>1, <3>1 DEF Colon, AtSign
        <4>2. pe = Until(s, ne + 1, {AtSign}) /\ ne + 1 \in 1..(L + 1)
          BY <1>1, <2>2, <2>3, <3>1
        <4>. HIDE DEF pe
        <4>3. /\ pe \in (ne + 1)..(L + 1)
              /\ \A j \in (ne + 1)..(pe - 1) : s[j] \notin {AtSign}
              /\ pe <= L => s[pe] \in {AtSign}
              /\ \A j \in (ne + 1)..L : s[j] \in {AtSign} => pe <= j
          BY <4>2, UntilStops
        <4>4. at \in (ne + 1)..L
          BY <1>1, <2>1, <2>2, <4>1
        <4>5. pe <= at
          BY <2>1, <4>3, <4>4
        <4>6. pe \in ne..at /\ pe <= L
          BY <1>1, <2>1, <2>2, <4>3, <4>5
        <4>7. \A j \in (ne + 1)..(pe - 1) : j \in i..(at - 1)
          BY <1>1, <2>1, <2>2, <4>6
        <4>. QED  BY <1>2, <3>1, <4>3, <4>6, <4>7
      <3>2. CASE s[ne] # Colon
        <4>1. pe = ne /\ s[ne] = AtSign
          BY <2>2, <2>3, <3>2
        <4>. HIDE DEF pe
        <4>. QED  BY <1>1, <2>1, <2>2, <3>2, <4>1
      <3>. QED  BY <3>1, <3>2, Zenon
    <2>5. p = ParseHost(s, pe + 1, named)
      <3>1. pe \in 1..L
        BY <1>1, <2>1, <2>2, <2>4
      <3>2. Char(s, pe) = AtSign
        BY <1>1, <2>4, <3>1 DEF Char
      <3>. QED  BY <1>3, <1>6, <3>2
    <2>6. s[ne] = Colon <=> Char(s, ne) = Colon
      BY <2>3
    <2>. HIDE DEF pe
    <2>7. pe \in 1..L /\ pe \in 1..(L + 1) /\ pe + 1 \in 1..(L + 1) /\ ne \in 1..(L + 1)
      BY <1>1, <2>1, <2>2, <2>4
    <2>8. /\ Part(s, i, ne) \in Texts /\ Part(s, ne + 1, pe) \in Texts
          /\ Without(Part(s, i, ne), {Colon, AtSign, Slash})
          /\ Without(Part(s, ne + 1, pe), {AtSign, Slash})
      <3>1. /\ i \in 1..(L + 2) /\ ne \in 0..(L + 1)
            /\ ne + 1 \in 1..(L + 2) /\ pe \in 0..(L + 1)
        BY <1>1, <2>2, <2>7
      <3>2. Part(s, i, ne) \in Texts /\ Part(s, ne + 1, pe) \in Texts
        BY <3>1, PartOf
      <3>3. Without(Part(s, i, ne), {Colon, AtSign, Slash})
        BY <2>2, <3>1, PartWithout
      <3>4. Without(Part(s, ne + 1, pe), {AtSign, Slash})
        BY <2>4, <3>1, PartWithout
      <3>. QED  BY <3>2, <3>3, <3>4
    <2>9. /\ named \in Results /\ named.scheme = r.scheme
          /\ named.path = <<>> /\ named.query = <<>>
          /\ named.user = Part(s, i, ne) /\ named.password = Part(s, ne + 1, pe)
      BY <2>8, Zenon DEF Results
    <2>. HIDE DEF named
    <2>. DEFINE user == {"user"} \cup (IF s[ne] = Colon THEN {"password"} ELSE {})
                password == PasswordText(named, user)
    <2>10. Rest(s, pe) \in Texts /\ Rest(s, pe + 1) \in Texts /\ password \in Texts
      <3>1. Rest(s, pe) \in Texts /\ Rest(s, pe + 1) \in Texts
        BY <2>7, RestText
      <3>2. password \in Texts
        BY <2>8, <2>9, Delimiters, CatText DEF PasswordText
      <3>. QED  BY <3>1, <3>2
    <2>11. Rest(s, ne) = Cat(password, Rest(s, pe))
      <3>1. CASE s[ne] = Colon
        <4>1. Rest(s, ne) = Cat(<<Colon>>, Rest(s, ne + 1))
          BY <2>2, <2>7, <3>1, RestNext
        <4>2. ne + 1 \in 1..(L + 1) /\ pe \in (ne + 1)..(L + 1)
          BY <1>1, <2>2, <2>4, <3>1
        <4>3. Rest(s, ne + 1) = Cat(named.password, Rest(s, pe))
          BY <2>9, <4>2, RestPart
        <4>4. password = Cat(<<Colon>>, named.password)
          BY <3>1 DEF PasswordText
        <4>5. Cat(Cat(<<Colon>>, named.password), Rest(s, pe))
                = Cat(<<Colon>>, Cat(named.password, Rest(s, pe)))
          BY <2>8, <2>9, <2>10, Delimiters, CatAssoc
        <4>. HIDE DEF password
        <4>. QED  BY <4>1, <4>3, <4>4, <4>5
      <3>2. CASE s[ne] # Colon
        <4>1. password = <<>> /\ pe = ne
          BY <2>4, <3>2 DEF PasswordText
        <4>. HIDE DEF password
        <4>. QED  BY <2>10, <4>1, CatEmpty
      <3>. QED  BY <3>1, <3>2
    <2>12. Rest(s, i) = Cat(UserText(named, user), Rest(s, pe + 1))
      <3>1. Rest(s, i) = Cat(named.user, Rest(s, ne))
        <4>1. ne \in i..(L + 1)
          BY <1>1, <2>2
        <4>. QED  BY <2>9, <4>1, RestPart
      <3>2. Rest(s, pe) = Cat(<<AtSign>>, Rest(s, pe + 1))
        BY <2>4, <2>7, RestNext
      <3>3. UserText(named, user) = Cat(Cat(named.user, password), <<AtSign>>)
        BY DEF UserText
      <3>. HIDE DEF password, user
      <3>4. named.user \in Texts /\ Cat(named.user, password) \in Texts
        BY <2>8, <2>9, <2>10, CatText
      <3>5. Cat(Cat(Cat(named.user, password), <<AtSign>>), Rest(s, pe + 1))
              = Cat(Cat(named.user, password), Cat(<<AtSign>>, Rest(s, pe + 1)))
        BY <2>10, <3>4, Delimiters, CatAssoc
      <3>6. Cat(Cat(named.user, password), Rest(s, pe))
              = Cat(named.user, Cat(password, Rest(s, pe)))
        BY <2>10, <3>4, CatAssoc
      <3>. QED  BY <2>11, <3>1, <3>2, <3>3, <3>5, <3>6
    <2>13. user \in SUBSET {"user", "password"}
      OBVIOUS
    <2>. HIDE DEF user
    <2>14. Without(named.user, {Colon, AtSign, Slash}) /\ Without(named.password, {AtSign, Slash})
      BY <2>8, <2>9
    <2>. QED  BY <1>4, <2>5, <2>7, <2>9, <2>12, <2>13, <2>14, Zenon DEF p
  <1>. QED  BY <1>5, <1>6

\* Compose is the concatenation of its parts.
LEMMA Composed ==
    ASSUME NEW p \in Results, NEW present
    PROVE  Compose(p, present)
             = Cat(Cat(p.scheme, <<Colon, Slash, Slash>>),
                   Cat(UserText(p, present), Cat(Cat(p.host, PortText(p, present)),
                                                 PathText(p, present))))
  <1>. DEFINE With(name, before, part, after) ==
                  IF name \in present THEN Cat(Cat(before, part), after) ELSE <<>>
              password == With("password", <<Colon>>, p.password, <<>>)
              user == With("user", <<>>, Cat(p.user, password), <<AtSign>>)
              port == With("port", <<Colon>>, p.port, <<>>)
              query == With("query", <<Question>>, p.query, <<>>)
              fragment == With("fragment", <<Hash>>, p.fragment, <<>>)
              path == With("path", <<Slash>>, Cat(Cat(p.path, query), fragment), <<>>)
              start == Cat(p.scheme, <<Colon, Slash, Slash>>)
  <1>1. Compose(p, present) = Cat(Cat(Cat(Cat(start, user), p.host), port), path)
    BY DEF Compose, Cat
  <1>2. /\ p.scheme \in Texts /\ p.user \in Texts /\ p.password \in Texts /\ p.host \in Texts
        /\ p.port \in Texts /\ p.path \in Texts /\ p.query \in Texts /\ p.fragment \in Texts
    BY DEF Results
  <1>3. /\ password = PasswordText(p, present) /\ password \in Texts
        /\ port = PortText(p, present) /\ port \in Texts
        /\ query = QueryText(p, present) /\ query \in Texts
        /\ fragment = FragmentText(p, present) /\ fragment \in Texts
    <2>1. \A a, b \in Texts : Cat(a, b) \in Texts /\ Cat(Cat(a, b), <<>>) = Cat(a, b)
      BY CatText, CatEmpty
    <2>2. password = PasswordText(p, present) /\ password \in Texts
      BY <1>2, <2>1, Delimiters DEF PasswordText
    <2>3. port = PortText(p, present) /\ port \in Texts
      BY <1>2, <2>1, Delimiters DEF PortText
    <2>4. query = QueryText(p, present) /\ query \in Texts
      BY <1>2, <2>1, Delimiters DEF QueryText
    <2>5. fragment = FragmentText(p, present) /\ fragment \in Texts
      BY <1>2, <2>1, Delimiters DEF FragmentText
    <2>. QED  BY <2>2, <2>3, <2>4, <2>5
  <1>. HIDE DEF password, port, query, fragment
  <1>4. user = UserText(p, present) /\ user \in Texts
    <2>1. Cat(p.user, password) \in Texts
      BY <1>2, <1>3, CatText
    <2>2. /\ Cat(<<>>, Cat(p.user, password)) = Cat(p.user, password)
          /\ Cat(Cat(p.user, password), <<AtSign>>) \in Texts
      BY <2>1, Delimiters, CatText, CatEmpty
    <2>. QED  BY <1>3, <2>2, Delimiters DEF UserText
  <1>5. path = PathText(p, present) /\ path \in Texts
    <2>1. Cat(p.path, query) \in Texts
      BY <1>2, <1>3, CatText
    <2>2. Cat(Cat(p.path, query), fragment) \in Texts
      BY <1>3, <2>1, CatText
    <2>3. Cat(<<Slash>>, Cat(Cat(p.path, query), fragment)) \in Texts
      BY <2>2, Delimiters, CatText
    <2>4. Cat(Cat(<<Slash>>, Cat(Cat(p.path, query), fragment)), <<>>)
            = Cat(<<Slash>>, Cat(Cat(p.path, query), fragment))
      BY <2>3, CatEmpty
    <2>. QED  BY <1>3, <2>3, <2>4, Delimiters DEF PathText
  <1>. HIDE DEF user, path
  <1>6. start \in Texts
    BY <1>2, Delimiters, CatText
  <1>. HIDE DEF start
  <1>7. /\ Cat(start, user) \in Texts
        /\ Cat(p.host, port) \in Texts
        /\ Cat(Cat(p.host, port), path) \in Texts
    <2>1. Cat(start, user) \in Texts /\ Cat(p.host, port) \in Texts
      BY <1>2, <1>3, <1>4, <1>6, CatText
    <2>. QED  BY <1>5, <2>1, CatText
  <1>8. Cat(Cat(Cat(start, user), p.host), port) = Cat(Cat(start, user), Cat(p.host, port))
    <2>1. Cat(start, user) \in Texts /\ p.host \in Texts /\ port \in Texts
      BY <1>2, <1>3, <1>7
    <2>2. \A a, b, c \in Texts : Cat(Cat(a, b), c) = Cat(a, Cat(b, c))
      BY CatAssoc
    <2>. QED  BY <2>1, <2>2
  <1>9. Cat(Cat(Cat(start, user), Cat(p.host, port)), path)
          = Cat(Cat(start, user), Cat(Cat(p.host, port), path))
    BY <1>5, <1>7, CatAssoc
  <1>10. Cat(Cat(start, user), Cat(Cat(p.host, port), path))
          = Cat(start, Cat(user, Cat(Cat(p.host, port), path)))
    BY <1>4, <1>6, <1>7, CatAssoc
  <1>. QED  BY <1>1, <1>3, <1>4, <1>5, <1>8, <1>9, <1>10 DEF start

\* A function on an initial part of the naturals is a sequence.
LEMMA MadeSeq ==
    ASSUME NEW n \in Nat, NEW f \in [1..n -> Codes]
    PROVE  f \in Seq(Codes) /\ Len(f) = n
  OBVIOUS

\* A text with its scheme in lower case is that scheme and the rest from the colon on.
LEMMA SchemeLowered ==
    ASSUME NEW s \in Texts, NEW c \in 1..Len(s)
    PROVE  LET scheme == Part(s, 1, c)
               lower == [n \in DOMAIN scheme |-> tolower(scheme[n])]
               lowered == [i \in DOMAIN s |-> IF i < c THEN tolower(s[i]) ELSE s[i]]
           IN lower \in Texts /\ lowered = Cat(lower, Rest(s, c))
  <1>. DEFINE L == Len(s)
              scheme == Part(s, 1, c)
              lower == [n \in DOMAIN scheme |-> tolower(scheme[n])]
              lowered == [i \in DOMAIN s |-> IF i < c THEN tolower(s[i]) ELSE s[i]]
  <1>1. s \in Seq(Codes) /\ L \in Nat /\ DOMAIN s = 1..L
    BY DEF Texts
  <1>2. 1 \in 1..(L + 2) /\ c \in 0..(L + 1) /\ 1 <= c
    BY <1>1
  <1>3. /\ scheme \in Seq(Codes) /\ Len(scheme) = c - 1 /\ DOMAIN scheme = 1..(c - 1)
        /\ \A n \in 1..(c - 1) : scheme[n] = s[n]
    <2>1. scheme \in Texts /\ Len(scheme) = c - 1
      BY <1>2, PartOf
    <2>2. \A n \in 1..(c - 1) : scheme[n] = s[1 + n - 1]
      BY <1>2, PartOf
    <2>3. \A n \in 1..(c - 1) : 1 + n - 1 = n
      BY <1>1
    <2>. HIDE DEF scheme
    <2>4. scheme \in Seq(Codes) /\ DOMAIN scheme = 1..(c - 1)
      BY <2>1 DEF Texts
    <2>. QED  BY <2>1, <2>2, <2>3, <2>4
  <1>. HIDE DEF scheme
  <1>4. \A x \in Codes : tolower(x) \in Codes
    BY DEF tolower, Codes
  <1>5. /\ lower \in Seq(Codes) /\ Len(lower) = c - 1
        /\ \A n \in 1..(c - 1) : lower[n] = tolower(s[n])
    <2>1. lower = [n \in 1..(c - 1) |-> tolower(s[n])]
      BY <1>3
    <2>. HIDE DEF lower
    <2>2. c - 1 \in Nat /\ \A n \in 1..(c - 1) : n \in 1..L
      BY <1>1
    <2>3. \A n \in 1..L : s[n] \in Codes
      BY <1>1
    <2>4. \A n \in 1..(c - 1) : tolower(s[n]) \in Codes
      BY <1>4, <2>2, <2>3
    <2>5. lower \in [1..(c - 1) -> Codes]
      BY <2>1, <2>4
    <2>6. lower \in Seq(Codes) /\ Len(lower) = c - 1
      BY <2>2, <2>5, MadeSeq
    <2>7. \A n \in 1..(c - 1) : lower[n] = tolower(s[n])
      BY <2>1
    <2>. QED  BY <2>6, <2>7
  <1>6. lowered = [n \in 1..L |-> IF n < c THEN tolower(s[n]) ELSE s[n]]
    BY <1>1
  <1>. HIDE DEF lower, lowered
  <1>7. /\ lowered \in Seq(Codes) /\ Len(lowered) = L
        /\ \A n \in 1..L : lowered[n] = IF n < c THEN tolower(s[n]) ELSE s[n]
    <2>1. \A n \in 1..L : (IF n < c THEN tolower(s[n]) ELSE s[n]) \in Codes
      BY <1>1, <1>4
    <2>2. lowered \in [1..L -> Codes]
      BY <1>6, <2>1
    <2>3. lowered \in Seq(Codes) /\ Len(lowered) = L
      BY <1>1, <2>2, MadeSeq
    <2>4. \A n \in 1..L : lowered[n] = IF n < c THEN tolower(s[n]) ELSE s[n]
      BY <1>6
    <2>. QED  BY <2>3, <2>4
  <1>8. /\ Rest(s, c) \in Seq(Codes) /\ Len(Rest(s, c)) = L - c + 1
        /\ \A n \in 1..(L - c + 1) : Rest(s, c)[n] = s[c + n - 1]
    <2>1. c \in Int /\ L \in Int /\ c <= L /\ \A n \in c..L : s[n] \in Codes
      BY <1>1
    <2>2. /\ SubSeq(s, c, L) \in Seq(Codes)
          /\ Len(SubSeq(s, c, L)) = IF c <= L THEN L - c + 1 ELSE 0
          /\ \A n \in 1..(L - c + 1) : SubSeq(s, c, L)[n] = s[c + n - 1]
      BY <2>1, SubSeqIs
    <2>3. Rest(s, c) = SubSeq(s, c, L)
      BY DEF Rest
    <2>. QED  BY <2>1, <2>2, <2>3, Zenon
  <1>9. lowered = lower \o Rest(s, c)
    <2>1. /\ lower \o Rest(s, c) \in Seq(Codes)
          /\ Len(lower \o Rest(s, c)) = Len(lower) + Len(Rest(s, c))
          /\ \A n \in 1..(Len(lower) + Len(Rest(s, c))) :
               (lower \o Rest(s, c))[n] = IF n <= Len(lower) THEN lower[n]
                                                            ELSE Rest(s, c)[n - Len(lower)]
      BY <1>5, <1>8, ConcatIs, Zenon
    <2>. DEFINE joined == lower \o Rest(s, c)
    <2>. HIDE DEF joined
    <2>2. /\ joined \in Seq(Codes) /\ Len(joined) = (c - 1) + (L - c + 1)
          /\ \A n \in 1..((c - 1) + (L - c + 1)) :
               joined[n] = IF n <= c - 1 THEN lower[n] ELSE Rest(s, c)[n - (c - 1)]
      BY <1>5, <1>8, <2>1 DEF joined
    <2>3. Len(joined) = L /\ (c - 1) + (L - c + 1) = L
      BY <1>1, <2>2
    <2>4. ASSUME NEW n \in 1..L PROVE lowered[n] = joined[n]
      <3>1. joined[n] = IF n <= c - 1 THEN lower[n] ELSE Rest(s, c)[n - (c - 1)]
        BY <2>2, <2>3
      <3>2. CASE n < c
        <4>1. n <= c - 1 /\ n \in 1..(c - 1)
          BY <1>1, <3>2
        <4>2. joined[n] = tolower(s[n])
          BY <1>5, <3>1, <4>1
        <4>3. lowered[n] = tolower(s[n])
          BY <1>7, <3>2
        <4>. QED  BY <4>2, <4>3
      <3>3. CASE ~(n < c)
        <4>1. ~(n <= c - 1) /\ n - (c - 1) \in 1..(L - c + 1) /\ c + (n - (c - 1)) - 1 = n
          BY <1>1, <3>3
        <4>. QED  BY <1>7, <1>8, <3>1, <3>3, <4>1, Zenon
      <3>. QED  BY <3>2, <3>3
    <2>. QED  BY <1>7, <2>2, <2>3, <2>4, SameSeq, Zenon DEF joined
  <1>. QED  BY <1>5, <1>9, Zenon DEF Texts, Cat, lower, scheme, lowered

\* Three characters, one after the other.
LEMMA ThreeCodes ==
    ASSUME NEW a \in Codes, NEW b \in Codes, NEW d \in Codes
    PROVE  Cat(<<a>>, Cat(<<b>>, <<d>>)) = <<a, b, d>>
  <1>1. <<a>> \in Seq(Codes) /\ <<b>> \in Seq(Codes) /\ <<d>> \in Seq(Codes)
    OBVIOUS
  <1>2. Len(<<a>>) = 1 /\ Len(<<b>>) = 1 /\ Len(<<d>>) = 1
    OBVIOUS
  <1>. DEFINE two == <<b>> \o <<d>>
              three == <<a>> \o two
  <1>3. two \in Seq(Codes) /\ Len(two) = 2 /\ two[1] = b /\ two[2] = d
    <2>1. /\ two \in Seq(Codes) /\ Len(two) = Len(<<b>>) + Len(<<d>>)
          /\ \A i \in 1..(Len(<<b>>) + Len(<<d>>)) :
               two[i] = IF i <= Len(<<b>>) THEN <<b>>[i] ELSE <<d>>[i - Len(<<b>>)]
      BY <1>1, ConcatIs
    <2>. HIDE DEF two
    <2>2. two[1] = <<b>>[1] /\ two[2] = <<d>>[1]
      BY <1>2, <2>1
    <2>. QED  BY <1>2, <2>1, <2>2
  <1>. HIDE DEF two
  <1>4. three \in Seq(Codes) /\ Len(three) = 3 /\ three[1] = a /\ three[2] = b /\ three[3] = d
    <2>1. /\ three \in Seq(Codes) /\ Len(three) = Len(<<a>>) + Len(two)
          /\ \A i \in 1..(Len(<<a>>) + Len(two)) :
               three[i] = IF i <= Len(<<a>>) THEN <<a>>[i] ELSE two[i - Len(<<a>>)]
      <3>1. <<a>> \in Seq(Codes) /\ two \in Seq(Codes)
        BY <1>1, <1>3
      <3>. QED  BY <3>1, ConcatIs
    <2>. HIDE DEF three
    <2>2. three[1] = <<a>>[1] /\ three[2] = two[1] /\ three[3] = two[2]
      BY <1>2, <1>3, <2>1
    <2>. QED  BY <1>2, <1>3, <2>1, <2>2
  <1>. HIDE DEF three
  <1>5. three = <<a, b, d>>
    <2>1. /\ <<a, b, d>> \in Seq(Codes) /\ Len(<<a, b, d>>) = 3
          /\ <<a, b, d>>[1] = a /\ <<a, b, d>>[2] = b /\ <<a, b, d>>[3] = d
      OBVIOUS
    <2>. DEFINE t == <<a, b, d>>
    <2>. HIDE DEF t
    <2>2. t \in Seq(Codes) /\ Len(t) = 3 /\ t[1] = a /\ t[2] = b /\ t[3] = d
      BY <2>1 DEF t
    <2>3. Len(three) = Len(t) /\ \A i \in 1..Len(three) : three[i] = t[i]
      BY <1>4, <2>2
    <2>4. three = t
      BY <1>4, <2>2, <2>3, SameSeq
    <2>. QED  BY <2>4 DEF t
  <1>. QED  BY <1>5 DEF three, two, Cat

\* A URL of any characters and any length that ParseURL accepts is put together from
\* the parts it returns, up to the case of the scheme, and every part is free of the
\* delimiters it is cut at; ParseURL never fails for a missing at sign
\* (LUrlParser.cpp, lines 73-266).
THEOREM UrlParsed ==
    ASSUME NEW s \in Seq(Codes)
    PROVE  LET p == ParseURL(s)
           IN /\ p.error # "NoAtSign"
              /\ p.error = "Ok" =>
                   /\ p \in Results
                   /\ \E present \in SUBSET Optional : Compose(p, present) = LowerScheme(s)
                   /\ Without(p.user, {Colon, AtSign, Slash}) /\ Without(p.password, {AtSign, Slash})
                   /\ HostClean(p) /\ Without(p.port, {Slash})
                   /\ Without(p.path, {Question, Hash}) /\ Without(p.query, {Hash})
  <1>. DEFINE L == Len(s)
              c == Until(s, 1, {Colon})
              scheme == Part(s, 1, c)
              lower == [n \in DOMAIN scheme |-> tolower(scheme[n])]
              start == [error |-> "Ok", scheme |-> lower,
                        user |-> <<>>, password |-> <<>>, host |-> <<>>, port |-> <<>>,
                        path |-> <<>>, query |-> <<>>, fragment |-> <<>>]
              slashes == Char(s, c + 1) = Slash /\ Char(s, c + 2) = Slash
              lowered == [i \in DOMAIN s |-> IF i < c THEN tolower(s[i]) ELSE s[i]]
              p == ParseURL(s)
  <1>1. s \in Texts /\ L \in Nat /\ 1 \in 1..(L + 1)
    BY DEF Texts
  <1>2. c \in 1..(L + 1) /\ (c <= L => s[c] \in {Colon})
    BY <1>1, UntilStops
  <1>3. p = CASE c > L -> Failed("NoUrlCharacter")
              [] c <= L /\ ~IsSchemeValid(scheme) -> Failed("InvalidSchemeName")
              [] c <= L /\ IsSchemeValid(scheme)
                   /\ (Char(s, c + 1) # Slash \/ Char(s, c + 2) # Slash) -> Failed("NoDoubleSlash")
              [] OTHER -> ParseUser(s, c + 3, start)
    BY DEF ParseURL
  <1>4. LowerScheme(s) = lowered
    BY DEF LowerScheme
  <1>. HIDE DEF c, p
  <1>5. c > L <=> ~(c <= L)
    BY <1>1, <1>2
  <1>6. \/ p.error \in {"NoUrlCharacter", "InvalidSchemeName", "NoDoubleSlash"}
        \/ c <= L /\ slashes /\ p = ParseUser(s, c + 3, start)
    <2>. HIDE DEF scheme, start
    <2>1. \A code : Failed(code).error = code
      BY DEF Failed
    <2>2. CASE c > L
      <3>1. p = Failed("NoUrlCharacter")
        BY <1>3, <1>5, <2>2
      <3>. QED  BY <2>1, <3>1
    <2>3. CASE c <= L /\ ~IsSchemeValid(scheme)
      <3>1. p = Failed("InvalidSchemeName")
        BY <1>3, <1>5, <2>3
      <3>. QED  BY <2>1, <3>1
    <2>4. CASE c <= L /\ IsSchemeValid(scheme) /\ ~slashes
      <3>1. p = Failed("NoDoubleSlash")
        BY <1>3, <1>5, <2>4
      <3>. QED  BY <2>1, <3>1
    <2>5. CASE c <= L /\ IsSchemeValid(scheme) /\ slashes
      BY <1>3, <1>5, <2>5
    <2>. QED  BY <1>5, <2>2, <2>3, <2>4, <2>5
  <1>7. CASE p.error \in {"NoUrlCharacter", "InvalidSchemeName", "NoDoubleSlash"}
    BY <1>7 DEF p
  <1>8. CASE c <= L /\ slashes /\ p = ParseUser(s, c + 3, start)
    <2>1. c \in 1..L /\ s[c] = Colon
      BY <1>1, <1>2, <1>8
    <2>2. c + 1 \in 1..L /\ c + 2 \in 1..L /\ s[c + 1] = Slash /\ s[c + 2] = Slash
      <3>1. c + 1 <= L /\ s[c + 1] = Slash
        BY <1>8 DEF Char, Slash
      <3>2. c + 2 <= L /\ s[c + 2] = Slash
        BY <1>8 DEF Char, Slash
      <3>. QED  BY <1>1, <2>1, <3>1, <3>2
    <2>3. lower \in Texts /\ lowered = Cat(lower, Rest(s, c))
      BY <1>1, <2>1, SchemeLowered, SMTT(30)
    <2>. HIDE DEF lower, lowered
    <2>4. /\ start \in Results /\ start.path = <<>> /\ start.query = <<>>
          /\ start.user = <<>> /\ start.password = <<>> /\ start.scheme = lower
      BY <2>3, Delimiters DEF Results
    <2>. HIDE DEF start
    <2>5. c + 3 \in 1..(L + 1) /\ (c + 1) + 1 = c + 2 /\ (c + 2) + 1 = c + 3
          /\ c \in 1..(L + 1) /\ c + 1 \in 1..(L + 1) /\ c + 2 \in 1..(L + 1)
      <3>1. L \in Nat /\ c \in 1..L /\ c + 2 \in 1..L
        BY <1>1, <2>1, <2>2
      <3>. HIDE DEF L
      <3>. QED  BY <3>1
    <2>6. /\ p.error \in {"Ok", "NoSlash"}
          /\ p.error = "Ok" =>
               /\ p \in Results /\ p.scheme = start.scheme
               /\ Without(p.user, {Colon, AtSign, Slash}) /\ Without(p.password, {AtSign, Slash})
               /\ HostClean(p) /\ Without(p.port, {Slash})
               /\ Without(p.path, {Question, Hash}) /\ Without(p.query, {Hash})
               /\ \E present \in SUBSET Optional :
                    Rest(s, c + 3) = Cat(UserText(p, present), Cat(Cat(p.host, PortText(p, present)),
                                                                   PathText(p, present)))
      <3>1. UserOk(s, c + 3, start, p)
        BY <1>1, <1>8, <2>4, <2>5, UserParsed
      <3>. QED  BY <3>1 DEF UserOk
    <2>7. Rest(s, c) = Cat(<<Colon, Slash, Slash>>, Rest(s, c + 3))
      <3>1. Rest(s, c) = Cat(<<Colon>>, Rest(s, c + 1))
        BY <1>1, <2>1, <2>5, RestNext
      <3>2. Rest(s, c + 1) = Cat(<<Slash>>, Rest(s, c + 2))
        BY <1>1, <2>2, <2>5, RestNext
      <3>3. Rest(s, c + 2) = Cat(<<Slash>>, Rest(s, c + 3))
        BY <1>1, <2>2, <2>5, RestNext
      <3>4. Rest(s, c + 3) \in Texts
        BY <1>1, <2>5, RestText
      <3>5. Cat(<<Colon>>, Cat(<<Slash>>, <<Slash>>)) = <<Colon, Slash, Slash>>
        BY Delimiters, ThreeCodes
      <3>6. \A a, b, d, x \in Texts : Cat(Cat(a, Cat(b, d)), x) = Cat(a, Cat(b, Cat(d, x)))
        <4>1. \A a, b \in Texts : Cat(a, b) \in Texts
          BY CatText
        <4>2. \A a, b, x \in Texts : Cat(Cat(a, b), x) = Cat(a, Cat(b, x))
          BY CatAssoc
        <4>. QED  BY <4>1, <4>2
      <3>7. Cat(Cat(<<Colon>>, Cat(<<Slash>>, <<Slash>>)), Rest(s, c + 3))
              = Cat(<<Colon>>, Cat(<<Slash>>, Cat(<<Slash>>, Rest(s, c + 3))))
        BY <3>4, <3>6, Delimiters
      <3>. QED  BY <3>1, <3>2, <3>3, <3>5, <3>7
    <2>8. ASSUME p.error = "Ok"
          PROVE  \E present \in SUBSET Optional : Compose(p, present) = LowerScheme(s)
      <3>1. PICK present \in SUBSET Optional :
                Rest(s, c + 3) = Cat(UserText(p, present), Cat(Cat(p.host, PortText(p, present)),
                                                               PathText(p, present)))
        BY <2>6, <2>8
      <3>2. Compose(p, present) = Cat(Cat(p.scheme, <<Colon, Slash, Slash>>), Rest(s, c + 3))
        BY <2>6, <2>8, <3>1, Composed
      <3>3. Rest(s, c + 3) \in Texts
        BY <1>1, <2>5, RestText
      <3>4. Cat(Cat(lower, <<Colon, Slash, Slash>>), Rest(s, c + 3))
              = Cat(lower, Cat(<<Colon, Slash, Slash>>, Rest(s, c + 3)))
        BY <2>3, <3>3, Delimiters, CatAssoc
      <3>5. p.scheme = lower
        BY <2>4, <2>6, <2>8
      <3>6. Compose(p, present) = LowerScheme(s)
        BY <1>4, <2>3, <2>7, <3>2, <3>4, <3>5
      <3>. QED  BY <3>6
    <2>9. p.error # "NoAtSign"
      BY <2>6
    <2>. QED  BY <2>6, <2>8, <2>9 DEF p
  <1>. QED  BY <1>6, <1>7, <1>8, Zenon

-----------------------------------------------------------------------------
(* The target of a request *)

\* A text cut at its first question mark.
LEMMA CutAtMark ==
    ASSUME NEW a \in Texts, NEW b \in Texts, Without(a, {Question})
    PROVE  LET t == Cat(a, Cat(<<Question>>, b))
               marks == {i \in DOMAIN t : t[i] = Question}
           IN /\ marks # {}
              /\ SubSeq(t, 1, Min(marks) - 1) = a
              /\ SubSeq(t, Min(marks) + 1, Len(t)) = b
  <1>. DEFINE q == <<Question>> \o b
              t == a \o q
              A == Len(a)
              B == Len(b)
              marks == {i \in DOMAIN t : t[i] = Question}
  <1>1. a \in Seq(Codes) /\ b \in Seq(Codes) /\ <<Question>> \in Seq(Codes) /\ A \in Nat /\ B \in Nat
    BY Delimiters DEF Texts
  <1>2. /\ q \in Seq(Codes) /\ Len(q) = 1 + B /\ q[1] = Question
        /\ \A i \in 2..(1 + B) : q[i] = b[i - 1]
    <2>1. /\ q \in Seq(Codes) /\ Len(q) = Len(<<Question>>) + Len(b)
          /\ \A i \in 1..(Len(<<Question>>) + Len(b)) :
               q[i] = IF i <= Len(<<Question>>) THEN <<Question>>[i] ELSE b[i - Len(<<Question>>)]
      BY <1>1, ConcatIs
    <2>2. Len(<<Question>>) = 1 /\ <<Question>>[1] = Question
      OBVIOUS
    <2>. HIDE DEF q
    <2>3. q \in Seq(Codes) /\ Len(q) = 1 + B
          /\ \A i \in 1..(1 + B) : q[i] = IF i <= 1 THEN <<Question>>[i] ELSE b[i - 1]
      BY <2>1, <2>2
    <2>4. q[1] = Question /\ \A i \in 2..(1 + B) : q[i] = b[i - 1]
      BY <1>1, <2>2, <2>3
    <2>. QED  BY <2>3, <2>4
  <1>. HIDE DEF q
  <1>3. /\ t \in Seq(Codes) /\ Len(t) = A + (1 + B)
        /\ \A i \in 1..(A + (1 + B)) : t[i] = IF i <= A THEN a[i] ELSE q[i - A]
    <2>1. /\ t \in Seq(Codes) /\ Len(t) = Len(a) + Len(q)
          /\ \A i \in 1..(Len(a) + Len(q)) : t[i] = IF i <= Len(a) THEN a[i] ELSE q[i - Len(a)]
      BY <1>1, <1>2, ConcatIs, Zenon
    <2>. QED  BY <1>2, <2>1
  <1>. HIDE DEF t
  <1>4. DOMAIN t = 1..(A + (1 + B)) /\ DOMAIN a = 1..A
    BY <1>1, <1>3
  <1>. DEFINE k == A + 1
  <1>5. k \in marks
    BY <1>1, <1>2, <1>3, <1>4
  <1>6. \A i \in marks : i \in Nat /\ k <= i
    <2>. SUFFICES ASSUME NEW i \in 1..(A + (1 + B)), t[i] = Question, ~(k <= i) PROVE FALSE
      BY <1>1, <1>4
    <2>1. i \in 1..A
      BY <1>1
    <2>2. t[i] = a[i]
      BY <1>1, <1>3, <2>1
    <2>. QED  BY <1>4, <2>1, <2>2 DEF Without
  <1>7. Min(marks) = k
    <2>. HIDE DEF marks
    <2>1. Min(marks) \in marks /\ \A y \in marks : Min(marks) <= y
      <3>1. marks \subseteq Nat /\ marks # {}
        BY <1>5, <1>6
      <3>. QED  BY <3>1, Least, Zenon
    <2>. DEFINE m == Min(marks)
    <2>2. m \in Nat /\ k <= m /\ m <= k
      BY <1>5, <1>6, <2>1
    <2>. HIDE DEF m
    <2>3. m = k
      BY <1>1, <2>2
    <2>. QED  BY <2>3 DEF m
  <1>8. SubSeq(t, 1, k - 1) = a
    <2>1. \A i \in 1..(k - 1) : t[i] \in Codes
      BY <1>1, <1>3
    <2>. DEFINE x == SubSeq(t, 1, k - 1)
    <2>2. /\ x \in Seq(Codes) /\ Len(x) = IF 1 <= k - 1 THEN (k - 1) - 1 + 1 ELSE 0
          /\ \A i \in 1..((k - 1) - 1 + 1) : x[i] = t[1 + i - 1]
      BY <1>1, <2>1, SubSeqIs
    <2>. HIDE DEF x
    <2>3. Len(x) = A /\ \A i \in 1..A : x[i] = a[i]
      BY <1>1, <1>3, <2>2
    <2>4. x = a
      BY <1>1, <2>2, <2>3, SameSeq
    <2>. QED  BY <2>4 DEF x
  <1>9. SubSeq(t, k + 1, Len(t)) = b
    <2>. DEFINE n == A + (1 + B)
                x == SubSeq(t, k + 1, n)
    <2>1. n \in Int /\ k + 1 \in Int /\ \A i \in (k + 1)..n : t[i] \in Codes
      BY <1>1, <1>3
    <2>2. /\ x \in Seq(Codes) /\ Len(x) = IF k + 1 <= n THEN n - (k + 1) + 1 ELSE 0
          /\ \A i \in 1..(n - (k + 1) + 1) : x[i] = t[(k + 1) + i - 1]
      BY <2>1, SubSeqIs
    <2>. HIDE DEF x
    <2>3. Len(x) = B /\ n - (k + 1) + 1 = B
      BY <1>1, <2>2
    <2>4. ASSUME NEW i \in 1..B PROVE x[i] = b[i]
      <3>1. x[i] = t[(k + 1) + i - 1]
        BY <2>2, <2>3
      <3>2. /\ (k + 1) + i - 1 \in 1..n /\ ~((k + 1) + i - 1 <= A)
            /\ ((k + 1) + i - 1) - A = i + 1 /\ i + 1 \in 2..(1 + B) /\ (i + 1) - 1 = i
        BY <1>1
      <3>3. t[(k + 1) + i - 1] = q[i + 1]
        BY <1>3, <3>2
      <3>4. q[i + 1] = b[i]
        BY <1>2, <3>2, Zenon
      <3>. QED  BY <3>1, <3>3, <3>4
    <2>5. x = b
      BY <1>1, <2>2, <2>3, <2>4, SameSeq
    <2>. QED  BY <1>3, <2>5 DEF x
  <1>10. Cat(a, Cat(<<Question>>, b)) = t
    BY DEF Cat, t, q
  <1>11. marks # {}
    BY <1>5
  <1>. HIDE DEF marks
  <1>. QED  BY <1>7, <1>8, <1>9, <1>10, <1>11, Zenon DEF marks

\* parse_target (web_utility.hpp) finds the path and the query of a URL in the target
\* made of them.
LEMMA TargetSplit ==
    ASSUME NEW path \in Texts, NEW query \in Texts, Without(path, {Question, Hash})
    PROVE  LET target == <<Slash>> \o path
                         \o (IF query = <<>> THEN <<>> ELSE <<Question>> \o query)
           IN parse_target(target) = [path |-> <<Slash>> \o path, query |-> query]
  <1>. DEFINE a == <<Slash>> \o path
              target == a \o (IF query = <<>> THEN <<>> ELSE <<Question>> \o query)
  <1>1. a \in Texts
    BY Delimiters, CatText DEF Cat
  <1>2. Without(a, {Question})
    <2>1. path \in Seq(Codes) /\ <<Slash>> \in Seq(Codes) /\ DOMAIN path = 1..Len(path)
      BY Delimiters DEF Texts
    <2>2. Len(<<Slash>>) = 1 /\ <<Slash>>[1] = Slash /\ Len(path) \in Nat
      BY <2>1
    <2>3. /\ a \in Seq(Codes) /\ Len(a) = Len(<<Slash>>) + Len(path)
          /\ \A i \in 1..(Len(<<Slash>>) + Len(path)) :
               a[i] = IF i <= Len(<<Slash>>) THEN <<Slash>>[i] ELSE path[i - Len(<<Slash>>)]
      BY <2>1, ConcatIs
    <2>. HIDE DEF a
    <2>4. DOMAIN a = 1..(1 + Len(path))
          /\ \A i \in 1..(1 + Len(path)) : a[i] = IF i <= 1 THEN <<Slash>>[i] ELSE path[i - 1]
      BY <2>2, <2>3
    <2>. SUFFICES ASSUME NEW i \in 1..(1 + Len(path)) PROVE a[i] # Question
      BY <2>4 DEF Without
    <2>5. CASE i = 1
      BY <2>2, <2>4, <2>5 DEF Slash, Question
    <2>6. CASE i # 1
      <3>1. ~(i <= 1) /\ i - 1 \in 1..Len(path)
        BY <2>2, <2>6
      <3>2. a[i] = path[i - 1]
        BY <2>4, <3>1
      <3>. QED  BY <2>1, <3>1, <3>2 DEF Without
    <2>. QED  BY <2>5, <2>6
  <1>. HIDE DEF a
  <1>. DEFINE marks == {i \in DOMAIN target : target[i] = QuestionMark}
  <1>3. QuestionMark = Question
    BY DEF QuestionMark, Question
  <1>4. CASE query = <<>>
    <2>1. target = a
      <3>1. Cat(a, <<>>) = a
        BY <1>1, CatEmpty
      <3>. QED  BY <1>4, <3>1 DEF Cat
    <2>2. marks = {}
      BY <1>2, <1>3, <2>1 DEF Without
    <2>. HIDE DEF target
    <2>. QED  BY <1>4, <2>1, <2>2 DEF parse_target, target, a
  <1>5. CASE query # <<>>
    <2>1. target = Cat(a, Cat(<<Question>>, query))
      BY <1>5 DEF Cat
    <2>2. LET t == Cat(a, Cat(<<Question>>, query))
              found == {i \in DOMAIN t : t[i] = Question}
          IN /\ found # {}
             /\ SubSeq(t, 1, Min(found) - 1) = a
             /\ SubSeq(t, Min(found) + 1, Len(t)) = query
      BY <1>1, <1>2, CutAtMark, Zenon
    <2>. HIDE DEF target
    <2>3. /\ marks # {}
          /\ SubSeq(target, 1, Min(marks) - 1) = a
          /\ SubSeq(target, Min(marks) + 1, Len(target)) = query
      BY <1>3, <2>1, <2>2
    <2>4. parse_target(target) = [path |-> a, query |-> query]
      BY <2>3, Zenon DEF parse_target
    <2>. QED  BY <2>4 DEF target, a
  <1>. QED  BY <1>4, <1>5

\* What UrlRead says, for URLs of any length.
LEMMA UrlReadHolds == ASSUME kind \in {"url", "scheme"} => text \in Seq(Codes) PROVE UrlRead
  <1>1. CASE kind \notin {"url", "scheme"}
    BY <1>1 DEF UrlRead, UrlRecomposes, UrlPartsClean, ServerSeesUrl, Parsed
  <1>2. CASE kind \in {"url", "scheme"}
    <2>1. text \in Seq(Codes)
      BY <1>2
    <2>2. /\ Url.error # "NoAtSign"
          /\ Url.error = "Ok" =>
               /\ Url \in Results
               /\ \E present \in SUBSET Optional : Compose(Url, present) = LowerScheme(text)
               /\ Without(Url.user, {Colon, AtSign, Slash}) /\ Without(Url.password, {AtSign, Slash})
               /\ HostClean(Url) /\ Without(Url.port, {Slash})
               /\ Without(Url.path, {Question, Hash}) /\ Without(Url.query, {Hash})
      BY <2>1, UrlParsed, Zenon DEF Url
    <2>3. UrlRecomposes
      BY <2>2 DEF UrlRecomposes, Parsed
    <2>4. UrlPartsClean
      BY <2>2, Zenon DEF UrlPartsClean, Parsed, HostClean
    <2>5. ServerSeesUrl
      <3>. SUFFICES ASSUME Url.error = "Ok" PROVE ServerSeesUrl
        BY DEF ServerSeesUrl, Parsed
      <3>1. Url.path \in Texts /\ Url.query \in Texts /\ Without(Url.path, {Question, Hash})
        BY <2>2 DEF Results
      <3>. QED  BY <3>1, TargetSplit, Zenon DEF ServerSeesUrl
    <2>. QED  BY <2>3, <2>4, <2>5 DEF UrlRead
  <1>. QED  BY <1>1, <1>2

-----------------------------------------------------------------------------
(* Percent *)

\* encode, a character at a time.
LEMMA EncodeCons ==
    /\ encode(<<>>) = <<>>
    /\ \A c \in Codes, s \in Texts : encode(Cat(<<c>>, s)) = Cat(EncodeChar(c), encode(s))
  <1>1. encode(<<>>) = <<>>
    <2>. DEFINE parts == [i \in DOMAIN <<>> |-> EncodeChar(<<>>[i])]
    <2>1. Len(parts) = 0
      OBVIOUS
    <2>. QED  BY <2>1, FlattenNone, Zenon DEF encode
  <1>2. ASSUME NEW c \in Codes, NEW s \in Texts
        PROVE  encode(Cat(<<c>>, s)) = Cat(EncodeChar(c), encode(s))
    <2>. DEFINE t == Cat(<<c>>, s)
                L == Len(s)
                later == [i \in DOMAIN s |-> EncodeChar(s[i])]
                parts == [i \in DOMAIN t |-> EncodeChar(t[i])]
    <2>1. t \in Texts /\ L \in Nat /\ Len(t) = L + 1 /\ t[1] = c /\ \A i \in 1..L : t[i + 1] = s[i]
      BY ConsText, Zenon
    <2>2. encode(t) = Flatten(parts) /\ encode(s) = Flatten(later)
      BY DEF encode
    <2>. HIDE DEF t
    <2>3. DOMAIN t = 1..(L + 1) /\ DOMAIN s = 1..L
      BY <2>1 DEF Texts
    <2>4. Len(later) = L /\ Len(parts) = L + 1 /\ parts[1] = EncodeChar(c)
      BY <2>1, <2>3
    <2>5. \A i \in 1..L : parts[i + 1] = later[i]
      BY <2>1, <2>3
    <2>. HIDE DEF later, parts
    <2>6. Flatten(parts) = parts[1] \o Flatten(later)
      BY <2>1, <2>4, <2>5, FlattenStep, Zenon
    <2>. QED  BY <2>2, <2>4, <2>6 DEF Cat, t
  <1>. QED  BY <1>1, <1>2

\* One round of the loop of decode at the index i: what it appends, where it goes on.
Escaped(value, i) == value[i] = PercentSign /\ i + 2 <= Len(value)
Decoded(value, i) ==
    IF Escaped(value, i) THEN <<strtol(value[i + 1], value[i + 2])>>
    ELSE <<IF value[i] = Plus THEN Space ELSE value[i]>>
Further(value, i) == IF Escaped(value, i) THEN i + 3 ELSE i + 1

\* decode is such a loop.
LEMMA DecodeAppends ==
    ASSUME NEW value, Len(value) \in Nat
    PROVE  \E f : /\ decode(value) = f[1]
                 /\ Appends(Len(value), Len(value) + 3,
                            [i \in 1..Len(value) |-> Decoded(value, i)],
                            [i \in 1..Len(value) |-> Further(value, i)], f)
  <1>. DEFINE L == Len(value)
              out == [i \in 1..L |-> Decoded(value, i)]
              next == [i \in 1..L |-> Further(value, i)]
              Arm(f, i) ==
                 CASE i > L -> <<>>
                   [] i <= L /\ value[i] = PercentSign /\ i + 2 <= L ->
                      <<strtol(value[i + 1], value[i + 2])>> \o f[i + 3]
                   [] OTHER -> <<IF value[i] = Plus THEN Space ELSE value[i]>> \o f[i + 1]
              Eq(f) == f = [i \in 1..(L + 3) |-> Arm(f, i)]
  <1>1. L \in Nat
    OBVIOUS
  <1>2. \A f : Eq(f) <=> Appends(L, L + 3, out, next, f)
    <2>. SUFFICES ASSUME NEW f PROVE Eq(f) <=> Appends(L, L + 3, out, next, f)
      BY Zenon
    <2>1. ASSUME NEW i \in 1..(L + 3)
          PROVE  Arm(f, i) = IF i > L THEN <<>> ELSE out[i] \o f[next[i]]
      <3>1. CASE i > L
        <4>1. Arm(f, i) = <<>>
          BY <1>1, <3>1
        <4>. QED  BY <3>1, <4>1
      <3>2. CASE ~(i > L) /\ Escaped(value, i)
        <4>1. i \in 1..L /\ i <= L /\ value[i] = PercentSign /\ i + 2 <= L
          BY <1>1, <3>2 DEF Escaped
        <4>2. Arm(f, i) = <<strtol(value[i + 1], value[i + 2])>> \o f[i + 3]
          BY <3>2, <4>1, SMTT(30)
        <4>3. out[i] = <<strtol(value[i + 1], value[i + 2])>> /\ next[i] = i + 3
          BY <3>2, <4>1 DEF Decoded, Further
        <4>. QED  BY <3>2, <4>2, <4>3, Zenon
      <3>3. CASE ~(i > L) /\ ~Escaped(value, i)
        <4>1. i \in 1..L /\ i <= L /\ ~(value[i] = PercentSign /\ i + 2 <= L)
          BY <1>1, <3>3 DEF Escaped
        <4>2. Arm(f, i) = <<IF value[i] = Plus THEN Space ELSE value[i]>> \o f[i + 1]
          BY <3>3, <4>1
        <4>3. out[i] = <<IF value[i] = Plus THEN Space ELSE value[i]>> /\ next[i] = i + 1
          BY <3>3, <4>1 DEF Decoded, Further
        <4>. QED  BY <3>3, <4>2, <4>3, Zenon
      <3>. QED  BY <3>1, <3>2, <3>3
    <2>. HIDE DEF Arm, out, next, L
    <2>2. [i \in 1..(L + 3) |-> Arm(f, i)]
            = [i \in 1..(L + 3) |-> IF i > L THEN <<>> ELSE out[i] \o f[next[i]]]
      BY <2>1, Zenon
    <2>. QED  BY <2>2, Zenon DEF Appends
  <1>3. \E f : Appends(L, L + 3, out, next, f)
    <2>1. Forward(L, L + 3, next)
      BY <1>1 DEF Forward, Further
    <2>. QED  BY <2>1, AppendsExist, Zenon
  <1>. DEFINE f == CHOOSE f : Eq(f)
  <1>4. decode(value) = f[1]
    BY DEF decode
  <1>. HIDE DEF Appends
  <1>5. Eq(f)
    <2>. HIDE DEF Eq
    <2>. QED  BY <1>2, <1>3, Zenon
  <1>. QED  BY <1>2, <1>4, <1>5, Zenon

\* decode, a character or an escape at a time.
LEMMA DecodeEmpty == decode(<<>>) = <<>>
  <1>1. Len(<<>>) = 0
    OBVIOUS
  <1>2. PICK f : /\ decode(<<>>) = f[1]
                 /\ Appends(0, 0 + 3, [i \in 1..0 |-> Decoded(<<>>, i)],
                            [i \in 1..0 |-> Further(<<>>, i)], f)
    BY <1>1, DecodeAppends, Zenon
  <1>3. f[1] = <<>>
    BY <1>2 DEF Appends
  <1>. QED  BY <1>2, <1>3

\* One step of decode: a text that goes on like s after d characters, when decode goes
\* on there, is decoded as the first step and the decoded s.
LEMMA DecodeStep ==
    ASSUME NEW t \in Texts, NEW s \in Texts, NEW d \in {1, 3}, Len(t) = Len(s) + d,
           \A i \in 1..Len(s) : t[i + d] = s[i], Further(t, 1) = 1 + d
    PROVE  decode(t) = Cat(Decoded(t, 1), decode(s))
  <1>. DEFINE L == Len(s)
              out == [i \in 1..L |-> Decoded(s, i)]
              next == [i \in 1..L |-> Further(s, i)]
              out2 == [i \in 1..(L + d) |-> Decoded(t, i)]
              next2 == [i \in 1..(L + d) |-> Further(t, i)]
  <1>1. L \in Nat /\ Len(t) \in Nat /\ d \in Nat
    BY DEF Texts
  <1>2. PICK f : decode(s) = f[1] /\ Appends(L, L + 3, out, next, f)
    BY <1>1, DecodeAppends, Zenon
  <1>3. PICK g : decode(t) = g[1] /\ Appends(L + d, (L + d) + 3, out2, next2, g)
    BY <1>1, DecodeAppends, Zenon
  <1>4. Forward(L, L + 3, next)
    BY <1>1 DEF Forward, Further
  <1>5. ASSUME NEW i \in 1..L
        PROVE  out2[i + d] = out[i] /\ next2[i + d] = next[i] + d
    <2>1. i + d \in 1..(L + d) /\ t[i + d] = s[i] /\ ((i + d) + 2 <= Len(t) <=> i + 2 <= L)
      BY <1>1
    <2>2. Escaped(t, i + d) <=> Escaped(s, i)
      BY <2>1 DEF Escaped
    <2>3. next2[i + d] = next[i] + d
      BY <1>1, <2>1, <2>2 DEF Further
    <2>4. CASE ~Escaped(s, i)
      BY <2>1, <2>2, <2>3, <2>4 DEF Decoded
    <2>5. CASE Escaped(s, i)
      <3>1. i + 1 \in 1..L /\ i + 2 \in 1..L /\ (i + d) + 1 = (i + 1) + d
            /\ (i + d) + 2 = (i + 2) + d
        BY <1>1, <2>5 DEF Escaped
      <3>2. t[(i + d) + 1] = s[i + 1] /\ t[(i + d) + 2] = s[i + 2]
        BY <3>1
      <3>. QED  BY <2>1, <2>2, <2>3, <2>5, <3>2 DEF Decoded
    <2>. QED  BY <2>4, <2>5
  <1>6. out2[1] = Decoded(t, 1) /\ next2[1] = 1 + d
    BY <1>1
  <1>7. /\ 1 \in 1..((L + d) + 3) /\ ~(1 > L + d)
        /\ (L + d) + 3 = (L + 3) + d
    BY <1>1
  <1>. HIDE DEF out, next, out2, next2, L
  <1>8. Appends(L + d, (L + 3) + d, out2, next2, g)
    BY <1>3, <1>7
  <1>9. g[1 + d] = f[1]
    <2>1. Alike(L, L + 3, d, out, next, f, out2, next2, g)
      BY <1>1, <1>2, <1>4, <1>5, <1>8 DEF Alike
    <2>. QED  BY <2>1, AppendsShift
  <1>10. g[1] = out2[1] \o g[next2[1]]
    BY <1>3, <1>7, Zenon DEF Appends
  <1>. QED  BY <1>2, <1>3, <1>6, <1>9, <1>10, Zenon DEF Cat

\* The characters of an escape are characters, and read as the character escaped.
LEMMA EscapeReads ==
    ASSUME NEW c \in Reserved
    PROVE  LET h == hex_chars(c \div 16)
               l == hex_chars(c % 16)
           IN h \in Codes /\ l \in Codes /\ strtol(h, l) = c
  <1>. DEFINE a == c \div 16
              b == c % 16
              h == hex_chars(a)
              l == hex_chars(b)
  <1>1. c \in 33..93
    BY DEF Reserved
  <1>2. a \in 0..9 /\ b \in 0..15 /\ 16 * a + b = c
    BY <1>1
  <1>. HIDE DEF a, b
  <1>3. h \in Codes /\ Digit(h) = a /\ h \notin {Space, Plus, Minus}
    <2>1. h = 48 + a /\ h \in 48..57 /\ h - 48 = a
      BY <1>2 DEF hex_chars
    <2>2. Digit(h) = h - 48
      <3>. HIDE DEF h
      <3>. QED  BY <2>1 DEF Digit
    <2>. QED  BY <1>2, <2>1, <2>2 DEF Codes, Space, Plus, Minus
  <1>4. l \in Codes /\ Digit(l) = b
    <2>1. CASE b < 10
      <3>1. l = 48 + b /\ l \in 48..57 /\ l - 48 = b
        BY <1>2, <2>1 DEF hex_chars
      <3>. QED  BY <1>2, <3>1 DEF Digit, Codes
    <2>2. CASE ~(b < 10)
      <3>1. l = 55 + b /\ l \in 65..70 /\ l - 55 = b /\ l \notin 48..57
        BY <1>2, <2>2 DEF hex_chars
      <3>. QED  BY <1>2, <3>1 DEF Digit, Codes
    <2>. QED  BY <2>1, <2>2
  <1>. HIDE DEF h, l
  <1>5. Digit(h) < 16 /\ Digit(l) < 16 /\ 16 * Digit(h) + Digit(l) = c
    BY <1>2, <1>3, <1>4
  <1>6. strtol(h, l) = c
    BY <1>3, <1>5 DEF strtol
  <1>. QED  BY <1>3, <1>4, <1>6 DEF a, b, h, l

\* Two characters of which the first is no decimal digit never read as a percent sign.
LEMMA NoPercentRead ==
    ASSUME NEW a \in Codes, NEW b \in Codes, a \notin 48..57
    PROVE  strtol(a, b) # PercentSign
  <1>1. \A x \in Codes : Digit(x) \in 0..16
    BY DEF Digit, Codes
  <1>2. Digit(a) \in 10..16
    BY DEF Digit, Codes
  <1>3. Digit(b) \in 0..16
    BY <1>1
  <1>4. CASE Digit(a) < 16
    <2>1. a \notin {Space, Plus, Minus}
      BY <1>4 DEF Digit, Space, Plus, Minus
    <2>2. strtol(a, b) = IF Digit(b) < 16 THEN 16 * Digit(a) + Digit(b) ELSE Digit(a)
      BY <1>4, <2>1 DEF strtol
    <2>. QED  BY <1>2, <1>3, <1>4, <2>2 DEF PercentSign
  <1>5. CASE ~(Digit(a) < 16) /\ a \in {Space, Plus} /\ Digit(b) < 16
    <2>1. strtol(a, b) = Digit(b)
      BY <1>5 DEF strtol, Space, Plus, Minus
    <2>. QED  BY <1>3, <1>5, <2>1 DEF PercentSign
  <1>6. CASE ~(Digit(a) < 16) /\ a = Minus /\ Digit(b) < 16
    <2>1. strtol(a, b) = (256 - Digit(b)) % 256
      BY <1>6 DEF strtol, Space, Plus, Minus
    <2>. QED  BY <1>3, <1>6, <2>1 DEF PercentSign
  <1>7. CASE ~(Digit(a) < 16) /\ ~(a \in {Space, Plus} /\ Digit(b) < 16)
             /\ ~(a = Minus /\ Digit(b) < 16)
    <2>1. strtol(a, b) = 0
      BY <1>7 DEF strtol
    <2>. QED  BY <2>1 DEF PercentSign
  <1>. QED  BY <1>4, <1>5, <1>6, <1>7

\* The codes that two characters read as.
LEMMA StrtolNat ==
    ASSUME NEW a \in Nat, NEW b \in Nat
    PROVE  strtol(a, b) \in Nat
  <1>1. Digit(a) \in 0..16 /\ Digit(b) \in 0..16
    BY DEF Digit
  <1>2. CASE Digit(a) < 16
    <2>1. a \notin {Space, Plus, Minus}
      BY <1>2 DEF Digit, Space, Plus, Minus
    <2>2. strtol(a, b) = IF Digit(b) < 16 THEN 16 * Digit(a) + Digit(b) ELSE Digit(a)
      BY <1>2, <2>1 DEF strtol
    <2>. QED  BY <1>1, <2>2
  <1>3. CASE ~(Digit(a) < 16) /\ a \in {Space, Plus} /\ Digit(b) < 16
    <2>1. strtol(a, b) = Digit(b)
      BY <1>3 DEF strtol, Space, Plus, Minus
    <2>. QED  BY <1>1, <2>1
  <1>4. CASE ~(Digit(a) < 16) /\ a = Minus /\ Digit(b) < 16
    <2>1. strtol(a, b) = (256 - Digit(b)) % 256
      BY <1>4 DEF strtol, Space, Plus, Minus
    <2>. QED  BY <1>1, <2>1
  <1>5. CASE ~(Digit(a) < 16) /\ ~(a \in {Space, Plus} /\ Digit(b) < 16)
             /\ ~(a = Minus /\ Digit(b) < 16)
    <2>1. strtol(a, b) = 0
      BY <1>5 DEF strtol
    <2>. QED  BY <2>1
  <1>. QED  BY <1>2, <1>3, <1>4, <1>5

\* A decoded text is a sequence of codes, which may be NUL.
LEMMA DecodedSeq ==
    ASSUME NEW s \in Texts
    PROVE  decode(s) \in Seq(Nat)
  <1>. DEFINE L == Len(s)
              out == [i \in 1..L |-> Decoded(s, i)]
              next == [i \in 1..L |-> Further(s, i)]
  <1>1. L \in Nat /\ \A i \in 1..L : s[i] \in Nat
    BY DEF Texts, Codes
  <1>2. PICK f : decode(s) = f[1] /\ Appends(L, L + 3, out, next, f)
    BY <1>1, DecodeAppends, Zenon
  <1>3. Forward(L, L + 3, next)
    BY <1>1 DEF Forward, Further
  <1>4. ASSUME NEW i \in 1..L PROVE out[i] \in Seq(Nat)
    <2>1. CASE Escaped(s, i)
      <3>1. i + 1 \in 1..L /\ i + 2 \in 1..L
        BY <1>1, <2>1 DEF Escaped
      <3>2. strtol(s[i + 1], s[i + 2]) \in Nat
        BY <1>1, <3>1, StrtolNat, Zenon
      <3>. QED  BY <2>1, <3>2 DEF Decoded
    <2>2. CASE ~Escaped(s, i)
      <3>1. (IF s[i] = Plus THEN Space ELSE s[i]) \in Nat
        BY <1>1 DEF Space
      <3>. QED  BY <2>2, <3>1 DEF Decoded
    <2>. QED  BY <2>1, <2>2
  <1>. HIDE DEF out, next, L
  <1>5. f[1] \in Seq(Nat)
    BY <1>2, <1>3, <1>4, AppendsSeq
  <1>. QED  BY <1>2, <1>5

\* An encoded text is a text and does not begin with a decimal digit.
LEMMA EncodedText ==
    ASSUME NEW s \in Texts
    PROVE  encode(s) \in Texts /\ (encode(s) # <<>> => encode(s)[1] \notin 48..57)
  <1>. DEFINE S == {t \in Texts : /\ encode(t) \in Texts
                                  /\ encode(t) # <<>> => encode(t)[1] \notin 48..57}
  <1>1. <<>> \in S
    BY EncodeCons, NoneSeq, Zenon DEF Texts
  <1>2. ASSUME NEW c \in Codes, NEW t \in Texts, t \in S PROVE Cat(<<c>>, t) \in S
    <2>. DEFINE e == encode(t)
    <2>1. e \in Texts /\ encode(Cat(<<c>>, t)) = Cat(EncodeChar(c), e) /\ Cat(<<c>>, t) \in Texts
      BY <1>2, EncodeCons, ConsText
    <2>. HIDE DEF e
    <2>2. CASE c \notin Reserved
      <3>1. PICK d \in Codes : EncodeChar(c) = <<d>> /\ d \notin 48..57
        <4>1. CASE c = Space
          BY <4>1 DEF EncodeChar, Plus, Codes
        <4>2. CASE c # Space
          BY <2>2, <4>2 DEF EncodeChar, Reserved
        <4>. QED  BY <4>1, <4>2
      <3>2. Cat(<<d>>, e) \in Texts /\ Cat(<<d>>, e)[1] = d
        BY <2>1, ConsText, SMTT(30)
      <3>. QED  BY <2>1, <3>1, <3>2
    <2>3. CASE c \in Reserved
      <3>. DEFINE h == hex_chars(c \div 16)
                  l == hex_chars(c % 16)
      <3>1. h \in Codes /\ l \in Codes
        BY <2>3, EscapeReads, Zenon
      <3>2. EncodeChar(c) = <<PercentSign, h, l>>
        BY <2>3 DEF EncodeChar, Reserved, Space
      <3>. HIDE DEF h, l
      <3>3. PercentSign \in Codes /\ PercentSign \notin 48..57
        BY DEF PercentSign, Codes
      <3>4. Cat(<<PercentSign, h, l>>, e) \in Texts /\ Cat(<<PercentSign, h, l>>, e)[1] = PercentSign
        BY <2>1, <3>1, <3>3, ThreeText
      <3>. QED  BY <2>1, <3>2, <3>3, <3>4
    <2>. QED  BY <2>2, <2>3
  <1>. HIDE DEF S
  <1>3. Texts \subseteq S
    BY <1>1, <1>2, TextInduction
  <1>. QED  BY <1>3 DEF S

\* decode gives an encoded character back, and goes on after it, except for a percent
\* sign that two characters follow: it is taken for an escape, of another character.
LEMMA DecodeEncoded ==
    ASSUME NEW c \in Codes, NEW e \in Texts, e # <<>> => e[1] \notin 48..57
    PROVE  LET d == decode(Cat(EncodeChar(c), e))
           IN /\ ~(c = PercentSign /\ Len(e) >= 2) => d = Cat(<<c>>, decode(e))
              /\ c = PercentSign /\ Len(e) >= 2 =>
                   \E x \in Nat, r \in Seq(Nat) : x # c /\ d = Cat(<<x>>, r)
  <1>1. Len(e) \in Nat
    BY DEF Texts
  <1>2. CASE c \in Reserved
    <2>. DEFINE h == hex_chars(c \div 16)
                l == hex_chars(c % 16)
                t == Cat(<<PercentSign, h, l>>, e)
    <2>1. h \in Codes /\ l \in Codes /\ strtol(h, l) = c
      BY <1>2, EscapeReads, Zenon
    <2>2. EncodeChar(c) = <<PercentSign, h, l>> /\ c # PercentSign
      BY <1>2 DEF EncodeChar, Reserved, Space, PercentSign
    <2>. HIDE DEF h, l
    <2>3. PercentSign \in Codes
      BY DEF PercentSign, Codes
    <2>4. /\ t \in Texts /\ Len(t) = Len(e) + 3 /\ t[1] = PercentSign /\ t[2] = h /\ t[3] = l
          /\ \A i \in 1..Len(e) : t[i + 3] = e[i]
      BY <2>1, <2>3, ThreeText
    <2>. HIDE DEF t
    <2>5. Escaped(t, 1) /\ 1 + 1 = 2 /\ 1 + 2 = 3
      BY <1>1, <2>4 DEF Escaped
    <2>6. Further(t, 1) = 1 + 3 /\ Decoded(t, 1) = <<c>>
      BY <2>1, <2>4, <2>5 DEF Further, Decoded
    <2>7. decode(t) = Cat(<<c>>, decode(e))
      BY <2>4, <2>6, DecodeStep, SMTT(30)
    <2>. QED  BY <2>2, <2>7 DEF t
  <1>3. CASE c \notin Reserved
    <2>. DEFINE d == IF c = Space THEN Plus ELSE c
                t == Cat(<<d>>, e)
    <2>1. d \in Codes /\ EncodeChar(c) = <<d>> /\ (IF d = Plus THEN Space ELSE d) = c
          /\ (d = PercentSign <=> c = PercentSign)
      BY <1>3 DEF EncodeChar, Codes, Reserved, Space, Plus, PercentSign
    <2>. HIDE DEF d
    <2>2. /\ t \in Texts /\ Len(t) = Len(e) + 1 /\ t[1] = d
          /\ \A i \in 1..Len(e) : t[i + 1] = e[i]
      BY <2>1, ConsText, Zenon
    <2>3. Escaped(t, 1) <=> (c = PercentSign /\ Len(e) >= 2)
      BY <1>1, <2>1, <2>2 DEF Escaped
    <2>4. CASE ~(c = PercentSign /\ Len(e) >= 2)
      <3>. HIDE DEF t
      <3>1. Further(t, 1) = 1 + 1 /\ Decoded(t, 1) = <<c>>
        BY <2>1, <2>2, <2>3, <2>4 DEF Further, Decoded
      <3>2. decode(t) = Cat(<<c>>, decode(e))
        BY <2>2, <3>1, DecodeStep
      <3>. QED  BY <2>1, <2>4, <3>2 DEF t
    <2>5. CASE c = PercentSign /\ Len(e) >= 2
      <3>. DEFINE s == Rest(e, 3)
                  x == strtol(e[1], e[2])
      <3>1. e \in Seq(Codes) /\ 3 \in 1..(Len(e) + 1) /\ 1 \in 1..Len(e) /\ 2 \in 1..Len(e)
        BY <1>1, <2>5 DEF Texts
      <3>2. s \in Texts /\ Len(s) = Len(e) - 2 /\ \A i \in 1..Len(s) : s[i] = e[i + 2]
        <4>1. s \in Texts
          BY <3>1, RestText
        <4>2. Len(s) = Len(e) + 1 - 3 /\ \A i \in 1..(Len(e) + 1 - 3) : s[i] = e[3 + i - 1]
          BY <3>1, RestChars
        <4>3. Len(e) + 1 - 3 = Len(e) - 2 /\ \A i \in 1..(Len(e) + 1 - 3) : 3 + i - 1 = i + 2
          BY <1>1
        <4>. HIDE DEF s
        <4>. QED  BY <4>1, <4>2, <4>3
      <3>. HIDE DEF s, t
      <3>3. t[1 + 1] = e[1] /\ t[1 + 2] = e[2]
        <4>1. 2 + 1 = 1 + 2
          OBVIOUS
        <4>. QED  BY <2>2, <3>1, <4>1
      <3>4. Escaped(t, 1)
        BY <2>3, <2>5
      <3>5. Further(t, 1) = 1 + 3 /\ Decoded(t, 1) = <<x>>
        BY <3>3, <3>4 DEF Further, Decoded
      <3>6. Len(t) = Len(s) + 3 /\ \A i \in 1..Len(s) : t[i + 3] = s[i]
        <4>1. Len(t) = Len(s) + 3
          BY <1>1, <2>2, <3>2
        <4>2. ASSUME NEW i \in 1..Len(s) PROVE t[i + 3] = s[i]
          <5>1. i + 2 \in 1..Len(e) /\ (i + 2) + 1 = i + 3
            BY <1>1, <3>2
          <5>. QED  BY <2>2, <3>2, <5>1
        <4>. QED  BY <4>1, <4>2
      <3>7. decode(t) = Cat(<<x>>, decode(s))
        BY <2>2, <3>2, <3>5, <3>6, DecodeStep, Zenon
      <3>8. x # PercentSign
        <4>1. e[1] \in Codes /\ e[2] \in Codes /\ e # <<>>
          BY <3>1
        <4>. QED  BY <4>1, NoPercentRead
      <3>9. x \in Nat /\ decode(s) \in Seq(Nat)
        <4>1. e[1] \in Nat /\ e[2] \in Nat
          BY <3>1, SMTT(30) DEF Codes
        <4>. QED  BY <3>2, <4>1, StrtolNat, DecodedSeq, Zenon
      <3>. QED  BY <2>1, <2>5, <3>7, <3>8, <3>9, Zenon DEF t
    <2>. QED  BY <2>4, <2>5
  <1>. QED  BY <1>2, <1>3

\* No percent sign of the text is followed, once encoded, by two characters.
Kept(s) == \A i \in DOMAIN s : s[i] = PercentSign => Len(encode(Rest(s, i + 1))) < 2

\* Percent::decode undoes Percent::encode (web_utility.hpp, lines 47-86) exactly for
\* the texts in which no percent sign is followed, once encoded, by two characters:
\* for texts of any length and any characters.
THEOREM PercentUndone == \A s \in Texts : decode(encode(s)) = s <=> Kept(s)
  <1>. DEFINE S == {s \in Texts : decode(encode(s)) = s <=> Kept(s)}
  <1>1. <<>> \in S
    <2>1. decode(encode(<<>>)) = <<>>
      BY EncodeCons, DecodeEmpty
    <2>2. Kept(<<>>) /\ <<>> \in Texts
      BY NoneSeq DEF Kept, Texts
    <2>. QED  BY <2>1, <2>2
  <1>2. ASSUME NEW c \in Codes, NEW s \in Texts, s \in S PROVE Cat(<<c>>, s) \in S
    <2>. DEFINE t == Cat(<<c>>, s)
                e == encode(s)
                d == decode(Cat(EncodeChar(c), e))
                L == Len(s)
    <2>1. /\ t \in Texts /\ L \in Nat /\ Len(t) = L + 1 /\ t[1] = c
          /\ \A i \in 1..L : t[i + 1] = s[i]
      BY ConsText, Zenon
    <2>2. e \in Texts /\ (e # <<>> => e[1] \notin 48..57)
      BY EncodedText
    <2>3. encode(t) = Cat(EncodeChar(c), e)
      BY EncodeCons
    <2>4. decode(e) = s <=> Kept(s)
      BY <1>2
    <2>5. \A k \in 1..(L + 1) : Rest(t, k + 1) = Rest(s, k)
      BY <2>1, RestCons
    <2>6. Rest(s, 1) = s
      BY SubSeqAll DEF Rest, Texts
    <2>. HIDE DEF t, e, L, d
    <2>7. Kept(t) <=> (c = PercentSign => Len(e) < 2) /\ Kept(s)
      <3>1. DOMAIN t = 1..(L + 1) /\ DOMAIN s = 1..L
        BY <2>1 DEF Texts, L
      <3>2. Rest(t, 1 + 1) = s
        BY <2>1, <2>5, <2>6
      <3>3. ASSUME NEW i \in 1..L PROVE t[i + 1] = s[i] /\ Rest(t, (i + 1) + 1) = Rest(s, i + 1)
        BY <2>1, <2>5
      <3>4. ASSUME Kept(t) PROVE (c = PercentSign => Len(e) < 2) /\ Kept(s)
        <4>1. c = PercentSign => Len(e) < 2
          BY <2>1, <3>1, <3>2, <3>4 DEF Kept, e
        <4>2. ASSUME NEW i \in 1..L, s[i] = PercentSign PROVE Len(encode(Rest(s, i + 1))) < 2
          <5>1. i + 1 \in DOMAIN t
            BY <2>1, <3>1
          <5>. QED  BY <3>3, <3>4, <4>2, <5>1 DEF Kept
        <4>. QED  BY <3>1, <4>1, <4>2 DEF Kept
      <3>5. ASSUME c = PercentSign => Len(e) < 2, Kept(s) PROVE Kept(t)
        <4>. SUFFICES ASSUME NEW j \in 1..(L + 1), t[j] = PercentSign
                      PROVE  Len(encode(Rest(t, j + 1))) < 2
          BY <3>1 DEF Kept
        <4>1. CASE j = 1
          BY <2>1, <3>2, <3>5, <4>1 DEF e
        <4>2. CASE j # 1
          <5>1. j - 1 \in 1..L /\ (j - 1) + 1 = j
            BY <2>1, <4>2
          <5>2. s[j - 1] = t[j] /\ Rest(t, j + 1) = Rest(s, (j - 1) + 1)
            BY <3>3, <5>1
          <5>. QED  BY <3>1, <3>5, <5>1, <5>2 DEF Kept
        <4>. QED  BY <4>1, <4>2
      <3>. QED  BY <3>4, <3>5
    <2>8. decode(e) \in Seq(Nat) /\ s \in Seq(Nat) /\ c \in Nat
      <3>1. s \in Seq(Codes) /\ Codes \subseteq Nat
        BY DEF Texts, Codes
      <3>2. s \in Seq(Nat)
        BY <3>1, SeqWiden, Zenon
      <3>. QED  BY <2>2, <3>1, <3>2, DecodedSeq
    <2>9. CASE ~(c = PercentSign /\ Len(e) >= 2)
      <3>1. d = Cat(<<c>>, decode(e))
        BY <2>2, <2>9, DecodeEncoded, Zenon DEF d
      <3>2. d = t <=> decode(e) = s
        <4>1. Cat(<<c>>, decode(e)) = Cat(<<c>>, s) <=> c = c /\ decode(e) = s
          BY <2>8, SameAfter
        <4>. QED  BY <3>1, <4>1 DEF t
      <3>3. c = PercentSign => Len(e) < 2
        BY <2>2, <2>9 DEF Texts
      <3>4. decode(encode(t)) = t <=> Kept(t)
        BY <2>3, <2>4, <2>7, <3>2, <3>3 DEF d
      <3>. QED  BY <2>1, <3>4 DEF t
    <2>10. CASE c = PercentSign /\ Len(e) >= 2
      <3>1. PICK x \in Nat, r \in Seq(Nat) : x # c /\ d = Cat(<<x>>, r)
        BY <2>2, <2>10, DecodeEncoded, Zenon DEF d
      <3>2. d # t
        BY <2>8, <3>1, SameAfter DEF t
      <3>3. ~(Len(e) < 2)
        BY <2>2, <2>10 DEF Texts
      <3>4. decode(encode(t)) = t <=> Kept(t)
        BY <2>3, <2>7, <2>10, <3>2, <3>3 DEF d
      <3>. QED  BY <2>1, <3>4 DEF t
    <2>. QED  BY <2>9, <2>10
  <1>. HIDE DEF S
  <1>3. Texts \subseteq S
    BY <1>1, <1>2, TextInduction
  <1>. QED  BY <1>3 DEF S

\* What PercentRoundTrip says, for texts of any length.
LEMMA PercentRoundTripHolds == ASSUME kind = "percent" => text \in Seq(Codes) PROVE PercentRoundTrip
  <1>. SUFFICES ASSUME kind = "percent" PROVE PercentRoundTrip
    BY DEF PercentRoundTrip
  <1>1. text \in Texts
    BY DEF Texts
  <1>2. decode(encode(text)) = text <=> Kept(text)
    BY <1>1, PercentUndone, Zenon
  <1>. QED  BY <1>2, Zenon DEF PercentRoundTrip, Kept, Rest

-----------------------------------------------------------------------------
(* parse_query_string *)

\* The state before the loop.
QueryStart == [name_pos |-> 1, name_end_pos |-> npos, value_pos |-> npos, result |-> <<>>]

\* The state after c rounds: the equation that parse_query_string takes its value from.
Rounds(q, L, f) == f = [c \in 0..L |-> IF c = 0 THEN QueryStart ELSE QueryStep(q, f[c - 1], c)]

\* There is such a function.
LEMMA RoundsExist ==
    ASSUME NEW q, NEW L \in Nat
    PROVE  \E f : Rounds(q, L, f)
  <1>. DEFINE S == {m \in 0..L : \E f : Rounds(q, m, f)}
  <1>1. 0 \in S
    <2>. DEFINE f == [n \in 0..0 |-> QueryStart]
    <2>1. f = [n \in 0..0 |-> IF n = 0 THEN QueryStart ELSE QueryStep(q, f[n - 1], n)]
      OBVIOUS
    <2>2. Rounds(q, 0, f)
      BY <2>1 DEF Rounds
    <2>. QED  BY <2>2
  <1>2. ASSUME NEW m \in 0..L, m \in S, m < L PROVE m + 1 \in S
    <2>1. PICK f : Rounds(q, m, f)
      BY <1>2
    <2>2. \A n \in 0..m : f[n] = IF n = 0 THEN QueryStart ELSE QueryStep(q, f[n - 1], n)
      BY <2>1 DEF Rounds
    <2>. DEFINE g == [n \in 0..(m + 1) |-> IF n = m + 1 THEN QueryStep(q, f[m], m + 1) ELSE f[n]]
    <2>3. \A n \in 0..(m + 1) : g[n] = IF n = 0 THEN QueryStart ELSE QueryStep(q, g[n - 1], n)
      <3>. SUFFICES ASSUME NEW n \in 0..(m + 1)
                    PROVE  g[n] = IF n = 0 THEN QueryStart ELSE QueryStep(q, g[n - 1], n)
        OBVIOUS
      <3>1. CASE n = m + 1
        <4>1. n # 0 /\ n - 1 = m /\ m \in 0..(m + 1) /\ m # m + 1
          BY <3>1
        <4>2. g[n - 1] = f[m]
          BY <4>1
        <4>. QED  BY <3>1, <4>1, <4>2
      <3>2. CASE n \in 0..m
        <4>1. n # m + 1 /\ g[n] = f[n]
          BY <3>2
        <4>2. n # 0 => n - 1 \in 0..(m + 1) /\ n - 1 # m + 1
          BY <3>2
        <4>3. n # 0 => g[n - 1] = f[n - 1]
          BY <4>2
        <4>. QED  BY <2>2, <3>2, <4>1, <4>3
      <3>. QED  BY <3>1, <3>2
    <2>. HIDE DEF g
    <2>4. g = [n \in 0..(m + 1) |-> IF n = 0 THEN QueryStart ELSE QueryStep(q, g[n - 1], n)]
      <3>1. g = [n \in 0..(m + 1) |-> g[n]]
        BY DEF g
      <3>. QED  BY <2>3, <3>1, Zenon
    <2>5. Rounds(q, m + 1, g)
      BY <2>4 DEF Rounds
    <2>. QED  BY <1>2, <2>5
  <1>. HIDE DEF S
  <1>3. 0..L \subseteq S
    BY <1>1, <1>2, Induction
  <1>4. L \in S
    BY <1>3
  <1>. QED  BY <1>4 DEF S

\* So parse_query_string ends with its last value.
LEMMA QueryRounds ==
    ASSUME NEW q, Len(q) \in Nat
    PROVE  \E f : /\ Rounds(q, Len(q), f)
                  /\ LET end == f[Len(q)]
                     IN parse_query_string(q) =
                            IF end.name_pos <= Len(q)
                            THEN end.result \o Parameter(q, end, Len(q) + 1) ELSE end.result
  <1>. DEFINE f == CHOOSE f : Rounds(q, Len(q), f)
  <1>1. Rounds(q, Len(q), f)
    BY RoundsExist, Zenon
  <1>2. LET end == f[Len(q)]
        IN parse_query_string(q) =
               IF end.name_pos <= Len(q)
               THEN end.result \o Parameter(q, end, Len(q) + 1) ELSE end.result
    BY DEF parse_query_string, Rounds, QueryStart
  <1>. QED  BY <1>1, <1>2, Zenon

\* The state after c rounds: a piece begins at name_pos and has not ended by c, its
\* last equals sign so far is at name_end_pos, its value begins after that sign.
Reading(q, s, c) ==
    /\ s.name_pos \in 1..(c + 1)
    /\ s.name_pos = 1 \/ q[s.name_pos - 1] = Ampersand
    /\ \A i \in s.name_pos..c : q[i] # Ampersand
    /\ \/ /\ s.name_end_pos = npos /\ s.value_pos = npos
          /\ \A i \in s.name_pos..c : q[i] # Equals
       \/ /\ s.name_end_pos \in s.name_pos..c /\ s.value_pos = s.name_end_pos + 1
          /\ q[s.name_end_pos] = Equals
          /\ \A i \in (s.name_end_pos + 1)..c : q[i] # Equals

\* The result so far holds the parameters of the pieces in N, each once.
Collected(q, result, N) ==
    /\ result \in Seq({Cut(q, p) : p \in Pieces(q)})
    /\ IsFiniteSet(N) /\ Len(result) = Cardinality(N)
    /\ {result[n] : n \in DOMAIN result} = {Cut(q, p) : p \in N}

\* The pieces with a name that an ampersand up to c ends.
Ended(q, c) == {p \in Pieces(q) : p[2] < c /\ Cut(q, p).name # <<>>}

\* The piece that is being read, when it ends before c + 1, is the only one that does.
LEMMA PieceEnds ==
    ASSUME NEW q \in Texts, NEW c \in 0..Len(q), NEW s, Reading(q, s, c),
           c = Len(q) \/ q[c + 1] = Ampersand
    PROVE  /\ <<s.name_pos, c>> \in Pieces(q)
           /\ \A p \in Pieces(q) : p[2] = c => p = <<s.name_pos, c>>
  <1>. DEFINE a == s.name_pos
              L == Len(q)
  <1>1. L \in Nat
    BY DEF Texts
  <1>2. /\ a \in 1..(c + 1) /\ (a = 1 \/ q[a - 1] = Ampersand)
        /\ \A i \in a..c : q[i] # Ampersand
    BY DEF Reading
  <1>. HIDE DEF a
  <1>3. <<a, c>> \in Pieces(q)
    <2>1. a \in 1..(L + 1) /\ a <= c + 1
      BY <1>1, <1>2
    <2>. QED  BY <1>2, <2>1 DEF Pieces
  <1>4. ASSUME NEW p \in Pieces(q), p[2] = c PROVE p = <<a, c>>
    <2>1. /\ p \in (1..(L + 1)) \X (0..L) /\ p[1] <= p[2] + 1
          /\ (p[1] = 1 \/ q[p[1] - 1] = Ampersand)
          /\ \A i \in p[1]..p[2] : q[i] # Ampersand
      BY DEF Pieces
    <2>. DEFINE b == p[1]
    <2>2. b \in 1..(c + 1) /\ p = <<b, c>> /\ (b = 1 \/ q[b - 1] = Ampersand)
          /\ \A i \in b..c : q[i] # Ampersand
      BY <1>1, <1>4, <2>1
    <2>. HIDE DEF b
    <2>3. ~(a < b)
      <3>. SUFFICES ASSUME a < b PROVE FALSE
        OBVIOUS
      <3>1. b # 1 /\ b - 1 \in a..c
        BY <1>2, <2>2
      <3>. QED  BY <1>2, <2>2, <3>1
    <2>4. ~(b < a)
      <3>. SUFFICES ASSUME b < a PROVE FALSE
        OBVIOUS
      <3>1. a # 1 /\ a - 1 \in b..c
        BY <1>2, <2>2
      <3>. QED  BY <1>2, <2>2, <3>1
    <2>5. a = b
      BY <1>2, <2>2, <2>3, <2>4
    <2>. QED  BY <2>2, <2>5
  <1>. QED  BY <1>3, <1>4 DEF a

\* Its parameter is what Cut makes of it.
LEMMA PieceCut ==
    ASSUME NEW q \in Texts, NEW c \in 0..Len(q), NEW s, Reading(q, s, c)
    PROVE  LET x == Cut(q, <<s.name_pos, c>>)
           IN Parameter(q, s, c + 1) = IF x.name = <<>> THEN <<>> ELSE <<x>>
  <1>. DEFINE a == s.name_pos
              e == s.name_end_pos
              signs == {i \in a..c : q[i] = Equals}
              x == Cut(q, <<a, c>>)
  <1>1. Len(q) \in Nat /\ a \in 1..(c + 1) /\ (c + 1) - 1 = c
    BY DEF Texts, Reading
  <1>2. CASE e = npos
    <2>1. signs = {} /\ s.value_pos = npos
      BY <1>1, <1>2 DEF Reading, npos
    <2>2. x = [name |-> SubSeq(q, a, c), value |-> <<>>]
      BY <2>1 DEF Cut
    <2>3. Parameter(q, s, c + 1) = IF SubSeq(q, a, c) = <<>> THEN <<>>
                                   ELSE <<[name |-> SubSeq(q, a, c), value |-> decode(<<>>)]>>
      BY <1>1, <1>2, <2>1 DEF Parameter
    <2>4. x.name = SubSeq(q, a, c)
      BY <2>2
    <2>. HIDE DEF x
    <2>5. Parameter(q, s, c + 1) = IF x.name = <<>> THEN <<>> ELSE <<x>>
      BY <2>2, <2>3, <2>4, DecodeEmpty, Zenon
    <2>. QED  BY <2>5 DEF x
  <1>3. CASE e # npos
    <2>1. /\ e \in a..c /\ s.value_pos = e + 1 /\ q[e] = Equals
          /\ \A i \in (e + 1)..c : q[i] # Equals
      BY <1>3 DEF Reading
    <2>2. signs # {} /\ Max(signs) = e
      <3>1. e \in signs
        BY <2>1
      <3>2. signs \subseteq 0..c
        BY <1>1
      <3>3. Max(signs) \in signs /\ \A y \in signs : Max(signs) >= y
        <4>1. c \in Nat /\ signs # {}
          BY <1>1, <3>1
        <4>. HIDE DEF signs
        <4>. QED  BY <3>2, <4>1, Greatest, Zenon
      <3>. DEFINE m == Max(signs)
      <3>4. m \in a..c /\ q[m] = Equals /\ m >= e
        BY <3>1, <3>3
      <3>. HIDE DEF m
      <3>5. m = e
        <4>1. m # e => m \in (e + 1)..c
          BY <1>1, <2>1, <3>4
        <4>. QED  BY <2>1, <3>4, <4>1
      <3>. QED  BY <3>1, <3>5 DEF m
    <2>3. x = [name |-> SubSeq(q, a, e - 1), value |-> decode(SubSeq(q, e + 1, c))]
      BY <2>2, Zenon DEF Cut
    <2>4. e + 1 # npos
      BY <1>1, <2>1 DEF npos
    <2>5. Parameter(q, s, c + 1) =
            IF SubSeq(q, a, e - 1) = <<>> THEN <<>>
            ELSE <<[name |-> SubSeq(q, a, e - 1), value |-> decode(SubSeq(q, e + 1, c))]>>
      BY <1>1, <1>3, <2>1, <2>4 DEF Parameter
    <2>6. x.name = SubSeq(q, a, e - 1)
      BY <2>3
    <2>. HIDE DEF x
    <2>7. Parameter(q, s, c + 1) = IF x.name = <<>> THEN <<>> ELSE <<x>>
      BY <2>3, <2>5, <2>6, Zenon
    <2>. QED  BY <2>7 DEF x
  <1>. QED  BY <1>2, <1>3

QueryStates(q) == [name_pos : Nat, name_end_pos : Nat, value_pos : Nat,
                   result : Seq({Cut(q, p) : p \in Pieces(q)})]

\* How the number of elements grows: what the loop's rounds need of finite sets,
\* a hypothesis of the lemmas below that QueryParsed discharges
\* (in ConversionsProofs).
Counting ==
    /\ IsFiniteSet({}) /\ Cardinality({}) = 0
    /\ \A S, x : IsFiniteSet(S) /\ x \notin S =>
           IsFiniteSet(S \cup {x}) /\ Cardinality(S \cup {x}) = Cardinality(S) + 1

\* One more piece.
LEMMA CollectPiece ==
    ASSUME Counting,
           NEW q, NEW N, NEW result, Collected(q, result, N), NEW p \in Pieces(q), p \notin N
    PROVE  Collected(q, result \o <<Cut(q, p)>>, N \cup {p})
  <1>. DEFINE X == {Cut(q, r) : r \in Pieces(q)}
              x == Cut(q, p)
              l == Len(result)
              t == result \o <<x>>
  <1>1. /\ result \in Seq(X) /\ IsFiniteSet(N) /\ l = Cardinality(N)
        /\ {result[n] : n \in DOMAIN result} = {Cut(q, r) : r \in N}
    BY Zenon DEF Collected
  <1>2. x \in X
    OBVIOUS
  <1>. HIDE DEF X, x
  <1>3. /\ t \in Seq(X) /\ Len(t) = l + 1 /\ l \in Nat /\ DOMAIN result = 1..l
        /\ DOMAIN t = 1..(l + 1)
        /\ t[l + 1] = x /\ \A n \in 1..l : t[n] = result[n]
    BY <1>1, <1>2
  <1>. HIDE DEF t
  <1>4. IsFiniteSet(N \cup {p}) /\ Cardinality(N \cup {p}) = l + 1
    BY <1>1, Zenon DEF Counting
  <1>5. {t[n] : n \in DOMAIN t} = {Cut(q, r) : r \in N} \cup {x}
    <2>. HIDE DEF l
    <2>1. 1..(l + 1) = 1..l \cup {l + 1}
      BY <1>3
    <2>2. {t[n] : n \in DOMAIN t} = {t[n] : n \in 1..l} \cup {t[l + 1]}
      BY <1>3, <2>1
    <2>3. {t[n] : n \in 1..l} = {result[n] : n \in DOMAIN result}
      BY <1>3
    <2>. QED  BY <1>1, <1>3, <2>2, <2>3, Zenon
  <1>6. {Cut(q, r) : r \in N} \cup {x} = {Cut(q, r) : r \in N \cup {p}}
    BY DEF x
  <1>. QED  BY <1>3, <1>4, <1>5, <1>6, Zenon DEF Collected, X, t, x

\* A round of the loop keeps the state of reading, and at an ampersand adds the
\* parameter read.
LEMMA ReadingStep ==
    ASSUME NEW q \in Texts, NEW c \in 0..Len(q), c < Len(q), NEW s \in QueryStates(q),
           Reading(q, s, c)
    PROVE  LET t == QueryStep(q, s, c + 1)
           IN /\ Reading(q, t, c + 1)
              /\ t.name_pos \in Nat /\ t.name_end_pos \in Nat /\ t.value_pos \in Nat
              /\ t = [name_pos |-> t.name_pos, name_end_pos |-> t.name_end_pos,
                      value_pos |-> t.value_pos, result |-> t.result]
              /\ t.result = IF q[c + 1] = Ampersand THEN s.result \o Parameter(q, s, c + 1)
                            ELSE s.result
  <1>. DEFINE d == c + 1
              t == QueryStep(q, s, d)
  <1>1. d \in Nat /\ c \in Nat /\ d = c + 1 /\ d \in 1..Len(q) /\ Len(q) \in Nat
    BY DEF Texts
  <1>2. /\ s.name_pos \in Nat /\ s.name_end_pos \in Nat /\ s.value_pos \in Nat
        /\ s = [name_pos |-> s.name_pos, name_end_pos |-> s.name_end_pos,
                value_pos |-> s.value_pos, result |-> s.result]
    BY DEF QueryStates
  <1>3. CASE q[d] = Ampersand
    <2>1. t = [name_pos |-> d + 1, name_end_pos |-> npos, value_pos |-> npos,
               result |-> s.result \o Parameter(q, s, d)]
      BY <1>3 DEF QueryStep, Ampersand, Equals
    <2>. DEFINE r == s.result \o Parameter(q, s, d)
    <2>. HIDE DEF t, r, d
    <2>2. t.name_pos = d + 1 /\ t.name_end_pos = 0 /\ t.value_pos = 0 /\ t.result = r
      BY <2>1 DEF npos, r
    <2>3. Reading(q, t, d)
      <3>1. d + 1 \in 1..(d + 1) /\ (d + 1) - 1 = d /\ \A i \in (d + 1)..d : FALSE
        BY <1>1
      <3>. QED  BY <1>1, <1>3, <2>2, <3>1 DEF Reading, npos
    <2>4. t.name_pos \in Nat /\ t.name_end_pos \in Nat /\ t.value_pos \in Nat
      BY <1>1, <2>2
    <2>5. t = [name_pos |-> t.name_pos, name_end_pos |-> t.name_end_pos,
               value_pos |-> t.value_pos, result |-> t.result]
      BY <2>1, <2>2 DEF npos, r
    <2>6. t.result = IF q[d] = Ampersand THEN s.result \o Parameter(q, s, d) ELSE s.result
      BY <1>3, <2>2 DEF r
    <2>. QED  BY <2>3, <2>4, <2>5, <2>6 DEF t, d
  <1>4. CASE q[d] = Equals
    <2>1. q[d] # Ampersand
      BY <1>4 DEF Ampersand, Equals
    <2>2. t = [s EXCEPT !.name_end_pos = d, !.value_pos = d + 1]
      BY <1>4, <2>1 DEF QueryStep
    <2>3. t = [name_pos |-> s.name_pos, name_end_pos |-> d, value_pos |-> d + 1,
               result |-> s.result]
      BY <1>2, <2>2, Zenon
    <2>. HIDE DEF t, d
    <2>4. t.name_pos = s.name_pos /\ t.name_end_pos = d /\ t.value_pos = d + 1
          /\ t.result = s.result
      BY <2>3
    <2>5. Reading(q, t, d)
      <3>1. /\ s.name_pos \in 1..(c + 1) /\ (s.name_pos = 1 \/ q[s.name_pos - 1] = Ampersand)
            /\ \A i \in s.name_pos..c : q[i] # Ampersand
        BY DEF Reading
      <3>2. /\ s.name_pos \in 1..(d + 1) /\ d \in s.name_pos..d
            /\ \A i \in s.name_pos..d : i = d \/ i \in s.name_pos..c
            /\ \A i \in (d + 1)..d : FALSE
        BY <1>1, <3>1
      <3>3. \A i \in s.name_pos..d : q[i] # Ampersand
        BY <2>1, <3>1, <3>2
      <3>. QED  BY <1>4, <2>4, <3>1, <3>2, <3>3 DEF Reading
    <2>6. d + 1 \in Nat
      BY <1>1
    <2>. QED  BY <1>1, <1>2, <2>1, <2>3, <2>4, <2>5, <2>6 DEF t, d
  <1>5. CASE q[d] # Ampersand /\ q[d] # Equals
    <2>1. t = s
      BY <1>5, Zenon DEF QueryStep
    <2>2. Reading(q, s, d)
      <3>. HIDE DEF d
      <3>1. /\ s.name_pos \in 1..(c + 1) /\ (s.name_pos = 1 \/ q[s.name_pos - 1] = Ampersand)
            /\ \A i \in s.name_pos..c : q[i] # Ampersand
        BY DEF Reading
      <3>2. /\ s.name_pos \in 1..(d + 1)
            /\ \A i \in s.name_pos..d : i = d \/ i \in s.name_pos..c
        BY <1>1, <3>1
      <3>3. \A i \in s.name_pos..d : q[i] # Ampersand
        BY <1>5, <3>1, <3>2
      <3>4. CASE /\ s.name_end_pos = npos /\ s.value_pos = npos
                 /\ \A i \in s.name_pos..c : q[i] # Equals
        <4>1. \A i \in s.name_pos..d : q[i] # Equals
          BY <1>5, <3>2, <3>4
        <4>. QED  BY <3>1, <3>2, <3>3, <3>4, <4>1 DEF Reading
      <3>5. CASE /\ s.name_end_pos \in s.name_pos..c /\ s.value_pos = s.name_end_pos + 1
                 /\ q[s.name_end_pos] = Equals
                 /\ \A i \in (s.name_end_pos + 1)..c : q[i] # Equals
        <4>1. /\ s.name_end_pos \in s.name_pos..d
              /\ \A i \in (s.name_end_pos + 1)..d : i = d \/ i \in (s.name_end_pos + 1)..c
          BY <1>1, <1>2, <3>5
        <4>2. \A i \in (s.name_end_pos + 1)..d : q[i] # Equals
          BY <1>5, <3>5, <4>1
        <4>. QED  BY <3>1, <3>2, <3>3, <3>5, <4>1, <4>2 DEF Reading
      <3>. QED  BY <3>4, <3>5 DEF Reading
    <2>. HIDE DEF t
    <2>. QED  BY <1>2, <1>5, <2>1, <2>2 DEF t
  <1>. QED  BY <1>3, <1>4, <1>5

\* The piece that ends at c is collected if it has a name.
LEMMA PieceCollected ==
    ASSUME Counting,
           NEW q \in Texts, NEW c \in 0..Len(q), NEW s, Reading(q, s, c),
           Collected(q, s.result, Ended(q, c)), c = Len(q) \/ q[c + 1] = Ampersand
    PROVE  Collected(q, s.result \o Parameter(q, s, c + 1), Ended(q, c + 1))
  <1>. DEFINE p == <<s.name_pos, c>>
              x == Cut(q, p)
  <1>1. p \in Pieces(q) /\ \A r \in Pieces(q) : r[2] = c => r = p
    BY PieceEnds
  <1>2. Parameter(q, s, c + 1) = IF x.name = <<>> THEN <<>> ELSE <<x>>
    BY PieceCut
  <1>3. p[2] = c /\ c \in Nat
    OBVIOUS
  <1>. HIDE DEF p
  <1>4. \A r \in Pieces(q) : r[2] \in Nat
    <2>1. Len(q) \in Nat
      BY DEF Texts
    <2>. QED  BY <2>1 DEF Pieces
  <1>5. \A r \in Pieces(q) : r[2] < c + 1 <=> r[2] < c \/ r[2] = c
    BY <1>3, <1>4
  <1>6. CASE x.name = <<>>
    <2>1. Ended(q, c + 1) = Ended(q, c)
      BY <1>1, <1>5, <1>6 DEF Ended
    <2>2. s.result \o <<>> = s.result
      BY ConcatNothing DEF Collected
    <2>. QED  BY <1>2, <1>6, <2>1, <2>2, Zenon
  <1>7. CASE x.name # <<>>
    <2>1. Ended(q, c + 1) = Ended(q, c) \cup {p}
      BY <1>1, <1>3, <1>5, <1>7 DEF Ended
    <2>2. p \notin Ended(q, c)
      BY <1>3 DEF Ended
    <2>3. Collected(q, s.result \o <<x>>, Ended(q, c) \cup {p})
      BY <1>1, <2>2, CollectPiece
    <2>. QED  BY <1>2, <1>7, <2>1, <2>3, Zenon
  <1>. QED  BY <1>6, <1>7

\* Reading and what has been collected, after c rounds.
ReadSoFar(q, s, c) ==
    s \in QueryStates(q) /\ Reading(q, s, c) /\ Collected(q, s.result, Ended(q, c))

\* The pieces found, round by round.
LEMMA QueryFollowed ==
    ASSUME Counting, NEW q \in Texts
    PROVE  LET found == parse_query_string(q)
               named == {p \in Pieces(q) : Cut(q, p).name # <<>>}
           IN /\ Len(found) = Cardinality(named)
              /\ {found[n] : n \in DOMAIN found} = {Cut(q, p) : p \in named}
  <1>. DEFINE L == Len(q)
              found == parse_query_string(q)
              named == {p \in Pieces(q) : Cut(q, p).name # <<>>}
  <1>1. L \in Nat
    BY DEF Texts
  <1>2. PICK f : /\ Rounds(q, L, f)
                 /\ found = IF f[L].name_pos <= L
                            THEN f[L].result \o Parameter(q, f[L], L + 1) ELSE f[L].result
    BY <1>1, QueryRounds, Zenon
  <1>. HIDE DEF found
  <1>3. f[0] = QueryStart /\ \A c \in 1..L : f[c] = QueryStep(q, f[c - 1], c)
    BY <1>1, <1>2 DEF Rounds
  <1>. DEFINE S == {c \in 0..L : ReadSoFar(q, f[c], c)}
  <1>4. 0 \in S
    <2>1. QueryStart \in QueryStates(q)
      BY DEF QueryStart, QueryStates, npos
    <2>2. Reading(q, QueryStart, 0)
      BY DEF Reading, QueryStart
    <2>3. Ended(q, 0) = {}
      BY <1>1 DEF Ended, Pieces
    <2>4. Collected(q, <<>>, {})
      BY DEF Collected, Counting
    <2>5. QueryStart.result = <<>>
      BY DEF QueryStart
    <2>6. ReadSoFar(q, QueryStart, 0)
      BY <2>1, <2>2, <2>3, <2>4, <2>5, Zenon DEF ReadSoFar
    <2>. QED  BY <1>1, <1>3, <2>6
  <1>5. ASSUME NEW c \in 0..L, c \in S, c < L PROVE c + 1 \in S
    <2>. DEFINE s == f[c]
                t == f[c + 1]
    <2>1. c + 1 \in 1..L /\ c + 1 \in 0..L /\ (c + 1) - 1 = c
      BY <1>1, <1>5
    <2>2. t = QueryStep(q, s, c + 1)
      BY <1>3, <2>1
    <2>3. s \in QueryStates(q) /\ Reading(q, s, c) /\ Collected(q, s.result, Ended(q, c))
      BY <1>5 DEF ReadSoFar
    <2>. HIDE DEF s, t
    <2>4. /\ Reading(q, t, c + 1)
          /\ t.name_pos \in Nat /\ t.name_end_pos \in Nat /\ t.value_pos \in Nat
          /\ t = [name_pos |-> t.name_pos, name_end_pos |-> t.name_end_pos,
                  value_pos |-> t.value_pos, result |-> t.result]
          /\ t.result = IF q[c + 1] = Ampersand THEN s.result \o Parameter(q, s, c + 1)
                        ELSE s.result
      BY <1>5, <2>2, <2>3, ReadingStep, Zenon
    <2>5. Collected(q, t.result, Ended(q, c + 1))
      <3>1. CASE q[c + 1] = Ampersand
        BY <2>3, <2>4, <3>1, PieceCollected
      <3>2. CASE q[c + 1] # Ampersand
        <4>1. Ended(q, c + 1) = Ended(q, c)
          <5>1. \A p \in Pieces(q) : p[2] \in Nat /\ p[2] # c
            BY <1>1, <1>5, <3>2 DEF Pieces
          <5>2. \A p \in Pieces(q) : p[2] < c + 1 <=> p[2] < c
            BY <5>1
          <5>. QED  BY <5>2 DEF Ended
        <4>. QED  BY <2>3, <2>4, <3>2, <4>1
      <3>. QED  BY <3>1, <3>2
    <2>6. t \in QueryStates(q)
      <3>1. t.result \in Seq({Cut(q, p) : p \in Pieces(q)})
        BY <2>5 DEF Collected
      <3>. QED  BY <2>4, <3>1, Zenon DEF QueryStates
    <2>. QED  BY <2>1, <2>4, <2>5, <2>6 DEF ReadSoFar, t
  <1>. HIDE DEF S
  <1>6. 0..L \subseteq S
    BY <1>1, <1>4, <1>5, Induction, SMTT(30)
  <1>7. L \in S
    BY <1>1, <1>6
  <1>. DEFINE s == f[L]
  <1>8. Reading(q, s, L) /\ Collected(q, s.result, Ended(q, L))
    BY <1>7 DEF S, ReadSoFar
  <1>. HIDE DEF s
  <1>9. Collected(q, s.result \o Parameter(q, s, L + 1), Ended(q, L + 1))
    BY <1>1, <1>8, PieceCollected
  <1>10. Ended(q, L + 1) = named
    BY <1>1 DEF Ended, Pieces
  <1>11. Collected(q, found, named)
    <2>1. CASE s.name_pos <= L
      BY <1>2, <1>9, <1>10, <2>1, Zenon DEF s
    <2>2. CASE ~(s.name_pos <= L)
      <3>1. s.name_pos = L + 1
        BY <1>1, <1>8, <2>2 DEF Reading
      <3>. DEFINE x == Cut(q, <<L + 1, L>>)
      <3>2. x = [name |-> SubSeq(q, L + 1, L), value |-> <<>>]
        <4>1. {i \in (L + 1)..L : q[i] = Equals} = {}
          BY <1>1
        <4>. QED  BY <4>1 DEF Cut
      <3>3. x.name = <<>>
        <4>1. SubSeq(q, L + 1, L) = <<>>
          BY <1>1, SubSeqNone
        <4>. QED  BY <3>2, <4>1
      <3>. HIDE DEF x
      <3>4. Parameter(q, s, L + 1) = <<>>
        <4>1. L \in 0..L
          BY <1>1
        <4>2. Parameter(q, s, L + 1) = IF x.name = <<>> THEN <<>> ELSE <<x>>
          BY <1>8, <3>1, <4>1, PieceCut DEF x
        <4>. QED  BY <3>3, <4>2, Zenon
      <3>5. s.result \o <<>> = s.result
        BY <1>8, ConcatNothing DEF Collected
      <3>. QED  BY <1>2, <1>9, <1>10, <2>2, <3>4, <3>5, Zenon DEF s
    <2>. QED  BY <2>1, <2>2
  <1>. QED  BY <1>11, Zenon DEF Collected, found

\* What QueryParameters says, for query strings of any length.
LEMMA QueryParametersHolds ==
    ASSUME Counting, kind = "query" => text \in Seq(Codes)
    PROVE  QueryParameters
  <1>. SUFFICES ASSUME kind = "query" PROVE QueryParameters
    BY Zenon DEF QueryParameters
  <1>1. text \in Texts
    BY DEF Texts
  <1>. QED  BY <1>1, QueryFollowed, Zenon DEF QueryParameters
=============================================================================
