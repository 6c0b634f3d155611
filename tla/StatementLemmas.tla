-------------------------- MODULE StatementLemmas --------------------------
(***************************************************************************)
(* What the builders of json2sql.cpp say, for objects of any size and      *)
(* texts of any length.  A statement is read the way Reads does: the       *)
(* proofs follow the loops that separate their items, then cut the         *)
(* statement at its words.                                                 *)
(*                                                                         *)
(* The lemmas about loops rest on induction over an initial part of the    *)
(* naturals, which they take as the hypothesis Inductive: the library      *)
(* theorems it is proved from would be part of every obligation here.      *)
(* ConversionsProofs proves Inductive and states the results without it.   *)
(***************************************************************************)
EXTENDS SqlProperties, TLAPS

-----------------------------------------------------------------------------
(* Sequences *)

\* Sequences with the same elements at the same places are equal.
LEMMA EqualSeqs ==
    ASSUME NEW X, NEW a \in Seq(X), NEW b \in Seq(X), Len(a) = Len(b),
           \A i \in 1..Len(a) : a[i] = b[i]
    PROVE  a = b
  OBVIOUS

\* A function on 1..n is a sequence of length n.
LEMMA SeqMade ==
    ASSUME NEW X, NEW n \in Nat, NEW f \in [1..n -> X]
    PROVE  f \in Seq(X) /\ Len(f) = n
  OBVIOUS

\* The places of a concatenation.
LEMMA ConcatPlaces ==
    ASSUME NEW X, NEW a \in Seq(X), NEW b \in Seq(X)
    PROVE  /\ a \o b \in Seq(X)
           /\ Len(a \o b) = Len(a) + Len(b)
           /\ \A i \in 1..(Len(a) + Len(b)) :
                (a \o b)[i] = IF i <= Len(a) THEN a[i] ELSE b[i - Len(a)]
  OBVIOUS

\* Nothing appended.
LEMMA ConcatEmpty ==
    ASSUME NEW X, NEW a \in Seq(X)
    PROVE  a \o <<>> = a /\ <<>> \o a = a
  OBVIOUS

\* The places of an Append.
LEMMA AppendIs ==
    ASSUME NEW X, NEW a \in Seq(X), NEW e \in X
    PROVE  /\ Append(a, e) \in Seq(X) /\ Append(a, e) # <<>> /\ Len(Append(a, e)) = Len(a) + 1
           /\ \A i \in 1..Len(a) : Append(a, e)[i] = a[i]
           /\ Append(a, e)[Len(a) + 1] = e
  OBVIOUS

\* The places of a substring.
LEMMA SubSeqPlaces ==
    ASSUME NEW X, NEW a, NEW m \in Int, NEW n \in Int, \A i \in m..n : a[i] \in X
    PROVE  /\ SubSeq(a, m, n) \in Seq(X)
           /\ Len(SubSeq(a, m, n)) = IF m <= n THEN n - m + 1 ELSE 0
           /\ \A i \in 1..(n - m + 1) : SubSeq(a, m, n)[i] = a[m + i - 1]
  OBVIOUS

-----------------------------------------------------------------------------
(* Induction, loops and sequences *)

\* Induction over an initial part of the naturals, for sets.
Inductive ==
    \A L \in Nat : \A S :
        0 \in S /\ (\A n \in 0..L : n \in S /\ n < L => n + 1 \in S) => 0..L \subseteq S

\* The form in which the proofs use it.
LEMMA Upward ==
    ASSUME Inductive, NEW L \in Nat, NEW S, 0 \in S, \A n \in 0..L : n \in S /\ n < L => n + 1 \in S
    PROVE  0..L \subseteq S
  BY DEF Inductive

\* Induction from the end of a sequence, for sets.
LEMMA Backward ==
    ASSUME Inductive, NEW L \in Nat, NEW S, L + 1 \in S, \A i \in 1..L : i + 1 \in S => i \in S
    PROVE  1..(L + 1) \subseteq S
  <1>. DEFINE T == {m \in 0..L : L + 1 - m \in S}
  <1>1. 0 \in T
    OBVIOUS
  <1>2. ASSUME NEW m \in 0..L, m \in T, m < L PROVE m + 1 \in T
    <2>1. L - m \in 1..L /\ (L - m) + 1 = L + 1 - m /\ L + 1 - (m + 1) = L - m /\ m + 1 \in 0..L
      BY <1>2
    <2>2. (L - m) + 1 \in S
      BY <1>2, <2>1
    <2>3. L - m \in S
      BY <2>1, <2>2
    <2>. QED  BY <2>1, <2>3
  <1>. HIDE DEF T
  <1>3. 0..L \subseteq T
    BY <1>1, <1>2, Upward
  <1>. SUFFICES ASSUME NEW i \in 1..(L + 1) PROVE i \in S
    OBVIOUS
  <1>4. L + 1 - i \in 0..L /\ L + 1 - (L + 1 - i) = i
    OBVIOUS
  <1>5. L + 1 - i \in T
    BY <1>3, <1>4
  <1>. QED  BY <1>4, <1>5 DEF T

\* The rounds of Flatten: what is appended from each index on.
LEMMA FlattenRounds ==
    ASSUME Inductive, NEW parts, Len(parts) \in Nat
    PROVE  \E f : /\ Flatten(parts) = f[1] /\ f[Len(parts) + 1] = <<>>
                  /\ \A i \in 1..Len(parts) : f[i] = parts[i] \o f[i + 1]
  <1>. DEFINE L == Len(parts)
              Round(f, i) == IF i > L THEN <<>> ELSE parts[i] \o f[i + 1]
              Eq(f) == f = [i \in 1..(L + 1) |-> Round(f, i)]
              S == {k \in 1..(L + 1) : \E f : \A i \in k..(L + 1) : f[i] = Round(f, i)}
  <1>1. L \in Nat
    OBVIOUS
  <1>2. L + 1 \in S
    <2>. DEFINE f == [i \in 1..(L + 1) |-> <<>>]
    <2>1. \A i \in (L + 1)..(L + 1) : i \in 1..(L + 1) /\ i > L
      BY <1>1
    <2>2. \A i \in (L + 1)..(L + 1) : f[i] = Round(f, i)
      BY <2>1
    <2>3. L + 1 \in 1..(L + 1)
      BY <1>1
    <2>. QED  BY <2>2, <2>3, Zenon
  <1>3. ASSUME NEW k \in 1..L, k + 1 \in S PROVE k \in S
    <2>1. PICK f : \A i \in (k + 1)..(L + 1) : f[i] = Round(f, i)
      BY <1>3
    <2>. DEFINE g == [i \in 1..(L + 1) |-> IF i = k THEN parts[k] \o f[k + 1] ELSE f[i]]
    <2>2. \A i \in k..(L + 1) : /\ i \in 1..(L + 1) /\ (i = k \/ i \in (k + 1)..(L + 1))
                                /\ i # i + 1 /\ (i > L \/ i + 1 \in (k + 1)..(L + 1))
      BY <1>1
    <2>3. \A i \in (k + 1)..(L + 1) : i \in 1..(L + 1) /\ i # k
      BY <1>1
    <2>4. k \in 1..(L + 1) /\ ~(k > L) /\ k + 1 \in (k + 1)..(L + 1)
      BY <1>1
    <2>5. g[k] = parts[k] \o f[k + 1] /\ \A i \in (k + 1)..(L + 1) : g[i] = f[i]
      BY <2>3, <2>4, Zenon
    <2>. HIDE DEF g, L
    <2>6. ASSUME NEW i \in k..(L + 1) PROVE g[i] = Round(g, i)
      <3>1. CASE i = k
        <4>1. g[k + 1] = f[k + 1]
          BY <2>4, <2>5, Zenon
        <4>. QED  BY <2>4, <2>5, <3>1, <4>1, Zenon
      <3>2. CASE i \in (k + 1)..(L + 1)
        <4>1. g[i] = f[i] /\ f[i] = Round(f, i)
          BY <2>1, <2>5, <3>2, Zenon
        <4>2. i > L \/ g[i + 1] = f[i + 1]
          BY <2>2, <2>5, Zenon
        <4>. QED  BY <4>1, <4>2, Zenon
      <3>. QED  BY <2>2, <3>1, <3>2, Zenon
    <2>. QED  BY <2>4, <2>6, Zenon
  <1>. HIDE DEF S
  <1>4. 1 \in S
    <2>1. 1..(L + 1) \subseteq S
      BY <1>1, <1>2, <1>3, Backward, Zenon
    <2>2. 1 \in 1..(L + 1)
      BY <1>1
    <2>. QED  BY <2>1, <2>2, Zenon
  <1>5. \E f : Eq(f)
    <2>1. PICK f : \A i \in 1..(L + 1) : f[i] = Round(f, i)
      BY <1>4 DEF S
    <2>. DEFINE g == [i \in 1..(L + 1) |-> f[i]]
    <2>2. \A i \in 1..(L + 1) : i > L \/ i + 1 \in 1..(L + 1)
      BY <1>1
    <2>. HIDE DEF L
    <2>3. \A i \in 1..(L + 1) : f[i] = Round(g, i)
      BY <2>1, <2>2, Zenon
    <2>. DEFINE R(i) == Round(g, i)
    <2>. HIDE DEF Round
    <2>4. [i \in 1..(L + 1) |-> f[i]] = [i \in 1..(L + 1) |-> R(i)]
      BY <2>3
    <2>. QED  BY <2>4, Zenon
  <1>. DEFINE f == CHOOSE f : Eq(f)
  <1>6. Flatten(parts) = f[1]
    BY DEF Flatten
  <1>7. Eq(f)
    <2>. HIDE DEF Eq
    <2>. QED  BY <1>5, Zenon
  <1>. HIDE DEF f
  <1>8. \A i \in 1..(L + 1) : f[i] = Round(f, i)
    BY <1>7, Zenon
  <1>9. L + 1 \in 1..(L + 1) /\ L + 1 > L /\ \A i \in 1..L : i \in 1..(L + 1) /\ ~(i > L)
    BY <1>1
  <1>. HIDE DEF L
  <1>10. f[L + 1] = <<>> /\ \A i \in 1..L : f[i] = parts[i] \o f[i + 1]
    BY <1>8, <1>9, Zenon
  <1>. QED  BY <1>6, <1>10, Zenon DEF L

\* Concatenation, element by element.
LEMMA ConcatAt ==
    ASSUME NEW X, NEW a \in Seq(X), NEW b \in Seq(X)
    PROVE  /\ a \o b \in Seq(X) /\ Len(a) \in Nat /\ Len(b) \in Nat
           /\ Len(a \o b) = Len(a) + Len(b)
           /\ \A i \in 1..Len(a) : (a \o b)[i] = a[i]
           /\ \A i \in 1..Len(b) : (a \o b)[i + Len(a)] = b[i]
  <1>1. /\ a \o b \in Seq(X) /\ Len(a \o b) = Len(a) + Len(b) /\ Len(a) \in Nat /\ Len(b) \in Nat
        /\ \A i \in 1..(Len(a) + Len(b)) :
             (a \o b)[i] = IF i <= Len(a) THEN a[i] ELSE b[i - Len(a)]
    BY ConcatPlaces
  <1>2. \A i \in 1..Len(a) : i \in 1..(Len(a) + Len(b)) /\ i <= Len(a)
    BY <1>1
  <1>3. \A i \in 1..Len(b) : /\ i + Len(a) \in 1..(Len(a) + Len(b)) /\ ~(i + Len(a) <= Len(a))
                             /\ (i + Len(a)) - Len(a) = i
    BY <1>1
  <1>4. \A i \in 1..Len(a) : (a \o b)[i] = a[i]
    BY <1>1, <1>2
  <1>5. \A i \in 1..Len(b) : (a \o b)[i + Len(a)] = b[i]
    BY <1>1, <1>3
  <1>. QED  BY <1>1, <1>4, <1>5

\* The empty text appended.
LEMMA ConcatNone ==
    ASSUME NEW X, NEW s \in Seq(X)
    PROVE  s \o <<>> = s /\ <<>> \o s = s
  BY ConcatEmpty

\* A text of one character.
LEMMA OneChar == \A X : \A c \in X : <<c>> \in Seq(X) /\ Len(<<c>>) = 1 /\ <<c>>[1] = c
  OBVIOUS

\* A function on 1..l as a sequence.
LEMMA AsSeq ==
    ASSUME NEW X, NEW l \in Nat, NEW f \in [1..l -> X]
    PROVE  f \in Seq(X) /\ Len(f) = l /\ DOMAIN f = 1..l
  OBVIOUS

\* A part of a sequence, element by element.
LEMMA SubSeqAt ==
    ASSUME NEW X, NEW t \in Seq(X), NEW n \in Nat, NEW w \in Nat, 1 <= n, n + w - 1 <= Len(t)
    PROVE  LET r == SubSeq(t, n, n + w - 1)
           IN r \in Seq(X) /\ Len(r) = w /\ \A i \in 1..w : r[i] = t[n + i - 1]
  <1>. DEFINE m == n + w - 1
              r == SubSeq(t, n, m)
  <1>1. \A i \in n..m : t[i] \in X
    OBVIOUS
  <1>2. n \in Int /\ m \in Int
    OBVIOUS
  <1>. HIDE DEF m
  <1>3. /\ r \in Seq(X) /\ Len(r) = IF n <= m THEN m - n + 1 ELSE 0
        /\ \A i \in 1..(m - n + 1) : r[i] = t[n + i - 1]
    BY <1>1, <1>2, SubSeqPlaces
  <1>. HIDE DEF r
  <1>4. m - n + 1 = w /\ (n <= m \/ w = 0)
    BY DEF m
  <1>5. Len(r) = w
    BY <1>3, <1>4
  <1>. QED  BY <1>3, <1>4, <1>5 DEF r, m

\* Inner takes off the first and the last character.
LEMMA InnerOf ==
    ASSUME NEW X, NEW a \in X, NEW s \in Seq(X), NEW b \in X
    PROVE  Inner(<<a>> \o s \o <<b>>) = s
  <1>. DEFINE l == Len(s)
              t == <<a>> \o s
              u == t \o <<b>>
              r == SubSeq(u, 2, Len(u) - 1)
  <1>1. <<a>> \in Seq(X) /\ Len(<<a>>) = 1 /\ <<b>> \in Seq(X) /\ Len(<<b>>) = 1 /\ l \in Nat
    OBVIOUS
  <1>2. t \in Seq(X) /\ Len(t) = 1 + l /\ \A i \in 1..l : t[i + 1] = s[i]
    BY <1>1, ConcatAt
  <1>. HIDE DEF t
  <1>3. u \in Seq(X) /\ Len(u) = (1 + l) + 1 /\ \A i \in 1..(1 + l) : u[i] = t[i]
    BY <1>1, <1>2, ConcatAt
  <1>. HIDE DEF u
  <1>4. \A i \in 2..(Len(u) - 1) : u[i] \in X
    BY <1>1, <1>3
  <1>5. 2 \in Int /\ Len(u) - 1 \in Int
    BY <1>1, <1>3
  <1>6. /\ r \in Seq(X) /\ Len(r) = IF 2 <= Len(u) - 1 THEN (Len(u) - 1) - 2 + 1 ELSE 0
        /\ \A i \in 1..((Len(u) - 1) - 2 + 1) : r[i] = u[2 + i - 1]
    BY <1>4, <1>5, SubSeqPlaces
  <1>. HIDE DEF r, l
  <1>7. Len(r) = l
    BY <1>1, <1>3, <1>6
  <1>8. ASSUME NEW i \in 1..l PROVE r[i] = s[i]
    <2>1. i \in 1..((Len(u) - 1) - 2 + 1) /\ 2 + i - 1 = i + 1 /\ i + 1 \in 1..(1 + l)
      BY <1>1, <1>3
    <2>. QED  BY <1>2, <1>3, <1>6, <2>1
  <1>9. r = s
    BY <1>6, <1>7, <1>8, EqualSeqs DEF l
  <1>. QED  BY <1>9 DEF Inner, r, u, t

-----------------------------------------------------------------------------
(* Lists for "in" *)

\* boost::replace_all of the double quotes.
DoubleQuote == "\""
SingleQuote == "'"
Requoted(s) == [n \in DOMAIN s |-> IF s[n] = DoubleQuote THEN SingleQuote ELSE s[n]]

\* Replacing keeps the length, and texts without a double quote.
LEMMA RequotedSeq ==
    ASSUME NEW X, SingleQuote \in X, NEW s \in Seq(X)
    PROVE  /\ Requoted(s) \in Seq(X) /\ Len(Requoted(s)) = Len(s)
           /\ (\A n \in DOMAIN s : s[n] # DoubleQuote) => Requoted(s) = s
  <1>. DEFINE L == Len(s)
              E(n) == IF s[n] = DoubleQuote THEN SingleQuote ELSE s[n]
              r == [n \in 1..L |-> E(n)]
  <1>1. L \in Nat /\ DOMAIN s = 1..L /\ \A n \in 1..L : s[n] \in X
    OBVIOUS
  <1>2. \A n \in 1..L : E(n) \in X
    BY <1>1
  <1>. HIDE DEF E
  <1>3. r \in [1..L -> X]
    BY <1>2
  <1>4. r \in Seq(X) /\ Len(r) = L
    BY <1>1, <1>3, SeqMade
  <1>5. Requoted(s) = r
    BY <1>1 DEF Requoted, E
  <1>6. ASSUME \A n \in DOMAIN s : s[n] # DoubleQuote PROVE r = s
    <2>1. \A n \in 1..L : r[n] = s[n]
      BY <1>1, <1>6 DEF E
    <2>. QED  BY <1>1, <1>4, <2>1, EqualSeqs
  <1>. QED  BY <1>4, <1>5, <1>6

\* It goes through a text part by part.
LEMMA RequotedConcat ==
    ASSUME NEW X, SingleQuote \in X, NEW a \in Seq(X), NEW b \in Seq(X)
    PROVE  Requoted(a \o b) = Requoted(a) \o Requoted(b)
  <1>. DEFINE s == a \o b
              p == Requoted(a)
              q == Requoted(b)
              r == Requoted(s)
              t == p \o q
  <1>1. /\ s \in Seq(X) /\ Len(a) \in Nat /\ Len(b) \in Nat /\ Len(s) = Len(a) + Len(b)
        /\ \A i \in 1..Len(a) : s[i] = a[i]
        /\ \A i \in 1..Len(b) : s[i + Len(a)] = b[i]
    BY ConcatAt
  <1>2. p \in Seq(X) /\ Len(p) = Len(a) /\ q \in Seq(X) /\ Len(q) = Len(b)
    BY RequotedSeq
  <1>. HIDE DEF s
  <1>3. r \in Seq(X) /\ Len(r) = Len(s)
    BY <1>1, RequotedSeq
  <1>4. /\ \A i \in 1..Len(a) : p[i] = IF a[i] = DoubleQuote THEN SingleQuote ELSE a[i]
        /\ \A i \in 1..Len(b) : q[i] = IF b[i] = DoubleQuote THEN SingleQuote ELSE b[i]
        /\ \A i \in 1..Len(s) : r[i] = IF s[i] = DoubleQuote THEN SingleQuote ELSE s[i]
    BY <1>1 DEF Requoted
  <1>. HIDE DEF p, q, r
  <1>5. /\ t \in Seq(X) /\ Len(t) = Len(a) + Len(b)
        /\ \A i \in 1..Len(a) : t[i] = p[i]
        /\ \A i \in 1..Len(b) : t[i + Len(a)] = q[i]
    <2>1. p \in Seq(X) /\ q \in Seq(X)
      BY <1>2
    <2>2. /\ p \o q \in Seq(X) /\ Len(p \o q) = Len(p) + Len(q)
          /\ \A i \in 1..Len(p) : (p \o q)[i] = p[i]
          /\ \A i \in 1..Len(q) : (p \o q)[i + Len(p)] = q[i]
      BY <2>1, ConcatAt
    <2>. QED  BY <1>2, <2>2
  <1>. HIDE DEF t
  <1>6. ASSUME NEW i \in 1..Len(r) PROVE r[i] = t[i]
    <2>1. CASE i <= Len(a)
      <3>1. i \in 1..Len(a) /\ i \in 1..Len(s)
        BY <1>1, <1>3, <2>1
      <3>. QED  BY <1>1, <1>4, <1>5, <3>1
    <2>2. CASE ~(i <= Len(a))
      <3>. DEFINE j == i - Len(a)
      <3>1. j \in 1..Len(b) /\ j + Len(a) = i /\ i \in 1..Len(s)
        BY <1>1, <1>3, <2>2
      <3>. HIDE DEF j
      <3>2. s[i] = b[j] /\ t[i] = q[j]
        BY <1>1, <1>5, <3>1
      <3>. QED  BY <1>4, <3>1, <3>2
    <2>. QED  BY <2>1, <2>2
  <1>7. r = t
    BY <1>1, <1>3, <1>5, <1>6, EqualSeqs
  <1>. QED  BY <1>7 DEF r, s, t, p, q

\* So it goes through a loop that appends.
LEMMA RequotedFlatten ==
    ASSUME Inductive, NEW X, SingleQuote \in X, NEW parts, NEW other, Len(parts) \in Nat, Len(other) = Len(parts),
           \A i \in 1..Len(parts) : parts[i] \in Seq(X) /\ other[i] = Requoted(parts[i])
    PROVE  Flatten(parts) \in Seq(X) /\ Flatten(other) = Requoted(Flatten(parts))
  <1>. DEFINE L == Len(parts)
  <1>1. PICK f : /\ Flatten(parts) = f[1] /\ f[L + 1] = <<>>
                 /\ \A i \in 1..L : f[i] = parts[i] \o f[i + 1]
    BY FlattenRounds, Zenon
  <1>2. PICK g : /\ Flatten(other) = g[1] /\ g[L + 1] = <<>>
                 /\ \A i \in 1..L : g[i] = other[i] \o g[i + 1]
    <2>1. Len(other) \in Nat /\ Len(other) = L
      OBVIOUS
    <2>2. \E g : /\ Flatten(other) = g[1] /\ g[Len(other) + 1] = <<>>
                 /\ \A i \in 1..Len(other) : g[i] = other[i] \o g[i + 1]
      BY <2>1, FlattenRounds, Zenon
    <2>. HIDE DEF L
    <2>. QED  BY <2>1, <2>2, Zenon
  <1>. DEFINE S == {i \in 1..(L + 1) : f[i] \in Seq(X) /\ g[i] = Requoted(f[i])}
  <1>3. L + 1 \in S
    <2>1. <<>> \in Seq(X) /\ Len(<<>>) = 0
      OBVIOUS
    <2>2. Requoted(<<>>) \in Seq(X) /\ Len(Requoted(<<>>)) = 0
      BY <2>1, RequotedSeq, Zenon
    <2>3. Requoted(<<>>) = <<>>
      BY <2>2
    <2>4. L + 1 \in 1..(L + 1)
      OBVIOUS
    <2>5. f[L + 1] = <<>> /\ g[L + 1] = <<>>
      BY <1>1, <1>2
    <2>. HIDE DEF L
    <2>. QED  BY <2>1, <2>3, <2>4, <2>5, Zenon
  <1>4. ASSUME NEW i \in 1..L, i + 1 \in S PROVE i \in S
    <2>1. f[i + 1] \in Seq(X) /\ g[i + 1] = Requoted(f[i + 1])
      BY <1>4
    <2>2. f[i] = parts[i] \o f[i + 1] /\ g[i] = Requoted(parts[i]) \o Requoted(f[i + 1])
      BY <1>1, <1>2, <2>1, Zenon
    <2>3. parts[i] \in Seq(X)
      OBVIOUS
    <2>4. f[i] \in Seq(X) /\ g[i] = Requoted(f[i])
      <3>1. parts[i] \o f[i + 1] \in Seq(X)
        BY <2>1, <2>3, ConcatAt
      <3>2. Requoted(parts[i] \o f[i + 1]) = Requoted(parts[i]) \o Requoted(f[i + 1])
        BY <2>1, <2>3, RequotedConcat, Zenon
      <3>. QED  BY <2>2, <3>1, <3>2
    <2>5. i \in 1..(L + 1)
      OBVIOUS
    <2>. QED  BY <2>4, <2>5
  <1>. HIDE DEF S
  <1>5. 1 \in S
    <2>1. 1..(L + 1) \subseteq S
      BY <1>3, <1>4, Backward, Zenon
    <2>2. 1 \in 1..(L + 1)
      OBVIOUS
    <2>. QED  BY <2>1, <2>2
  <1>. QED  BY <1>1, <1>2, <1>5 DEF S

\* Before the first character.
SplitStart == [token |-> <<>>, done |-> <<>>, run |-> FALSE]

\* f is the function that split defines by recursion.
SplitRounds(str, Separators, L, f) ==
    f = [c \in 0..L |-> IF c = 0 THEN SplitStart ELSE SplitStep(str[c], f[c - 1], Separators)]

\* There is one.
LEMMA SplitExists ==
    ASSUME Inductive, NEW str, NEW Separators, NEW L \in Nat
    PROVE  \E f : SplitRounds(str, Separators, L, f)
  <1>. DEFINE S == {m \in 0..L : \E f : SplitRounds(str, Separators, m, f)}
              Round(n, h) == IF n = 0 THEN SplitStart ELSE SplitStep(str[n], h[n - 1], Separators)
  <1>1. 0 \in S
    <2>. DEFINE f == [n \in 0..0 |-> SplitStart]
    <2>1. f = [n \in 0..0 |-> Round(n, f)]
      OBVIOUS
    <2>2. SplitRounds(str, Separators, 0, f)
      BY <2>1 DEF SplitRounds
    <2>. QED  BY <2>2
  <1>2. ASSUME NEW m \in 0..L, m \in S, m < L PROVE m + 1 \in S
    <2>1. PICK f : SplitRounds(str, Separators, m, f)
      BY <1>2
    <2>2. \A n \in 0..m : f[n] = Round(n, f)
      BY <2>1 DEF SplitRounds
    <2>. DEFINE g == [n \in 0..(m + 1) |->
                        IF n = m + 1 THEN SplitStep(str[m + 1], f[m], Separators) ELSE f[n]]
    <2>3. \A n \in 0..(m + 1) : g[n] = Round(n, g)
      <3>. SUFFICES ASSUME NEW n \in 0..(m + 1) PROVE g[n] = Round(n, g)
        OBVIOUS
      <3>1. CASE n = m + 1
        <4>1. n # 0 /\ n - 1 = m /\ m \in 0..(m + 1) /\ m # m + 1
          BY <3>1
        <4>2. g[n - 1] = f[m]
          BY <4>1
        <4>. QED  BY <3>1, <4>1, <4>2
      <3>2. CASE n \in 0..m
        <4>1. n # m + 1 /\ g[n] = f[n]
          BY <3>2
        <4>2. n # 0 => n - 1 \in 0..(m + 1) /\ n - 1 # m + 1
          BY <3>2
        <4>3. n # 0 => g[n - 1] = f[n - 1]
          BY <4>2
        <4>. QED  BY <2>2, <3>2, <4>1, <4>3
      <3>. QED  BY <3>1, <3>2
    <2>. HIDE DEF g
    <2>4. g = [n \in 0..(m + 1) |-> Round(n, g)]
      <3>1. g = [n \in 0..(m + 1) |-> g[n]]
        BY DEF g
      <3>. QED  BY <2>3, <3>1, Zenon
    <2>5. SplitRounds(str, Separators, m + 1, g)
      BY <2>4 DEF SplitRounds
    <2>. QED  BY <1>2, <2>5
  <1>. HIDE DEF S
  <1>3. 0..L \subseteq S
    BY <1>1, <1>2, Upward
  <1>4. L \in S
    BY <1>3
  <1>. QED  BY <1>4 DEF S

\* So split ends with its last value.
LEMMA SplitEnds ==
    ASSUME Inductive, NEW str, NEW Separators, Len(str) \in Nat
    PROVE  \E f : /\ SplitRounds(str, Separators, Len(str), f)
                  /\ split(str, Separators) = Append(f[Len(str)].done, f[Len(str)].token)
  <1>. DEFINE f == CHOOSE f : SplitRounds(str, Separators, Len(str), f)
  <1>1. SplitRounds(str, Separators, Len(str), f)
    BY SplitExists, Zenon
  <1>2. split(str, Separators) = Append(f[Len(str)].done, f[Len(str)].token)
    BY DEF split, SplitRounds, SplitStart
  <1>. QED  BY <1>1, <1>2, Zenon

\* The last index and the ones before it.
LEMMA LastOrBefore == \A l \in Nat : \A n \in 1..(l + 1) : n \in 1..l \/ n = l + 1
  OBVIOUS

\* The state after c characters: the words are made of the text's characters, and an
\* empty word that is complete is the first one, before a separator.
Splitting(str, Separators, X, s, c) ==
    /\ s \in [token : Seq(X), done : Seq(Seq(X)), run : BOOLEAN]
    /\ s.run => c > 0 /\ str[c] \in Separators
    /\ s.token = <<>> => s.run \/ (c = 0 /\ s.done = <<>>)
    /\ \A n \in DOMAIN s.done : s.done[n] = <<>> => n = 1 /\ c > 0 /\ str[1] \in Separators

\* A round keeps it.
LEMMA SplitKeeps ==
    ASSUME NEW X, NEW Separators, NEW str \in Seq(X), NEW s, NEW c \in Nat, c + 1 <= Len(str),
           Splitting(str, Separators, X, s, c)
    PROVE  Splitting(str, Separators, X, SplitStep(str[c + 1], s, Separators), c + 1)
  <1>. DEFINE r == SplitStep(str[c + 1], s, Separators)
  <1>1. /\ s \in [token : Seq(X), done : Seq(Seq(X)), run : BOOLEAN]
        /\ s.run => c > 0 /\ str[c] \in Separators
        /\ s.token = <<>> => s.run \/ (c = 0 /\ s.done = <<>>)
        /\ \A n \in DOMAIN s.done : s.done[n] = <<>> => n = 1 /\ c > 0 /\ str[1] \in Separators
    BY DEF Splitting
  <1>2. str[c + 1] \in X /\ c + 1 > 0 /\ (c = 0 => c + 1 = 1)
    OBVIOUS
  <1>3. s.token \in Seq(X) /\ s.done \in Seq(Seq(X)) /\ s.run \in BOOLEAN
    BY <1>1
  <1>4. CASE str[c + 1] \notin Separators
    <2>1. r = [s EXCEPT !.token = Append(@, str[c + 1]), !.run = FALSE]
      BY <1>4 DEF SplitStep
    <2>. HIDE DEF r
    <2>2. r.token = Append(s.token, str[c + 1]) /\ r.done = s.done /\ r.run = FALSE
          /\ r = [token |-> r.token, done |-> r.done, run |-> r.run]
      BY <1>1, <2>1, Zenon
    <2>3. Append(s.token, str[c + 1]) \in Seq(X) /\ Append(s.token, str[c + 1]) # <<>>
      <3>1. ASSUME NEW t \in Seq(X), NEW e \in X PROVE Append(t, e) \in Seq(X) /\ Append(t, e) # <<>>
        BY AppendIs
      <3>. QED  BY <1>2, <1>3, <3>1, Zenon
    <2>4. r \in [token : Seq(X), done : Seq(Seq(X)), run : BOOLEAN]
      BY <1>3, <2>2, <2>3, Zenon
    <2>. QED  BY <1>1, <1>2, <2>2, <2>3, <2>4 DEF Splitting, r
  <1>5. CASE str[c + 1] \in Separators /\ s.run
    <2>1. r = s
      BY <1>5 DEF SplitStep
    <2>. HIDE DEF r
    <2>. QED  BY <1>1, <1>2, <1>5, <2>1 DEF Splitting, r
  <1>6. CASE str[c + 1] \in Separators /\ ~s.run
    <2>1. r = [token |-> <<>>, done |-> Append(s.done, s.token), run |-> TRUE]
      BY <1>6 DEF SplitStep
    <2>. DEFINE d == Append(s.done, s.token)
    <2>2. /\ d \in Seq(Seq(X)) /\ Len(s.done) \in Nat /\ Len(d) = Len(s.done) + 1
          /\ \A i \in 1..Len(s.done) : d[i] = s.done[i]
          /\ d[Len(s.done) + 1] = s.token
          /\ DOMAIN s.done = 1..Len(s.done) /\ DOMAIN d = 1..(Len(s.done) + 1)
      BY <1>3, AppendIs
    <2>. HIDE DEF r, d
    <2>3. r.token = <<>> /\ r.done = d /\ r.run = TRUE
          /\ r \in [token : Seq(X), done : Seq(Seq(X)), run : BOOLEAN]
      BY <2>1, <2>2 DEF d
    <2>4. ASSUME NEW n \in DOMAIN d, d[n] = <<>> PROVE n = 1 /\ str[1] \in Separators
      <3>1. CASE n \in 1..Len(s.done)
        BY <1>1, <2>2, <2>4, <3>1, Zenon
      <3>2. CASE n = Len(s.done) + 1
        <4>1. c = 0 /\ s.done = <<>>
          BY <1>1, <1>6, <2>2, <2>4, <3>2
        <4>2. Len(s.done) = 0 /\ c + 1 = 1
          BY <4>1
        <4>. QED  BY <1>6, <3>2, <4>2
      <3>. QED  BY <2>2, <3>1, <3>2, LastOrBefore, Zenon
    <2>. QED  BY <1>2, <1>6, <2>3, <2>4 DEF Splitting, r
  <1>. QED  BY <1>1, <1>4, <1>5, <1>6

\* The words of split are made of the text's characters, and an empty one comes from a
\* separator at an end of the text, or is all of an empty text.
LEMMA SplitWords ==
    ASSUME Inductive, NEW X, NEW Separators, NEW str \in Seq(X)
    PROVE  LET words == split(str, Separators)
           IN /\ words \in Seq(Seq(X)) /\ words # <<>>
              /\ \A n \in DOMAIN words : words[n] = <<>> =>
                    \/ n = 1 /\ (str = <<>> \/ str[1] \in Separators)
                    \/ n = Len(words) /\ str[Len(str)] \in Separators
  <1>. DEFINE L == Len(str)
  <1>1. L \in Nat /\ (str = <<>> <=> L = 0)
    OBVIOUS
  <1>2. PICK f : /\ SplitRounds(str, Separators, L, f)
                 /\ split(str, Separators) = Append(f[L].done, f[L].token)
    BY <1>1, SplitEnds
  <1>3. \A c \in 0..L : f[c] = IF c = 0 THEN SplitStart ELSE SplitStep(str[c], f[c - 1], Separators)
    BY <1>2 DEF SplitRounds
  <1>. DEFINE S == {c \in 0..L : Splitting(str, Separators, X, f[c], c)}
  <1>. HIDE DEF L
  <1>4. 0 \in S
    <2>1. f[0] = SplitStart /\ 0 \in 0..L
      BY <1>1, <1>3
    <2>2. Splitting(str, Separators, X, SplitStart, 0)
      BY DEF Splitting, SplitStart
    <2>. QED  BY <2>1, <2>2
  <1>5. ASSUME NEW c \in 0..L, c \in S, c < L PROVE c + 1 \in S
    <2>1. c + 1 \in 0..L /\ c + 1 # 0 /\ (c + 1) - 1 = c /\ c \in Nat /\ c + 1 <= Len(str)
      BY <1>1, <1>5 DEF L
    <2>2. f[c + 1] = SplitStep(str[c + 1], f[c], Separators)
      BY <1>3, <2>1
    <2>3. Splitting(str, Separators, X, f[c], c)
      BY <1>5
    <2>4. Splitting(str, Separators, X, SplitStep(str[c + 1], f[c], Separators), c + 1)
      BY <2>1, <2>3, SplitKeeps
    <2>. QED  BY <2>1, <2>2, <2>4
  <1>. HIDE DEF S
  <1>6. 0..L \subseteq S
    BY <1>1, <1>4, <1>5, Upward
  <1>. DEFINE s == f[L]
  <1>7. Splitting(str, Separators, X, s, L)
    <2>1. L \in 0..L
      BY <1>1
    <2>2. L \in S
      BY <1>6, <2>1
    <2>. QED  BY <2>2 DEF S
  <1>. HIDE DEF s
  <1>8. /\ s.token \in Seq(X) /\ s.done \in Seq(Seq(X))
        /\ s.run => L > 0 /\ str[L] \in Separators
        /\ s.token = <<>> => s.run \/ (L = 0 /\ s.done = <<>>)
        /\ \A n \in DOMAIN s.done : s.done[n] = <<>> => n = 1 /\ L > 0 /\ str[1] \in Separators
    BY <1>7 DEF Splitting
  <1>. DEFINE words == Append(s.done, s.token)
  <1>9. /\ words \in Seq(Seq(X)) /\ words # <<>> /\ Len(s.done) \in Nat
        /\ Len(words) = Len(s.done) + 1
        /\ \A i \in 1..Len(s.done) : words[i] = s.done[i]
        /\ words[Len(s.done) + 1] = s.token
        /\ DOMAIN s.done = 1..Len(s.done) /\ DOMAIN words = 1..(Len(s.done) + 1)
    BY <1>8, AppendIs, SMTT(30)
  <1>10. words = split(str, Separators)
    BY <1>2 DEF s
  <1>. HIDE DEF words
  <1>11. ASSUME NEW n \in DOMAIN words, words[n] = <<>>
         PROVE  \/ n = 1 /\ (str = <<>> \/ str[1] \in Separators)
                \/ n = Len(words) /\ str[L] \in Separators
    <2>1. CASE n \in 1..Len(s.done)
      BY <1>8, <1>9, <1>11, <2>1, Zenon
    <2>2. CASE n = Len(s.done) + 1
      <3>1. s.token = <<>>
        BY <1>9, <1>11, <2>2
      <3>2. CASE s.run
        BY <1>8, <1>9, <2>2, <3>2
      <3>3. CASE L = 0 /\ s.done = <<>>
        BY <1>1, <2>2, <3>3
      <3>. QED  BY <1>8, <3>1, <3>2, <3>3
    <2>. QED  BY <1>9, <2>1, <2>2, LastOrBefore, Zenon
  <1>. QED  BY <1>9, <1>10, <1>11 DEF L

\* One character replaced.
LEMMA RequotedOne ==
    ASSUME NEW X, SingleQuote \in X, NEW c \in X
    PROVE  Requoted(<<c>>) = IF c = DoubleQuote THEN <<SingleQuote>> ELSE <<c>>
  <1>1. <<c>> \in Seq(X) /\ Len(<<c>>) = 1 /\ DOMAIN <<c>> = 1..1 /\ <<c>>[1] = c
    OBVIOUS
  <1>2. Requoted(<<c>>) \in Seq(X) /\ Len(Requoted(<<c>>)) = 1
    BY <1>1, RequotedSeq, Zenon
  <1>3. Requoted(<<c>>)[1] = IF c = DoubleQuote THEN SingleQuote ELSE c
    BY <1>1 DEF Requoted
  <1>4. Requoted(<<c>>) = <<Requoted(<<c>>)[1]>>
    BY <1>2
  <1>. QED  BY <1>3, <1>4

\* A word in quotes: replacing its quotes leaves the word.
LEMMA RequotedWord ==
    ASSUME NEW X, SingleQuote \in X, DoubleQuote \in X, NEW w \in Seq(X),
           \A i \in DOMAIN w : w[i] # DoubleQuote
    PROVE  /\ <<DoubleQuote>> \o w \o <<DoubleQuote>> \in Seq(X)
           /\ Requoted(<<DoubleQuote>> \o w \o <<DoubleQuote>>) = <<SingleQuote>> \o w \o <<SingleQuote>>
  <1>. DEFINE q == <<DoubleQuote>>
              t == q \o w
  <1>1. q \in Seq(X) /\ Requoted(q) = <<SingleQuote>>
    BY RequotedOne
  <1>. HIDE DEF q
  <1>2. Requoted(w) = w
    BY RequotedSeq
  <1>3. t \in Seq(X)
    BY <1>1, ConcatAt
  <1>4. Requoted(t) = <<SingleQuote>> \o w
    BY <1>1, <1>2, RequotedConcat, Zenon
  <1>. HIDE DEF t
  <1>5. t \o q \in Seq(X)
    BY <1>1, <1>3, ConcatAt
  <1>6. Requoted(t \o q) = Requoted(t) \o Requoted(q)
    BY <1>1, <1>3, RequotedConcat, Zenon
  <1>. QED  BY <1>1, <1>4, <1>5, <1>6, Zenon DEF t, q

\* So a list of words in quotes becomes the list of the words in the other quotes.
LEMMA RequotedList ==
    ASSUME Inductive, NEW X, SingleQuote \in X, DoubleQuote \in X, NEW words \in Seq(Seq(X)),
           \A n \in DOMAIN words : \A i \in DOMAIN words[n] : words[n][i] # DoubleQuote,
           NEW sep \in X, sep # DoubleQuote
    PROVE  LET from == [n \in DOMAIN words |-> <<DoubleQuote>> \o words[n] \o <<DoubleQuote>>]
               to == [n \in DOMAIN words |-> <<SingleQuote>> \o words[n] \o <<SingleQuote>>]
           IN Listed(from, sep) \in Seq(X) /\ Listed(to, sep) = Requoted(Listed(from, sep))
  <1>. DEFINE L == Len(words)
              J(n) == <<DoubleQuote>> \o words[n] \o <<DoubleQuote>>
              K(n) == <<SingleQuote>> \o words[n] \o <<SingleQuote>>
              from == [n \in 1..L |-> J(n)]
              to == [n \in 1..L |-> K(n)]
              P(n) == IF n # L THEN J(n) \o <<sep>> ELSE J(n)
              Q(n) == IF n # L THEN K(n) \o <<sep>> ELSE K(n)
              parts == [n \in 1..L |-> P(n)]
              other == [n \in 1..L |-> Q(n)]
  <1>1. L \in Nat /\ DOMAIN words = 1..L /\ \A n \in 1..L : words[n] \in Seq(X)
    OBVIOUS
  <1>2. \A n \in 1..L : J(n) \in Seq(X) /\ Requoted(J(n)) = K(n)
    BY <1>1, RequotedWord, Zenon
  <1>3. <<sep>> \in Seq(X) /\ Requoted(<<sep>>) = <<sep>>
    BY RequotedOne
  <1>. HIDE DEF L, J, K
  <1>4. \A n \in 1..L : J(n) \o <<sep>> \in Seq(X) /\ Requoted(J(n) \o <<sep>>) = K(n) \o <<sep>>
    <2>. SUFFICES ASSUME NEW n \in 1..L
                  PROVE  J(n) \o <<sep>> \in Seq(X) /\ Requoted(J(n) \o <<sep>>) = K(n) \o <<sep>>
      BY Zenon
    <2>1. J(n) \in Seq(X) /\ Requoted(J(n)) = K(n)
      BY <1>2
    <2>2. J(n) \o <<sep>> \in Seq(X)
      BY <1>3, <2>1, ConcatAt
    <2>3. Requoted(J(n) \o <<sep>>) = Requoted(J(n)) \o Requoted(<<sep>>)
      BY <1>3, <2>1, RequotedConcat, Zenon
    <2>. QED  BY <1>3, <2>1, <2>2, <2>3, Zenon
  <1>5. \A n \in 1..L : P(n) \in Seq(X) /\ Q(n) = Requoted(P(n))
    BY <1>2, <1>4, Zenon
  <1>6. Len(from) = L /\ DOMAIN from = 1..L /\ Len(to) = L /\ DOMAIN to = 1..L
    <2>1. from \in [1..L -> {J(n) : n \in 1..L}] /\ to \in [1..L -> {K(n) : n \in 1..L}]
      OBVIOUS
    <2>. HIDE DEF from, to
    <2>. QED  BY <1>1, <2>1, AsSeq
  <1>7. Listed(from, sep) = Flatten(parts) /\ Listed(to, sep) = Flatten(other)
    <2>1. \A n \in 1..L : from[n] = J(n) /\ to[n] = K(n)
      OBVIOUS
    <2>. HIDE DEF from, to
    <2>. QED  BY <1>6, <2>1, Zenon DEF Listed
  <1>. HIDE DEF P, Q
  <1>8. Len(parts) = L /\ Len(other) = L
    <2>1. parts \in [1..L -> Seq(X)] /\ other \in [1..L -> {Q(n) : n \in 1..L}]
      BY <1>5
    <2>. HIDE DEF parts, other
    <2>. QED  BY <1>1, <2>1, AsSeq
  <1>9. \A n \in 1..L : parts[n] \in Seq(X) /\ other[n] = Requoted(parts[n])
    BY <1>5
  <1>. HIDE DEF parts, other
  <1>10. Flatten(parts) \in Seq(X) /\ Flatten(other) = Requoted(Flatten(parts))
    BY <1>1, <1>8, <1>9, RequotedFlatten, Zenon
  <1>. QED  BY <1>1, <1>7, <1>10, Zenon DEF J, K, from, to

\* The two builders of lists for "in" agree on the words of any text without quotes:
\* arr_to_sql_in_arr on the array of the words, comma_arr_to_sql_in_arr on the text.
LEMMA InListsAlike ==
    ASSUME Inductive, NEW X, NEW str \in Seq(X), DoubleQuote \notin X
    PROVE  LET words == split(str, {" ", ","})
               dump == <<"[">> \o Listed([n \in DOMAIN words |-> <<"\"">> \o words[n] \o <<"\"">>], ",")
                       \o <<"]">>
           IN arr_to_sql_in_arr(dump) = comma_arr_to_sql_in_arr(str, TRUE)
  <1>. DEFINE words == split(str, {" ", ","})
              Y == X \cup {"[", "]", "(", ")", ",", SingleQuote, DoubleQuote}
              from == [n \in DOMAIN words |-> <<DoubleQuote>> \o words[n] \o <<DoubleQuote>>]
              to == [n \in DOMAIN words |-> <<SingleQuote>> \o words[n] \o <<SingleQuote>>]
              list == Listed(from, ",")
              dump == <<"[">> \o list \o <<"]">>
  <1>1. words \in Seq(Seq(X))
    BY SplitWords, Zenon
  <1>. HIDE DEF words
  <1>2. words \in Seq(Seq(Y)) /\ \A n \in DOMAIN words : \A i \in DOMAIN words[n] : words[n][i] # DoubleQuote
    <2>1. \A n \in DOMAIN words : words[n] \in Seq(X)
      BY <1>1
    <2>2. \A n \in DOMAIN words : \A i \in DOMAIN words[n] : words[n][i] \in X
      BY <2>1
    <2>3. X \subseteq Y
      BY Zenon
    <2>. HIDE DEF Y
    <2>4. Seq(X) \subseteq Seq(Y)
      BY <2>3
    <2>5. Seq(Seq(X)) \subseteq Seq(Seq(Y))
      BY <2>4
    <2>. QED  BY <1>1, <2>2, <2>5
  <1>3. /\ "," # DoubleQuote /\ "(" # DoubleQuote /\ ")" # DoubleQuote
        /\ "," \in Y /\ "(" \in Y /\ ")" \in Y /\ "[" \in Y /\ "]" \in Y
        /\ SingleQuote \in Y /\ DoubleQuote \in Y
    BY Zenon DEF DoubleQuote
  <1>. HIDE DEF Y
  <1>4. list \in Seq(Y) /\ Listed(to, ",") = Requoted(list)
    BY <1>2, <1>3, RequotedList, Zenon
  <1>. HIDE DEF list, from, to
  <1>5. Inner(dump) = list
    BY <1>3, <1>4, InnerOf, Zenon
  <1>. DEFINE a == <<"(">>
              b == <<")">>
  <1>6. a \in Seq(Y) /\ b \in Seq(Y) /\ Requoted(a) = a /\ Requoted(b) = b
    <2>1. a \in Seq(Y) /\ b \in Seq(Y)
      BY <1>3, OneChar, Zenon
    <2>2. Requoted(<<"(">>) = <<"(">> /\ Requoted(<<")">>) = <<")">>
      BY <1>3, RequotedOne, Zenon
    <2>. QED  BY <2>1, <2>2
  <1>. HIDE DEF a, b
  <1>7. Requoted(a \o list \o b) = a \o Requoted(list) \o b
    <2>1. a \o list \in Seq(Y) /\ Requoted(a \o list) = a \o Requoted(list)
      <3>1. a \o list \in Seq(Y)
        BY <1>4, <1>6, ConcatAt, Zenon
      <3>2. Requoted(a \o list) = Requoted(a) \o Requoted(list)
        BY <1>3, <1>4, <1>6, RequotedConcat, Zenon
      <3>. QED  BY <1>6, <3>1, <3>2
    <2>2. Requoted((a \o list) \o b) = Requoted(a \o list) \o Requoted(b)
      BY <1>3, <1>6, <2>1, RequotedConcat, Zenon
    <2>. QED  BY <1>6, <2>1, <2>2
  <1>8. arr_to_sql_in_arr(dump) = Requoted(a \o Inner(dump) \o b)
    BY Zenon DEF arr_to_sql_in_arr, Requoted, DoubleQuote, SingleQuote, a, b
  <1>9. comma_arr_to_sql_in_arr(str, TRUE) = a \o Listed(to, ",") \o b
    BY Zenon DEF comma_arr_to_sql_in_arr, words, to, SingleQuote, a, b
  <1>10. arr_to_sql_in_arr(dump) = comma_arr_to_sql_in_arr(str, TRUE)
    BY <1>4, <1>5, <1>7, <1>8, <1>9, Zenon
  <1>. QED  BY <1>10, Zenon DEF dump, list, from, words, DoubleQuote

-----------------------------------------------------------------------------
(* Literals *)

\* A text between two characters.
Around(c, s, d) == <<c>> \o s \o <<d>>

\* It is known character by character.
LEMMA BetweenAt ==
    ASSUME NEW X, NEW c \in X, NEW s \in Seq(X), NEW d \in X
    PROVE  /\ Around(c, s, d) \in Seq(X)
           /\ Len(s) \in Nat /\ Len(Around(c, s, d)) = Len(s) + 2
           /\ Around(c, s, d)[1] = c /\ Around(c, s, d)[Len(s) + 2] = d
           /\ \A i \in 1..Len(s) : Around(c, s, d)[i + 1] = s[i]
  <1>. DEFINE a == <<c>>
              b == <<d>>
              t == a \o s
              u == t \o b
              l == Len(s)
  <1>1. /\ a \in Seq(X) /\ Len(a) = 1 /\ a[1] = c
        /\ b \in Seq(X) /\ Len(b) = 1 /\ b[1] = d
        /\ l \in Nat
    OBVIOUS
  <1>. HIDE DEF a, b
  <1>2. /\ t \in Seq(X) /\ Len(t) = Len(a) + Len(s)
        /\ \A i \in 1..Len(a) : t[i] = a[i]
        /\ \A i \in 1..Len(s) : t[i + Len(a)] = s[i]
    <2>1. a \in Seq(X) /\ s \in Seq(X)
      BY <1>1
    <2>. QED  BY <2>1, ConcatAt
  <1>. HIDE DEF t
  <1>3. /\ u \in Seq(X) /\ Len(u) = Len(t) + Len(b)
        /\ \A i \in 1..Len(t) : u[i] = t[i]
        /\ \A i \in 1..Len(b) : u[i + Len(t)] = b[i]
    <2>1. t \in Seq(X) /\ b \in Seq(X)
      BY <1>1, <1>2
    <2>. QED  BY <2>1, ConcatAt
  <1>. HIDE DEF u
  <1>4. Len(t) = 1 + l /\ Len(u) = l + 2 /\ 1 + (1 + l) = l + 2
    BY <1>1, <1>2, <1>3
  <1>5. u[1] = c /\ u[l + 2] = d
    <2>1. 1 \in 1..Len(t) /\ 1 \in 1..Len(a) /\ 1 \in 1..Len(b) /\ 1 + Len(t) = l + 2
      BY <1>1, <1>4
    <2>2. t[1] = a[1] /\ u[1] = t[1]
      BY <1>2, <1>3, <2>1
    <2>3. u[1 + Len(t)] = b[1]
      BY <1>3, <2>1
    <2>. QED  BY <1>1, <2>1, <2>2, <2>3
  <1>6. ASSUME NEW i \in 1..l PROVE u[i + 1] = s[i]
    <2>1. i + 1 \in 1..Len(t) /\ i + Len(a) = i + 1
      BY <1>1, <1>4
    <2>. QED  BY <1>2, <1>3, <2>1
  <1>. QED  BY <1>1, <1>3, <1>4, <1>5, <1>6 DEF Around, u, t, a, b

\* What is in such a text.
LEMMA RangeBetween ==
    ASSUME NEW X, NEW c \in X, NEW s \in Seq(X), NEW d \in X, NEW e
    PROVE  e \in Range(Around(c, s, d)) <=> e = c \/ e = d \/ e \in Range(s)
  <1>. DEFINE u == Around(c, s, d)
              l == Len(s)
  <1>1. /\ u \in Seq(X) /\ l \in Nat /\ Len(u) = l + 2
        /\ u[1] = c /\ u[l + 2] = d
        /\ \A i \in 1..l : u[i + 1] = s[i]
    BY BetweenAt
  <1>2. DOMAIN s = 1..l
    OBVIOUS
  <1>. HIDE DEF u, l
  <1>5. /\ DOMAIN u = 1..(l + 2)
        /\ \A n \in 1..(l + 2) : n = 1 \/ n = l + 2 \/ (n - 1 \in 1..l /\ n = (n - 1) + 1)
        /\ 1 \in 1..(l + 2) /\ l + 2 \in 1..(l + 2) /\ \A i \in 1..l : i + 1 \in 1..(l + 2)
    BY <1>1
  <1>6. ASSUME e \in Range(u) PROVE e = c \/ e = d \/ e \in Range(s)
    <2>1. PICK n \in 1..(l + 2) : e = u[n]
      BY <1>5, <1>6 DEF Range
    <2>2. CASE n - 1 \in 1..l /\ n = (n - 1) + 1
      <3>1. e = s[n - 1]
        BY <1>1, <2>1, <2>2
      <3>. QED  BY <1>2, <2>2, <3>1, Zenon DEF Range
    <2>3. CASE n = 1 \/ n = l + 2
      BY <1>1, <2>1, <2>3
    <2>. QED  BY <1>5, <2>2, <2>3
  <1>7. ASSUME e = c \/ e = d \/ e \in Range(s) PROVE e \in Range(u)
    <2>1. \A n \in 1..(l + 2) : u[n] \in Range(u)
      BY <1>5 DEF Range
    <2>2. ASSUME e \in Range(s) PROVE e \in Range(u)
      <3>1. PICK i \in 1..l : e = s[i]
        BY <1>2, <2>2 DEF Range
      <3>. QED  BY <1>1, <1>5, <2>1, <3>1
    <2>3. c \in Range(u) /\ d \in Range(u)
      BY <1>1, <1>5, <2>1
    <2>. QED  BY <1>7, <2>2, <2>3
  <1>. QED  BY <1>6, <1>7 DEF u

\* Inner takes off the two characters.
LEMMA InnerAround ==
    ASSUME NEW X, NEW c \in X, NEW s \in Seq(X), NEW d \in X
    PROVE  Inner(Around(c, s, d)) = s
  BY InnerOf DEF Around

\* The literal of a string, an array and an object of any length, by its parts.
LEMMA StringLiteral ==
    ASSUME NEW X, NEW body \in Seq(X), NEW value, value.type = "string",
           DoubleQuote \in X, SingleQuote \in X, value.dump = Around(DoubleQuote, body, DoubleQuote)
    PROVE  Around(DoubleQuote, Inner(value_to_sql_str(value)), DoubleQuote) = value.dump
  <1>1. Inner(value.dump) = body
    BY InnerAround
  <1>2. value_to_sql_str(value) = Around(SingleQuote, Inner(value.dump), SingleQuote)
    BY DEF value_to_sql_str, SingleQuote, Around
  <1>3. Inner(Around(SingleQuote, body, SingleQuote)) = body
    BY InnerAround
  <1>. QED  BY <1>1, <1>2, <1>3

\* The literal of an object is its dump in quotes.
LEMMA ObjectLiteral ==
    ASSUME NEW X, NEW value, value.type = "object", value.dump \in Seq(X), SingleQuote \in X
    PROVE  Inner(value_to_sql_str(value)) = value.dump
  <1>1. value_to_sql_str(value) = Around(SingleQuote, value.dump, SingleQuote)
    BY DEF value_to_sql_str, SingleQuote, Around
  <1>2. Inner(Around(SingleQuote, value.dump, SingleQuote)) = value.dump
    BY InnerAround
  <1>. QED  BY <1>1, <1>2

\* The literal of an array has its dump between braces: it can be read back, and has no
\* bracket, exactly when there is none in the array.
LEMMA ArrayLiteral ==
    ASSUME NEW X, NEW body \in Seq(X), NEW value, value.type = "array",
           SingleQuote \in X, "[" \in X, "]" \in X, "{" \in X, "}" \in X,
           value.dump = Around("[", body, "]")
    PROVE  LET lit == value_to_sql_str(value)
           IN ("[" \notin Range(lit) /\ Around("[", Inner(Inner(lit)), "]") = value.dump)
                  <=> "[" \notin Range(Inner(value.dump))
  <1>. DEFINE lit == value_to_sql_str(value)
              braces == Around("{", body, "}")
  <1>1. Inner(value.dump) = body
    <2>1. Inner(Around("[", body, "]")) = body
      BY InnerAround, Zenon
    <2>. QED  BY <2>1, Zenon
  <1>2. lit = Around(SingleQuote, Around("{", Inner(value.dump), "}"), SingleQuote)
    BY Zenon DEF value_to_sql_str, SingleQuote, Around
  <1>3. braces \in Seq(X)
    BY BetweenAt, Zenon
  <1>4. Inner(braces) = body
    BY InnerAround, Zenon
  <1>5. "[" \in Range(braces) <=> "[" = "{" \/ "[" = "}" \/ "[" \in Range(body)
    <2>1. \A e : e \in Range(braces) <=> e = "{" \/ e = "}" \/ e \in Range(body)
      BY RangeBetween, Zenon
    <2>. QED  BY <2>1, Zenon
  <1>6. lit = Around(SingleQuote, braces, SingleQuote)
    BY <1>1, <1>2, Zenon
  <1>. HIDE DEF braces, lit
  <1>7. Inner(lit) = braces
    BY <1>3, <1>6, InnerAround, Zenon
  <1>8. "[" \in Range(lit) <=> "[" = SingleQuote \/ "[" \in Range(braces)
    BY <1>3, <1>6, RangeBetween, Zenon
  <1>9. "[" # "{" /\ "[" # "}" /\ "[" # SingleQuote
    BY Zenon DEF SingleQuote
  <1>. QED  BY <1>1, <1>4, <1>5, <1>7, <1>8, <1>9, Zenon DEF lit

\* Texts written out, cut after the first and before the last character.
LEMMA EndsThree ==
    ASSUME NEW a, NEW b, NEW c PROVE <<a, b, c>> = Around(a, <<b>>, c)
  <1>. DEFINE X == {a, b, c}
              m == <<b>>
              u == Around(a, m, c)
              v == <<a, b, c>>
  <1>1. a \in X /\ c \in X /\ m \in Seq(X) /\ Len(m) = 1 /\ m[1] = b
    OBVIOUS
  <1>2. v \in Seq(X) /\ Len(v) = 3 /\ v[1] = a /\ v[2] = b /\ v[3] = c
    OBVIOUS
  <1>. HIDE DEF X, m, v
  <1>3. /\ u \in Seq(X) /\ Len(u) = Len(m) + 2 /\ u[1] = a /\ u[Len(m) + 2] = c
        /\ \A i \in 1..Len(m) : u[i + 1] = m[i]
    <2>1. a \in X /\ c \in X /\ m \in Seq(X)
      BY <1>1
    <2>. QED  BY <2>1, BetweenAt
  <1>. HIDE DEF u
  <1>4. Len(u) = 3 /\ u[3] = c /\ u[2] = b
    <2>1. 1 \in 1..Len(m) /\ Len(m) + 2 = 3
      BY <1>1
    <2>2. u[1 + 1] = m[1]
      BY <1>3, <2>1
    <2>. QED  BY <1>1, <1>3, <2>1, <2>2
  <1>5. u = v
    BY <1>2, <1>3, <1>4, EqualSeqs
  <1>. QED  BY <1>5 DEF u, v, m

\* The same for five characters.
LEMMA EndsFive ==
    ASSUME NEW a, NEW e
    PROVE  \A b, c, d : <<a, b, c, d, e>> = Around(a, <<b, c, d>>, e)
  <1>. SUFFICES ASSUME NEW b, NEW c, NEW d PROVE <<a, b, c, d, e>> = Around(a, <<b, c, d>>, e)
    BY Zenon
  <1>. DEFINE X == {a, b, c, d, e}
              m == <<b, c, d>>
              u == Around(a, m, e)
              v == <<a, b, c, d, e>>
  <1>1. a \in X /\ e \in X /\ m \in Seq(X) /\ Len(m) = 3 /\ m[1] = b /\ m[2] = c /\ m[3] = d
    OBVIOUS
  <1>2. v \in Seq(X) /\ Len(v) = 5 /\ v[1] = a /\ v[2] = b /\ v[3] = c /\ v[4] = d /\ v[5] = e
    OBVIOUS
  <1>. HIDE DEF X, m, v
  <1>3. /\ u \in Seq(X) /\ Len(u) = Len(m) + 2 /\ u[1] = a /\ u[Len(m) + 2] = e
        /\ \A i \in 1..Len(m) : u[i + 1] = m[i]
    <2>1. a \in X /\ e \in X /\ m \in Seq(X)
      BY <1>1
    <2>. QED  BY <2>1, BetweenAt
  <1>. HIDE DEF u
  <1>4. Len(u) = 5 /\ u[5] = e /\ u[2] = b /\ u[3] = c /\ u[4] = d
    <2>1. 1 \in 1..Len(m) /\ 2 \in 1..Len(m) /\ 3 \in 1..Len(m) /\ Len(m) + 2 = 5
      BY <1>1
    <2>2. u[1 + 1] = m[1] /\ u[2 + 1] = m[2] /\ u[3 + 1] = m[3]
      BY <1>3, <2>1
    <2>. QED  BY <1>1, <1>3, <2>1, <2>2
  <1>5. \A n \in 1..5 : u[n] = v[n]
    BY <1>2, <1>3, <1>4
  <1>6. u = v
    BY <1>2, <1>3, <1>4, <1>5, EqualSeqs, Zenon
  <1>. QED  BY <1>6 DEF u, v, m

\* Some characters, as many as the dumps have.
LEMMA DumpChars ==
    ASSUME NEW X, NEW a \in X, NEW b \in X, NEW c \in X
    PROVE  /\ <<a>> \in Seq(X) /\ <<a, b, c>> \in Seq(X)
           /\ \A d, e \in X : <<a, b, c, d, e>> \in Seq(X)
           /\ \A d, e, f, g \in X : <<a, b, c, d, e, f, g>> \in Seq(X)
  OBVIOUS

\* A literal starts with its tag.
LEMMA LiteralTagged ==
    ASSUME NEW X, NEW value, value.dump \in Seq(X),
           value.type \in {"null", "number", "boolean", "string", "array", "object"}
    PROVE  Literal(value)[1] = "lit"
  <1>. DEFINE q == "'"
              Y == X \cup {q, "{", "}", "lit"}
              dump == value.dump
              inner == Inner(dump)
              lit == value_to_sql_str(value)
  <1>1. q \in Y /\ "{" \in Y /\ "}" \in Y /\ "lit" \in Y /\ X \subseteq Y
    BY Zenon
  <1>a. dump \in Seq(X)
    OBVIOUS
  <1>. HIDE DEF Y, dump, q
  <1>2. dump \in Seq(Y)
    <2>1. X \subseteq Y
      BY <1>1, Zenon
    <2>. QED  BY <1>a, <2>1
  <1>3. inner \in Seq(Y)
    <2>1. \A i \in 2..(Len(dump) - 1) : dump[i] \in Y
      BY <1>2
    <2>2. 2 \in Int /\ Len(dump) - 1 \in Int
      BY <1>2
    <2>. QED  BY <2>1, <2>2, SubSeqPlaces DEF Inner
  <1>4. \/ lit = dump \/ lit = <<q>> \o inner \o <<q>> \/ lit = <<q>> \o dump \o <<q>>
        \/ lit = <<q>> \o (<<"{">> \o inner \o <<"}">>) \o <<q>>
    BY Zenon DEF value_to_sql_str, dump, q
  <1>. HIDE DEF inner, lit
  <1>5. <<q>> \in Seq(Y) /\ <<"{">> \in Seq(Y) /\ <<"}">> \in Seq(Y) /\ <<"lit">> \in Seq(Y)
    BY <1>1, OneChar, Zenon
  <1>6. \A s \in Seq(Y) : \A t \in Seq(Y) : s \o t \in Seq(Y)
    BY ConcatAt
  <1>7. lit \in Seq(Y)
    <2>1. \A s \in Seq(Y) : <<q>> \o s \o <<q>> \in Seq(Y) /\ <<"{">> \o s \o <<"}">> \in Seq(Y)
      BY <1>5, <1>6, Zenon
    <2>. QED  BY <1>2, <1>3, <1>4, <2>1, Zenon
  <1>8. \A c \in Y : (<<c>> \o lit)[1] = c
    <2>. TAKE c \in Y
    <2>1. <<c>> \in Seq(Y) /\ Len(<<c>>) = 1 /\ <<c>>[1] = c
      OBVIOUS
    <2>2. \A i \in 1..Len(<<c>>) : (<<c>> \o lit)[i] = <<c>>[i]
      BY <1>7, <2>1, ConcatAt
    <2>. QED  BY <2>1, <2>2
  <1>. QED  BY <1>1, <1>8, Zenon DEF Literal, lit

-----------------------------------------------------------------------------
(* The texts between the words of a statement *)

\* The word a is not a token of s.
Lacks(s, a) == \A n \in 1..Len(s) : s[n] # <<a>>

\* The first word a of s is at p.
FirstAt(s, a, p) ==
    p \in 1..Len(s) /\ s[p] = <<a>> /\ \A n \in 1..(p - 1) : s[n] # <<a>>

\* In st, of tokens of T, y is what the first word a and the first word b enclose.
IsCut(T, st, a, b, y) ==
    /\ st \in Seq(T) /\ y \in Seq(T)
    /\ \E p \in Nat : /\ FirstAt(st, a, p) /\ FirstAt(st, b, p + Len(y) + 1)
                      /\ \A i \in 1..Len(y) : st[p + i] = y[i]

\* Index finds it.
LEMMA IndexFirst ==
    ASSUME NEW s, NEW a, NEW p, Len(s) \in Nat, DOMAIN s = 1..Len(s), FirstAt(s, a, p)
    PROVE  Index(s, a) = p
  <1>. DEFINE S == {n \in DOMAIN s : s[n] = <<a>>}
  <1>1. p \in 1..Len(s) /\ s[p] = <<a>> /\ \A n \in 1..(p - 1) : s[n] # <<a>>
    BY DEF FirstAt
  <1>2. S \subseteq 1..Len(s) /\ p \in S
    BY <1>1
  <1>3. \A n \in S : p <= n
    <2>. SUFFICES ASSUME NEW n \in S, n < p PROVE FALSE
      BY <1>1, <1>2
    <2>1. n \in 1..(p - 1) /\ s[n] = <<a>>
      BY <1>1, <1>2
    <2>. QED  BY <1>1, <2>1
  <1>. HIDE DEF S
  <1>4. \A x \in S : (\A y \in S : x <= y) => x = p
    <2>. SUFFICES ASSUME NEW x \in S, \A y \in S : x <= y PROVE x = p
      OBVIOUS
    <2>1. x \in Int /\ p \in Int /\ x <= p /\ p <= x
      BY <1>1, <1>2, <1>3
    <2>. QED  BY <2>1
  <1>5. (CHOOSE x \in S : \A y \in S : x <= y) = p
    BY <1>2, <1>3, <1>4, Zenon
  <1>6. Index(s, a) = (CHOOSE x \in S : \A y \in S : x <= y)
    BY DEF Index, Min, S
  <1>. QED  BY <1>5, <1>6

\* Between gives what they enclose.
LEMMA CutBetween ==
    ASSUME NEW T, NEW st, NEW a, NEW b, NEW y, IsCut(T, st, a, b, y)
    PROVE  Between(st, a, b) = y
  <1>1. st \in Seq(T) /\ y \in Seq(T)
    BY DEF IsCut
  <1>2. PICK p \in Nat : /\ FirstAt(st, a, p) /\ FirstAt(st, b, p + Len(y) + 1)
                         /\ \A i \in 1..Len(y) : st[p + i] = y[i]
    BY DEF IsCut
  <1>. DEFINE q == p + Len(y) + 1
              l == Len(y)
  <1>3. l \in Nat /\ Len(st) \in Nat /\ DOMAIN st = 1..Len(st)
    BY <1>1
  <1>4. Index(st, a) = p /\ Index(st, b) = q
    BY <1>2, <1>3, IndexFirst
  <1>5. q \in 1..Len(st)
    BY <1>2 DEF FirstAt
  <1>6. Between(st, a, b) = SubSeq(st, p + 1, q - 1)
    BY <1>4 DEF Between
  <1>. DEFINE n == p + 1
              r == SubSeq(st, n, n + l - 1)
  <1>7. n \in Nat /\ 1 <= n /\ n + l - 1 <= Len(st) /\ n + l - 1 = q - 1
    BY <1>3, <1>5
  <1>8. \A i \in 1..l : n + i - 1 = p + i
    BY <1>3
  <1>. HIDE DEF n, q, l
  <1>9. r \in Seq(T) /\ Len(r) = l /\ \A i \in 1..l : r[i] = st[n + i - 1]
    BY <1>1, <1>3, <1>7, SubSeqAt
  <1>10. r = SubSeq(st, p + 1, q - 1)
    BY <1>7, Zenon DEF n
  <1>. HIDE DEF r
  <1>11. \A i \in 1..l : r[i] = y[i]
    BY <1>2, <1>8, <1>9 DEF l
  <1>12. r = y
    BY <1>1, <1>9, <1>11, EqualSeqs DEF l
  <1>. QED  BY <1>6, <1>10, <1>12

\* What follows does not change it.
LEMMA FirstExtends ==
    ASSUME NEW T, NEW s \in Seq(T), NEW r \in Seq(T), NEW a, NEW p, FirstAt(s, a, p)
    PROVE  FirstAt(s \o r, a, p)
  <1>. DEFINE t == s \o r
  <1>1. p \in 1..Len(s) /\ s[p] = <<a>> /\ \A n \in 1..(p - 1) : s[n] # <<a>>
    BY DEF FirstAt
  <1>2. /\ Len(s) \in Nat /\ Len(r) \in Nat /\ Len(t) = Len(s) + Len(r)
        /\ \A i \in 1..Len(s) : t[i] = s[i]
    BY ConcatAt
  <1>. HIDE DEF t
  <1>3. p \in 1..Len(t) /\ \A n \in 1..(p - 1) : n \in 1..Len(s)
    BY <1>1, <1>2
  <1>4. FirstAt(t, a, p)
    BY <1>1, <1>2, <1>3 DEF FirstAt
  <1>. QED  BY <1>4 DEF t

\* What is between two words stays there when the text goes on.
LEMMA CutExtends ==
    ASSUME NEW T, NEW st, NEW a, NEW b, NEW y, IsCut(T, st, a, b, y), NEW r \in Seq(T)
    PROVE  IsCut(T, st \o r, a, b, y)
  <1>. DEFINE t == st \o r
  <1>1. st \in Seq(T) /\ y \in Seq(T)
    BY DEF IsCut
  <1>2. PICK p \in Nat : /\ FirstAt(st, a, p) /\ FirstAt(st, b, p + Len(y) + 1)
                         /\ \A i \in 1..Len(y) : st[p + i] = y[i]
    BY DEF IsCut
  <1>3. FirstAt(t, a, p) /\ FirstAt(t, b, p + Len(y) + 1)
    BY <1>1, <1>2, FirstExtends
  <1>4. t \in Seq(T) /\ \A i \in 1..Len(st) : t[i] = st[i]
    BY <1>1, ConcatAt
  <1>5. p + Len(y) + 1 \in 1..Len(st)
    BY <1>2 DEF FirstAt
  <1>6. Len(y) \in Nat /\ Len(st) \in Nat
    BY <1>1
  <1>7. \A i \in 1..Len(y) : p + i \in 1..Len(st)
    BY <1>5, <1>6
  <1>. HIDE DEF t
  <1>8. \A i \in 1..Len(y) : t[p + i] = y[i]
    BY <1>2, <1>4, <1>7
  <1>9. IsCut(T, t, a, b, y)
    BY <1>1, <1>2, <1>3, <1>4, <1>8 DEF IsCut
  <1>. QED  BY <1>9 DEF t

\* The first word a after a text without it.
LEMMA FirstMade ==
    ASSUME NEW T, NEW x \in Seq(T), NEW a, <<a>> \in T, Lacks(x, a)
    PROVE  x \o <<<<a>>>> \in Seq(T) /\ FirstAt(x \o <<<<a>>>>, a, Len(x) + 1)
  <1>. DEFINE c == <<a>>
              d == <<c>>
              t == x \o d
  <1>1. d \in Seq(T) /\ Len(d) = 1 /\ d[1] = c
    OBVIOUS
  <1>2. \A n \in 1..Len(x) : x[n] # c
    BY DEF Lacks
  <1>. HIDE DEF c, d
  <1>3. /\ t \in Seq(T) /\ Len(x) \in Nat /\ Len(t) = Len(x) + Len(d)
        /\ \A i \in 1..Len(x) : t[i] = x[i]
        /\ \A i \in 1..Len(d) : t[i + Len(x)] = d[i]
    BY <1>1, ConcatAt
  <1>. HIDE DEF t
  <1>4. 1 \in 1..Len(d) /\ 1 + Len(x) = Len(x) + 1 /\ Len(x) + 1 \in 1..Len(t)
    BY <1>1, <1>3
  <1>5. t[Len(x) + 1] = c
    BY <1>1, <1>3, <1>4
  <1>6. \A n \in 1..((Len(x) + 1) - 1) : n \in 1..Len(x)
    BY <1>3
  <1>7. FirstAt(t, a, Len(x) + 1)
    BY <1>2, <1>3, <1>4, <1>5, <1>6, Zenon DEF FirstAt, c
  <1>. QED  BY <1>3, <1>7 DEF t, d, c

\* Texts without a word.
LEMMA LacksOver ==
    ASSUME NEW Y, NEW s \in Seq(Y), NEW a, <<a>> \notin Y
    PROVE  Lacks(s, a)
  <1>1. \A n \in 1..Len(s) : s[n] \in Y
    OBVIOUS
  <1>. QED  BY <1>1 DEF Lacks

\* A text of another word.
LEMMA LacksOne == \A a, b : a # b => Lacks(<<<<b>>>>, a)
  <1>. SUFFICES ASSUME NEW a, NEW b, a # b PROVE Lacks(<<<<b>>>>, a)
    OBVIOUS
  <1>1. <<a>> # <<b>>
    OBVIOUS
  <1>2. Len(<<<<b>>>>) = 1 /\ <<<<b>>>>[1] = <<b>>
    OBVIOUS
  <1>. QED  BY <1>1, <1>2 DEF Lacks

\* A text in two parts.
LEMMA LacksConcat ==
    ASSUME NEW T, NEW s \in Seq(T), NEW t \in Seq(T), NEW a, Lacks(s, a), Lacks(t, a)
    PROVE  Lacks(s \o t, a)
  <1>. DEFINE u == s \o t
  <1>1. /\ Len(s) \in Nat /\ Len(t) \in Nat /\ Len(u) = Len(s) + Len(t)
        /\ \A i \in 1..Len(s) : u[i] = s[i]
        /\ \A i \in 1..Len(t) : u[i + Len(s)] = t[i]
    BY ConcatAt
  <1>. HIDE DEF u
  <1>2. ASSUME NEW n \in 1..Len(u) PROVE u[n] # <<a>>
    <2>1. CASE n <= Len(s)
      <3>1. n \in 1..Len(s)
        BY <1>1, <2>1
      <3>. QED  BY <1>1, <3>1 DEF Lacks
    <2>2. CASE ~(n <= Len(s))
      <3>. DEFINE m == n - Len(s)
      <3>1. m \in 1..Len(t) /\ m + Len(s) = n
        BY <1>1, <2>2
      <3>. HIDE DEF m
      <3>. QED  BY <1>1, <3>1 DEF Lacks
    <2>. QED  BY <2>1, <2>2
  <1>3. Lacks(u, a)
    BY <1>2 DEF Lacks
  <1>. QED  BY <1>3 DEF u

\* A section, as the builders append it.
LEMMA CutMade ==
    ASSUME NEW T, NEW x \in Seq(T), NEW y \in Seq(T), NEW a, NEW b, <<a>> \in T, <<b>> \in T,
           Lacks(x, a), Lacks(x, b), Lacks(y, b), a # b
    PROVE  IsCut(T, ((x \o <<<<a>>>>) \o y) \o <<<<b>>>>, a, b, y)
  <1>. DEFINE s == x \o <<<<a>>>>
              t == s \o y
              u == t \o <<<<b>>>>
              l == Len(x)
              m == Len(y)
  <1>1. s \in Seq(T) /\ FirstAt(s, a, l + 1)
    BY FirstMade
  <1>2. <<<<a>>>> \in Seq(T) /\ Len(<<<<a>>>>) = 1 /\ l \in Nat /\ m \in Nat
    OBVIOUS
  <1>3. Lacks(<<<<a>>>>, b)
    BY LacksOne, Zenon
  <1>4. Lacks(s, b)
    BY <1>2, <1>3, LacksConcat
  <1>5. Len(s) = l + 1
    BY <1>2, ConcatAt
  <1>. HIDE DEF s
  <1>6. t \in Seq(T) /\ Len(t) = (l + 1) + m /\ \A i \in 1..m : t[i + (l + 1)] = y[i]
    <2>1. /\ t \in Seq(T) /\ Len(t) = Len(s) + Len(y)
          /\ \A i \in 1..Len(y) : t[i + Len(s)] = y[i]
      BY <1>1, ConcatAt
    <2>. HIDE DEF t
    <2>. QED  BY <1>5, <2>1
  <1>7. Lacks(t, b) /\ FirstAt(t, a, l + 1)
    BY <1>1, <1>4, LacksConcat, FirstExtends
  <1>. HIDE DEF t
  <1>8. u \in Seq(T) /\ FirstAt(u, b, Len(t) + 1)
    BY <1>6, <1>7, FirstMade, Zenon
  <1>9. <<<<b>>>> \in Seq(T)
    OBVIOUS
  <1>10. FirstAt(u, a, l + 1)
    BY <1>6, <1>7, <1>9, FirstExtends, Zenon
  <1>11. \A i \in 1..Len(t) : u[i] = t[i]
    BY <1>6, <1>9, ConcatAt
  <1>. HIDE DEF u, l, m
  <1>12. \A i \in 1..m : (l + 1) + i = i + (l + 1) /\ i + (l + 1) \in 1..Len(t)
    BY <1>2, <1>6
  <1>13. \A i \in 1..m : u[(l + 1) + i] = y[i]
    BY <1>6, <1>11, <1>12
  <1>14. l + 1 \in Nat /\ Len(t) + 1 = (l + 1) + m + 1
    BY <1>2, <1>6
  <1>15. IsCut(T, u, a, b, y)
    BY <1>8, <1>10, <1>13, <1>14, Zenon DEF IsCut, m
  <1>. QED  BY <1>15 DEF u, t, s

\* What the first word b is followed by.
LEMMA AfterMade ==
    ASSUME NEW T, NEW x \in Seq(T), NEW z \in Seq(T), NEW b, <<b>> \in T, Lacks(x, b)
    PROVE  After((x \o <<<<b>>>>) \o z, b) = z
  <1>. DEFINE s == x \o <<<<b>>>>
              t == s \o z
              l == Len(s)
              m == Len(z)
  <1>1. s \in Seq(T) /\ FirstAt(s, b, Len(x) + 1)
    BY FirstMade
  <1>2. <<<<b>>>> \in Seq(T) /\ Len(<<<<b>>>>) = 1 /\ Len(x) \in Nat /\ m \in Nat
    OBVIOUS
  <1>3. l = Len(x) + 1
    BY <1>2, ConcatAt
  <1>. HIDE DEF s
  <1>4. FirstAt(t, b, l)
    BY <1>1, <1>3, FirstExtends
  <1>5. /\ t \in Seq(T) /\ Len(t) = l + m
        /\ \A i \in 1..m : t[i + l] = z[i]
    BY <1>1, ConcatAt
  <1>. HIDE DEF t, l, m
  <1>6. l \in Nat /\ Len(t) \in Nat /\ DOMAIN t = 1..Len(t)
    BY <1>2, <1>3, <1>5
  <1>7. Index(t, b) = l
    BY <1>4, <1>6, IndexFirst
  <1>. DEFINE n == l + 1
              r == SubSeq(t, n, n + m - 1)
  <1>8. n \in Nat /\ 1 <= n /\ n + m - 1 <= Len(t) /\ n + m - 1 = Len(t)
    BY <1>2, <1>5, <1>6
  <1>9. \A i \in 1..m : n + i - 1 = i + l
    BY <1>2, <1>6
  <1>. HIDE DEF n
  <1>10. r \in Seq(T) /\ Len(r) = m /\ \A i \in 1..m : r[i] = t[n + i - 1]
    BY <1>2, <1>5, <1>8, SubSeqAt
  <1>11. After(t, b) = r
    BY <1>7, <1>8, Zenon DEF After, n
  <1>. HIDE DEF r
  <1>12. \A i \in 1..m : r[i] = z[i]
    BY <1>5, <1>9, <1>10, Zenon
  <1>13. r = z
    BY <1>10, <1>12, EqualSeqs DEF m
  <1>. QED  BY <1>11, <1>13 DEF t, s

\* Two tokens, and one after the other.
LEMMA PairConcat == \A a, b : <<a, b>> = <<a>> \o <<b>>
  <1>. SUFFICES ASSUME NEW a, NEW b PROVE <<a, b>> = <<a>> \o <<b>>
    OBVIOUS
  <1>. DEFINE X == {a, b}
              c == <<a>>
              d == <<b>>
              s == c \o d
              t == <<a, b>>
  <1>1. c \in Seq(X) /\ Len(c) = 1 /\ c[1] = a /\ d \in Seq(X) /\ Len(d) = 1 /\ d[1] = b
    OBVIOUS
  <1>2. t \in Seq(X) /\ Len(t) = 2 /\ t[1] = a /\ t[2] = b
    OBVIOUS
  <1>. HIDE DEF c, d, t, X
  <1>3. /\ s \in Seq(X) /\ Len(s) = Len(c) + Len(d)
        /\ \A i \in 1..Len(c) : s[i] = c[i]
        /\ \A i \in 1..Len(d) : s[i + Len(c)] = d[i]
    <2>1. c \in Seq(X) /\ d \in Seq(X)
      BY <1>1
    <2>. QED  BY <2>1, ConcatAt
  <1>. HIDE DEF s
  <1>4. Len(s) = 2 /\ s[1] = a /\ s[1 + 1] = b
    BY <1>1, <1>3
  <1>5. \A i \in 1..2 : s[i] = t[i]
    BY <1>2, <1>4
  <1>6. s = t
    BY <1>2, <1>3, <1>4, <1>5, EqualSeqs
  <1>. QED  BY <1>6, Zenon DEF s, t, c, d

\* A text over T that is longer than one token.
Long(T, s) == s \in Seq(T) /\ Len(s) >= 2

\* A text of two tokens or more stays one when it goes on.
LEMMA LongMore ==
    ASSUME NEW T, NEW s, Long(T, s), NEW r \in Seq(T)
    PROVE  Long(T, s \o r) /\ \A e : s \o r # <<e>>
  <1>. DEFINE t == s \o r
  <1>1. s \in Seq(T) /\ Len(s) >= 2 /\ Len(s) \in Nat /\ Len(r) \in Nat
    BY DEF Long
  <1>2. t \in Seq(T) /\ Len(t) = Len(s) + Len(r)
    BY <1>1, ConcatAt
  <1>. HIDE DEF t
  <1>3. Len(t) >= 2
    BY <1>1, <1>2
  <1>4. \A e : t # <<e>>
    <2>. SUFFICES ASSUME NEW e, t = <<e>> PROVE FALSE
      OBVIOUS
    <2>1. Len(<<e>>) = 1
      OBVIOUS
    <2>. QED  BY <1>3, <2>1
  <1>. QED  BY <1>2, <1>3, <1>4 DEF Long, t

\* The words of an update, different from each other.
UpdateWords(T, u, a, b) ==
    <<u>> \in T /\ <<a>> \in T /\ <<b>> \in T /\ u # a /\ u # b /\ a # b

\* The texts between the words of an update.
UpdateCut(st, a, y, b, z) == Between(st, a, b) = y /\ After(st, b) = z /\ \A e : st # <<e>>

\* update set y where z, with any words for these.
LEMMA UpdateText ==
    ASSUME NEW T, NEW u, NEW a, NEW b, UpdateWords(T, u, a, b),
           NEW y \in Seq(T), NEW z \in Seq(T), Lacks(y, b)
    PROVE  UpdateCut(((<<<<u>>, <<a>>>> \o y) \o <<<<b>>>>) \o z, a, y, b, z)
  <1>. DEFINE x == <<<<u>>>>
              h == x \o <<<<a>>>>
              t == h \o y
              v == t \o <<<<b>>>>
              st == v \o z
  <1>0. <<u>> \in T /\ <<a>> \in T /\ <<b>> \in T /\ u # a /\ u # b /\ a # b
    BY DEF UpdateWords
  <1>1. x \in Seq(T) /\ <<<<a>>>> \in Seq(T) /\ <<<<b>>>> \in Seq(T)
    BY <1>0
  <1>2. Lacks(x, a) /\ Lacks(x, b) /\ Lacks(<<<<a>>>>, b)
    BY <1>0, LacksOne, Zenon
  <1>3. <<<<u>>, <<a>>>> = h
    BY PairConcat, Zenon
  <1>4. Long(T, <<<<u>>, <<a>>>>)
    <2>. DEFINE c == <<u>>
                d == <<a>>
    <2>. HIDE DEF c, d
    <2>1. c \in T /\ d \in T
      BY <1>0 DEF c, d
    <2>2. <<c, d>> \in Seq(T) /\ Len(<<c, d>>) = 2
      BY <2>1
    <2>3. Long(T, <<c, d>>)
      BY <2>2 DEF Long
    <2>. QED  BY <2>3 DEF c, d
  <1>. HIDE DEF x
  <1>5. IsCut(T, v, a, b, y)
    BY <1>0, <1>1, <1>2, CutMade
  <1>6. IsCut(T, st, a, b, y)
    BY <1>5, CutExtends
  <1>7. Between(st, a, b) = y
    BY <1>6, CutBetween
  <1>8. h \in Seq(T) /\ Lacks(h, b)
    BY <1>1, <1>2, LacksConcat, ConcatAt, Zenon
  <1>9. Long(T, h)
    BY <1>3, <1>4, Zenon
  <1>. HIDE DEF h
  <1>10. t \in Seq(T) /\ Lacks(t, b)
    BY <1>8, LacksConcat, ConcatAt
  <1>11. Long(T, t)
    BY <1>9, LongMore
  <1>. HIDE DEF t
  <1>12. After(st, b) = z
    BY <1>0, <1>10, AfterMade
  <1>13. Long(T, v)
    BY <1>1, <1>11, LongMore, Zenon
  <1>. HIDE DEF v
  <1>14. \A e : st # <<e>>
    BY <1>13, LongMore, Zenon
  <1>15. st = ((<<<<u>>, <<a>>>> \o y) \o <<<<b>>>>) \o z
    BY <1>3, Zenon DEF v, t
  <1>. HIDE DEF st
  <1>16. UpdateCut(st, a, y, b, z)
    BY <1>7, <1>12, <1>14 DEF UpdateCut
  <1>. QED  BY <1>15, <1>16

\* The words of an insert, different from each other.
InsertWords(T, i, op, cv, cl) ==
    /\ <<i>> \in T /\ <<op>> \in T /\ <<cv>> \in T /\ <<cl>> \in T
    /\ i # op /\ i # cv /\ i # cl /\ op # cv /\ op # cl /\ cv # cl

\* An insert up to its last parenthesis, and with it.
BodyOf(i, op, names, cv, values) == <<<<i>>, <<op>>>> \o names \o <<<<cv>>>> \o values
InsertOf(i, op, names, cv, values, cl) == BodyOf(i, op, names, cv, values) \o <<<<cl>>>>

\* The texts between the words of an insert.
InsertCut(T, st, op, names, cv, values, cl) ==
    /\ IsCut(T, st, op, cv, names) /\ IsCut(T, st, cv, cl, values)
    /\ Long(T, st) /\ \A e : st # <<e>>

\* insert into (names) values(values), with any words for these.
LEMMA InsertText ==
    ASSUME NEW T, NEW i, NEW op, NEW cv, NEW cl, InsertWords(T, i, op, cv, cl),
           NEW names \in Seq(T), NEW values \in Seq(T),
           Lacks(names, cv), Lacks(names, cl), Lacks(values, cl)
    PROVE  InsertCut(T, InsertOf(i, op, names, cv, values, cl), op, names, cv, values, cl)
  <1>. DEFINE x == <<<<i>>>>
              h == x \o <<<<op>>>>
              s == h \o names
              t == s \o <<<<cv>>>>
              u == t \o values
              v == u \o <<<<cl>>>>
  <1>1. /\ <<i>> \in T /\ <<op>> \in T /\ <<cv>> \in T /\ <<cl>> \in T
        /\ i # op /\ i # cv /\ i # cl /\ op # cv /\ op # cl /\ cv # cl
    BY DEF InsertWords
  <1>2. x \in Seq(T) /\ <<<<op>>>> \in Seq(T) /\ <<<<cv>>>> \in Seq(T) /\ <<<<cl>>>> \in Seq(T)
    BY <1>1
  <1>3. /\ Lacks(x, op) /\ Lacks(x, cv) /\ Lacks(x, cl)
        /\ Lacks(<<<<op>>>>, cv) /\ Lacks(<<<<op>>>>, cl) /\ Lacks(<<<<cv>>>>, cl)
    BY <1>1, LacksOne, Zenon
  <1>4. <<<<i>>, <<op>>>> = h
    BY PairConcat, Zenon
  <1>5. Long(T, <<<<i>>, <<op>>>>)
    <2>. DEFINE c == <<i>>
                d == <<op>>
    <2>. HIDE DEF c, d
    <2>1. c \in T /\ d \in T
      BY <1>1 DEF c, d
    <2>2. <<c, d>> \in Seq(T) /\ Len(<<c, d>>) = 2
      BY <2>1
    <2>3. Long(T, <<c, d>>)
      BY <2>2 DEF Long
    <2>. QED  BY <2>3 DEF c, d
  <1>. HIDE DEF x
  <1>6. h \in Seq(T) /\ Lacks(h, cv) /\ Lacks(h, cl)
    BY <1>2, <1>3, LacksConcat, ConcatAt
  <1>7. IsCut(T, t, op, cv, names)
    BY <1>1, <1>2, <1>3, CutMade
  <1>8. Long(T, h)
    BY <1>4, <1>5, Zenon
  <1>. HIDE DEF h
  <1>9. s \in Seq(T) /\ Lacks(s, cv) /\ Lacks(s, cl)
    BY <1>6, LacksConcat, ConcatAt
  <1>10. Long(T, s)
    BY <1>8, LongMore
  <1>. HIDE DEF s
  <1>11. IsCut(T, v, cv, cl, values)
    BY <1>1, <1>9, CutMade
  <1>12. Long(T, t)
    BY <1>2, <1>10, LongMore, Zenon
  <1>. HIDE DEF t
  <1>13. IsCut(T, u, op, cv, names)
    BY <1>7, CutExtends
  <1>14. Long(T, u)
    BY <1>12, LongMore
  <1>. HIDE DEF u
  <1>15. IsCut(T, v, op, cv, names)
    BY <1>2, <1>13, CutExtends, Zenon
  <1>16. Long(T, v) /\ \A e : v # <<e>>
    BY <1>2, <1>14, LongMore, Zenon
  <1>17. InsertOf(i, op, names, cv, values, cl) = v
    BY <1>4, Zenon DEF InsertOf, BodyOf, u, t, s
  <1>. HIDE DEF v
  <1>. QED  BY <1>11, <1>15, <1>16, <1>17 DEF InsertCut

\* What follows an insert does not change it.
LEMMA InsertExtends ==
    ASSUME NEW T, NEW st, NEW op, NEW names, NEW cv, NEW values, NEW cl,
           InsertCut(T, st, op, names, cv, values, cl), NEW r \in Seq(T)
    PROVE  InsertCut(T, st \o r, op, names, cv, values, cl)
  BY CutExtends, LongMore, Zenon DEF InsertCut

\* The first closing parenthesis ends the values: what is before it lacks the words
\* that come later.
LEMMA InsertBody ==
    ASSUME NEW T, NEW i, NEW op, NEW cv, NEW cl, InsertWords(T, i, op, cv, cl),
           NEW names \in Seq(T), NEW values \in Seq(T), NEW e, e # i, e # op, e # cv,
           Lacks(names, e), Lacks(values, e)
    PROVE  BodyOf(i, op, names, cv, values) \in Seq(T) /\ Lacks(BodyOf(i, op, names, cv, values), e)
  <1>. DEFINE x == <<<<i>>>>
              h == x \o <<<<op>>>>
              s == h \o names
              t == s \o <<<<cv>>>>
              u == t \o values
  <1>1. <<i>> \in T /\ <<op>> \in T /\ <<cv>> \in T
    BY DEF InsertWords
  <1>2. x \in Seq(T) /\ <<<<op>>>> \in Seq(T) /\ <<<<cv>>>> \in Seq(T)
    BY <1>1
  <1>3. Lacks(x, e) /\ Lacks(<<<<op>>>>, e) /\ Lacks(<<<<cv>>>>, e)
    BY LacksOne, Zenon
  <1>4. <<<<i>>, <<op>>>> = h
    BY PairConcat, Zenon
  <1>. HIDE DEF x
  <1>5. h \in Seq(T) /\ Lacks(h, e)
    BY <1>2, <1>3, LacksConcat, ConcatAt, Zenon
  <1>. HIDE DEF h
  <1>6. s \in Seq(T) /\ Lacks(s, e)
    BY <1>5, LacksConcat, ConcatAt
  <1>. HIDE DEF s
  <1>7. t \in Seq(T) /\ Lacks(t, e)
    BY <1>2, <1>3, <1>6, LacksConcat, ConcatAt, Zenon
  <1>. HIDE DEF t
  <1>8. u \in Seq(T) /\ Lacks(u, e)
    BY <1>7, LacksConcat, ConcatAt
  <1>9. BodyOf(i, op, names, cv, values) = u
    BY <1>4, Zenon DEF BodyOf, u, t, s
  <1>. HIDE DEF u
  <1>. QED  BY <1>8, <1>9

\* The texts between the words of an upsert.
ConflictCut(st, cl, oc, du, ex) == Between(st, cl, du) = oc /\ After(st, du) = ex

\* The clause between the insert and the list of an upsert, and that list.
LEMMA ConflictText ==
    ASSUME NEW T, NEW body \in Seq(T), NEW oc \in Seq(T), NEW ex \in Seq(T), NEW cl, NEW du,
           <<cl>> \in T, <<du>> \in T, cl # du, Lacks(body, cl), Lacks(body, du), Lacks(oc, du)
    PROVE  ConflictCut((((body \o <<<<cl>>>>) \o oc) \o <<<<du>>>>) \o ex, cl, oc, du, ex)
  <1>. DEFINE s == body \o <<<<cl>>>>
              t == s \o oc
              u == t \o <<<<du>>>>
  <1>1. IsCut(T, u, cl, du, oc)
    BY CutMade
  <1>2. <<<<cl>>>> \in Seq(T)
    OBVIOUS
  <1>3. Lacks(<<<<cl>>>>, du)
    BY LacksOne, Zenon
  <1>4. s \in Seq(T) /\ Lacks(s, du)
    BY <1>2, <1>3, LacksConcat, ConcatAt, Zenon
  <1>. HIDE DEF s
  <1>5. t \in Seq(T) /\ Lacks(t, du)
    BY <1>4, LacksConcat, ConcatAt
  <1>. HIDE DEF t
  <1>6. After(u \o ex, du) = ex
    BY <1>5, AfterMade
  <1>. HIDE DEF u
  <1>7. IsCut(T, u \o ex, cl, du, oc)
    BY <1>1, CutExtends
  <1>8. Between(u \o ex, cl, du) = oc
    BY <1>7, CutBetween
  <1>. QED  BY <1>6, <1>8 DEF u, t, s, ConflictCut

-----------------------------------------------------------------------------
(* The names of an object *)

\* s has every element of A once, and nothing else.
Once(s, A) ==
    /\ s \in Seq(A) /\ A = {s[n] : n \in 1..Len(s)}
    /\ \A m, n \in 1..Len(s) : s[m] = s[n] => m = n

\* An element more, in front.
LEMMA OnceMore ==
    ASSUME NEW A, NEW s, Once(s, A), NEW x, x \notin A
    PROVE  Once(<<x>> \o s, A \cup {x})
  <1>. DEFINE B == A \cup {x}
              h == <<x>>
              t == h \o s
              l == Len(s)
  <1>1. /\ s \in Seq(A) /\ A = {s[n] : n \in 1..l}
        /\ \A m, n \in 1..l : s[m] = s[n] => m = n
    BY Zenon DEF Once
  <1>2. l \in Nat /\ \A n \in 1..l : s[n] \in A
    BY <1>1
  <1>3. h \in Seq(B) /\ Len(h) = 1 /\ h[1] = x /\ s \in Seq(B)
    BY <1>1
  <1>. HIDE DEF h, B
  <1>4. t \in Seq(B) /\ Len(t) = 1 + l /\ t[1] = x /\ \A n \in 1..l : t[n + 1] = s[n]
    <2>1. h \in Seq(B) /\ s \in Seq(B)
      BY <1>3
    <2>2. /\ h \o s \in Seq(B) /\ Len(h \o s) = Len(h) + Len(s)
          /\ \A i \in 1..Len(h) : (h \o s)[i] = h[i]
          /\ \A i \in 1..Len(s) : (h \o s)[i + Len(h)] = s[i]
      BY <2>1, ConcatAt
    <2>. QED  BY <1>3, <2>2
  <1>. HIDE DEF t, l
  <1>5. \A n \in 1..(1 + l) : n = 1 \/ (n - 1 \in 1..l /\ (n - 1) + 1 = n)
    BY <1>2
  <1>6. \A n \in 1..(1 + l) : n = 1 \/ (n - 1 \in 1..l /\ t[n] = s[n - 1])
    BY <1>4, <1>5
  <1>7. 1 \in 1..(1 + l) /\ \A n \in 1..l : n + 1 \in 1..(1 + l)
    BY <1>2
  <1>8. \A e \in B : \E n \in 1..(1 + l) : e = t[n]
    <2>. SUFFICES ASSUME NEW e \in B PROVE \E n \in 1..(1 + l) : e = t[n]
      OBVIOUS
    <2>1. CASE e = x
      BY <1>4, <1>7, <2>1
    <2>2. CASE e \in A
      <3>1. PICK n \in 1..l : e = s[n]
        BY <1>1, <2>2
      <3>. QED  BY <1>4, <1>7, <3>1
    <2>. QED  BY <2>1, <2>2 DEF B
  <1>9. \A n \in 1..(1 + l) : t[n] \in B
    BY <1>2, <1>4, <1>6 DEF B
  <1>10. B = {t[n] : n \in 1..(1 + l)}
    BY <1>8, <1>9
  <1>11. ASSUME NEW m \in 1..(1 + l), NEW n \in 1..(1 + l), t[m] = t[n] PROVE m = n
    <2>1. CASE m = 1 \/ n = 1
      BY <1>2, <1>4, <1>6, <1>11, <2>1
    <2>2. CASE m # 1 /\ n # 1
      <3>1. m - 1 \in 1..l /\ n - 1 \in 1..l /\ s[m - 1] = s[n - 1]
        BY <1>6, <1>11, <2>2
      <3>2. m - 1 = n - 1
        BY <1>1, <3>1
      <3>. QED  BY <3>2
    <2>. QED  BY <2>1, <2>2
  <1>12. Once(t, B)
    BY <1>4, <1>10, <1>11 DEF Once
  <1>. QED  BY <1>12 DEF t, h, B

\* The iteration over an object visits each of its names once.
LEMMA NamesOnce ==
    ASSUME Inductive, NEW obj, DOMAIN obj \subseteq {NameOrder[n] : n \in DOMAIN NameOrder}
    PROVE  Once(Names(obj), DOMAIN obj)
  <1>. DEFINE D == DOMAIN obj
              L == Len(NameOrder)
              P(n) == IF NameOrder[n] \in D THEN <<NameOrder[n]>> ELSE <<>>
              parts == [n \in 1..L |-> P(n)]
              From(i) == {NameOrder[n] : n \in i..L} \cap D
  <1>1. L \in Nat /\ DOMAIN NameOrder = 1..L /\ \A m, n \in 1..L : NameOrder[m] = NameOrder[n] => m = n
    BY NameOrderAssumption
  <1>2. Names(obj) = Flatten(parts)
    BY <1>1 DEF Names
  <1>. HIDE DEF P
  <1>3. Len(parts) = L /\ \A n \in 1..L : parts[n] = P(n)
    BY <1>1
  <1>. HIDE DEF parts, L, D
  <1>4. PICK f : /\ Flatten(parts) = f[1] /\ f[L + 1] = <<>>
                 /\ \A i \in 1..L : f[i] = parts[i] \o f[i + 1]
    <2>1. Len(parts) \in Nat
      BY <1>1, <1>3
    <2>2. \E f : /\ Flatten(parts) = f[1] /\ f[Len(parts) + 1] = <<>>
                 /\ \A i \in 1..Len(parts) : f[i] = parts[i] \o f[i + 1]
      BY <2>1, FlattenRounds, Zenon
    <2>. QED  BY <1>3, <2>2
  <1>. DEFINE S == {i \in 1..(L + 1) : Once(f[i], From(i))}
  <1>5. L + 1 \in S
    <2>1. (L + 1)..L = {} /\ L + 1 \in 1..(L + 1)
      BY <1>1
    <2>2. From(L + 1) = {}
      BY <2>1
    <2>3. Once(<<>>, {})
      <3>1. <<>> \in Seq({}) /\ Len(<<>>) = 0 /\ 1..0 = {}
        OBVIOUS
      <3>. QED  BY <3>1 DEF Once
    <2>. QED  BY <1>4, <2>1, <2>2, <2>3, Zenon
  <1>6. ASSUME NEW i \in 1..L, i + 1 \in S PROVE i \in S
    <2>1. Once(f[i + 1], From(i + 1)) /\ i \in 1..(L + 1)
      BY <1>1, <1>6
    <2>2. f[i] = P(i) \o f[i + 1]
      BY <1>3, <1>4, Zenon
    <2>3. i..L = {i} \cup (i + 1)..L /\ i \notin (i + 1)..L /\ (i + 1)..L \subseteq 1..L
      BY <1>1
    <2>4. CASE NameOrder[i] \in D
      <3>1. From(i) = From(i + 1) \cup {NameOrder[i]}
        BY <2>3, <2>4
      <3>2. NameOrder[i] \notin From(i + 1)
        BY <1>1, <2>3
      <3>. HIDE DEF From
      <3>3. Once(<<NameOrder[i]>> \o f[i + 1], From(i + 1) \cup {NameOrder[i]})
        BY <2>1, <3>2, OnceMore
      <3>. QED  BY <2>1, <2>2, <2>4, <3>1, <3>3, Zenon DEF P
    <2>5. CASE NameOrder[i] \notin D
      <3>1. From(i) = From(i + 1)
        BY <2>3, <2>5
      <3>. HIDE DEF From
      <3>2. f[i + 1] \in Seq(From(i + 1))
        BY <2>1 DEF Once
      <3>3. <<>> \o f[i + 1] = f[i + 1]
        BY <3>2, ConcatNone
      <3>. QED  BY <2>1, <2>2, <2>5, <3>1, <3>3, Zenon DEF P
    <2>. QED  BY <2>4, <2>5
  <1>. HIDE DEF S
  <1>7. 1 \in S
    <2>1. 1..(L + 1) \subseteq S
      BY <1>1, <1>5, <1>6, Backward
    <2>2. 1 \in 1..(L + 1)
      BY <1>1
    <2>. QED  BY <2>1, <2>2
  <1>8. From(1) = D
    BY <1>1, Zenon DEF D
  <1>. HIDE DEF From
  <1>9. Once(f[1], D)
    BY <1>7, <1>8 DEF S
  <1>. QED  BY <1>2, <1>4, <1>9 DEF D

-----------------------------------------------------------------------------
(* Loops that leave a list *)

\* Arithmetic of the positions in a list of items of w tokens.
Positions(w) ==
    /\ w \in Nat /\ w >= 1
    /\ (w + 1) % (w + 1) = 0 /\ 1 % (w + 1) = 1
    /\ \A n \in 1..w : n % (w + 1) # 0 /\ (n % (w + 1) = 1 <=> n = 1)
    /\ \A n \in Nat : (n + (w + 1)) % (w + 1) = n % (w + 1)
    /\ \A n, l \in Nat : n % (w + 1) = 1 /\ n <= l /\ (l + 1) % (w + 1) = 0 => n + w - 1 <= l

\* Items of one token with their separators are two tokens apart.
LEMMA PositionsOne == Positions(1)
  <1>1. (1 + 1) % (1 + 1) = 0 /\ 1 % (1 + 1) = 1
    OBVIOUS
  <1>2. \A n \in 1..1 : n % (1 + 1) # 0 /\ (n % (1 + 1) = 1 <=> n = 1)
    OBVIOUS
  <1>3. \A n \in Nat : (n + (1 + 1)) % (1 + 1) = n % (1 + 1)
    OBVIOUS
  <1>4. \A n, l \in Nat : n % (1 + 1) = 1 /\ n <= l /\ (l + 1) % (1 + 1) = 0 => n + 1 - 1 <= l
    OBVIOUS
  <1>. QED  BY <1>1, <1>2, <1>3, <1>4 DEF Positions

\* Items of three tokens with their separators are four tokens apart.
LEMMA PositionsThree == Positions(3)
  <1>1. (3 + 1) % (3 + 1) = 0 /\ 1 % (3 + 1) = 1
    OBVIOUS
  <1>2. \A n \in 1..3 : n % (3 + 1) # 0 /\ (n % (3 + 1) = 1 <=> n = 1)
    OBVIOUS
  <1>3. \A n \in Nat : (n + (3 + 1)) % (3 + 1) = n % (3 + 1)
    OBVIOUS
  <1>4. \A n, l \in Nat : n % (3 + 1) = 1 /\ n <= l /\ (l + 1) % (3 + 1) = 0 => n + 3 - 1 <= l
    OBVIOUS
  <1>. QED  BY <1>1, <1>2, <1>3, <1>4 DEF Positions

\* An item of w tokens, none of them the separator.
IsItem(X, item, separator, w) ==
    item \in Seq(X) /\ Len(item) = w /\ \A n \in 1..w : item[n] # <<separator>>

\* One item is a list of it.
LEMMA ReadsOne ==
    ASSUME NEW X, NEW w, Positions(w), NEW separator, NEW item, IsItem(X, item, separator, w)
    PROVE  Reads(item, separator, w, {item})
  <1>. DEFINE W == w + 1
  <1>1. /\ w \in Nat /\ w >= 1 /\ W % W = 0 /\ 1 % W = 1
        /\ \A n \in 1..w : n % W # 0 /\ (n % W = 1 <=> n = 1)
    BY DEF Positions
  <1>2. item \in Seq(X) /\ Len(item) = w /\ DOMAIN item = 1..w /\ \A n \in 1..w : item[n] # <<separator>>
    BY DEF IsItem
  <1>. HIDE DEF W
  <1>3. Len(item) + 1 = W
    BY <1>2 DEF W
  <1>4. {m \in DOMAIN item : m % W = 1 % W} = {1}
    BY <1>1, <1>2
  <1>5. SubSeq(item, 1, 1 + w - 1) = item
    <2>1. 1 + w - 1 = w /\ 1 + w - 1 <= Len(item) /\ 1 \in Nat /\ 1 <= 1
      BY <1>1, <1>2
    <2>. DEFINE r == SubSeq(item, 1, 1 + w - 1)
    <2>2. r \in Seq(X) /\ Len(r) = w /\ \A i \in 1..w : r[i] = item[1 + i - 1]
      BY <1>1, <1>2, <2>1, SubSeqAt
    <2>. HIDE DEF r
    <2>3. \A i \in 1..w : r[i] = item[i]
      BY <1>1, <2>2
    <2>4. r = item
      BY <1>2, <2>2, <2>3, EqualSeqs
    <2>. QED  BY <2>4 DEF r
  <1>. DEFINE starts == {m \in DOMAIN item : m % W = 1 % W}
              Item(n) == SubSeq(item, n, n + w - 1)
  <1>6. {Item(n) : n \in starts} = {item} /\ \A m, n \in starts : Item(m) = Item(n) => m = n
    <2>1. starts = {1} /\ Item(1) = item
      BY <1>4, <1>5
    <2>. HIDE DEF starts, Item
    <2>. QED  BY <2>1
  <1>7. \A n \in DOMAIN item : n % W = 0 <=> item[n] = <<separator>>
    BY <1>1, <1>2
  <1>8. (Len(item) + 1) % W = 0
    BY <1>1, <1>3
  <1>. QED  BY <1>6, <1>7, <1>8, Zenon DEF Reads, W

\* An item, the separator and a list are a list.
LEMMA ReadsMore ==
    ASSUME NEW X, NEW w, Positions(w), NEW separator, <<separator>> \in X,
           NEW item, IsItem(X, item, separator, w),
           NEW t \in Seq(X), NEW Items, item \notin Items,
           Reads(t, separator, w, Items)
    PROVE  Reads((item \o <<<<separator>>>>) \o t, separator, w, Items \cup {item})
  <1>. DEFINE W == w + 1
              sep == <<separator>>
              h == item \o <<sep>>
              u == h \o t
              l == Len(t)
              Block(s, n) == SubSeq(s, n, n + w - 1)
              Starts(s) == {m \in DOMAIN s : m % W = 1 % W}
  <1>0. w \in Nat /\ w >= 1
    BY DEF Positions
  <1>1. /\ w \in Nat /\ w >= 1 /\ W % W = 0 /\ 1 % W = 1
        /\ \A n \in 1..w : n % W # 0 /\ (n % W = 1 <=> n = 1)
        /\ \A n \in Nat : (n + W) % W = n % W
        /\ \A n, k \in Nat : n % W = 1 /\ n <= k /\ (k + 1) % W = 0 => n + w - 1 <= k
    BY Zenon DEF Positions
  <1>2. item \in Seq(X) /\ Len(item) = w /\ \A n \in 1..w : item[n] # sep
    BY DEF IsItem
  <1>3. /\ (l + 1) % W = 0
        /\ \A n \in DOMAIN t : n % W = 0 <=> t[n] = sep
        /\ {Block(t, n) : n \in Starts(t)} = Items
        /\ \A m, n \in Starts(t) : Block(t, m) = Block(t, n) => m = n
    BY Zenon DEF Reads
  <1>4. l \in Nat /\ DOMAIN t = 1..l /\ <<sep>> \in Seq(X) /\ Len(<<sep>>) = 1 /\ <<sep>>[1] = sep
    OBVIOUS
  <1>. HIDE DEF sep, l
  <1>5. /\ h \in Seq(X) /\ Len(h) = W
        /\ \A i \in 1..w : h[i] = item[i]
        /\ h[W] = sep
    <2>. DEFINE b == <<sep>>
    <2>1. b \in Seq(X) /\ Len(b) = 1 /\ b[1] = sep
      BY <1>4
    <2>. HIDE DEF b
    <2>2. /\ item \o b \in Seq(X) /\ Len(item \o b) = Len(item) + Len(b)
          /\ \A i \in 1..Len(item) : (item \o b)[i] = item[i]
          /\ \A i \in 1..Len(b) : (item \o b)[i + Len(item)] = b[i]
      <3>1. item \in Seq(X) /\ b \in Seq(X)
        BY <1>2, <2>1
      <3>. QED  BY <3>1, ConcatAt
    <2>. DEFINE v == item \o b
    <2>. HIDE DEF v
    <2>3. v \in Seq(X) /\ Len(v) = Len(item) + Len(b)
          /\ (\A i \in 1..Len(item) : v[i] = item[i])
          /\ \A i \in 1..Len(b) : v[i + Len(item)] = b[i]
      BY <2>2 DEF v
    <2>4. Len(v) = W
      BY <1>1, <1>2, <2>1, <2>3
    <2>5. v[W] = sep
      <3>1. 1 \in 1..Len(b) /\ 1 + Len(item) = W
        BY <1>1, <1>2, <2>1
      <3>. QED  BY <2>1, <2>3, <3>1
    <2>6. h = v
      BY DEF v, b
    <2>. QED  BY <1>2, <2>3, <2>4, <2>5, <2>6
  <1>. HIDE DEF h, W
  <1>6. /\ u \in Seq(X) /\ Len(u) = W + l
        /\ \A i \in 1..W : u[i] = h[i]
        /\ \A i \in 1..l : u[i + W] = t[i]
    <2>1. /\ u \in Seq(X) /\ Len(u) = Len(h) + Len(t)
          /\ \A i \in 1..Len(h) : u[i] = h[i]
          /\ \A i \in 1..Len(t) : u[i + Len(h)] = t[i]
      <3>1. h \in Seq(X) /\ t \in Seq(X)
        BY <1>5
      <3>. QED  BY <3>1, ConcatAt
    <2>. HIDE DEF u
    <2>. QED  BY <1>5, <2>1 DEF l
  <1>. HIDE DEF u
  <1>7. W = w + 1 /\ W \in Nat /\ DOMAIN u = 1..(W + l)
    BY <1>1, <1>4, <1>6 DEF W
  <1>8. \A n \in 1..(W + l) :
            n \in 1..w \/ n = W \/ (n - W \in 1..l /\ (n - W) + W = n /\ n - W \in Nat)
    BY <1>1, <1>4, <1>7
  <1>9. (Len(u) + 1) % W = 0
    <2>1. Len(u) + 1 = (l + 1) + W /\ l + 1 \in Nat
      BY <1>4, <1>6, <1>7
    <2>. QED  BY <1>1, <1>3, <2>1
  <1>10. \A n \in DOMAIN u : n % W = 0 <=> u[n] = sep
    <2>. SUFFICES ASSUME NEW n \in 1..(W + l) PROVE n % W = 0 <=> u[n] = sep
      BY <1>7
    <2>1. CASE n \in 1..w
      <3>1. n \in 1..W
        BY <1>1, <1>7, <2>1
      <3>2. u[n] = item[n]
        BY <1>5, <1>6, <2>1, <3>1
      <3>. QED  BY <1>1, <1>2, <2>1, <3>2
    <2>2. CASE n = W
      <3>1. W \in 1..W
        BY <1>1, <1>7
      <3>. QED  BY <1>1, <1>5, <1>6, <2>2, <3>1
    <2>3. CASE n - W \in 1..l /\ (n - W) + W = n /\ n - W \in Nat
      <3>. DEFINE k == n - W
      <3>1. k \in 1..l /\ k + W = n /\ k \in Nat
        BY <2>3
      <3>. HIDE DEF k
      <3>2. u[n] = t[k] /\ n % W = k % W
        BY <1>1, <1>6, <3>1
      <3>. QED  BY <1>3, <1>4, <3>1, <3>2
    <2>. QED  BY <1>8, <2>1, <2>2, <2>3
  <1>11. /\ {Block(u, n) : n \in Starts(u)} = Items \cup {item}
         /\ \A m, n \in Starts(u) : Block(u, m) = Block(u, n) => m = n
    <2>1. \A n \in Starts(u) : n = 1 \/ \E k \in Starts(t) : n = k + W
      <3>. SUFFICES ASSUME NEW n \in 1..(W + l), n % W = 1
                    PROVE  n = 1 \/ \E k \in Starts(t) : n = k + W
        BY <1>1, <1>7, Zenon
      <3>1. CASE n \in 1..w
        BY <1>1, <3>1
      <3>2. CASE n = W
        BY <1>1, <3>2
      <3>3. CASE n - W \in 1..l /\ (n - W) + W = n /\ n - W \in Nat
        <4>. DEFINE k == n - W
        <4>1. k \in 1..l /\ k + W = n /\ k \in Nat
          BY <3>3
        <4>. HIDE DEF k
        <4>2. k % W = 1 % W
          BY <1>1, <4>1
        <4>. QED  BY <1>4, <4>1, <4>2
      <3>. QED  BY <1>8, <3>1, <3>2, <3>3
    <2>2. 1 \in Starts(u)
      <3>1. 1 \in 1..(W + l)
        BY <1>1, <1>4, <1>7
      <3>. QED  BY <1>7, <3>1
    <2>3. \A k \in Starts(t) : k \in 1..l /\ k + w - 1 <= l /\ k + W \in Starts(u)
      <3>. SUFFICES ASSUME NEW k \in 1..l, k % W = 1
                    PROVE  k + w - 1 <= l /\ k + W \in 1..(W + l) /\ (k + W) % W = 1
        BY <1>1, <1>4, <1>7, Zenon
      <3>1. k \in Nat /\ k <= l /\ k + W \in 1..(W + l)
        BY <1>4, <1>7
      <3>. QED  BY <1>1, <1>3, <1>4, <3>1
    <2>4. Block(u, 1) = item
      <3>. DEFINE r == Block(u, 1)
      <3>1. 1 \in Nat /\ 1 <= 1 /\ 1 + w - 1 <= Len(u)
        BY <1>0, <1>4, <1>6, <1>7
      <3>2. r \in Seq(X) /\ Len(r) = w /\ \A i \in 1..w : r[i] = u[1 + i - 1]
        BY <1>1, <1>6, <3>1, SubSeqAt
      <3>. HIDE DEF r
      <3>3. \A i \in 1..w : 1 + i - 1 = i /\ i \in 1..W
        BY <1>1, <1>7
      <3>4. \A i \in 1..w : r[i] = item[i]
        BY <1>5, <1>6, <3>2, <3>3
      <3>5. r = item
        BY <1>2, <3>2, <3>4, EqualSeqs
      <3>. QED  BY <3>5 DEF r
    <2>5. ASSUME NEW k \in Starts(t) PROVE Block(u, k + W) = Block(t, k)
      <3>1. k \in 1..l /\ k + w - 1 <= l /\ w \in Nat
        BY <1>1, <2>3
      <3>. DEFINE j == k + W
                  r == Block(u, j)
                  q == Block(t, k)
      <3>2. k \in Nat /\ 1 <= k /\ k + w - 1 <= Len(t)
        BY <1>4, <3>1 DEF l
      <3>3. j \in Nat /\ 1 <= j /\ j + w - 1 <= Len(u)
        BY <1>4, <1>6, <1>7, <3>1
      <3>4. \A i \in 1..w : k + i - 1 \in 1..l /\ j + i - 1 = (k + i - 1) + W
        BY <1>1, <1>4, <1>7, <3>1
      <3>. HIDE DEF j
      <3>5. r \in Seq(X) /\ Len(r) = w /\ \A i \in 1..w : r[i] = u[j + i - 1]
        BY <1>6, <3>1, <3>3, SubSeqAt
      <3>6. q \in Seq(X) /\ Len(q) = w /\ \A i \in 1..w : q[i] = t[k + i - 1]
        BY <3>1, <3>2, SubSeqAt
      <3>. HIDE DEF r, q
      <3>7. ASSUME NEW i \in 1..w PROVE r[i] = q[i]
        <4>1. r[i] = u[(k + i - 1) + W] /\ q[i] = t[k + i - 1] /\ k + i - 1 \in 1..l
          BY <3>4, <3>5, <3>6
        <4>2. \A n \in 1..l : u[n + W] = t[n]
          BY <1>6
        <4>. QED  BY <4>1, <4>2
      <3>8. r = q
        BY <3>5, <3>6, <3>7, EqualSeqs
      <3>. QED  BY <3>8, Zenon DEF r, q, j
    <2>. HIDE DEF Block, Starts
    <2>6. ASSUME NEW e \in {Block(u, n) : n \in Starts(u)} PROVE e \in Items \cup {item}
      <3>1. PICK n \in Starts(u) : e = Block(u, n)
        OBVIOUS
      <3>2. CASE n = 1
        BY <2>4, <3>1, <3>2
      <3>3. ASSUME NEW k \in Starts(t), n = k + W PROVE e \in Items
        <4>1. e = Block(t, k)
          BY <2>5, <3>1, <3>3
        <4>. QED  BY <1>3, <4>1
      <3>. QED  BY <2>1, <3>2, <3>3
    <2>7. ASSUME NEW e \in Items \cup {item} PROVE e \in {Block(u, n) : n \in Starts(u)}
      <3>1. CASE e = item
        BY <2>2, <2>4, <3>1
      <3>2. CASE e \in Items
        <4>1. PICK k \in Starts(t) : e = Block(t, k)
          BY <1>3, <3>2
        <4>. QED  BY <2>3, <2>5, <4>1
      <3>. QED  BY <3>1, <3>2
    <2>8. \A k \in Starts(t) : Block(u, k + W) \in Items /\ Block(u, k + W) # Block(u, 1)
      BY <1>3, <2>4, <2>5
    <2>9. \A j, k \in Starts(t) : Block(u, j + W) = Block(u, k + W) => j = k
      BY <1>3, <2>5
    <2>10. ASSUME NEW m \in Starts(u), NEW n \in Starts(u), Block(u, m) = Block(u, n) PROVE m = n
      <3>1. CASE m = 1
        BY <2>1, <2>8, <2>10, <3>1
      <3>2. CASE n = 1
        BY <2>1, <2>8, <2>10, <3>2
      <3>3. ASSUME NEW j \in Starts(t), NEW k \in Starts(t), m = j + W, n = k + W PROVE m = n
        BY <2>9, <2>10, <3>3
      <3>. QED  BY <2>1, <3>1, <3>2, <3>3
    <2>. QED  BY <2>6, <2>7, <2>10
  <1>12. Reads(u, separator, w, Items \cup {item})
    BY <1>9, <1>10, <1>11, Zenon DEF Reads, W, sep
  <1>. QED  BY <1>12 DEF u, h, sep

\* At least one item, and each a sequence over X.
ItemsOver(X, L, items) == L \in Nat /\ L >= 1 /\ items \in [1..L -> Seq(X)]

\* f[i] is what a loop that separates its items appends from item i on.
ListRounds(items, L, sep, f) ==
    /\ Listed(items, sep) = f[1] /\ f[L] = items[L]
    /\ \A i \in 1..(L - 1) : f[i] = (items[i] \o <<sep>>) \o f[i + 1]

\* The rounds of the loops that separate their items.
LEMMA ListedRounds ==
    ASSUME Inductive, NEW X, NEW sep \in X, NEW L, NEW items, ItemsOver(X, L, items)
    PROVE  \E f : ListRounds(items, L, sep, f)
  <1>. DEFINE P(n) == IF n # L THEN items[n] \o <<sep>> ELSE items[n]
              parts == [n \in 1..L |-> P(n)]
  <1>0. L \in Nat /\ L >= 1 /\ items \in [1..L -> Seq(X)]
    BY DEF ItemsOver
  <1>1. items \in Seq(Seq(X)) /\ Len(items) = L /\ DOMAIN items = 1..L
    BY <1>0, AsSeq
  <1>2. Listed(items, sep) = Flatten(parts)
    BY <1>1 DEF Listed
  <1>3. L \in 1..L /\ P(L) = items[L] /\ \A i \in 1..(L - 1) : i \in 1..L /\ P(i) = items[i] \o <<sep>>
    BY <1>0
  <1>. HIDE DEF P
  <1>4. Len(parts) = L /\ \A i \in 1..L : parts[i] = P(i)
    BY <1>0
  <1>. HIDE DEF parts
  <1>5. PICK f : /\ Flatten(parts) = f[1] /\ f[L + 1] = <<>>
                 /\ \A i \in 1..L : f[i] = parts[i] \o f[i + 1]
    <2>1. Len(parts) \in Nat
      BY <1>0, <1>4
    <2>2. \E f : /\ Flatten(parts) = f[1] /\ f[Len(parts) + 1] = <<>>
                 /\ \A i \in 1..Len(parts) : f[i] = parts[i] \o f[i + 1]
      BY <2>1, FlattenRounds, Zenon
    <2>. QED  BY <1>4, <2>2
  <1>6. items[L] \in Seq(X) /\ f[L] = items[L] \o <<>>
    BY <1>0, <1>3, <1>4, <1>5, Zenon
  <1>7. f[L] = items[L]
    BY <1>6, ConcatNone
  <1>8. \A i \in 1..(L - 1) : f[i] = (items[i] \o <<sep>>) \o f[i + 1]
    BY <1>3, <1>4, <1>5, Zenon
  <1>. QED  BY <1>2, <1>5, <1>7, <1>8, Zenon DEF ListRounds

\* An item for each element of K, all of them different.
AllItems(X, K, items, separator, w) ==
    /\ \A k \in K : IsItem(X, items[k], separator, w)
    /\ \A j, k \in K : items[j] = items[k] => j = k

\* The items of the indices K, as a set.
ItemSet(K, items) == {items[k] : k \in K}

\* A loop over items that are all different leaves a list of them.
LEMMA ListReads ==
    ASSUME Inductive, NEW X, NEW w, Positions(w), NEW separator, <<separator>> \in X,
           NEW L, NEW items, ItemsOver(X, L, items),
           AllItems(X, 1..L, items, separator, w)
    PROVE  /\ Listed(items, <<separator>>) \in Seq(X)
           /\ Reads(Listed(items, <<separator>>), separator, w, ItemSet(1..L, items))
  <1>. DEFINE sep == <<separator>>
              Rest(i) == ItemSet(i..L, items)
  <1>0. sep \in X
    OBVIOUS
  <1>a. /\ \A k \in 1..L : IsItem(X, items[k], separator, w)
        /\ \A j, k \in 1..L : items[j] = items[k] => j = k
    BY DEF AllItems
  <1>. HIDE DEF sep
  <1>r. PICK f : ListRounds(items, L, sep, f)
    BY <1>0, ListedRounds
  <1>1. /\ Listed(items, sep) = f[1] /\ f[L] = items[L]
        /\ \A i \in 1..(L - 1) : f[i] = (items[i] \o <<sep>>) \o f[i + 1]
    BY <1>r, Zenon DEF ListRounds
  <1>. L \in Nat /\ L >= 1 /\ items \in [1..L -> Seq(X)]
    BY DEF ItemsOver
  <1>. DEFINE S == {i \in 1..L : /\ f[i] \in Seq(X)
                                 /\ Reads(f[i], separator, w, Rest(i))}
  <1>2. L \in S
    <2>1. L \in 1..L /\ L..L = {L}
      OBVIOUS
    <2>2. Rest(L) = {items[L]}
      BY <2>1 DEF ItemSet
    <2>3. items[L] \in Seq(X)
      BY <2>1
    <2>4. Reads(items[L], separator, w, {items[L]})
      BY <1>a, <2>1, ReadsOne
    <2>. HIDE DEF Rest
    <2>. QED  BY <1>1, <2>1, <2>2, <2>3, <2>4, Zenon
  <1>3. ASSUME NEW i \in 1..(L - 1), i + 1 \in S PROVE i \in S
    <2>1. /\ i \in 1..L /\ i + 1 \in 1..L /\ f[i + 1] \in Seq(X)
          /\ Reads(f[i + 1], separator, w, Rest(i + 1))
      BY <1>3
    <2>2. i..L = {i} \cup (i + 1)..L /\ i \notin (i + 1)..L /\ (i + 1)..L \subseteq 1..L
      BY <2>1
    <2>3. Rest(i) = Rest(i + 1) \cup {items[i]}
      BY <2>2 DEF ItemSet
    <2>4. items[i] \notin Rest(i + 1)
      BY <1>a, <2>1, <2>2 DEF ItemSet
    <2>. HIDE DEF Rest
    <2>6. Reads((items[i] \o <<sep>>) \o f[i + 1], separator, w, Rest(i + 1) \cup {items[i]})
      BY <1>a, <2>1, <2>4, ReadsMore, Zenon DEF sep
    <2>7. f[i] = (items[i] \o <<sep>>) \o f[i + 1] /\ items[i] \in Seq(X)
      BY <1>1, <2>1, Zenon
    <2>9. <<sep>> \in Seq(X)
      BY <1>0
    <2>10. items[i] \o <<sep>> \in Seq(X)
      BY <2>7, <2>9, ConcatAt
    <2>11. f[i] \in Seq(X)
      BY <2>1, <2>7, <2>10, ConcatAt
    <2>12. Reads(f[i], separator, w, Rest(i))
      BY <2>3, <2>6, <2>7
    <2>. QED  BY <2>1, <2>11, <2>12
  <1>. HIDE DEF S
  <1>4. 1 \in S
    <2>. DEFINE M == L - 1
    <2>1. M \in Nat /\ M + 1 = L
      OBVIOUS
    <2>. HIDE DEF M
    <2>2. M + 1 \in S /\ \A i \in 1..M : i + 1 \in S => i \in S
      BY <1>2, <1>3, <2>1 DEF M
    <2>3. 1..(M + 1) \subseteq S
      BY <2>1, <2>2, Backward, Zenon
    <2>4. 1 \in 1..(M + 1)
      BY <2>1
    <2>. QED  BY <2>3, <2>4
  <1>. QED  BY <1>1, <1>4 DEF S, Rest, sep

\* The items of one token are at the odd positions.
LEMMA ListedOdd ==
    ASSUME Inductive, NEW X, NEW sep \in X, NEW L, NEW items, ItemsOver(X, L, items),
           \A k \in 1..L : Len(items[k]) = 1
    PROVE  LET t == Listed(items, sep)
           IN t \in Seq(X) /\ Len(t) = 2 * L - 1 /\ \A k \in 1..L : t[2 * k - 1] = items[k][1]
  <1>r. PICK f : ListRounds(items, L, sep, f)
    BY ListedRounds, Zenon
  <1>1. /\ Listed(items, sep) = f[1] /\ f[L] = items[L]
        /\ \A i \in 1..(L - 1) : f[i] = (items[i] \o <<sep>>) \o f[i + 1]
    BY <1>r, Zenon DEF ListRounds
  <1>. L \in Nat /\ L >= 1 /\ items \in [1..L -> Seq(X)]
    BY DEF ItemsOver
  <1>. DEFINE S == {i \in 1..L : /\ f[i] \in Seq(X) /\ Len(f[i]) = 2 * (L - i) + 1
                                 /\ \A k \in i..L : f[i][2 * (k - i) + 1] = items[k][1]}
  <1>2. L \in S
    <2>1. L \in 1..L /\ 2 * (L - L) + 1 = 1 /\ \A k \in L..L : k = L
      OBVIOUS
    <2>. QED  BY <1>1, <2>1
  <1>3. ASSUME NEW i \in 1..(L - 1), i + 1 \in S PROVE i \in S
    <2>. DEFINE t == f[i + 1]
                h == items[i] \o <<sep>>
    <2>1. /\ i \in 1..L /\ t \in Seq(X) /\ Len(t) = 2 * (L - (i + 1)) + 1
          /\ \A k \in (i + 1)..L : t[2 * (k - (i + 1)) + 1] = items[k][1]
      BY <1>3
    <2>2. f[i] = h \o t
      BY <1>1, Zenon
    <2>3. items[i] \in Seq(X) /\ Len(items[i]) = 1
      BY <2>1
    <2>4. <<sep>> \in Seq(X) /\ Len(<<sep>>) = 1
      OBVIOUS
    <2>5. h \in Seq(X) /\ Len(h) = 2 /\ h[1] = items[i][1]
      <3>1. h \in Seq(X) /\ Len(h) = Len(items[i]) + Len(<<sep>>) /\ \A n \in 1..Len(items[i]) : h[n] = items[i][n]
        BY <2>3, <2>4, ConcatAt
      <3>. HIDE DEF h
      <3>. QED  BY <2>3, <2>4, <3>1
    <2>. HIDE DEF h, t
    <2>6. /\ h \o t \in Seq(X) /\ Len(h \o t) = Len(h) + Len(t)
          /\ \A n \in 1..Len(h) : (h \o t)[n] = h[n]
          /\ \A n \in 1..Len(t) : (h \o t)[n + Len(h)] = t[n]
      <3>1. h \in Seq(X) /\ t \in Seq(X)
        BY <2>1, <2>5
      <3>. QED  BY <3>1, ConcatAt
    <2>. DEFINE u == h \o t
    <2>. HIDE DEF u
    <2>7. /\ u \in Seq(X) /\ Len(u) = 2 * (L - i) + 1 /\ u[1] = items[i][1]
          /\ \A n \in 1..Len(t) : u[n + 2] = t[n]
      <3>1. u \in Seq(X) /\ Len(u) = Len(h) + Len(t) /\ (\A n \in 1..Len(h) : u[n] = h[n])
            /\ \A n \in 1..Len(t) : u[n + Len(h)] = t[n]
        BY <2>6 DEF u
      <3>2. 1 \in 1..Len(h) /\ 2 + (2 * (L - (i + 1)) + 1) = 2 * (L - i) + 1
        BY <2>5
      <3>. QED  BY <2>1, <2>5, <3>1, <3>2
    <2>8. ASSUME NEW k \in i..L PROVE u[2 * (k - i) + 1] = items[k][1]
      <3>1. CASE k = i
        <4>1. 2 * (k - i) + 1 = 1
          BY <3>1
        <4>. QED  BY <2>7, <3>1, <4>1
      <3>2. CASE k # i
        <4>. DEFINE n == 2 * (k - (i + 1)) + 1
        <4>1. k \in (i + 1)..L /\ n \in 1..Len(t) /\ n + 2 = 2 * (k - i) + 1
          BY <2>1, <3>2
        <4>. QED  BY <2>1, <2>7, <4>1
      <3>. QED  BY <3>1, <3>2
    <2>9. f[i] = u
      BY <2>2 DEF u
    <2>. QED  BY <2>1, <2>7, <2>8, <2>9, Zenon
  <1>. HIDE DEF S
  <1>4. 1 \in S
    <2>. DEFINE M == L - 1
    <2>1. M \in Nat /\ M + 1 = L
      OBVIOUS
    <2>. HIDE DEF M
    <2>2. M + 1 \in S /\ \A i \in 1..M : i + 1 \in S => i \in S
      BY <1>2, <1>3, <2>1 DEF M
    <2>3. 1..(M + 1) \subseteq S
      BY <2>1, <2>2, Backward, Zenon
    <2>4. 1 \in 1..(M + 1)
      BY <2>1
    <2>. QED  BY <2>3, <2>4
  <1>5. f[1] \in Seq(X) /\ Len(f[1]) = 2 * (L - 1) + 1 /\ \A k \in 1..L : f[1][2 * (k - 1) + 1] = items[k][1]
    BY <1>4 DEF S
  <1>6. 2 * (L - 1) + 1 = 2 * L - 1 /\ \A k \in 1..L : 2 * (k - 1) + 1 = 2 * k - 1
    OBVIOUS
  <1>. QED  BY <1>1, <1>5, <1>6

\* The items of the elements of s.
ItemsOf(s, it) == [n \in DOMAIN s |-> it[s[n]]]

\* An item for each name of A.
ItemFor(X, A, it) == \A k \in A : it[k] \in Seq(X)

\* The items of the names of s, in their order.
Itemised(X, A, s, it, items) ==
    /\ ItemsOver(X, Len(s), items) /\ ItemSet(1..Len(s), items) = ItemSet(A, it)
    /\ \A n \in 1..Len(s) : s[n] \in A /\ items[n] = it[s[n]]

\* They are items of a loop, one for each element.
LEMMA ItemsOnce ==
    ASSUME NEW X, NEW A, A # {}, NEW s, Once(s, A), NEW it, ItemFor(X, A, it)
    PROVE  Itemised(X, A, s, it, ItemsOf(s, it))
  <1>. DEFINE L == Len(s)
              I(n) == it[s[n]]
              items == [n \in 1..L |-> I(n)]
  <1>1. s \in Seq(A) /\ A = {s[n] : n \in 1..L}
    BY DEF Once
  <1>2. L \in Nat /\ DOMAIN s = 1..L /\ \A n \in 1..L : s[n] \in A
    BY <1>1
  <1>3. L >= 1
    <2>1. PICK n \in 1..L : TRUE
      BY <1>1
    <2>. QED  BY <1>2, <2>1
  <1>4. ItemsOf(s, it) = items
    BY <1>2 DEF ItemsOf
  <1>. HIDE DEF I, L
  <1>5. \A n \in 1..L : items[n] = I(n)
    OBVIOUS
  <1>6. \A n \in 1..L : I(n) \in Seq(X)
    BY <1>2 DEF I, ItemFor
  <1>7. items \in [1..L -> Seq(X)]
    BY <1>6
  <1>. HIDE DEF items
  <1>8. ItemSet(1..L, items) = ItemSet(A, it)
    <2>1. ASSUME NEW n \in 1..L PROVE items[n] \in {it[k] : k \in A}
      BY <1>2, <1>5 DEF I
    <2>2. ASSUME NEW k \in A PROVE it[k] \in {items[n] : n \in 1..L}
      <3>1. PICK n \in 1..L : k = s[n]
        BY <1>1
      <3>. QED  BY <1>5, <3>1 DEF I
    <2>. QED  BY <2>1, <2>2 DEF ItemSet
  <1>9. ItemsOver(X, L, items)
    BY <1>2, <1>3, <1>7 DEF ItemsOver
  <1>10. \A n \in 1..L : s[n] \in A /\ items[n] = it[s[n]]
    BY <1>2, <1>5 DEF I
  <1>. QED  BY <1>4, <1>8, <1>9, <1>10, Zenon DEF L, Itemised

\* A loop over names, with an item for each, leaves a list of the items.
LEMMA OnceReads ==
    ASSUME Inductive, NEW X, NEW w, Positions(w), NEW separator, <<separator>> \in X,
           NEW A, A # {}, NEW s, Once(s, A), NEW it,
           AllItems(X, A, it, separator, w)
    PROVE  /\ Listed(ItemsOf(s, it), <<separator>>) \in Seq(X)
           /\ Reads(Listed(ItemsOf(s, it), <<separator>>), separator, w, ItemSet(A, it))
  <1>. DEFINE L == Len(s)
              items == ItemsOf(s, it)
  <1>1. ItemFor(X, A, it)
    BY DEF AllItems, IsItem, ItemFor
  <1>2. /\ ItemsOver(X, L, items)
        /\ \A n \in 1..L : s[n] \in A /\ items[n] = it[s[n]]
        /\ ItemSet(1..L, items) = ItemSet(A, it)
    <2>1. Itemised(X, A, s, it, ItemsOf(s, it))
      BY <1>1, ItemsOnce, Zenon
    <2>. QED  BY <2>1, Zenon DEF Itemised
  <1>3. \A m, n \in 1..L : s[m] = s[n] => m = n
    BY Zenon DEF Once
  <1>. HIDE DEF items, L
  <1>4. \A k \in 1..L : IsItem(X, items[k], separator, w)
    BY <1>2 DEF AllItems
  <1>5. \A j, k \in 1..L : items[j] = items[k] => j = k
    BY <1>2, <1>3 DEF AllItems
  <1>a. AllItems(X, 1..L, items, separator, w)
    BY <1>4, <1>5 DEF AllItems
  <1>6. /\ Listed(items, <<separator>>) \in Seq(X)
        /\ Reads(Listed(items, <<separator>>), separator, w, ItemSet(1..L, items))
    BY <1>2, <1>a, ListReads
  <1>. QED  BY <1>2, <1>6 DEF items

\* An item of one token for each name of A.
OneTokenFor(X, A, it) == \A k \in A : it[k] \in Seq(X) /\ Len(it[k]) = 1

\* t and u have the tokens of it and of it2 at the same positions.
Correspond(X, A, it, it2, t, u) ==
    /\ t \in Seq(X) /\ u \in Seq(X) /\ Len(u) = Len(t)
    /\ \A k \in A : \E n \in 1..Len(t) : t[n] = it[k][1] /\ u[n] = it2[k][1]

\* Two loops over the same names, with items of one token, leave lists that correspond.
LEMMA OnceOdd ==
    ASSUME Inductive, NEW X, NEW sep \in X, NEW A, A # {}, NEW s, Once(s, A), NEW it, NEW it2,
           OneTokenFor(X, A, it), OneTokenFor(X, A, it2)
    PROVE  Correspond(X, A, it, it2, Listed(ItemsOf(s, it), sep), Listed(ItemsOf(s, it2), sep))
  <1>. DEFINE L == Len(s)
              i1 == ItemsOf(s, it)
              i2 == ItemsOf(s, it2)
              t == Listed(i1, sep)
              u == Listed(i2, sep)
  <1>a. ItemFor(X, A, it) /\ ItemFor(X, A, it2)
    BY DEF ItemFor, OneTokenFor
  <1>1. /\ ItemsOver(X, L, i1)
        /\ \A n \in 1..L : s[n] \in A /\ i1[n] = it[s[n]]
    <2>1. Itemised(X, A, s, it, ItemsOf(s, it))
      BY <1>a, ItemsOnce, Zenon
    <2>. QED  BY <2>1, Zenon DEF Itemised
  <1>2. /\ ItemsOver(X, L, i2)
        /\ \A n \in 1..L : s[n] \in A /\ i2[n] = it2[s[n]]
    <2>1. Itemised(X, A, s, it2, ItemsOf(s, it2))
      BY <1>a, ItemsOnce, Zenon
    <2>. QED  BY <2>1, Zenon DEF Itemised
  <1>3. L \in Nat /\ A = {s[n] : n \in 1..L}
    BY DEF Once
  <1>. HIDE DEF i1, i2, L
  <1>4. (\A k \in 1..L : Len(i1[k]) = 1) /\ (\A k \in 1..L : Len(i2[k]) = 1)
    BY <1>1, <1>2 DEF OneTokenFor
  <1>5. t \in Seq(X) /\ Len(t) = 2 * L - 1 /\ \A k \in 1..L : t[2 * k - 1] = i1[k][1]
    BY <1>1, <1>4, ListedOdd
  <1>6. u \in Seq(X) /\ Len(u) = 2 * L - 1 /\ \A k \in 1..L : u[2 * k - 1] = i2[k][1]
    BY <1>2, <1>4, ListedOdd
  <1>. HIDE DEF t, u
  <1>7. ASSUME NEW k \in A PROVE \E n \in 1..Len(t) : t[n] = it[k][1] /\ u[n] = it2[k][1]
    <2>1. PICK m \in 1..L : k = s[m]
      BY <1>3
    <2>2. 2 * m - 1 \in 1..Len(t)
      BY <1>3, <1>5
    <2>3. t[2 * m - 1] = it[k][1] /\ u[2 * m - 1] = it2[k][1]
      BY <1>1, <1>2, <1>5, <1>6, <2>1
    <2>. QED  BY <2>2, <2>3
  <1>8. Correspond(X, A, it, it2, t, u)
    BY <1>5, <1>6, <1>7 DEF Correspond
  <1>. QED  BY <1>8 DEF t, u, i1, i2

\* Without names there is nothing, and nothing is no list of items of three tokens.
LEMMA OnceNone ==
    ASSUME Inductive, NEW s, Once(s, {}), NEW it, NEW sep, NEW separator, NEW said
    PROVE  Listed(ItemsOf(s, it), sep) = <<>> /\ ~Reads(<<>>, separator, 3, said)
  <1>1. s \in Seq({}) /\ {} = {s[n] : n \in 1..Len(s)}
    BY DEF Once
  <1>2. Len(s) = 0 /\ DOMAIN s = {}
    <2>1. Len(s) \in Nat /\ DOMAIN s = 1..Len(s)
      BY <1>1
    <2>2. 1..Len(s) = {}
      BY <1>1
    <2>3. Len(s) = 0
      BY <2>1, <2>2
    <2>. QED  BY <2>1, <2>2, <2>3
  <1>. DEFINE I(n) == it[s[n]]
              items == [n \in {} |-> I(n)]
              P(n) == IF n # Len(items) THEN items[n] \o <<sep>> ELSE items[n]
              parts == [n \in {} |-> P(n)]
  <1>3. ItemsOf(s, it) = items
    BY <1>2 DEF ItemsOf
  <1>4. Listed(items, sep) = Flatten(parts)
    BY DEF Listed
  <1>. HIDE DEF P
  <1>5. parts = <<>>
    OBVIOUS
  <1>6. Len(parts) = 0
    BY <1>5
  <1>. HIDE DEF parts, items
  <1>7. Flatten(parts) = <<>>
    <2>1. Len(parts) \in Nat
      BY <1>6
    <2>2. \E f : /\ Flatten(parts) = f[1] /\ f[Len(parts) + 1] = <<>>
                 /\ \A i \in 1..Len(parts) : f[i] = parts[i] \o f[i + 1]
      BY <2>1, FlattenRounds, Zenon
    <2>3. Len(parts) + 1 = 1
      BY <1>6
    <2>. QED  BY <2>2, <2>3
  <1>8. (Len(<<>>) + 1) % (3 + 1) # 0
    OBVIOUS
  <1>9. ~Reads(<<>>, separator, 3, said)
    BY <1>8, Zenon DEF Reads
  <1>. QED  BY <1>3, <1>4, <1>7, <1>9

-----------------------------------------------------------------------------
(* Tokens *)

\* Names D, literals of the values V and words P.
Tokens(D, V, P) ==
    {Name(k) : k \in D} \cup {Literal(v) : v \in V} \cup {<<p>> : p \in P}

\* What distinguishes a literal from a word.
LiteralsIn(V) == \A v \in V : Literal(v)[1] = "lit"

\* What tells tuples of one and of two strings apart.
LEMMA Tuples ==
    /\ \A c, j, k : <<c, j>> = <<c, k>> => j = k
    /\ \A c, k, p : <<c, k>> # <<p>>
    /\ \A p, q : <<p>> = <<q>> => p = q
    /\ \A t, c, p : t[1] = c /\ c # p => t # <<p>>
  OBVIOUS

\* Names and literals are no words.
LEMMA NotWords ==
    /\ \A j, k : Name(j) = Name(k) => j = k
    /\ \A k, p : Name(k) # <<p>>
    /\ \A p, q : <<p>> = <<q>> => p = q
    /\ \A V, v, p : LiteralsIn(V) /\ v \in V /\ p # "lit" => Literal(v) # <<p>>
  <1>1. \A j, k : Name(j) = Name(k) => j = k
    BY Tuples, Zenon DEF Name
  <1>2. \A k, p : Name(k) # <<p>>
    BY Tuples, Zenon DEF Name
  <1>3. \A V, v, p : LiteralsIn(V) /\ v \in V /\ p # "lit" => Literal(v) # <<p>>
    BY Tuples, Zenon DEF LiteralsIn
  <1>. QED  BY <1>1, <1>2, <1>3, Tuples, Zenon

\* A word that is not among the tokens.
LEMMA NoToken ==
    ASSUME NEW D, NEW V, LiteralsIn(V), NEW P, NEW p, p \notin P, p # "lit"
    PROVE  <<p>> \notin Tokens(D, V, P)
  BY NotWords, Zenon DEF Tokens

\* More words, more tokens.
LEMMA TokensMore ==
    ASSUME NEW D, NEW V, NEW P, NEW Q, P \subseteq Q, NEW s \in Seq(Tokens(D, V, P))
    PROVE  s \in Seq(Tokens(D, V, Q))
  <1>. DEFINE X == Tokens(D, V, P)
              Y == Tokens(D, V, Q)
  <1>1. X \subseteq Y
    BY Zenon DEF Tokens
  <1>2. s \in Seq(X)
    OBVIOUS
  <1>. HIDE DEF X, Y
  <1>3. s \in Seq(Y)
    BY <1>1, <1>2
  <1>. QED  BY <1>3 DEF Y

\* ItemSet of one token and of three.
LEMMA ItemOne ==
    ASSUME NEW X, NEW a \in X, NEW p, a # <<p>>
    PROVE  IsItem(X, <<a>>, p, 1) /\ <<a>>[1] = a
  <1>. DEFINE c == <<p>>
  <1>. HIDE DEF c
  <1>1. a # c
    BY DEF c
  <1>2. <<a>> \in Seq(X) /\ Len(<<a>>) = 1 /\ <<a>>[1] = a /\ \A n \in 1..1 : <<a>>[n] # c
    BY <1>1
  <1>. QED  BY <1>2 DEF IsItem, c

\* The same for three tokens.
LEMMA ItemThree ==
    ASSUME NEW X, NEW a \in X, NEW b \in X, NEW d \in X, NEW p, a # <<p>>, b # <<p>>, d # <<p>>
    PROVE  IsItem(X, <<a, b, d>>, p, 3)
  <1>. DEFINE c == <<p>>
  <1>1. a # c /\ b # c /\ d # c
    OBVIOUS
  <1>. HIDE DEF c
  <1>. DEFINE t == <<a, b, d>>
  <1>2. t \in Seq(X) /\ Len(t) = 3 /\ t[1] = a /\ t[2] = b /\ t[3] = d
    OBVIOUS
  <1>. HIDE DEF t
  <1>3. \A n \in 1..3 : n = 1 \/ n = 2 \/ n = 3
    OBVIOUS
  <1>4. \A n \in 1..3 : t[n] # c
    BY <1>1, <1>2, <1>3
  <1>. QED  BY <1>2, <1>4 DEF IsItem, c, t

-----------------------------------------------------------------------------
(* The lists of a statement *)

\* The names of an object have their places in the order of iteration.
Ordered(obj) == DOMAIN obj \subseteq {NameOrder[n] : n \in DOMAIN NameOrder}

\* The members of obj are names of D with values of V.
MembersIn(D, V, obj) ==
    /\ Ordered(obj) /\ DOMAIN obj # {} /\ DOMAIN obj \subseteq D /\ LiteralsIn(V)
    /\ \A k \in DOMAIN obj : obj[k] \in V

\* An object, or conditions, with names of D and values of V; it may be empty.
ObjectIn(D, V, obj) ==
    /\ Ordered(obj) /\ DOMAIN obj \subseteq D /\ LiteralsIn(V)
    /\ \A k \in DOMAIN obj : obj[k] \in V

\* The loop over the names of an object, as a loop over items.
LEMMA LoopItems ==
    ASSUME Inductive, NEW obj, Ordered(obj), NEW it, NEW items,
           items = [n \in DOMAIN Names(obj) |-> items[n]],
           \A n \in DOMAIN Names(obj) : Names(obj)[n] \in DOMAIN obj => items[n] = it[Names(obj)[n]]
    PROVE  items = ItemsOf(Names(obj), it)
  <1>1. Once(Names(obj), DOMAIN obj)
    BY NamesOnce DEF Ordered
  <1>. DEFINE s == Names(obj)
              D == DOMAIN obj
  <1>2. s \in Seq(D)
    BY <1>1 DEF Once
  <1>. HIDE DEF s
  <1>3. \A n \in DOMAIN s : s[n] \in D
    BY <1>2
  <1>4. \A n \in DOMAIN s : items[n] = it[s[n]]
    BY <1>3 DEF s
  <1>5. items = [n \in DOMAIN s |-> items[n]]
    BY DEF s
  <1>6. items = [n \in DOMAIN s |-> it[s[n]]]
    BY <1>4, <1>5
  <1>. QED  BY <1>6 DEF ItemsOf, s

\* The item for each name.
EqualFor(obj) == [k \in DOMAIN obj |-> Equal(k, obj[k])]
NameFor(D) == [k \in D |-> <<Name(k)>>]
LiteralFor(obj) == [k \in DOMAIN obj |-> <<Literal(obj[k])>>]
ExcludedFor(obj) == [k \in DOMAIN obj |-> <<Name(k), <<"=EXCLUDED.">>, Name(k)>>]

\* The loops of an update go through the items of the names.
LEMMA EqualLoop == ASSUME Inductive, NEW obj, Ordered(obj) PROVE EqualItems(obj) = ItemsOf(Names(obj), EqualFor(obj))
  <1>. DEFINE s == Names(obj)
              F(k) == Equal(k, obj[k])
              items == [n \in DOMAIN s |-> F(s[n])]
              it == [k \in DOMAIN obj |-> F(k)]
  <1>. HIDE DEF F
  <1>1. \A n \in DOMAIN s : s[n] \in DOMAIN obj => items[n] = it[s[n]]
    OBVIOUS
  <1>2. items = [n \in DOMAIN s |-> items[n]]
    OBVIOUS
  <1>. HIDE DEF items, it
  <1>3. items = ItemsOf(s, it)
    BY <1>1, <1>2, LoopItems
  <1>. QED  BY <1>3 DEF EqualItems, EqualFor, items, it, F

\* So does the loop over the names of an insert.
LEMMA NameLoop == ASSUME Inductive, NEW obj, Ordered(obj) PROVE NameItems(obj) = ItemsOf(Names(obj), NameFor(DOMAIN obj))
  <1>. DEFINE s == Names(obj)
              F(k) == <<Name(k)>>
              items == [n \in DOMAIN s |-> F(s[n])]
              it == [k \in DOMAIN obj |-> F(k)]
  <1>. HIDE DEF F
  <1>1. \A n \in DOMAIN s : s[n] \in DOMAIN obj => items[n] = it[s[n]]
    OBVIOUS
  <1>2. items = [n \in DOMAIN s |-> items[n]]
    OBVIOUS
  <1>. HIDE DEF items, it
  <1>3. items = ItemsOf(s, it)
    BY <1>1, <1>2, LoopItems
  <1>. QED  BY <1>3 DEF NameItems, NameFor, items, it, F

\* So does the loop over its values.
LEMMA LiteralLoop == ASSUME Inductive, NEW obj, Ordered(obj) PROVE LiteralItems(obj) = ItemsOf(Names(obj), LiteralFor(obj))
  <1>. DEFINE s == Names(obj)
              F(k) == <<Literal(obj[k])>>
              items == [n \in DOMAIN s |-> F(s[n])]
              it == [k \in DOMAIN obj |-> F(k)]
  <1>. HIDE DEF F
  <1>1. \A n \in DOMAIN s : s[n] \in DOMAIN obj => items[n] = it[s[n]]
    OBVIOUS
  <1>2. items = [n \in DOMAIN s |-> items[n]]
    OBVIOUS
  <1>. HIDE DEF items, it
  <1>3. items = ItemsOf(s, it)
    BY <1>1, <1>2, LoopItems
  <1>. QED  BY <1>3 DEF LiteralItems, LiteralFor, items, it, F

\* So does the loop of "do update set".
LEMMA ExcludedLoop == ASSUME Inductive, NEW obj, Ordered(obj) PROVE ExcludedItems(obj) = ItemsOf(Names(obj), ExcludedFor(obj))
  <1>. DEFINE s == Names(obj)
              F(k) == <<Name(k), <<"=EXCLUDED.">>, Name(k)>>
              items == [n \in DOMAIN s |-> F(s[n])]
              it == [k \in DOMAIN obj |-> F(k)]
  <1>. HIDE DEF F
  <1>1. \A n \in DOMAIN s : s[n] \in DOMAIN obj => items[n] = it[s[n]]
    OBVIOUS
  <1>2. items = [n \in DOMAIN s |-> items[n]]
    OBVIOUS
  <1>. HIDE DEF items, it
  <1>3. items = ItemsOf(s, it)
    BY <1>1, <1>2, LoopItems
  <1>. QED  BY <1>3, Zenon DEF ExcludedItems, ExcludedFor, items, it, F

\* Assignments and conditions.
LEMMA EqualReads ==
    ASSUME Inductive, NEW D, NEW V, NEW obj, MembersIn(D, V, obj), NEW sep, sep # "lit", sep # "="
    PROVE  /\ Listed(EqualItems(obj), <<sep>>) \in Seq(Tokens(D, V, {"=", sep}))
           /\ Reads(Listed(EqualItems(obj), <<sep>>), sep, 3, ItemSet(DOMAIN obj, EqualFor(obj)))
  <1>. DEFINE X == Tokens(D, V, {"=", sep})
              A == DOMAIN obj
              it == EqualFor(obj)
              eq == <<"=">>
  <1>1. /\ Ordered(obj) /\ A # {} /\ A \subseteq D /\ LiteralsIn(V) /\ \A k \in A : obj[k] \in V
    BY DEF MembersIn
  <1>2. <<sep>> \in X /\ eq \in X /\ \A k \in A : Name(k) \in X /\ Literal(obj[k]) \in X
    BY <1>1, Zenon DEF Tokens
  <1>3. eq # <<sep>> /\ \A k \in A : Name(k) # <<sep>> /\ Literal(obj[k]) # <<sep>>
    BY <1>1, NotWords, Zenon
  <1>4. \A k \in A : it[k] = <<Name(k), eq, Literal(obj[k])>>
    BY Zenon DEF EqualFor, Equal
  <1>. HIDE DEF X, eq, it
  <1>5. \A k \in A : IsItem(X, it[k], sep, 3)
    BY <1>2, <1>3, <1>4, ItemThree, Zenon
  <1>6. \A j, k \in A : it[j] = it[k] => j = k
    <2>1. \A k \in A : it[k][1] = Name(k)
      BY <1>4
    <2>2. ASSUME NEW j \in A, NEW k \in A, it[j] = it[k] PROVE Name(j) = Name(k)
      BY <2>1, <2>2
    <2>. QED  BY <2>2, NotWords, Zenon
  <1>7. AllItems(X, A, it, sep, 3)
    BY <1>5, <1>6 DEF AllItems
  <1>8. Once(Names(obj), A)
    BY <1>1, NamesOnce DEF Ordered
  <1>. HIDE DEF A
  <1>9. /\ Listed(ItemsOf(Names(obj), it), <<sep>>) \in Seq(X)
        /\ Reads(Listed(ItemsOf(Names(obj), it), <<sep>>), sep, 3, ItemSet(A, it))
    BY <1>1, <1>2, <1>7, <1>8, PositionsThree, OnceReads, Zenon
  <1>. QED  BY <1>1, <1>9, EqualLoop, Zenon DEF X, it, A

\* Names, each once.
LEMMA NameReads ==
    ASSUME Inductive, NEW D, NEW V, LiteralsIn(V), NEW A, A # {}, A \subseteq D, NEW s, Once(s, A)
    PROVE  /\ Listed(ItemsOf(s, NameFor(A)), <<",">>) \in Seq(Tokens(D, V, {","}))
           /\ Reads(Listed(ItemsOf(s, NameFor(A)), <<",">>), ",", 1, ItemSet(A, NameFor(A)))
  <1>. DEFINE X == Tokens(D, V, {","})
              it == NameFor(A)
  <1>1. <<",">> \in X /\ \A k \in A : Name(k) \in X
    BY Zenon DEF Tokens
  <1>2. \A k \in A : Name(k) # <<",">>
    BY NotWords, Zenon
  <1>3. \A k \in A : it[k] = <<Name(k)>>
    BY Zenon DEF NameFor
  <1>. HIDE DEF X, it
  <1>4. \A k \in A : IsItem(X, it[k], ",", 1)
    BY <1>1, <1>2, <1>3, ItemOne, Zenon
  <1>5. \A j, k \in A : it[j] = it[k] => j = k
    BY <1>3, NotWords, Zenon
  <1>6. AllItems(X, A, it, ",", 1)
    BY <1>4, <1>5, Zenon DEF AllItems
  <1>7. /\ Listed(ItemsOf(s, it), <<",">>) \in Seq(X)
        /\ Reads(Listed(ItemsOf(s, it), <<",">>), ",", 1, ItemSet(A, it))
    BY <1>1, <1>6, PositionsOne, OnceReads, Zenon
  <1>. QED  BY <1>7, Zenon DEF X, it

\* "=EXCLUDED.", for each name.
LEMMA ExcludedReads ==
    ASSUME Inductive, NEW D, NEW V, NEW obj, MembersIn(D, V, obj)
    PROVE  /\ Listed(ExcludedItems(obj), <<",">>) \in Seq(Tokens(D, V, {"=EXCLUDED.", ","}))
           /\ Reads(Listed(ExcludedItems(obj), <<",">>), ",", 3, ItemSet(DOMAIN obj, ExcludedFor(obj)))
  <1>. DEFINE X == Tokens(D, V, {"=EXCLUDED.", ","})
              A == DOMAIN obj
              it == ExcludedFor(obj)
              ex == <<"=EXCLUDED.">>
              comma == ","
  <1>1. Ordered(obj) /\ A # {} /\ A \subseteq D
    BY DEF MembersIn
  <1>2. <<comma>> \in X /\ ex \in X /\ \A k \in A : Name(k) \in X
    BY <1>1, Zenon DEF Tokens
  <1>3. ex # <<comma>> /\ \A k \in A : Name(k) # <<comma>>
    BY NotWords, Zenon
  <1>4. \A k \in A : it[k] = <<Name(k), ex, Name(k)>>
    BY Zenon DEF ExcludedFor
  <1>. HIDE DEF X, ex, it, comma
  <1>5. \A k \in A : IsItem(X, it[k], comma, 3)
    BY <1>2, <1>3, <1>4, ItemThree, Zenon
  <1>6. \A j, k \in A : it[j] = it[k] => j = k
    <2>1. \A k \in A : it[k][1] = Name(k)
      BY <1>4
    <2>2. ASSUME NEW j \in A, NEW k \in A, it[j] = it[k] PROVE Name(j) = Name(k)
      BY <2>1, <2>2
    <2>. QED  BY <2>2, NotWords, Zenon
  <1>7. AllItems(X, A, it, comma, 3)
    BY <1>5, <1>6 DEF AllItems
  <1>8. Once(Names(obj), A)
    BY <1>1, NamesOnce DEF Ordered
  <1>. HIDE DEF A
  <1>9. /\ Listed(ItemsOf(Names(obj), it), <<comma>>) \in Seq(X)
        /\ Reads(Listed(ItemsOf(Names(obj), it), <<comma>>), comma, 3, ItemSet(A, it))
    BY <1>1, <1>2, <1>7, <1>8, PositionsThree, OnceReads, Zenon
  <1>. QED  BY <1>1, <1>9, ExcludedLoop, Zenon DEF X, it, A, comma

\* The two lists of an insert.
NamesText(obj) == Listed(NameItems(obj), <<",">>)
ValuesText(obj) == Listed(LiteralItems(obj), <<",">>)

\* The names and, position by position, their literals.
MembersListed(D, V, obj, names, values) ==
    /\ names \in Seq(Tokens(D, V, {","})) /\ values \in Seq(Tokens(D, V, {","}))
    /\ Reads(names, ",", 1, ItemSet(DOMAIN obj, NameFor(DOMAIN obj)))
    /\ Len(values) = Len(names)
    /\ \A k \in DOMAIN obj : \E n \in DOMAIN names :
          names[n] = Name(k) /\ values[n] = Literal(obj[k])

\* The lists of an insert are these.
LEMMA MembersRead ==
    ASSUME Inductive, NEW D, NEW V, NEW obj, MembersIn(D, V, obj)
    PROVE  MembersListed(D, V, obj, NamesText(obj), ValuesText(obj))
  <1>. DEFINE X == Tokens(D, V, {","})
              A == DOMAIN obj
              s == Names(obj)
              it == NameFor(A)
              it2 == LiteralFor(obj)
              c == <<",">>
              names == Listed(ItemsOf(s, it), c)
              values == Listed(ItemsOf(s, it2), c)
  <1>1. Ordered(obj) /\ A # {} /\ A \subseteq D /\ LiteralsIn(V) /\ \A k \in A : obj[k] \in V
    BY DEF MembersIn
  <1>2. Once(s, A)
    BY <1>1, NamesOnce DEF Ordered
  <1>3. names \in Seq(X) /\ Reads(names, ",", 1, ItemSet(A, it))
    BY <1>1, <1>2, NameReads, Zenon
  <1>4. c \in X /\ \A k \in A : Name(k) \in X /\ Literal(obj[k]) \in X
    BY <1>1, Zenon DEF Tokens
  <1>6. \A k \in A : it[k] = <<Name(k)>> /\ it2[k] = <<Literal(obj[k])>>
    BY Zenon DEF NameFor, LiteralFor
  <1>. HIDE DEF X, it, it2, s
  <1>7. \A k \in A : /\ it[k] \in Seq(X) /\ Len(it[k]) = 1 /\ it[k][1] = Name(k)
                     /\ it2[k] \in Seq(X) /\ Len(it2[k]) = 1 /\ it2[k][1] = Literal(obj[k])
    BY <1>4, <1>6, OneChar, Zenon
  <1>8. Correspond(X, A, it, it2, names, values)
    <2>1. OneTokenFor(X, A, it) /\ OneTokenFor(X, A, it2)
      BY <1>7, Zenon DEF OneTokenFor
    <2>. QED  BY <1>1, <1>2, <1>4, <2>1, OnceOdd, Zenon
  <1>. HIDE DEF names, values
  <1>9. /\ names \in Seq(X) /\ values \in Seq(X) /\ Len(values) = Len(names)
        /\ \A k \in A : \E n \in 1..Len(names) : names[n] = it[k][1] /\ values[n] = it2[k][1]
    BY <1>8 DEF Correspond
  <1>10. DOMAIN names = 1..Len(names)
    BY <1>9
  <1>11. \A k \in A : \E n \in DOMAIN names : names[n] = Name(k) /\ values[n] = Literal(obj[k])
    BY <1>7, <1>9, <1>10
  <1>12. NamesText(obj) = names /\ ValuesText(obj) = values
    BY <1>1, NameLoop, LiteralLoop, Zenon DEF names, values, s, it, it2, NamesText, ValuesText
  <1>13. MembersListed(D, V, obj, names, values)
    BY <1>3, <1>9, <1>11, Zenon DEF X, it, MembersListed
  <1>. QED  BY <1>12, <1>13, Zenon

-----------------------------------------------------------------------------
(* Updates *)

\* The words of a statement.
Words == {"update", "set", "where", "and", "insert into", "(", ") values(", ")", ",", "=",
          "on conflict(", "do update set", "=EXCLUDED.", "do nothing"}

\* One of the words, or none of them as in a list.
LEMMA WordTokens ==
    ASSUME NEW D, NEW V
    PROVE  \A p \in Words : <<p>> \in Tokens(D, V, Words) /\ <<<<p>>>> \in Seq(Tokens(D, V, Words))
  <1>. DEFINE X == Tokens(D, V, Words)
  <1>1. \A p \in Words : <<p>> \in X
    BY Zenon DEF Tokens
  <1>. HIDE DEF X
  <1>. QED  BY <1>1, OneChar, Zenon DEF X

\* The list of assignments, or of conditions.
LEMMA EqualTokens ==
    ASSUME Inductive, NEW D, NEW V, NEW obj, MembersIn(D, V, obj), NEW sep \in Words, sep # "="
    PROVE  /\ Listed(EqualItems(obj), <<sep>>) \in Seq(Tokens(D, V, Words))
           /\ Reads(Listed(EqualItems(obj), <<sep>>), sep, 3, ItemSet(DOMAIN obj, EqualFor(obj)))
           /\ \A p : p # "=" /\ p # sep /\ p # "lit" => Lacks(Listed(EqualItems(obj), <<sep>>), p)
  <1>. DEFINE t == Listed(EqualItems(obj), <<sep>>)
              P == {"=", sep}
  <1>1. sep # "lit" /\ P \subseteq Words
    BY Zenon DEF Words
  <1>2. t \in Seq(Tokens(D, V, P)) /\ Reads(t, sep, 3, ItemSet(DOMAIN obj, EqualFor(obj)))
    BY <1>1, EqualReads, Zenon
  <1>3. LiteralsIn(V)
    BY DEF MembersIn
  <1>4. \A p : p # "=" /\ p # sep /\ p # "lit" => p \notin P
    BY Zenon
  <1>. HIDE DEF t, P
  <1>5. t \in Seq(Tokens(D, V, Words))
    BY <1>1, <1>2, TokensMore, Zenon
  <1>6. ASSUME NEW p, p \notin P, p # "lit" PROVE Lacks(t, p)
    <2>1. <<p>> \notin Tokens(D, V, P)
      BY <1>3, <1>6, NoToken, Zenon
    <2>. QED  BY <1>2, <2>1, LacksOver, Zenon
  <1>. QED  BY <1>2, <1>4, <1>5, <1>6, Zenon DEF t

\* What the list says, as the set of pairs.
LEMMA EqualSet == \A f : ItemSet(DOMAIN f, EqualFor(f)) = {Equal(k, f[k]) : k \in DOMAIN f}
  <1>. SUFFICES ASSUME NEW f PROVE ItemSet(DOMAIN f, EqualFor(f)) = {Equal(k, f[k]) : k \in DOMAIN f}
    OBVIOUS
  <1>. DEFINE F(k) == Equal(k, f[k])
              g == [k \in DOMAIN f |-> F(k)]
  <1>. HIDE DEF F
  <1>1. {g[k] : k \in DOMAIN f} = {F(k) : k \in DOMAIN f}
    OBVIOUS
  <1>. QED  BY <1>1 DEF ItemSet, EqualFor, F

\* The text of an update whose conditions are z.
UpdateOf(obj, z) == <<<<"update">>, <<"set">>>> \o SetList(obj) \o <<<<"where">>>> \o z

\* An update sets every member once and asks for z.
UpdateSaysAll(st, obj, z) ==
    /\ Reads(Between(st, "set", "where"), ",", 3, {Equal(k, obj[k]) : k \in DOMAIN obj})
    /\ After(st, "where") = z /\ st # Died

\* So do the updates of json2sql.cpp, whatever the conditions.
LEMMA UpdateSets ==
    ASSUME Inductive, NEW D, NEW V, NEW obj, MembersIn(D, V, obj), NEW z \in Seq(Tokens(D, V, Words))
    PROVE  UpdateSaysAll(UpdateOf(obj, z), obj, z)
  <1>. DEFINE T == Tokens(D, V, Words)
              y == Listed(EqualItems(obj), <<",">>)
              S == ItemSet(DOMAIN obj, EqualFor(obj))
  <1>1. /\ "update" \in Words /\ "set" \in Words /\ "where" \in Words /\ "," \in Words
        /\ "update" # "set" /\ "update" # "where" /\ "set" # "where"
        /\ "," # "=" /\ "where" # "=" /\ "where" # "," /\ "where" # "lit"
    BY Zenon DEF Words
  <1>2. y \in Seq(T) /\ Reads(y, ",", 3, S) /\ Lacks(y, "where")
    <2>1. "," \in Words /\ "," # "="
      BY <1>1, Zenon
    <2>2. /\ y \in Seq(T) /\ Reads(y, ",", 3, S)
          /\ \A p : p # "=" /\ p # "," /\ p # "lit" => Lacks(y, p)
      BY <2>1, EqualTokens, Zenon
    <2>. QED  BY <1>1, <2>2, Zenon
  <1>3. <<"update">> \in T /\ <<"set">> \in T /\ <<"where">> \in T
    BY <1>1, WordTokens, Zenon
  <1>4. UpdateOf(obj, z) = ((<<<<"update">>, <<"set">>>> \o y) \o <<<<"where">>>>) \o z
    BY Zenon DEF UpdateOf, SetList
  <1>. HIDE DEF T, y
  <1>5. /\ Between(UpdateOf(obj, z), "set", "where") = y /\ After(UpdateOf(obj, z), "where") = z
        /\ \A e : UpdateOf(obj, z) # <<e>>
    <2>1. z \in Seq(T)
      BY DEF T
    <2>2. UpdateWords(T, "update", "set", "where")
      BY <1>1, <1>3, Zenon DEF UpdateWords
    <2>3. y \in Seq(T) /\ Lacks(y, "where")
      BY <1>2, Zenon
    <2>. DEFINE st == ((<<<<"update">>, <<"set">>>> \o y) \o <<<<"where">>>>) \o z
    <2>4. UpdateCut(st, "set", y, "where", z)
      BY <2>1, <2>2, <2>3, UpdateText, Zenon
    <2>. HIDE DEF st
    <2>5. UpdateOf(obj, z) = st
      BY <1>4 DEF st
    <2>. QED  BY <2>4, <2>5, Zenon DEF UpdateCut
  <1>6. S = {Equal(k, obj[k]) : k \in DOMAIN obj}
    BY EqualSet
  <1>. QED  BY <1>2, <1>5, <1>6, Zenon DEF UpdateSaysAll, Died

\* The list of conditions asks for each once, unless there is none.
LEMMA ConditionsSay ==
    ASSUME Inductive, NEW D, NEW V, NEW wheres, ObjectIn(D, V, wheres)
    PROVE  /\ Listed(EqualItems(wheres), <<"and">>) \in Seq(Tokens(D, V, Words))
           /\ Reads(Listed(EqualItems(wheres), <<"and">>), "and", 3,
                    {Equal(k, wheres[k]) : k \in DOMAIN wheres})
                <=> DOMAIN wheres # {}
  <1>. DEFINE T == Tokens(D, V, Words)
              z == Listed(EqualItems(wheres), <<"and">>)
              R == {Equal(k, wheres[k]) : k \in DOMAIN wheres}
  <1>1. Ordered(wheres)
    BY DEF ObjectIn
  <1>2. CASE DOMAIN wheres = {}
    <2>1. Once(Names(wheres), {})
      BY <1>1, <1>2, NamesOnce, Zenon DEF Ordered
    <2>2. EqualItems(wheres) = ItemsOf(Names(wheres), EqualFor(wheres))
      BY <1>1, EqualLoop, Zenon
    <2>3. z = <<>> /\ ~Reads(<<>>, "and", 3, R)
      BY <2>1, <2>2, OnceNone, Zenon
    <2>4. <<>> \in Seq(T)
      OBVIOUS
    <2>. QED  BY <1>2, <2>3, <2>4, Zenon
  <1>3. CASE DOMAIN wheres # {}
    <2>1. MembersIn(D, V, wheres)
      BY <1>3, Zenon DEF MembersIn, ObjectIn
    <2>2. "and" \in Words /\ "and" # "="
      BY Zenon DEF Words
    <2>3. z \in Seq(T) /\ Reads(z, "and", 3, ItemSet(DOMAIN wheres, EqualFor(wheres)))
      BY <2>1, <2>2, EqualTokens, Zenon
    <2>4. ItemSet(DOMAIN wheres, EqualFor(wheres)) = R
      BY EqualSet
    <2>. QED  BY <1>3, <2>3, <2>4, Zenon
  <1>. QED  BY <1>2, <1>3, Zenon

\* A single condition.
LEMMA ConditionSays ==
    ASSUME NEW D, NEW V, LiteralsIn(V), NEW k \in D, NEW v \in V
    PROVE  /\ Equal(k, v) \in Seq(Tokens(D, V, Words))
           /\ Reads(Equal(k, v), "and", 3, {Equal(k, v)})
  <1>. DEFINE T == Tokens(D, V, Words)
              a == Name(k)
              b == <<"=">>
              d == Literal(v)
  <1>1. "=" \in Words /\ "=" # "and" /\ "and" # "lit"
    BY Zenon DEF Words
  <1>2. a \in T /\ b \in T /\ d \in T
    BY <1>1, Zenon DEF Tokens
  <1>3. a # <<"and">> /\ b # <<"and">> /\ d # <<"and">>
    BY <1>1, NotWords, Zenon
  <1>. HIDE DEF T, a, b, d
  <1>4. IsItem(T, <<a, b, d>>, "and", 3)
    BY <1>2, <1>3, ItemThree, Zenon
  <1>5. <<a, b, d>> \in Seq(T) /\ Reads(<<a, b, d>>, "and", 3, {<<a, b, d>>})
    BY <1>4, ReadsOne, PositionsThree, Zenon DEF IsItem
  <1>. QED  BY <1>5, Zenon DEF T, a, b, d, Equal

\* The outcomes of an update.
UpdateSaid(outcomes, obj, wheres) ==
    IF DOMAIN obj = {} THEN outcomes = {<<>>}
    ELSE /\ Died \in outcomes <=> DOMAIN wheres = {}
         /\ \A st \in outcomes \ {Died} :
             /\ Reads(Between(st, "set", "where"), ",", 3, {Equal(k, obj[k]) : k \in DOMAIN obj})
             /\ Reads(After(st, "where"), "and", 3, {Equal(k, wheres[k]) : k \in DOMAIN wheres})
                  <=> DOMAIN wheres # {}

\* An update sets every member of the object once and asks for every condition once,
\* for any object and any conditions; it can die, or ask for nothing, exactly when there
\* is no condition (obj_to_update_sql_str with a map and with a JSON object).
LEMMA UpdatesMade ==
    ASSUME Inductive, NEW D, NEW V, NEW obj, NEW wheres, ObjectIn(D, V, obj), ObjectIn(D, V, wheres)
    PROVE  /\ UpdateSaid(update_json(obj, wheres), obj, wheres)
           /\ UpdateSaid(update_map(obj, wheres), obj, wheres)
  <1>. DEFINE z == Listed(EqualItems(wheres), <<"and">>)
              head == <<<<"update">>, <<"set">>>> \o SetList(obj)
              st == UpdateOf(obj, z)
              W == IF DOMAIN wheres = {} THEN {st, Died} ELSE {st}
  <1>1. CASE DOMAIN obj = {}
    BY <1>1, Zenon DEF UpdateSaid, update_json, update_map
  <1>2. CASE DOMAIN obj # {}
    <2>1. MembersIn(D, V, obj)
      BY <1>2, Zenon DEF MembersIn, ObjectIn
    <2>2. /\ z \in Seq(Tokens(D, V, Words))
          /\ Reads(z, "and", 3, {Equal(k, wheres[k]) : k \in DOMAIN wheres}) <=> DOMAIN wheres # {}
      BY ConditionsSay, Zenon
    <2>3. Where(head, wheres) = W
      BY Zenon DEF Where, UpdateOf
    <2>4. update_json(obj, wheres) = W /\ update_map(obj, wheres) = W
      BY <1>2, <2>3, Zenon DEF update_json, update_map
    <2>. HIDE DEF z
    <2>5. UpdateSaysAll(st, obj, z)
      BY <2>1, <2>2, UpdateSets, Zenon
    <2>. HIDE DEF st
    <2>6. (Died \in W <=> DOMAIN wheres = {}) /\ \A s \in W \ {Died} : s = st
      BY <2>5, Zenon DEF UpdateSaysAll
    <2>. HIDE DEF W
    <2>7. UpdateSaid(W, obj, wheres)
      BY <1>2, <2>2, <2>5, <2>6, Zenon DEF UpdateSaid, UpdateSaysAll
    <2>. QED  BY <2>4, <2>7, Zenon
  <1>. QED  BY <1>1, <1>2

\* So does the update with one condition (obj_to_update_sql_str with a key and a value).
LEMMA UpdateWhereMade ==
    ASSUME Inductive, NEW D, NEW V, NEW obj, NEW wheres, ObjectIn(D, V, obj), ObjectIn(D, V, wheres),
           NEW k, DOMAIN wheres = {k}
    PROVE  UpdateSaid(update_where(obj, k, wheres[k]), obj, wheres)
  <1>. DEFINE z == Equal(k, wheres[k])
              st == UpdateOf(obj, z)
  <1>1. CASE DOMAIN obj = {}
    BY <1>1, Zenon DEF UpdateSaid, update_where
  <1>2. CASE DOMAIN obj # {}
    <2>1. MembersIn(D, V, obj)
      BY <1>2, Zenon DEF MembersIn, ObjectIn
    <2>2. k \in D /\ wheres[k] \in V /\ LiteralsIn(V)
      BY Zenon DEF ObjectIn
    <2>3. z \in Seq(Tokens(D, V, Words)) /\ Reads(z, "and", 3, {z})
      BY <2>2, ConditionSays, Zenon
    <2>4. update_where(obj, k, wheres[k]) = {st}
      BY <1>2, Zenon DEF update_where, UpdateOf
    <2>5. {Equal(j, wheres[j]) : j \in DOMAIN wheres} = {z}
      BY Zenon
    <2>. HIDE DEF z
    <2>6. UpdateSaysAll(st, obj, z)
      BY <2>1, <2>3, UpdateSets, Zenon
    <2>. HIDE DEF st
    <2>. QED  BY <1>2, <2>3, <2>4, <2>5, <2>6, Zenon DEF UpdateSaid, UpdateSaysAll
  <1>. QED  BY <1>1, <1>2, Zenon

-----------------------------------------------------------------------------
(* Inserts and upserts *)

\* A list of names or of literals.
LEMMA CommaTokens ==
    ASSUME NEW D, NEW V, LiteralsIn(V), NEW t \in Seq(Tokens(D, V, {","}))
    PROVE  /\ t \in Seq(Tokens(D, V, Words))
           /\ \A p : p # "," /\ p # "lit" => Lacks(t, p)
  <1>. DEFINE P == {","}
  <1>1. P \subseteq Words /\ \A p : p # "," => p \notin P
    BY Zenon DEF Words
  <1>2. t \in Seq(Tokens(D, V, P))
    BY Zenon
  <1>. HIDE DEF P
  <1>3. t \in Seq(Tokens(D, V, Words))
    BY <1>1, <1>2, TokensMore, Zenon
  <1>4. ASSUME NEW p, p \notin P, p # "lit" PROVE Lacks(t, p)
    <2>1. <<p>> \notin Tokens(D, V, P)
      BY <1>4, NoToken, Zenon
    <2>. QED  BY <1>2, <2>1, LacksOver, Zenon
  <1>. QED  BY <1>1, <1>3, <1>4, Zenon

\* The names and the literals of an insert are where they are looked for.
LEMMA InsertCuts ==
    ASSUME Inductive, NEW D, NEW V, NEW obj, MembersIn(D, V, obj)
    PROVE  InsertCut(Tokens(D, V, Words), Insert(obj), "(", NamesText(obj), ") values(", ValuesText(obj), ")")
  <1>. DEFINE T == Tokens(D, V, Words)
              names == NamesText(obj)
              values == ValuesText(obj)
  <1>1. /\ "insert into" \in Words /\ "(" \in Words /\ ") values(" \in Words /\ ")" \in Words
        /\ "insert into" # "(" /\ "insert into" # ") values(" /\ "insert into" # ")"
        /\ "(" # ") values(" /\ "(" # ")" /\ ") values(" # ")"
        /\ ") values(" # "," /\ ") values(" # "lit" /\ ")" # "," /\ ")" # "lit"
    BY Zenon DEF Words
  <1>2. names \in Seq(Tokens(D, V, {","})) /\ values \in Seq(Tokens(D, V, {","}))
    BY MembersRead, Zenon DEF MembersListed
  <1>3. LiteralsIn(V)
    BY DEF MembersIn
  <1>. HIDE DEF names, values
  <1>4. /\ names \in Seq(T) /\ values \in Seq(T)
        /\ Lacks(names, ") values(") /\ Lacks(names, ")") /\ Lacks(values, ")")
    BY <1>1, <1>2, <1>3, CommaTokens, Zenon
  <1>5. InsertWords(T, "insert into", "(", ") values(", ")")
    BY <1>1, WordTokens, Zenon DEF InsertWords
  <1>6. Insert(obj) = InsertOf("insert into", "(", names, ") values(", values, ")")
    BY Zenon DEF Insert, InsertOf, BodyOf, names, values, NamesText, ValuesText
  <1>. HIDE DEF T
  <1>7. InsertCut(T, InsertOf("insert into", "(", names, ") values(", values, ")"), "(", names, ") values(", values, ")")
    BY <1>4, <1>5, InsertText, Zenon
  <1>. QED  BY <1>6, <1>7, Zenon DEF T, names, values

\* What st says when it inserts obj.
InsertSaid(st, obj) ==
    LET names == Between(st, "(", ") values(")
        values == Between(st, ") values(", ")")
    IN /\ Reads(names, ",", 1, {<<Name(k)>> : k \in DOMAIN obj})
       /\ Len(values) = Len(names)
       /\ \A k \in DOMAIN obj : \E n \in DOMAIN names :
            names[n] = Name(k) /\ values[n] = Literal(obj[k])

\* What the list of names says, as a set.
LEMMA NameSet == \A A : ItemSet(A, NameFor(A)) = {<<Name(k)>> : k \in A}
  <1>. SUFFICES ASSUME NEW A PROVE ItemSet(A, NameFor(A)) = {<<Name(k)>> : k \in A}
    OBVIOUS
  <1>. DEFINE F(k) == <<Name(k)>>
              g == [k \in A |-> F(k)]
  <1>. HIDE DEF F
  <1>1. {g[k] : k \in A} = {F(k) : k \in A}
    OBVIOUS
  <1>. QED  BY <1>1 DEF ItemSet, NameFor, F

\* A statement that is cut like an insert says it.
LEMMA InsertSays ==
    ASSUME Inductive, NEW D, NEW V, NEW obj, MembersIn(D, V, obj), NEW st,
           InsertCut(Tokens(D, V, Words), st, "(", NamesText(obj), ") values(", ValuesText(obj), ")")
    PROVE  InsertSaid(st, obj) /\ st # Died
  <1>. DEFINE T == Tokens(D, V, Words)
              names == NamesText(obj)
              values == ValuesText(obj)
  <1>1. IsCut(T, st, "(", ") values(", names) /\ IsCut(T, st, ") values(", ")", values) /\ \A e : st # <<e>>
    BY Zenon DEF InsertCut
  <1>2. Between(st, "(", ") values(") = names /\ Between(st, ") values(", ")") = values
    BY <1>1, CutBetween, Zenon
  <1>3. /\ Reads(names, ",", 1, ItemSet(DOMAIN obj, NameFor(DOMAIN obj)))
        /\ Len(values) = Len(names)
        /\ \A k \in DOMAIN obj : \E n \in DOMAIN names :
              names[n] = Name(k) /\ values[n] = Literal(obj[k])
    <2>1. MembersListed(D, V, obj, names, values)
      BY MembersRead, Zenon
    <2>. HIDE DEF names, values
    <2>. QED  BY <2>1, Zenon DEF MembersListed
  <1>. HIDE DEF names, values
  <1>4. Reads(names, ",", 1, {<<Name(k)>> : k \in DOMAIN obj})
    <2>1. ItemSet(DOMAIN obj, NameFor(DOMAIN obj)) = {<<Name(k)>> : k \in DOMAIN obj}
      BY NameSet, Zenon
    <2>. QED  BY <1>3, <2>1, Zenon
  <1>. QED  BY <1>1, <1>2, <1>3, <1>4, Zenon DEF InsertSaid, Died

\* The columns of "on conflict(...)": the list between its parentheses.
KeysText(keys) == Listed([n \in DOMAIN keys |-> <<Name(keys[n])>>], <<",">>)

\* That list has every column once.
LEMMA KeysRead ==
    ASSUME Inductive, NEW D, NEW V, LiteralsIn(V), NEW A, A # {}, A \subseteq D, NEW keys, Once(keys, A)
    PROVE  /\ KeysText(keys) \in Seq(Tokens(D, V, {","}))
           /\ Reads(KeysText(keys), ",", 1, {<<Name(k)>> : k \in A})
  <1>. DEFINE F(k) == <<Name(k)>>
              it == [k \in A |-> F(k)]
  <1>1. \A n \in DOMAIN keys : keys[n] \in A
    <2>1. keys \in Seq(A)
      BY DEF Once
    <2>. QED  BY <2>1
  <1>. HIDE DEF F
  <1>2. \A n \in DOMAIN keys : it[keys[n]] = F(keys[n])
    BY <1>1
  <1>3. [n \in DOMAIN keys |-> it[keys[n]]] = [n \in DOMAIN keys |-> F(keys[n])]
    BY <1>2
  <1>4. ItemsOf(keys, NameFor(A)) = [n \in DOMAIN keys |-> <<Name(keys[n])>>]
    BY <1>3 DEF ItemsOf, NameFor, F
  <1>5. /\ Listed(ItemsOf(keys, NameFor(A)), <<",">>) \in Seq(Tokens(D, V, {","}))
        /\ Reads(Listed(ItemsOf(keys, NameFor(A)), <<",">>), ",", 1, ItemSet(A, NameFor(A)))
    BY NameReads, Zenon
  <1>6. KeysText(keys) = Listed(ItemsOf(keys, NameFor(A)), <<",">>)
    BY <1>4, Zenon DEF KeysText
  <1>7. ItemSet(A, NameFor(A)) = {<<Name(k)>> : k \in A}
    BY NameSet, Zenon
  <1>. QED  BY <1>5, <1>6, <1>7, Zenon

\* The clause itself.
LEMMA ConflictClause ==
    ASSUME Inductive, NEW D, NEW V, LiteralsIn(V), NEW A, A # {}, A \subseteq D, NEW keys, Once(keys, A)
    PROVE  /\ OnConflict(keys) \in Seq(Tokens(D, V, Words))
           /\ Lacks(OnConflict(keys), "do update set")
           /\ Inner(OnConflict(keys)) = KeysText(keys)
  <1>. DEFINE T == Tokens(D, V, Words)
              K == KeysText(keys)
              a == <<"on conflict(">>
              b == <<")">>
              du == "do update set"
              s == <<a>> \o K
              t == s \o <<b>>
  <1>1. /\ "on conflict(" \in Words /\ ")" \in Words /\ du # "," /\ du # "lit"
        /\ du # "on conflict(" /\ du # ")"
    BY Zenon DEF Words
  <1>2. K \in Seq(Tokens(D, V, {","}))
    BY KeysRead, Zenon
  <1>. HIDE DEF K
  <1>3. K \in Seq(T) /\ Lacks(K, du)
    BY <1>1, <1>2, CommaTokens, Zenon
  <1>4. a \in T /\ b \in T /\ <<a>> \in Seq(T) /\ <<b>> \in Seq(T)
    BY <1>1, WordTokens, Zenon
  <1>5. Lacks(<<a>>, du) /\ Lacks(<<b>>, du)
    BY <1>1, LacksOne, Zenon
  <1>6. OnConflict(keys) = t
    BY Zenon DEF OnConflict, KeysText, K
  <1>. HIDE DEF T, a, b, du
  <1>7. s \in Seq(T) /\ Lacks(s, du)
    BY <1>3, <1>4, <1>5, LacksConcat, ConcatAt, Zenon
  <1>8. Inner(t) = K
    BY <1>3, <1>4, InnerOf, Zenon
  <1>. HIDE DEF s
  <1>9. t \in Seq(T) /\ Lacks(t, du)
    BY <1>4, <1>5, <1>7, LacksConcat, ConcatAt
  <1>. HIDE DEF t
  <1>. QED  BY <1>6, <1>8, <1>9, Zenon DEF T, K, du

\* The members that are overwritten.
Others(obj, except_key) == [k \in DOMAIN obj \ {except_key} |-> obj[k]]

\* "do update set" is followed by every member but except_key, unless there is none.
LEMMA ExcludedSays ==
    ASSUME Inductive, NEW D, NEW V, NEW obj, MembersIn(D, V, obj), NEW except_key
    PROVE  /\ Excluded(obj, except_key) \in Seq(Tokens(D, V, Words))
           /\ Reads(Excluded(obj, except_key), ",", 3,
                    {<<Name(k), <<"=EXCLUDED.">>, Name(k)>> : k \in DOMAIN obj \ {except_key}})
                <=> DOMAIN obj \ {except_key} # {}
  <1>. DEFINE T == Tokens(D, V, Words)
              cp == Others(obj, except_key)
              B == DOMAIN obj \ {except_key}
              R == {<<Name(k), <<"=EXCLUDED.">>, Name(k)>> : k \in B}
              P == {"=EXCLUDED.", ","}
  <1>1. /\ Ordered(obj) /\ DOMAIN obj \subseteq D /\ LiteralsIn(V) /\ \A k \in DOMAIN obj : obj[k] \in V
    BY DEF MembersIn
  <1>2. DOMAIN cp = B /\ B \subseteq DOMAIN obj /\ \A k \in B : cp[k] = obj[k]
    BY DEF Others
  <1>3. Excluded(obj, except_key) = Listed(ExcludedItems(cp), <<",">>)
    BY Zenon DEF Excluded, Others
  <1>4. Ordered(cp)
    BY <1>1, <1>2, Zenon DEF Ordered
  <1>5. P \subseteq Words
    BY Zenon DEF Words
  <1>6. ItemSet(B, ExcludedFor(cp)) = R
    <2>. DEFINE F(k) == <<Name(k), <<"=EXCLUDED.">>, Name(k)>>
                g == [k \in B |-> F(k)]
    <2>. HIDE DEF F, B
    <2>1. {g[k] : k \in B} = {F(k) : k \in B}
      OBVIOUS
    <2>2. ExcludedFor(cp) = g
      BY <1>2, Zenon DEF ExcludedFor, F
    <2>. QED  BY <2>1, <2>2, Zenon DEF ItemSet, F
  <1>. HIDE DEF cp, B, R, P
  <1>7. CASE B = {}
    <2>1. Once(Names(cp), {})
      BY <1>2, <1>4, <1>7, NamesOnce, Zenon DEF Ordered
    <2>2. ExcludedItems(cp) = ItemsOf(Names(cp), ExcludedFor(cp))
      BY <1>4, ExcludedLoop, Zenon
    <2>3. Listed(ExcludedItems(cp), <<",">>) = <<>> /\ ~Reads(<<>>, ",", 3, R)
      BY <2>1, <2>2, OnceNone, Zenon
    <2>4. <<>> \in Seq(T)
      OBVIOUS
    <2>. QED  BY <1>3, <1>7, <2>3, <2>4, Zenon DEF B, R, T
  <1>8. CASE B # {}
    <2>1. MembersIn(D, V, cp)
      BY <1>1, <1>2, <1>4, <1>8, Zenon DEF MembersIn
    <2>2. /\ Listed(ExcludedItems(cp), <<",">>) \in Seq(Tokens(D, V, P))
          /\ Reads(Listed(ExcludedItems(cp), <<",">>), ",", 3, ItemSet(B, ExcludedFor(cp)))
      BY <1>2, <2>1, ExcludedReads, Zenon DEF P
    <2>3. Listed(ExcludedItems(cp), <<",">>) \in Seq(T)
      BY <1>5, <2>2, TokensMore, Zenon
    <2>. QED  BY <1>3, <1>6, <1>8, <2>2, <2>3, Zenon DEF B, R, T
  <1>. QED  BY <1>7, <1>8, Zenon

\* The texts of the two kinds of upsert.
UpsertOf(obj, keys, except_key) ==
    Insert(obj) \o OnConflict(keys) \o <<<<"do update set">>>> \o Excluded(obj, except_key)
NothingOf(obj, keys) == Insert(obj) \o OnConflict(keys) \o <<<<"do nothing">>>>

\* An insert and both kinds of upsert name every member once and give its value at the
\* same position, for any object and any columns of a conflict (obj_to_insert_sql_str,
\* obj_to_upsert_nothing_sql_str, obj_to_upsert_update_sql_str).
LEMMA InsertsMade ==
    ASSUME Inductive, NEW D, NEW V, NEW obj, MembersIn(D, V, obj),
           NEW A, A # {}, A \subseteq D, NEW keys, Once(keys, A), NEW except_key
    PROVE  /\ InsertSaid(Insert(obj), obj) /\ Insert(obj) # Died
           /\ InsertSaid(NothingOf(obj, keys), obj) /\ NothingOf(obj, keys) # Died
           /\ InsertSaid(UpsertOf(obj, keys, except_key), obj) /\ UpsertOf(obj, keys, except_key) # Died
  <1>. DEFINE T == Tokens(D, V, Words)
              IC(st) == InsertCut(T, st, "(", NamesText(obj), ") values(", ValuesText(obj), ")")
              i == Insert(obj)
              oc == OnConflict(keys)
              ex == Excluded(obj, except_key)
              no == <<<<"do nothing">>>>
              du == <<<<"do update set">>>>
  <1>1. LiteralsIn(V)
    BY DEF MembersIn
  <1>2. IC(i)
    BY InsertCuts, Zenon
  <1>3. oc \in Seq(T) /\ ex \in Seq(T)
    BY <1>1, ConflictClause, ExcludedSays, Zenon
  <1>4. "do nothing" \in Words /\ "do update set" \in Words
    BY Zenon DEF Words
  <1>5. no \in Seq(T) /\ du \in Seq(T)
    BY <1>4, WordTokens, Zenon
  <1>. HIDE DEF i, oc, ex, no, du
  <1>6. \A st : IC(st) => \A r \in Seq(T) : IC(st \o r)
    BY InsertExtends, Zenon
  <1>7. \A st : IC(st) => InsertSaid(st, obj) /\ st # Died
    BY InsertSays, Zenon
  <1>. HIDE DEF IC
  <1>8. IC(i \o oc)
    BY <1>2, <1>3, <1>6, Zenon
  <1>9. IC((i \o oc) \o no) /\ IC((i \o oc) \o du)
    BY <1>5, <1>6, <1>8, Zenon
  <1>10. IC(((i \o oc) \o du) \o ex)
    BY <1>3, <1>6, <1>9, Zenon
  <1>11. NothingOf(obj, keys) = (i \o oc) \o no /\ UpsertOf(obj, keys, except_key) = ((i \o oc) \o du) \o ex
    BY Zenon DEF NothingOf, UpsertOf, i, oc, no, du, ex
  <1>. QED  BY <1>2, <1>7, <1>9, <1>10, <1>11, Zenon DEF i

\* An upsert names the columns of the conflict, and overwrites every member but except_key.
UpsertSaid(st, obj, A, except_key) ==
    LET others == DOMAIN obj \ {except_key}
    IN /\ Reads(Inner(Between(st, ")", "do update set")), ",", 1, {<<Name(k)>> : k \in A})
       /\ Reads(After(st, "do update set"), ",", 3,
                {<<Name(k), <<"=EXCLUDED.">>, Name(k)>> : k \in others})
            <=> others # {}

\* That is what the text of an upsert says.
LEMMA UpsertSays ==
    ASSUME Inductive, NEW D, NEW V, NEW obj, MembersIn(D, V, obj),
           NEW A, A # {}, A \subseteq D, NEW keys, Once(keys, A), NEW except_key
    PROVE  UpsertSaid(UpsertOf(obj, keys, except_key), obj, A, except_key)
  <1>. DEFINE T == Tokens(D, V, Words)
              names == NamesText(obj)
              values == ValuesText(obj)
              body == BodyOf("insert into", "(", names, ") values(", values)
              oc == OnConflict(keys)
              ex == Excluded(obj, except_key)
              st == UpsertOf(obj, keys, except_key)
              cl == ")"
              du == "do update set"
  <1>1. LiteralsIn(V)
    BY DEF MembersIn
  <1>2. /\ oc \in Seq(T) /\ Lacks(oc, du) /\ Inner(oc) = KeysText(keys)
    BY <1>1, ConflictClause, Zenon
  <1>3. ex \in Seq(T)
    BY ExcludedSays, Zenon
  <1>4. /\ "insert into" \in Words /\ "(" \in Words /\ ") values(" \in Words /\ cl \in Words /\ du \in Words
        /\ "insert into" # "(" /\ "insert into" # ") values(" /\ "insert into" # cl
        /\ "(" # ") values(" /\ "(" # cl /\ ") values(" # cl /\ cl # du
        /\ du # "insert into" /\ du # "(" /\ du # ") values("
        /\ cl # "," /\ cl # "lit" /\ du # "," /\ du # "lit"
    BY Zenon DEF Words
  <1>5. InsertWords(T, "insert into", "(", ") values(", cl)
    BY <1>4, WordTokens, Zenon DEF InsertWords
  <1>6. names \in Seq(Tokens(D, V, {","})) /\ values \in Seq(Tokens(D, V, {","}))
    BY MembersRead, Zenon DEF MembersListed
  <1>. HIDE DEF names, values
  <1>7. /\ names \in Seq(T) /\ values \in Seq(T)
        /\ Lacks(names, cl) /\ Lacks(names, du) /\ Lacks(values, cl) /\ Lacks(values, du)
    BY <1>1, <1>4, <1>6, CommaTokens, Zenon
  <1>8. <<cl>> \in T /\ <<du>> \in T
    BY <1>4, WordTokens, Zenon
  <1>. HIDE DEF T
  <1>9. body \in Seq(T) /\ Lacks(body, cl)
    BY <1>4, <1>5, <1>7, InsertBody, Zenon
  <1>10. Lacks(body, du)
    BY <1>4, <1>5, <1>7, InsertBody, Zenon
  <1>11. st = (((body \o <<<<cl>>>>) \o oc) \o <<<<du>>>>) \o ex
    BY Zenon DEF UpsertOf, Insert, BodyOf, names, values, NamesText, ValuesText
  <1>. HIDE DEF body, oc, ex, st
  <1>12. ConflictCut(st, cl, oc, du, ex)
    BY <1>2, <1>3, <1>4, <1>8, <1>9, <1>10, <1>11, ConflictText, Zenon
  <1>13. Inner(Between(st, cl, du)) = KeysText(keys) /\ After(st, du) = ex
    BY <1>2, <1>12, Zenon DEF ConflictCut
  <1>14. Reads(KeysText(keys), ",", 1, {<<Name(k)>> : k \in A})
    BY <1>1, KeysRead, Zenon
  <1>15. Reads(ex, ",", 3, {<<Name(k), <<"=EXCLUDED.">>, Name(k)>> : k \in DOMAIN obj \ {except_key}})
           <=> DOMAIN obj \ {except_key} # {}
    BY ExcludedSays, Zenon DEF ex
  <1>. QED  BY <1>13, <1>14, <1>15, Zenon DEF st, UpsertSaid

\* The outcomes of an upsert that updates.
UpsertsSaid(outcomes, obj, A, except_key) ==
    /\ Died \in outcomes <=> DOMAIN obj \ {except_key} = {}
    /\ \A st \in outcomes \ {Died} : InsertSaid(st, obj) /\ UpsertSaid(st, obj, A, except_key)

\* An upsert inserts the members and on a conflict in the given columns overwrites
\* all of them but except_key, for any object and any columns; it can die, or set
\* nothing, exactly when there is no other member (the three overloads of
\* obj_to_upsert_update_sql_str).
LEMMA DoUpdateMade ==
    ASSUME Inductive, NEW D, NEW V, NEW obj, MembersIn(D, V, obj),
           NEW A, A # {}, A \subseteq D, NEW keys, Once(keys, A), NEW except_key
    PROVE  UpsertsSaid(DoUpdate(obj, keys, except_key), obj, A, except_key)
  <1>. DEFINE st == UpsertOf(obj, keys, except_key)
              W == IF DOMAIN obj \ {except_key} = {} THEN {st, Died} ELSE {st}
  <1>1. DOMAIN obj # {}
    BY DEF MembersIn
  <1>2. DOMAIN obj = {except_key} <=> DOMAIN obj \ {except_key} = {}
    BY <1>1, Zenon
  <1>3. DoUpdate(obj, keys, except_key) = W
    BY <1>1, <1>2, Zenon DEF DoUpdate, UpsertOf
  <1>4. InsertSaid(st, obj) /\ st # Died
    BY InsertsMade, Zenon
  <1>5. UpsertSaid(st, obj, A, except_key)
    BY UpsertSays, Zenon
  <1>. HIDE DEF st
  <1>. QED  BY <1>3, <1>4, <1>5, Zenon DEF UpsertsSaid

-----------------------------------------------------------------------------
(* The arguments of the behaviours *)

\* An object is a function from some of the names to values.
LEMMA ObjectValues ==
    ASSUME NEW names, NEW Values, NEW obj \in Objects(names, Values)
    PROVE  DOMAIN obj \subseteq names /\ \A k \in DOMAIN obj : obj[k] \in Values
  BY DEF Objects

\* Every member of the objects is read from its literal.
LEMMA LiteralRead ==
    ASSUME NEW value \in JsonValues
    PROVE  LET lit == value_to_sql_str(value)
               nested == value.type = "array" /\ "[" \in Range(Inner(value.dump))
           IN CASE value.type \in {"null", "number"} -> lit = value.dump
                [] value.type = "string" -> <<"\"">> \o Inner(lit) \o <<"\"">> = value.dump
                [] value.type = "object" -> Inner(lit) = value.dump
                [] value.type = "array" ->
                   ("[" \notin Range(lit) /\ <<"[">> \o Inner(Inner(lit)) \o <<"]">> = value.dump)
                       <=> ~nested
  <1>. DEFINE X == {"null", "1", "x", ",", "2", ":", "[", "]", "{", "}", SingleQuote, DoubleQuote}
              lit == value_to_sql_str(value)
              nested == value.type = "array" /\ "[" \in Range(Inner(value.dump))
              d1 == <<"null">>
              d2 == <<"1">>
              d3 == <<DoubleQuote, "x", DoubleQuote>>
              d4 == <<"[", "1", ",", "2", "]">>
              d5 == <<"[", "[", "1", "]", "]">>
              d6 == <<"{", DoubleQuote, "x", DoubleQuote, ":", "1", "}">>
  <1>1. value \in {[type |-> "null", dump |-> d1], [type |-> "number", dump |-> d2],
                    [type |-> "string", dump |-> d3], [type |-> "array", dump |-> d4],
                    [type |-> "array", dump |-> d5], [type |-> "object", dump |-> d6]}
    BY Zenon DEF JsonValues, DoubleQuote
  <1>2. /\ SingleQuote \in X /\ DoubleQuote \in X
        /\ "[" \in X /\ "]" \in X /\ "{" \in X /\ "}" \in X
        /\ "1" \in X /\ "x" \in X /\ "," \in X /\ "2" \in X /\ ":" \in X
    OBVIOUS
  <1>. HIDE DEF X
  <1>3. d3 = Around(DoubleQuote, <<"x">>, DoubleQuote)
    BY EndsThree, Zenon
  <1>4. d4 = Around("[", <<"1", ",", "2">>, "]") /\ d5 = Around("[", <<"[", "1", "]">>, "]")
    <2>1. d4 = Around("[", <<"1", ",", "2">>, "]")
      BY EndsFive, Zenon
    <2>2. d5 = Around("[", <<"[", "1", "]">>, "]")
      BY EndsFive, Zenon
    <2>. QED  BY <2>1, <2>2, Zenon
  <1>5. /\ <<"x">> \in Seq(X) /\ <<"1", ",", "2">> \in Seq(X) /\ <<"[", "1", "]">> \in Seq(X)
        /\ d6 \in Seq(X)
    BY <1>2, DumpChars, Zenon
  <1>. HIDE DEF d1, d2, d3, d4, d5, d6
  <1>6. /\ value.type \in {"null", "number", "string", "array", "object"}
        /\ value.type = "string" => value.dump = d3
        /\ value.type = "array" => value.dump = d4 \/ value.dump = d5
        /\ value.type = "object" => value.dump = d6
    BY <1>1
  <1>7. ASSUME value.type \in {"null", "number"} PROVE lit = value.dump
    BY <1>7, Zenon DEF value_to_sql_str
  <1>8. ASSUME value.type = "string" PROVE Around(DoubleQuote, Inner(lit), DoubleQuote) = value.dump
    <2>1. value.dump = Around(DoubleQuote, <<"x">>, DoubleQuote)
      BY <1>3, <1>6, <1>8, Zenon
    <2>. QED  BY <1>2, <1>5, <1>8, <2>1, StringLiteral, Zenon
  <1>9. ASSUME value.type = "object" PROVE Inner(lit) = value.dump
    <2>1. value.dump \in Seq(X)
      BY <1>5, <1>6, <1>9, Zenon
    <2>. QED  BY <1>2, <1>9, <2>1, ObjectLiteral, Zenon
  <1>10. ASSUME value.type = "array"
         PROVE  ("[" \notin Range(lit) /\ Around("[", Inner(Inner(lit)), "]") = value.dump)
                    <=> ~nested
    <2>1. PICK m \in Seq(X) : value.dump = Around("[", m, "]")
      BY <1>4, <1>5, <1>6, <1>10, Zenon
    <2>2. ("[" \notin Range(lit) /\ Around("[", Inner(Inner(lit)), "]") = value.dump)
              <=> "[" \notin Range(Inner(value.dump))
      BY <1>2, <1>10, <2>1, ArrayLiteral, Zenon
    <2>. QED  BY <1>10, <2>2, Zenon
  <1>11. /\ "string" \notin {"null", "number"} /\ "object" \notin {"null", "number", "string"}
         /\ "array" \notin {"null", "number", "string", "object"}
    OBVIOUS
  <1>. HIDE DEF lit, nested
  <1>. QED  BY <1>6, <1>7, <1>8, <1>9, <1>10, <1>11, Zenon DEF DoubleQuote, Around, lit, nested

\* What LiteralsRead says of the arguments.
LEMMA LiteralsReadHolds == ASSUME kind = "sql" => args \in SqlArgs PROVE LiteralsRead
  <1>. SUFFICES ASSUME kind = "sql" PROVE LiteralsRead
    BY Zenon DEF LiteralsRead
  <1>1. args.obj \in Objects({"a", "b", "c"}, JsonValues)
    BY DEF SqlArgs
  <1>2. \A k \in DOMAIN args.obj : args.obj[k] \in JsonValues
    BY <1>1, ObjectValues, Zenon
  <1>. QED  BY <1>2, LiteralRead, Zenon DEF LiteralsRead

\* What InListsAgree says, for texts of any length.
LEMMA InListsAgreeHolds ==
    ASSUME Inductive, kind = "list" => text \in Seq({"x", "y", " ", ","}) PROVE InListsAgree
  <1>. SUFFICES ASSUME kind = "list" PROVE InListsAgree
    BY Zenon DEF InListsAgree
  <1>. DEFINE X == {"x", "y", " ", ","}
              words == split(text, {" ", ","})
  <1>1. text \in Seq(X)
    BY Zenon
  <1>2. DoubleQuote \notin X
    BY Zenon DEF DoubleQuote
  <1>. HIDE DEF X
  <1>3. \A n \in DOMAIN words : words[n] = <<>> =>
            \/ n = 1 /\ (text = <<>> \/ text[1] \in {" ", ","})
            \/ n = Len(words) /\ text[Len(text)] \in {" ", ","}
    BY <1>1, SplitWords, Zenon
  <1>. QED  BY <1>1, <1>2, <1>3, InListsAlike, Zenon DEF InListsAgree

\* The columns of a conflict are different names.
KeysOf(D, keys) ==
    /\ Range(keys) # {} /\ Range(keys) \subseteq D /\ Once(keys, Range(keys))
    /\ Len(keys) = 2 => <<keys[1], keys[2]>> = keys
    /\ Len(keys) = 3 => <<keys[1], keys[2], keys[3]>> = keys

\* One, two and three different columns.
LEMMA FewKeys ==
    ASSUME NEW D, NEW a \in D, NEW b \in D, NEW c \in D, a # b, a # c, b # c
    PROVE  KeysOf(D, <<a>>) /\ KeysOf(D, <<b, a>>) /\ KeysOf(D, <<c, b, a>>)
  <1>1. KeysOf(D, <<a>>)
    <2>1. Once(<<a>>, {a}) /\ Range(<<a>>) = {a} /\ Len(<<a>>) = 1
      BY DEF Once, Range
    <2>. QED  BY <2>1 DEF KeysOf
  <1>2. KeysOf(D, <<b, a>>)
    <2>. DEFINE s == <<b, a>>
    <2>1. s \in Seq({a, b}) /\ Len(s) = 2 /\ DOMAIN s = 1..2 /\ s[1] = b /\ s[2] = a
      OBVIOUS
    <2>2. s = <<s[1], s[2]>>
      OBVIOUS
    <2>. HIDE DEF s
    <2>3. 1..2 = {1, 2}
      OBVIOUS
    <2>4. {s[n] : n \in 1..2} = {a, b}
      BY <2>1, <2>3
    <2>5. Once(s, {a, b}) /\ Range(s) = {a, b}
      BY <2>1, <2>3, <2>4 DEF Once, Range
    <2>. QED  BY <2>1, <2>2, <2>5 DEF KeysOf, s
  <1>3. KeysOf(D, <<c, b, a>>)
    <2>. DEFINE s == <<c, b, a>>
    <2>1. s \in Seq({a, b, c}) /\ Len(s) = 3 /\ DOMAIN s = 1..3 /\ s[1] = c /\ s[2] = b /\ s[3] = a
      OBVIOUS
    <2>2. s = <<s[1], s[2], s[3]>>
      OBVIOUS
    <2>. HIDE DEF s
    <2>3. 1..3 = {1, 2, 3}
      OBVIOUS
    <2>4. {s[n] : n \in 1..3} = {a, b, c}
      BY <2>1, <2>3
    <2>5. Once(s, {a, b, c}) /\ Range(s) = {a, b, c}
      BY <2>1, <2>3, <2>4 DEF Once, Range
    <2>. QED  BY <2>1, <2>2, <2>5 DEF KeysOf, s
  <1>. QED  BY <1>1, <1>2, <1>3

\* The literals of the values of the arguments.
LEMMA ValuesTagged == LiteralsIn(JsonValues)
  <1>. DEFINE q == "\""
              X == {"null", "1", "x", ",", "2", ":", "[", "]", "{", "}", q}
              T == {"null", "number", "boolean", "string", "array", "object"}
              d1 == <<"null">>
              d2 == <<"1">>
              d3 == <<q, "x", q>>
              d4 == <<"[", "1", ",", "2", "]">>
              d5 == <<"[", "[", "1", "]", "]">>
              d6 == <<"{", q, "x", q, ":", "1", "}">>
  <1>. SUFFICES ASSUME NEW value \in JsonValues PROVE Literal(value)[1] = "lit"
    BY Zenon DEF LiteralsIn
  <1>1. value \in {[type |-> "null", dump |-> d1], [type |-> "number", dump |-> d2],
                    [type |-> "string", dump |-> d3], [type |-> "array", dump |-> d4],
                    [type |-> "array", dump |-> d5], [type |-> "object", dump |-> d6]}
    BY Zenon DEF JsonValues
  <1>2. /\ q \in X /\ "[" \in X /\ "]" \in X /\ "{" \in X /\ "}" \in X /\ "null" \in X
        /\ "1" \in X /\ "x" \in X /\ "," \in X /\ "2" \in X /\ ":" \in X
    OBVIOUS
  <1>. HIDE DEF X
  <1>3. /\ d1 \in Seq(X) /\ d2 \in Seq(X) /\ d3 \in Seq(X)
    BY <1>2, DumpChars, Zenon
  <1>4. d4 \in Seq(X) /\ d5 \in Seq(X)
    BY <1>2, DumpChars, Zenon
  <1>5. d6 \in Seq(X)
    BY <1>2, DumpChars, Zenon
  <1>. HIDE DEF d1, d2, d3, d4, d5, d6
  <1>6. /\ value.type \in T
        /\ \/ value.dump = d1 \/ value.dump = d2 \/ value.dump = d3
           \/ value.dump = d4 \/ value.dump = d5 \/ value.dump = d6
    BY <1>1
  <1>7. value.dump \in Seq(X)
    BY <1>3, <1>4, <1>5, <1>6, Zenon
  <1>. QED  BY <1>6, <1>7, LiteralTagged, Zenon

\* Objects of the arguments have their names in the order.
LEMMA ObjectConditions ==
    ASSUME NEW names, NEW Values, NEW obj \in Objects(names, Values),
           names \subseteq {"a", "b", "c"}, Values \subseteq JsonValues
    PROVE  ObjectIn({"a", "b", "c"}, JsonValues, obj)
  <1>1. DOMAIN obj \subseteq names /\ \A k \in DOMAIN obj : obj[k] \in Values
    BY ObjectValues, Zenon
  <1>2. Ordered(obj)
    BY <1>1, NamesAssumption, Zenon DEF Ordered, Range
  <1>. QED  BY <1>1, <1>2, ValuesTagged, Zenon DEF ObjectIn

\* What the arguments are.
LEMMA SqlArguments ==
    ASSUME args \in SqlArgs
    PROVE  /\ ObjectIn({"a", "b", "c"}, JsonValues, args.obj)
           /\ ObjectIn({"a", "b", "c"}, JsonValues, args.wheres)
           /\ KeysOf({"a", "b", "c"}, args.key_wheres)
  <1>. DEFINE D == {"a", "b", "c"}
              Values == {v \in JsonValues : v.type \in {"null", "string"}}
              keys == args.key_wheres
  <1>1. args.obj \in Objects(D, JsonValues) /\ args.wheres \in Objects({"a", "b"}, Values)
    BY DEF SqlArgs
  <1>2. keys \in {<<"a">>, <<"b", "a">>, <<"c", "b", "a">>}
    BY Zenon DEF SqlArgs
  <1>3. {"a", "b"} \subseteq D /\ Values \subseteq JsonValues /\ D \subseteq D /\ JsonValues \subseteq JsonValues
    BY Zenon
  <1>. HIDE DEF Values
  <1>4. ObjectIn(D, JsonValues, args.obj) /\ ObjectIn(D, JsonValues, args.wheres)
    BY <1>1, <1>3, ObjectConditions, Zenon
  <1>5. "a" \in D /\ "b" \in D /\ "c" \in D /\ "a" # "b" /\ "a" # "c" /\ "b" # "c"
    OBVIOUS
  <1>. HIDE DEF D, keys
  <1>6. KeysOf(D, <<"a">>) /\ KeysOf(D, <<"b", "a">>) /\ KeysOf(D, <<"c", "b", "a">>)
    BY <1>5, FewKeys, Zenon
  <1>7. KeysOf(D, keys)
    BY <1>2, <1>6, Zenon
  <1>. QED  BY <1>4, <1>7, Zenon DEF D, keys

\* What UpdateReads says of the arguments.
LEMMA UpdateReadsHolds == ASSUME Inductive, kind = "sql" => args \in SqlArgs PROVE UpdateReads
  <1>. SUFFICES ASSUME kind = "sql", args \in SqlArgs PROVE UpdateReads
    BY Zenon DEF UpdateReads
  <1>. DEFINE D == {"a", "b", "c"}
              V == JsonValues
              obj == args.obj
              wheres == args.wheres
  <1>1. ObjectIn(D, V, obj) /\ ObjectIn(D, V, wheres)
    BY SqlArguments, Zenon
  <1>. HIDE DEF D, V, obj, wheres
  <1>2. UpdateSaid(update_json(obj, wheres), obj, wheres) /\ UpdateSaid(update_map(obj, wheres), obj, wheres)
    BY <1>1, UpdatesMade, Zenon
  <1>3. \A k : DOMAIN wheres = {k} => UpdateSaid(update_where(obj, k, wheres[k]), obj, wheres)
    BY <1>1, UpdateWhereMade, Zenon
  <1>4. ASSUME NEW outcomes \in Updates(args) PROVE UpdateSaid(outcomes, obj, wheres)
    <2>1. \/ outcomes = update_json(obj, wheres) \/ outcomes = update_map(obj, wheres)
          \/ \E k : DOMAIN wheres = {k} /\ outcomes = update_where(obj, k, wheres[k])
      BY Zenon DEF Updates, obj, wheres
    <2>. QED  BY <1>2, <1>3, <2>1, Zenon
  <1>. QED  BY <1>4, Zenon DEF UpdateReads, UpdateSaid, obj, wheres

\* Every overload of upsert says what DoUpdate does.
LEMMA UpsertsHold ==
    ASSUME Inductive, args \in SqlArgs, DOMAIN args.obj # {}, NEW outcomes \in Upserts(args)
    PROVE  UpsertsSaid(outcomes, args.obj, Range(args.key_wheres), args.except_key)
  <1>. DEFINE D == {"a", "b", "c"}
              V == JsonValues
              obj == args.obj
              keys == args.key_wheres
              ex == args.except_key
  <1>1. MembersIn(D, V, obj)
    BY SqlArguments, Zenon DEF ObjectIn, MembersIn
  <1>2. KeysOf(D, keys)
    BY SqlArguments, Zenon
  <1>3. outcomes = DoUpdate(obj, keys, ex)
    BY <1>2, Zenon DEF Upserts, KeysOf, upsert_update_n, upsert_update_2, upsert_update_3
  <1>. HIDE DEF D, V, obj, keys, ex
  <1>4. Range(keys) # {} /\ Range(keys) \subseteq D /\ Once(keys, Range(keys))
    BY <1>2, Zenon DEF KeysOf
  <1>5. UpsertsSaid(DoUpdate(obj, keys, ex), obj, Range(keys), ex)
    BY <1>1, <1>4, DoUpdateMade, Zenon
  <1>. QED  BY <1>3, <1>5, Zenon DEF obj, keys, ex

\* What UpsertReads says of the arguments.
LEMMA UpsertReadsHolds == ASSUME Inductive, kind = "sql" => args \in SqlArgs PROVE UpsertReads
  <1>. SUFFICES ASSUME args \in SqlArgs, DOMAIN args.obj # {} PROVE UpsertReads
    BY Zenon DEF UpsertReads
  <1>1. \A outcomes \in Upserts(args) :
            UpsertsSaid(outcomes, args.obj, Range(args.key_wheres), args.except_key)
    BY UpsertsHold, Zenon
  <1>. QED  BY <1>1, Zenon DEF UpsertReads, UpsertsSaid, UpsertSaid

\* What InsertReads says of the arguments.
LEMMA InsertReadsHolds == ASSUME Inductive, kind = "sql" => args \in SqlArgs PROVE InsertReads
  <1>. SUFFICES ASSUME args \in SqlArgs, DOMAIN args.obj # {} PROVE InsertReads
    BY Zenon DEF InsertReads
  <1>. DEFINE D == {"a", "b", "c"}
              V == JsonValues
              obj == args.obj
              keys == args.key_wheres
              ex == args.except_key
              All == obj_to_insert_sql_str(obj) \cup obj_to_upsert_nothing_sql_str(obj, keys)
                       \cup UNION Upserts(args)
  <1>1. MembersIn(D, V, obj)
    BY SqlArguments, Zenon DEF ObjectIn, MembersIn
  <1>2. Range(keys) # {} /\ Range(keys) \subseteq D /\ Once(keys, Range(keys))
    BY SqlArguments, Zenon DEF KeysOf
  <1>3. \A outcomes \in Upserts(args) : \A st \in outcomes \ {Died} : InsertSaid(st, obj)
    BY UpsertsHold, Zenon DEF UpsertsSaid
  <1>4. obj_to_insert_sql_str(obj) = {Insert(obj)} /\ obj_to_upsert_nothing_sql_str(obj, keys) = {NothingOf(obj, keys)}
    BY Zenon DEF obj_to_insert_sql_str, obj_to_upsert_nothing_sql_str, NothingOf
  <1>. HIDE DEF D, V, obj, keys
  <1>5. InsertSaid(Insert(obj), obj) /\ InsertSaid(NothingOf(obj, keys), obj)
    BY <1>1, <1>2, InsertsMade, Zenon
  <1>6. \A st \in All \ {Died} : InsertSaid(st, obj)
    BY <1>3, <1>4, <1>5, Zenon
  <1>. QED  BY <1>6, Zenon DEF InsertReads, InsertSaid, obj, keys
=============================================================================
