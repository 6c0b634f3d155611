-------------------------- MODULE WaitStuffProofs --------------------------
(***************************************************************************)
(* Proofs about the helpers of wait_stuff.hpp.  The first part is about    *)
(* those with a channel (Spec, of WaitChannel), for any finite set of      *)
(* functions, any capacity of the channel and any number of threads; the   *)
(* second about those without (WaitSimple), for any number of functions,   *)
(* and about a call of any helper (CallSpec).                              *)
(***************************************************************************)
EXTENDS MCWaitStuff, FiniteSetTheorems, TLAPS

-----------------------------------------------------------------------------
(* Sequences and counting *)

\* What taking the first item out of the channel does to the two sequences.
LEMMA MoveHead ==
    ASSUME NEW S, NEW c \in Seq(S), NEW p \in Seq(S), c # <<>>
    PROVE  /\ Head(c) = c[1] /\ Head(c) \in S
           /\ Tail(c) \in Seq(S) /\ Len(Tail(c)) = Len(c) - 1
           /\ \A n \in DOMAIN Tail(c) : n + 1 \in DOMAIN c /\ Tail(c)[n] = c[n + 1]
           /\ \A n \in DOMAIN c : n # 1 => n - 1 \in DOMAIN Tail(c)
           /\ Append(p, Head(c)) \in Seq(S) /\ Len(Append(p, Head(c))) = Len(p) + 1
           /\ \A n \in DOMAIN p : n \in DOMAIN Append(p, Head(c)) /\ Append(p, Head(c))[n] = p[n]
           /\ Append(p, Head(c))[Len(p) + 1] = Head(c)
           /\ Len(p) + 1 \in DOMAIN Append(p, Head(c))
           /\ \A n \in DOMAIN Append(p, Head(c)) : n \in DOMAIN p \/ n = Len(p) + 1
  OBVIOUS

\* What appending does to the channel.
LEMMA AppendItem ==
    ASSUME NEW S, NEW c \in Seq(S), NEW f \in S
    PROVE  /\ Append(c, f) \in Seq(S) /\ Len(Append(c, f)) = Len(c) + 1
           /\ \A n \in DOMAIN c : n \in DOMAIN Append(c, f) /\ Append(c, f)[n] = c[n]
           /\ Append(c, f)[Len(c) + 1] = f
           /\ Len(c) + 1 \in DOMAIN Append(c, f)
           /\ \A n \in DOMAIN Append(c, f) : n \in DOMAIN c \/ n = Len(c) + 1
  OBVIOUS

\* A sequence without repetitions that is as long as the set is large holds every
\* element of it.
LEMMA AllPresent ==
    ASSUME NEW p \in Seq(Fns), Len(p) = count,
           \A m, n \in DOMAIN p : p[m] = p[n] => m = n
    PROVE  \A f \in Fns : \E n \in DOMAIN p : p[n] = f
  <1>. DEFINE R == {p[n] : n \in DOMAIN p}
  <1>1. Len(p) \in Nat /\ DOMAIN p = 1..Len(p) /\ \A n \in DOMAIN p : p[n] \in Fns
    OBVIOUS
  <1>2. IsFiniteSet(1..Len(p)) /\ Cardinality(1..Len(p)) = Len(p)
    <2>1. 1 \in Int /\ Len(p) \in Int
      BY <1>1
    <2>2. Cardinality(1..Len(p)) = IF 1 > Len(p) THEN 0 ELSE Len(p) - 1 + 1
      BY <2>1, FS_Interval, Zenon
    <2>3. IsFiniteSet(1..Len(p))
      BY <2>1, FS_Interval
    <2>. QED  BY <1>1, <2>2, <2>3
  <1>3. p \in Bijection(1..Len(p), R)
    BY <1>1 DEF Bijection, Injection, Surjection, IsInjective
  <1>4. IsFiniteSet(R) /\ Cardinality(R) = Len(p)
    BY <1>2, <1>3, FS_Bijection, Zenon DEF ExistsBijection
  <1>5. R \subseteq Fns
    BY <1>1
  <1>6. R = Fns
    BY <1>4, <1>5, FnsAssumption, FS_Subset DEF count
  <1>. QED  BY <1>6

-----------------------------------------------------------------------------
(* Types *)

CallerPhases == {"launch", "pop", "close", "returned", "threw"}

\* A step takes an item out, is another step of the caller, or is one of a fiber.
LEMMA NextCases ==
    ASSUME Next
    PROVE  \/ PopFirst \/ PopSuccess \/ PopAll \/ PopUntilError
           \/ Launch \/ CloseFirst \/ PopClosed
           \/ \E f \in Fns : Run(f) \/ Push(f) \/ ReadLimit(f) \/ WriteLimit(f) \/ CloseFull(f)
  BY DEF Next, CallerNext, FiberNext

\* The four pops differ in the phase that follows.
LEMMA TakeCases ==
    ASSUME PopFirst \/ PopSuccess \/ PopAll \/ PopUntilError
    PROVE  cpc = "pop" /\ \E phase \in CallerPhases : Take(phase)
  <1>1. CASE PopFirst
    BY <1>1 DEF PopFirst, CallerPhases
  <1>2. CASE PopSuccess
    BY <1>2 DEF PopSuccess, CallerPhases
  <1>3. CASE PopAll
    BY <1>3 DEF PopAll, CallerPhases
  <1>4. CASE PopUntilError
    BY <1>4 DEF PopUntilError, CallerPhases
  <1>. QED  BY <1>1, <1>2, <1>3, <1>4

\* The values the variables take: no push overfills the channel and no pop reads an
\* empty one (buffered_channel push and value_pop of wait_stuff.hpp).
THEOREM TypeCorrect == Spec => []TypeOK
  <1>1. Init => TypeOK
    <2>. SUFFICES ASSUME Init PROVE TypeOK
      OBVIOUS
    <2>1. count \in Int
      BY FnsAssumption, FS_CardinalityType DEF count
    <2>2. <<>> \in Seq(Fns) /\ Len(<<>>) = 0
      OBVIOUS
    <2>. QED  BY <2>1, <2>2, CapacityAssumption DEF Init, TypeOK
  <1>2. TypeOK /\ [Next]_vars => TypeOK'
    <2>. SUFFICES ASSUME TypeOK, [Next]_vars PROVE TypeOK'
      OBVIOUS
    <2>. USE DEF TypeOK, FiberGoto
    <2>1. CASE PopFirst \/ PopSuccess \/ PopAll \/ PopUntilError
      <3>1. PICK phase \in CallerPhases : Take(phase)
        BY <2>1, TakeCases
      <3>2. /\ popped' \in Seq(Fns) /\ chan' \in Seq(Fns) /\ Len(chan') = Len(chan) - 1
        BY <3>1, MoveHead DEF Take
      <3>3. Len(chan') <= Capacity
        <4>1. Len(chan) \in Nat
          OBVIOUS
        <4>. QED  BY <3>2, <4>1, CapacityAssumption
      <3>. QED  BY <3>1, <3>2, <3>3 DEF Take, CallerPhases
    <2>2. CASE Launch
      BY <2>2 DEF Launch
    <2>3. CASE CloseFirst
      BY <2>3 DEF CloseFirst
    <2>4. CASE PopClosed
      BY <2>4 DEF PopClosed
    <2>5. ASSUME NEW f \in Fns, Run(f) PROVE TypeOK'
      BY <2>5 DEF Run
    <2>6. ASSUME NEW f \in Fns, Push(f) PROVE TypeOK'
      <3>1. CASE chan' = chan
        BY <2>6, <3>1, Zenon DEF Push
      <3>2. CASE chan' = Append(chan, f) /\ Len(chan) < Capacity
        <4>1. chan' \in Seq(Fns) /\ Len(chan') = Len(chan) + 1 /\ Len(chan) \in Nat
          BY <3>2, AppendItem
        <4>2. Len(chan') <= Capacity
          BY <3>2, <4>1, CapacityAssumption
        <4>. QED  BY <2>6, <4>1, <4>2, Zenon DEF Push
      <3>. QED  BY <2>6, <3>1, <3>2 DEF Push
    <2>7. ASSUME NEW f \in Fns, ReadLimit(f) PROVE TypeOK'
      BY <2>7 DEF ReadLimit
    <2>8. ASSUME NEW f \in Fns, WriteLimit(f) PROVE TypeOK'
      BY <2>8 DEF WriteLimit
    <2>9. ASSUME NEW f \in Fns, CloseFull(f) PROVE TypeOK'
      BY <2>9 DEF CloseFull
    <2>10. CASE UNCHANGED vars
      BY <2>10 DEF vars
    <2>. QED  BY <2>1, <2>2, <2>3, <2>4, <2>5, <2>6, <2>7, <2>8, <2>9, <2>10, NextCases
  <1>. QED  BY <1>1, <1>2, PTL DEF Spec

-----------------------------------------------------------------------------
(* Closing the channel *)

\* The functions that have written limit_ back.
Counted == {f \in Fns : fpc[f] \in {"close", "done"}}

\* The helper decides which phases there are, and a function has an outcome once
\* it has run.
PhaseInv ==
    /\ cpc = "close" => mode \in FirstModes
    /\ \A f \in Fns : fpc[f] \in {"read_limit", "write_limit", "close"} => mode \in AllModes
    /\ \A f \in Fns : outcome[f] = "none" <=> fpc[f] \in {"new", "ready"}

\* Racing decrements of limit_ may lose one another, so limit_ and what a fiber has
\* read of it may be too large but never too small: they count at least the functions
\* that have not written it back.  Zero is written by the last of them at the earliest.
CountInv ==
    mode \in AllModes =>
        /\ limit_ + Cardinality(Counted) >= count
        /\ \A f \in Fns : fpc[f] = "write_limit" => read[f] + Cardinality(Counted) >= count
        /\ closed \/ (\E f \in Fns : fpc[f] = "close") => Counted = Fns

\* PhaseInv is inductive.
LEMMA PhaseStep ==
    ASSUME TypeOK, PhaseInv, [Next]_vars
    PROVE  PhaseInv'
  <1>. USE DEF TypeOK, PhaseInv, FiberGoto
  <1>1. CASE PopFirst \/ PopSuccess
    BY <1>1 DEF PopFirst, PopSuccess, Take, FirstModes
  <1>2. CASE PopAll \/ PopUntilError
    BY <1>2 DEF PopAll, PopUntilError, Take
  <1>3. CASE Launch
    BY <1>3 DEF Launch
  <1>4. CASE CloseFirst \/ PopClosed
    BY <1>4 DEF CloseFirst, PopClosed
  <1>5. ASSUME NEW f \in Fns, Run(f) PROVE PhaseInv'
    BY <1>5 DEF Run
  <1>6. ASSUME NEW f \in Fns, Push(f) PROVE PhaseInv'
    BY <1>6, Zenon DEF Push
  <1>7. ASSUME NEW f \in Fns, ReadLimit(f) \/ WriteLimit(f) \/ CloseFull(f) PROVE PhaseInv'
    BY <1>7, Zenon DEF ReadLimit, WriteLimit, CloseFull
  <1>8. CASE UNCHANGED vars
    BY <1>8 DEF vars
  <1>. QED  BY <1>1, <1>2, <1>3, <1>4, <1>5, <1>6, <1>7, <1>8, NextCases

\* Counted is a finite set, and counting all functions is having all of them.
LEMMA CountedSize ==
    ASSUME NEW S, S \subseteq Fns
    PROVE  /\ IsFiniteSet(S) /\ Cardinality(S) \in Nat /\ count \in Nat
           /\ Cardinality(S) <= count
           /\ Cardinality(S) >= count => S = Fns
           /\ \A f \in Fns \ S : Cardinality(S \cup {f}) = Cardinality(S) + 1
  <1>1. IsFiniteSet(S) /\ Cardinality(S) <= count /\ (Cardinality(S) = count => S = Fns)
    BY FnsAssumption, FS_Subset DEF count
  <1>2. Cardinality(S) \in Nat /\ count \in Nat
    BY <1>1, FnsAssumption, FS_CardinalityType DEF count
  <1>3. \A f \in Fns \ S : Cardinality(S \cup {f}) = Cardinality(S) + 1
    BY <1>1, FS_AddElement
  <1>. QED  BY <1>1, <1>2, <1>3

\* Steps that count no function and leave limit_, what was read of it and the channel's
\* being open alone.
LEMMA CountFrame ==
    ASSUME CountInv, UNCHANGED <<mode, limit_, closed>>, Counted' = Counted,
           \A f \in Fns : fpc'[f] = "write_limit" => fpc[f] = "write_limit" /\ read'[f] = read[f],
           \A f \in Fns : fpc'[f] = "close" => fpc[f] = "close"
    PROVE  CountInv'
  BY DEF CountInv, count

\* CountInv is inductive, also when decrements overlap.
LEMMA CountStep ==
    ASSUME TypeOK, PhaseInv, CountInv, [Next]_vars
    PROVE  CountInv'
  <1>. USE DEF TypeOK, FiberGoto
  <1>1. CASE PopFirst \/ PopSuccess \/ PopAll \/ PopUntilError
    <2>1. UNCHANGED <<mode, fpc, closed, limit_, read>>
      BY <1>1, TakeCases DEF Take
    <2>. QED  BY <2>1, CountFrame DEF Counted
  <1>2. CASE Launch
    <2>1. UNCHANGED <<mode, closed, limit_, read>>
      BY <1>2 DEF Launch
    <2>2. Counted' = Counted /\ \A f \in Fns : fpc'[f] \in {"write_limit", "close"} => fpc'[f] = fpc[f]
      BY <1>2 DEF Launch, Counted
    <2>. QED  BY <2>1, <2>2, CountFrame
  <1>3. CASE CloseFirst
    <2>1. mode' \in FirstModes
      BY <1>3 DEF CloseFirst, PhaseInv
    <2>. QED  BY <2>1 DEF CountInv, FirstModes, AllModes
  <1>4. CASE PopClosed
    <2>1. UNCHANGED <<mode, fpc, closed, limit_, read>>
      BY <1>4 DEF PopClosed
    <2>. QED  BY <2>1, CountFrame DEF Counted
  <1>5. ASSUME NEW f \in Fns, Run(f) PROVE CountInv'
    <2>1. UNCHANGED <<mode, closed, limit_, read>>
      BY <1>5 DEF Run
    <2>2. Counted' = Counted /\ \A g \in Fns : fpc'[g] \in {"write_limit", "close"} => fpc'[g] = fpc[g]
      BY <1>5 DEF Run, Counted
    <2>. QED  BY <2>1, <2>2, CountFrame
  <1>6. ASSUME NEW f \in Fns, Push(f) PROVE CountInv'
    <2>1. UNCHANGED <<mode, closed, limit_, read>>
      BY <1>6 DEF Push
    <2>2. CASE mode \notin AllModes
      BY <2>1, <2>2 DEF CountInv
    <2>3. CASE mode \in AllModes
      <3>1. ~closed
        BY <1>6, <2>3 DEF Push, CountInv, Counted
      <3>2. fpc[f] = "push" /\ fpc' = [fpc EXCEPT ![f] = "read_limit"]
        BY <1>6, <2>3, <3>1 DEF Push
      <3>3. Counted' = Counted /\ \A g \in Fns : fpc'[g] \in {"write_limit", "close"} => fpc'[g] = fpc[g]
        BY <3>2 DEF Counted
      <3>. QED  BY <2>1, <3>3, CountFrame
    <2>. QED  BY <2>2, <2>3
  <1>7. ASSUME NEW f \in Fns, ReadLimit(f) PROVE CountInv'
    <2>1. UNCHANGED <<mode, closed, limit_>> /\ read' = [read EXCEPT ![f] = limit_]
          /\ fpc[f] = "read_limit" /\ fpc' = [fpc EXCEPT ![f] = "write_limit"]
      BY <1>7 DEF ReadLimit
    <2>2. Counted' = Counted
      BY <2>1 DEF Counted
    <2>3. \A g \in Fns : fpc'[g] = "close" => fpc[g] = "close"
      BY <2>1
    <2>4. \A g \in Fns : \/ g = f /\ read'[g] = limit_
                         \/ g # f /\ fpc'[g] = fpc[g] /\ read'[g] = read[g]
      BY <2>1
    <2>. QED  BY <2>1, <2>2, <2>3, <2>4 DEF CountInv, count
  <1>8. ASSUME NEW f \in Fns, WriteLimit(f) PROVE CountInv'
    <2>. SUFFICES ASSUME mode \in AllModes PROVE CountInv'
      BY <1>8 DEF WriteLimit, CountInv
    <2>1. UNCHANGED <<mode, closed, read>> /\ limit_' = read[f] - 1 /\ fpc[f] = "write_limit"
          /\ fpc' = [fpc EXCEPT ![f] = IF read[f] - 1 = 0 THEN "close" ELSE "done"]
      BY <1>8 DEF WriteLimit
    <2>2. f \notin Counted /\ Counted' = Counted \cup {f}
      BY <2>1 DEF Counted
    <2>3. Counted \subseteq Fns /\ Counted' \subseteq Fns
      BY DEF Counted
    <2>4. /\ Cardinality(Counted) \in Nat /\ count \in Nat
          /\ Cardinality(Counted') = Cardinality(Counted) + 1
          /\ Cardinality(Counted') >= count => Counted' = Fns
      <3>1. Cardinality(Counted) \in Nat /\ count \in Nat
        BY <2>3, CountedSize
      <3>2. Cardinality(Counted') = Cardinality(Counted) + 1
        BY <2>2, <2>3, CountedSize
      <3>3. Cardinality(Counted') >= count => Counted' = Fns
        BY <2>3, CountedSize
      <3>. QED  BY <3>1, <3>2, <3>3
    <2>5. read[f] \in Int /\ read[f] + Cardinality(Counted) >= count
      BY <2>1 DEF CountInv
    <2>6. limit_' + Cardinality(Counted') >= count
      BY <2>1, <2>4, <2>5
    <2>7. \A g \in Fns : fpc'[g] = "write_limit" => read'[g] + Cardinality(Counted') >= count
      <3>. SUFFICES ASSUME NEW g \in Fns, fpc'[g] = "write_limit"
                    PROVE  read'[g] + Cardinality(Counted') >= count
        OBVIOUS
      <3>1. fpc[g] = "write_limit" /\ read'[g] = read[g] /\ read[g] \in Int
        BY <2>1
      <3>2. read[g] + Cardinality(Counted) >= count
        BY <3>1 DEF CountInv
      <3>. QED  BY <2>4, <3>1, <3>2
    <2>8. closed' \/ (\E g \in Fns : fpc'[g] = "close") => Counted' = Fns
      <3>1. CASE closed \/ \E g \in Fns : fpc[g] = "close"
        BY <2>2, <3>1 DEF CountInv
      <3>2. CASE read[f] - 1 = 0
        BY <2>4, <2>5, <3>2
      <3>3. CASE ~closed /\ (\A g \in Fns : fpc[g] # "close") /\ read[f] - 1 # 0
        BY <2>1, <3>3
      <3>. QED  BY <3>1, <3>2, <3>3
    <2>9. count' = count
      BY DEF count
    <2>. QED  BY <2>6, <2>7, <2>8, <2>9 DEF CountInv
  <1>9. ASSUME NEW f \in Fns, CloseFull(f) PROVE CountInv'
    <2>1. UNCHANGED <<mode, limit_, read>> /\ fpc[f] = "close"
          /\ fpc' = [fpc EXCEPT ![f] = "done"]
      BY <1>9 DEF CloseFull
    <2>2. Counted' = Counted
      BY <2>1 DEF Counted
    <2>3. \A g \in Fns : fpc'[g] = "write_limit" => fpc[g] = "write_limit"
      BY <2>1
    <2>4. mode \in AllModes => Counted = Fns
      BY <2>1 DEF CountInv
    <2>. QED  BY <2>1, <2>2, <2>3, <2>4 DEF CountInv, count
  <1>10. CASE UNCHANGED vars
    BY <1>10 DEF vars, CountInv, Counted, count
  <1>. QED  BY <1>1, <1>2, <1>3, <1>4, <1>5, <1>6, <1>7, <1>8, <1>9, <1>10, NextCases

\* The two invariants hold throughout.
LEMMA CloseInvariant == Spec => [](PhaseInv /\ CountInv)
  <1>1. Init => PhaseInv /\ CountInv
    <2>. SUFFICES ASSUME Init PROVE PhaseInv /\ CountInv
      OBVIOUS
    <2>1. PhaseInv
      BY DEF Init, PhaseInv
    <2>2. Counted = {} /\ Cardinality(Counted) = 0
      BY FS_EmptySet, Zenon DEF Init, Counted
    <2>3. count \in Nat /\ (count = 0 => Fns = {})
      BY FnsAssumption, FS_CardinalityType, FS_EmptySet DEF count
    <2>4. closed => count = 0
      BY Zenon DEF Init
    <2>5. limit_ = count /\ \A f \in Fns : fpc[f] = "new"
      BY DEF Init
    <2>6. CountInv
      BY <2>2, <2>3, <2>4, <2>5 DEF CountInv
    <2>. QED  BY <2>1, <2>6
  <1>2. TypeOK /\ PhaseInv /\ CountInv /\ [Next]_vars => (PhaseInv /\ CountInv)'
    BY PhaseStep, CountStep
  <1>. QED  BY <1>1, <1>2, TypeCorrect, PTL DEF Spec

\* The channel of a when_all helper is closed only after every function has pushed,
\* on any number of threads and although --limit_ is not atomic (wait_stuff.hpp, the
\* push of nchannel).
THEOREM ClosedOnlyWhenFullCorrect == Spec => []ClosedOnlyWhenFull
  <1>1. CountInv => ClosedOnlyWhenFull
    BY DEF CountInv, ClosedOnlyWhenFull, Counted, Pushed
  <1>. QED  BY <1>1, CloseInvariant, PTL

-----------------------------------------------------------------------------
(* What goes through the channel *)

\* f is in the channel, or the caller has taken it out.
Sent(f) == \/ \E n \in DOMAIN chan : chan[n] = f
           \/ \E n \in DOMAIN popped : popped[n] = f

\* A result is pushed at most once and taken out at most once; only functions that
\* have pushed are in the two sequences; and a when_all helper loses none.
ItemInv ==
    /\ \A m, n \in DOMAIN chan : chan[m] = chan[n] => m = n
    /\ \A m, n \in DOMAIN popped : popped[m] = popped[n] => m = n
    /\ \A m \in DOMAIN chan, n \in DOMAIN popped : chan[m] # popped[n]
    /\ \A f \in Fns : Sent(f) => Pushed(f)
    /\ mode \in AllModes => \A f \in Fns : Pushed(f) => Sent(f)

\* Steps that move no item and after which the same functions have pushed.
LEMMA ItemFrame ==
    ASSUME ItemInv, UNCHANGED <<mode, chan, popped>>, \A f \in Fns : Pushed(f)' <=> Pushed(f)
    PROVE  ItemInv'
  BY DEF ItemInv, Sent

\* Taking an item out moves it to the caller.
LEMMA ItemTake ==
    ASSUME TypeOK, ItemInv, NEW phase, Take(phase)
    PROVE  ItemInv'
  <1>1. /\ chan \in Seq(Fns) /\ popped \in Seq(Fns) /\ chan # <<>>
        /\ popped' = Append(popped, Head(chan)) /\ chan' = Tail(chan)
        /\ UNCHANGED <<mode, fpc>>
    BY DEF Take, TypeOK
  <1>2. /\ Head(chan) = chan[1] /\ 1 \in DOMAIN chan
        /\ \A n \in DOMAIN chan' : n + 1 \in DOMAIN chan /\ chan'[n] = chan[n + 1]
        /\ \A n \in DOMAIN chan : n # 1 => n - 1 \in DOMAIN chan'
    BY <1>1, MoveHead
  <1>3. /\ \A n \in DOMAIN popped : n \in DOMAIN popped' /\ popped'[n] = popped[n]
        /\ Len(popped) + 1 \in DOMAIN popped' /\ popped'[Len(popped) + 1] = chan[1]
        /\ \A n \in DOMAIN popped' : n \in DOMAIN popped \/ n = Len(popped) + 1
    BY <1>1, MoveHead
  <1>4. /\ DOMAIN chan \subseteq Nat \ {0} /\ DOMAIN chan' \subseteq Nat \ {0}
    <2>1. chan' \in Seq(Fns)
      BY <1>1, MoveHead
    <2>. QED  BY <1>1, <2>1
  <1>5. \A m, n \in DOMAIN chan' : chan'[m] = chan'[n] => m = n
    <2>. SUFFICES ASSUME NEW m \in DOMAIN chan', NEW n \in DOMAIN chan', chan'[m] = chan'[n]
                  PROVE  m = n
      OBVIOUS
    <2>1. m + 1 = n + 1
      BY <1>2 DEF ItemInv
    <2>. QED  BY <1>4, <2>1
  <1>6. \A m, n \in DOMAIN popped' : popped'[m] = popped'[n] => m = n
    BY <1>2, <1>3 DEF ItemInv
  <1>7. \A m \in DOMAIN chan', n \in DOMAIN popped' : chan'[m] # popped'[n]
    <2>. SUFFICES ASSUME NEW m \in DOMAIN chan', NEW n \in DOMAIN popped'
                  PROVE  chan'[m] # popped'[n]
      OBVIOUS
    <2>1. m + 1 \in DOMAIN chan /\ chan'[m] = chan[m + 1] /\ m + 1 # 1
      BY <1>2, <1>4
    <2>. QED  BY <1>2, <1>3, <2>1 DEF ItemInv
  <1>8. \A f \in Fns : Sent(f)' <=> Sent(f)
    <2>. SUFFICES ASSUME NEW f \in Fns PROVE Sent(f)' <=> Sent(f)
      OBVIOUS
    <2>1. ASSUME NEW n \in DOMAIN chan, chan[n] = f PROVE Sent(f)'
      <3>1. CASE n = 1
        BY <1>3, <2>1, <3>1 DEF Sent
      <3>2. CASE n # 1
        <4>1. n - 1 \in DOMAIN chan' /\ (n - 1) + 1 = n
          BY <1>2, <1>4, <2>1, <3>2
        <4>2. chan'[n - 1] = f
          BY <1>2, <2>1, <4>1
        <4>. QED  BY <4>1, <4>2 DEF Sent
      <3>. QED  BY <3>1, <3>2
    <2>2. ASSUME NEW n \in DOMAIN popped, popped[n] = f PROVE Sent(f)'
      BY <1>3, <2>2 DEF Sent
    <2>3. ASSUME NEW n \in DOMAIN chan', chan'[n] = f PROVE Sent(f)
      BY <1>2, <2>3 DEF Sent
    <2>4. ASSUME NEW n \in DOMAIN popped', popped'[n] = f PROVE Sent(f)
      BY <1>2, <1>3, <2>4 DEF Sent
    <2>. QED  BY <2>1, <2>2, <2>3, <2>4 DEF Sent
  <1>9. \A f \in Fns : Pushed(f)' <=> Pushed(f)
    BY <1>1 DEF Pushed
  <1>. QED  BY <1>1, <1>5, <1>6, <1>7, <1>8, <1>9 DEF ItemInv

\* A push adds a function that was in neither sequence; one that is refused leaves
\* them alone, and no push of a when_all helper is refused.
LEMMA ItemPush ==
    ASSUME TypeOK, CountInv, ItemInv, NEW f \in Fns, Push(f)
    PROVE  ItemInv'
  <1>1. /\ UNCHANGED <<mode, popped>> /\ fpc[f] = "push"
        /\ \A g \in Fns : g # f => fpc'[g] = fpc[g]
        /\ fpc'[f] \in {"read_limit", "done"}
    BY DEF Push, FiberGoto, TypeOK
  <1>2. ~Pushed(f) /\ Pushed(f)' /\ \A g \in Fns : g # f => (Pushed(g)' <=> Pushed(g))
    BY <1>1 DEF Pushed
  <1>3. ~Sent(f)
    BY <1>2 DEF ItemInv
  <1>4. CASE closed /\ chan' = chan
    <2>1. mode \notin AllModes
      BY <1>1, <1>4 DEF CountInv, Counted
    <2>2. \A g \in Fns : Sent(g)' <=> Sent(g)
      BY <1>1, <1>4 DEF Sent
    <2>. QED  BY <1>1, <1>2, <1>4, <2>1, <2>2 DEF ItemInv
  <1>5. CASE chan' = Append(chan, f)
    <2>1. /\ \A n \in DOMAIN chan : n \in DOMAIN chan' /\ chan'[n] = chan[n]
          /\ Len(chan) + 1 \in DOMAIN chan' /\ chan'[Len(chan) + 1] = f
          /\ \A n \in DOMAIN chan' : n \in DOMAIN chan \/ n = Len(chan) + 1
      BY <1>5, AppendItem DEF TypeOK
    <2>2. \A n \in DOMAIN chan : chan[n] # f
      BY <1>3 DEF Sent
    <2>3. \A n \in DOMAIN popped : popped[n] # f
      BY <1>3 DEF Sent
    <2>4. \A m, n \in DOMAIN chan' : chan'[m] = chan'[n] => m = n
      BY <2>1, <2>2 DEF ItemInv
    <2>5. \A m \in DOMAIN chan', n \in DOMAIN popped' : chan'[m] # popped'[n]
      BY <1>1, <2>1, <2>3 DEF ItemInv
    <2>6. \A g \in Fns : Sent(g)' <=> Sent(g) \/ g = f
      BY <1>1, <2>1 DEF Sent
    <2>. QED  BY <1>1, <1>2, <2>4, <2>5, <2>6 DEF ItemInv
  <1>. QED  BY <1>4, <1>5 DEF Push

\* ItemInv is inductive.
LEMMA ItemStep ==
    ASSUME TypeOK, CountInv, ItemInv, [Next]_vars
    PROVE  ItemInv'
  <1>. USE DEF TypeOK, FiberGoto
  <1>1. CASE PopFirst \/ PopSuccess \/ PopAll \/ PopUntilError
    BY <1>1, TakeCases, ItemTake
  <1>2. CASE Launch
    <2>1. UNCHANGED <<mode, chan, popped>> /\ \A f \in Fns : Pushed(f)' <=> Pushed(f)
      BY <1>2 DEF Launch, Pushed
    <2>. QED  BY <2>1, ItemFrame
  <1>3. CASE CloseFirst \/ PopClosed
    <2>1. UNCHANGED <<mode, chan, popped, fpc>>
      BY <1>3 DEF CloseFirst, PopClosed
    <2>. QED  BY <2>1, ItemFrame DEF Pushed
  <1>4. ASSUME NEW f \in Fns, Run(f) \/ ReadLimit(f) \/ WriteLimit(f) \/ CloseFull(f)
        PROVE  ItemInv'
    <2>1. UNCHANGED <<mode, chan, popped>>
      BY <1>4 DEF Run, ReadLimit, WriteLimit, CloseFull
    <2>2. \A g \in Fns : Pushed(g)' <=> Pushed(g)
      BY <1>4 DEF Run, ReadLimit, WriteLimit, CloseFull, Pushed
    <2>. QED  BY <2>1, <2>2, ItemFrame
  <1>5. ASSUME NEW f \in Fns, Push(f) PROVE ItemInv'
    BY <1>5, ItemPush
  <1>6. CASE UNCHANGED vars
    BY <1>6, ItemFrame DEF vars, Pushed
  <1>. QED  BY <1>1, <1>2, <1>3, <1>4, <1>5, <1>6, NextCases

\* ItemInv holds throughout.
LEMMA ItemInvariant == Spec => []ItemInv
  <1>1. Init => ItemInv
    BY DEF Init, ItemInv, Sent, Pushed
  <1>2. TypeOK /\ CountInv /\ ItemInv /\ [Next]_vars => ItemInv'
    BY ItemStep
  <1>. QED  BY <1>1, <1>2, TypeCorrect, CloseInvariant, PTL DEF Spec

-----------------------------------------------------------------------------
(* The answers *)

\* The when_all loops that end, end on a channel that is closed and empty.
EndInv ==
    \/ mode \in AllModes /\ cpc = "returned"
    \/ mode = "collect_errors" /\ cpc = "threw"
    => closed /\ chan = <<>>

\* What the loops of wait_all_until_error and wait_all_collect_errors have seen.
ErrorsInv ==
    /\ (mode = "until_error" /\ cpc # "threw") \/ (mode = "collect_errors" /\ cpc = "returned") =>
         \A n \in DOMAIN popped : outcome[popped[n]] = "value"
    /\ mode \in {"until_error", "collect_errors"} /\ cpc = "threw" =>
         \E f \in Fns : outcome[f] = "error"

\* wait_first_success has taken exceptions out, and then at most one value.
SuccessInv ==
    mode = "success" =>
        /\ cpc \in {"launch", "pop"} => \A n \in DOMAIN popped : outcome[popped[n]] = "error"
        /\ cpc \in {"close", "returned"} =>
             /\ Len(popped) \in DOMAIN popped
             /\ \A n \in DOMAIN popped : outcome[popped[n]] = "value" <=> n = Len(popped)
        /\ cpc = "threw" => \A f \in Fns : outcome[f] = "error"

AnswerInv == EndInv /\ ErrorsInv /\ SuccessInv

\* What is in the channel or was taken out has an outcome.
LEMMA SentOutcome ==
    ASSUME TypeOK, PhaseInv, ItemInv, NEW f \in Fns, Sent(f)
    PROVE  outcome[f] \in {"value", "error"} /\ fpc[f] # "ready"
  <1>1. Pushed(f)
    BY DEF ItemInv
  <1>2. outcome[f] # "none" /\ fpc[f] # "ready"
    BY <1>1 DEF Pushed, PhaseInv
  <1>. QED  BY <1>2 DEF TypeOK

\* The steps of the fibers do not change the outcome of a function that has ended, nor
\* the items of a closed channel.
LEMMA FiberAnswer ==
    ASSUME TypeOK, PhaseInv, ItemInv, AnswerInv, NEW f \in Fns,
           Run(f) \/ Push(f) \/ ReadLimit(f) \/ WriteLimit(f) \/ CloseFull(f)
    PROVE  AnswerInv'
  <1>1. UNCHANGED <<mode, cpc, popped>> /\ (closed => closed' /\ chan' = chan)
    BY DEF Run, Push, ReadLimit, WriteLimit, CloseFull
  <1>2. outcome' = outcome \/ (fpc[f] = "ready" /\ \E o : outcome' = [outcome EXCEPT ![f] = o])
    BY DEF Run, Push, ReadLimit, WriteLimit, CloseFull
  <1>3. \A n \in DOMAIN popped : outcome'[popped[n]] = outcome[popped[n]]
    <2>. SUFFICES ASSUME NEW n \in DOMAIN popped
                  PROVE  outcome'[popped[n]] = outcome[popped[n]]
      OBVIOUS
    <2>1. popped[n] \in Fns
      BY DEF TypeOK
    <2>2. fpc[popped[n]] # "ready"
      BY <2>1, SentOutcome DEF Sent
    <2>. QED  BY <1>2, <2>1, <2>2 DEF TypeOK
  <1>4. \A g \in Fns : outcome[g] = "error" => outcome'[g] = "error"
    BY <1>2 DEF TypeOK, PhaseInv
  <1>5. EndInv'
    BY <1>1 DEF AnswerInv, EndInv
  <1>6. ErrorsInv'
    BY <1>1, <1>3, <1>4 DEF AnswerInv, ErrorsInv
  <1>7. SuccessInv'
    BY <1>1, <1>3, <1>4 DEF AnswerInv, SuccessInv
  <1>. QED  BY <1>5, <1>6, <1>7 DEF AnswerInv

\* wait_first_success throws after the last of as many exceptions as there are
\* functions, and stops at the first value.
LEMMA SuccessAnswer ==
    ASSUME TypeOK, PhaseInv, ItemInv, ItemInv', SuccessInv, PopSuccess
    PROVE  SuccessInv'
  <1>1. /\ mode = "success" /\ cpc = "pop" /\ chan # <<>> /\ UNCHANGED <<mode, outcome>>
        /\ chan \in Seq(Fns) /\ popped \in Seq(Fns)
        /\ popped' = Append(popped, Head(chan))
        /\ cpc' = IF outcome[Head(chan)] = "value" THEN "close"
                  ELSE IF Len(popped) + 1 = count THEN "threw" ELSE "pop"
    BY DEF PopSuccess, Take, TypeOK
  <1>2. /\ Head(chan) \in Fns /\ Head(chan) = chan[1] /\ 1 \in DOMAIN chan
        /\ \A n \in DOMAIN popped : popped'[n] = popped[n] /\ n # Len(popped) + 1
        /\ Len(popped) + 1 \in DOMAIN popped' /\ popped'[Len(popped) + 1] = Head(chan)
        /\ \A n \in DOMAIN popped' : n \in DOMAIN popped \/ n = Len(popped) + 1
        /\ popped' \in Seq(Fns) /\ Len(popped') = Len(popped) + 1
    BY <1>1, MoveHead
  <1>3. outcome[Head(chan)] \in {"value", "error"}
    BY <1>2, SentOutcome DEF Sent
  <1>4. \A n \in DOMAIN popped : outcome[popped[n]] = "error"
    BY <1>1 DEF SuccessInv
  <1>5. CASE outcome[Head(chan)] = "value"
    BY <1>1, <1>2, <1>4, <1>5 DEF SuccessInv
  <1>6. CASE outcome[Head(chan)] = "error"
    <2>1. \A n \in DOMAIN popped' : outcome[popped'[n]] = "error"
      BY <1>2, <1>4, <1>6
    <2>2. CASE Len(popped) + 1 = count
      <3>1. \A f \in Fns : \E n \in DOMAIN popped' : popped'[n] = f
        <4>1. Len(popped') = count
          BY <1>2, <2>2
        <4>2. \A m, n \in DOMAIN popped' : popped'[m] = popped'[n] => m = n
          BY DEF ItemInv
        <4>. QED  BY <1>2, <4>1, <4>2, AllPresent
      <3>2. \A f \in Fns : outcome[f] = "error"
        BY <2>1, <3>1
      <3>. QED  BY <1>1, <1>6, <2>2, <3>2 DEF SuccessInv
    <2>3. CASE Len(popped) + 1 # count
      BY <1>1, <1>6, <2>1, <2>3 DEF SuccessInv
    <2>. QED  BY <2>2, <2>3
  <1>. QED  BY <1>3, <1>5, <1>6

\* wait_all_until_error goes on after a value and throws at an exception.
LEMMA UntilErrorAnswer ==
    ASSUME TypeOK, PhaseInv, ItemInv, ErrorsInv, PopUntilError
    PROVE  ErrorsInv'
  <1>1. /\ mode = "until_error" /\ cpc = "pop" /\ chan # <<>> /\ UNCHANGED <<mode, outcome>>
        /\ chan \in Seq(Fns) /\ popped \in Seq(Fns)
        /\ popped' = Append(popped, Head(chan))
        /\ cpc' = IF outcome[Head(chan)] = "value" THEN "pop" ELSE "threw"
    BY DEF PopUntilError, Take, TypeOK
  <1>2. /\ Head(chan) \in Fns /\ Head(chan) = chan[1] /\ 1 \in DOMAIN chan
        /\ \A n \in DOMAIN popped : popped'[n] = popped[n]
        /\ popped'[Len(popped) + 1] = Head(chan)
        /\ \A n \in DOMAIN popped' : n \in DOMAIN popped \/ n = Len(popped) + 1
    BY <1>1, MoveHead
  <1>3. outcome[Head(chan)] \in {"value", "error"}
    BY <1>2, SentOutcome DEF Sent
  <1>4. \A n \in DOMAIN popped : outcome[popped[n]] = "value"
    BY <1>1 DEF ErrorsInv
  <1>5. CASE outcome[Head(chan)] = "value"
    BY <1>1, <1>2, <1>4, <1>5 DEF ErrorsInv
  <1>6. CASE outcome[Head(chan)] = "error"
    BY <1>1, <1>2, <1>6 DEF ErrorsInv
  <1>. QED  BY <1>3, <1>5, <1>6

\* AnswerInv is inductive.
LEMMA AnswerStep ==
    ASSUME TypeOK, PhaseInv, ItemInv, ItemInv', AnswerInv, [Next]_vars
    PROVE  AnswerInv'
  <1>. USE DEF AnswerInv, AllModes
  <1>1. CASE PopFirst
    BY <1>1 DEF PopFirst, Take, EndInv, ErrorsInv, SuccessInv
  <1>2. CASE PopSuccess
    <2>1. mode' = "success"
      BY <1>2 DEF PopSuccess, Take
    <2>. QED  BY <1>2, <2>1, SuccessAnswer DEF EndInv, ErrorsInv
  <1>3. CASE PopAll
    <2>1. mode' \in {"values", "collect_errors"} /\ cpc' = "pop"
      BY <1>3 DEF PopAll, Take
    <2>. QED  BY <2>1 DEF EndInv, ErrorsInv, SuccessInv
  <1>4. CASE PopUntilError
    <2>1. mode' = "until_error" /\ cpc' # "returned"
      BY <1>4 DEF PopUntilError, Take
    <2>. QED  BY <1>4, <2>1, UntilErrorAnswer DEF EndInv, SuccessInv
  <1>5. CASE Launch
    <2>1. /\ cpc = "launch" /\ UNCHANGED <<mode, outcome, popped>>
          /\ cpc' \in {"launch", "pop"} \/ (mode = "success" /\ count = 0 /\ cpc' = "threw")
      BY <1>5 DEF Launch
    <2>2. count = 0 => Fns = {}
      BY FnsAssumption, FS_EmptySet DEF count
    <2>. QED  BY <2>1, <2>2 DEF EndInv, ErrorsInv, SuccessInv
  <1>6. CASE CloseFirst
    <2>1. /\ cpc = "close" /\ mode \in FirstModes /\ UNCHANGED <<mode, outcome, popped>>
          /\ cpc' = IF outcome[popped[Len(popped)]] = "value" THEN "returned" ELSE "threw"
      BY <1>6 DEF CloseFirst, PhaseInv
    <2>2. SuccessInv'
      BY <2>1 DEF SuccessInv
    <2>. QED  BY <2>1, <2>2 DEF EndInv, ErrorsInv, FirstModes
  <1>7. CASE PopClosed
    <2>1. /\ mode \in AllModes /\ cpc = "pop" /\ closed /\ chan = <<>>
          /\ UNCHANGED <<mode, outcome, popped, closed, chan>>
          /\ cpc' = IF mode = "collect_errors" /\ Collected("error") # {}
                    THEN "threw" ELSE "returned"
      BY <1>7 DEF PopClosed
    <2>2. \A n \in DOMAIN popped : outcome[popped[n]] \in {"value", "error"} /\ popped[n] \in Fns
      <3>. SUFFICES ASSUME NEW n \in DOMAIN popped
                    PROVE  outcome[popped[n]] \in {"value", "error"} /\ popped[n] \in Fns
        OBVIOUS
      <3>1. popped[n] \in Fns
        BY DEF TypeOK
      <3>. QED  BY <3>1, SentOutcome DEF Sent
    <2>3. ErrorsInv'
      BY <2>1, <2>2 DEF ErrorsInv, Collected
    <2>. QED  BY <2>1, <2>3 DEF EndInv, SuccessInv
  <1>8. ASSUME NEW f \in Fns,
               Run(f) \/ Push(f) \/ ReadLimit(f) \/ WriteLimit(f) \/ CloseFull(f)
        PROVE  AnswerInv'
    BY <1>8, FiberAnswer
  <1>9. CASE UNCHANGED vars
    BY <1>9 DEF vars, EndInv, ErrorsInv, SuccessInv
  <1>. QED  BY <1>1, <1>2, <1>3, <1>4, <1>5, <1>6, <1>7, <1>8, <1>9, NextCases

\* AnswerInv holds throughout.
LEMMA AnswerInvariant == Spec => []AnswerInv
  <1>1. Init => AnswerInv
    <2>. SUFFICES ASSUME Init PROVE AnswerInv
      OBVIOUS
    <2>1. cpc = "launch" /\ DOMAIN popped = {}
      BY DEF Init
    <2>. QED  BY <2>1 DEF AnswerInv, EndInv, ErrorsInv, SuccessInv
  <1>2. TypeOK /\ PhaseInv /\ ItemInv /\ ItemInv' /\ AnswerInv /\ [Next]_vars => AnswerInv'
    BY AnswerStep
  <1>. QED  BY <1>1, <1>2, TypeCorrect, CloseInvariant, ItemInvariant, PTL DEF Spec

\* Each helper answers what its comment promises, for any number of functions, any
\* capacity of the channel, any order of the fibers and racing decrements of limit_:
\* the when_all helpers have the result of every function exactly once,
\* wait_all_until_error and wait_all_collect_errors return only without an exception
\* and throw only with one, and wait_first_success throws only when all functions
\* threw (wait_stuff.hpp).
THEOREM ChannelAnswersCorrect == Spec => []ChannelAnswers
  <1>1. TypeOK /\ CountInv /\ ItemInv /\ AnswerInv => ChannelAnswers
    <2>. SUFFICES ASSUME TypeOK, CountInv, ItemInv, AnswerInv PROVE ChannelAnswers
      OBVIOUS
    <2>1. ASSUME mode \in AllModes, closed, chan = <<>>, NEW f \in Fns
          PROVE  \E n \in DOMAIN popped : popped[n] = f
      <3>1. Pushed(f)
        BY <2>1 DEF CountInv, Counted, Pushed
      <3>2. Sent(f)
        BY <2>1, <3>1 DEF ItemInv
      <3>3. DOMAIN chan = {}
        BY <2>1
      <3>. QED  BY <3>2, <3>3 DEF Sent
    <2>2. AllCollected
      <3>. SUFFICES ASSUME \/ mode \in AllModes /\ cpc = "returned"
                           \/ mode = "collect_errors" /\ cpc = "threw",
                           NEW f \in Fns
                    PROVE  Cardinality({n \in DOMAIN popped : popped[n] = f}) = 1
        BY DEF AllCollected
      <3>1. mode \in AllModes /\ closed /\ chan = <<>>
        BY DEF AnswerInv, EndInv, AllModes
      <3>2. PICK k \in DOMAIN popped : popped[k] = f
        BY <2>1, <3>1
      <3>3. {n \in DOMAIN popped : popped[n] = f} = {k}
        BY <3>2 DEF ItemInv
      <3>. QED  BY <3>3, FS_Singleton, Zenon
    <2>3. ErrorsReported
      <3>1. ASSUME mode \in {"until_error", "collect_errors"}, cpc = "returned", NEW f \in Fns
            PROVE  outcome[f] = "value"
        <4>1. mode \in AllModes /\ closed /\ chan = <<>>
          BY <3>1 DEF AnswerInv, EndInv, AllModes
        <4>2. \A n \in DOMAIN popped : outcome[popped[n]] = "value"
          BY <3>1 DEF AnswerInv, ErrorsInv
        <4>. QED  BY <2>1, <4>1, <4>2
      <3>. QED  BY <3>1 DEF ErrorsReported, AnswerInv, ErrorsInv
    <2>4. SuccessPreferred
      <3>1. ASSUME mode = "success", cpc = "returned" PROVE Cardinality(Collected("value")) = 1
        <4>1. Collected("value") = {Len(popped)}
          BY <3>1 DEF AnswerInv, SuccessInv, Collected
        <4>. QED  BY <4>1, FS_Singleton, Zenon
      <3>. QED  BY <3>1 DEF SuccessPreferred, AnswerInv, SuccessInv
    <2>. QED  BY <2>2, <2>3, <2>4 DEF ChannelAnswers
  <1>. QED  BY <1>1, TypeCorrect, CloseInvariant, ItemInvariant, AnswerInvariant, PTL

-----------------------------------------------------------------------------
(* The two families *)

\* A step of the call is one of the helpers with a channel, or leaves them alone, and
\* likewise for the others.
LEMMA CallSteps ==
    ASSUME [CallNext]_allvars
    PROVE  [Next]_vars /\ [Simple!Next]_svars
  <1>1. CASE Channel(Next)
    BY <1>1 DEF Channel, svars
  <1>2. CASE Other(Simple!Next)
    BY <1>2 DEF Other, vars
  <1>3. CASE UNCHANGED allvars
    BY <1>3 DEF allvars, vars, svars
  <1>. QED  BY <1>1, <1>2, <1>3 DEF CallNext

\* So what holds of the helpers with a channel holds of a call.
LEMMA ChannelPart == CallSpec => Spec
  <1>1. CallInit => Init
    BY DEF CallInit
  <1>2. [CallNext]_allvars => [Next]_vars
    BY CallSteps
  <1>. QED  BY <1>1, <1>2, PTL DEF CallSpec, Spec

-----------------------------------------------------------------------------
(* Where the fibers are *)

SimpleFiber(f) ==
    Simple!Run(f) \/ Simple!SetReady(f) \/ Simple!NotifyDone(f) \/ Simple!BarrierFiber(f)

\* The types, except for the range of the barrier's counter, which takes counting.
SimpleTypes ==
    /\ smode \in SimpleModes
    /\ scpc \in {"launch", "check", "wait", "returned", "threw"}
    /\ snext \in 1..(N + 1)
    /\ sfpc \in [1..N -> {"new", "ready", "set_ready", "notify", "barrier", "blocked", "done"}]
    /\ soutcome \in [1..N -> {"none", "value", "error"}]
    /\ ready \in BOOLEAN
    /\ current \in Int

\* The functions that have not been launched are new, the helper decides which phases
\* there are, and a function has an outcome once it has run.
SimplePhases ==
    /\ scpc = "launch" => \A f \in 1..N : f >= snext => sfpc[f] = "new"
    /\ \A f \in 1..N : sfpc[f] \in {"set_ready", "notify"} => smode = "first"
    /\ \A f \in 1..N : sfpc[f] \in {"barrier", "blocked"} => smode = "all"
    /\ \A f \in 1..N : soutcome[f] = "none" <=> sfpc[f] \in {"new", "ready"}

\* A step is one of the caller's or one of a fiber's.
LEMMA SimpleCases ==
    ASSUME [Simple!Next]_svars
    PROVE  \/ Simple!Launch \/ Simple!WaitDone \/ Simple!BarrierCaller \/ Simple!GetMember
           \/ \E f \in 1..N : SimpleFiber(f)
           \/ UNCHANGED svars
  BY DEF Simple!Next, Simple!CallerNext, Simple!FiberNext, Simple!Indices, SimpleFiber

\* SimpleTypes is inductive.
LEMMA SimpleTypeStep ==
    ASSUME SimpleTypes, [Simple!Next]_svars
    PROVE  SimpleTypes'
  <1>. USE NAssumption DEF SimpleTypes, Simple!Indices
  <1>1. CASE Simple!Launch
    BY <1>1 DEF Simple!Launch
  <1>2. CASE Simple!WaitDone
    BY <1>2 DEF Simple!WaitDone
  <1>3. CASE Simple!BarrierCaller
    BY <1>3 DEF Simple!BarrierCaller, Simple!Arrive
  <1>4. CASE Simple!GetMember
    BY <1>4 DEF Simple!GetMember
  <1>5. ASSUME NEW f \in 1..N, SimpleFiber(f) PROVE SimpleTypes'
    <2>1. CASE Simple!Run(f)
      BY <2>1 DEF Simple!Run
    <2>2. CASE Simple!SetReady(f)
      BY <2>2 DEF Simple!SetReady
    <2>3. CASE Simple!NotifyDone(f)
      BY <2>3 DEF Simple!NotifyDone
    <2>4. CASE Simple!BarrierFiber(f)
      BY <2>4 DEF Simple!BarrierFiber, Simple!Arrive
    <2>. QED  BY <1>5, <2>1, <2>2, <2>3, <2>4 DEF SimpleFiber
  <1>6. CASE UNCHANGED svars
    BY <1>6 DEF svars
  <1>. QED  BY <1>1, <1>2, <1>3, <1>4, <1>5, <1>6, SimpleCases

\* SimplePhases is inductive.
LEMMA SimplePhaseStep ==
    ASSUME SimpleTypes, SimplePhases, [Simple!Next]_svars
    PROVE  SimplePhases'
  <1>. USE NAssumption DEF SimpleTypes, SimplePhases, Simple!Indices
  <1>1. CASE Simple!Launch
    BY <1>1 DEF Simple!Launch
  <1>2. CASE Simple!WaitDone
    BY <1>2 DEF Simple!WaitDone
  <1>3. CASE Simple!BarrierCaller
    BY <1>3 DEF Simple!BarrierCaller
  <1>4. CASE Simple!GetMember
    BY <1>4 DEF Simple!GetMember
  <1>5. ASSUME NEW f \in 1..N, SimpleFiber(f) PROVE SimplePhases'
    <2>1. CASE Simple!Run(f)
      BY <2>1 DEF Simple!Run
    <2>2. CASE Simple!SetReady(f)
      BY <2>2 DEF Simple!SetReady
    <2>3. CASE Simple!NotifyDone(f)
      BY <2>3 DEF Simple!NotifyDone
    <2>4. CASE Simple!BarrierFiber(f)
      BY <2>4 DEF Simple!BarrierFiber
    <2>. QED  BY <1>5, <2>1, <2>2, <2>3, <2>4 DEF SimpleFiber
  <1>6. CASE UNCHANGED svars
    BY <1>6 DEF svars
  <1>. QED  BY <1>1, <1>2, <1>3, <1>4, <1>5, <1>6, SimpleCases

-----------------------------------------------------------------------------
(* The barrier of wait_all_simple *)

\* The fibers that have been at the barrier, and the caller.
Arrived == {f \in 1..N : sfpc[f] \in {"blocked", "done"}}
CallerArrived == IF scpc \in {"wait", "returned"} THEN 1 ELSE 0

\* The barrier expects those who have not arrived, and the caller is let through by
\* the last of them.
BarrierInv ==
    /\ smode # "all" => current = N + 1
    /\ smode = "all" => /\ scpc # "threw"
                        /\ current = N + 1 - Cardinality(Arrived) - CallerArrived
                        /\ scpc = "returned" => current = 0

\* Counting some of the N functions.
LEMMA SomeOfN ==
    ASSUME NEW S, S \subseteq 1..N
    PROVE  /\ IsFiniteSet(S) /\ Cardinality(S) \in 0..N
           /\ Cardinality(S) = N => S = 1..N
           /\ \A f \in (1..N) \ S : Cardinality(S \cup {f}) = Cardinality(S) + 1
  <1>1. IsFiniteSet(1..N) /\ Cardinality(1..N) = N
    <2>1. 1 \in Int /\ N \in Int
      BY NAssumption
    <2>2. Cardinality(1..N) = IF 1 > N THEN 0 ELSE N - 1 + 1
      BY <2>1, FS_Interval
    <2>3. IsFiniteSet(1..N)
      BY <2>1, FS_Interval
    <2>. QED  BY <2>2, <2>3, NAssumption
  <1>2. IsFiniteSet(S) /\ Cardinality(S) <= N /\ (Cardinality(S) = N => S = 1..N)
    BY <1>1, FS_Subset, Zenon
  <1>3. Cardinality(S) \in Nat
    BY <1>2, FS_CardinalityType
  <1>4. \A f \in (1..N) \ S : Cardinality(S \cup {f}) = Cardinality(S) + 1
    BY <1>2, FS_AddElement
  <1>. QED  BY <1>2, <1>3, <1>4, NAssumption

\* Arrived is such a set, now and after a step.
LEMMA ArrivedSize ==
    /\ Cardinality(Arrived) \in 0..N /\ (Cardinality(Arrived) = N => Arrived = 1..N)
    /\ Cardinality(Arrived') \in 0..N
    /\ \A f \in (1..N) \ Arrived : Cardinality(Arrived \cup {f}) = Cardinality(Arrived) + 1
  <1>1. Arrived \subseteq 1..N /\ Arrived' \subseteq 1..N
    BY DEF Arrived
  <1>. QED  BY <1>1, SomeOfN, Zenon

\* BarrierInv is inductive.
LEMMA BarrierStep ==
    ASSUME SimpleTypes, SimplePhases, BarrierInv, [Simple!Next]_svars
    PROVE  BarrierInv'
  <1>. USE NAssumption DEF SimpleTypes, Simple!Indices
  <1>1. CASE Simple!Launch
    <2>1. UNCHANGED <<smode, current>> /\ scpc = "launch" /\ scpc' \in {"launch", "check"}
      BY <1>1 DEF Simple!Launch
    <2>2. Arrived' = Arrived
      BY <1>1 DEF Simple!Launch, SimplePhases, Arrived
    <2>. QED  BY <2>1, <2>2 DEF BarrierInv, CallerArrived
  <1>2. CASE Simple!WaitDone \/ Simple!GetMember
    <2>1. smode # "all" /\ UNCHANGED <<smode, current>>
      BY <1>2 DEF Simple!WaitDone, Simple!GetMember
    <2>. QED  BY <2>1 DEF BarrierInv
  <1>3. CASE Simple!BarrierCaller
    <2>1. /\ smode = "all" /\ scpc = "check" /\ smode' = smode /\ current' = current - 1
          /\ scpc' = IF current' = 0 THEN "returned" ELSE "wait"
      BY <1>3 DEF Simple!BarrierCaller, Simple!Arrive
    <2>2. Arrived' = Arrived
      BY <1>3 DEF Simple!BarrierCaller, Arrived
    <2>3. current = N + 1 - Cardinality(Arrived)
      BY <2>1, ArrivedSize DEF BarrierInv, CallerArrived
    <2>4. current' = N + 1 - Cardinality(Arrived') - CallerArrived'
      BY <2>1, <2>2, <2>3, ArrivedSize DEF CallerArrived
    <2>. QED  BY <2>1, <2>4 DEF BarrierInv
  <1>4. ASSUME NEW f \in 1..N, SimpleFiber(f) PROVE BarrierInv'
    <2>1. CASE Simple!Run(f)
      <3>1. UNCHANGED <<smode, current>> /\ (smode = "all" => scpc' = scpc)
        BY <2>1 DEF Simple!Run
      <3>2. smode = "all" => Arrived' = Arrived
        BY <2>1 DEF Simple!Run, Arrived
      <3>. QED  BY <3>1, <3>2 DEF BarrierInv, CallerArrived
    <2>2. CASE Simple!SetReady(f) \/ Simple!NotifyDone(f)
      <3>1. smode # "all" /\ UNCHANGED <<smode, current>>
        BY <2>2 DEF Simple!SetReady, Simple!NotifyDone, SimplePhases
      <3>. QED  BY <3>1 DEF BarrierInv
    <2>3. CASE Simple!BarrierFiber(f)
      <3>1. /\ smode = "all" /\ smode' = smode /\ current' = current - 1
            /\ scpc' = IF current' = 0 /\ scpc = "wait" THEN "returned" ELSE scpc
        BY <2>3 DEF Simple!BarrierFiber, Simple!Arrive, SimplePhases
      <3>2. f \notin Arrived /\ Arrived' = Arrived \cup {f}
        BY <2>3 DEF Simple!BarrierFiber, Arrived
      <3>3. Cardinality(Arrived') = Cardinality(Arrived) + 1
        BY <3>2, ArrivedSize
      <3>4. CallerArrived' = CallerArrived
        BY <3>1 DEF CallerArrived
      <3>5. CallerArrived \in {0, 1}
        BY DEF CallerArrived
      <3>6. current = N + 1 - Cardinality(Arrived) - CallerArrived
        BY <3>1 DEF BarrierInv
      <3>7. current' = N + 1 - Cardinality(Arrived') - CallerArrived'
        BY <3>1, <3>3, <3>4, <3>5, <3>6, ArrivedSize
      <3>8. scpc = "returned" => Cardinality(Arrived) = N
        BY <3>1, <3>6, ArrivedSize DEF BarrierInv, CallerArrived
      <3>9. scpc # "returned"
        BY <3>2, <3>8, ArrivedSize
      <3>. QED  BY <3>1, <3>7, <3>9 DEF BarrierInv
    <2>. QED  BY <1>4, <2>1, <2>2, <2>3 DEF SimpleFiber
  <1>5. CASE UNCHANGED svars
    BY <1>5 DEF svars, BarrierInv, Arrived, CallerArrived
  <1>. QED  BY <1>1, <1>2, <1>3, <1>4, <1>5, SimpleCases

-----------------------------------------------------------------------------
(* Done of wait_first_simple, and the futures of wait_all_members *)

\* Done::ready is set by a function that has returned, and the caller waits for it.
DoneInv ==
    smode = "first" =>
        /\ ready => \E f \in 1..N : soutcome[f] # "none"
        /\ scpc = "returned" => ready

\* The futures the caller has asked had a value.
MembersInv ==
    smode = "members" /\ scpc # "launch" => \A f \in 1..N : f < snext => soutcome[f] = "value"

\* Both are inductive.
LEMMA AskStep ==
    ASSUME SimpleTypes, SimplePhases, DoneInv, MembersInv, [Simple!Next]_svars
    PROVE  DoneInv' /\ MembersInv'
  <1>. USE NAssumption DEF SimpleTypes, Simple!Indices, DoneInv, MembersInv
  <1>1. CASE Simple!Launch
    BY <1>1 DEF Simple!Launch
  <1>2. CASE Simple!WaitDone
    BY <1>2 DEF Simple!WaitDone
  <1>3. CASE Simple!BarrierCaller
    BY <1>3 DEF Simple!BarrierCaller
  <1>4. CASE Simple!GetMember
    BY <1>4 DEF Simple!GetMember
  <1>5. ASSUME NEW f \in 1..N, SimpleFiber(f) PROVE DoneInv' /\ MembersInv'
    <2>1. CASE Simple!Run(f)
      <3>1. /\ UNCHANGED <<smode, snext, ready>> /\ soutcome[f] = "none"
            /\ scpc' = scpc \/ (scpc = "wait" /\ scpc' = "check")
            /\ \E o \in {"value", "error"} : soutcome' = [soutcome EXCEPT ![f] = o]
        BY <2>1, Zenon DEF Simple!Run, SimplePhases
      <3>. QED  BY <3>1
    <2>2. CASE Simple!SetReady(f)
      <3>1. soutcome[f] # "none"
        BY <2>2 DEF Simple!SetReady, SimplePhases
      <3>. QED  BY <2>2, <3>1 DEF Simple!SetReady
    <2>3. CASE Simple!NotifyDone(f)
      BY <2>3 DEF Simple!NotifyDone
    <2>4. CASE Simple!BarrierFiber(f)
      <3>1. smode = "all" /\ smode' = smode
        BY <2>4 DEF Simple!BarrierFiber, SimplePhases
      <3>. QED  BY <3>1
    <2>. QED  BY <1>5, <2>1, <2>2, <2>3, <2>4 DEF SimpleFiber
  <1>6. CASE UNCHANGED svars
    BY <1>6 DEF svars
  <1>. QED  BY <1>1, <1>2, <1>3, <1>4, <1>5, <1>6, SimpleCases

-----------------------------------------------------------------------------
(* What holds of a call *)

SimpleInv == SimpleTypes /\ SimplePhases /\ BarrierInv /\ DoneInv /\ MembersInv

\* The invariant of the helpers without a channel.
LEMMA SimpleInvariant == CallSpec => []SimpleInv
  <1>1. CallInit => SimpleInv
    <2>. SUFFICES ASSUME CallInit PROVE SimpleInv
      OBVIOUS
    <2>1. Simple!Init
      BY DEF CallInit
    <2>. USE <2>1, NAssumption DEF Simple!Init, Simple!Indices
    <2>2. SimpleTypes
      <3>1. snext \in 1..(N + 1) /\ current \in Int
        OBVIOUS
      <3>2. ready \in BOOLEAN
        BY Zenon
      <3>3. /\ sfpc \in [1..N -> {"new", "ready", "set_ready", "notify", "barrier", "blocked",
                                 "done"}]
            /\ soutcome \in [1..N -> {"none", "value", "error"}]
        OBVIOUS
      <3>. QED  BY <3>1, <3>2, <3>3 DEF SimpleTypes
    <2>3. SimplePhases
      BY DEF SimplePhases
    <2>4. Arrived = {} /\ Cardinality(Arrived) = 0 /\ CallerArrived = 0
      BY FS_EmptySet, Zenon DEF Arrived, CallerArrived
    <2>5. BarrierInv
      <3>1. N + 1 = N + 1 - 0 - 0 /\ current = N + 1 /\ scpc = "launch"
        OBVIOUS
      <3>. QED  BY <2>4, <3>1 DEF BarrierInv
    <2>6. DoneInv /\ MembersInv
      BY DEF DoneInv, MembersInv
    <2>. QED  BY <2>2, <2>3, <2>5, <2>6 DEF SimpleInv
  <1>2. SimpleInv /\ [CallNext]_allvars => SimpleInv'
    BY CallSteps, SimpleTypeStep, SimplePhaseStep, BarrierStep, AskStep DEF SimpleInv
  <1>. QED  BY <1>1, <1>2, PTL DEF CallSpec

\* The values the variables take in a call of any helper; in particular the barrier of
\* wait_all_simple never counts below zero (wait_stuff.hpp).
THEOREM CallTypeCorrect == CallSpec => []CallTypeOK
  <1>1. SimpleInv => Simple!TypeOK
    <2>. SUFFICES ASSUME SimpleInv PROVE Simple!TypeOK
      OBVIOUS
    <2>1. CallerArrived \in {0, 1}
      BY DEF CallerArrived
    <2>2. current \in 0..(N + 1)
      <3>1. CASE smode = "all"
        <4>1. current = N + 1 - Cardinality(Arrived) - CallerArrived
          BY <3>1 DEF SimpleInv, BarrierInv
        <4>. QED  BY <2>1, <4>1, ArrivedSize, NAssumption
      <3>2. CASE smode # "all"
        BY <3>2, NAssumption DEF SimpleInv, BarrierInv
      <3>. QED  BY <3>1, <3>2
    <2>. QED  BY <2>2 DEF SimpleInv, SimpleTypes, Simple!TypeOK, Simple!Indices
  <1>. QED  BY <1>1, SimpleInvariant, ChannelPart, TypeCorrect, PTL DEF CallTypeOK

\* wait_all_simple returns only after every function has returned, because the barrier
\* lets no one through before the last; wait_first_simple only after one has; and
\* wait_all_members has asked the futures from the left, each of which had a value
\* (wait_stuff.hpp).
THEOREM SimpleAnswersCorrect == CallSpec => []SimpleAnswers
  <1>1. SimpleInv => SimpleAnswers
    <2>. SUFFICES ASSUME SimpleInv PROVE SimpleAnswers
      OBVIOUS
    <2>1. ASSUME smode = "all", scpc = "returned", NEW f \in 1..N PROVE soutcome[f] # "none"
      <3>1. current = N + 1 - Cardinality(Arrived) - 1 /\ current = 0
        BY <2>1 DEF SimpleInv, BarrierInv, CallerArrived
      <3>2. Cardinality(Arrived) = N
        BY <3>1, ArrivedSize, NAssumption
      <3>3. f \in Arrived
        BY <3>2, ArrivedSize
      <3>. QED  BY <3>3 DEF SimpleInv, SimplePhases, Arrived
    <2>2. Simple!ReturnsInTime
      BY <2>1 DEF SimpleInv, DoneInv, Simple!ReturnsInTime, Simple!Indices
    <2>3. Simple!LeftmostThrows
      BY DEF SimpleInv, MembersInv, Simple!LeftmostThrows, Simple!CallerDone, Simple!Indices
    <2>. QED  BY <2>2, <2>3 DEF SimpleAnswers
  <1>. QED  BY <1>1, SimpleInvariant, PTL

\* A call of a helper with a channel has the properties of the helper.
THEOREM CallChannelCorrect == CallSpec => [](ClosedOnlyWhenFull /\ ChannelAnswers)
  BY ChannelPart, ClosedOnlyWhenFullCorrect, ChannelAnswersCorrect, PTL
=============================================================================
