---------------------------- MODULE FiberProofs -----------------------------
(***************************************************************************)
(* Proofs about FiberFuture, for any number of calls and any shapes, and   *)
(* about FiberProcess, for any number of threads, fibers, sessions and     *)
(* calls of notify_stop().                                                 *)
(***************************************************************************)
EXTENDS FiberFuture, FiberProcess, TLAPS


-----------------------------------------------------------------------------
(* Types. *)

\* What a handler can store.
LEMMA StoredValues ==
    ASSUME NEW s \in Signatures, NEW e \in BOOLEAN, NEW throws \in BOOLEAN
    PROVE  /\ promise_handler_selector(s, e) \in Values \cup Exceptions
           /\ promise_invoke_and_set(e, throws) \in Values \cup Exceptions
<1>1. promise_invoke_and_set(e, throws) \in Values \cup Exceptions
  BY DEF promise_invoke_and_set, Values, Exceptions
<1>2. \A lead : Exception(lead) \in Exceptions
  BY DEF Exception, Exceptions
<1>3. promise_handler_selector(s, e) \in Values \cup Exceptions
  BY <1>2 DEF promise_handler_selector, promise_handler_0, promise_handler_1,
              promise_handler_n, Values
<1>. QED  BY <1>1, <1>3

\* The variables keep their types.
THEOREM TypeCorrect == Spec => []TypeOK
<1>. USE CallsAssumption DEF Calls
<1>1. Init => TypeOK
  BY DEF Init, TypeOK, Signatures, NoSignature
<1>2. TypeOK /\ [Next]_vars => TypeOK'
  <2>. SUFFICES ASSUME TypeOK, [Next]_vars
                PROVE  TypeOK'
    OBVIOUS
  <2>. USE DEF TypeOK
  <2>1. NoSignature \in Signatures
    BY DEF NoSignature, Signatures
  <2>2. CASE UNCHANGED vars
    BY <2>2 DEF vars
  <2>3. CASE Initiate
    <3>1. sig' \in Signatures
      BY <2>1, <2>3 DEF Initiate, use_future
    <3>. QED  BY <2>3, <3>1 DEF Initiate, create_promise, async_result
  <2>4. CASE WaitReady
    BY <2>4 DEF WaitReady
  <2>5. ASSUME NEW r \in {"value", "failed", "threw", "timeout"}, Return(r)
        PROVE  TypeOK'
    BY <2>1, <2>5, Zenon DEF Return
  <2>6. CASE WaitTimeout \/ Get \/ Use
    BY <2>5, <2>6, Zenon DEF WaitTimeout, Get, Use
  <2>7. ASSUME NEW n \in Calls, NEW v \in Values \cup Exceptions, Set(n, v)
        PROVE  fut' \in [Calls -> {"empty", "twice"} \cup Values \cup Exceptions]
    BY <2>7 DEF Set
  <2>8. ASSUME NEW n \in Calls, NEW x \in {0, n}, Write(n, x)
        PROVE  slot' \in 0..MaxCalls /\ late' \subseteq Calls
    <3>1. slot' \in {slot, 0, n} /\ late' \subseteq late \cup {n}
      BY <2>8, Zenon DEF Write
    <3>2. slot \in 0..MaxCalls /\ 0 \in 0..MaxCalls /\ n \in 0..MaxCalls
      OBVIOUS
    <3>. QED  BY <3>1, <3>2
  <2>9. ASSUME NEW n \in Calls, HandlerNext(n)
        PROVE  TypeOK'
    <3>1. CASE LastChunk(n)
      <4>1. fut' \in [Calls -> {"empty", "twice"} \cup Values \cup Exceptions]
        BY <2>7, <3>1 DEF LastChunk, Values
      <4>. QED  BY <3>1, <4>1 DEF LastChunk
    <3>2. CASE Invoke(n)
      <4>1. fut' \in [Calls -> {"empty", "twice"} \cup Values \cup Exceptions]
        BY <2>7, <3>2, StoredValues DEF Invoke
      <4>. QED  BY <3>2, <4>1 DEF Invoke
    <3>3. CASE InvokeFunction(n)
      <4>1. slot' \in 0..MaxCalls /\ late' \subseteq Calls
        BY <2>8, <3>3 DEF InvokeFunction
      <4>. QED  BY <3>3, <4>1 DEF InvokeFunction
    <3>4. CASE SetResult(n)
      <4>1. fut' \in [Calls -> {"empty", "twice"} \cup Values \cup Exceptions]
        BY <2>7, <3>4, StoredValues, Zenon DEF SetResult
      <4>. QED  BY <3>4, <4>1 DEF SetResult
    <3>. QED  BY <2>9, <3>1, <3>2, <3>3, <3>4 DEF HandlerNext
  <2>10. ASSUME NEW n \in Calls, NetworkNext(n)
        PROVE  TypeOK'
    <3>1. CASE Drop(n)
      <4>1. fut' \in [Calls -> {"empty", "twice"} \cup Values \cup Exceptions]
        BY <2>7, <3>1 DEF Drop, Exceptions
      <4>. QED  BY <3>1, <4>1 DEF Drop
    <3>2. CASE Chunk(n)
      <4>1. slot' \in 0..MaxCalls /\ late' \subseteq Calls
        BY <2>8, <3>2 DEF Chunk
      <4>. QED  BY <3>2, <4>1 DEF Chunk
    <3>3. ASSUME NEW e \in BOOLEAN, Complete(n, e)
          PROVE  TypeOK'
      <4>1. err' \in [Calls -> BOOLEAN]
        BY <3>3 DEF Complete
      <4>2. op' = [op EXCEPT ![n] = "completed"]
        BY <3>3 DEF Complete
      <4>3. UNCHANGED <<call, pc, shape, sig, fut, slot, ret, late>>
        BY <3>3 DEF Complete
      <4>. QED  BY <4>1, <4>2, <4>3
    <3>. QED  BY <2>10, <3>1, <3>2, <3>3 DEF NetworkNext
  <2>. QED
    BY <2>2, <2>3, <2>4, <2>6, <2>9, <2>10 DEF Next, CallerNext
<1>. QED  BY <1>1, <1>2, PTL DEF Spec

-----------------------------------------------------------------------------
(* The calls, their operations and their promises. *)

\* The phases of an operation in which its handler has not yet satisfied the promise.
Unsatisfied == {"none", "pending", "streaming", "completed", "invoked"}

\* How far call n has come: operations exist up to the current call, only the current
\* one is without an outcome, its promise is empty exactly until its handler is through
\* or destroyed, and an outcome other than a timeout came from the promise.
CallInv(n) ==
    /\ op[n] = "none" <=> n > call
    /\ ret[n] = "none" <=> n > call \/ (n = call /\ pc # "idle")
    /\ fut[n] = "empty" <=> op[n] \in Unsatisfied
    /\ op[n] = "streaming" => shape[n] = "h2"
    /\ op[n] = "invoked" => shape[n] \in {"packaged", "resolve"}
    /\ ret[n] = "timeout" => shape[n] \in TimedShapes
    /\ ret[n] \in {"value", "failed", "threw"} => fut[n] # "empty"

CallerInv ==
    /\ pc # "idle" => call \in Calls
    /\ pc \in {"get", "use"} => fut[call] # "empty"

Progress == CallerInv /\ \A n \in Calls : CallInv(n)

\* An operation under way belongs to a call that waits, or to one that timed out.
LEMMA UnderWay ==
    ASSUME TypeOK, Progress, NEW n \in Calls, op[n] \in Unsatisfied \ {"none"}
    PROVE  /\ fut[n] = "empty" /\ n <= call
           /\ ~FrameLives(n) => ret[n] = "timeout" /\ shape[n] \in TimedShapes
<1>1. fut[n] = "empty" /\ ~(n > call)
  BY DEF Progress, CallInv, Unsatisfied
<1>2. n \in Int /\ call \in Int
  BY CallsAssumption DEF TypeOK, Calls
<1>3. ASSUME ~FrameLives(n)  PROVE ret[n] = "timeout"
  <2>1. ret[n] # "none"
    BY <1>1, <1>3 DEF Progress, CallInv, FrameLives
  <2>. QED  BY <1>1, <2>1 DEF TypeOK, Progress, CallInv
<1>. QED  BY <1>1, <1>2, <1>3 DEF Progress, CallInv

\* What Set does to the promise of such an operation.
LEMMA SetOnce ==
    ASSUME TypeOK, Progress, NEW n \in Calls, op[n] \in Unsatisfied \ {"none"},
           NEW v, Set(n, v)
    PROVE  fut' = [fut EXCEPT ![n] = v]
BY UnderWay, Zenon DEF Set, TypeOK

\* The steps of an operation and its handler, as far as the calls see them.
Advance(n, phase) ==
    /\ op[n] \in Unsatisfied \ {"none"}
    /\ op' = [op EXCEPT ![n] = phase]
    /\ UNCHANGED <<call, pc, shape, ret>>

Moves(n) ==
    \E phase \in {"streaming", "completed", "invoked"} :
        /\ Advance(n, phase) /\ UNCHANGED fut
        /\ phase = "streaming" => shape[n] = "h2"
        /\ phase = "invoked" => shape[n] \in {"packaged", "resolve"}

Settles(n) ==
    \E phase \in {"done", "dropped"}, v \in Values \cup Exceptions :
        Advance(n, phase) /\ fut' = [fut EXCEPT ![n] = v]

\* A handler or the network moves an operation on, or satisfies its promise and ends it.
LEMMA HandlerAdvances ==
    ASSUME TypeOK, Progress, NEW n \in Calls, HandlerNext(n) \/ NetworkNext(n)
    PROVE  Moves(n) \/ Settles(n)
<1>. USE DEF Unsatisfied, Advance
<1>1. CASE LastChunk(n)
  <2>1. Advance(n, "done") /\ Set(n, "void")
    BY <1>1 DEF LastChunk
  <2>2. fut' = [fut EXCEPT ![n] = "void"]
    BY <2>1, SetOnce
  <2>. QED  BY <2>1, <2>2, Zenon DEF Settles, Values
<1>2. CASE Invoke(n)
  <2>. DEFINE v == promise_handler_selector(sig, err[n])
  <2>1. Advance(n, "done") /\ Set(n, v)
    BY <1>2 DEF Invoke
  <2>2. v \in Values \cup Exceptions
    BY StoredValues DEF TypeOK
  <2>. HIDE DEF v
  <2>3. fut' = [fut EXCEPT ![n] = v]
    BY <2>1, SetOnce
  <2>. QED  BY <2>1, <2>2, <2>3, Zenon DEF Settles
<1>3. CASE InvokeFunction(n)
  BY <1>3 DEF InvokeFunction, Moves
<1>4. CASE SetResult(n)
  <2>1. PICK throws \in BOOLEAN : Set(n, promise_invoke_and_set(err[n], throws))
    BY <1>4, Zenon DEF SetResult
  <2>. DEFINE v == promise_invoke_and_set(err[n], throws)
  <2>2. Advance(n, "done")
    BY <1>4 DEF SetResult
  <2>3. v \in Values \cup Exceptions
    BY StoredValues DEF TypeOK, Signatures
  <2>. HIDE DEF v
  <2>4. fut' = [fut EXCEPT ![n] = v]
    BY <2>1, <2>2, SetOnce DEF v
  <2>. QED  BY <2>2, <2>3, <2>4, Zenon DEF Settles
<1>5. CASE Drop(n)
  <2>1. Advance(n, "dropped") /\ Set(n, "broken_promise")
    BY <1>5 DEF Drop
  <2>2. fut' = [fut EXCEPT ![n] = "broken_promise"]
    BY <2>1, SetOnce
  <2>. QED  BY <2>1, <2>2, Zenon DEF Settles, Exceptions
<1>6. CASE Chunk(n)
  BY <1>6 DEF Chunk, Moves
<1>7. ASSUME NEW e \in BOOLEAN, Complete(n, e)
      PROVE  Moves(n)
  <2>1. op[n] \in {"pending", "streaming"}
    BY <1>7 DEF Complete
  <2>. QED  BY <1>7, <2>1 DEF Complete, Moves
<1>. QED
  BY <1>1, <1>2, <1>3, <1>4, <1>5, <1>6, <1>7 DEF HandlerNext, NetworkNext

\* Progress is inductive.
LEMMA ProgressStep ==
    ASSUME TypeOK, TypeOK', Progress, [Next]_vars
    PROVE  Progress'
<1>. USE CallsAssumption DEF TypeOK, Calls, Progress, CallerInv, CallInv
<1>1. CASE UNCHANGED vars
  BY <1>1 DEF vars
<1>2. CASE Initiate
  <2>1. call' = call + 1 /\ call' \in Calls /\ pc = "idle" /\ pc' = "wait"
    BY <1>2 DEF Initiate
  <2>2. /\ op' = [op EXCEPT ![call'] = "pending"]
        /\ fut' = [fut EXCEPT ![call'] = "empty"]
        /\ UNCHANGED <<shape, ret>>
    BY <1>2 DEF Initiate, create_promise, async_result
  <2>3. CallerInv'
    BY <2>1
  <2>4. ASSUME NEW n \in Calls  PROVE CallInv(n)'
    <3>1. CASE n = call'
      BY <2>1, <2>2, <3>1 DEF Unsatisfied
    <3>2. CASE n # call'
      <4>1. op'[n] = op[n] /\ fut'[n] = fut[n] /\ shape'[n] = shape[n] /\ ret'[n] = ret[n]
        BY <2>2, <3>2
      <4>2. n > call' <=> n > call
        BY <2>1, <3>2
      <4>. QED  BY <2>1, <3>2, <4>1, <4>2
    <3>. QED  BY <3>1, <3>2
  <2>. QED  BY <2>3, <2>4
<1>3. CASE WaitReady
  BY <1>3 DEF WaitReady
<1>4. ASSUME NEW r, Return(r), pc # "idle",
             \/ r = "timeout" /\ shape[call] \in TimedShapes
             \/ r \in {"value", "failed", "threw"} /\ fut[call] # "empty"
      PROVE  Progress'
  <2>1. /\ pc' = "idle" /\ ret' = [ret EXCEPT ![call] = r]
        /\ UNCHANGED <<call, shape, op, fut>>
    BY <1>4 DEF Return
  <2>2. CallerInv'
    BY <2>1
  <2>3. ASSUME NEW n \in Calls  PROVE CallInv(n)'
    <3>1. CASE n = call
      BY <1>4, <2>1, <3>1
    <3>2. CASE n # call
      BY <2>1, <3>2
    <3>. QED  BY <3>1, <3>2
  <2>. QED  BY <2>2, <2>3
<1>5. CASE WaitTimeout
  BY <1>4, <1>5 DEF WaitTimeout
<1>6. CASE Get
  <2>1. fut[call] # "empty" /\ pc # "idle"
    BY <1>6 DEF Get
  <2>2. CASE Return("threw") \/ Return("failed")
    BY <1>4, <2>1, <2>2
  <2>3. CASE pc' = "use" /\ UNCHANGED <<call, shape, sig, op, err, fut, slot, ret, late>>
    BY <1>6, <2>1, <2>3
  <2>. QED  BY <1>6, <2>2, <2>3 DEF Get
<1>7. CASE Use
  BY <1>4, <1>7 DEF Use
<1>8. ASSUME NEW n \in Calls, Moves(n)
      PROVE  Progress'
  <2>1. PICK phase \in {"streaming", "completed", "invoked"} :
            /\ Advance(n, phase) /\ UNCHANGED fut
            /\ phase = "streaming" => shape[n] = "h2"
            /\ phase = "invoked" => shape[n] \in {"packaged", "resolve"}
    BY <1>8 DEF Moves
  <2>2. op[n] \in Unsatisfied \ {"none"} /\ phase \in Unsatisfied \ {"none"}
    BY <2>1 DEF Advance, Unsatisfied
  <2>3. CallerInv'
    BY <2>1 DEF Advance
  <2>4. ASSUME NEW m \in Calls  PROVE CallInv(m)'
    <3>1. CASE m = n
      BY <2>1, <2>2, <3>1 DEF Advance
    <3>2. CASE m # n
      BY <2>1, <3>2 DEF Advance
    <3>. QED  BY <3>1, <3>2
  <2>. QED  BY <2>3, <2>4
<1>9. ASSUME NEW n \in Calls, Settles(n)
      PROVE  Progress'
  <2>1. PICK phase \in {"done", "dropped"}, v \in Values \cup Exceptions :
            Advance(n, phase) /\ fut' = [fut EXCEPT ![n] = v]
    BY <1>9, Zenon DEF Settles
  <2>2. v # "empty" /\ op[n] \in Unsatisfied \ {"none"} /\ phase \notin Unsatisfied
    BY <2>1 DEF Advance, Unsatisfied, Values, Exceptions
  <2>3. CallerInv'
    BY <2>1, <2>2 DEF Advance
  <2>4. ASSUME NEW m \in Calls  PROVE CallInv(m)'
    <3>1. CASE m = n
      BY <2>1, <2>2, <3>1 DEF Advance, Unsatisfied
    <3>2. CASE m # n
      BY <2>1, <3>2 DEF Advance
    <3>. QED  BY <3>1, <3>2
  <2>. QED  BY <2>3, <2>4
<1>10. ASSUME NEW n \in Calls, HandlerNext(n) \/ NetworkNext(n)
       PROVE  Progress'
  <2>. HIDE DEF Progress
  <2>. QED  BY <1>8, <1>9, <1>10, HandlerAdvances
<1>. QED
  BY <1>1, <1>2, <1>3, <1>5, <1>6, <1>7, <1>10 DEF Next, CallerNext

\* How the calls and their operations stand is invariant.
LEMMA ProgressInvariant == Spec => [](TypeOK /\ Progress)
<1>1. Init => Progress
  BY CallsAssumption DEF Init, Progress, CallerInv, CallInv, Calls, Unsatisfied
<1>2. TypeOK /\ TypeOK' /\ Progress /\ [Next]_vars => Progress'
  BY ProgressStep
<1>. QED  BY <1>1, <1>2, TypeCorrect, PTL DEF Spec

\* A promise is satisfied once: whatever races with the completion of an operation,
\* nothing changes what the promise holds (impl/use_fiber_future.hpp:36-70, 287-516).
THEOREM SatisfiedOnceCorrect == Spec => SatisfiedOnce
<1>1. TypeOK /\ Progress /\ [Next]_vars
      => [\A n \in Calls : fut[n] # "empty" => fut'[n] = fut[n]]_vars
  <2>. SUFFICES ASSUME TypeOK, Progress, [Next]_vars,
                       NEW n \in Calls, fut[n] # "empty"
                PROVE  fut'[n] = fut[n]
    OBVIOUS
  <2>1. CASE CallerNext
    <3>1. CASE Initiate
      <4>1. n # call'
        BY <3>1, CallsAssumption
        DEF Initiate, Progress, CallInv, Unsatisfied, Calls, TypeOK
      <4>. QED  BY <3>1, <4>1 DEF Initiate, create_promise, TypeOK
    <3>2. CASE ~Initiate
      BY <2>1, <3>2 DEF CallerNext, WaitReady, WaitTimeout, Get, Use, Return
    <3>. QED  BY <3>1, <3>2
  <2>2. ASSUME NEW m \in Calls, HandlerNext(m) \/ NetworkNext(m)
        PROVE  fut'[n] = fut[n]
    <3>1. CASE Moves(m)
      BY <3>1 DEF Moves
    <3>2. CASE Settles(m)
      <4>1. fut[m] = "empty"
        BY <3>2, UnderWay DEF Settles, Advance
      <4>. QED  BY <3>2, <4>1 DEF Settles, TypeOK
    <3>. QED  BY <2>2, <3>1, <3>2, HandlerAdvances
  <2>3. CASE UNCHANGED vars
    BY <2>3 DEF vars
  <2>. QED  BY <2>1, <2>2, <2>3 DEF Next
<1>. QED  BY <1>1, ProgressInvariant, PTL DEF Spec, SatisfiedOnce

-----------------------------------------------------------------------------
(* Errors. *)

\* The promise says whether the operation failed.
ErrInv(n) ==
    /\ fut[n] \in Values \ {"ec_failed"} => ~err[n]
    /\ fut[n] \in {"system_error", "passed", "ec_failed"} => err[n]
    /\ ret[n] = "value" \/ (n = call /\ pc = "use") => fut[n] \in Values \ {"ec_failed"}
    /\ ret[n] = "failed" => fut[n] = "ec_failed"
    /\ err[n] => shape[n] # "h2"
    /\ shape[n] = "plain" /\ op[n] = "completed" /\ err[n] => sig.lead # "none"

\* A handler whose signature can carry an error stores an exception exactly for one.
LEMMA HandlerKnows ==
    ASSUME NEW s \in Signatures, NEW e \in BOOLEAN, e => s.lead # "none"
    PROVE  /\ e => promise_handler_selector(s, e) \in {"system_error", "passed"}
           /\ ~e => promise_handler_selector(s, e) \in {"void", "single", "tuple"}
<1>1. CASE e
  <2>1. \A lead : Exception(lead) \in {"system_error", "passed"}
    BY DEF Exception
  <2>. QED  BY <1>1, <2>1 DEF promise_handler_selector, promise_handler_0,
                              promise_handler_1, promise_handler_n
<1>2. CASE ~e
  BY <1>2 DEF promise_handler_selector, promise_handler_0, promise_handler_1,
              promise_handler_n
<1>. QED  BY <1>1, <1>2

\* The fiber has not left a call whose operation completed without a deadline.
LEMMA PlainWaits ==
    ASSUME TypeOK, Progress, NEW n \in Calls, shape[n] = "plain", op[n] = "completed"
    PROVE  FrameLives(n) /\ fut[n] = "empty"
BY UnderWay DEF Unsatisfied, TimedShapes

Errors == \A n \in Calls : ErrInv(n)

\* Errors is inductive.
LEMMA ErrorStep ==
    ASSUME TypeOK, TypeOK', Progress, Errors, [Next]_vars
    PROVE  Errors'
<1>. USE DEF TypeOK, Errors
<1>1. CASE UNCHANGED vars
  BY <1>1 DEF vars, ErrInv
<1>2. CASE Initiate
  <2>1. /\ call' = call + 1 /\ call' \in Calls /\ pc = "idle" /\ pc' = "wait"
        /\ op' = [op EXCEPT ![call'] = "pending"]
        /\ fut' = [fut EXCEPT ![call'] = "empty"]
        /\ UNCHANGED <<shape, err, ret>>
    BY <1>2, CallsAssumption DEF Initiate, create_promise, async_result, Calls
  <2>2. ASSUME NEW n \in Calls  PROVE ErrInv(n)'
    <3>1. CASE n = call'
      <4>1. ret[n] = "none"
        BY <2>1, <3>1 DEF Progress, CallInv
      <4>. QED  BY <2>1, <3>1, <4>1 DEF ErrInv, Values
    <3>2. CASE n # call'
      <4>1. ~(shape[n] = "plain" /\ op[n] = "completed")
        BY <2>1, PlainWaits DEF FrameLives
      <4>. QED  BY <2>1, <3>2, <4>1 DEF ErrInv
    <3>. QED  BY <3>1, <3>2
  <2>. QED  BY <2>2
<1>3. CASE WaitReady
  BY <1>3 DEF WaitReady, ErrInv
<1>4. ASSUME NEW r, Return(r), pc # "idle",
             \/ r = "timeout" /\ shape[call] \in TimedShapes
             \/ r = "value" /\ fut[call] \in Values \ {"ec_failed"}
             \/ r = "failed" /\ fut[call] = "ec_failed"
             \/ r = "threw" /\ fut[call] # "empty"
      PROVE  Errors'
  <2>1. /\ pc' = "idle" /\ ret' = [ret EXCEPT ![call] = r]
        /\ UNCHANGED <<call, shape, op, err, fut>>
    BY <1>4 DEF Return
  <2>2. ASSUME NEW n \in Calls  PROVE ErrInv(n)'
    <3>1. ~(shape[n] = "plain" /\ op[n] = "completed")
      BY <1>4, PlainWaits DEF FrameLives, TimedShapes, Values
    <3>2. CASE n = call
      BY <1>4, <2>1, <3>1, <3>2 DEF ErrInv
    <3>3. CASE n # call
      BY <2>1, <3>1, <3>3 DEF ErrInv
    <3>. QED  BY <3>2, <3>3
  <2>. QED  BY <2>2
<1>5. CASE WaitTimeout
  BY <1>4, <1>5 DEF WaitTimeout
<1>6. CASE Get
  <2>1. CASE Return("threw") /\ fut[call] \in Exceptions
    BY <1>4, <1>6, <2>1 DEF Get, Exceptions
  <2>2. CASE Return("failed") /\ fut[call] = "ec_failed"
    BY <1>4, <1>6, <2>2 DEF Get
  <2>3. CASE /\ fut[call] \in Values \ {"ec_failed"}
             /\ pc' = "use" /\ UNCHANGED <<call, shape, sig, op, err, fut, slot, ret, late>>
    BY <2>3 DEF ErrInv
  <2>. QED  BY <1>6, <2>1, <2>2, <2>3 DEF Get
<1>7. CASE Use
  <2>1. call \in Calls /\ fut[call] \in Values \ {"ec_failed"}
    BY <1>7 DEF Use, Progress, CallerInv, ErrInv
  <2>. QED  BY <1>4, <1>7, <2>1 DEF Use
<1>8. ASSUME NEW n \in Calls, NEW phase \in {"done", "dropped"},
             NEW v \in Values \cup Exceptions,
             Advance(n, phase), UNCHANGED <<sig, err>>,
             fut' = [fut EXCEPT ![n] = v],
             v \in Values \ {"ec_failed"} => ~err[n],
             v \in {"system_error", "passed", "ec_failed"} => err[n]
      PROVE  Errors'
  <2>1. fut[n] = "empty"
    BY <1>8, UnderWay DEF Advance
  <2>2. op' = [op EXCEPT ![n] = phase] /\ UNCHANGED <<call, pc, shape, ret, sig, err>>
    BY <1>8 DEF Advance
  <2>3. ErrInv(n)'
    <3>1. ~(ret[n] = "value" \/ (n = call /\ pc = "use")) /\ ret[n] # "failed"
      BY <2>1 DEF ErrInv, Values
    <3>2. fut'[n] = v /\ op'[n] # "completed"
      BY <1>8, <2>2
    <3>3. err[n] => shape[n] # "h2"
      BY DEF ErrInv
    <3>. QED  BY <1>8, <2>2, <3>1, <3>2, <3>3 DEF ErrInv
  <2>4. ASSUME NEW m \in Calls, m # n  PROVE ErrInv(m)'
    <3>1. op'[m] = op[m] /\ fut'[m] = fut[m]
      BY <1>8, <2>2, <2>4
    <3>. QED  BY <2>2, <3>1 DEF ErrInv
  <2>. QED  BY <2>3, <2>4
<1>9. ASSUME NEW n \in Calls, NEW phase \in {"streaming", "invoked"}, Advance(n, phase),
             UNCHANGED <<sig, err, fut>>
      PROVE  Errors'
  <2>. SUFFICES ASSUME NEW m \in Calls PROVE ErrInv(m)'
    OBVIOUS
  <2>1. op'[m] = op[m] \/ op'[m] \in {"streaming", "invoked"}
    BY <1>9 DEF Advance
  <2>2. UNCHANGED <<call, pc, shape, ret, sig, err, fut>>
    BY <1>9 DEF Advance
  <2>. QED  BY <2>1, <2>2 DEF ErrInv
<1>10. ASSUME NEW n \in Calls, HandlerNext(n)
       PROVE  Errors'
  <2>. USE DEF Unsatisfied, Advance
  <2>1. CASE LastChunk(n)
    <3>1. Advance(n, "done") /\ Set(n, "void") /\ shape[n] = "h2" /\ UNCHANGED <<sig, err>>
      BY <2>1 DEF LastChunk
    <3>2. fut' = [fut EXCEPT ![n] = "void"]
      BY <3>1, SetOnce
    <3>3. ~err[n]
      BY <3>1 DEF ErrInv
    <3>. QED  BY <1>8, <3>1, <3>2, <3>3, Zenon DEF Values
  <2>2. CASE Invoke(n)
    <3>. DEFINE v == promise_handler_selector(sig, err[n])
    <3>1. /\ Advance(n, "done") /\ Set(n, v) /\ UNCHANGED <<sig, err>>
          /\ shape[n] = "plain" /\ op[n] = "completed"
      BY <2>2 DEF Invoke
    <3>2. err[n] => sig.lead # "none"
      BY <3>1 DEF ErrInv
    <3>3. v \in Values \cup Exceptions
      BY StoredValues
    <3>4. err[n] => v \in {"system_error", "passed"}
      BY <3>2, HandlerKnows, Zenon
    <3>5. ~err[n] => v \in {"void", "single", "tuple"}
      BY <3>2, HandlerKnows
    <3>. HIDE DEF v
    <3>6. fut' = [fut EXCEPT ![n] = v]
      BY <3>1, SetOnce
    <3>. QED  BY <1>8, <3>1, <3>3, <3>4, <3>5, <3>6, Zenon DEF Values
  <2>3. CASE InvokeFunction(n)
    BY <1>9, <2>3, Zenon DEF InvokeFunction
  <2>4. CASE SetResult(n)
    <3>1. PICK throws \in BOOLEAN : Set(n, promise_invoke_and_set(err[n], throws))
      BY <2>4, Zenon DEF SetResult
    <3>. DEFINE v == promise_invoke_and_set(err[n], throws)
    <3>2. Advance(n, "done") /\ UNCHANGED <<sig, err>>
      BY <2>4 DEF SetResult
    <3>3. v \in {"thrown", "ec_failed", "ec_ok"}
      BY DEF promise_invoke_and_set
    <3>4. v = "ec_failed" => err[n]
      BY DEF promise_invoke_and_set
    <3>5. v = "ec_ok" => ~err[n]
      BY DEF promise_invoke_and_set
    <3>. HIDE DEF v
    <3>6. fut' = [fut EXCEPT ![n] = v]
      BY <3>1, <3>2, SetOnce DEF v
    <3>. QED  BY <1>8, <3>2, <3>3, <3>4, <3>5, <3>6, Zenon DEF Values, Exceptions
  <2>. QED  BY <1>10, <2>1, <2>2, <2>3, <2>4 DEF HandlerNext
<1>11. ASSUME NEW n \in Calls, NetworkNext(n)
       PROVE  Errors'
  <2>. USE DEF Unsatisfied, Advance
  <2>1. CASE Drop(n)
    <3>1. Advance(n, "dropped") /\ Set(n, "broken_promise") /\ UNCHANGED <<sig, err>>
      BY <2>1 DEF Drop
    <3>2. fut' = [fut EXCEPT ![n] = "broken_promise"]
      BY <3>1, SetOnce
    <3>. QED  BY <1>8, <3>1, <3>2, Zenon DEF Values, Exceptions
  <2>2. CASE Chunk(n)
    BY <1>9, <2>2, Zenon DEF Chunk
  <2>3. ASSUME NEW e \in BOOLEAN, Complete(n, e)
        PROVE  Errors'
    <3>1. /\ op[n] \in {"pending", "streaming"} /\ op' = [op EXCEPT ![n] = "completed"]
          /\ UNCHANGED <<call, pc, shape, sig, fut, ret>>
      BY <2>3 DEF Complete
    <3>2. err' = [err EXCEPT ![n] = e]
      BY <2>3 DEF Complete
    <3>3. fut[n] = "empty"
      BY <3>1, UnderWay
    <3>4. ~(ret[n] = "value" \/ (n = call /\ pc = "use")) /\ ret[n] # "failed"
      BY <3>3 DEF ErrInv, Values
    <3>5. err'[n] => shape[n] # "h2" /\ (shape[n] = "plain" => sig.lead # "none")
      BY <2>3, <3>2 DEF Complete
    <3>6. ErrInv(n)'
      BY <3>1, <3>3, <3>4, <3>5 DEF ErrInv, Values
    <3>7. ASSUME NEW m \in Calls, m # n  PROVE ErrInv(m)'
      <4>1. op'[m] = op[m] /\ err'[m] = err[m]
        BY <3>1, <3>2, <3>7
      <4>. QED  BY <3>1, <4>1 DEF ErrInv
    <3>. QED  BY <3>6, <3>7
  <2>. QED  BY <1>11, <2>1, <2>2, <2>3 DEF NetworkNext
<1>. QED
  BY <1>1, <1>2, <1>3, <1>5, <1>6, <1>7, <1>10, <1>11 DEF Next, CallerNext

\* The invariant behind FailureConveyed.
LEMMA ErrorInvariant == Spec => [](TypeOK /\ Progress /\ Errors)
<1>1. Init => Errors
  BY DEF Init, Errors, ErrInv, Values
<1>2. TypeOK /\ TypeOK' /\ Progress /\ Errors /\ [Next]_vars => Errors'
  BY ErrorStep
<1>. QED  BY <1>1, <1>2, ProgressInvariant, PTL DEF Spec

\* What a caller is told about its operation is true: it goes on only after a success
\* and reports an error only when there was one (use_fiber_future.hpp:56-59).
THEOREM FailureConveyedCorrect == Spec => []FailureConveyed
<1>1. Errors => FailureConveyed
  BY DEF Errors, ErrInv, FailureConveyed
<1>. QED  BY <1>1, ErrorInvariant, PTL

-----------------------------------------------------------------------------
(* Frames. *)

\* Who writes late has timed out.
LEMMA LateStep ==
    ASSUME TypeOK, Progress, LateOnlyAfterTimeout, [Next]_vars
    PROVE  LateOnlyAfterTimeout'
<1>. USE DEF TypeOK, LateOnlyAfterTimeout
<1>1. CASE UNCHANGED vars \/ Initiate \/ WaitReady
  BY <1>1 DEF vars, Initiate, WaitReady
<1>2. ASSUME NEW r, Return(r), pc # "idle"
      PROVE  LateOnlyAfterTimeout'
  <2>1. call \notin late
    BY <1>2 DEF Progress, CallerInv, CallInv
  <2>. QED  BY <1>2, <2>1 DEF Return
<1>3. CASE WaitTimeout \/ Get \/ Use
  BY <1>2, <1>3 DEF WaitTimeout, Get, Use
<1>4. ASSUME NEW n \in Calls, NEW x, Write(n, x), UNCHANGED ret,
             op[n] \in Unsatisfied \ {"none"}
      PROVE  LateOnlyAfterTimeout'
  <2>1. CASE FrameLives(n)
    BY <1>4, <2>1 DEF Write
  <2>2. CASE ~FrameLives(n)
    <3>1. ret[n] = "timeout"
      BY <1>4, <2>2, UnderWay
    <3>2. late' = late \cup {n}
      BY <1>4, <2>2 DEF Write
    <3>. QED  BY <1>4, <3>1, <3>2
  <2>. QED  BY <2>1, <2>2
<1>5. ASSUME NEW n \in Calls, InvokeFunction(n) \/ Chunk(n)
      PROVE  LateOnlyAfterTimeout'
  BY <1>4, <1>5 DEF InvokeFunction, Chunk, Unsatisfied
<1>6. ASSUME NEW n \in Calls,
             \/ LastChunk(n) \/ Invoke(n) \/ SetResult(n) \/ Drop(n)
             \/ \E e \in BOOLEAN : Complete(n, e)
      PROVE  LateOnlyAfterTimeout'
  BY <1>6, Zenon DEF LastChunk, Invoke, SetResult, Drop, Complete
<1>. QED
  BY <1>1, <1>3, <1>5, <1>6 DEF Next, CallerNext, HandlerNext, NetworkNext

\* The handler of the current call has written its result.
Wrote ==
    /\ pc # "idle"
    /\ ~err[call]
    /\ \/ shape[call] \in {"packaged", "resolve"} /\ op[call] \in {"invoked", "done"}
       \/ shape[call] = "h2" /\ op[call] \in {"streaming", "completed", "done"}

\* From then on the local holds it, until a late handler comes in between.
SlotInv ==
    /\ \A n \in Calls : op[n] = "dropped" => fut[n] = "broken_promise"
    /\ Wrote /\ slot # call => \E n \in late : n < call /\ shape[n] \in TimedShapes

\* SlotInv is inductive.
LEMMA SlotStep ==
    ASSUME TypeOK, Progress, Errors, SlotInv, [Next]_vars
    PROVE  SlotInv'
<1>. DEFINE Broken == \A n \in Calls : op[n] = "dropped" => fut[n] = "broken_promise"
            Excused == \E n \in late : n < call /\ shape[n] \in TimedShapes
<1>. USE DEF TypeOK
<1>0. Broken /\ (Wrote /\ slot # call => Excused)
  BY DEF SlotInv
<1>1. CASE UNCHANGED vars
  BY <1>1 DEF vars, SlotInv, Wrote
<1>2. CASE Initiate
  <2>1. /\ call' \in Calls /\ op' = [op EXCEPT ![call'] = "pending"]
        /\ op[call'] = "none" /\ fut' = [fut EXCEPT ![call'] = "empty"]
    BY <1>2, CallsAssumption
    DEF Initiate, create_promise, async_result, Progress, CallInv, Calls
  <2>2. Broken'
    BY <1>0, <2>1
  <2>3. ~Wrote'
    BY <2>1 DEF Wrote
  <2>. QED  BY <2>2, <2>3 DEF SlotInv
<1>3. ASSUME NEW r, Return(r)
      PROVE  SlotInv'
  <2>1. ~Wrote' /\ Broken'
    BY <1>0, <1>3 DEF Return, Wrote
  <2>. QED  BY <2>1 DEF SlotInv
<1>4. ASSUME pc # "idle", UNCHANGED <<call, shape, op, err, fut, slot, late>>
      PROVE  SlotInv'
  BY <1>0, <1>4 DEF SlotInv, Wrote
<1>5. CASE CallerNext
  BY <1>2, <1>3, <1>4, <1>5 DEF CallerNext, WaitReady, WaitTimeout, Get, Use
<1>6. ASSUME NEW n \in Calls, Settles(n) \/ Moves(n),
             op'[n] = "dropped" => fut'[n] = "broken_promise"
      PROVE  Broken'
  BY <1>0, <1>6 DEF Settles, Moves, Advance
<1>7. ASSUME NEW n \in Calls, HandlerNext(n) \/ NetworkNext(n)
      PROVE  Broken'
  <2>1. op'[n] = "dropped" => Drop(n)
    BY <1>7, Zenon DEF HandlerNext, NetworkNext, LastChunk, Invoke, InvokeFunction, SetResult,
                Chunk, Complete
  <2>2. Drop(n) => fut'[n] = "broken_promise"
    BY SetOnce DEF Drop, Unsatisfied
  <2>. QED  BY <1>6, <1>7, <2>1, <2>2, HandlerAdvances
<1>8. ASSUME NEW n \in Calls, UNCHANGED <<call, pc, shape, slot, late>>, Wrote' => Wrote,
             HandlerNext(n) \/ NetworkNext(n)
      PROVE  SlotInv'
  BY <1>0, <1>7, <1>8 DEF SlotInv
<1>9. ASSUME NEW n \in Calls, NEW x, Write(n, x), HandlerNext(n) \/ NetworkNext(n),
             op[n] \in Unsatisfied \ {"none"}, UNCHANGED <<call, pc, shape>>,
             n = call /\ Wrote' => x = call,
             n # call /\ Wrote' => Wrote
      PROVE  SlotInv'
  <2>1. CASE FrameLives(n)
    BY <1>7, <1>9, <2>1 DEF Write, FrameLives, SlotInv
  <2>2. CASE ~FrameLives(n) /\ Wrote'
    <3>1. n # call
      BY <1>9, <2>2 DEF FrameLives, Wrote
    <3>2. n < call /\ shape[n] \in TimedShapes
      BY <1>9, <2>2, <3>1, UnderWay, CallsAssumption DEF Calls
    <3>3. n \in late'
      BY <1>9, <2>2 DEF Write
    <3>. QED  BY <1>7, <1>9, <3>2, <3>3 DEF SlotInv
  <2>3. CASE ~Wrote'
    BY <1>7, <1>9, <2>3 DEF SlotInv
  <2>. QED  BY <2>1, <2>2, <2>3
<1>10. ASSUME NEW n \in Calls, InvokeFunction(n)
       PROVE  SlotInv'
  <2>1. n = call /\ Wrote' => (IF err[n] THEN 0 ELSE n) = call
    BY <1>10 DEF InvokeFunction, Wrote
  <2>2. n # call /\ Wrote' => Wrote
    BY <1>10 DEF InvokeFunction, Wrote, Progress, CallerInv
  <2>. QED  BY <1>9, <1>10, <2>1, <2>2, Zenon DEF InvokeFunction, HandlerNext, Unsatisfied
<1>11. ASSUME NEW n \in Calls, Chunk(n)
       PROVE  SlotInv'
  <2>1. n # call /\ Wrote' => Wrote
    BY <1>11 DEF Chunk, Wrote, Progress, CallerInv
  <2>. QED  BY <1>9, <1>11, <2>1, Zenon DEF Chunk, NetworkNext, Unsatisfied
<1>12. ASSUME NEW n \in Calls, LastChunk(n) \/ Invoke(n) \/ SetResult(n) \/ Drop(n)
       PROVE  SlotInv'
  <2>1. UNCHANGED <<call, pc, shape, slot, late, err>>
    BY <1>12, Zenon DEF LastChunk, Invoke, SetResult, Drop
  <2>2. Wrote' => Wrote
    <3>1. CASE n = call
      <4>1. CASE LastChunk(n)
        BY <2>1, <3>1, <4>1 DEF LastChunk, Wrote
      <4>2. CASE SetResult(n)
        BY <2>1, <3>1, <4>2 DEF SetResult, Wrote, Progress, CallInv
      <4>3. CASE Invoke(n) \/ Drop(n)
        <5>1. shape[n] = "plain" \/ op'[n] = "dropped"
          BY <4>3 DEF Invoke, Drop
        <5>. QED  BY <2>1, <3>1, <5>1 DEF Wrote
      <4>. QED  BY <1>12, <4>1, <4>2, <4>3
    <3>2. CASE n # call
      <4>1. call \in Calls => op'[call] = op[call]
        BY <1>12, <3>2, Zenon DEF LastChunk, Invoke, SetResult, Drop
      <4>. QED  BY <2>1, <4>1 DEF Wrote, Progress, CallerInv
    <3>. QED  BY <3>1, <3>2
  <2>. QED  BY <1>8, <1>12, <2>1, <2>2 DEF HandlerNext, NetworkNext
<1>13. ASSUME NEW n \in Calls, NEW e \in BOOLEAN, Complete(n, e)
       PROVE  SlotInv'
  <2>1. UNCHANGED <<call, pc, shape, slot, late>>
    BY <1>13 DEF Complete
  <2>2. op' = [op EXCEPT ![n] = "completed"] /\ (shape[n] = "h2" => op[n] = "streaming")
    BY <1>13 DEF Complete
  <2>3. \A m \in Calls : m # n => err'[m] = err[m]
    BY <1>13 DEF Complete
  <2>4. Wrote' => Wrote
    <3>1. CASE n = call
      BY <2>1, <2>2, <3>1 DEF Wrote, Errors, ErrInv
    <3>2. CASE n # call
      BY <2>1, <2>2, <2>3, <3>2 DEF Wrote, Progress, CallerInv
    <3>. QED  BY <3>1, <3>2
  <2>. QED  BY <1>8, <1>13, <2>1, <2>4 DEF NetworkNext
<1>. QED
  BY <1>1, <1>5, <1>10, <1>11, <1>12, <1>13 DEF Next, HandlerNext, NetworkNext

\* Only a timeout separates a handler from the frame it refers to, and only such a
\* handler gives a later caller a result not its own (multi_client_http.cpp:478, :749).
THEOREM OwnFrameCorrect == Spec => []OwnFrame
<1>1. Init => LateOnlyAfterTimeout /\ SlotInv
  BY DEF Init, LateOnlyAfterTimeout, SlotInv, Wrote
<1>2. TypeOK /\ Progress /\ Errors /\ LateOnlyAfterTimeout /\ SlotInv /\ [Next]_vars
      => LateOnlyAfterTimeout' /\ SlotInv'
  BY LateStep, SlotStep
<1>3. ASSUME TypeOK, Progress, Errors, SlotInv  PROVE OwnResult
  <2>. SUFFICES ASSUME pc = "use", shape[call] # "plain", slot # call
                PROVE  \E n \in late : n < call /\ shape[n] \in TimedShapes
    BY DEF OwnResult
  <2>1. call \in Calls /\ fut[call] \in Values \ {"ec_failed"} /\ ~err[call]
    BY <1>3 DEF Progress, CallerInv, Errors, ErrInv
  <2>2. op[call] = "done"
    BY <1>3, <2>1 DEF TypeOK, Progress, CallInv, SlotInv, Unsatisfied, Values
  <2>3. shape[call] \in {"packaged", "resolve", "h2"}
    BY <1>3, <2>1, ShapesAssumption, Zenon DEF TypeOK, AllShapes
  <2>. QED  BY <1>3, <2>1, <2>2, <2>3 DEF SlotInv, Wrote
<1>4. TypeOK /\ Progress /\ Errors /\ LateOnlyAfterTimeout /\ SlotInv => OwnFrame
  BY <1>3 DEF OwnFrame
<1>. QED  BY <1>1, <1>2, <1>4, ErrorInvariant, PTL DEF Spec

-----------------------------------------------------------------------------
(* FiberProcess: the least free session. *)

LOCAL INSTANCE WellFoundedInduction

\* The pool takes one of the free positions.
LEMMA MinMember ==
    ASSUME NEW S, S \subseteq Nat, S # {}
    PROVE  Db!Min(S) \in S
<1>. DEFINE less == OpToRel(<, Nat)
<1>1. IsWellFoundedOn(less, Nat)
  BY NatLessThanWellFounded, Zenon
<1>2. \A x, y \in Nat : y < x => <<y, x>> \in less
  BY DEF OpToRel
<1>. HIDE DEF less
<1>3. PICK x \in S : \A y \in S : <<y, x>> \notin less
  BY <1>1, WFMin, Zenon
<1>4. \A y \in S : x <= y
  <2>1. \A y \in S : x \in Nat /\ y \in Nat
    OBVIOUS
  <2>2. \A y \in S : ~(y < x)
    BY <1>2, <1>3, <2>1, Zenon
  <2>. QED  BY <2>1, <2>2
<1>. QED  BY <1>3, <1>4, Zenon DEF Db!Min

-----------------------------------------------------------------------------
(* The types of FiberProcess. *)

\* A session that is leased has a position that was free.
LEMMA LeasesFree ==
    ASSUME NEW u \in Users, Db!Lease(u)
    PROVE  \E pos \in Db!Positions \ taken :
              taken' = taken \cup {pos} /\ held' = [held EXCEPT ![u] = pos]
<1>. DEFINE free == Db!Positions \ taken
<1>1. free \subseteq Nat /\ free # {}
  BY ConnectAssumption DEF Db!Lease, Db!Positions
<1>2. Db!Min(free) \in free
  BY <1>1, MinMember
<1>. QED  BY <1>2, Zenon DEF Db!Lease

\* What the pool of sessions does.
PoolStep ==
    \/ Db!ResetPool \/ Db!Open
    \/ \E u \in Users : Db!Call(u) \/ Db!Lease(u) \/ Db!TryLeaseFails(u) \/ Db!GiveBack(u)

\* Every step of the process is one of each component, or leaves it alone.
LEMMA ProcessCases ==
    ASSUME [ProcessNext]_processVars
    PROVE  /\ FrameNext \/ UNCHANGED frameVars
           /\ PoolStep \/ UNCHANGED dbVars
<1>. USE DEF FrameNext, PoolStep, FrameOnly
<1>1. CASE UNCHANGED processVars
  BY <1>1 DEF processVars
<1>2. CASE (InitStep /\ FrameOnly) \/ StartDb \/ Launch \/ JoinAll
  BY <1>2 DEF StartDb, Launch, JoinAll
<1>3. ASSUME NEW t \in Runners, StopThread(t)
      PROVE  (FrameNext \/ UNCHANGED frameVars) /\ (PoolStep \/ UNCHANGED dbVars)
  BY <1>3 DEF StopThread, Runners
<1>4. ASSUME NEW s \in Stoppers, (ClearRunning(s) \/ NotifyAll(s)) /\ FrameOnly
      PROVE  (FrameNext \/ UNCHANGED frameVars) /\ (PoolStep \/ UNCHANGED dbVars)
  BY <1>4
<1>5. ASSUME NEW u \in Users, FiberStep(u)
      PROVE  (FrameNext \/ UNCHANGED frameVars) /\ (PoolStep \/ UNCHANGED dbVars)
  BY <1>5 DEF FiberStep, Run, Wake, Suspend, CallSession, LeaseSession, EndFiber
<1>. QED  BY <1>1, <1>2, <1>3, <1>4, <1>5 DEF ProcessNext

\* The steps of the frame keep its types.
LEMMA FrameTypes ==
    ASSUME FrameTypeOK, FrameNext \/ UNCHANGED frameVars
    PROVE  FrameTypeOK'
<1>. USE ThreadAssumption DEF FrameTypeOK, Threads, Wanted
<1>1. CASE UNCHANGED frameVars
  BY <1>1 DEF frameVars
<1>2. CASE InitStep
  <2>1. CASE created < Wanted
    BY <1>2, <2>1 DEF InitStep
  <2>2. CASE ~(created < Wanted)
    BY <1>2, <2>2 DEF InitStep
  <2>. QED  BY <2>1, <2>2
<1>3. CASE CallWait \/ Join
  BY <1>3 DEF CallWait, Join
<1>4. CASE MainCheckStop
  BY <1>4 DEF MainCheckStop
<1>5. ASSUME NEW t \in Threads, CheckStop(t)
      PROVE  FrameTypeOK'
  <2>1. threads' \in [Threads -> {"none", "check", "wait", "exited"}]
    BY <1>5 DEF CheckStop
  <2>. QED  BY <1>5, <2>1 DEF CheckStop
<1>6. ASSUME NEW s \in Stoppers, ClearRunning(s)
      PROVE  FrameTypeOK'
  BY <1>6, Zenon DEF ClearRunning
<1>7. ASSUME NEW s \in Stoppers, NotifyAll(s)
      PROVE  FrameTypeOK'
  BY <1>7 DEF NotifyAll
<1>. QED  BY <1>1, <1>2, <1>3, <1>4, <1>5, <1>6, <1>7 DEF FrameNext

PoolTypeOK ==
    /\ started \in {"no", "opening", "yes", "failed"} /\ opened \in 0..m_connect_num
    /\ taken \subseteq Db!Positions /\ held \in [Users -> {0} \cup Db!Positions]
    /\ leasing \in [Users -> {"none", "lease", "try_lease"}]

\* The steps of the pool keep its types.
LEMMA PoolTypes ==
    ASSUME PoolTypeOK, PoolStep \/ UNCHANGED dbVars
    PROVE  PoolTypeOK'
<1>. USE ConnectAssumption DEF PoolTypeOK
<1>1. CASE UNCHANGED dbVars
  BY <1>1 DEF dbVars
<1>2. CASE Db!ResetPool
  BY <1>2 DEF Db!ResetPool
<1>3. CASE Db!Open
  BY <1>3 DEF Db!Open
<1>4. ASSUME NEW u \in Users, Db!Call(u)
      PROVE  PoolTypeOK'
  BY <1>4 DEF Db!Call
<1>5. ASSUME NEW u \in Users, Db!Lease(u)
      PROVE  PoolTypeOK'
  <2>1. leasing' = [leasing EXCEPT ![u] = "none"] /\ UNCHANGED <<started, opened>>
    BY <1>5 DEF Db!Lease
  <2>. QED  BY <1>5, <2>1, LeasesFree
<1>6. ASSUME NEW u \in Users, Db!TryLeaseFails(u) \/ Db!GiveBack(u)
      PROVE  PoolTypeOK'
  BY <1>6 DEF Db!TryLeaseFails, Db!GiveBack
<1>. QED  BY <1>1, <1>2, <1>3, <1>4, <1>5, <1>6 DEF PoolStep

FibersOK ==
    /\ fiber \in [Users -> {"none", "ready", "running", "suspended", "done"}]
    /\ on \in [Users -> Runners \cup {NoThread}]
    /\ \A u, v \in Users :
        u # v /\ fiber[u] = "running" /\ fiber[v] = "running" => on[u] # on[v]

\* A thread that takes a fiber runs no other.
LEMMA FiberTypes ==
    ASSUME FibersOK, [ProcessNext]_processVars
    PROVE  FibersOK'
<1>. USE DEF FibersOK
<1>1. CASE UNCHANGED <<fiber, on>>
  BY <1>1
<1>2. CASE Launch
  BY <1>2 DEF Launch
<1>3. ASSUME NEW u \in Users, Run(u)
      PROVE  FibersOK'
  <2>1. PICK t \in Runners : Free(t) /\ on' = [on EXCEPT ![u] = t]
    BY <1>3, Zenon DEF Run
  <2>2. \A v \in Users : fiber[v] = "running" => on[v] # t
    BY <2>1 DEF Free, Occupied
  <2>3. fiber' = [fiber EXCEPT ![u] = "running"]
    BY <1>3 DEF Run
  <2>. QED  BY <2>1, <2>2, <2>3
<1>4. ASSUME NEW u \in Users, Wake(u) \/ Suspend(u) \/ EndFiber(u)
      PROVE  FibersOK'
  <2>1. CASE Wake(u)
    BY <2>1 DEF Wake
  <2>2. CASE Suspend(u)
    BY <2>2 DEF Suspend
  <2>3. CASE EndFiber(u)
    BY <2>3 DEF EndFiber
  <2>. QED  BY <1>4, <2>1, <2>2, <2>3
<1>5. ASSUME NEW u \in Users, CallSession(u) \/ LeaseSession(u)
      PROVE  UNCHANGED <<fiber, on>>
  BY <1>5 DEF CallSession, LeaseSession
<1>6. CASE StartDb \/ JoinAll \/ FrameOnly \/ \E t \in Runners : StopThread(t)
  BY <1>1, <1>6 DEF StartDb, JoinAll, FrameOnly, StopThread
<1>7. CASE UNCHANGED processVars
  BY <1>1, <1>7 DEF processVars
<1>. QED  BY <1>1, <1>2, <1>3, <1>4, <1>5, <1>6, <1>7 DEF ProcessNext, FiberStep

\* The variables keep their types, and a thread runs at most one fiber.
THEOREM ProcessTypeCorrect == ProcessSpec => []ProcessTypeOK
<1>. DEFINE Inv == FrameTypeOK /\ PoolTypeOK /\ FibersOK
<1>1. ProcessInit => Inv
  BY ThreadAssumption, ConnectAssumption
  DEF ProcessInit, FrameInit, Db!Init, FrameTypeOK, Threads, Wanted, PoolTypeOK, FibersOK
<1>2. Inv /\ [ProcessNext]_processVars => Inv'
  BY ProcessCases, FrameTypes, PoolTypes, FiberTypes
<1>3. Inv => ProcessTypeOK
  BY DEF PoolTypeOK, FibersOK, ProcessTypeOK
<1>. HIDE DEF Inv
<1>. QED  BY <1>1, <1>2, <1>3, PTL DEF ProcessSpec

-----------------------------------------------------------------------------
(* notify_stop() *)

\* Some sleeper, on the condition variable.
Sleeping == main = "wait" \/ \E t \in Threads : threads[t] = "wait"

\* NoLostStop is inductive: who goes to sleep has seen m_running under the mutex, and
\* whoever clears it has yet to notify.
LEMMA StopStep ==
    ASSUME FrameTypeOK, NoLostStop, FrameNext \/ UNCHANGED frameVars
    PROVE  NoLostStop'
<1>. USE DEF FrameTypeOK
<1>0. ~m_running /\ Sleeping => \E s \in Stoppers : stopper[s] = "notify"
  BY DEF NoLostStop, Sleeping
<1>1. ASSUME UNCHANGED <<m_running, stopper>>, Sleeping' => Sleeping \/ m_running
      PROVE  NoLostStop'
  BY <1>0, <1>1 DEF NoLostStop, Sleeping
<1>2. CASE UNCHANGED frameVars
  BY <1>1, <1>2 DEF frameVars, Sleeping
<1>3. CASE InitStep
  BY <1>1, <1>3 DEF InitStep, Sleeping
<1>4. CASE CallWait \/ Join
  BY <1>1, <1>4 DEF CallWait, Join, Sleeping
<1>5. CASE MainCheckStop
  BY <1>1, <1>5 DEF MainCheckStop, Sleeping
<1>6. ASSUME NEW t \in Threads, CheckStop(t)
      PROVE  NoLostStop'
  BY <1>1, <1>6 DEF CheckStop, Sleeping
<1>7. ASSUME NEW s \in Stoppers, ClearRunning(s)
      PROVE  NoLostStop'
  BY <1>7 DEF ClearRunning, NoLostStop
<1>8. ASSUME NEW s \in Stoppers, NotifyAll(s)
      PROVE  NoLostStop'
  <2>1. ~Sleeping'
    BY <1>8 DEF NotifyAll, Sleeping
  <2>. QED  BY <2>1 DEF NoLostStop, Sleeping
<1>. QED  BY <1>2, <1>3, <1>4, <1>5, <1>6, <1>7, <1>8 DEF FrameNext

\* Nobody sleeps through notify_stop(), although it notifies after it has released the
\* mutex (fiber_frame_context.hpp:50-92).
THEOREM NoLostStopCorrect == ProcessSpec => []NoLostStop
<1>1. ProcessInit => NoLostStop
  BY DEF ProcessInit, FrameInit, NoLostStop
<1>2. ProcessTypeOK /\ NoLostStop /\ [ProcessNext]_processVars => NoLostStop'
  BY StopStep, ProcessCases DEF ProcessTypeOK
<1>. QED  BY <1>1, <1>2, ProcessTypeCorrect, PTL DEF ProcessSpec

-----------------------------------------------------------------------------
(* The sessions *)

\* A position is taken exactly while one fiber holds its session, and who waits in
\* session() holds none.
LeaseInv ==
    /\ \A u \in Users : held[u] # 0 => held[u] \in taken
    /\ \A pos \in taken : \E u \in Users : held[u] = pos
    /\ \A u, v \in Users : held[u] # 0 /\ held[u] = held[v] => u = v
    /\ \A u \in Users : leasing[u] # "none" => held[u] = 0

\* 0 stands for no session.
LEMMA PositionsPositive == 0 \notin Db!Positions
BY ConnectAssumption DEF Db!Positions

\* LeaseInv is inductive.
LEMMA LeaseStep ==
    ASSUME PoolTypeOK, LeaseInv, PoolStep \/ UNCHANGED dbVars
    PROVE  LeaseInv'
<1>. USE PositionsPositive DEF PoolTypeOK, LeaseInv
<1>1. CASE UNCHANGED dbVars
  BY <1>1 DEF dbVars
<1>2. CASE Db!ResetPool \/ Db!Open
  BY <1>2 DEF Db!ResetPool, Db!Open
<1>3. ASSUME NEW u \in Users, Db!Call(u)
      PROVE  LeaseInv'
  BY <1>3 DEF Db!Call
<1>4. ASSUME NEW u \in Users, Db!Lease(u)
      PROVE  LeaseInv'
  <2>1. PICK pos \in Db!Positions \ taken :
            taken' = taken \cup {pos} /\ held' = [held EXCEPT ![u] = pos]
    BY <1>4, LeasesFree
  <2>2. held[u] = 0 /\ leasing' = [leasing EXCEPT ![u] = "none"]
    BY <1>4 DEF Db!Lease
  <2>. QED  BY <2>1, <2>2
<1>5. ASSUME NEW u \in Users, Db!TryLeaseFails(u)
      PROVE  LeaseInv'
  BY <1>5 DEF Db!TryLeaseFails
<1>6. ASSUME NEW u \in Users, Db!GiveBack(u)
      PROVE  LeaseInv'
  <2>1. /\ held[u] # 0 /\ taken' = taken \ {held[u]} /\ held' = [held EXCEPT ![u] = 0]
        /\ UNCHANGED leasing
    BY <1>6 DEF Db!GiveBack
  <2>. QED  BY <2>1
<1>. QED  BY <1>1, <1>2, <1>3, <1>4, <1>5, <1>6 DEF PoolStep

\* The invariant behind the theorems about the sessions.
LEMMA LeaseInvariant == ProcessSpec => [](PoolTypeOK /\ LeaseInv)
<1>1. ProcessInit => LeaseInv
  BY DEF ProcessInit, Db!Init, LeaseInv
<1>2. ProcessTypeOK => PoolTypeOK
  BY DEF ProcessTypeOK, PoolTypeOK
<1>3. PoolTypeOK /\ LeaseInv /\ [ProcessNext]_processVars => LeaseInv'
  BY LeaseStep, ProcessCases
<1>. QED  BY <1>1, <1>2, <1>3, ProcessTypeCorrect, PTL DEF ProcessSpec

\* No session is lost and none is counted twice: the positions the pool holds for leased
\* are those of the sessions that fibers hold (soci_pgsql.hpp:218-243).
THEOREM SessionsAccounted == ProcessSpec => [](taken = {held[u] : u \in Users} \ {0})
<1>1. PoolTypeOK /\ LeaseInv => taken = {held[u] : u \in Users} \ {0}
  BY PositionsPositive DEF PoolTypeOK, LeaseInv
<1>. QED  BY <1>1, LeaseInvariant, PTL

\* DBHelper is a pool of leases, whatever the threads do with the fibers that use it: a
\* session is leased to one fiber at a time and a call that times out leases none.
THEOREM PoolLeasesCorrect == ProcessSpec => PoolLeases
<1>1. ProcessInit => Pool!Init
  BY DEF ProcessInit, Db!Init, Pool!Init
<1>2. PoolTypeOK /\ LeaseInv /\ [ProcessNext]_processVars => [Pool!Next]_(Pool!vars)
  <2>. SUFFICES ASSUME PoolTypeOK, LeaseInv, PoolStep \/ UNCHANGED dbVars
                PROVE  [Pool!Next]_(Pool!vars)
    BY ProcessCases
  <2>. USE DEF PoolTypeOK, Pool!vars
  <2>1. CASE UNCHANGED held
    BY <2>1
  <2>2. CASE \/ UNCHANGED dbVars \/ Db!ResetPool \/ Db!Open
             \/ \E u \in Users : Db!Call(u) \/ Db!TryLeaseFails(u)
    BY <2>1, <2>2 DEF dbVars, Db!ResetPool, Db!Open, Db!Call, Db!TryLeaseFails
  <2>3. ASSUME NEW u \in Users, Db!Lease(u)
        PROVE  Pool!Next
    <3>1. PICK pos \in Db!Positions \ taken : held' = [held EXCEPT ![u] = pos]
      BY <2>3, LeasesFree
    <3>2. held[u] = 0 /\ pos \notin Pool!Leased
      BY <2>3, <3>1, PositionsPositive DEF Db!Lease, LeaseInv, Pool!Leased
    <3>3. Pool!Create(u, pos)
      BY <3>1, <3>2 DEF Pool!Create
    <3>. QED  BY <3>3 DEF Pool!Next
  <2>4. ASSUME NEW u \in Users, Db!GiveBack(u)
        PROVE  Pool!Next
    <3>1. Pool!Return(u)
      BY <2>4 DEF Db!GiveBack, Pool!Return
    <3>. QED  BY <3>1 DEF Pool!Next
  <2>. QED  BY <2>2, <2>3, <2>4 DEF PoolStep
<1>. QED  BY <1>1, <1>2, LeaseInvariant, PTL DEF ProcessSpec, PoolLeases, Pool!Spec
=============================================================================
