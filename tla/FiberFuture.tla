---------------------------- MODULE FiberFuture ----------------------------
(***************************************************************************)
(* The futures of asynchronous operations: the use_future token of         *)
(* src/common/fiber/use_fiber_future.hpp and the calls that wait for them. *)
(* One fiber makes one call after the other; the operation it initiates    *)
(* completes on a thread of the io context, at once or long after the call *)
(* has returned.                                                           *)
(*                                                                         *)
(* The shape of a call is "plain" (use_future, then get), "packaged"       *)
(* (use_future(function), then get, as for accept, read, write, connect),  *)
(* "resolve" (HttpCache::resolve: a function that refers to the caller's   *)
(* rr, wait_for, then get) and "h2" (h2_req: handlers that refer to res    *)
(* and tmp_body and fulfil a promise, wait_for, then get).                 *)
(***************************************************************************)
EXTENDS Integers, FiniteSets

CONSTANTS
    MaxCalls,  \* how many calls the fiber makes
    Shapes     \* the shapes they have

AllShapes == {"plain", "packaged", "resolve", "h2"}
TimedShapes == {"resolve", "h2"}

ASSUME CallsAssumption == MaxCalls \in Nat
ASSUME ShapesAssumption == Shapes \subseteq AllShapes

Calls == 1..MaxCalls

\* A completion signature: what leads its arguments and how many follow.
Signatures == [lead : {"none", "error_code", "exception_ptr"}, arity : 0..2]
NoSignature == [lead |-> "none", arity |-> 0]

VARIABLES
    call,   \* the number of the current or last call
    pc,     \* the fiber: "idle", "wait", "get" or "use"
    shape,  \* per call
    sig,    \* the completion signature of the current call
    op,     \* per call: where its operation and its handler are
    err,    \* per call: did the operation fail?
    fut,    \* per call: the shared state of promise and future
    slot,   \* the call whose result the local of the caller's frame holds; 0: none
    ret,    \* per call: how it ended
    late    \* the calls whose handler has written after their frame was gone

vars == <<call, pc, shape, sig, op, err, fut, slot, ret, late>>

Init ==
    /\ call = 0 /\ pc = "idle"
    /\ shape \in [Calls -> Shapes]
    /\ sig = NoSignature
    /\ op = [n \in Calls |-> "none"]
    /\ err = [n \in Calls |-> FALSE]
    /\ fut = [n \in Calls |-> "empty"]
    /\ slot = 0
    /\ ret = [n \in Calls |-> "none"]
    /\ late = {}

-----------------------------------------------------------------------------
(* What the completion of a handler stores. *)

Exceptions == {"system_error", "passed", "thrown", "broken_promise"}
Values == {"void", "single", "tuple", "ec_ok", "ec_failed"}

\* The exception that an error in front of the arguments becomes.
Exception(lead) == IF lead = "error_code" THEN "system_error" ELSE "passed"

\* Mutant: the error code is passed over.
promise_handler_0_NoError(lead, e) == "void"

promise_handler_0(lead, e) ==
    IF e /\ lead # "none" THEN Exception(lead) ELSE "void"

\* Mutant: the error is stored as if it were the value.
promise_handler_1_Raw(lead, e) ==
    IF e /\ lead # "none" THEN lead ELSE "single"

promise_handler_1(lead, e) ==
    IF e /\ lead # "none" THEN Exception(lead) ELSE "single"

promise_handler_n(lead, e) ==
    IF e /\ lead # "none" THEN Exception(lead) ELSE "tuple"

promise_handler_selector(s, e) ==
    CASE s.arity = 0 -> promise_handler_0(s.lead, e)
      [] s.arity = 1 -> promise_handler_1(s.lead, e)
      [] OTHER -> promise_handler_n(s.lead, e)

\* Mutant: the exception of the function is swallowed.
promise_invoke_and_set_Swallows(e, throws) ==
    IF throws THEN "empty" ELSE IF e THEN "ec_failed" ELSE "ec_ok"

\* The result of the function, here the error code it was given, or what it threw.
promise_invoke_and_set(e, throws) ==
    IF throws THEN "thrown" ELSE IF e THEN "ec_failed" ELSE "ec_ok"

\* promise::set_value and set_exception: a promise that is satisfied throws, the
\* invoker stores that exception, which throws again.
Set(n, v) == fut' = [fut EXCEPT ![n] = IF @ = "empty" THEN v ELSE "twice"]

-----------------------------------------------------------------------------
(* The caller *)

FrameLives(n) == call = n /\ pc # "idle"

\* The token: as it is, for an operation of any signature, or with a function.
use_future(n) == sig' \in IF shape[n] = "plain" THEN Signatures ELSE {NoSignature}

\* The handler made from it shares a new promise with all its copies.
create_promise(n) == fut' = [fut EXCEPT ![n] = "empty"]

\* The operation has the handler, the caller the future.
async_result(n) == op' = [op EXCEPT ![n] = "pending"]

\* An operation is initiated; rr, res and tmp_body are new locals.
Initiate ==
    /\ pc = "idle" /\ call < MaxCalls
    /\ call' = call + 1
    /\ pc' = "wait"
    /\ use_future(call') /\ create_promise(call') /\ async_result(call')
    /\ slot' = 0
    /\ UNCHANGED <<shape, err, ret, late>>

\* get(), or wait_for() with a result that has come in time
WaitReady ==
    /\ pc = "wait" /\ fut[call] # "empty"
    /\ pc' = "get"
    /\ UNCHANGED <<call, shape, sig, op, err, fut, slot, ret, late>>

\* How a call ends; its frame is gone then.
Return(r) ==
    /\ pc' = "idle"
    /\ sig' = NoSignature
    /\ ret' = [ret EXCEPT ![call] = r]
    /\ UNCHANGED <<call, shape, op, err, fut, slot, late>>

\* wait_for() times out.  The resolver is a local, and its destructor cancels the
\* look-up: it still completes, with an error unless it was too late to cancel.  A
\* request of HTTP/2 goes on.
WaitTimeout ==
    /\ pc = "wait" /\ shape[call] \in TimedShapes /\ fut[call] = "empty"
    /\ Return("timeout")

\* ec = f.get(); if(ec) return
Get ==
    /\ pc = "get"
    /\ \/ /\ fut[call] \in Exceptions
          /\ Return("threw")
       \/ /\ fut[call] = "ec_failed"
          /\ Return("failed")
       \/ /\ fut[call] \in Values \ {"ec_failed"}
          /\ pc' = "use"
          /\ UNCHANGED <<call, shape, sig, op, err, fut, slot, ret, late>>

\* The caller works with the result (connect to *rr.begin(), res.body() =
\* tmp_body) and is done.
Use ==
    /\ pc = "use"
    /\ Return("value")

-----------------------------------------------------------------------------
(* The operation and its handler *)

\* A handler writes through its reference to the caller's local.  When that frame
\* is gone, the same stack may hold the local of a later call.
Write(n, result) ==
    IF FrameLives(n)
    THEN slot' = result /\ late' = late
    ELSE slot' \in {slot, result} /\ late' = late \cup {n}

\* The operation ends, or fails where its handler can be told.  The executor of
\* the handler runs it at once, or later when it was posted.
Complete(n, e) ==
    /\ op[n] = IF shape[n] = "h2" THEN "streaming" ELSE "pending"
    /\ e => shape[n] # "h2" /\ (shape[n] = "plain" => sig.lead # "none")
    /\ op' = [op EXCEPT ![n] = "completed"]
    /\ err' = [err EXCEPT ![n] = e]
    /\ UNCHANGED <<call, pc, shape, sig, fut, slot, ret, late>>

\* on_response and on_data with data: res and tmp_body are filled.
Chunk(n) ==
    /\ shape[n] = "h2" /\ op[n] \in {"pending", "streaming"}
    /\ op' = [op EXCEPT ![n] = "streaming"]
    /\ Write(n, n)
    /\ UNCHANGED <<call, pc, shape, sig, err, fut, ret>>

\* on_data with no data: promise->set_value()
LastChunk(n) ==
    /\ shape[n] = "h2" /\ op[n] = "completed"
    /\ op' = [op EXCEPT ![n] = "done"]
    /\ Set(n, "void")
    /\ UNCHANGED <<call, pc, shape, sig, err, slot, ret, late>>

\* The handler of a plain use_future
Invoke(n) ==
    /\ shape[n] = "plain" /\ op[n] = "completed"
    /\ op' = [op EXCEPT ![n] = "done"]
    /\ Set(n, promise_handler_selector(sig, err[n]))
    /\ UNCHANGED <<call, pc, shape, sig, err, slot, ret, late>>

\* Mutant: the promise is satisfied before the function has run.
InvokeFunction_SetFirst(n) ==
    /\ shape[n] \in {"packaged", "resolve"} /\ op[n] = "completed"
    /\ IF fut[n] = "empty"
       THEN /\ Set(n, promise_invoke_and_set(err[n], FALSE))
            /\ UNCHANGED <<op, slot, late>>
       ELSE /\ op' = [op EXCEPT ![n] = "done"]
            /\ Write(n, IF err[n] THEN 0 ELSE n)
            /\ fut' = fut
    /\ UNCHANGED <<call, pc, shape, sig, err, ret>>

\* The handler of use_future(function), first half: the function runs (rr =
\* std::move(results)).
InvokeFunction(n) ==
    /\ shape[n] \in {"packaged", "resolve"} /\ op[n] = "completed"
    /\ op' = [op EXCEPT ![n] = "invoked"]
    /\ Write(n, IF err[n] THEN 0 ELSE n)
    /\ UNCHANGED <<call, pc, shape, sig, err, fut, ret>>

\* Mutant: the result is stored and then an exception.
SetResult_SetsBoth(n) ==
    /\ op[n] = "invoked"
    /\ op' = [op EXCEPT ![n] = IF fut[n] = "empty" THEN @ ELSE "done"]
    /\ Set(n, promise_invoke_and_set(err[n], fut[n] # "empty"))
    /\ UNCHANGED <<call, pc, shape, sig, err, slot, ret, late>>

\* Second half: its result or its exception goes into the promise.  The functions
\* of the callers do not throw; the token allows it.
SetResult(n) ==
    /\ op[n] = "invoked"
    /\ op' = [op EXCEPT ![n] = "done"]
    /\ \E throws \in (IF shape[n] = "packaged" THEN BOOLEAN ELSE {FALSE}) :
         Set(n, promise_invoke_and_set(err[n], throws))
    /\ UNCHANGED <<call, pc, shape, sig, err, slot, ret, late>>

\* The io context is destroyed with the operation pending: the last handler is
\* destroyed, and with it the promise.  HttpCache and its io context stay for ever.
Drop(n) ==
    /\ op[n] = "pending" /\ shape[n] \notin TimedShapes
    /\ op' = [op EXCEPT ![n] = "dropped"]
    /\ Set(n, "broken_promise")
    /\ UNCHANGED <<call, pc, shape, sig, err, slot, ret, late>>

-----------------------------------------------------------------------------
CallerNext == Initiate \/ WaitReady \/ WaitTimeout \/ Get \/ Use
HandlerNext(n) == LastChunk(n) \/ Invoke(n) \/ InvokeFunction(n) \/ SetResult(n)
NetworkNext(n) == Drop(n) \/ Chunk(n) \/ \E e \in BOOLEAN : Complete(n, e)

Next == CallerNext \/ \E n \in Calls : HandlerNext(n) \/ NetworkNext(n)

Spec == Init /\ [][Next]_vars

\* The fiber runs when it can, its deadline passes, and the io threads run handlers
\* that are ready; the network does what it likes.
FairSpec == Spec /\ WF_vars(CallerNext) /\ \A n \in Calls : WF_vars(HandlerNext(n))

-----------------------------------------------------------------------------
(* Properties. *)

\* The values the variables take.
TypeOK ==
    /\ call \in 0..MaxCalls
    /\ pc \in {"idle", "wait", "get", "use"}
    /\ shape \in [Calls -> Shapes]
    /\ sig \in Signatures
    /\ op \in [Calls -> {"none", "pending", "streaming", "completed", "invoked", "done",
                         "dropped"}]
    /\ err \in [Calls -> BOOLEAN]
    /\ fut \in [Calls -> {"empty", "twice"} \cup Values \cup Exceptions]
    /\ slot \in 0..MaxCalls
    /\ ret \in [Calls -> {"none", "value", "failed", "threw", "timeout"}]
    /\ late \subseteq Calls

\* A call goes on with a result only if its operation succeeded, and reports an
\* error only if the operation, or the function of the token, gave it one: an error
\* code becomes a system_error (use_fiber_future.hpp:56-59).
FailureConveyed ==
    \A n \in Calls :
        /\ ret[n] = "value" \/ (n = call /\ pc = "use") => ~err[n]
        /\ ret[n] = "failed" => err[n]
        /\ fut[n] \in {"system_error", "passed"} => err[n]

\* A handler writes into a frame that is gone only when its call has timed out: get()
\* keeps the frame until the handler has run, wait_for() does not
\* (multi_client_http.cpp:478, :749).
LateOnlyAfterTimeout == \A n \in late : ret[n] = "timeout"

\* The caller that works with its local finds the result of its own operation there,
\* unless the handler of an earlier call that timed out has come in between: the
\* function has written before the future is ready.
OwnResult ==
    pc = "use" /\ shape[call] # "plain" /\ slot # call
        => \E n \in late : n < call /\ shape[n] \in TimedShapes

\* Handlers and frames: nothing but a timeout separates a handler from the frame it
\* refers to, and nothing but such a handler gives a caller a result not its own.
OwnFrame == LateOnlyAfterTimeout /\ OwnResult

\* A promise is satisfied once: nothing that races with a timeout, with the
\* cancellation or with the end of the io context satisfies it again.
SatisfiedOnce == [][\A n \in Calls : fut[n] # "empty" => fut'[n] = fut[n]]_vars

\* A call that waits with a deadline returns, whatever the network does.
TimedCallReturns ==
    \A n \in Calls : call = n /\ pc = "wait" /\ shape[n] \in TimedShapes ~> ret[n] # "none"

\* Once its operation has completed or its handler was destroyed, a call returns.
CompletionReturns ==
    \A n \in Calls : op[n] \in {"completed", "dropped"} ~> ret[n] # "none"

\* A call returns when its time is over and when its operation is.
CallsReturn == TimedCallReturns /\ CompletionReturns
=============================================================================
