----------------------------- MODULE WaitSimple -----------------------------
(***************************************************************************)
(* The helpers of src/common/fiber/wait_stuff.hpp that do not use a        *)
(* channel: wait_first_simple with its Done ("first"), wait_all_simple     *)
(* with a barrier ("all"), and wait_all_members with a future for each     *)
(* function, which the caller asks in the order of the arguments           *)
(* ("members").                                                            *)
(***************************************************************************)
EXTENDS Integers, FiniteSets

CONSTANTS
    N,     \* how many functions are passed
    Modes  \* the helpers that are called: among "first", "all" and "members"

VARIABLES
    mode,
    cpc,      \* the caller: "launch", "check", "wait", "returned" or "threw"
    next,     \* the function it launches, or whose future it asks for, next
    fpc,      \* per function: where its fiber is
    outcome,  \* per function: "none", "value" or "error"
    ready,    \* Done::ready
    current   \* how many fibers the barrier still expects

vars == <<mode, cpc, next, fpc, outcome, ready, current>>

Indices == 1..N

Init ==
    /\ mode \in Modes
    /\ cpc = "launch" /\ next = 1
    /\ fpc = [f \in Indices |-> "new"]
    /\ outcome = [f \in Indices |-> "none"]
    /\ ready = FALSE
    /\ current = N + 1

-----------------------------------------------------------------------------
Launch ==
    /\ cpc = "launch"
    /\ IF next <= N
       THEN /\ fpc' = [fpc EXCEPT ![next] = "ready"]
            /\ next' = next + 1
            /\ cpc' = cpc
       ELSE /\ next' = 1
            /\ cpc' = "check"
            /\ fpc' = fpc
    /\ UNCHANGED <<mode, outcome, ready, current>>

\* The function runs; then Done::notify sets ready under the mutex, or the fiber
\* goes to the barrier, or the future becomes ready.  Only a future can carry an
\* exception.
Run(f) ==
    /\ fpc[f] = "ready"
    /\ \E o \in (IF mode = "members" THEN {"value", "error"} ELSE {"value"}) :
         outcome' = [outcome EXCEPT ![f] = o]
    /\ fpc' = [fpc EXCEPT ![f] = CASE mode = "first" -> "set_ready"
                                   [] mode = "all" -> "barrier"
                                   [] OTHER -> "done"]
    /\ cpc' = IF mode = "members" /\ cpc = "wait" /\ next = f THEN "check" ELSE cpc
    /\ UNCHANGED <<mode, next, ready, current>>

SetReady(f) ==
    /\ fpc[f] = "set_ready"
    /\ ready' = TRUE
    /\ fpc' = [fpc EXCEPT ![f] = "notify"]
    /\ UNCHANGED <<mode, cpc, next, outcome, current>>

\* cond.notify_one() after the mutex was released
NotifyDone(f) ==
    /\ fpc[f] = "notify"
    /\ cpc' = IF cpc = "wait" THEN "check" ELSE cpc
    /\ fpc' = [fpc EXCEPT ![f] = "done"]
    /\ UNCHANGED <<mode, next, outcome, ready, current>>

\* Done::wait evaluates its predicate under the mutex.
WaitDone ==
    /\ mode = "first" /\ cpc = "check"
    /\ cpc' = IF ready THEN "returned" ELSE "wait"
    /\ UNCHANGED <<mode, next, fpc, outcome, ready, current>>

\* barrier::wait: the last one to arrive wakes the others.
Arrive == current' = current - 1

BarrierFiber(f) ==
    /\ fpc[f] = "barrier"
    /\ Arrive
    /\ fpc' = IF current' = 0
              THEN [g \in Indices |-> IF fpc[g] = "blocked" \/ g = f THEN "done" ELSE fpc[g]]
              ELSE [fpc EXCEPT ![f] = "blocked"]
    /\ cpc' = IF current' = 0 /\ cpc = "wait" THEN "returned" ELSE cpc
    /\ UNCHANGED <<mode, next, outcome, ready>>

BarrierCaller ==
    /\ mode = "all" /\ cpc = "check"
    /\ Arrive
    /\ IF current' = 0
       THEN /\ cpc' = "returned"
            /\ fpc' = [g \in Indices |-> IF fpc[g] = "blocked" THEN "done" ELSE fpc[g]]
       ELSE cpc' = "wait" /\ fpc' = fpc
    /\ UNCHANGED <<mode, next, outcome, ready>>

\* Mutant: an exception is passed over.
GetMember_Swallows ==
    /\ mode = "members" /\ cpc = "check"
    /\ IF next > N
       THEN cpc' = "returned" /\ next' = next
       ELSE IF outcome[next] = "none" THEN cpc' = "wait" /\ next' = next
                                      ELSE cpc' = cpc /\ next' = next + 1
    /\ UNCHANGED <<mode, fpc, outcome, ready, current>>

\* futures.get() ... from left to right; the first exception leaves the list.
GetMember ==
    /\ mode = "members" /\ cpc = "check"
    /\ \/ next > N /\ cpc' = "returned" /\ next' = next
       \/ next <= N /\ outcome[next] = "none" /\ cpc' = "wait" /\ next' = next
       \/ next <= N /\ outcome[next] = "value" /\ cpc' = cpc /\ next' = next + 1
       \/ next <= N /\ outcome[next] = "error" /\ cpc' = "threw" /\ next' = next
    /\ UNCHANGED <<mode, fpc, outcome, ready, current>>

-----------------------------------------------------------------------------
CallerNext == Launch \/ WaitDone \/ BarrierCaller \/ GetMember
FiberNext(f) == Run(f) \/ SetReady(f) \/ NotifyDone(f) \/ BarrierFiber(f)

CallerDone == cpc \in {"returned", "threw"}

Next == CallerNext \/ \E f \in Indices : FiberNext(f)

Spec == Init /\ [][Next]_vars

\* Ready fibers run, and the functions return.
FairSpec == Spec /\ WF_vars(CallerNext) /\ \A f \in Indices : WF_vars(FiberNext(f))

-----------------------------------------------------------------------------
(* Properties. *)

\* The values the variables take.
TypeOK ==
    /\ mode \in Modes
    /\ cpc \in {"launch", "check", "wait", "returned", "threw"}
    /\ next \in 1..(N + 1)
    /\ fpc \in [Indices -> {"new", "ready", "set_ready", "notify", "barrier", "blocked", "done"}]
    /\ outcome \in [Indices -> {"none", "value", "error"}]
    /\ ready \in BOOLEAN
    /\ current \in 0..(N + 1)

\* wait_all_simple returns only after every function has returned, and
\* wait_first_simple only after one has.
ReturnsInTime ==
    cpc = "returned" =>
        /\ mode = "all" => \A f \in Indices : outcome[f] # "none"
        /\ mode = "first" => \E f \in Indices : outcome[f] # "none"

\* wait_all_members throws the exception of the leftmost function that threw,
\* whatever the order in which they ended (lines 820-824).
LeftmostThrows ==
    mode = "members" /\ CallerDone =>
        \A f \in Indices : f < next => outcome[f] = "value"

\* With at least one function the caller gets an answer, and every fiber ends.
AllEnd == <>(CallerDone /\ \A f \in Indices : fpc[f] = "done")
=============================================================================
