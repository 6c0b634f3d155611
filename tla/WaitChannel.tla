---------------------------- MODULE WaitChannel ----------------------------
(***************************************************************************)
(* The when_any and when_all helpers of src/common/fiber/wait_stuff.hpp    *)
(* that collect results through a buffered_channel: one caller, one        *)
(* detached fiber per function, the channel between them and, for the      *)
(* when_all helpers, the nchannel facade that closes it.                   *)
(*                                                                         *)
(* The members of Modes stand for the helpers: "value" (wait_first_value,  *)
(* also _c and _het), "outcome" and "success" (wait_first_outcome and      *)
(* wait_first_success), "values", "until_error" and "collect_errors"       *)
(* (wait_all_...).  What goes through the channel is the function whose    *)
(* result it is, with outcome[f] saying whether it carries a value or an   *)
(* exception.                                                              *)
(***************************************************************************)
EXTENDS Integers, Sequences, FiniteSets

CONSTANTS
    Fns,       \* the functions passed
    Capacity,  \* how many items buffered_channel(64) holds
    Modes,     \* the helpers that are called
    Parallel   \* may several threads run fibers (work_stealing)? one or both answers

FirstModes == {"value", "outcome", "success"}
AllModes == {"values", "until_error", "collect_errors"}

ASSUME FnsAssumption == IsFiniteSet(Fns)
ASSUME CapacityAssumption == Capacity \in Nat \ {0}
ASSUME ModesAssumption == Modes \subseteq FirstModes \cup AllModes
ASSUME ParallelAssumption == Parallel \subseteq BOOLEAN

VARIABLES
    mode,     \* which helper runs
    parallel, \* do several threads run its fibers?
    cpc,      \* the caller: "launch", "pop", "close", "returned" or "threw"
    fpc,      \* per function: where its fiber is
    outcome,  \* per function: "none", "value" or "error"
    chan,     \* the items in the channel
    closed,
    limit_,   \* nchannel::limit_
    read,     \* per function: the value of limit_ its decrement has read
    popped    \* what the caller has taken out, in order

vars == <<mode, parallel, cpc, fpc, outcome, chan, closed, limit_, read, popped>>

count == Cardinality(Fns)

Init ==
    /\ mode \in Modes
    /\ parallel \in Parallel
    /\ cpc = "launch"
    /\ fpc = [f \in Fns |-> "new"]
    /\ outcome = [f \in Fns |-> "none"]
    /\ chan = <<>>
    /\ closed = (mode \in AllModes /\ count = 0)   \* the constructor of nchannel
    /\ limit_ = count
    /\ read = [f \in Fns |-> 0]
    /\ popped = <<>>

-----------------------------------------------------------------------------
(* The fibers of the functions *)

FiberGoto(f, phase) == fpc' = [fpc EXCEPT ![f] = phase]

\* The function ends.  wait_first_value and wait_all_values are for functions
\* that do not throw; the others wrap the function in a packaged_task.
Run(f) ==
    /\ fpc[f] = "ready"
    /\ \E o \in (IF mode \in {"value", "values"} THEN {"value"} ELSE {"value", "error"}) :
         outcome' = [outcome EXCEPT ![f] = o]
    /\ FiberGoto(f, "push")
    /\ UNCHANGED <<mode, parallel, cpc, chan, closed, limit_, read, popped>>

\* Mutant: a full channel takes one more.
Push_Overfull(f) ==
    /\ fpc[f] = "push"
    /\ \/ /\ closed
          /\ FiberGoto(f, "done")
          /\ chan' = chan
       \/ /\ ~closed /\ Len(chan) <= Capacity
          /\ chan' = Append(chan, f)
          /\ FiberGoto(f, IF mode \in AllModes THEN "read_limit" ELSE "done")
    /\ UNCHANGED <<mode, parallel, cpc, outcome, closed, limit_, read, popped>>

\* chan->push: it waits while the channel is full, and a close ends the wait.
\* The status is ignored by the when_any helpers and looked at by nchannel.
Push(f) ==
    /\ fpc[f] = "push"
    /\ \/ /\ closed
          /\ FiberGoto(f, "done")
          /\ chan' = chan
       \/ /\ ~closed /\ Len(chan) < Capacity
          /\ chan' = Append(chan, f)
          /\ FiberGoto(f, IF mode \in AllModes THEN "read_limit" ELSE "done")
    /\ UNCHANGED <<mode, parallel, cpc, outcome, closed, limit_, read, popped>>

\* --limit_ == 0 of nchannel::push.  limit_ is a plain size_t: fibers of several
\* threads may read it before either writes it back.
ReadLimit(f) ==
    /\ fpc[f] = "read_limit"
    /\ parallel \/ \A g \in Fns : fpc[g] # "write_limit"
    /\ read' = [read EXCEPT ![f] = limit_]
    /\ FiberGoto(f, "write_limit")
    /\ UNCHANGED <<mode, parallel, cpc, outcome, chan, closed, limit_, popped>>

\* Mutant: the channel is closed one push too early.
WriteLimit_Early(f) ==
    /\ fpc[f] = "write_limit"
    /\ limit_' = read[f] - 1
    /\ FiberGoto(f, IF read[f] - 1 <= 1 THEN "close" ELSE "done")
    /\ UNCHANGED <<mode, parallel, cpc, outcome, chan, closed, read, popped>>

WriteLimit(f) ==
    /\ fpc[f] = "write_limit"
    /\ limit_' = read[f] - 1
    /\ FiberGoto(f, IF read[f] - 1 = 0 THEN "close" ELSE "done")
    /\ UNCHANGED <<mode, parallel, cpc, outcome, chan, closed, read, popped>>

CloseFull(f) ==
    /\ fpc[f] = "close"
    /\ closed' = TRUE
    /\ FiberGoto(f, "done")
    /\ UNCHANGED <<mode, parallel, cpc, outcome, chan, limit_, read, popped>>

-----------------------------------------------------------------------------
(* The caller *)

\* The ..._impl functions: the fibers are created one after the other, and one
\* may run before the next is created.
Launch ==
    /\ cpc = "launch"
    /\ \/ \E f \in Fns : fpc[f] = "new" /\ FiberGoto(f, "ready") /\ cpc' = cpc
       \/ /\ \A f \in Fns : fpc[f] # "new"
          /\ cpc' = IF mode = "success" /\ count = 0 THEN "threw" ELSE "pop"
          /\ fpc' = fpc
    /\ UNCHANGED <<mode, parallel, outcome, chan, closed, limit_, read, popped>>

\* One successful pop, after which the caller is in the given phase.
Take(phase) ==
    /\ chan # <<>>
    /\ popped' = Append(popped, Head(chan))
    /\ chan' = Tail(chan)
    /\ cpc' = phase
    /\ UNCHANGED <<mode, parallel, fpc, outcome, closed, limit_, read>>

\* wait_first_value and wait_first_outcome: one value_pop
PopFirst ==
    /\ mode \in {"value", "outcome"} /\ cpc = "pop"
    /\ Take("close")

\* Mutant: the last function is not waited for.
PopSuccess_OneLess ==
    /\ mode = "success" /\ cpc = "pop"
    /\ chan # <<>>
    /\ Take(IF outcome[Head(chan)] = "value" THEN "close"
            ELSE IF Len(popped) + 2 = count THEN "threw" ELSE "pop")

\* wait_first_success: until a value comes, at most count times
PopSuccess ==
    /\ mode = "success" /\ cpc = "pop"
    /\ chan # <<>>
    /\ Take(IF outcome[Head(chan)] = "value" THEN "close"
            ELSE IF Len(popped) + 1 = count THEN "threw" ELSE "pop")

\* Mutant: the channel is left open.
CloseFirst_LeftOpen ==
    /\ cpc = "close"
    /\ cpc' = IF outcome[popped[Len(popped)]] = "value" THEN "returned" ELSE "threw"
    /\ UNCHANGED <<mode, parallel, fpc, outcome, chan, closed, limit_, read, popped>>

\* chanp->close(), then return the value or throw the exception
CloseFirst ==
    /\ cpc = "close"
    /\ closed' = TRUE
    /\ cpc' = IF outcome[popped[Len(popped)]] = "value" THEN "returned" ELSE "threw"
    /\ UNCHANGED <<mode, parallel, fpc, outcome, chan, limit_, read, popped>>

\* wait_all_values and wait_all_collect_errors: everything that is pushed
PopAll ==
    /\ mode \in {"values", "collect_errors"} /\ cpc = "pop"
    /\ Take("pop")

\* wait_all_until_error: future.get() throws out of the loop
PopUntilError ==
    /\ mode = "until_error" /\ cpc = "pop"
    /\ chan # <<>>
    /\ Take(IF outcome[Head(chan)] = "value" THEN "pop" ELSE "threw")

Collected(o) == {n \in DOMAIN popped : outcome[popped[n]] = o}

\* pop returns "closed": the loops of the when_all helpers end
PopClosed ==
    /\ mode \in AllModes /\ cpc = "pop"
    /\ closed /\ chan = <<>>
    /\ cpc' = IF mode = "collect_errors" /\ Collected("error") # {}
              THEN "threw" ELSE "returned"
    /\ UNCHANGED <<mode, parallel, fpc, outcome, chan, closed, limit_, read, popped>>

-----------------------------------------------------------------------------
FiberNext(f) == Run(f) \/ Push(f) \/ ReadLimit(f) \/ WriteLimit(f) \/ CloseFull(f)

CallerNext == Launch \/ PopFirst \/ PopSuccess \/ CloseFirst \/ PopAll
              \/ PopUntilError \/ PopClosed

CallerDone == cpc \in {"returned", "threw"}

Next == CallerNext \/ \E f \in Fns : FiberNext(f)

Spec == Init /\ [][Next]_vars

\* Ready fibers run, and the functions return.
FairSpec == Spec /\ WF_vars(CallerNext) /\ \A f \in Fns : WF_vars(FiberNext(f))

-----------------------------------------------------------------------------
(* Properties. *)

\* The values the variables take.
TypeOK ==
    /\ mode \in Modes
    /\ parallel \in Parallel
    /\ cpc \in {"launch", "pop", "close", "returned", "threw"}
    /\ fpc \in [Fns -> {"new", "ready", "push", "read_limit", "write_limit", "close",
                        "done"}]
    /\ outcome \in [Fns -> {"none", "value", "error"}]
    /\ chan \in Seq(Fns) /\ Len(chan) <= Capacity
    /\ closed \in BOOLEAN
    /\ limit_ \in Int /\ read \in [Fns -> Int]
    /\ popped \in Seq(Fns)

Pushed(f) == fpc[f] \in {"read_limit", "write_limit", "close", "done"}

\* nchannel closes the channel only after every function has pushed its result,
\* also when decrements of limit_ race: no push of a when_all helper is refused.
ClosedOnlyWhenFull == mode \in AllModes /\ closed => \A f \in Fns : Pushed(f)

\* A when_all helper that ran to the end of its loop has the result of every
\* function, each of them once.
AllCollected ==
    \/ mode \in AllModes /\ cpc = "returned"
    \/ mode = "collect_errors" /\ cpc = "threw"
    =>  \A f \in Fns : Cardinality({n \in DOMAIN popped : popped[n] = f}) = 1

\* wait_all_until_error and wait_all_collect_errors return a vector only when no
\* function threw, and throw only when one did.
ErrorsReported ==
    mode \in {"until_error", "collect_errors"} =>
        /\ cpc = "returned" => \A f \in Fns : outcome[f] = "value"
        /\ cpc = "threw" => \E f \in Fns : outcome[f] = "error"

\* wait_first_success throws only when every function threw, and returns only a
\* value; the exceptions it collected are those that arrived before (lines 326-344).
SuccessPreferred ==
    mode = "success" =>
        /\ cpc = "threw" => \A f \in Fns : outcome[f] = "error"
        /\ cpc = "returned" => Cardinality(Collected("value")) = 1

\* Each helper answers what its comment promises: all results, or the errors, or the
\* first success.
ChannelAnswers == AllCollected /\ ErrorsReported /\ SuccessPreferred

\* The vector is returned when all functions have completed (the comment of line
\* 578), on however many threads they run.
ValuesReturned == <>CallerDone

\* On one thread the caller gets an answer once the functions have returned, also
\* when there are more of them than the channel holds.
CallerReturns == ~parallel => <>CallerDone

\* No fiber stays behind in push: closing the channel, or reading it to the end,
\* lets every fiber finish.  wait_all_until_error does neither after an error, and
\* the fibers of several threads may leave the channel open.
FibersEnd ==
    ~parallel /\ mode # "until_error" => <>(\A f \in Fns : fpc[f] = "done")
=============================================================================
