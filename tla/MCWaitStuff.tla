---------------------------- MODULE MCWaitStuff ----------------------------
(***************************************************************************)
(* One call of any helper of src/common/fiber/wait_stuff.hpp: either one   *)
(* that goes through a channel (WaitChannel) or one that does not          *)
(* (WaitSimple).  The variables of the other family keep one initial       *)
(* value.                                                                  *)
(***************************************************************************)
EXTENDS WaitChannel

CONSTANTS N, SimpleModes

ASSUME NAssumption == N \in Nat

VARIABLES family, smode, scpc, snext, sfpc, soutcome, ready, current

Simple == INSTANCE WaitSimple
          WITH Modes <- SimpleModes, mode <- smode, cpc <- scpc, next <- snext,
               fpc <- sfpc, outcome <- soutcome

svars == <<smode, scpc, snext, sfpc, soutcome, ready, current>>

CallInit ==
    /\ Init /\ Simple!Init
    /\ \/ family = "channel" /\ smode = "first"
       \/ family = "simple" /\ mode = "value" /\ ~parallel

Channel(A) == family = "channel" /\ A /\ UNCHANGED <<family, svars>>
Other(A) == family = "simple" /\ A /\ UNCHANGED <<family, vars>>

CallNext == Channel(Next) \/ Other(Simple!Next)

allvars == <<vars, svars, family>>

\* Ready fibers run, and the functions return.
CallSpec ==
    /\ CallInit /\ [][CallNext]_allvars
    /\ WF_allvars(Channel(CallerNext))
    /\ \A f \in Fns : WF_allvars(Channel(FiberNext(f)))
    /\ WF_allvars(Other(Simple!CallerNext))
    /\ \A f \in 1..N : WF_allvars(Other(Simple!FiberNext(f)))

-----------------------------------------------------------------------------
(* The properties that involve WaitSimple, and the temporal ones. *)

\* The values the variables of the two modules take.
CallTypeOK == TypeOK /\ Simple!TypeOK

\* wait_all_simple returns only after every function, wait_first_simple only after one,
\* and wait_all_members throws the exception of the leftmost function that failed.
SimpleAnswers == Simple!ReturnsInTime /\ Simple!LeftmostThrows

\* Every helper returns to its caller and every fiber ends: no notification, push or
\* barrier leaves anyone behind.  Those that use a channel promise it on one thread,
\* and wait_all_until_error leaves fibers in push after an error.
CallEnds ==
    /\ family = "channel" => CallerReturns /\ FibersEnd
    /\ family = "simple" => Simple!AllEnd
=============================================================================
