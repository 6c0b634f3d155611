-------------------------- MODULE ServerLifecycle --------------------------
(***************************************************************************)
(* What HttpApiServer promises its owner, without fibers, threads, futures *)
(* or counters: a server is down, up or draining; connections are served   *)
(* only while it is not down, each of them once; and stop() takes it down  *)
(* only when no connection is being served any more.                       *)
(***************************************************************************)
CONSTANT Conns

VARIABLES mode, live, served

vars == <<mode, live, served>>

TypeOK ==
    /\ mode \in {"down", "up", "draining"}
    /\ live \in SUBSET Conns
    /\ served \in SUBSET Conns

Init == mode = "down" /\ live = {} /\ served = {}

Open == mode = "down" /\ mode' = "up" /\ UNCHANGED <<live, served>>

\* A connection accepted before the acceptor was closed may still be admitted
\* while the server drains.
Admit(c) ==
    /\ mode # "down"
    /\ c \notin live \cup served
    /\ live' = live \cup {c}
    /\ UNCHANGED <<mode, served>>

Leave(c) ==
    /\ c \in live
    /\ live' = live \ {c}
    /\ served' = served \cup {c}
    /\ UNCHANGED mode

BeginStop == mode = "up" /\ mode' = "draining" /\ UNCHANGED <<live, served>>

FinishStop ==
    /\ mode = "draining" /\ live = {}
    /\ mode' = "down"
    /\ UNCHANGED <<live, served>>

Next == Open \/ BeginStop \/ FinishStop \/ \E c \in Conns : Admit(c) \/ Leave(c)

Spec == Init /\ [][Next]_vars
=============================================================================
