----------------------------- MODULE LeasePool -----------------------------
(***************************************************************************)
(* What a connection pool promises its users: a connection is leased to at *)
(* most one of them, only idle connections are reused or expire, and a     *)
(* user gives its lease back in one of two ways.                           *)
(***************************************************************************)
CONSTANTS Users, Ids, NoId

VARIABLES idle, lease

vars == <<idle, lease>>

TypeOK == idle \subseteq Ids /\ lease \in [Users -> Ids \cup {NoId}]

Init == idle = {} /\ lease = [u \in Users |-> NoId]

Leased == {lease[u] : u \in Users}

\* A new connection, or one whose number is free again.
Create(u, k) ==
    /\ lease[u] = NoId /\ k \notin idle \cup Leased
    /\ lease' = [lease EXCEPT ![u] = k]
    /\ UNCHANGED idle

Reuse(u, k) ==
    /\ lease[u] = NoId /\ k \in idle
    /\ lease' = [lease EXCEPT ![u] = k]
    /\ idle' = idle \ {k}

\* The user puts the connection back, or drops it.
Return(u) ==
    /\ lease[u] # NoId
    /\ lease' = [lease EXCEPT ![u] = NoId]
    /\ idle' \in {idle, idle \cup {lease[u]}}

Expire == idle' \in SUBSET idle /\ UNCHANGED lease

Next == \/ \E u \in Users : \/ \E k \in Ids : Create(u, k) \/ Reuse(u, k)
                            \/ Return(u)
        \/ Expire

Spec == Init /\ [][Next]_vars
=============================================================================
