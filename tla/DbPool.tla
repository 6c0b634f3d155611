------------------------------- MODULE DbPool -------------------------------
(***************************************************************************)
(* DBHelper (src/db/soci_pgsql.hpp): start() creates a pool of             *)
(* m_connect_num sessions and opens each; session() and session(timeout)   *)
(* lease a position of it, and the deleter of the pointer they return      *)
(* gives it back.  soci::connection_pool is external: lease() and          *)
(* try_lease() wait on a condition variable of the operating system until  *)
(* a position is free, and take the first one.                             *)
(***************************************************************************)
EXTENDS Integers, FiniteSetsExt

CONSTANTS Users, m_connect_num

VARIABLES
    started,  \* "no", "opening" inside start(), "yes", "failed" when open() threw
    opened,   \* how many sessions start() has opened
    taken,    \* the positions the pool holds for leased
    held,     \* per user: the position of its session, 0 for none
    leasing   \* per user: "none", or "lease" or "try_lease" while it waits in one

vars == <<started, opened, taken, held, leasing>>

Positions == 1..m_connect_num

Init ==
    /\ started = "no" /\ opened = 0 /\ taken = {}
    /\ held = [u \in Users |-> 0]
    /\ leasing = [u \in Users |-> "none"]

\* m_pool.reset(new soci::connection_pool(m_connect_num))
ResetPool ==
    /\ started = "no"
    /\ started' = "opening"
    /\ UNCHANGED <<opened, taken, held, leasing>>

\* A round of the loop of start(); open() throws when there is no database.
Open ==
    /\ started = "opening"
    /\ IF opened < m_connect_num
       THEN \/ opened' = opened + 1 /\ started' = "opening"
            \/ opened' = opened /\ started' = "failed"
       ELSE started' = "yes" /\ opened' = opened
    /\ UNCHANGED <<taken, held, leasing>>

\* session() and session(timeout): both wait in the pool.
Call(u) ==
    /\ started = "yes"
    /\ leasing[u] = "none" /\ held[u] = 0
    /\ \E c \in {"lease", "try_lease"} : leasing' = [leasing EXCEPT ![u] = c]
    /\ UNCHANGED <<started, opened, taken, held>>

\* A position is free: the call returns a session.
Lease(u) ==
    /\ leasing[u] # "none"
    /\ Positions \ taken # {}
    /\ LET pos == Min(Positions \ taken)
       IN taken' = taken \cup {pos} /\ held' = [held EXCEPT ![u] = pos]
    /\ leasing' = [leasing EXCEPT ![u] = "none"]
    /\ UNCHANGED <<started, opened>>

\* Mutant: the result of try_lease is not looked at, pos has any value.
TryLeaseFails_Ignored(u) ==
    /\ leasing[u] = "try_lease"
    /\ Positions \subseteq taken
    /\ \E pos \in Positions : held' = [held EXCEPT ![u] = pos]
    /\ leasing' = [leasing EXCEPT ![u] = "none"]
    /\ UNCHANGED <<started, opened, taken>>

\* The time is over: session(timeout) returns nullptr.
TryLeaseFails(u) ==
    /\ leasing[u] = "try_lease"
    /\ Positions \subseteq taken
    /\ leasing' = [leasing EXCEPT ![u] = "none"]
    /\ UNCHANGED <<started, opened, taken, held>>

\* Mutant: the deleter does nothing.
GiveBack_Leaks(u) ==
    /\ held[u] # 0
    /\ held' = [held EXCEPT ![u] = 0]
    /\ UNCHANGED <<started, opened, taken, leasing>>

\* The deleter of the DbSessionPtr.
GiveBack(u) ==
    /\ held[u] # 0
    /\ taken' = taken \ {held[u]}
    /\ held' = [held EXCEPT ![u] = 0]
    /\ UNCHANGED <<started, opened, leasing>>

Waiting(u) == leasing[u] # "none"

Next == \/ ResetPool \/ Open
        \/ \E u \in Users : Call(u) \/ Lease(u) \/ TryLeaseFails(u) \/ GiveBack(u)

Spec == Init /\ [][Next]_vars
=============================================================================
