---------------------------- MODULE HttpConnPool ----------------------------
(***************************************************************************)
(* The HTTP/1.1 side of MultiClientHttp (src/http/multi_client_http.cpp):  *)
(* fibers that call h1_req and the lists m_h1_conns and m_h1s_conns of     *)
(* HttpCache they share.                                                   *)
(*                                                                         *)
(* An endpoint stands for a host and a port; the endpoints in TlsEndpoints *)
(* are asked with the https overload, whose list and mutex are its own, so *)
(* that the endpoint of a connection says which list it is in.  The lists  *)
(* are sets: which of several idle connections to an endpoint comes first  *)
(* matters to no property here.  A critical section of the list's mutex is *)
(* one step, and so is an asynchronous operation with its f.get().         *)
(***************************************************************************)
EXTENDS Integers, FiniteSets

CONSTANTS
    Reqs,          \* the fibers that make requests, each one at a time
    Endpoints, TlsEndpoints,
    ConnIds,       \* bound: connections that exist at a time
    None,
    UnuseTimeout,  \* m_unuse_timeout
    MaxClock,      \* bound: the last second of the clock
    ClockJumps     \* may local_time() go back?

ASSUME ReqsAssumption == IsFiniteSet(Reqs)
ASSUME ConnIdsAssumption == IsFiniteSet(ConnIds) /\ None \notin ConnIds
ASSUME EndpointsAssumption == TlsEndpoints \subseteq Endpoints /\ None \notin Endpoints
ASSUME ClockAssumption ==
    UnuseTimeout \in Nat /\ MaxClock \in Nat /\ ClockJumps \in BOOLEAN

VARIABLES
    conns,     \* m_h1_conns and m_h1s_conns: the connections in the two lists
    endpoint,  \* per connection: host and port; None when it does not exist
    in_use, last_use,
    pc,        \* where each request is
    arg,       \* args.host and args.port of the request
    conn_ptr,  \* the connection the request holds
    now_pt,    \* the local now_pt of delete_timeout_http(s)_connect
    res,       \* the status of the last response
    clock      \* second_clock::local_time()

vars == <<conns, endpoint, in_use, last_use, pc, arg, conn_ptr, now_pt, res, clock>>
poolVars == <<conns, endpoint, in_use, last_use>>

Statuses == {"none", "network_connect_timeout_error", "request_timeout",
             "connection_closed_without_response", "answered"}

\* Phases before the request has a connection, while it makes one, and while it
\* uses one that is in the list.
GetPhases == {"idle", "now", "expire", "search"}
ConnectPhases == {"set_ssl", "resolve", "connect", "handshake", "push"}
UsePhases == {"write", "read", "shutdown", "release", "delete_invalid"}

Exists == {k \in ConnIds : endpoint[k] # None}
SameList(k, r) == (endpoint[k] \in TlsEndpoints) = (arg[r] \in TlsEndpoints)

Init ==
    /\ conns = {}
    /\ endpoint = [k \in ConnIds |-> None]
    /\ in_use = [k \in ConnIds |-> FALSE]
    /\ last_use = [k \in ConnIds |-> 0]
    /\ pc = [r \in Reqs |-> "idle"]
    /\ arg \in [Reqs -> Endpoints]
    /\ conn_ptr = [r \in Reqs |-> None]
    /\ now_pt = [r \in Reqs |-> 0]
    /\ res = [r \in Reqs |-> "none"]
    /\ clock = 0

Goto(r, phase) == pc' = [pc EXCEPT ![r] = phase]

\* The last pointer to the connections in ks is gone and they are destroyed.
End(ks) ==
    /\ endpoint' = [k \in ConnIds |-> IF k \in ks THEN None ELSE endpoint[k]]
    /\ in_use' = [k \in ConnIds |-> IF k \in ks THEN FALSE ELSE in_use[k]]
    /\ last_use' = [k \in ConnIds |-> IF k \in ks THEN 0 ELSE last_use[k]]

\* The local now_pt of r goes out of scope.
DropNow(r) == now_pt' = [now_pt EXCEPT ![r] = 0]

-----------------------------------------------------------------------------
(* get_http_connect and get_https_connect *)

h1_req(r) ==
    /\ pc[r] = "idle"
    /\ \E e \in Endpoints : arg' = [arg EXCEPT ![r] = e]
    /\ res' = [res EXCEPT ![r] = "none"]
    /\ Goto(r, "now")
    /\ UNCHANGED <<poolVars, conn_ptr, now_pt, clock>>

\* The clock is read before the mutex is taken.
ReadNow(r) ==
    /\ pc[r] = "now"
    /\ now_pt' = [now_pt EXCEPT ![r] = clock]
    /\ Goto(r, "expire")
    /\ UNCHANGED <<poolVars, arg, conn_ptr, res, clock>>

\* Mutant: in_use is not looked at.
Expired_InUseToo(k, r) == now_pt[r] - last_use[k] > UnuseTimeout

Expired(k, r) == ~in_use[k] /\ now_pt[r] - last_use[k] > UnuseTimeout

\* Mutant: the loop ends after the first connection it drops.
delete_timeout_connect_First(r) ==
    /\ pc[r] = "expire"
    /\ LET old == {k \in conns : SameList(k, r) /\ Expired(k, r)}
       IN IF old = {} THEN UNCHANGED poolVars
          ELSE \E k \in old : conns' = conns \ {k} /\ End({k})
    /\ Goto(r, "search")
    /\ UNCHANGED <<arg, conn_ptr, now_pt, res, clock>>

\* The list drops its pointers; nobody else has one, so the connections end.
delete_timeout_connect(r) ==
    /\ pc[r] = "expire"
    /\ LET old == {k \in conns : SameList(k, r) /\ Expired(k, r)}
       IN /\ conns' = conns \ old
          /\ End(old)
    /\ Goto(r, "search")
    /\ UNCHANGED <<arg, conn_ptr, now_pt, res, clock>>

Reusable(k, r) == k \in conns /\ ~in_use[k] /\ endpoint[k] = arg[r]

ReuseConnect(r) ==
    /\ pc[r] = "search"
    /\ \E k \in ConnIds :
         /\ Reusable(k, r)
         /\ in_use' = [in_use EXCEPT ![k] = TRUE]
         /\ last_use' = [last_use EXCEPT ![k] = clock]
         /\ conn_ptr' = [conn_ptr EXCEPT ![r] = k]
    /\ DropNow(r)
    /\ Goto(r, "write")
    /\ UNCHANGED <<conns, endpoint, arg, res, clock>>

\* Mutant: the idle connections are not searched.
NewConnect_Always(r) ==
    /\ pc[r] = "search"
    /\ \E k \in ConnIds \ Exists :
         /\ endpoint' = [endpoint EXCEPT ![k] = arg[r]]
         /\ conn_ptr' = [conn_ptr EXCEPT ![r] = k]
    /\ DropNow(r)
    /\ Goto(r, IF arg[r] \in TlsEndpoints THEN "set_ssl" ELSE "resolve")
    /\ UNCHANGED <<conns, in_use, last_use, arg, res, clock>>

\* No idle connection: a new object, first without a list, and for https the
\* context that set_ssl prepares.
NewConnect(r) ==
    /\ pc[r] = "search"
    /\ \A k \in ConnIds : ~Reusable(k, r)
    /\ \E k \in ConnIds \ Exists :
         /\ endpoint' = [endpoint EXCEPT ![k] = arg[r]]
         /\ conn_ptr' = [conn_ptr EXCEPT ![r] = k]
    /\ DropNow(r)
    /\ Goto(r, IF arg[r] \in TlsEndpoints THEN "set_ssl" ELSE "resolve")
    /\ UNCHANGED <<conns, in_use, last_use, arg, res, clock>>

\* get returns nullptr and h1_req reports it; the new object ends with the frame.
ConnectFails(r) ==
    /\ End({conn_ptr[r]})
    /\ conn_ptr' = [conn_ptr EXCEPT ![r] = None]
    /\ res' = [res EXCEPT ![r] = "network_connect_timeout_error"]
    /\ Goto(r, "idle")
    /\ UNCHANGED <<conns, arg, now_pt, clock>>

ConnectGoesOn(r, phase) ==
    /\ Goto(r, phase)
    /\ UNCHANGED <<poolVars, arg, conn_ptr, now_pt, res, clock>>

set_ssl(r) ==
    /\ pc[r] = "set_ssl"
    /\ ConnectGoesOn(r, "resolve") \/ ConnectFails(r)

resolve(r) ==
    /\ pc[r] = "resolve"
    /\ ConnectGoesOn(r, "connect") \/ ConnectFails(r)

connect(r) ==
    /\ pc[r] = "connect"
    /\ \/ ConnectGoesOn(r, IF arg[r] \in TlsEndpoints THEN "handshake" ELSE "push")
       \/ ConnectFails(r)

Handshake(r) ==
    /\ pc[r] = "handshake"
    /\ ConnectGoesOn(r, "push") \/ ConnectFails(r)

\* Mutant: the connection enters the list without being marked.
PushConnect_NotMarked(r) ==
    /\ pc[r] = "push"
    /\ last_use' = [last_use EXCEPT ![conn_ptr[r]] = clock]
    /\ conns' = conns \cup {conn_ptr[r]}
    /\ Goto(r, "write")
    /\ UNCHANGED <<endpoint, in_use, arg, conn_ptr, now_pt, res, clock>>

\* in_use is set before the connection enters the list.
PushConnect(r) ==
    /\ pc[r] = "push"
    /\ in_use' = [in_use EXCEPT ![conn_ptr[r]] = TRUE]
    /\ last_use' = [last_use EXCEPT ![conn_ptr[r]] = clock]
    /\ conns' = conns \cup {conn_ptr[r]}
    /\ Goto(r, "write")
    /\ UNCHANGED <<endpoint, arg, conn_ptr, now_pt, res, clock>>

-----------------------------------------------------------------------------
(* The rest of h1_req *)

Answer(r, status, phase) ==
    /\ res' = [res EXCEPT ![r] = status]
    /\ Goto(r, phase)
    /\ UNCHANGED <<poolVars, arg, conn_ptr, now_pt, clock>>

\* An operation failed, for instance because the server had closed the idle
\* connection; the request is not tried again.
Broken(r) == Answer(r, "connection_closed_without_response", "delete_invalid")

Write(r) ==
    /\ pc[r] = "write"
    /\ Answer(r, "none", "read") \/ Broken(r)

\* The response says whether the connection stays open (need_eof).
Read(r) ==
    /\ pc[r] = "read"
    /\ \/ Answer(r, "answered", "release")
       \/ Answer(r, "answered",
                 IF arg[r] \in TlsEndpoints THEN "shutdown" ELSE "delete_invalid")
       \/ Broken(r)

\* async_shutdown of https; its error code is not looked at.
Shutdown(r) ==
    /\ pc[r] = "shutdown"
    /\ Answer(r, res[r], "delete_invalid")

\* Mutant: the response is read without a deadline.
DeadlinePhases_NotRead == {"resolve", "connect", "handshake", "write", "shutdown"}

\* The operations that were started with a deadline, which ends them.
DeadlinePhases == {"resolve", "connect", "handshake", "write", "read", "shutdown"}

\* Mutant: a status that h1_req never reports.
Deadline_OtherStatus(r) ==
    /\ pc[r] \in DeadlinePhases
    /\ CASE pc[r] \in ConnectPhases -> ConnectFails(r)
         [] OTHER -> Answer(r, "gateway_timeout", "delete_invalid")

Deadline(r) ==
    /\ pc[r] \in DeadlinePhases
    /\ CASE pc[r] \in ConnectPhases -> ConnectFails(r)
         [] pc[r] = "shutdown" -> Answer(r, res[r], "delete_invalid")
         [] OTHER -> Answer(r, "request_timeout", "delete_invalid")

\* release_http(s)_connect looks the connection up in the list.
release_connect(r) ==
    /\ pc[r] = "release"
    /\ IF conn_ptr[r] \in conns
       THEN /\ in_use' = [in_use EXCEPT ![conn_ptr[r]] = FALSE]
            /\ last_use' = [last_use EXCEPT ![conn_ptr[r]] = clock]
       ELSE UNCHANGED <<in_use, last_use>>
    /\ conn_ptr' = [conn_ptr EXCEPT ![r] = None]
    /\ Goto(r, "idle")
    /\ UNCHANGED <<conns, endpoint, arg, now_pt, res, clock>>

delete_invalid_connect(r) ==
    /\ pc[r] = "delete_invalid"
    /\ conns' = conns \ {conn_ptr[r]}
    /\ End({conn_ptr[r]})
    /\ conn_ptr' = [conn_ptr EXCEPT ![r] = None]
    /\ Goto(r, "idle")
    /\ UNCHANGED <<arg, now_pt, res, clock>>

-----------------------------------------------------------------------------
Tick ==
    /\ \/ clock < MaxClock /\ clock' = clock + 1
       \/ ClockJumps /\ clock > 0 /\ clock' = clock - 1
    /\ UNCHANGED <<poolVars, pc, arg, conn_ptr, now_pt, res>>

\* What a request does without its peer.
Runs(r) == \/ ReadNow(r) \/ delete_timeout_connect(r) \/ ReuseConnect(r)
           \/ NewConnect(r) \/ set_ssl(r) \/ PushConnect(r) \/ Deadline(r)
           \/ release_connect(r) \/ delete_invalid_connect(r)

\* What needs the name server or the peer.
Peer(r) == resolve(r) \/ connect(r) \/ Handshake(r) \/ Write(r) \/ Read(r) \/ Shutdown(r)

Next == Tick \/ \E r \in Reqs : h1_req(r) \/ Runs(r) \/ Peer(r)

Spec == Init /\ [][Next]_vars

\* Ready fibers run and deadlines expire; peers need not answer.
FairSpec == Spec /\ \A r \in Reqs : WF_vars(Runs(r))

-----------------------------------------------------------------------------
(* Properties. *)

\* The values the variables take.
TypeOK ==
    /\ conns \subseteq ConnIds
    /\ endpoint \in [ConnIds -> Endpoints \cup {None}]
    /\ in_use \in [ConnIds -> BOOLEAN]
    /\ last_use \in [ConnIds -> Int]
    /\ pc \in [Reqs -> GetPhases \cup ConnectPhases \cup UsePhases]
    /\ arg \in [Reqs -> Endpoints]
    /\ conn_ptr \in [Reqs -> ConnIds \cup {None}]
    /\ now_pt \in [Reqs -> Int]
    /\ res \in [Reqs -> Statuses]
    /\ clock \in Int

Holds(r, k) == conn_ptr[r] = k

\* No two requests write to or read from the same connection.
ExclusiveUse ==
    \A r, s \in Reqs : conn_ptr[r] # None /\ conn_ptr[r] = conn_ptr[s] => r = s

\* A connection that a request uses stays in its list, marked in_use and to the
\* endpoint that was asked for, until that request takes it out or releases it:
\* another request's delete_timeout or delete_invalid never drops it, so that
\* release_http_connect always finds it (lines 158-172, 188-212).
HeldStaysListed ==
    \A r \in Reqs : pc[r] \in UsePhases =>
        /\ conn_ptr[r] \in conns
        /\ in_use[conn_ptr[r]]
        /\ endpoint[conn_ptr[r]] = arg[r]

\* A connection marked in_use is held by a request that will release or delete
\* it: every path of h1_req does, so that none stays in the list for ever.
NoLeak == \A k \in conns : in_use[k] => \E r \in Reqs : Holds(r, k)

\* The mark in_use means what it says: a connection of the list is marked exactly
\* while one request, and no other, has it.
InUseMeansHeld == ExclusiveUse /\ HeldStaysListed /\ NoLeak

\* The cache never has more connections to an endpoint than there are fibers
\* that make requests, although searching and connecting are not one step.
PoolBound ==
    \A e \in Endpoints :
        Cardinality({k \in ConnIds : endpoint[k] = e}) <= Cardinality(Reqs)

Reuses(r) == pc[r] = "search" /\ pc'[r] = "write"

\* What a request reuses was not idle for more than UnuseTimeout when the
\* request looked at the clock, as long as the clock does not go back.
ReuseWithinTimeout ==
    [][\A r \in Reqs : Reuses(r) =>
          now_pt[r] - last_use[conn_ptr'[r]] <= UnuseTimeout]_vars

\* Every call of h1_req returns, whatever the peers do, because each operation
\* has a deadline.
RequestReturns == \A r \in Reqs : pc[r] # "idle" ~> pc[r] = "idle"

\* The requests and the two lists are a pool of leases.
Leases == INSTANCE LeasePool
          WITH Users <- Reqs, Ids <- ConnIds, NoId <- None,
               idle <- {k \in conns : ~in_use[k]}, lease <- conn_ptr

\* Connections are leased to one request at a time and expire only when idle.
ImplementsLeasePool == Leases!Spec
=============================================================================
