----------------------------- MODULE Http2Pool -----------------------------
(***************************************************************************)
(* The HTTP/2 side of MultiClientHttp (src/http/multi_client_http.cpp,     *)
(* compiled with USE_CLIENT_HTTP2): fibers that call h2_req, the list      *)
(* m_h2s_conns whose connections they share, and the callbacks of the      *)
(* nghttp2 sessions, which run on the io thread.                           *)
(*                                                                         *)
(* There is one endpoint: the list is searched by host and port, and       *)
(* connections to different ones do not meet.  The list is a set: which of *)
(* several connections comes first is left open, and TypeOK says that none *)
(* is pushed twice.  A critical section of m_h2s_mutex is one step.        *)
(***************************************************************************)
EXTENDS Integers, FiniteSets

CONSTANTS
    Reqs,          \* the fibers that make requests, each one at a time
    ConnIds,       \* bound: connections that are referred to at a time
    None,
    UnuseTimeout,  \* m_unuse_timeout
    MaxClock       \* bound: the last second of the clock

ASSUME ReqsAssumption == IsFiniteSet(Reqs)
ASSUME ConnIdsAssumption == IsFiniteSet(ConnIds) /\ None \notin ConnIds
ASSUME ClockAssumption == UnuseTimeout \in Nat /\ MaxClock \in Nat

VARIABLES
    conns,     \* m_h2s_conns
    sess,      \* per connection: the state of its session
    promise,   \* per connection: was the promise of on_connect fulfilled?
    last_use,
    pc,        \* where each request is
    conn_ptr,  \* the connection the request holds
    now_pt,    \* the local now_pt of delete_timeout_http2s_connect
    res,       \* the status of the last response
    clock      \* second_clock::local_time()

vars == <<conns, sess, promise, last_use, pc, conn_ptr, now_pt, res, clock>>
connVars == <<conns, sess, promise, last_use>>

\* "dead": the session has failed and on_error is about to run; "closed": it has.
SessionStates == {"none", "connecting", "up", "dead", "closed"}
Phases == {"idle", "now", "expire", "search", "new", "wait_connect", "push", "submit",
           "wait_response", "delete_invalid"}
Statuses == {"none", "network_connect_timeout_error", "request_timeout",
             "connection_closed_without_response", "answered"}

Init ==
    /\ conns = {}
    /\ sess = [k \in ConnIds |-> "none"]
    /\ promise = [k \in ConnIds |-> FALSE]
    /\ last_use = [k \in ConnIds |-> 0]
    /\ pc = [r \in Reqs |-> "idle"]
    /\ conn_ptr = [r \in Reqs |-> None]
    /\ now_pt = [r \in Reqs |-> 0]
    /\ res = [r \in Reqs |-> "none"]
    /\ clock = 0

Goto(r, phase) == pc' = [pc EXCEPT ![r] = phase]

\* After the list or a request has dropped its pointer: a connection that neither
\* refers to takes no part any more.  (Its session may live on through the pointer
\* that its own on_error captures; nothing it does then finds it in the list.)
Forget ==
    LET kept == conns' \cup {conn_ptr'[r] : r \in Reqs}
    IN /\ sess' = [k \in ConnIds |-> IF k \in kept THEN sess[k] ELSE "none"]
       /\ promise' = [k \in ConnIds |-> k \in kept /\ promise[k]]
       /\ last_use' = [k \in ConnIds |-> IF k \in kept THEN last_use[k] ELSE 0]

-----------------------------------------------------------------------------
(* get_http2s_connect *)

h2_req(r) ==
    /\ pc[r] = "idle"
    /\ res' = [res EXCEPT ![r] = "none"]
    /\ Goto(r, "now")
    /\ UNCHANGED <<connVars, conn_ptr, now_pt, clock>>

ReadNow(r) ==
    /\ pc[r] = "now"
    /\ now_pt' = [now_pt EXCEPT ![r] = clock]
    /\ Goto(r, "expire")
    /\ UNCHANGED <<connVars, conn_ptr, res, clock>>

Expired(k, r) == now_pt[r] - last_use[k] > UnuseTimeout

\* in_use is not looked at: requests in flight keep their own pointer.
delete_timeout_connect(r) ==
    /\ pc[r] = "expire"
    /\ conns' = {k \in conns : ~Expired(k, r)}
    /\ conn_ptr' = conn_ptr
    /\ Forget
    /\ Goto(r, "search")
    /\ UNCHANGED <<now_pt, res, clock>>

\* Mutant: the shared connection is pushed as if it were new.
Search_PushAgain(r) ==
    /\ pc[r] = "search"
    /\ now_pt' = [now_pt EXCEPT ![r] = 0]
    /\ \/ /\ \E k \in conns :
               /\ last_use' = [last_use EXCEPT ![k] = clock]
               /\ conn_ptr' = [conn_ptr EXCEPT ![r] = k]
          /\ Goto(r, "push")
       \/ conns = {} /\ Goto(r, "new") /\ UNCHANGED <<last_use, conn_ptr>>
    /\ UNCHANGED <<conns, sess, promise, res, clock>>

\* The first connection to the endpoint is shared, or a new one is needed.
Search(r) ==
    /\ pc[r] = "search"
    /\ now_pt' = [now_pt EXCEPT ![r] = 0]
    /\ \/ /\ \E k \in conns :
               /\ last_use' = [last_use EXCEPT ![k] = clock]
               /\ conn_ptr' = [conn_ptr EXCEPT ![r] = k]
          /\ Goto(r, "submit")
       \/ conns = {} /\ Goto(r, "new") /\ UNCHANGED <<last_use, conn_ptr>>
    /\ UNCHANGED <<conns, sess, promise, res, clock>>

\* get returned nullptr
ConnectFails(r) ==
    /\ conn_ptr' = [conn_ptr EXCEPT ![r] = None]
    /\ res' = [res EXCEPT ![r] = "network_connect_timeout_error"]
    /\ Goto(r, "idle")
    /\ conns' = conns
    /\ Forget
    /\ UNCHANGED <<now_pt, clock>>

\* set_ssl and configure_tls_context, which may fail, then the session, which
\* starts to connect.
NewConnect(r) ==
    /\ pc[r] = "new"
    /\ \/ ConnectFails(r)
       \/ /\ \E k \in ConnIds :
               /\ sess[k] = "none"
               /\ sess' = [sess EXCEPT ![k] = "connecting"]
               /\ conn_ptr' = [conn_ptr EXCEPT ![r] = k]
          /\ Goto(r, "wait_connect")
          /\ UNCHANGED <<conns, promise, last_use, now_pt, res, clock>>

\* future.wait_for: the promise, or the sum of the timeouts and a second more
Connected(r) ==
    /\ pc[r] = "wait_connect"
    /\ promise[conn_ptr[r]]
    /\ last_use' = [last_use EXCEPT ![conn_ptr[r]] = clock]
    /\ Goto(r, "push")
    /\ UNCHANGED <<conns, sess, promise, conn_ptr, now_pt, res, clock>>

\* Mutant: the status of wait_for is not looked at.
ConnectTimeout_Ignored(r) ==
    /\ pc[r] = "wait_connect"
    /\ ~promise[conn_ptr[r]]
    /\ Goto(r, "push")
    /\ UNCHANGED <<connVars, conn_ptr, now_pt, res, clock>>

\* Mutant: only the timeout of the session itself ends the wait.
ConnectTimeout_Session(r) ==
    /\ pc[r] = "wait_connect"
    /\ sess[conn_ptr[r]] = "connecting"
    /\ ConnectFails(r)

ConnectTimeout(r) ==
    /\ pc[r] = "wait_connect"
    /\ ~promise[conn_ptr[r]]
    /\ ConnectFails(r)

PushConnect(r) ==
    /\ pc[r] = "push"
    /\ conns' = conns \cup {conn_ptr[r]}
    /\ Goto(r, "submit")
    /\ UNCHANGED <<sess, promise, last_use, conn_ptr, now_pt, res, clock>>

-----------------------------------------------------------------------------
(* The rest of h2_req *)

\* Mutant: a failed submit leaves the connection in the list.
Submit_Keeps(r) ==
    /\ pc[r] = "submit"
    /\ IF sess[conn_ptr[r]] = "up"
       THEN Goto(r, "wait_response") /\ UNCHANGED <<connVars, conn_ptr, res>>
       ELSE /\ res' = [res EXCEPT ![r] = "connection_closed_without_response"]
            /\ conn_ptr' = [conn_ptr EXCEPT ![r] = None]
            /\ Goto(r, "idle")
            /\ conns' = conns
            /\ Forget
    /\ UNCHANGED <<now_pt, clock>>

\* session.submit reports an error on a session that has ended.
Submit(r) ==
    /\ pc[r] = "submit"
    /\ IF sess[conn_ptr[r]] = "up"
       THEN Goto(r, "wait_response") /\ res' = res
       ELSE /\ res' = [res EXCEPT ![r] = "connection_closed_without_response"]
            /\ Goto(r, "delete_invalid")
    /\ UNCHANGED <<connVars, conn_ptr, now_pt, clock>>

\* on_response and the on_data without data, on the io thread: the latter fulfils
\* the promise.
on_data(r) ==
    /\ pc[r] = "wait_response"
    /\ sess[conn_ptr[r]] = "up"
    /\ res[r] = "none"
    /\ res' = [res EXCEPT ![r] = "answered"]
    /\ UNCHANGED <<connVars, pc, conn_ptr, now_pt, clock>>

\* Mutant: the connection is given back to the list, as h1_req would.
Returned_PutsBack(r) ==
    /\ pc[r] = "wait_response"
    /\ res[r] = "answered"
    /\ conns' = conns \cup {conn_ptr[r]}
    /\ conn_ptr' = [conn_ptr EXCEPT ![r] = None]
    /\ Goto(r, "idle")
    /\ Forget
    /\ UNCHANGED <<now_pt, res, clock>>

\* future.wait_for: the answer, or a timeout
Returned(r) ==
    /\ pc[r] = "wait_response"
    /\ res[r] = "answered"
    /\ conn_ptr' = [conn_ptr EXCEPT ![r] = None]
    /\ Goto(r, "idle")
    /\ conns' = conns
    /\ Forget
    /\ UNCHANGED <<now_pt, res, clock>>

ResponseTimeout(r) ==
    /\ pc[r] = "wait_response"
    /\ res[r] = "none"
    /\ res' = [res EXCEPT ![r] = "request_timeout"]
    /\ Goto(r, "delete_invalid")
    /\ UNCHANGED <<connVars, conn_ptr, now_pt, clock>>

delete_invalid_connect(r) ==
    /\ pc[r] = "delete_invalid"
    /\ conns' = conns \ {conn_ptr[r]}
    /\ conn_ptr' = [conn_ptr EXCEPT ![r] = None]
    /\ Forget
    /\ Goto(r, "idle")
    /\ UNCHANGED <<now_pt, res, clock>>

-----------------------------------------------------------------------------
(* The io thread and the peers *)

on_connect(k) ==
    /\ sess[k] = "connecting"
    /\ sess' = [sess EXCEPT ![k] = "up"]
    /\ promise' = [promise EXCEPT ![k] = TRUE]
    /\ UNCHANGED <<conns, last_use, pc, conn_ptr, now_pt, res, clock>>

SessionDies(k) ==
    /\ sess[k] \in {"connecting", "up"}
    /\ sess' = [sess EXCEPT ![k] = "dead"]
    /\ UNCHANGED <<conns, promise, last_use, pc, conn_ptr, now_pt, res, clock>>

\* on_error takes the connection out of the list, if it is there already.
on_error(k) ==
    /\ sess[k] = "dead"
    /\ conns' = conns \ {k}
    /\ LET kept == conns' \cup {conn_ptr[r] : r \in Reqs}
       IN /\ sess' = [sess EXCEPT ![k] = IF k \in kept THEN "closed" ELSE "none"]
          /\ promise' = [promise EXCEPT ![k] = k \in kept /\ @]
          /\ last_use' = [last_use EXCEPT ![k] = IF k \in kept THEN @ ELSE 0]
    /\ UNCHANGED <<pc, conn_ptr, now_pt, res, clock>>

Tick ==
    /\ clock < MaxClock
    /\ clock' = clock + 1
    /\ UNCHANGED <<connVars, pc, conn_ptr, now_pt, res>>

\* What a request does without its peer.
Runs(r) == \/ ReadNow(r) \/ delete_timeout_connect(r) \/ Search(r) \/ NewConnect(r)
           \/ Connected(r) \/ ConnectTimeout(r) \/ PushConnect(r) \/ Submit(r)
           \/ Returned(r) \/ ResponseTimeout(r) \/ delete_invalid_connect(r)

Next == \/ Tick
        \/ \E r \in Reqs : h2_req(r) \/ Runs(r) \/ on_data(r)
        \/ \E k \in ConnIds : on_connect(k) \/ SessionDies(k) \/ on_error(k)

Spec == Init /\ [][Next]_vars

\* Ready fibers run, waits time out, and the io thread runs the handler of a
\* failed session; peers need not answer.
FairSpec == /\ Spec
            /\ \A r \in Reqs : WF_vars(Runs(r))
            /\ \A k \in ConnIds : WF_vars(on_error(k))

-----------------------------------------------------------------------------
(* Properties. *)

\* The values the variables take; what is about to be pushed is not in the list.
TypeOK ==
    /\ conns \subseteq ConnIds
    /\ \A r \in Reqs : pc[r] = "push" => conn_ptr[r] \in ConnIds \ conns
    /\ sess \in [ConnIds -> SessionStates]
    /\ promise \in [ConnIds -> BOOLEAN]
    /\ last_use \in [ConnIds -> Int]
    /\ pc \in [Reqs -> Phases]
    /\ conn_ptr \in [Reqs -> ConnIds \cup {None}]
    /\ now_pt \in [Reqs -> Int]
    /\ res \in [Reqs -> Statuses]
    /\ clock \in Int

Connecting == {r \in Reqs : pc[r] \in {"new", "wait_connect", "push"}}

\* Listed connections and those being made are never more than the fibers that
\* make requests, although searching and pushing are not one step (lines 358-428).
PoolBound == Cardinality(conns) + Cardinality(Connecting) <= Cardinality(Reqs)

\* Whoever holds a connection holds one whose session was started, and what is in
\* the list has connected once: a session that never came up is not shared.
ListedConnected ==
    /\ \A k \in conns : promise[k]
    /\ \A r \in Reqs : conn_ptr[r] # None => sess[conn_ptr[r]] # "none"

\* The list holds only connections that came up, and never more than there are fibers
\* to make them.
ListSound == PoolBound /\ ListedConnected

\* A connection enters the list once, by the request that made it: what another
\* request gave up, or on_error took out, does not come back.
EntersOnce ==
    [][\A k \in ConnIds : k \notin conns /\ k \in conns' =>
          {r \in Reqs : conn_ptr[r] = k} = {r \in Connecting : conn_ptr[r] = k}]_vars

\* Every call of h2_req returns, also when on_error runs and nobody fulfils the
\* promise.
RequestReturns == \A r \in Reqs : pc[r] # "idle" ~> pc[r] = "idle"

\* A session may fail between on_connect and the push, when on_error does not
\* find it in the list (lines 410-426): the first requests that use the dead
\* connection take it out.
DeadDropped ==
    \A k \in ConnIds :
        (k \in conns /\ sess[k] \in {"dead", "closed"} /\ \E r \in Reqs : conn_ptr[r] = k)
            ~> k \notin conns
=============================================================================
