------------------------- MODULE HttpConnPoolProofs -------------------------
(***************************************************************************)
(* Proofs about HttpConnPool, for every number of requests, endpoints and  *)
(* connections.                                                            *)
(***************************************************************************)
EXTENDS HttpConnPool, FiniteSetTheorems, TLAPS

-----------------------------------------------------------------------------
(* Steps. *)

\* A request that makes its connection goes on or gives up; one that uses it gets
\* on, with a status to report.
Connects(r) ==
    /\ pc[r] \in ConnectPhases
    /\ ConnectFails(r) \/ \E phase \in ConnectPhases : ConnectGoesOn(r, phase)

Exchanges(r) ==
    /\ pc[r] \in UsePhases
    /\ \E status \in Statuses, phase \in UsePhases : Answer(r, status, phase)

\* What a step can be, with the operations that leave the cache alone taken together.
LEMMA NextCases ==
    ASSUME res \in [Reqs -> Statuses], [Next]_vars
    PROVE  \/ UNCHANGED vars
           \/ Tick
           \/ \E r \in Reqs : \/ h1_req(r) \/ ReadNow(r) \/ delete_timeout_connect(r)
                              \/ ReuseConnect(r) \/ NewConnect(r) \/ PushConnect(r)
                              \/ Connects(r) \/ Exchanges(r)
                              \/ release_connect(r) \/ delete_invalid_connect(r)
<1>1. ASSUME NEW r \in Reqs, Runs(r) \/ Peer(r)
      PROVE  \/ ReadNow(r) \/ delete_timeout_connect(r) \/ ReuseConnect(r)
             \/ NewConnect(r) \/ PushConnect(r) \/ Connects(r) \/ Exchanges(r)
             \/ release_connect(r) \/ delete_invalid_connect(r)
  <2>. USE DEF ConnectPhases, UsePhases, Statuses, Connects, Exchanges
  <2>1. CASE set_ssl(r) \/ resolve(r) \/ connect(r) \/ Handshake(r)
    BY <2>1 DEF set_ssl, resolve, connect, Handshake
  <2>2. CASE Write(r) \/ Read(r) \/ Shutdown(r)
    BY <2>2 DEF Write, Read, Shutdown, Broken
  <2>3. CASE Deadline(r)
    BY <2>3 DEF Deadline, DeadlinePhases
  <2>. QED  BY <1>1, <2>1, <2>2, <2>3 DEF Runs, Peer
<1>. QED  BY <1>1 DEF Next

-----------------------------------------------------------------------------
(* Types. *)

\* All of TypeOK but the flags.
DataTypes ==
    /\ conns \subseteq ConnIds
    /\ endpoint \in [ConnIds -> Endpoints \cup {None}]
    /\ last_use \in [ConnIds -> Int]
    /\ pc \in [Reqs -> GetPhases \cup ConnectPhases \cup UsePhases]
    /\ arg \in [Reqs -> Endpoints]
    /\ conn_ptr \in [Reqs -> ConnIds \cup {None}]
    /\ now_pt \in [Reqs -> Int]
    /\ res \in [Reqs -> Statuses]
    /\ clock \in Int

\* A request refers to a connection from the moment it has made or found one
\* until it returns; TypeOK alone is not inductive, since a push needs one.
HasConn == \A r \in Reqs : conn_ptr[r] = None <=> pc[r] \in GetPhases

TypeInv == in_use \in [ConnIds -> BOOLEAN] /\ DataTypes /\ HasConn

\* Types and references are kept by every step.
LEMMA TypeInvariant == Spec => []TypeInv
<1>1. Init => TypeInv
  BY ClockAssumption DEF Init, TypeInv, DataTypes, HasConn, GetPhases, Statuses
<1>2. TypeInv /\ [Next]_vars => TypeInv'
  <2>. SUFFICES ASSUME TypeInv, [Next]_vars
                PROVE  TypeInv'
    OBVIOUS
  <2>. USE ConnIdsAssumption, EndpointsAssumption
       DEF TypeInv, DataTypes, HasConn, GetPhases, ConnectPhases, UsePhases, Statuses, poolVars, Goto, DropNow
  <2>1. CASE Tick
    BY <2>1 DEF Tick
  <2>2. CASE UNCHANGED vars
    BY <2>2 DEF vars
  <2>3. ASSUME NEW ks, End(ks)
        PROVE  /\ in_use' \in [ConnIds -> BOOLEAN]
               /\ endpoint' \in [ConnIds -> Endpoints \cup {None}]
               /\ last_use' \in [ConnIds -> Int]
    <3>1. in_use' \in [ConnIds -> BOOLEAN]
      BY <2>3, Zenon DEF End
    <3>2. endpoint' \in [ConnIds -> Endpoints \cup {None}]
      BY <2>3 DEF End
    <3>3. last_use' \in [ConnIds -> Int]
      BY <2>3 DEF End
    <3>. QED  BY <3>1, <3>2, <3>3
  <2>4. ASSUME NEW r \in Reqs, h1_req(r) \/ ReadNow(r)
        PROVE  TypeInv'
    BY <2>4 DEF h1_req, ReadNow
  <2>5. ASSUME NEW r \in Reqs, delete_timeout_connect(r)
        PROVE  TypeInv'
    <3>1. \E ks : conns' = conns \ ks /\ End(ks)
      BY <2>5 DEF delete_timeout_connect
    <3>. QED  BY <2>3, <2>5, <3>1 DEF delete_timeout_connect
  <2>6. ASSUME NEW r \in Reqs, ReuseConnect(r)
        PROVE  TypeInv'
    BY <2>6 DEF ReuseConnect
  <2>7. ASSUME NEW r \in Reqs, NewConnect(r)
        PROVE  TypeInv'
    BY <2>7 DEF NewConnect
  <2>8. ASSUME NEW r \in Reqs, PushConnect(r)
        PROVE  TypeInv'
    BY <2>8 DEF PushConnect
  <2>9. ASSUME NEW r \in Reqs, Connects(r)
        PROVE  TypeInv'
    <3>1. CASE ConnectFails(r)
      <4>1. /\ in_use' \in [ConnIds -> BOOLEAN]
            /\ endpoint' \in [ConnIds -> Endpoints \cup {None}]
            /\ last_use' \in [ConnIds -> Int]
        BY <2>3, <3>1 DEF ConnectFails
      <4>. QED  BY <3>1, <4>1 DEF ConnectFails
    <3>2. ASSUME NEW phase \in ConnectPhases, ConnectGoesOn(r, phase)
          PROVE  TypeInv'
      BY <2>9, <3>2 DEF Connects, ConnectGoesOn
    <3>. QED  BY <2>9, <3>1, <3>2 DEF Connects
  <2>10. ASSUME NEW r \in Reqs, Exchanges(r)
         PROVE  TypeInv'
    BY <2>10 DEF Exchanges, Answer
  <2>11. ASSUME NEW r \in Reqs, release_connect(r)
         PROVE  TypeInv'
    <3>1. /\ in_use' \in [ConnIds -> BOOLEAN]
          /\ last_use' \in [ConnIds -> Int]
      <4>1. CASE conn_ptr[r] \in conns
        <5>1. /\ in_use' = [in_use EXCEPT ![conn_ptr[r]] = FALSE]
              /\ last_use' = [last_use EXCEPT ![conn_ptr[r]] = clock]
          BY <2>11, <4>1 DEF release_connect
        <5>. QED  BY <5>1, Zenon
      <4>2. CASE conn_ptr[r] \notin conns
        BY <2>11, <4>2 DEF release_connect
      <4>. QED  BY <4>1, <4>2
    <3>. QED  BY <2>11, <3>1 DEF release_connect
  <2>12. ASSUME NEW r \in Reqs, delete_invalid_connect(r)
         PROVE  TypeInv'
    <3>1. /\ in_use' \in [ConnIds -> BOOLEAN]
          /\ endpoint' \in [ConnIds -> Endpoints \cup {None}]
          /\ last_use' \in [ConnIds -> Int]
      BY <2>3, <2>12 DEF delete_invalid_connect
    <3>. QED  BY <2>12, <3>1 DEF delete_invalid_connect
  <2>. QED  BY <2>1, <2>2, <2>4, <2>5, <2>6, <2>7, <2>8, <2>9, <2>10, <2>11, <2>12, NextCases
<1>. QED  BY <1>1, <1>2, PTL DEF Spec

\* The variables keep their types whatever the requests do: the type invariant of the
\* safety run holds for all values of the constants.
THEOREM TypeCorrect == Spec => []TypeOK
<1>1. TypeInv => TypeOK
  BY DEF TypeInv, DataTypes, TypeOK
<1>. QED  BY <1>1, TypeInvariant, PTL

-----------------------------------------------------------------------------
(* The inductive invariant. *)

\* What a request refers to was made for its endpoint; it is outside of the lists and
\* not marked while the request connects, and in its list and marked afterwards.
UseInv ==
    \A r \in Reqs :
        /\ conn_ptr[r] # None => endpoint[conn_ptr[r]] = arg[r]
        /\ pc[r] \in ConnectPhases => conn_ptr[r] \notin conns /\ ~in_use[conn_ptr[r]]
        /\ pc[r] \in UsePhases => conn_ptr[r] \in conns /\ in_use[conn_ptr[r]]

\* A connection that is marked, or that exists outside of the lists, has a request
\* that refers to it; what is in a list exists.
KeptInv ==
    \A k \in ConnIds :
        /\ k \in conns => endpoint[k] # None
        /\ in_use[k] => \E r \in Reqs : conn_ptr[r] = k
        /\ endpoint[k] # None /\ k \notin conns => \E r \in Reqs : conn_ptr[r] = k

PoolInv == ExclusiveUse /\ UseInv /\ KeptInv

\* Every step keeps the connections where they belong.
LEMMA PoolStep ==
    ASSUME TypeInv, TypeInv', PoolInv, [Next]_vars
    PROVE  PoolInv'
<1>. USE ConnIdsAssumption, EndpointsAssumption
     DEF TypeInv, DataTypes, HasConn, PoolInv, ExclusiveUse, UseInv, KeptInv, GetPhases,
         ConnectPhases, UsePhases, poolVars, Goto, DropNow
<1>1. CASE UNCHANGED vars \/ Tick
  BY <1>1 DEF vars, Tick
<1>2. ASSUME NEW r \in Reqs, h1_req(r) \/ ReadNow(r)
      PROVE  PoolInv'
  BY <1>2 DEF h1_req, ReadNow
<1>3. ASSUME NEW r \in Reqs, delete_timeout_connect(r)
      PROVE  PoolInv'
  <2>1. PICK old \in SUBSET conns :
            /\ \A k \in old : ~in_use[k]
            /\ conns' = conns \ old
            /\ End(old)
    BY <1>3 DEF delete_timeout_connect, Expired
  <2>2. /\ UNCHANGED <<conn_ptr, arg>>
        /\ pc' = [pc EXCEPT ![r] = "search"] /\ pc[r] = "expire"
    BY <1>3 DEF delete_timeout_connect
  <2>3. \A k \in ConnIds :
            /\ k \in old => endpoint'[k] = None /\ ~in_use'[k]
            /\ k \notin old => endpoint'[k] = endpoint[k] /\ in_use'[k] = in_use[k]
    BY <2>1, Zenon DEF End
  <2>4. \A s \in Reqs : conn_ptr[s] \notin old
    BY <2>1
  <2>. QED  BY <2>1, <2>2, <2>3, <2>4
<1>4. ASSUME NEW r \in Reqs, ReuseConnect(r)
      PROVE  PoolInv'
  BY <1>4 DEF ReuseConnect, Reusable
<1>5. ASSUME NEW r \in Reqs, NewConnect(r)
      PROVE  PoolInv'
  BY <1>5 DEF NewConnect, Exists
<1>6. ASSUME NEW r \in Reqs, PushConnect(r)
      PROVE  PoolInv'
  BY <1>6 DEF PushConnect
<1>7. ASSUME NEW r \in Reqs, Connects(r)
      PROVE  PoolInv'
  <2>1. CASE ConnectFails(r)
    <3>1. \A k \in ConnIds :
            /\ k = conn_ptr[r] => endpoint'[k] = None /\ ~in_use'[k]
            /\ k # conn_ptr[r] => endpoint'[k] = endpoint[k] /\ in_use'[k] = in_use[k]
      BY <2>1, Zenon DEF ConnectFails, End
    <3>2. conn_ptr' = [conn_ptr EXCEPT ![r] = None] /\ pc' = [pc EXCEPT ![r] = "idle"]
      BY <2>1 DEF ConnectFails
    <3>3. UNCHANGED <<conns, arg>> /\ conn_ptr[r] \notin conns
      BY <1>7, <2>1 DEF Connects, ConnectFails
    <3>4. ExclusiveUse'
      BY <3>2
    <3>5. UseInv'
      BY <3>1, <3>2, <3>3
    <3>6. KeptInv'
      BY <3>1, <3>2, <3>3
    <3>. QED  BY <3>4, <3>5, <3>6
  <2>2. ASSUME NEW phase \in ConnectPhases, ConnectGoesOn(r, phase)
        PROVE  PoolInv'
    <3>1. UNCHANGED <<poolVars, arg, conn_ptr>> /\ pc' = [pc EXCEPT ![r] = phase]
      BY <2>2 DEF ConnectGoesOn
    <3>2. pc[r] \in ConnectPhases
      BY <1>7 DEF Connects
    <3>. QED  BY <3>1, <3>2
  <2>. QED  BY <1>7, <2>1, <2>2 DEF Connects
<1>8. ASSUME NEW r \in Reqs, Exchanges(r)
      PROVE  PoolInv'
  BY <1>8 DEF Exchanges, Answer
<1>9. ASSUME NEW r \in Reqs, release_connect(r)
      PROVE  PoolInv'
  BY <1>9 DEF release_connect
<1>10. ASSUME NEW r \in Reqs, delete_invalid_connect(r)
       PROVE  PoolInv'
  <2>1. \A k \in ConnIds :
            /\ k = conn_ptr[r] => endpoint'[k] = None /\ ~in_use'[k]
            /\ k # conn_ptr[r] => endpoint'[k] = endpoint[k] /\ in_use'[k] = in_use[k]
    BY <1>10, Zenon DEF delete_invalid_connect, End
  <2>. QED  BY <1>10, <2>1 DEF delete_invalid_connect
<1>. QED  BY <1>1, <1>2, <1>3, <1>4, <1>5, <1>6, <1>7, <1>8, <1>9, <1>10, NextCases, Zenon

\* The invariant behind the safety theorems.
THEOREM Inductive == Spec => [](TypeInv /\ PoolInv)
<1>1. Init => PoolInv
  BY ConnIdsAssumption
  DEF Init, PoolInv, ExclusiveUse, UseInv, KeptInv, ConnectPhases, UsePhases
<1>2. TypeInv /\ TypeInv' /\ PoolInv /\ [Next]_vars => PoolInv'
  BY PoolStep
<1>. QED  BY <1>1, <1>2, TypeInvariant, PTL DEF Spec

\* The mark in_use means what it says: whoever uses a connection is alone with it, finds
\* it in its list, and every marked one has its user (multi_client_http.cpp:105-212).
THEOREM InUseMeansHeldCorrect == Spec => []InUseMeansHeld
<1>1. TypeInv /\ PoolInv => InUseMeansHeld
  BY ConnIdsAssumption
  DEF TypeInv, DataTypes, HasConn, PoolInv, UseInv, KeptInv, InUseMeansHeld,
      HeldStaysListed, NoLeak, Holds, GetPhases, UsePhases
<1>. QED  BY <1>1, Inductive, PTL

-----------------------------------------------------------------------------
(* The size of the cache. *)

\* Connections that requests refer to are no more than the requests.
LEMMA HeldBound ==
    ASSUME NEW ptr, NEW ks, \A k \in ks : \E r \in Reqs : ptr[r] = k
    PROVE  Cardinality(ks) <= Cardinality(Reqs)
<1>. DEFINE holder == [k \in ks |-> CHOOSE r \in Reqs : ptr[r] = k]
<1>1. \A k \in ks : holder[k] \in Reqs /\ ptr[holder[k]] = k
  OBVIOUS
<1>2. holder \in [ks -> Reqs]
  BY <1>1
<1>3. \A j, k \in ks : holder[j] = holder[k] => j = k
  BY <1>1
<1>. HIDE DEF holder
<1>4. holder \in Injection(ks, Reqs)
  BY <1>2, <1>3 DEF Injection, IsInjective
<1>. QED  BY <1>4, FS_Injection, ReqsAssumption

\* A request makes a connection only when all those to its endpoint are in use, so
\* their number is bounded by that of the requests.
THEOREM PoolBoundCorrect == Spec => []PoolBound
<1>. DEFINE To(e) == {k \in ConnIds : endpoint[k] = e}
<1>1. Init => PoolBound
  <2>. SUFFICES ASSUME Init, NEW e \in Endpoints
                PROVE  Cardinality(To(e)) <= Cardinality(Reqs)
    BY DEF PoolBound
  <2>1. To(e) = {}
    BY EndpointsAssumption DEF Init
  <2>. QED  BY <2>1, FS_EmptySet, FS_CardinalityType, ReqsAssumption
<1>2. TypeInv /\ PoolInv /\ PoolBound /\ [Next]_vars => PoolBound'
  <2>. SUFFICES ASSUME TypeInv, PoolInv, PoolBound, [Next]_vars, NEW e \in Endpoints
                PROVE  Cardinality(To(e)') <= Cardinality(Reqs)
    BY DEF PoolBound
  <2>1. CASE To(e)' \subseteq To(e)
    <3>1. IsFiniteSet(To(e))
      BY ConnIdsAssumption, FS_Subset
    <3>2. /\ Cardinality(To(e)') <= Cardinality(To(e))
          /\ Cardinality(To(e)) \in Nat /\ Cardinality(To(e)') \in Nat
      BY <2>1, <3>1, FS_Subset, FS_CardinalityType
    <3>3. Cardinality(To(e)) <= Cardinality(Reqs)
      BY DEF PoolBound
    <3>. QED  BY <3>2, <3>3, FS_CardinalityType, ReqsAssumption
  <2>2. ASSUME NEW r \in Reqs, NewConnect(r), arg[r] = e
        PROVE  Cardinality(To(e)') <= Cardinality(Reqs)
    <3>1. \A k \in To(e)' : \E s \in Reqs : conn_ptr'[s] = k
      <4>1. PICK n \in ConnIds : /\ endpoint' = [endpoint EXCEPT ![n] = e]
                                 /\ conn_ptr' = [conn_ptr EXCEPT ![r] = n]
        BY <2>2, Zenon DEF NewConnect
      <4>2. conn_ptr[r] = None
        BY <2>2 DEF NewConnect, TypeInv, HasConn, GetPhases
      <4>3. \A k \in To(e) : \E s \in Reqs : conn_ptr[s] = k
        BY <2>2, EndpointsAssumption DEF NewConnect, Reusable, PoolInv, KeptInv
      <4>4. \A k \in To(e) : \E s \in Reqs : s # r /\ conn_ptr[s] = k
        BY <4>2, <4>3, ConnIdsAssumption
      <4>5. conn_ptr'[r] = n /\ \A s \in Reqs : s # r => conn_ptr'[s] = conn_ptr[s]
        BY <4>1 DEF TypeInv, DataTypes
      <4>6. To(e)' \subseteq To(e) \cup {n}
        BY <4>1 DEF TypeInv, DataTypes
      <4>. QED  BY <4>4, <4>5, <4>6
    <3>. QED  BY <3>1, HeldBound
  <2>3. ASSUME NEW r \in Reqs, NewConnect(r), arg[r] # e
        PROVE  To(e)' \subseteq To(e)
    BY <2>3 DEF NewConnect, TypeInv, DataTypes
  <2>4. ASSUME NEW ks, End(ks)
        PROVE  To(e)' \subseteq To(e)
    BY <2>4, EndpointsAssumption DEF End
  <2>5. ASSUME NEW r \in Reqs,
               delete_timeout_connect(r) \/ delete_invalid_connect(r) \/ ConnectFails(r)
        PROVE  To(e)' \subseteq To(e)
    BY <2>4, <2>5 DEF delete_timeout_connect, delete_invalid_connect, ConnectFails
  <2>6. ASSUME NEW r \in Reqs,
               \/ h1_req(r) \/ ReadNow(r) \/ ReuseConnect(r) \/ PushConnect(r)
               \/ release_connect(r) \/ Exchanges(r)
               \/ \E phase \in ConnectPhases : ConnectGoesOn(r, phase)
        PROVE  To(e)' \subseteq To(e)
    BY <2>6 DEF h1_req, ReadNow, ReuseConnect, PushConnect, release_connect, Exchanges,
                Answer, ConnectGoesOn, poolVars
  <2>7. CASE UNCHANGED vars \/ Tick
    BY <2>1, <2>7 DEF vars, Tick, poolVars
  <2>. QED
    BY <2>1, <2>2, <2>3, <2>5, <2>6, <2>7, NextCases DEF TypeInv, DataTypes, Connects
<1>. QED  BY <1>1, <1>2, Inductive, PTL DEF Spec

-----------------------------------------------------------------------------
(* The age of what is reused. *)

\* Between its delete_timeout and its search a request has no idle connection before it
\* that is too old for the time it read: what others put back meanwhile is younger, as
\* long as the clock is ahead of every time that was read.
AgeInv ==
    /\ clock >= 0
    /\ \A r \in Reqs : now_pt[r] <= clock
    /\ \A r \in Reqs : pc[r] = "search" =>
         \A k \in conns : SameList(k, r) /\ ~in_use[k] =>
             now_pt[r] - last_use[k] <= UnuseTimeout

\* In a step that brings no other request to its search, a connection that is idle
\* afterwards was idle before or has just been used.
LEMMA AgeFrame ==
    ASSUME TypeInv, TypeInv', AgeInv, clock' >= clock,
           \A s \in Reqs : now_pt'[s] = now_pt[s] \/ now_pt'[s] \in {0, clock},
           \A s \in Reqs : pc'[s] = "search" =>
               \/ pc[s] = "search" /\ arg'[s] = arg[s] /\ now_pt'[s] = now_pt[s]
               \/ \A k \in conns' : SameList(k, s)' /\ ~in_use'[k] =>
                      now_pt'[s] - last_use'[k] <= UnuseTimeout,
           \A k \in conns' : ~in_use'[k] =>
               \/ last_use'[k] = clock
               \/ /\ k \in conns /\ ~in_use[k] /\ endpoint'[k] = endpoint[k]
                  /\ last_use'[k] = last_use[k]
    PROVE  AgeInv'
<1>. USE ClockAssumption DEF TypeInv, DataTypes
<1>1. clock' >= 0 /\ \A s \in Reqs : now_pt'[s] <= clock'
  BY DEF AgeInv
<1>2. ASSUME NEW s \in Reqs, pc'[s] = "search",
             pc[s] = "search", arg'[s] = arg[s], now_pt'[s] = now_pt[s],
             NEW k \in conns', SameList(k, s)', ~in_use'[k]
      PROVE  now_pt'[s] - last_use'[k] <= UnuseTimeout
  <2>1. now_pt'[s] = now_pt[s] /\ pc[s] = "search" /\ arg'[s] = arg[s]
    BY <1>2
  <2>2. now_pt[s] <= clock /\ now_pt[s] \in Int /\ clock \in Int
    BY DEF AgeInv
  <2>3. CASE last_use'[k] = clock
    BY <2>1, <2>2, <2>3
  <2>4. CASE /\ k \in conns /\ ~in_use[k] /\ endpoint'[k] = endpoint[k]
             /\ last_use'[k] = last_use[k]
    <3>1. SameList(k, s)
      BY <1>2, <2>1, <2>4 DEF SameList
    <3>. QED  BY <2>1, <2>4, <3>1 DEF AgeInv
  <2>. QED  BY <1>2, <2>3, <2>4
<1>. QED  BY <1>1, <1>2 DEF AgeInv

\* AgeInv is inductive while the clock does not go back.
LEMMA AgeStep ==
    ASSUME ~ClockJumps, TypeInv, TypeInv', PoolInv, AgeInv, [Next]_vars
    PROVE  AgeInv'
<1>. USE DEF TypeInv, DataTypes, poolVars, Goto, DropNow
<1>1. CASE UNCHANGED vars
  BY <1>1 DEF vars, AgeInv, SameList
<1>2. CASE Tick
  <2>1. clock' >= clock
    BY <1>2 DEF Tick
  <2>. QED  BY <1>2, <2>1, AgeFrame DEF Tick
<1>3. ASSUME NEW r \in Reqs,
             \/ h1_req(r) \/ ReadNow(r) \/ Exchanges(r)
             \/ \E phase \in ConnectPhases : ConnectGoesOn(r, phase)
      PROVE  AgeInv'
  <2>1. UNCHANGED <<conns, endpoint, in_use, last_use, clock>>
    BY <1>3 DEF h1_req, ReadNow, Exchanges, Answer, ConnectGoesOn
  <2>2. \A s \in Reqs : now_pt'[s] = now_pt[s] \/ now_pt'[s] \in {0, clock}
    BY <1>3 DEF h1_req, ReadNow, Exchanges, Answer, ConnectGoesOn
  <2>3. \A s \in Reqs : pc'[s] = "search" =>
               pc[s] = "search" /\ arg'[s] = arg[s] /\ now_pt'[s] = now_pt[s]
    <3>1. CASE h1_req(r) \/ ReadNow(r)
      BY <3>1 DEF h1_req, ReadNow
    <3>2. CASE Exchanges(r)
      BY <3>2 DEF Exchanges, Answer, UsePhases
    <3>3. ASSUME NEW phase \in ConnectPhases, ConnectGoesOn(r, phase)
          PROVE  \A s \in Reqs : pc'[s] = "search" =>
                     pc[s] = "search" /\ arg'[s] = arg[s] /\ now_pt'[s] = now_pt[s]
      BY <3>3 DEF ConnectGoesOn, ConnectPhases
    <3>. QED  BY <1>3, <3>1, <3>2, <3>3
  <2>4. clock' >= clock
    BY <2>1
  <2>. QED  BY <2>1, <2>2, <2>3, <2>4, AgeFrame
<1>4. ASSUME NEW r \in Reqs, delete_timeout_connect(r)
      PROVE  AgeInv'
  <2>. DEFINE old == {k \in conns : SameList(k, r) /\ Expired(k, r)}
  <2>1. /\ conns' = conns \ old
        /\ \A k \in conns' : /\ endpoint'[k] = endpoint[k] /\ last_use'[k] = last_use[k]
                             /\ in_use'[k] = in_use[k]
        /\ pc' = [pc EXCEPT ![r] = "search"]
        /\ UNCHANGED <<arg, now_pt, clock>>
    BY <1>4, Zenon DEF delete_timeout_connect, End
  <2>2. ASSUME NEW k \in conns', SameList(k, r)', ~in_use'[k]
        PROVE  now_pt'[r] - last_use'[k] <= UnuseTimeout
    <3>1. SameList(k, r) /\ ~in_use[k] /\ k \in conns \ old
      BY <2>1, <2>2 DEF SameList
    <3>2. ~(now_pt[r] - last_use[k] > UnuseTimeout)
      BY <3>1 DEF Expired
    <3>3. now_pt[r] \in Int /\ last_use[k] \in Int
      BY <3>1
    <3>4. now_pt[r] - last_use[k] <= UnuseTimeout
      BY <3>2, <3>3, ClockAssumption
    <3>5. now_pt'[r] = now_pt[r] /\ last_use'[k] = last_use[k]
      BY <2>1, <2>2
    <3>. QED  BY <3>4, <3>5
  <2>. HIDE DEF old
  <2>3. clock' >= clock
    BY <2>1
  <2>4. \A s \in Reqs : pc'[s] = "search" => pc[s] = "search" \/ s = r
    BY <2>1
  <2>5. \A k \in conns' : ~in_use'[k] => k \in conns /\ ~in_use[k]
    BY <2>1
  <2>. QED  BY <2>1, <2>2, <2>3, <2>4, <2>5, AgeFrame
<1>5. ASSUME NEW r \in Reqs,
             \/ ReuseConnect(r) \/ NewConnect(r) \/ PushConnect(r) \/ ConnectFails(r)
             \/ release_connect(r) \/ delete_invalid_connect(r),
             \A k \in conns' : ~in_use'[k] =>
               \/ last_use'[k] = clock
               \/ /\ k \in conns /\ ~in_use[k] /\ endpoint'[k] = endpoint[k]
                  /\ last_use'[k] = last_use[k]
      PROVE  AgeInv'
  <2>1. UNCHANGED <<arg, clock>>
    BY <1>5 DEF ReuseConnect, NewConnect, PushConnect, ConnectFails, release_connect,
                delete_invalid_connect
  <2>2. \A s \in Reqs : now_pt'[s] = now_pt[s] \/ now_pt'[s] \in {0, clock}
    BY <1>5 DEF ReuseConnect, NewConnect, PushConnect, ConnectFails, release_connect,
                delete_invalid_connect
  <2>3. \A s \in Reqs : pc'[s] = "search" =>
               pc[s] = "search" /\ now_pt'[s] = now_pt[s]
    <3>1. CASE ReuseConnect(r) \/ NewConnect(r)
      BY <3>1 DEF ReuseConnect, NewConnect
    <3>2. CASE PushConnect(r) \/ ConnectFails(r)
      BY <3>2 DEF PushConnect, ConnectFails
    <3>3. CASE release_connect(r) \/ delete_invalid_connect(r)
      BY <3>3 DEF release_connect, delete_invalid_connect
    <3>. QED  BY <1>5, <3>1, <3>2, <3>3
  <2>4. clock' >= clock
    BY <2>1
  <2>. QED  BY <1>5, <2>1, <2>2, <2>3, <2>4, AgeFrame
<1>6. ASSUME NEW r \in Reqs, ReuseConnect(r) \/ PushConnect(r) \/ release_connect(r)
      PROVE  AgeInv'
  <2>1. UNCHANGED endpoint
    BY <1>6 DEF ReuseConnect, PushConnect, release_connect
  <2>2. ASSUME NEW k \in conns', ~in_use'[k]
        PROVE  last_use'[k] = clock \/ (k \in conns /\ ~in_use[k] /\ last_use'[k] = last_use[k])
    BY <1>6, <2>2 DEF ReuseConnect, PushConnect, release_connect
  <2>. QED  BY <1>5, <1>6, <2>1, <2>2
<1>7. ASSUME NEW r \in Reqs, NewConnect(r)
      PROVE  AgeInv'
  <2>1. \A k \in conns : endpoint'[k] = endpoint[k]
    BY <1>7 DEF NewConnect, Exists, PoolInv, KeptInv
  <2>. QED  BY <1>5, <1>7, <2>1, Zenon DEF NewConnect
<1>8. ASSUME NEW r \in Reqs, pc[r] \in ConnectPhases, ConnectFails(r)
      PROVE  AgeInv'
  <2>1. conn_ptr[r] \notin conns
    BY <1>8 DEF PoolInv, UseInv
  <2>2. \A k \in conns' : /\ k \in conns /\ in_use'[k] = in_use[k]
                          /\ endpoint'[k] = endpoint[k] /\ last_use'[k] = last_use[k]
    BY <1>8, <2>1, Zenon DEF ConnectFails, End
  <2>. QED  BY <1>5, <1>8, <2>2
<1>9. ASSUME NEW r \in Reqs, delete_invalid_connect(r)
      PROVE  AgeInv'
  <2>1. \A k \in conns' : /\ k \in conns /\ in_use'[k] = in_use[k]
                          /\ endpoint'[k] = endpoint[k] /\ last_use'[k] = last_use[k]
    BY <1>9 DEF delete_invalid_connect, End
  <2>. QED  BY <1>5, <1>9, <2>1
<1>. QED
  BY <1>1, <1>2, <1>3, <1>4, <1>6, <1>7, <1>8, <1>9, NextCases DEF Connects

\* With a clock that does not go back, a request never takes up a connection that had
\* been idle for longer than UnuseTimeout at the time it read, although other requests
\* use and release connections between its two critical sections
\* (multi_client_http.cpp:105-156, 188-212).
THEOREM ReuseWithinTimeoutCorrect ==
    ASSUME ~ClockJumps
    PROVE  Spec => ReuseWithinTimeout
<1>1. Init => AgeInv
  BY DEF Init, AgeInv
<1>2. TypeInv /\ TypeInv' /\ PoolInv /\ AgeInv /\ [Next]_vars => AgeInv'
  BY AgeStep
<1>3. ASSUME TypeInv, AgeInv, [Next]_vars, NEW r \in Reqs, Reuses(r)
      PROVE  now_pt[r] - last_use[conn_ptr'[r]] <= UnuseTimeout
  <2>. USE DEF TypeInv, DataTypes, Goto
  <2>1. pc[r] = "search" /\ pc'[r] = "write"
    BY <1>3 DEF Reuses
  <2>2. ReuseConnect(r)
    <3>1. ~ UNCHANGED pc
      BY <2>1
    <3>2. PICK q \in Reqs : \/ h1_req(q) \/ ReadNow(q) \/ delete_timeout_connect(q)
                           \/ ReuseConnect(q) \/ NewConnect(q) \/ PushConnect(q)
                           \/ Connects(q) \/ Exchanges(q)
                           \/ release_connect(q) \/ delete_invalid_connect(q)
      BY <1>3, <3>1, NextCases DEF vars, Tick
    <3>3. \E phase : pc' = [pc EXCEPT ![q] = phase]
      BY <3>2
      DEF h1_req, ReadNow, delete_timeout_connect, ReuseConnect, NewConnect,
          PushConnect, Connects, ConnectFails, ConnectGoesOn, Exchanges, Answer,
          release_connect, delete_invalid_connect
    <3>4. q = r
      BY <1>3, <2>1, <3>3
    <3>5. ~(h1_req(r) \/ ReadNow(r) \/ delete_timeout_connect(r) \/ PushConnect(r)
            \/ Connects(r) \/ Exchanges(r) \/ release_connect(r)
            \/ delete_invalid_connect(r))
      BY <2>1 DEF h1_req, ReadNow, delete_timeout_connect, PushConnect, Connects,
                  Exchanges, release_connect, delete_invalid_connect, ConnectPhases,
                  UsePhases
    <3>6. ~ NewConnect(r)
      BY <1>3, <2>1 DEF NewConnect
    <3>. QED  BY <3>2, <3>4, <3>5, <3>6
  <2>3. PICK k \in ConnIds : Reusable(k, r) /\ conn_ptr' = [conn_ptr EXCEPT ![r] = k]
    BY <2>2, Zenon DEF ReuseConnect
  <2>4. conn_ptr'[r] = k /\ k \in conns /\ ~in_use[k] /\ SameList(k, r)
    BY <1>3, <2>3 DEF Reusable, SameList
  <2>5. now_pt[r] - last_use[k] <= UnuseTimeout
    BY <1>3, <2>1, <2>4 DEF AgeInv
  <2>. QED  BY <2>4, <2>5
<1>4. TypeInv /\ AgeInv /\ [Next]_vars
      => [\A r \in Reqs : Reuses(r) =>
             now_pt[r] - last_use[conn_ptr'[r]] <= UnuseTimeout]_vars
  BY <1>3, Zenon
<1>. QED  BY <1>1, <1>2, <1>4, Inductive, PTL DEF Spec, ReuseWithinTimeout

-----------------------------------------------------------------------------
(* Refinement. *)

\* The two lists and their requests are a pool of leases: a connection is created for or
\* leased to one request at a time, and only idle ones are reused or expire.
THEOREM ImplementsLeasePoolCorrect == Spec => ImplementsLeasePool
<1>. DEFINE Idle == {k \in conns : ~in_use[k]}
<1>1. Init => Leases!Init
  BY DEF Init, Leases!Init
<1>2. TypeInv /\ TypeInv' /\ PoolInv /\ [Next]_vars => [Leases!Next]_(Leases!vars)
  <2>. SUFFICES ASSUME TypeInv, TypeInv', PoolInv, [Next]_vars
                PROVE  [Leases!Next]_(Leases!vars)
    OBVIOUS
  <2>. USE DEF TypeInv, DataTypes, poolVars, Goto
  <2>1. CASE UNCHANGED vars \/ Tick
    BY <2>1 DEF vars, Tick, Leases!vars
  <2>2. ASSUME NEW r \in Reqs,
               \/ h1_req(r) \/ ReadNow(r) \/ Exchanges(r)
               \/ \E phase \in ConnectPhases : ConnectGoesOn(r, phase)
        PROVE  UNCHANGED Leases!vars
    BY <2>2 DEF h1_req, ReadNow, Exchanges, Answer, ConnectGoesOn, Leases!vars
  <2>3. ASSUME NEW r \in Reqs, delete_timeout_connect(r)
        PROVE  Leases!Expire
    <3>1. UNCHANGED conn_ptr
      BY <2>3 DEF delete_timeout_connect
    <3>2. Idle' \subseteq Idle
      BY <2>3, Zenon DEF delete_timeout_connect, End
    <3>. QED  BY <3>1, <3>2 DEF Leases!Expire
  <2>4. ASSUME NEW r \in Reqs, ReuseConnect(r)
        PROVE  \E k \in ConnIds : Leases!Reuse(r, k)
    <3>1. PICK k \in ConnIds : /\ Reusable(k, r)
                               /\ in_use' = [in_use EXCEPT ![k] = TRUE]
                               /\ conn_ptr' = [conn_ptr EXCEPT ![r] = k]
      BY <2>4, Zenon DEF ReuseConnect
    <3>2. conn_ptr[r] = None
      BY <2>4 DEF ReuseConnect, HasConn, GetPhases
    <3>3. UNCHANGED conns
      BY <2>4 DEF ReuseConnect
    <3>4. k \in Idle /\ Idle' = Idle \ {k}
      BY <3>1, <3>3 DEF Reusable
    <3>. QED  BY <3>1, <3>2, <3>4, Zenon DEF Leases!Reuse
  <2>5. ASSUME NEW r \in Reqs, NewConnect(r)
        PROVE  \E k \in ConnIds : Leases!Create(r, k)
    <3>1. PICK k \in ConnIds \ Exists : conn_ptr' = [conn_ptr EXCEPT ![r] = k]
      BY <2>5, Zenon DEF NewConnect
    <3>2. conn_ptr[r] = None
      BY <2>5 DEF NewConnect, HasConn, GetPhases
    <3>3. UNCHANGED <<conns, in_use>>
      BY <2>5 DEF NewConnect
    <3>4. endpoint[k] = None /\ None \notin Endpoints
      BY EndpointsAssumption DEF Exists
    <3>5. k \notin conns
      BY <3>4 DEF PoolInv, KeptInv
    <3>6. ASSUME NEW s \in Reqs  PROVE conn_ptr[s] # k
      <4>1. conn_ptr[s] # None => endpoint[conn_ptr[s]] = arg[s]
        BY DEF HasConn, PoolInv, UseInv
      <4>. QED  BY <3>4, <4>1, ConnIdsAssumption
    <3>7. k \notin Idle /\ Idle' = Idle
      BY <3>3, <3>5
    <3>8. k \notin Leases!Leased
      BY <3>6 DEF Leases!Leased
    <3>. QED  BY <3>1, <3>2, <3>7, <3>8, Zenon DEF Leases!Create
  <2>6. ASSUME NEW r \in Reqs, PushConnect(r)
        PROVE  UNCHANGED Leases!vars
    <3>1. UNCHANGED conn_ptr
      BY <2>6 DEF PushConnect
    <3>2. conn_ptr[r] \in ConnIds /\ conn_ptr[r] \notin conns
      BY <2>6 DEF PushConnect, HasConn, GetPhases, PoolInv, UseInv, ConnectPhases
    <3>3. /\ conns' = conns \cup {conn_ptr[r]}
          /\ in_use' = [in_use EXCEPT ![conn_ptr[r]] = TRUE]
      BY <2>6 DEF PushConnect
    <3>4. in_use'[conn_ptr[r]] /\ \A k \in conns : in_use'[k] = in_use[k]
      BY <3>2, <3>3, Zenon
    <3>5. Idle' = Idle
      BY <3>2, <3>3, <3>4
    <3>. QED  BY <3>1, <3>5 DEF Leases!vars
  <2>7. ASSUME NEW r \in Reqs, conn_ptr[r] # None,
               conn_ptr' = [conn_ptr EXCEPT ![r] = None],
               Idle' = Idle \/ Idle' = Idle \cup {conn_ptr[r]}
        PROVE  Leases!Return(r)
    BY <2>7 DEF Leases!Return
  <2>8. ASSUME NEW r \in Reqs, pc[r] \in ConnectPhases, ConnectFails(r)
        PROVE  Leases!Return(r)
    <3>1. conn_ptr[r] # None /\ conn_ptr[r] \notin conns
      BY <2>8 DEF HasConn, GetPhases, ConnectPhases, PoolInv, UseInv
    <3>2. Idle' = Idle
      BY <2>8, <3>1, Zenon DEF ConnectFails, End
    <3>. QED  BY <2>7, <2>8, <3>1, <3>2, Zenon DEF ConnectFails
  <2>9. ASSUME NEW r \in Reqs, release_connect(r)
        PROVE  Leases!Return(r)
    <3>1. conn_ptr[r] # None /\ conn_ptr[r] \in conns
      BY <2>9 DEF release_connect, HasConn, GetPhases, UsePhases, PoolInv, UseInv
    <3>2. UNCHANGED conns /\ in_use' = [in_use EXCEPT ![conn_ptr[r]] = FALSE]
      BY <2>9, <3>1 DEF release_connect
    <3>3. /\ ~in_use'[conn_ptr[r]]
          /\ \A k \in conns : k # conn_ptr[r] => in_use'[k] = in_use[k]
      BY <3>1, <3>2
    <3>4. Idle' = Idle \cup {conn_ptr[r]}
      BY <3>1, <3>2, <3>3
    <3>. QED  BY <2>7, <2>9, <3>1, <3>4, Zenon DEF release_connect
  <2>10. ASSUME NEW r \in Reqs, delete_invalid_connect(r)
         PROVE  Leases!Return(r)
    <3>1. conn_ptr[r] # None /\ conn_ptr[r] \in conns /\ in_use[conn_ptr[r]]
      BY <2>10 DEF delete_invalid_connect, HasConn, GetPhases, UsePhases, PoolInv, UseInv
    <3>2. Idle' = Idle
      BY <2>10, <3>1, Zenon DEF delete_invalid_connect, End
    <3>. QED  BY <2>7, <2>10, <3>1, <3>2, Zenon DEF delete_invalid_connect
  <2>. HIDE DEF TypeInv, DataTypes
  <2>11. res \in [Reqs -> Statuses]
    BY DEF TypeInv, DataTypes
  <2>. QED
    BY <2>1, <2>2, <2>3, <2>4, <2>5, <2>6, <2>8, <2>9, <2>10, <2>11, NextCases
    DEF Connects, Leases!Next
<1>. QED
  BY <1>1, <1>2, TypeInvariant, Inductive, PTL DEF Spec, ImplementsLeasePool, Leases!Spec
=============================================================================
