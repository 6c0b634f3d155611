-------------------------- MODULE Http2PoolProofs --------------------------
(***************************************************************************)
(* Proofs about Http2Pool, for any number of requests and connections and  *)
(* any timeout.                                                            *)
(***************************************************************************)
EXTENDS Http2Pool, FiniteSetTheorems, TLAPS

-----------------------------------------------------------------------------
(* The steps *)

\* The types without the clause about pushing, which takes HoldInv.
Types ==
    /\ conns \subseteq ConnIds
    /\ sess \in [ConnIds -> SessionStates]
    /\ promise \in [ConnIds -> BOOLEAN]
    /\ last_use \in [ConnIds -> Int]
    /\ pc \in [Reqs -> Phases]
    /\ conn_ptr \in [Reqs -> ConnIds \cup {None}]
    /\ now_pt \in [Reqs -> Int]
    /\ res \in [Reqs -> Statuses]
    /\ clock \in Int

\* The connections that the list or a request refers to.
Kept == conns \cup {conn_ptr[r] : r \in Reqs}

\* Who holds a connection, and which.  A request that is connecting is the only one
\* that knows its connection; what is listed or held has a session, and what is
\* listed, or about to be, has connected.
HoldInv ==
    /\ \A k \in conns : sess[k] # "none" /\ promise[k]
    /\ \A r \in Reqs :
         pc[r] \in {"wait_connect", "push", "submit", "wait_response", "delete_invalid"}
             <=> conn_ptr[r] # None
    /\ \A r \in Reqs : conn_ptr[r] # None => sess[conn_ptr[r]] # "none"
    /\ \A r \in Reqs : pc[r] \in {"wait_connect", "push"} =>
         /\ conn_ptr[r] \notin conns
         /\ \A q \in Reqs : conn_ptr[q] = conn_ptr[r] => q = r
    /\ \A r \in Reqs : pc[r] = "push" => promise[conn_ptr[r]]

\* What Forget leaves of the connections that are still referred to.
LEMMA ForgetKeeps ==
    ASSUME Types, Forget
    PROVE  /\ \A k \in ConnIds : k \in Kept' =>
                sess'[k] = sess[k] /\ promise'[k] = promise[k] /\ last_use'[k] = last_use[k]
           /\ sess' \in [ConnIds -> SessionStates]
           /\ promise' \in [ConnIds -> BOOLEAN]
           /\ last_use' \in [ConnIds -> Int]
  BY DEF Types, Forget, Kept, SessionStates

\* One case for each step.
LEMMA NextCases ==
    ASSUME Next
    PROVE  \/ Tick
           \/ \E r \in Reqs : \/ h2_req(r) \/ ReadNow(r) \/ delete_timeout_connect(r)
                              \/ Search(r) \/ NewConnect(r) \/ Connected(r)
                              \/ ConnectTimeout(r) \/ PushConnect(r) \/ Submit(r)
                              \/ on_data(r) \/ Returned(r) \/ ResponseTimeout(r)
                              \/ delete_invalid_connect(r)
           \/ \E k \in ConnIds : on_connect(k) \/ SessionDies(k) \/ on_error(k)
  BY DEF Next, Runs

\* The types are preserved.
LEMMA TypesStep ==
    ASSUME Types, HoldInv, [Next]_vars
    PROVE  Types'
  <1>. USE ConnIdsAssumption, ClockAssumption
       DEF Types, Goto, Phases, Statuses, SessionStates, connVars
  <1>1. CASE Tick
    BY <1>1 DEF Tick
  <1>2. ASSUME NEW r \in Reqs, h2_req(r) \/ ReadNow(r) \/ Submit(r) \/ on_data(r)
                               \/ ResponseTimeout(r)
        PROVE  Types'
    BY <1>2 DEF h2_req, ReadNow, Submit, on_data, ResponseTimeout
  <1>3. ASSUME NEW r \in Reqs, delete_timeout_connect(r) PROVE Types'
    BY <1>3, ForgetKeeps DEF delete_timeout_connect
  <1>4. ASSUME NEW r \in Reqs, Search(r) PROVE Types'
    BY <1>4 DEF Search
  <1>5. ASSUME NEW r \in Reqs, ConnectFails(r) PROVE Types'
    BY <1>5, ForgetKeeps DEF ConnectFails
  <1>6. ASSUME NEW r \in Reqs, NewConnect(r), ~ConnectFails(r) PROVE Types'
    BY <1>6 DEF NewConnect
  <1>7. ASSUME NEW r \in Reqs, Connected(r) PROVE Types'
    BY <1>7, Zenon DEF Connected
  <1>8. ASSUME NEW r \in Reqs, PushConnect(r) PROVE Types'
    <2>1. conn_ptr[r] \in ConnIds
      BY <1>8 DEF PushConnect, HoldInv
    <2>. QED  BY <1>8, <2>1 DEF PushConnect
  <1>9. ASSUME NEW r \in Reqs, Returned(r) PROVE Types'
    BY <1>9, ForgetKeeps DEF Returned
  <1>10. ASSUME NEW r \in Reqs, delete_invalid_connect(r) PROVE Types'
    BY <1>10, ForgetKeeps DEF delete_invalid_connect
  <1>11. ASSUME NEW k \in ConnIds, on_connect(k) \/ SessionDies(k) PROVE Types'
    BY <1>11, Zenon DEF on_connect, SessionDies
  <1>12. ASSUME NEW k \in ConnIds, on_error(k) PROVE Types'
    <2>1. promise' \in [ConnIds -> BOOLEAN]
      BY <1>12 DEF on_error
    <2>. QED  BY <1>12, <2>1 DEF on_error
  <1>13. CASE UNCHANGED vars
    BY <1>13 DEF vars
  <1>. QED  BY <1>1, <1>2, <1>3, <1>4, <1>5, <1>6, <1>7, <1>8, <1>9, <1>10, <1>11, <1>12,
               <1>13, NextCases DEF ConnectTimeout

-----------------------------------------------------------------------------
(* Who holds which connection *)

\* Dropping connections from the list, and a request's pointer, leaves HoldInv.
LEMMA DropHolds ==
    ASSUME Types, HoldInv, Forget, conns' \subseteq conns,
           \A q \in Reqs : \/ pc'[q] = pc[q] /\ conn_ptr'[q] = conn_ptr[q]
                           \/ pc'[q] \in {"idle", "search"} /\ conn_ptr'[q] = None
    PROVE  HoldInv'
  <1>1. \A k \in ConnIds : k \in Kept' => sess'[k] = sess[k] /\ promise'[k] = promise[k]
    BY ForgetKeeps
  <1>2. \A k \in conns' : k \in ConnIds /\ k \in Kept'
    BY DEF Kept, Types
  <1>3. \A q \in Reqs : conn_ptr'[q] # None =>
          conn_ptr'[q] = conn_ptr[q] /\ pc'[q] = pc[q] /\ conn_ptr'[q] \in ConnIds \cap Kept'
    BY DEF Kept, Types
  <1>4. \A k \in conns' : sess'[k] # "none" /\ promise'[k]
    BY <1>1, <1>2 DEF HoldInv
  <1>5. \A q \in Reqs :
          pc'[q] \in {"wait_connect", "push", "submit", "wait_response", "delete_invalid"}
              <=> conn_ptr'[q] # None
    BY DEF HoldInv
  <1>6. \A q \in Reqs : conn_ptr'[q] # None => sess'[conn_ptr'[q]] # "none"
    BY <1>1, <1>3 DEF HoldInv
  <1>7. \A r \in Reqs : pc'[r] \in {"wait_connect", "push"} =>
          /\ conn_ptr'[r] \notin conns'
          /\ \A q \in Reqs : conn_ptr'[q] = conn_ptr'[r] => q = r
    BY <1>3, <1>5 DEF HoldInv
  <1>8. \A r \in Reqs : pc'[r] = "push" => promise'[conn_ptr'[r]]
    BY <1>1, <1>3, <1>5 DEF HoldInv
  <1>. QED  BY <1>4, <1>5, <1>6, <1>7, <1>8 DEF HoldInv

\* So do the steps that change neither the list nor a pointer, when a phase keeps its
\* kind and sessions that are referred to live on.
LEMMA StayHolds ==
    ASSUME Types, HoldInv, UNCHANGED <<conns, conn_ptr>>,
           \A k \in ConnIds : k \in Kept => /\ sess[k] # "none" => sess'[k] # "none"
                                            /\ promise[k] => promise'[k],
           \A q \in Reqs : \/ pc'[q] = pc[q]
                           \/ pc[q] \in {"submit", "wait_response"}
                              /\ pc'[q] \in {"wait_response", "delete_invalid"}
                           \/ pc[q] \in {"idle", "now"} /\ pc'[q] \in {"now", "expire"}
                           \/ pc[q] = "wait_connect" /\ pc'[q] = "push" /\ promise[conn_ptr[q]]
    PROVE  HoldInv'
  <1>1. \A k \in conns : k \in ConnIds /\ k \in Kept
    BY DEF Kept, Types
  <1>2. \A q \in Reqs : conn_ptr[q] # None => conn_ptr[q] \in ConnIds /\ conn_ptr[q] \in Kept
    BY DEF Kept, Types
  <1>3. \A k \in conns' : sess'[k] # "none" /\ promise'[k]
    BY <1>1 DEF HoldInv
  <1>4. \A q \in Reqs :
          pc'[q] \in {"wait_connect", "push", "submit", "wait_response", "delete_invalid"}
              <=> conn_ptr'[q] # None
    BY DEF HoldInv
  <1>5. \A q \in Reqs : conn_ptr'[q] # None => sess'[conn_ptr'[q]] # "none"
    BY <1>2 DEF HoldInv
  <1>6. \A r \in Reqs : pc'[r] \in {"wait_connect", "push"} =>
          /\ conn_ptr'[r] \notin conns'
          /\ \A q \in Reqs : conn_ptr'[q] = conn_ptr'[r] => q = r
    BY DEF HoldInv
  <1>7. \A r \in Reqs : pc'[r] = "push" => promise'[conn_ptr'[r]]
    <2>. SUFFICES ASSUME NEW r \in Reqs, pc'[r] = "push" PROVE promise'[conn_ptr[r]]
      OBVIOUS
    <2>1. promise[conn_ptr[r]]
      BY DEF HoldInv
    <2>2. conn_ptr[r] \in ConnIds /\ conn_ptr[r] \in Kept
      BY <1>2, <1>4
    <2>. QED  BY <2>1, <2>2
  <1>. QED  BY <1>3, <1>4, <1>5, <1>6, <1>7 DEF HoldInv

\* HoldInv is inductive.
LEMMA HoldStep ==
    ASSUME Types, HoldInv, [Next]_vars
    PROVE  HoldInv'
  <1>. USE DEF Goto, connVars
  <1>1. CASE Tick \/ UNCHANGED vars
    <2>1. UNCHANGED <<conns, conn_ptr, sess, promise, pc>>
      BY <1>1 DEF Tick, vars
    <2>. QED  BY <2>1, StayHolds
  <1>2. ASSUME NEW r \in Reqs, h2_req(r) \/ ReadNow(r) \/ Submit(r) \/ on_data(r)
                               \/ ResponseTimeout(r)
        PROVE  HoldInv'
    <2>1. UNCHANGED <<conns, conn_ptr, sess, promise>>
      BY <1>2 DEF h2_req, ReadNow, Submit, on_data, ResponseTimeout
    <2>2. \A q \in Reqs : \/ pc'[q] = pc[q]
                          \/ pc[q] \in {"submit", "wait_response"}
                             /\ pc'[q] \in {"wait_response", "delete_invalid"}
                          \/ pc[q] \in {"idle", "now"} /\ pc'[q] \in {"now", "expire"}
      BY <1>2 DEF h2_req, ReadNow, Submit, on_data, ResponseTimeout, Types
    <2>. QED  BY <2>1, <2>2, StayHolds
  <1>3. ASSUME NEW r \in Reqs, delete_timeout_connect(r) PROVE HoldInv'
    <2>1. conn_ptr[r] = None
      BY <1>3 DEF delete_timeout_connect, HoldInv
    <2>2. \A q \in Reqs : \/ pc'[q] = pc[q] /\ conn_ptr'[q] = conn_ptr[q]
                          \/ pc'[q] \in {"idle", "search"} /\ conn_ptr'[q] = None
      BY <1>3, <2>1 DEF delete_timeout_connect, Types
    <2>3. Forget /\ conns' \subseteq conns
      BY <1>3 DEF delete_timeout_connect
    <2>. QED  BY <2>2, <2>3, DropHolds
  <1>4. ASSUME NEW r \in Reqs, Search(r) PROVE HoldInv'
    <2>1. UNCHANGED <<conns, sess, promise>> /\ pc[r] = "search" /\ conn_ptr[r] = None
      BY <1>4 DEF Search, HoldInv
    <2>2. CASE UNCHANGED conn_ptr /\ pc' = [pc EXCEPT ![r] = "new"]
      BY <2>1, <2>2 DEF HoldInv, Types
    <2>3. ASSUME NEW k \in conns, conn_ptr' = [conn_ptr EXCEPT ![r] = k],
                 pc' = [pc EXCEPT ![r] = "submit"]
          PROVE  HoldInv'
      <3>1. k \in ConnIds /\ k # None /\ sess[k] # "none"
        BY ConnIdsAssumption DEF Types, HoldInv
      <3>2. /\ conn_ptr'[r] = k /\ pc'[r] = "submit"
            /\ \A q \in Reqs \ {r} : conn_ptr'[q] = conn_ptr[q] /\ pc'[q] = pc[q]
        BY <2>3 DEF Types
      <3>3. \A q \in Reqs : pc'[q] \in {"wait_connect", "push"} =>
              /\ conn_ptr'[q] \notin conns'
              /\ \A p \in Reqs : conn_ptr'[p] = conn_ptr'[q] => p = q
        BY <2>1, <3>2 DEF HoldInv
      <3>. QED  BY <2>1, <3>1, <3>2, <3>3 DEF HoldInv
    <2>. QED  BY <1>4, <2>2, <2>3 DEF Search
  <1>5. ASSUME NEW r \in Reqs, ConnectFails(r) PROVE HoldInv'
    BY <1>5, DropHolds DEF ConnectFails, Types
  <1>6. ASSUME NEW r \in Reqs, NewConnect(r), ~ConnectFails(r) PROVE HoldInv'
    <2>1. PICK k \in ConnIds : /\ sess[k] = "none"
                               /\ sess' = [sess EXCEPT ![k] = "connecting"]
                               /\ conn_ptr' = [conn_ptr EXCEPT ![r] = k]
      BY <1>6 DEF NewConnect
    <2>2. UNCHANGED <<conns, promise>> /\ pc' = [pc EXCEPT ![r] = "wait_connect"]
      BY <1>6 DEF NewConnect
    <2>3. k # None /\ k \notin conns /\ \A q \in Reqs : conn_ptr[q] # k
      BY <2>1, ConnIdsAssumption DEF HoldInv
    <2>4. /\ conn_ptr'[r] = k /\ pc'[r] = "wait_connect" /\ sess'[k] = "connecting"
          /\ \A q \in Reqs \ {r} : conn_ptr'[q] = conn_ptr[q] /\ pc'[q] = pc[q]
          /\ \A j \in ConnIds \ {k} : sess'[j] = sess[j]
      BY <2>1, <2>2 DEF Types
    <2>5. \A j \in conns' : sess'[j] # "none" /\ promise'[j]
      BY <2>2, <2>3, <2>4 DEF HoldInv, Types
    <2>6. \A q \in Reqs : conn_ptr'[q] # None => sess'[conn_ptr'[q]] # "none"
      BY <2>3, <2>4 DEF HoldInv, Types
    <2>7. \A q \in Reqs : pc'[q] \in {"wait_connect", "push"} =>
            /\ conn_ptr'[q] \notin conns'
            /\ \A p \in Reqs : conn_ptr'[p] = conn_ptr'[q] => p = q
      BY <2>2, <2>3, <2>4 DEF HoldInv
    <2>8. \A q \in Reqs : pc'[q] = "push" => promise'[conn_ptr'[q]]
      BY <2>2, <2>4 DEF HoldInv
    <2>. QED  BY <2>3, <2>4, <2>5, <2>6, <2>7, <2>8 DEF HoldInv
  <1>7. ASSUME NEW r \in Reqs, Connected(r) PROVE HoldInv'
    <2>1. UNCHANGED <<conns, conn_ptr, sess, promise>>
      BY <1>7 DEF Connected
    <2>2. \A q \in Reqs : \/ pc'[q] = pc[q]
                          \/ pc[q] = "wait_connect" /\ pc'[q] = "push" /\ promise[conn_ptr[q]]
      BY <1>7 DEF Connected, Types
    <2>. QED  BY <2>1, <2>2, StayHolds
  <1>8. ASSUME NEW r \in Reqs, PushConnect(r) PROVE HoldInv'
    <2>1. /\ pc[r] = "push" /\ conns' = conns \cup {conn_ptr[r]}
          /\ UNCHANGED <<conn_ptr, sess, promise>> /\ pc'[r] = "submit"
          /\ \A q \in Reqs \ {r} : pc'[q] = pc[q]
      BY <1>8 DEF PushConnect, Types
    <2>2. sess[conn_ptr[r]] # "none" /\ promise[conn_ptr[r]] /\ conn_ptr[r] # None
      BY <2>1 DEF HoldInv
    <2>3. \A q \in Reqs \ {r} : conn_ptr[q] # conn_ptr[r]
      BY <2>1 DEF HoldInv
    <2>. QED  BY <2>1, <2>2, <2>3 DEF HoldInv
  <1>9. ASSUME NEW r \in Reqs, Returned(r) PROVE HoldInv'
    BY <1>9, DropHolds DEF Returned, Types
  <1>10. ASSUME NEW r \in Reqs, delete_invalid_connect(r) PROVE HoldInv'
    <2>1. Forget /\ conns' \subseteq conns
      BY <1>10 DEF delete_invalid_connect
    <2>2. \A q \in Reqs : \/ pc'[q] = pc[q] /\ conn_ptr'[q] = conn_ptr[q]
                          \/ pc'[q] \in {"idle", "search"} /\ conn_ptr'[q] = None
      BY <1>10 DEF delete_invalid_connect, Types
    <2>. QED  BY <2>1, <2>2, DropHolds
  <1>11. ASSUME NEW k \in ConnIds, on_connect(k) \/ SessionDies(k) PROVE HoldInv'
    <2>1. UNCHANGED <<conns, conn_ptr, pc>>
      BY <1>11 DEF on_connect, SessionDies
    <2>2. \A j \in ConnIds : /\ sess[j] # "none" => sess'[j] # "none"
                             /\ promise[j] => promise'[j]
      BY <1>11 DEF on_connect, SessionDies, Types
    <2>. QED  BY <2>1, <2>2, StayHolds
  <1>12. ASSUME NEW k \in ConnIds, on_error(k) PROVE HoldInv'
    <2>1. UNCHANGED <<conn_ptr, pc>> /\ conns' = conns \ {k}
      BY <1>12 DEF on_error
    <2>2. \A j \in ConnIds \ {k} : sess'[j] = sess[j] /\ promise'[j] = promise[j]
      BY <1>12 DEF on_error, Types
    <2>3. ASSUME NEW r \in Reqs, conn_ptr[r] = k
          PROVE  sess'[k] # "none" /\ (promise[k] => promise'[k])
      BY <1>12, <2>3 DEF on_error, Types
    <2>4. \A j \in conns' : sess'[j] # "none" /\ promise'[j]
      BY <2>1, <2>2 DEF HoldInv, Types
    <2>5. \A q \in Reqs : conn_ptr'[q] # None => sess'[conn_ptr'[q]] # "none"
      BY <2>1, <2>2, <2>3 DEF HoldInv, Types
    <2>6. \A q \in Reqs : pc'[q] = "push" => promise'[conn_ptr'[q]]
      <3>. SUFFICES ASSUME NEW q \in Reqs, pc[q] = "push" PROVE promise'[conn_ptr[q]]
        BY <2>1
      <3>1. promise[conn_ptr[q]] /\ conn_ptr[q] \in ConnIds
        BY DEF HoldInv, Types
      <3>. QED  BY <2>2, <2>3, <3>1
    <2>. QED  BY <2>1, <2>4, <2>5, <2>6 DEF HoldInv
  <1>. QED  BY <1>1, <1>2, <1>3, <1>4, <1>5, <1>6, <1>7, <1>8, <1>9, <1>10, <1>11, <1>12,
               NextCases DEF ConnectTimeout

-----------------------------------------------------------------------------
(* How many connections there are *)

\* The two sets of PoolBound are finite.
LEMMA Sizes ==
    ASSUME Types
    PROVE  /\ IsFiniteSet(conns) /\ IsFiniteSet(Connecting)
           /\ Cardinality(conns) \in Nat /\ Cardinality(Connecting) \in Nat
           /\ Cardinality(Reqs) \in Nat /\ Cardinality(Connecting) <= Cardinality(Reqs)
  <1>1. IsFiniteSet(conns)
    BY ConnIdsAssumption, FS_Subset DEF Types
  <1>2. Connecting \subseteq Reqs
    BY DEF Connecting
  <1>3. IsFiniteSet(Connecting) /\ Cardinality(Connecting) <= Cardinality(Reqs)
    BY <1>2, ReqsAssumption, FS_Subset
  <1>. QED  BY <1>1, <1>3, ReqsAssumption, FS_CardinalityType

\* Steps that add neither a connection nor someone who makes one.
LEMMA BoundFrame ==
    ASSUME Types, Types', PoolBound, conns' \subseteq conns, Connecting' \subseteq Connecting
    PROVE  PoolBound'
  <1>1. Cardinality(conns') <= Cardinality(conns)
    BY Sizes, FS_Subset
  <1>2. Cardinality(Connecting') <= Cardinality(Connecting)
    BY Sizes, FS_Subset
  <1>3. /\ Cardinality(conns) \in Nat /\ Cardinality(Connecting) \in Nat
        /\ Cardinality(Reqs) \in Nat
    BY Sizes
  <1>4. Cardinality(conns') \in Nat /\ Cardinality(Connecting') \in Nat
    <2>1. IsFiniteSet(conns') /\ IsFiniteSet(Connecting')
      BY Sizes, FS_Subset
    <2>. QED  BY <2>1, FS_CardinalityType
  <1>. QED  BY <1>1, <1>2, <1>3, <1>4 DEF PoolBound

\* PoolBound is inductive: a connection is made only when the list is empty.
LEMMA BoundStep ==
    ASSUME Types, Types', HoldInv, PoolBound, [Next]_vars
    PROVE  PoolBound'
  <1>. USE DEF Goto, connVars
  <1>1. ASSUME NEW r \in Reqs, Search(r) PROVE PoolBound'
    <2>1. CASE conns = {} /\ conns' = {}
      <3>1. Connecting' \subseteq Reqs
        BY DEF Connecting
      <3>2. /\ Cardinality(Connecting') <= Cardinality(Reqs) /\ Cardinality(Connecting') \in Nat
            /\ Cardinality(Reqs) \in Nat
        BY <3>1, ReqsAssumption, FS_Subset, FS_CardinalityType
      <3>3. Cardinality(conns') = 0
        BY <2>1, FS_EmptySet
      <3>. QED  BY <3>2, <3>3 DEF PoolBound
    <2>2. CASE conns' = conns /\ pc' = [pc EXCEPT ![r] = "submit"]
      <3>1. Connecting' \subseteq Connecting
        BY <2>2 DEF Connecting, Types
      <3>. QED  BY <2>2, <3>1, BoundFrame
    <2>. QED  BY <1>1, <2>1, <2>2 DEF Search
  <1>2. ASSUME NEW r \in Reqs, PushConnect(r) PROVE PoolBound'
    <2>1. r \in Connecting /\ Connecting' = Connecting \ {r}
      BY <1>2 DEF PushConnect, Connecting, Types
    <2>2. conn_ptr[r] \notin conns /\ conns' = conns \cup {conn_ptr[r]}
      BY <1>2 DEF PushConnect, HoldInv
    <2>3. Cardinality(Connecting') = Cardinality(Connecting) - 1
      BY <2>1, Sizes, FS_RemoveElement, Zenon
    <2>4. Cardinality(conns') = Cardinality(conns) + 1
      BY <2>2, Sizes, FS_AddElement, Zenon
    <2>5. /\ Cardinality(conns) \in Nat /\ Cardinality(Connecting) \in Nat
          /\ Cardinality(Reqs) \in Nat
      BY Sizes
    <2>. QED  BY <2>3, <2>4, <2>5 DEF PoolBound
  <1>3. ASSUME NEW r \in Reqs, h2_req(r) \/ ReadNow(r) \/ delete_timeout_connect(r)
                               \/ NewConnect(r) \/ Connected(r) \/ ConnectFails(r) \/ Submit(r)
                               \/ on_data(r) \/ Returned(r) \/ ResponseTimeout(r)
                               \/ delete_invalid_connect(r)
        PROVE  PoolBound'
    <2>1. conns' \subseteq conns
      BY <1>3 DEF h2_req, ReadNow, delete_timeout_connect, NewConnect, Connected,
                  ConnectFails, Submit, on_data, Returned, ResponseTimeout,
                  delete_invalid_connect
    <2>. DEFINE Leaves == \/ pc' = pc
                          \/ \E phase \in Phases :
                               /\ pc' = [pc EXCEPT ![r] = phase]
                               /\ \/ pc[r] \in {"new", "wait_connect"}
                                  \/ phase \notin {"new", "wait_connect", "push"}
    <2>2. Leaves
      <3>1. CASE h2_req(r) \/ ReadNow(r) \/ delete_timeout_connect(r) \/ Submit(r)
        BY <3>1 DEF h2_req, ReadNow, delete_timeout_connect, Submit, Phases
      <3>2. CASE NewConnect(r) \/ Connected(r) \/ ConnectFails(r)
        BY <3>2 DEF NewConnect, Connected, ConnectFails, Phases
      <3>3. CASE on_data(r) \/ Returned(r) \/ ResponseTimeout(r) \/ delete_invalid_connect(r)
        BY <3>3 DEF on_data, Returned, ResponseTimeout, delete_invalid_connect, Phases
      <3>. QED  BY <1>3, <3>1, <3>2, <3>3
    <2>3. Connecting' \subseteq Connecting
      BY <2>2 DEF Connecting, Types
    <2>. QED  BY <2>1, <2>3, BoundFrame
  <1>4. ASSUME NEW k \in ConnIds, on_connect(k) \/ SessionDies(k) \/ on_error(k)
        PROVE  PoolBound'
    <2>1. conns' \subseteq conns /\ pc' = pc
      BY <1>4 DEF on_connect, SessionDies, on_error
    <2>. QED  BY <2>1, BoundFrame DEF Connecting
  <1>5. CASE Tick \/ UNCHANGED vars
    <2>1. conns' \subseteq conns /\ pc' = pc
      BY <1>5 DEF Tick, vars
    <2>. QED  BY <2>1, BoundFrame DEF Connecting
  <1>. QED  BY <1>1, <1>2, <1>3, <1>4, <1>5, NextCases DEF ConnectTimeout

-----------------------------------------------------------------------------
(* What holds of the list *)

\* The inductive invariant.
LEMMA Inductive == Spec => [](Types /\ HoldInv /\ PoolBound)
  <1>1. Init => Types /\ HoldInv /\ PoolBound
    <2>. SUFFICES ASSUME Init PROVE Types /\ HoldInv /\ PoolBound
      OBVIOUS
    <2>1. Types
      BY DEF Init, Types, Phases, Statuses, SessionStates
    <2>2. HoldInv
      BY DEF Init, HoldInv
    <2>3. conns = {} /\ Connecting = {}
      BY DEF Init, Connecting
    <2>4. PoolBound
      BY <2>1, <2>3, Sizes, FS_EmptySet DEF PoolBound
    <2>. QED  BY <2>1, <2>2, <2>4
  <1>2. Types /\ HoldInv /\ PoolBound /\ [Next]_vars => (Types /\ HoldInv /\ PoolBound)'
    BY TypesStep, HoldStep, BoundStep
  <1>. QED  BY <1>1, <1>2, PTL DEF Spec

\* The values the variables take; in particular no connection is pushed while it is in
\* m_h2s_conns (multi_client_http.cpp, get_http2s_connect).
THEOREM TypeCorrect == Spec => []TypeOK
  <1>1. Types /\ HoldInv => TypeOK
    BY DEF Types, HoldInv, TypeOK
  <1>. QED  BY <1>1, Inductive, PTL

\* However many requests there are and whenever sessions fail, the listed connections
\* and those being made are never more than the requests, although the search and the
\* push of get_http2s_connect are two critical sections; what is listed has connected,
\* and what a request holds has a session.
THEOREM ListSoundCorrect == Spec => []ListSound
  <1>1. HoldInv /\ PoolBound => ListSound
    BY DEF HoldInv, ListSound, ListedConnected
  <1>. QED  BY <1>1, Inductive, PTL

\* A connection enters m_h2s_conns by the request that made it and when no other
\* request has it: what delete_invalid_http2s_connect or on_error took out does not
\* come back.
THEOREM EntersOnceCorrect == Spec => EntersOnce
  <1>. DEFINE Enters(k) == {r \in Reqs : conn_ptr[r] = k} = {r \in Connecting : conn_ptr[r] = k}
  <1>1. ASSUME Types, HoldInv, [Next]_vars, NEW k \in ConnIds, k \notin conns, k \in conns'
        PROVE  Enters(k)
    <2>1. PICK r \in Reqs : PushConnect(r)
      BY <1>1, NextCases
         DEF h2_req, ReadNow, delete_timeout_connect, Search, NewConnect, ConnectFails,
             Connected, ConnectTimeout, Submit, on_data, Returned, ResponseTimeout,
             delete_invalid_connect, on_connect, SessionDies, on_error, Tick, vars, connVars
    <2>2. conn_ptr[r] = k /\ pc[r] = "push"
      BY <1>1, <2>1 DEF PushConnect
    <2>3. \A q \in Reqs : conn_ptr[q] = k => q = r
      BY <1>1, <2>2 DEF HoldInv
    <2>. QED  BY <2>2, <2>3 DEF Connecting
  <1>2. Types /\ HoldInv /\ [Next]_vars =>
          [\A k \in ConnIds : k \notin conns /\ k \in conns' => Enters(k)]_vars
    BY <1>1
  <1>. QED  BY <1>2, Inductive, PTL DEF Spec, EntersOnce
=============================================================================
