------------------------ MODULE HttpApiServerProofs ------------------------
(***************************************************************************)
(* Proofs about HttpApiServer for any set of connections, number of        *)
(* threads, number of restarts and choice of failures.  Beside the types   *)
(* the inductive invariant has four parts; each is shown to be preserved   *)
(* with the help of those before it.                                       *)
(***************************************************************************)
EXTENDS HttpApiServer, FiniteSetTheorems, SequenceTheorems, TLAPS

\* Where the owner may be without an accept fiber, and after the drain.
Unaccepting == {"idle", "checking", "waiting", "stopping_io", "joining_threads",
                "stopped", "threw", "destroyed"}
Drained == {"idle", "stopping_io", "joining_threads", "stopped", "threw", "destroyed"}

\* How the positions of the owner, of the accept fiber and of its operation
\* constrain one another.
PhaseInv ==
    /\ owner \in Unaccepting => apc = "none"
    /\ apc = "get" <=> acceptOp # "none"
    /\ acceptOp = "ok" <=> accepted # NoConn
    /\ accepted # NoConn => session[accepted] = "accepted"
    /\ ioStopped => owner \in {"joining_threads", "stopped", "threw", "destroyed"}
    /\ owner \in {"closing", "joining", "checking", "waiting"} => ~m_running

\* The counter is the number of live sessions, and the owner has seen it zero.
CountInv ==
    /\ SessionCount
    /\ owner \in Drained => Live = {}
    /\ owner = "waiting" => m_session_number # 0

\* How many threads m_threads holds, and how far the owner can have come.
LenInv ==
    /\ owner = "idle" => starts = 0
    /\ starts = 0 => owner \in {"idle", "destroyed"} /\ Len(m_threads) = 0
    /\ starts = 1 /\ owner = "starting" => Len(m_threads) = i
    /\ starts = 1 /\ owner # "starting" => Len(m_threads) = ThreadCount
    /\ starts > 1 => Len(m_threads) >= ThreadCount
    /\ starts > 1 /\ owner = "joining_threads" => i = 0
    /\ ThreadCount = 0 => Len(m_threads) = 0
    /\ owner = "stopped" => starts = 1 \/ ThreadCount = 0
    /\ owner = "threw" => starts > 1

\* The first start() owns the first ThreadCount threads; a stop() that joins
\* them leaves every later stop() to find them joined.
JoinInv ==
    /\ starts > 1 \/ (starts = 1 /\ owner \in {"stopped", "destroyed"}) =>
         \A t \in 1..ThreadCount : m_threads[t] = "joined"
    /\ starts = 1 /\ owner = "joining_threads" =>
         \A t \in 1..ThreadCount : m_threads[t] = "joined" => t <= i
    /\ starts = 1 /\ owner = "joining_threads" =>
         \A t \in 1..i : m_threads[t] = "joined"
    /\ starts = 1 /\ owner \notin {"joining_threads", "stopped", "destroyed"} =>
         \A t \in 1..Len(m_threads) : m_threads[t] # "joined"

ThreadInv == LenInv /\ JoinInv

\* A session that answered after m_running was cleared is past its last request.
LateInv ==
    \A c \in Conns :
        /\ late[c] \in {0, 1}
        /\ late[c] = 1 => session[c] \in {"loop", "end", "gone"}
        /\ late[c] = 1 /\ session[c] = "loop" => ~m_running

-----------------------------------------------------------------------------
\* Overwriting an element of a sequence keeps its type and its length.
LEMMA ExceptThread ==
    ASSUME NEW S, NEW s \in Seq(S), NEW n, NEW e \in S
    PROVE  /\ [s EXCEPT ![n] = e] \in Seq(S)
           /\ Len([s EXCEPT ![n] = e]) = Len(s)
           /\ DOMAIN [s EXCEPT ![n] = e] = DOMAIN s
<1>1. CASE n \in 1..Len(s)
  BY <1>1, ExceptSeq
<1>2. CASE n \notin 1..Len(s)
  <2>1. [s EXCEPT ![n] = e] = s
    BY <1>2
  <2>. QED  BY <2>1, Zenon
<1>. QED  BY <1>1, <1>2

\* The flags stay Boolean.
LEMMA FlagStep ==
    ASSUME FlagTypes, [Next]_vars
    PROVE  FlagTypes'
<1>. USE DEF FlagTypes, ownerVars, acceptVars, sessionVars
<1>1. CASE OwnerNext
  BY <1>1, Zenon DEF OwnerNext, Start, StartThread, StopBegin, StopClose, StopJoinFiber,
              StopCheck, StopIo, StopJoinThread, Destroy
<1>2. CASE AcceptNext
  BY <1>2, Zenon DEF AcceptNext, AcceptOpen, AcceptListen, AcceptInitiate, AcceptError,
              AcceptSpawn, AcceptCount, AcceptThrows
<1>3. ASSUME NEW c \in Conns, SessionRuns(c) \/ SessionIo(c)
      PROVE  FlagTypes'
  BY <1>3 DEF SessionRuns, SessionIo, SessionStart, SessionLoop, SessionHandle,
              SessionTimeout, SessionEnd, SessionHeader, SessionContinue, SessionBody,
              SessionWrite, SessionGoto
<1>4. CASE EnvironmentNext
  BY <1>4 DEF EnvironmentNext, Connect, IoAccept, IoAcceptFails, ThreadExit
<1>5. CASE UNCHANGED vars
  BY <1>5 DEF vars
<1>. QED  BY <1>1, <1>2, <1>3, <1>4, <1>5 DEF Next, Halted

\* The variables keep their types whatever the components do: the type
\* invariant of the safety run holds for all values of the constants.
THEOREM TypeCorrect == Spec => []TypeOK
<1>1. Init => TypeOK
  <2>1. Init => FlagTypes
    BY Zenon DEF Init, FlagTypes
  <2>2. Init => DataTypes
    BY ConnsAssumption, ThreadCountAssumption, MaxStartsAssumption
    DEF Init, DataTypes, OwnerStates, AcceptStates, SessionStates
  <2>. QED  BY <2>1, <2>2 DEF TypeOK
<1>2. TypeOK /\ [Next]_vars => TypeOK'
  <2>. SUFFICES ASSUME DataTypes, [Next]_vars
                PROVE  DataTypes'
    BY FlagStep DEF TypeOK
  <2>. USE ConnsAssumption, ThreadCountAssumption, MaxStartsAssumption
       DEF DataTypes, OwnerStates, AcceptStates, AcceptResults, SessionStates, LivePhases,
           IoPhases, ownerVars, acceptVars, sessionVars
  <2>1. CASE Start
    BY <2>1 DEF Start
  <2>2. CASE StartThread
    <3>1. CASE i < ThreadCount
      <4>1. m_threads' = Append(m_threads, "run")
        BY <2>2, <3>1 DEF StartThread
      <4>2. m_threads' \in Seq({"run", "exited", "joined"})
        BY <4>1, AppendProperties, Zenon
      <4>3. i' \in 0..ThreadCount
        BY <2>2, <3>1 DEF StartThread
      <4>. QED  BY <2>2, <3>1, <4>2, <4>3 DEF StartThread
    <3>2. CASE ~(i < ThreadCount)
      BY <2>2, <3>2 DEF StartThread
    <3>. QED  BY <3>1, <3>2
  <2>3. CASE StopBegin
    BY <2>3 DEF StopBegin
  <2>4. CASE StopClose
    BY <2>4 DEF StopClose
  <2>5. CASE StopJoinFiber
    BY <2>5 DEF StopJoinFiber
  <2>6. CASE StopCheck
    BY <2>6 DEF StopCheck
  <2>7. CASE StopIo
    BY <2>7 DEF StopIo
  <2>8. CASE StopJoinThread
    <3>1. m_threads' \in Seq({"run", "exited", "joined"})
      BY <2>8, ExceptThread DEF StopJoinThread
    <3>. QED  BY <2>8, <3>1 DEF StopJoinThread
  <2>9. CASE Destroy
    BY <2>9 DEF Destroy
  <2>10. CASE AcceptOpen
    BY <2>10 DEF AcceptOpen, AcceptThrows
  <2>11. CASE AcceptListen
    BY <2>11 DEF AcceptListen, AcceptThrows
  <2>12. CASE AcceptInitiate
    BY <2>12 DEF AcceptInitiate
  <2>13. CASE AcceptError
    BY <2>13 DEF AcceptError, AcceptThrows
  <2>14. CASE AcceptSpawn
    BY <2>14, Zenon DEF AcceptSpawn
  <2>15. CASE AcceptCount
    BY <2>15 DEF AcceptCount
  <2>16. ASSUME NEW c \in Conns, SessionRuns(c)
         PROVE  DataTypes'
    <3>1. CASE SessionStart(c)
      <4>1. session' \in [Conns -> SessionStates]
        BY <3>1 DEF SessionStart, SessionGoto
      <4>2. UNCHANGED <<m_session_number, acceptor, ownerVars, acceptVars, close, late>>
        BY <3>1 DEF SessionStart, SessionGoto
      <4>. QED  BY <4>1, <4>2
    <3>2. CASE SessionLoop(c)
      BY <3>2 DEF SessionLoop, SessionGoto
    <3>3. CASE SessionHandle(c)
      <4>1. close' \in [Conns -> BOOLEAN]
        BY <3>3, Zenon DEF SessionHandle, need_eof
      <4>. QED  BY <3>3, <4>1 DEF SessionHandle, SessionGoto
    <3>4. CASE SessionTimeout(c)
      BY <3>4 DEF SessionTimeout, SessionGoto
    <3>5. CASE SessionEnd(c)
      BY <3>5 DEF SessionEnd, Notify
    <3>. QED  BY <2>16, <3>1, <3>2, <3>3, <3>4, <3>5 DEF SessionRuns
  <2>17. ASSUME NEW c \in Conns, SessionIo(c)
         PROVE  DataTypes'
    <3>1. CASE SessionHeader(c)
      BY <3>1 DEF SessionHeader, SessionGoto
    <3>2. CASE SessionContinue(c)
      BY <3>2 DEF SessionContinue, SessionGoto
    <3>3. CASE SessionBody(c)
      BY <3>3 DEF SessionBody, SessionGoto
    <3>4. CASE SessionWrite(c)
      <4>1. late' \in [Conns -> Nat]
        BY <3>4 DEF SessionWrite
      <4>2. session' \in [Conns -> SessionStates]
        BY <3>4 DEF SessionWrite, SessionGoto
      <4>. QED  BY <3>4, <4>1, <4>2 DEF SessionWrite, SessionGoto
    <3>. QED  BY <2>17, <3>1, <3>2, <3>3, <3>4 DEF SessionIo
  <2>18. CASE EnvironmentNext
    <3>1. ASSUME NEW c \in Conns, Connect(c) \/ IoAccept(c)
          PROVE  DataTypes'
      <4>1. CASE Connect(c)
        BY <4>1 DEF Connect
      <4>2. CASE IoAccept(c)
        BY <4>2 DEF IoAccept
      <4>. QED  BY <3>1, <4>1, <4>2
    <3>2. CASE IoAcceptFails
      BY <3>2 DEF IoAcceptFails
    <3>3. ASSUME NEW t \in DOMAIN m_threads, ThreadExit(t)
          PROVE  DataTypes'
      BY <3>3, ExceptThread DEF ThreadExit
    <3>. QED  BY <2>18, <3>1, <3>2, <3>3 DEF EnvironmentNext
  <2>19. CASE UNCHANGED vars
    BY <2>19 DEF vars
  <2>. QED
    BY <2>1, <2>2, <2>3, <2>4, <2>5, <2>6, <2>7, <2>8, <2>9, <2>10, <2>11, <2>12, <2>13,
       <2>14, <2>15, <2>16, <2>17, <2>18, <2>19 DEF Next, OwnerNext, AcceptNext, Halted
<1>. QED  BY <1>1, <1>2, PTL DEF Spec

-----------------------------------------------------------------------------
\* The accept fiber is gone once stop() waits for the sessions, its operation is
\* in flight exactly while it waits for it, and the io context is stopped only
\* after that.
LEMMA PhaseStep ==
    ASSUME TypeOK, PhaseInv, [Next]_vars
    PROVE  PhaseInv'
<1>. USE ConnsAssumption
     DEF TypeOK, FlagTypes, DataTypes, PhaseInv, Unaccepting, ownerVars, acceptVars,
         sessionVars
<1>1. CASE OwnerNext
  <2>1. CASE Start
    BY <2>1 DEF Start
  <2>2. CASE StartThread
    BY <2>2 DEF StartThread
  <2>3. CASE StopBegin
    BY <2>3 DEF StopBegin
  <2>4. CASE StopClose
    BY <2>4 DEF StopClose
  <2>5. CASE StopJoinFiber
    BY <2>5 DEF StopJoinFiber
  <2>6. CASE StopCheck
    BY <2>6 DEF StopCheck
  <2>7. CASE StopIo
    BY <2>7 DEF StopIo
  <2>8. CASE StopJoinThread
    BY <2>8 DEF StopJoinThread
  <2>9. CASE Destroy
    BY <2>9 DEF Destroy
  <2>. QED  BY <1>1, <2>1, <2>2, <2>3, <2>4, <2>5, <2>6, <2>7, <2>8, <2>9 DEF OwnerNext
<1>2. CASE AcceptNext
  <2>1. CASE AcceptOpen
    BY <2>1 DEF AcceptOpen, AcceptThrows
  <2>2. CASE AcceptListen
    BY <2>2 DEF AcceptListen, AcceptThrows
  <2>3. CASE AcceptInitiate
    BY <2>3 DEF AcceptInitiate
  <2>4. CASE AcceptError
    BY <2>4 DEF AcceptError, AcceptThrows
  <2>5. CASE AcceptSpawn
    BY <2>5 DEF AcceptSpawn
  <2>6. CASE AcceptCount
    BY <2>6 DEF AcceptCount
  <2>. QED  BY <1>2, <2>1, <2>2, <2>3, <2>4, <2>5, <2>6 DEF AcceptNext
<1>3. ASSUME NEW c \in Conns, SessionRuns(c) \/ SessionIo(c)
      PROVE  PhaseInv'
  <2>1. session[c] \in LivePhases
    BY <1>3 DEF SessionRuns, SessionIo, SessionStart, SessionLoop, SessionHandle,
                SessionTimeout, SessionEnd, SessionHeader, SessionContinue, SessionBody,
                SessionWrite, LivePhases, IoPhases
  <2>2. c # accepted
    BY <2>1 DEF LivePhases, IoPhases
  <2>3. \A d \in Conns : d # c => session'[d] = session[d]
    BY <1>3 DEF SessionRuns, SessionIo, SessionStart, SessionLoop, SessionHandle,
                SessionTimeout, SessionEnd, SessionHeader, SessionContinue, SessionBody,
                SessionWrite, SessionGoto
  <2>4. /\ UNCHANGED <<m_running, ioStopped, acceptVars>>
        /\ owner' = owner \/ (owner = "waiting" /\ owner' = "checking")
    BY <1>3 DEF SessionRuns, SessionIo, SessionStart, SessionLoop, SessionHandle,
                SessionTimeout, SessionEnd, SessionHeader, SessionContinue, SessionBody,
                SessionWrite, SessionGoto, Notify
  <2>. QED  BY <2>2, <2>3, <2>4
<1>4. CASE EnvironmentNext
  <2>1. ASSUME NEW c \in Conns, Connect(c)
        PROVE  PhaseInv'
    BY <2>1 DEF Connect
  <2>2. ASSUME NEW c \in Conns, IoAccept(c)
        PROVE  PhaseInv'
    BY <2>2 DEF IoAccept
  <2>3. CASE IoAcceptFails
    BY <2>3 DEF IoAcceptFails
  <2>4. ASSUME NEW t \in DOMAIN m_threads, ThreadExit(t)
        PROVE  PhaseInv'
    BY <2>4 DEF ThreadExit
  <2>. QED  BY <1>4, <2>1, <2>2, <2>3, <2>4 DEF EnvironmentNext
<1>5. CASE UNCHANGED vars
  BY <1>5 DEF vars
<1>. QED  BY <1>1, <1>2, <1>3, <1>4, <1>5 DEF Next, Halted

-----------------------------------------------------------------------------
\* Finitely many connections, hence finitely many live sessions.
LEMMA LiveFinite == IsFiniteSet(Live)
BY ConnsAssumption, FS_Subset DEF Live

\* AcceptSpawn is what adds a live session.
LEMMA LiveSpawn ==
    ASSUME TypeOK, PhaseInv, AcceptSpawn
    PROVE  Cardinality(Live') = Cardinality(Live) + 1
<1>1. accepted \in Conns /\ accepted \notin Live
  BY DEF TypeOK, DataTypes, PhaseInv, AcceptSpawn, Live, LivePhases, IoPhases
<1>2. Live' = Live \cup {accepted}
  BY <1>1 DEF TypeOK, DataTypes, AcceptSpawn, Live, LivePhases
<1>. QED  BY <1>1, <1>2, LiveFinite, FS_AddElement

\* SessionEnd is what removes one.
LEMMA LiveEnd ==
    ASSUME TypeOK, NEW c \in Conns, SessionEnd(c)
    PROVE  /\ Cardinality(Live') = Cardinality(Live) - 1
           /\ Live' \subseteq Live
<1>1. c \in Live
  BY DEF SessionEnd, Live, LivePhases
<1>2. Live' = Live \ {c}
  BY DEF TypeOK, DataTypes, SessionEnd, Live, LivePhases, IoPhases
<1>. QED  BY <1>1, <1>2, LiveFinite, FS_RemoveElement

\* A session that moves between its phases stays alive.
LEMMA LiveGoto ==
    ASSUME TypeOK, NEW c \in Conns, NEW phase \in LivePhases, c \in Live,
           SessionGoto(c, phase)
    PROVE  Live' = Live
BY DEF TypeOK, DataTypes, SessionGoto, Live

\* Every step of a session but its last keeps it alive and nothing else changes
\* that the counter depends on.
LEMMA SessionKeepsLive ==
    ASSUME TypeOK, NEW c \in Conns, SessionRuns(c) \/ SessionIo(c), ~SessionEnd(c)
    PROVE  Live' = Live /\ UNCHANGED <<m_session_number, owner, apc>>
<1>1. c \in Live
  BY DEF SessionRuns, SessionIo, SessionStart, SessionLoop, SessionHandle,
         SessionTimeout, SessionHeader, SessionContinue, SessionBody, SessionWrite,
         Live, LivePhases, IoPhases
<1>2. \E phase \in LivePhases : SessionGoto(c, phase)
  BY DEF SessionRuns, SessionIo, SessionStart, SessionLoop, SessionHandle,
         SessionTimeout, SessionHeader, SessionContinue, SessionBody, SessionWrite,
         LivePhases, IoPhases
<1>. QED  BY <1>1, <1>2, LiveGoto, Zenon DEF SessionGoto, ownerVars, acceptVars

\* The counter follows the sessions, and stop() waits or goes on accordingly.
LEMMA CountStep ==
    ASSUME TypeOK, PhaseInv, CountInv, [Next]_vars
    PROVE  CountInv'
<1>. USE DEF CountInv, SessionCount
<1>0. Cardinality(Live) \in Nat /\ (Cardinality(Live) = 0 <=> Live = {})
  BY LiveFinite, FS_CardinalityType, FS_EmptySet
<1>1. CASE OwnerNext
  <2>. USE DEF Drained
  <2>1. CASE Start
    BY <2>1, <1>0, FS_EmptySet DEF Start, sessionVars, Live, Drained
  <2>2. CASE StartThread
    BY <2>2 DEF StartThread, sessionVars, acceptVars, Live
  <2>3. CASE StopBegin
    BY <2>3 DEF StopBegin, sessionVars, acceptVars, Live
  <2>4. CASE StopClose
    <3>1. Live' = Live
      BY <2>4 DEF StopClose, Live, LivePhases, IoPhases
    <3>. QED  BY <2>4, <3>1 DEF StopClose
  <2>5. CASE StopJoinFiber
    BY <2>5 DEF StopJoinFiber, sessionVars, Live
  <2>6. CASE StopCheck
    BY <2>6, <1>0 DEF StopCheck, sessionVars, acceptVars, Live, PhaseInv, Unaccepting
  <2>7. CASE StopIo
    BY <2>7 DEF StopIo, sessionVars, acceptVars, Live
  <2>8. CASE StopJoinThread
    BY <2>8 DEF StopJoinThread, sessionVars, acceptVars, Live
  <2>9. CASE Destroy
    BY <2>9 DEF Destroy, sessionVars, acceptVars, Live
  <2>. QED  BY <1>1, <2>1, <2>2, <2>3, <2>4, <2>5, <2>6, <2>7, <2>8, <2>9 DEF OwnerNext
<1>2. CASE AcceptNext
  <2>. USE DEF ownerVars, acceptVars, sessionVars
  <2>1. CASE AcceptOpen
    BY <2>1, Zenon DEF AcceptOpen, AcceptThrows, Live
  <2>2. CASE AcceptListen
    BY <2>2, Zenon DEF AcceptListen, AcceptThrows, Live
  <2>3. CASE AcceptInitiate
    BY <2>3 DEF AcceptInitiate, Live
  <2>4. CASE AcceptError
    BY <2>4, Zenon DEF AcceptError, AcceptThrows, Live
  <2>5. CASE AcceptSpawn
    <3>1. owner \notin Drained /\ owner # "waiting"
      BY <2>5 DEF AcceptSpawn, PhaseInv, Unaccepting, Drained
    <3>. QED  BY <2>5, <3>1, <1>0, LiveSpawn DEF AcceptSpawn
  <2>6. CASE AcceptCount
    <3>1. owner \notin Drained /\ owner # "waiting"
      BY <2>6 DEF AcceptCount, PhaseInv, Unaccepting, Drained
    <3>. QED  BY <2>6, <3>1, <1>0 DEF AcceptCount, Live
  <2>. QED  BY <1>2, <2>1, <2>2, <2>3, <2>4, <2>5, <2>6 DEF AcceptNext
<1>3. ASSUME NEW c \in Conns, SessionRuns(c) \/ SessionIo(c)
      PROVE  CountInv'
  <2>1. CASE ~SessionEnd(c)
    BY <1>3, <2>1, SessionKeepsLive, Zenon
  <2>2. CASE SessionEnd(c)
    <3>1. owner' \in Drained => owner \in Drained
      BY <2>2 DEF SessionEnd, Notify, Drained
    <3>2. owner' = "waiting" => m_session_number' # 0
      BY <2>2 DEF SessionEnd, Notify, PhaseInv
    <3>3. SessionCount'
      <4>1. Cardinality(Live') = Cardinality(Live) - 1
        BY <2>2, LiveEnd
      <4>2. m_session_number' = m_session_number - 1 /\ apc' = apc
        BY <2>2 DEF SessionEnd, acceptVars
      <4>. QED  BY <1>0, <4>1, <4>2
    <3>4. owner' \in Drained => Live' = {}
      BY <2>2, <3>1, LiveEnd
    <3>. QED  BY <3>2, <3>3, <3>4
  <2>. QED  BY <2>1, <2>2
<1>4. CASE EnvironmentNext
  <2>. USE DEF ownerVars, acceptVars, sessionVars
  <2>1. ASSUME NEW c \in Conns, Connect(c) \/ IoAccept(c)
        PROVE  CountInv'
    <3>1. Live' = Live
      BY <2>1 DEF TypeOK, DataTypes, Connect, IoAccept, Live, LivePhases, IoPhases
    <3>. QED  BY <2>1, <3>1, Zenon DEF Connect, IoAccept
  <2>2. CASE IoAcceptFails
    BY <2>2 DEF IoAcceptFails, Live
  <2>3. ASSUME NEW t \in DOMAIN m_threads, ThreadExit(t)
        PROVE  CountInv'
    BY <2>3 DEF ThreadExit, Live
  <2>. QED  BY <1>4, <2>1, <2>2, <2>3 DEF EnvironmentNext
<1>5. CASE UNCHANGED vars
  BY <1>5 DEF vars, Live
<1>. QED  BY <1>1, <1>2, <1>3, <1>4, <1>5 DEF Next, Halted

-----------------------------------------------------------------------------
\* A session answers at most once after m_running was cleared: the answer takes
\* it back to the loop condition, and start() cannot set m_running again while
\* the session is alive.
LEMMA LateStep ==
    ASSUME TypeOK, PhaseInv, CountInv, LateInv, [Next]_vars
    PROVE  LateInv'
<1>. USE DEF LateInv, ownerVars, acceptVars, sessionVars
<1>1. CASE OwnerNext
  <2>1. CASE Start
    <3>1. \A c \in Conns : session[c] # "loop"
      BY <2>1 DEF Start, CountInv, Drained, Live, LivePhases
    <3>. QED  BY <2>1, <3>1 DEF Start
  <2>2. CASE StopClose
    BY <2>2 DEF StopClose
  <2>3. CASE StopBegin
    BY <2>3 DEF StopBegin
  <2>4. CASE ~Start /\ ~StopClose /\ ~StopBegin
    BY <1>1, <2>4 DEF OwnerNext, StartThread, StopJoinFiber, StopCheck, StopIo,
                      StopJoinThread, Destroy
  <2>. QED  BY <2>1, <2>2, <2>3, <2>4
<1>2. CASE AcceptNext
  <2>1. CASE AcceptSpawn
    <3>1. accepted \in Conns /\ session[accepted] = "accepted"
      BY <2>1 DEF AcceptSpawn, TypeOK, DataTypes, PhaseInv
    <3>. QED  BY <2>1, <3>1 DEF AcceptSpawn, TypeOK, DataTypes
  <2>2. CASE ~AcceptSpawn
    BY <1>2, <2>2 DEF AcceptNext, AcceptOpen, AcceptListen, AcceptInitiate, AcceptError,
                      AcceptCount, AcceptThrows
  <2>. QED  BY <2>1, <2>2
<1>3. ASSUME NEW c \in Conns, SessionRuns(c) \/ SessionIo(c)
      PROVE  LateInv'
  <2>. USE DEF TypeOK, DataTypes, SessionGoto
  <2>1. CASE SessionStart(c)
    BY <2>1 DEF SessionStart
  <2>2. CASE SessionLoop(c)
    BY <2>2 DEF SessionLoop
  <2>3. CASE SessionHandle(c)
    BY <2>3 DEF SessionHandle
  <2>4. CASE SessionTimeout(c)
    BY <2>4 DEF SessionTimeout, IoPhases
  <2>5. CASE SessionEnd(c)
    BY <2>5 DEF SessionEnd
  <2>6. CASE SessionHeader(c) \/ SessionContinue(c) \/ SessionBody(c)
    BY <2>6 DEF SessionHeader, SessionContinue, SessionBody
  <2>7. CASE SessionWrite(c)
    <3>1. session[c] = "write" /\ late[c] = 0
      BY <2>7 DEF SessionWrite
    <3>2. session'[c] \in {"loop", "end"} /\ late'[c] \in {0, 1}
      BY <2>7, <3>1 DEF SessionWrite
    <3>3. late'[c] = 1 => ~m_running /\ ~m_running'
      BY <2>7, <3>1 DEF SessionWrite
    <3>4. \A d \in Conns : d # c => session'[d] = session[d] /\ late'[d] = late[d]
      BY <2>7 DEF SessionWrite
    <3>5. m_running' = m_running
      BY <2>7 DEF SessionWrite
    <3>. QED  BY <3>2, <3>3, <3>4, <3>5
  <2>. QED  BY <1>3, <2>1, <2>2, <2>3, <2>4, <2>5, <2>6, <2>7, Zenon DEF SessionRuns, SessionIo
<1>4. CASE EnvironmentNext
  <2>1. ASSUME NEW c \in Conns, Connect(c) \/ IoAccept(c)
        PROVE  LateInv'
    BY <2>1 DEF Connect, IoAccept, TypeOK, DataTypes
  <2>2. CASE IoAcceptFails
    BY <2>2 DEF IoAcceptFails
  <2>3. ASSUME NEW t \in DOMAIN m_threads, ThreadExit(t)
        PROVE  LateInv'
    BY <2>3 DEF ThreadExit
  <2>. QED  BY <1>4, <2>1, <2>2, <2>3 DEF EnvironmentNext
<1>5. CASE UNCHANGED vars
  BY <1>5 DEF vars
<1>. QED  BY <1>1, <1>2, <1>3, <1>4, <1>5 DEF Next, Halted

-----------------------------------------------------------------------------
\* start() adds ThreadCount threads, and stop() joins the first ThreadCount.
LEMMA ThreadStep ==
    ASSUME TypeOK, TypeOK', ThreadInv, [Next]_vars
    PROVE  ThreadInv'
<1>0. Len(m_threads) \in Nat
  BY DEF TypeOK, DataTypes
<1>d. DOMAIN m_threads = 1..Len(m_threads)
  BY DEF TypeOK, DataTypes
<1>s. m_threads \in Seq({"run", "exited", "joined"})
  BY DEF TypeOK, DataTypes
<1>n. i \in Nat /\ i <= ThreadCount /\ starts \in Nat /\ ThreadCount \in Nat
  BY ThreadCountAssumption, MaxStartsAssumption DEF TypeOK, DataTypes
<1>. USE <1>n DEF ThreadInv, LenInv, JoinInv, acceptVars, sessionVars
<1>1. CASE OwnerNext
  <2>1. CASE Start
    BY <2>1, <1>0 DEF Start
  <2>2. CASE StartThread
    <3>1. CASE i < ThreadCount
      <4>1. m_threads' = Append(m_threads, "run")
        BY <2>2, <3>1 DEF StartThread
      <4>2. /\ Len(m_threads') = Len(m_threads) + 1
            /\ \A t \in 1..Len(m_threads) : m_threads'[t] = m_threads[t]
            /\ m_threads'[Len(m_threads) + 1] = "run"
        BY <4>1, <1>s
      <4>3. owner' = "starting" /\ owner = "starting" /\ i' = i + 1 /\ starts' = starts
        BY <2>2, <3>1 DEF StartThread
      <4>. QED  BY <1>0, <3>1, <4>2, <4>3
    <3>2. CASE ~(i < ThreadCount)
      <4>1. i = ThreadCount
        BY <3>2
      <4>. QED  BY <2>2, <3>2, <1>0, <4>1 DEF StartThread
    <3>. QED  BY <3>1, <3>2
  <2>3. CASE StopIo
    BY <2>3, <1>0 DEF StopIo
  <2>4. CASE StopJoinThread
    <3>1. CASE i = ThreadCount
      BY <2>4, <3>1, <1>0 DEF StopJoinThread
    <3>2. CASE i # ThreadCount /\ m_threads[i + 1] = "exited"
      <4>1. /\ m_threads' = [m_threads EXCEPT ![i + 1] = "joined"] /\ i' = i + 1
            /\ owner = "joining_threads" /\ owner' = owner /\ starts' = starts
        BY <2>4, <3>2 DEF StopJoinThread
      <4>2. Len(m_threads') = Len(m_threads)
        BY <4>1, <1>s, ExceptThread
      <4>3. starts = 1 /\ Len(m_threads) = ThreadCount
        BY <3>2, <4>1
      <4>4. \A t \in 1..Len(m_threads) :
              m_threads'[t] = IF t = i + 1 THEN "joined" ELSE m_threads[t]
        BY <4>1, <1>d, <1>s, Zenon
      <4>5. i' \in Nat /\ i' <= ThreadCount
        BY <3>2, <4>1
      <4>. QED  BY <3>2, <4>1, <4>2, <4>3, <4>4, <4>5
    <3>3. CASE i # ThreadCount /\ m_threads[i + 1] = "joined"
      <4>1. /\ owner = "joining_threads" /\ owner' = "threw"
            /\ UNCHANGED <<m_threads, i, starts>>
        BY <2>4, <3>3 DEF StopJoinThread
      <4>2. starts > 1
        BY <1>0, <3>3, <4>1
      <4>. QED  BY <1>0, <4>1, <4>2
    <3>. QED  BY <2>4, <3>1, <3>2, <3>3 DEF StopJoinThread
  <2>5. CASE Destroy
    BY <2>5, <1>0 DEF Destroy
  <2>6. CASE StopBegin \/ StopClose \/ StopJoinFiber \/ StopCheck
    BY <2>6, <1>0 DEF StopBegin, StopClose, StopJoinFiber, StopCheck
  <2>. QED  BY <1>1, <2>1, <2>2, <2>3, <2>4, <2>5, <2>6, Zenon DEF OwnerNext
<1>2. CASE AcceptNext
  <2>1. UNCHANGED <<owner, i, starts, m_threads>>
    BY <1>2 DEF AcceptNext, AcceptOpen, AcceptListen, AcceptInitiate, AcceptError,
                AcceptSpawn, AcceptCount, AcceptThrows, ownerVars
  <2>. QED  BY <2>1
<1>3. ASSUME NEW c \in Conns, SessionRuns(c) \/ SessionIo(c)
      PROVE  ThreadInv'
  <2>1. /\ UNCHANGED <<m_threads, i, starts>>
        /\ owner' = owner \/ (owner = "waiting" /\ owner' = "checking")
    BY <1>3, Zenon DEF SessionRuns, SessionIo, SessionStart, SessionLoop, SessionHandle,
                SessionTimeout, SessionEnd, SessionHeader, SessionContinue, SessionBody,
                SessionWrite, SessionGoto, Notify, ownerVars
  <2>. QED  BY <2>1
<1>4. CASE EnvironmentNext
  <2>1. ASSUME NEW t \in DOMAIN m_threads, ThreadExit(t)
        PROVE  ThreadInv'
    <3>1. /\ m_threads' = [m_threads EXCEPT ![t] = "exited"] /\ m_threads[t] = "run"
          /\ UNCHANGED <<owner, i, starts>>
      BY <2>1 DEF ThreadExit
    <3>2. Len(m_threads') = Len(m_threads)
      BY <3>1, <1>s, ExceptThread
    <3>3. \A u \in 1..Len(m_threads) : m_threads'[u] = "joined" <=> m_threads[u] = "joined"
      <4>. SUFFICES ASSUME NEW u \in DOMAIN m_threads
                    PROVE  m_threads'[u] = "joined" <=> m_threads[u] = "joined"
        BY <1>d, Zenon
      <4>1. m_threads'[u] = IF u = t THEN "exited" ELSE m_threads[u]
        BY <3>1, Zenon
      <4>. QED  BY <3>1, <4>1, Zenon
    <3>4. LenInv'
      BY <3>1, <3>2
    <3>5. JoinInv'
      <4>1. starts > 1 => ThreadCount <= Len(m_threads)
        OBVIOUS
      <4>2. starts = 1 /\ owner # "starting" => Len(m_threads) = ThreadCount
        OBVIOUS
      <4>. QED  BY <1>0, <3>1, <3>2, <3>3, <4>1, <4>2
    <3>. QED  BY <3>4, <3>5
  <2>2. CASE (\E c \in Conns : Connect(c) \/ IoAccept(c)) \/ IoAcceptFails
    <3>1. UNCHANGED <<owner, i, starts, m_threads>>
      BY <2>2 DEF Connect, IoAccept, IoAcceptFails, ownerVars
    <3>. QED  BY <3>1
  <2>. QED  BY <1>4, <2>1, <2>2 DEF EnvironmentNext
<1>5. CASE UNCHANGED vars
  BY <1>5 DEF vars
<1>. QED  BY <1>1, <1>2, <1>3, <1>4, <1>5 DEF Next, Halted

-----------------------------------------------------------------------------
\* What all four parts of the invariant amount to.
IndInv == TypeOK /\ PhaseInv /\ CountInv /\ ThreadInv /\ LateInv

\* A server that was just constructed satisfies the invariant.
LEMMA InitInd == Init => IndInv
<1>. SUFFICES ASSUME Init PROVE IndInv
  OBVIOUS
<1>. USE DEF Init
<1>1. TypeOK
  <2>1. FlagTypes
    BY Zenon DEF FlagTypes
  <2>2. DataTypes
    BY ConnsAssumption, ThreadCountAssumption, MaxStartsAssumption
    DEF DataTypes, OwnerStates, AcceptStates, SessionStates
  <2>. QED  BY <2>1, <2>2 DEF TypeOK
<1>2. PhaseInv
  BY DEF PhaseInv, Unaccepting
<1>3. Live = {}
  BY DEF Live, LivePhases, IoPhases
<1>4. CountInv
  BY <1>3, FS_EmptySet DEF CountInv, SessionCount
<1>5. Len(m_threads) = 0
  OBVIOUS
<1>6. ThreadInv
  BY <1>5, ThreadCountAssumption DEF ThreadInv, LenInv, JoinInv
<1>7. LateInv
  BY DEF LateInv
<1>. QED  BY <1>1, <1>2, <1>4, <1>6, <1>7 DEF IndInv

\* The inductive invariant holds of every behaviour of the server.
THEOREM Inductive == Spec => []IndInv
<1>1. IndInv /\ TypeOK' /\ [Next]_vars => IndInv'
  BY PhaseStep, CountStep, ThreadStep, LateStep DEF IndInv
<1>. QED  BY InitInd, TypeCorrect, <1>1, PTL DEF Spec

\* The counter that stop() relies on is exact up to the one session that the
\* accept fiber has created and not counted yet (lines 209-229).
THEOREM SessionCountCorrect == Spec => []SessionCount
<1>1. IndInv => SessionCount
  BY DEF IndInv, CountInv
<1>. QED  BY <1>1, Inductive, PTL

\* stop() never waits for a notification that no session will send.
THEOREM NoLostWakeupCorrect == Spec => []NoLostWakeup
<1>1. IndInv => NoLostWakeup
  <2>. SUFFICES ASSUME IndInv, owner = "waiting" PROVE Live # {}
    BY DEF NoLostWakeup
  <2>1. m_session_number # 0 /\ m_session_number = Cardinality(Live)
    BY LiveFinite, FS_CardinalityType
       DEF IndInv, CountInv, SessionCount, PhaseInv, Unaccepting
  <2>. QED  BY <2>1, FS_EmptySet
<1>. QED  BY <1>1, Inductive, PTL

\* The io context is stopped only when nothing needs it any more.
THEOREM DrainedCorrect == Spec => []DrainedBeforeIoStop
<1>1. IndInv => DrainedBeforeIoStop
  BY DEF IndInv, CountInv, PhaseInv, DrainedBeforeIoStop, Drained, Unaccepting
<1>. QED  BY <1>1, Inductive, PTL

\* A fiber that waits for an operation never finds the context stopped under it.
THEOREM WaitersHaveIoCorrect == Spec => []WaitersHaveIo
<1>1. IndInv => WaitersHaveIo
  BY DEF IndInv, CountInv, PhaseInv, WaitersHaveIo, Drained, Unaccepting
<1>. QED  BY <1>1, Inductive, PTL

\* The io context outlives every operation that somebody waits for.
THEOREM IoOutlivesWaitersCorrect == Spec => []IoOutlivesWaiters
<1>. QED  BY DrainedCorrect, WaitersHaveIoCorrect, PTL DEF IoOutlivesWaiters

\* A stop() that returns leaves nothing joinable behind.
THEOREM StopReleasesThreadsCorrect == Spec => []StopReleasesThreads
<1>1. IndInv => StopReleasesThreads
  <2>. SUFFICES ASSUME IndInv, owner = "stopped"
                PROVE  apc = "none" /\ \A t \in DOMAIN m_threads : m_threads[t] = "joined"
    BY DEF StopReleasesThreads
  <2>1. apc = "none"
    BY DEF IndInv, PhaseInv, Unaccepting
  <2>2. DOMAIN m_threads = 1..Len(m_threads)
    BY DEF IndInv, TypeOK, DataTypes
  <2>3. starts \in Nat
    BY MaxStartsAssumption DEF IndInv, TypeOK, DataTypes
  <2>4. Len(m_threads) = ThreadCount
    BY <2>3 DEF IndInv, ThreadInv, LenInv
  <2>5. \A t \in 1..ThreadCount : m_threads[t] = "joined"
    BY <2>3, ThreadCountAssumption DEF IndInv, ThreadInv, LenInv, JoinInv
  <2>. QED  BY <2>1, <2>2, <2>4, <2>5
<1>. QED  BY <1>1, Inductive, PTL

\* A stop() that throws was not the first.
THEOREM ThrowsOnlyAfterRestartCorrect == Spec => []ThrowsOnlyAfterRestart
<1>1. IndInv => ThrowsOnlyAfterRestart
  BY DEF IndInv, ThreadInv, LenInv, ThrowsOnlyAfterRestart
<1>. QED  BY <1>1, Inductive, PTL

\* stop() ends in one of two ways, and throws only after a restart.
THEOREM StopOutcomeCorrect == Spec => []StopOutcome
<1>. QED  BY StopReleasesThreadsCorrect, ThrowsOnlyAfterRestartCorrect, PTL DEF StopOutcome

\* At most one answer per session after stop() has begun.
THEOREM DrainBoundCorrect == Spec => []DrainBound
<1>1. IndInv => DrainBound
  BY DEF IndInv, LateInv, DrainBound
<1>. QED  BY <1>1, Inductive, PTL

-----------------------------------------------------------------------------
\* The sessions that have ended.
Gone == {c \in Conns : session[c] = "gone"}

\* Every step of the owner is one of its steps in the life of a server, or none: the
\* predicate of stop() is what allows FinishStop.
LEMMA OwnerRefines ==
    ASSUME IndInv, CountInv', OwnerNext
    PROVE  [Lifecycle!Next]_(Lifecycle!vars)
<1>. USE DEF Mode, Lifecycle!vars
<1>1. Live' = Live /\ Gone' = Gone
  <2>1. CASE StopClose
    BY <2>1 DEF StopClose, Live, LivePhases, IoPhases, Gone
  <2>2. CASE ~StopClose
    BY <2>2 DEF OwnerNext, Start, StartThread, StopBegin, StopJoinFiber, StopCheck, StopIo,
                StopJoinThread, Destroy, sessionVars, Live, Gone
  <2>. QED  BY <2>1, <2>2
<1>2. CASE Start
  BY <1>1, <1>2 DEF Start, Lifecycle!Next, Lifecycle!Open, Gone
<1>3. CASE StopBegin
  BY <1>1, <1>3 DEF StopBegin, Lifecycle!Next, Lifecycle!BeginStop, Gone
<1>4. CASE StopCheck
  <2>1. CASE m_session_number = 0
    <3>1. Live' = {}
      BY <1>4, <2>1 DEF StopCheck, CountInv, Drained
    <3>2. Mode = "draining" /\ Mode' = "down"
      BY <1>4, <2>1 DEF StopCheck
    <3>. QED  BY <1>1, <3>1, <3>2 DEF Lifecycle!Next, Lifecycle!FinishStop, Gone
  <2>2. CASE m_session_number # 0
    BY <1>1, <1>4, <2>2 DEF StopCheck, Gone
  <2>. QED  BY <2>1, <2>2
<1>5. CASE StartThread \/ StopClose \/ StopJoinFiber \/ StopIo \/ StopJoinThread \/ Destroy
  <2>1. Mode' = Mode
    BY <1>5 DEF StartThread, StopClose, StopJoinFiber, StopIo, StopJoinThread, Destroy
  <2>. QED  BY <1>1, <2>1 DEF Gone
<1>. QED  BY <1>2, <1>3, <1>4, <1>5 DEF OwnerNext

\* AcceptSpawn admits a connection, which it can do only while the server is not down;
\* the rest of the accept fiber shows nothing to the owner.
LEMMA AcceptRefines ==
    ASSUME IndInv, AcceptNext
    PROVE  [Lifecycle!Next]_(Lifecycle!vars)
<1>1. CASE AcceptSpawn
  <2>1. accepted \in Conns /\ session[accepted] = "accepted"
    BY <1>1 DEF AcceptSpawn, IndInv, PhaseInv, TypeOK, DataTypes
  <2>2. owner' = owner /\ session' = [session EXCEPT ![accepted] = "spawned"]
    BY <1>1 DEF AcceptSpawn, ownerVars
  <2>3. Mode # "down" /\ Mode' = Mode
    BY <1>1, <2>2 DEF AcceptSpawn, IndInv, PhaseInv, Unaccepting, TypeOK, DataTypes,
                      OwnerStates, Mode
  <2>4. accepted \notin Live \cup Gone
    BY <2>1 DEF Live, LivePhases, IoPhases, Gone
  <2>5. Live' = Live \cup {accepted}
    BY <2>1, <2>2 DEF IndInv, TypeOK, DataTypes, Live, LivePhases
  <2>6. Gone' = Gone
    BY <2>1, <2>2 DEF IndInv, TypeOK, DataTypes, Gone
  <2>7. Lifecycle!Admit(accepted)
    BY <2>3, <2>4, <2>5, <2>6 DEF Lifecycle!Admit, Gone
  <2>. QED  BY <2>1, <2>7 DEF Lifecycle!Next
<1>2. CASE ~AcceptSpawn
  <2>1. UNCHANGED <<owner, session>>
    BY <1>2 DEF AcceptNext, AcceptOpen, AcceptListen, AcceptInitiate, AcceptError,
                AcceptCount, AcceptThrows, ownerVars, sessionVars
  <2>. QED  BY <2>1 DEF Mode, Live, Lifecycle!vars
<1>. QED  BY <1>1, <1>2

\* The end of a session is the only one of its steps that the owner can see.
LEMMA SessionRefines ==
    ASSUME IndInv, NEW c \in Conns, SessionRuns(c) \/ SessionIo(c)
    PROVE  [Lifecycle!Next]_(Lifecycle!vars)
<1>. USE DEF IndInv, TypeOK, DataTypes
<1>1. CASE SessionEnd(c)
  <2>1. session[c] = "end" /\ session' = [session EXCEPT ![c] = "gone"]
    BY <1>1 DEF SessionEnd
  <2>2. c \in Live /\ Live' = Live \ {c}
    BY <2>1 DEF Live, LivePhases, IoPhases
  <2>3. Gone' = Gone \cup {c}
    BY <2>1 DEF Gone
  <2>4. Mode' = Mode
    BY <1>1 DEF SessionEnd, Notify, Mode
  <2>. QED  BY <2>2, <2>3, <2>4 DEF Lifecycle!Next, Lifecycle!Leave, Gone
<1>2. CASE ~SessionEnd(c)
  <2>1. Live' = Live /\ owner' = owner
    BY <1>2, SessionKeepsLive
  <2>2. session[c] \in LivePhases
    BY <1>2 DEF SessionRuns, SessionIo, SessionStart, SessionLoop, SessionHandle,
                SessionTimeout, SessionHeader, SessionContinue, SessionBody, SessionWrite,
                LivePhases, IoPhases
  <2>3. \E phase \in LivePhases : session' = [session EXCEPT ![c] = phase]
    BY <1>2 DEF SessionRuns, SessionIo, SessionStart, SessionLoop, SessionHandle,
                SessionTimeout, SessionHeader, SessionContinue, SessionBody, SessionWrite,
                SessionGoto, LivePhases, IoPhases
  <2>4. Gone' = Gone
    BY <2>2, <2>3 DEF Gone, LivePhases, IoPhases
  <2>. QED  BY <2>1, <2>4 DEF Mode, Gone, Lifecycle!vars
<1>. QED  BY <1>1, <1>2

\* Clients, the kernel and the io threads show nothing to the owner.
LEMMA EnvironmentRefines ==
    ASSUME IndInv, EnvironmentNext
    PROVE  UNCHANGED Lifecycle!vars
<1>1. owner' = owner
  BY DEF EnvironmentNext, Connect, IoAccept, IoAcceptFails, ThreadExit, ownerVars
<1>2. Live' = Live /\ Gone' = Gone
  <2>1. ASSUME NEW c \in Conns, Connect(c) \/ IoAccept(c)
        PROVE  Live' = Live /\ Gone' = Gone
    BY <2>1 DEF Connect, IoAccept, IndInv, TypeOK, DataTypes, Live, LivePhases, IoPhases,
                Gone
  <2>2. CASE IoAcceptFails \/ \E t \in DOMAIN m_threads : ThreadExit(t)
    BY <2>2 DEF IoAcceptFails, ThreadExit, sessionVars, Live, Gone
  <2>. QED  BY <2>1, <2>2 DEF EnvironmentNext
<1>. QED  BY <1>1, <1>2 DEF Mode, Gone, Lifecycle!vars

\* The server with its fibers, threads, futures and counter is a ServerLifecycle:
\* connections are served once, only between start() and the end of the drain, and
\* stop() takes the server down only when no session is left (lines 182-278).
THEOREM ImplementsLifecycleCorrect == Spec => ImplementsLifecycle
<1>1. Init => Lifecycle!Init
  BY DEF Init, Lifecycle!Init, Mode, Live, LivePhases, IoPhases
<1>2. IndInv /\ IndInv' /\ [Next]_vars => [Lifecycle!Next]_(Lifecycle!vars)
  <2>. SUFFICES ASSUME IndInv, IndInv', [Next]_vars
                PROVE  [Lifecycle!Next]_(Lifecycle!vars)
    OBVIOUS
  <2>1. CASE UNCHANGED vars
    BY <2>1 DEF vars, Mode, Live, Lifecycle!vars
  <2>2. CASE OwnerNext
    BY <2>2, OwnerRefines DEF IndInv
  <2>. QED
    BY <2>1, <2>2, AcceptRefines, SessionRefines, EnvironmentRefines DEF Next, Halted
<1>. QED
  BY <1>1, <1>2, Inductive, PTL DEF Spec, ImplementsLifecycle, Lifecycle!Spec
=============================================================================
