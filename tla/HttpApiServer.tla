--------------------------- MODULE HttpApiServer ---------------------------
(***************************************************************************)
(* The life of an HttpApiServer (src/http/http_api_server.cpp): the owner  *)
(* that calls start(), stop() and the destructor, the accept fiber, one    *)
(* detached fiber per connection, and the threads that run m_io_cxt.       *)
(*                                                                         *)
(* A critical section of m_session_mutex is one step.  An asynchronous     *)
(* session operation and the f.get() that waits for it are one step of     *)
(* the fiber, which an io thread must be there to complete; the accept     *)
(* operation is split, because stop() may close the acceptor between its   *)
(* completion and the resumption of the accept fiber.                      *)
(***************************************************************************)
EXTENDS Integers, Sequences, FiniteSets, HttpRouting

CONSTANTS
    Conns,        \* the connections clients may open
    NoConn,       \* no accepted connection
    ThreadCount,  \* m_thread_count
    MaxStarts,    \* bound: how often the owner calls start()
    UseTimeout,   \* m_timeout # 0
    EarlyStop,    \* may stop() run before the accept fiber has reached listen()?
    Faults        \* which failures of the environment happen

FaultKinds == {"setup", "accept", "no_descriptors", "endpoint", "user"}

ASSUME ConnsAssumption == IsFiniteSet(Conns) /\ NoConn \notin Conns
ASSUME ThreadCountAssumption == ThreadCount \in Nat
ASSUME MaxStartsAssumption == MaxStarts \in Nat
ASSUME SwitchAssumption ==
    UseTimeout \in BOOLEAN /\ EarlyStop \in BOOLEAN /\ Faults \subseteq FaultKinds

VARIABLES
    m_running, m_session_number, m_threads,
    acceptor,     \* m_acceptor: "closed", "opened" or "listening"
    ioStopped,    \* m_io_cxt.stopped()
    owner,        \* where the owner is in start(), stop(), ~HttpApiServer()
    i,            \* loop index of start() and stop()
    starts,       \* how often start() was called
    apc,          \* where the accept fiber is; "none": not joinable
    acceptOp,     \* state of the future f of async_accept
    accepted,     \* the connection in the accept loop's local socket
    session,      \* per connection: where its fiber is
    close,        \* per connection: the local close of session()
    late,         \* per connection: answers sent since stop() cleared m_running
    terminated    \* std::terminate was called

vars == <<m_running, m_session_number, m_threads, acceptor, ioStopped, owner, i,
          starts, apc, acceptOp, accepted, session, close, late, terminated>>

ownerVars == <<owner, i, starts, m_threads, ioStopped>>
acceptVars == <<apc, acceptOp, accepted>>
sessionVars == <<session, close, late>>

OwnerStates == {"idle", "starting", "up", "closing", "joining", "checking",
                "waiting", "stopping_io", "joining_threads", "stopped", "threw",
                "destroyed"}
AcceptStates == {"none", "open", "listen", "loop", "get", "count", "done"}
AcceptResults == {"ok", "operation_aborted", "bad_descriptor", "no_descriptors",
                  "error"}
\* The phases in which a session fiber waits for m_io_cxt.
IoPhases == {"header", "continue", "body", "write"}
LivePhases == IoPhases \cup {"spawned", "loop", "handle", "end"}
SessionStates == LivePhases \cup {"none", "backlog", "accepted", "refused", "gone"}

Live == {c \in Conns : session[c] \in LivePhases}

\* Some thread is inside m_io_cxt.run().
IoRuns == ~ioStopped /\ \E t \in DOMAIN m_threads : m_threads[t] = "run"

Init ==
    /\ m_running \in BOOLEAN   \* the constructor leaves the atomic uninitialised
    /\ m_session_number = 0
    /\ m_threads = <<>>
    /\ acceptor = "closed"
    /\ ioStopped = FALSE
    /\ owner = "idle" /\ i = 0 /\ starts = 0
    /\ apc = "none" /\ acceptOp = "none" /\ accepted = NoConn
    /\ session = [c \in Conns |-> "none"]
    /\ close = [c \in Conns |-> FALSE]
    /\ late = [c \in Conns |-> 0]
    /\ terminated = FALSE

-----------------------------------------------------------------------------
(* The owner. *)

\* start() up to the creation of the accept fiber, which may already run (on
\* another thread of the scheduler) while start() creates the io threads.
Start ==
    /\ owner \in {"idle", "stopped"}
    /\ starts < MaxStarts
    /\ starts' = starts + 1
    /\ ioStopped' = FALSE
    /\ m_running' = TRUE
    /\ m_session_number' = 0
    /\ apc' = "open"
    /\ owner' = "starting" /\ i' = 0
    /\ UNCHANGED <<m_threads, acceptor, acceptOp, accepted, sessionVars, terminated>>

\* Mutant: one thread too many.
StartThread_OneMore ==
    /\ owner = "starting"
    /\ IF i <= ThreadCount
       THEN /\ m_threads' = Append(m_threads, "run")
            /\ i' = i + 1
            /\ owner' = owner
       ELSE /\ owner' = "up"
            /\ UNCHANGED <<m_threads, i>>
    /\ UNCHANGED <<m_running, m_session_number, acceptor, ioStopped, starts,
                   acceptVars, sessionVars, terminated>>

\* The loop of start(): one more thread running m_io_cxt, or the return.
StartThread ==
    /\ owner = "starting"
    /\ IF i < ThreadCount
       THEN /\ m_threads' = Append(m_threads, "run")
            /\ i' = i + 1
            /\ owner' = owner
       ELSE /\ owner' = "up"
            /\ UNCHANGED <<m_threads, i>>
    /\ UNCHANGED <<m_running, m_session_number, acceptor, ioStopped, starts,
                   acceptVars, sessionVars, terminated>>

StopBegin ==
    /\ owner = "up"
    /\ EarlyStop \/ apc \notin {"open", "listen"}
    /\ m_running' = FALSE
    /\ owner' = "closing"
    /\ UNCHANGED <<m_session_number, m_threads, acceptor, ioStopped, i, starts,
                   acceptVars, sessionVars, terminated>>

\* m_acceptor.close(ec): a pending accept is aborted, a completed one is not;
\* connections the kernel has not handed over are dropped with the socket.
StopClose ==
    /\ owner = "closing"
    /\ owner' = "joining"
    /\ acceptor' = "closed"
    /\ acceptOp' = IF acceptOp = "pending" THEN "operation_aborted" ELSE acceptOp
    /\ session' = [c \in Conns |->
                     IF session[c] = "backlog" THEN "refused" ELSE session[c]]
    /\ UNCHANGED <<m_running, m_session_number, m_threads, ioStopped, i, starts,
                   apc, accepted, close, late, terminated>>

\* Mutant: stop() detaches the accept fiber instead of joining it.
StopJoinFiber_Detach ==
    /\ owner = "joining"
    /\ apc' = "none"
    /\ owner' = "checking"
    /\ UNCHANGED <<m_running, m_session_number, m_threads, acceptor, ioStopped, i,
                   starts, acceptOp, accepted, sessionVars, terminated>>

StopJoinFiber ==
    /\ owner = "joining"
    /\ apc \in {"done", "none"}
    /\ apc' = "none"
    /\ owner' = "checking"
    /\ UNCHANGED <<m_running, m_session_number, m_threads, acceptor, ioStopped, i,
                   starts, acceptOp, accepted, sessionVars, terminated>>

\* Mutant: the predicate tolerates one session.
StopCheck_OneLeft ==
    /\ owner = "checking"
    /\ owner' = IF m_session_number <= 1 THEN "stopping_io" ELSE "waiting"
    /\ UNCHANGED <<m_running, m_session_number, m_threads, acceptor, ioStopped, i,
                   starts, acceptVars, sessionVars, terminated>>

\* m_session_cnd.wait(lk, pred): the predicate, under the mutex.
StopCheck ==
    /\ owner = "checking"
    /\ owner' = IF m_session_number = 0 THEN "stopping_io" ELSE "waiting"
    /\ UNCHANGED <<m_running, m_session_number, m_threads, acceptor, ioStopped, i,
                   starts, acceptVars, sessionVars, terminated>>

\* Mutant: the index of the join loop is not set to zero.
StopIo_KeepsIndex ==
    /\ owner = "stopping_io"
    /\ ioStopped' = TRUE
    /\ owner' = "joining_threads"
    /\ UNCHANGED <<m_running, m_session_number, m_threads, acceptor, i, starts,
                   acceptVars, sessionVars, terminated>>

StopIo ==
    /\ owner = "stopping_io"
    /\ ioStopped' = TRUE
    /\ owner' = "joining_threads" /\ i' = 0
    /\ UNCHANGED <<m_running, m_session_number, m_threads, acceptor, starts,
                   acceptVars, sessionVars, terminated>>

\* The loop of stop(): std::thread::join() waits for a running thread and
\* throws for one that was joined before.
StopJoinThread ==
    /\ owner = "joining_threads"
    /\ IF i = ThreadCount
       THEN /\ owner' = "stopped"
            /\ UNCHANGED <<m_threads, i>>
       ELSE \/ /\ m_threads[i + 1] = "exited"
               /\ m_threads' = [m_threads EXCEPT ![i + 1] = "joined"]
               /\ i' = i + 1
               /\ owner' = owner
            \/ /\ m_threads[i + 1] = "joined"
               /\ owner' = "threw"
               /\ UNCHANGED <<m_threads, i>>
    /\ UNCHANGED <<m_running, m_session_number, acceptor, ioStopped, starts,
                   acceptVars, sessionVars, terminated>>

\* The destructor of a joinable std::thread or fiber calls std::terminate.
Destroy ==
    /\ owner \in {"idle", "stopped", "threw"}
    /\ owner' = "destroyed"
    /\ terminated' = (apc # "none" \/ \E t \in DOMAIN m_threads : m_threads[t] # "joined")
    /\ UNCHANGED <<m_running, m_session_number, m_threads, acceptor, ioStopped, i,
                   starts, acceptVars, sessionVars>>

-----------------------------------------------------------------------------
(* The accept fiber.  An exception that leaves a fiber's function terminates *)
(* the process.                                                              *)

AcceptThrows ==
    /\ terminated' = TRUE
    /\ UNCHANGED <<m_running, m_session_number, acceptor, ownerVars, acceptVars,
                   sessionVars>>

AcceptOpen ==
    /\ apc = "open"
    /\ \/ /\ acceptor = "closed"
          /\ acceptor' = "opened"
          /\ apc' = "listen"
          /\ UNCHANGED <<m_running, m_session_number, ownerVars, acceptOp, accepted,
                         sessionVars, terminated>>
       \/ /\ acceptor # "closed" \/ "setup" \in Faults
          /\ AcceptThrows

\* set_option, bind and listen; they throw when stop() closed the socket.
AcceptListen ==
    /\ apc = "listen"
    /\ \/ /\ acceptor = "opened"
          /\ acceptor' = "listening"
          /\ apc' = "loop"
          /\ UNCHANGED <<m_running, m_session_number, ownerVars, acceptOp, accepted,
                         sessionVars, terminated>>
       \/ /\ acceptor = "closed" \/ "setup" \in Faults
          /\ AcceptThrows

\* async_accept: on a closed acceptor the operation completes at once.
AcceptInitiate ==
    /\ apc = "loop"
    /\ acceptOp' = IF acceptor = "listening" THEN "pending" ELSE "bad_descriptor"
    /\ apc' = "get"
    /\ UNCHANGED <<m_running, m_session_number, acceptor, ownerVars, accepted,
                   sessionVars, terminated>>

\* f.get() returned an error code: go on, leave the loop, or throw.
AcceptError ==
    /\ apc = "get" /\ IoRuns
    /\ \/ /\ acceptOp = "no_descriptors"
          /\ apc' = "loop" /\ acceptOp' = "none"
          /\ UNCHANGED <<m_running, m_session_number, acceptor, ownerVars, accepted,
                         sessionVars, terminated>>
       \/ /\ acceptOp = "operation_aborted"
          /\ apc' = "done" /\ acceptOp' = "none"
          /\ UNCHANGED <<m_running, m_session_number, acceptor, ownerVars, accepted,
                         sessionVars, terminated>>
       \/ /\ acceptOp \in {"bad_descriptor", "error"}
          /\ AcceptThrows

\* f.get() returned success: the session fiber is created and detached.
AcceptSpawn ==
    /\ apc = "get" /\ IoRuns
    /\ acceptOp = "ok"
    /\ session' = [session EXCEPT ![accepted] = "spawned"]
    /\ accepted' = NoConn /\ acceptOp' = "none"
    /\ apc' = "count"
    /\ UNCHANGED <<m_running, m_session_number, acceptor, ownerVars, close, late,
                   terminated>>

\* Mutant: the new session is not counted.
AcceptCount_Forgotten ==
    /\ apc = "count"
    /\ apc' = "loop"
    /\ UNCHANGED <<m_running, m_session_number, acceptor, ownerVars, acceptOp,
                   accepted, sessionVars, terminated>>

\* ++m_session_number under the mutex, after the fiber was created.
AcceptCount ==
    /\ apc = "count"
    /\ m_session_number' = m_session_number + 1
    /\ apc' = "loop"
    /\ UNCHANGED <<m_running, acceptor, ownerVars, acceptOp, accepted, sessionVars,
                   terminated>>

-----------------------------------------------------------------------------
(* The session fiber of connection c. *)

SessionGoto(c, phase) ==
    /\ session' = [session EXCEPT ![c] = phase]
    /\ UNCHANGED <<m_running, m_session_number, acceptor, ownerVars, acceptVars,
                   terminated>>

\* remote_endpoint() fails when the peer is already gone.
SessionStart(c) ==
    /\ session[c] = "spawned"
    /\ \/ SessionGoto(c, "loop")
       \/ "endpoint" \in Faults /\ SessionGoto(c, "end")
    /\ UNCHANGED <<close, late>>

\* Mutant: the loop does not look at m_running.
SessionLoop_Forever(c) ==
    /\ session[c] = "loop"
    /\ SessionGoto(c, "header")
    /\ UNCHANGED <<close, late>>

\* while (m_running), then expires_after and async_read_header
SessionLoop(c) ==
    /\ session[c] = "loop"
    /\ SessionGoto(c, IF m_running THEN "header" ELSE "end")
    /\ UNCHANGED <<close, late>>

\* The header arrives, with or without "expect: 100-continue"; or the stream
\* ends, or fails.
SessionHeader(c) ==
    /\ session[c] = "header" /\ IoRuns
    /\ \E phase \in {"continue", "body", "end"} : SessionGoto(c, phase)
    /\ UNCHANGED <<close, late>>

SessionContinue(c) ==
    /\ session[c] = "continue" /\ IoRuns
    /\ \E phase \in {"body", "end"} : SessionGoto(c, phase)
    /\ UNCHANGED <<close, late>>

SessionBody(c) ==
    /\ session[c] = "body" /\ IoRuns
    /\ \E phase \in {"handle", "end"} : SessionGoto(c, phase)
    /\ UNCHANGED <<close, late>>

\* first_process, handle_request and last_process, then async_write; an
\* exception of the overridable hooks leaves session() and is caught around it.
SessionHandle(c) ==
    /\ session[c] = "handle"
    /\ \/ /\ \E req \in Requests :
                close' = [close EXCEPT ![c] = need_eof(handle_request(req))]
          /\ SessionGoto(c, "write")
       \/ /\ "user" \in Faults
          /\ SessionGoto(c, "end")
          /\ close' = close
    /\ late' = late

\* The answer went out, and the loop goes on unless the connection must close;
\* or the write failed.
SessionWrite(c) ==
    /\ session[c] = "write" /\ IoRuns
    /\ \/ /\ late' = IF m_running THEN late ELSE [late EXCEPT ![c] = @ + 1]
          /\ SessionGoto(c, IF close[c] THEN "end" ELSE "loop")
       \/ /\ SessionGoto(c, "end")
          /\ late' = late
    /\ close' = close

\* Mutant: the body is read without a deadline.
SessionTimeout_NotBody(c) ==
    /\ UseTimeout
    /\ session[c] \in IoPhases \ {"body"} /\ IoRuns
    /\ SessionGoto(c, "end")
    /\ UNCHANGED <<close, late>>

\* The deadline of expires_after fails whatever operation is pending.
SessionTimeout(c) ==
    /\ UseTimeout
    /\ session[c] \in IoPhases /\ IoRuns
    /\ SessionGoto(c, "end")
    /\ UNCHANGED <<close, late>>

\* m_session_cnd.notify_one(): the owner, if it waits, evaluates the predicate
\* again.
Notify == owner' = IF owner = "waiting" THEN "checking" ELSE owner

\* Mutant: the counter is tested before it is decremented.
SessionEnd_TestsFirst(c) ==
    /\ session[c] = "end"
    /\ session' = [session EXCEPT ![c] = "gone"]
    /\ m_session_number' = m_session_number - 1
    /\ IF ~m_running /\ m_session_number = 0 THEN Notify ELSE owner' = owner
    /\ UNCHANGED <<m_running, acceptor, i, starts, m_threads, ioStopped, acceptVars,
                   close, late, terminated>>

\* The end of the fiber's function: the critical section after session().
SessionEnd(c) ==
    /\ session[c] = "end"
    /\ session' = [session EXCEPT ![c] = "gone"]
    /\ m_session_number' = m_session_number - 1
    /\ IF ~m_running /\ m_session_number' = 0 THEN Notify ELSE owner' = owner
    /\ UNCHANGED <<m_running, acceptor, i, starts, m_threads, ioStopped, acceptVars,
                   close, late, terminated>>

-----------------------------------------------------------------------------
(* Clients, the kernel and the io threads. *)

Connect(c) ==
    /\ session[c] = "none"
    /\ acceptor = "listening"
    /\ session' = [session EXCEPT ![c] = "backlog"]
    /\ UNCHANGED <<m_running, m_session_number, acceptor, ownerVars, acceptVars,
                   close, late, terminated>>

\* The reactor performs the pending accept.
IoAccept(c) ==
    /\ acceptOp = "pending" /\ IoRuns
    /\ session[c] = "backlog"
    /\ session' = [session EXCEPT ![c] = "accepted"]
    /\ accepted' = c /\ acceptOp' = "ok"
    /\ UNCHANGED <<m_running, m_session_number, acceptor, ownerVars, apc, close,
                   late, terminated>>

IoAcceptFails ==
    /\ acceptOp = "pending" /\ IoRuns
    /\ \/ "no_descriptors" \in Faults /\ acceptOp' = "no_descriptors"
       \/ "accept" \in Faults /\ acceptOp' = "error"
    /\ UNCHANGED <<m_running, m_session_number, acceptor, ownerVars, apc, accepted,
                   sessionVars, terminated>>

\* m_io_cxt.run() returns once the context is stopped.
ThreadExit(t) ==
    /\ ioStopped
    /\ m_threads[t] = "run"
    /\ m_threads' = [m_threads EXCEPT ![t] = "exited"]
    /\ UNCHANGED <<m_running, m_session_number, acceptor, owner, i, starts,
                   ioStopped, acceptVars, sessionVars, terminated>>

-----------------------------------------------------------------------------
OwnerNext == Start \/ StartThread \/ StopBegin \/ StopClose \/ StopJoinFiber
             \/ StopCheck \/ StopIo \/ StopJoinThread \/ Destroy

AcceptNext == AcceptOpen \/ AcceptListen \/ AcceptInitiate \/ AcceptError
              \/ AcceptSpawn \/ AcceptCount

\* What the session fiber does by itself, and what it needs the client for.
SessionRuns(c) == SessionStart(c) \/ SessionLoop(c) \/ SessionHandle(c)
                  \/ SessionTimeout(c) \/ SessionEnd(c)
SessionIo(c) == SessionHeader(c) \/ SessionContinue(c) \/ SessionBody(c)
                \/ SessionWrite(c)

EnvironmentNext == \/ \E c \in Conns : Connect(c) \/ IoAccept(c)
                   \/ IoAcceptFails
                   \/ \E t \in DOMAIN m_threads : ThreadExit(t)

\* The process ended, or the owner is through with the server.
Halted == (terminated \/ owner \in {"threw", "destroyed"}) /\ UNCHANGED vars

Next == \/ /\ ~terminated
           /\ \/ OwnerNext
              \/ AcceptNext
              \/ \E c \in Conns : SessionRuns(c) \/ SessionIo(c)
              \/ EnvironmentNext
        \/ Halted

Spec == Init /\ [][Next]_vars

\* The schedulers run every ready fiber and thread, and deadlines expire; nobody
\* makes a client send, or the owner start, stop or destroy the server.
StopSteps == StartThread \/ StopClose \/ StopJoinFiber \/ StopCheck \/ StopIo
             \/ StopJoinThread

Fairness ==
    /\ WF_vars(~terminated /\ StopSteps)
    /\ WF_vars(~terminated /\ AcceptNext)
    /\ \A c \in Conns : WF_vars(~terminated /\ SessionRuns(c))
    /\ \A t \in 1..(ThreadCount * MaxStarts) :
         WF_vars(~terminated /\ t \in DOMAIN m_threads /\ ThreadExit(t))

FairSpec == Spec /\ Fairness

-----------------------------------------------------------------------------
(* Properties. *)

FlagTypes == m_running \in BOOLEAN /\ ioStopped \in BOOLEAN /\ terminated \in BOOLEAN

DataTypes ==
    /\ m_session_number \in Int
    /\ m_threads \in Seq({"run", "exited", "joined"})
    /\ acceptor \in {"closed", "opened", "listening"}
    /\ owner \in OwnerStates
    /\ i \in 0..ThreadCount
    /\ starts \in 0..MaxStarts
    /\ apc \in AcceptStates
    /\ acceptOp \in AcceptResults \cup {"none", "pending"}
    /\ accepted \in Conns \cup {NoConn}
    /\ session \in [Conns -> SessionStates]
    /\ close \in [Conns -> BOOLEAN]
    /\ late \in [Conns -> Nat]

\* The values the variables take; m_session_number is an int and may be negative.
TypeOK == FlagTypes /\ DataTypes

\* m_session_number counts the session fibers that have not ended, except for
\* the one whose creation the accept fiber has not yet counted: that one may end
\* first, and the counter is then negative for a while (lines 209-229).
SessionCount ==
    m_session_number = Cardinality(Live) - (IF apc = "count" THEN 1 ELSE 0)

\* stop() blocks on m_session_cnd only while a session is still to end and to
\* notify it: no wake-up is lost, although m_running is written without the
\* mutex and the counter may lag behind (lines 219-224, 266-271).
NoLostWakeup == owner = "waiting" => Live # {}

\* Once stop() decides to stop m_io_cxt, nothing waits for the context any more:
\* neither a session nor the accept fiber is alive (lines 261-273).
DrainedBeforeIoStop ==
    owner \in {"stopping_io", "joining_threads", "stopped", "threw"}
        => Live = {} /\ apc = "none" /\ acceptOp = "none"

\* A session that waits for an operation has a context that can complete it, or
\* threads that start() is about to create.
WaitersHaveIo ==
    (Live # {} \/ apc = "get") => (~ioStopped /\ owner # "destroyed")

\* The io context outlives the operations on it: it is stopped after everything has
\* ended, and nobody waits for one that is stopped (lines 236, 261-273).
IoOutlivesWaiters == DrainedBeforeIoStop /\ WaitersHaveIo

\* After a stop() that returned normally every io thread is joined and the
\* accept fiber too, so that the destructor does not terminate the process.
StopReleasesThreads ==
    owner = "stopped" =>
        apc = "none" /\ \A t \in DOMAIN m_threads : m_threads[t] = "joined"

\* stop() fails only on a server that was started before: m_threads keeps the
\* joined threads of the earlier start() and stop() joins those again (line 276).
ThrowsOnlyAfterRestart == owner = "threw" => starts > 1

\* How stop() ends: it has released every thread, or it throws, and that only on a
\* server that was started before.
StopOutcome == StopReleasesThreads /\ ThrowsOnlyAfterRestart

\* After stop() has cleared m_running a session answers at most one request more
\* (line 90).
DrainBound == \A c \in Conns : late[c] <= 1

\* Seen by its owner the server is a ServerLifecycle: draining from the moment
\* m_running is cleared until the predicate of stop() has held.
Mode ==
    CASE owner \in {"starting", "up"} -> "up"
      [] owner \in {"closing", "joining", "checking", "waiting"} -> "draining"
      [] OTHER -> "down"

Lifecycle == INSTANCE ServerLifecycle
             WITH mode <- Mode, live <- Live,
                  served <- {c \in Conns : session[c] = "gone"}

\* Connections are served once, only between start() and the end of the drain,
\* and stop() takes the server down only when no session is left (lines 182-278).
ImplementsLifecycle == Lifecycle!Spec

\* Closing the acceptor on purpose ends the accept loop (the comment of line 196
\* on operation_aborted); it does not end the process.
DeliberateCloseEnds == owner \in {"joining", "checking", "waiting"} => ~terminated

\* With deadlines on the sessions every stop() comes to an end: it returns, it
\* throws, or the accept fiber's exception has ended the process.
StopEnds ==
    (owner = "closing") ~> (owner \in {"stopped", "threw"} \/ terminated)

\* The accept fiber ends, by leaving its loop (line 196) or by an exception, once
\* stop() has closed the acceptor.
CloseEndsAccept == (owner = "joining") ~> (apc \in {"done", "none"} \/ terminated)
=============================================================================
