---------------------------- MODULE FiberProcess ----------------------------
(***************************************************************************)
(* A process of FiberFrameContext whose fibers use a DBHelper: FiberFrame  *)
(* and DbPool composed through the threads.  Boost.Fiber is external:      *)
(*  - a thread runs one fiber at a time until the fiber suspends;          *)
(*  - work_stealing lets any thread take a fiber that is ready, but a      *)
(*    suspended one stays attached to its thread and is made ready by it;  *)
(*  - a thread whose function has returned runs on until no fiber is       *)
(*    attached to it;                                                      *)
(*  - a fiber in session() waits in the operating system: its thread does  *)
(*    nothing else, as the main thread in join().                          *)
(***************************************************************************)
EXTENDS FiberFrame

CONSTANTS Users, m_connect_num, NoThread

ASSUME ConnectAssumption == m_connect_num \in Nat

VARIABLES started, opened, taken, held, leasing,
    fiber,     \* per user: "none", "ready", "running", "suspended" or "done"
    on         \* per user: the thread it is attached to, NoThread when ready

Db == INSTANCE DbPool
dbVars == <<started, opened, taken, held, leasing>>
processVars == <<frameVars, dbVars, fiber, on>>

Main == 0
Runners == {Main} \cup Threads

ProcessInit ==
    /\ FrameInit
    /\ Db!Init
    /\ fiber = [u \in Users |-> "none"]
    /\ on = [u \in Users |-> NoThread]

Occupied(t) == \E u \in Users : fiber[u] = "running" /\ on[u] = t
Attached(t) == \E u \in Users : on[u] = t

\* The thread has a scheduler that can run a fiber now.
Free(t) ==
    /\ ~Occupied(t)
    /\ IF t = Main THEN main \in {"check", "wait"}
       ELSE threads[t] \in {"check", "wait"} \/ (threads[t] = "exited" /\ Attached(t))

-----------------------------------------------------------------------------
(* main() *)

FrameOnly == UNCHANGED <<dbVars, fiber, on>>

\* start(), called before there are fibers that use the database.
StartDb ==
    /\ main = "work"
    /\ Db!ResetPool \/ Db!Open
    /\ UNCHANGED <<frameVars, fiber, on>>

\* main() creates its fibers and calls wait().
Launch ==
    /\ started = "yes"
    /\ CallWait
    /\ fiber' = [u \in Users |-> "ready"]
    /\ UNCHANGED <<dbVars, on>>

\* The main fiber of a thread sees that it is to stop.
StopThread(t) ==
    /\ ~Occupied(t)
    /\ IF t = Main THEN MainCheckStop ELSE CheckStop(t)
    /\ FrameOnly

\* Mutant: wait() waits for the fibers of the main thread too, in join().
JoinAll_Fibers ==
    /\ \A t \in Runners : ~Attached(t)
    /\ Join
    /\ FrameOnly

\* join() returns when the threads are over, schedulers and all.
JoinAll ==
    /\ \A t \in Threads : ~Attached(t)
    /\ Join
    /\ FrameOnly

-----------------------------------------------------------------------------
(* The fibers *)

\* A thread takes a fiber that is ready; one that is woken up is made ready by its
\* own thread, which may go on with it or leave it to another.
Run(u) ==
    /\ \E t \in Runners :
        /\ Free(t)
        /\ \/ fiber[u] = "ready"
           \/ fiber[u] = "suspended" /\ on[u] = t
        /\ on' = [on EXCEPT ![u] = t]
    /\ fiber' = [fiber EXCEPT ![u] = "running"]
    /\ UNCHANGED <<frameVars, dbVars>>

\* What the fiber waited for has come: its thread makes it ready.
Wake(u) ==
    /\ fiber[u] = "suspended" /\ Free(on[u])
    /\ on[u] \in Threads => threads[on[u]] # "exited"
    /\ fiber' = [fiber EXCEPT ![u] = "ready"]
    /\ on' = [on EXCEPT ![u] = NoThread]
    /\ UNCHANGED <<frameVars, dbVars>>

\* The fiber waits for something while it holds a session.
Suspend(u) ==
    /\ fiber[u] = "running" /\ ~Db!Waiting(u) /\ held[u] # 0
    /\ fiber' = [fiber EXCEPT ![u] = "suspended"]
    /\ UNCHANGED <<frameVars, dbVars, on>>

CallSession(u) ==
    /\ fiber[u] = "running" /\ Db!Call(u)
    /\ UNCHANGED <<frameVars, fiber, on>>

\* A session is leased, and used by the fiber.
LeaseSession(u) == Db!Lease(u) /\ UNCHANGED <<frameVars, fiber, on>>

\* The fiber ends: without a session, or after it has given its session back.
EndFiber(u) ==
    /\ fiber[u] = "running"
    /\ Db!TryLeaseFails(u) \/ (~Db!Waiting(u) /\ Db!GiveBack(u))
    /\ fiber' = [fiber EXCEPT ![u] = "done"]
    /\ on' = [on EXCEPT ![u] = NoThread]
    /\ UNCHANGED frameVars

FiberStep(u) == \/ Run(u) \/ Wake(u) \/ Suspend(u)
                \/ CallSession(u) \/ LeaseSession(u) \/ EndFiber(u)

\* When start() throws the process is over.
Alive == started # "failed"

ProcessNext ==
    /\ Alive
    /\ \/ InitStep /\ FrameOnly
       \/ StartDb \/ Launch \/ JoinAll
       \/ \E t \in Runners : StopThread(t)
       \/ \E s \in Stoppers : (ClearRunning(s) \/ NotifyAll(s)) /\ FrameOnly
       \/ \E u \in Users : FiberStep(u)

\* Threads that can run do.  A fiber suspends only finitely often while it has a
\* session, and a call with a timeout times out.
ProcessSpec ==
    /\ ProcessInit /\ [][ProcessNext]_processVars
    /\ WF_processVars(Alive /\ ((InitStep /\ FrameOnly) \/ StartDb \/ Launch \/ JoinAll))
    /\ \A t \in Runners : WF_processVars(Alive /\ StopThread(t))
    /\ \A s \in Stoppers : WF_processVars(Alive /\ NotifyAll(s) /\ FrameOnly)
    /\ \A u \in Users : /\ WF_processVars(Run(u))
                         /\ WF_processVars(CallSession(u))
                         /\ WF_processVars(LeaseSession(u))
                         /\ SF_processVars(EndFiber(u))

-----------------------------------------------------------------------------
(* Properties. *)

\* The values the variables take; a thread runs at most one fiber.
ProcessTypeOK ==
    /\ FrameTypeOK
    /\ started \in {"no", "opening", "yes", "failed"} /\ opened \in 0..m_connect_num
    /\ taken \subseteq Db!Positions /\ held \in [Users -> {0} \cup Db!Positions]
    /\ leasing \in [Users -> {"none", "lease", "try_lease"}]
    /\ fiber \in [Users -> {"none", "ready", "running", "suspended", "done"}]
    /\ on \in [Users -> Runners \cup {NoThread}]
    /\ \A u, v \in Users :
        u # v /\ fiber[u] = "running" /\ fiber[v] = "running" => on[u] # on[v]

\* DBHelper is a pool of leases: session() and the deleter lease a session to one fiber
\* at a time, and a call that times out leases none.
Pool == INSTANCE LeasePool WITH Ids <- Db!Positions, NoId <- 0, idle <- {}, lease <- held
PoolLeases == Pool!Spec

\* Some fiber waits in session(), the one without a timeout.
Blocked == \E u \in Users : leasing[u] = "lease"

\* notify_stop() ends the process unless a fiber waits for ever in session() (or the
\* process has died in start()): a thread that waits there never sees the end.
StopEndsUnlessBlocked ==
    (<>[]Blocked) \/ (~m_running ~> (main = "exited" \/ started = "failed"))

\* The fiber has no thread to go on: its own is busy for good, or all are.
Stranded(u) ==
    \/ fiber[u] = "suspended" /\ ~Free(on[u])
    \/ fiber[u] = "ready" /\ \A t \in Runners : ~Free(t)

\* A fiber waits for ever in session() only when every session is held by a fiber that
\* has no thread to give it back on: one suspended on a thread which such a wait, or
\* the join() of the main thread, keeps busy.
BlockedOnlyWhenStarved ==
    \A u \in Users :
        <>[](leasing[u] = "lease") =>
            <>[](\A pos \in Db!Positions : \E v \in Users : held[v] = pos /\ Stranded(v))
=============================================================================
