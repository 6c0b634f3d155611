----------------------------- MODULE FiberFrame -----------------------------
(***************************************************************************)
(* FiberFrameContext (src/common/fiber/fiber_frame_context.hpp): main()    *)
(* calls init() and wait(), a fiber calls notify_stop() to end the         *)
(* process.  The threads of init() and main() wait for !m_running on the   *)
(* same condition variable.                                                *)
(***************************************************************************)
EXTENDS Integers, FiniteSets

CONSTANTS
    run_thread_count,
    Stoppers   \* the fibers that may call notify_stop(), each once

ASSUME ThreadAssumption == run_thread_count \in Nat

VARIABLES
    m_running,
    main,      \* where main() is
    threads,   \* per thread: where it is; "none" before it is created
    created,   \* how many threads init() has created
    stopper    \* per stopper: "idle", "notify" or "done"

frameVars == <<m_running, main, threads, created, stopper>>

\* With fewer than two threads init() only installs round_robin for main().
Wanted == IF run_thread_count < 2 THEN 0 ELSE run_thread_count - 1

Threads == 1..Wanted

FrameInit ==
    /\ m_running = TRUE
    /\ main = "init"
    /\ threads = [t \in Threads |-> "none"]
    /\ created = 0
    /\ stopper = [s \in Stoppers |-> "idle"]

\* Mutant: one thread too many.
InitStep_OneMore ==
    /\ main = "init"
    /\ IF created <= Wanted
       THEN /\ created' = created + 1
            /\ threads' = [threads EXCEPT ![created + 1] = "check"]
            /\ main' = main
       ELSE /\ main' = "work"
            /\ UNCHANGED <<created, threads>>
    /\ UNCHANGED <<m_running, stopper>>

\* init(): one more thread, or main goes on with its work.
InitStep ==
    /\ main = "init"
    /\ IF created < Wanted
       THEN /\ created' = created + 1
            /\ threads' = [threads EXCEPT ![created + 1] = "check"]
            /\ main' = main
       ELSE /\ main' = "work"
            /\ UNCHANGED <<created, threads>>
    /\ UNCHANGED <<m_running, stopper>>

\* m_cnd_stop.wait(lk, pred) evaluates the predicate under m_mtx; a thread whose
\* wait is over leaves its function.
CheckStop(t) ==
    /\ threads[t] = "check"
    /\ threads' = [threads EXCEPT ![t] = IF m_running THEN "wait" ELSE "exited"]
    /\ UNCHANGED <<m_running, main, created, stopper>>

\* main() calls wait()
CallWait ==
    /\ main = "work"
    /\ main' = "check"
    /\ UNCHANGED <<m_running, threads, created, stopper>>

MainCheckStop ==
    /\ main = "check"
    /\ main' = IF m_running THEN "wait" ELSE "joining"
    /\ UNCHANGED <<m_running, threads, created, stopper>>

\* t.join() for all threads
Join ==
    /\ main = "joining"
    /\ \A t \in 1..created : threads[t] = "exited"
    /\ main' = "exited"
    /\ UNCHANGED <<m_running, threads, created, stopper>>

\* notify_stop(): the flag under the mutex, the notification after it.
ClearRunning(s) ==
    /\ stopper[s] = "idle" /\ main # "init"
    /\ m_running' = FALSE
    /\ stopper' = [stopper EXCEPT ![s] = "notify"]
    /\ UNCHANGED <<main, threads, created>>

\* Mutant: notify_one instead of notify_all.
NotifyAll_One(s) ==
    /\ stopper[s] = "notify"
    /\ \/ /\ main = "wait" /\ main' = "check" /\ threads' = threads
       \/ /\ main' = main
          /\ \E t \in Threads : /\ threads[t] = "wait"
                                /\ threads' = [threads EXCEPT ![t] = "check"]
       \/ /\ main # "wait" /\ \A t \in Threads : threads[t] # "wait"
          /\ UNCHANGED <<main, threads>>
    /\ stopper' = [stopper EXCEPT ![s] = "done"]
    /\ UNCHANGED <<m_running, created>>

NotifyAll(s) ==
    /\ stopper[s] = "notify"
    /\ threads' = [t \in Threads |-> IF threads[t] = "wait" THEN "check" ELSE threads[t]]
    /\ main' = IF main = "wait" THEN "check" ELSE main
    /\ stopper' = [stopper EXCEPT ![s] = "done"]
    /\ UNCHANGED <<m_running, created>>

FrameNext ==
    \/ InitStep \/ CallWait \/ MainCheckStop \/ Join
    \/ \E t \in Threads : CheckStop(t)
    \/ \E s \in Stoppers : ClearRunning(s) \/ NotifyAll(s)

FrameSpec == FrameInit /\ [][FrameNext]_frameVars

-----------------------------------------------------------------------------
(* Properties. *)

\* The values the variables take.
FrameTypeOK ==
    /\ m_running \in BOOLEAN
    /\ main \in {"init", "work", "check", "wait", "joining", "exited"}
    /\ threads \in [Threads -> {"none", "check", "wait", "exited"}]
    /\ created \in 0..Wanted
    /\ stopper \in [Stoppers -> {"idle", "notify", "done"}]

\* Nobody sleeps on m_cnd_stop after m_running was cleared unless a notification
\* is on its way: notify_stop releases m_mtx before notify_all.
NoLostStop ==
    ~m_running /\ (main = "wait" \/ \E t \in Threads : threads[t] = "wait")
        => \E s \in Stoppers : stopper[s] = "notify"
=============================================================================
