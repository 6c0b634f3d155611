\* The main thread and two workers, three fibers that share one session, one call of
\* notify_stop().  Without it everybody waits, so deadlock is not checked.
SPECIFICATION ProcessSpec
CONSTANTS
    run_thread_count = 3
    Stoppers = {s1}
    Users = {u1, u2, u3}
    m_connect_num = 1
    NoThread = NoThread
INVARIANTS
    ProcessTypeOK
    NoLostStop
PROPERTIES
    PoolLeases
    StopEndsUnlessBlocked
    BlockedOnlyWhenStarved
CHECK_DEADLOCK FALSE
