\* Two generations of the server, every failure, stop() at any time.  An early
\* stop() can hang in join() and the process can end, so deadlock is not checked.
SPECIFICATION Spec
CONSTANTS
    Conns = {c1, c2, c3}
    NoConn = NoConn
    ThreadCount = 2
    MaxStarts = 2
    UseTimeout = TRUE
    EarlyStop = TRUE
    Faults = {"setup", "accept", "no_descriptors", "endpoint", "user"}
SYMMETRY ConnSymmetry
INVARIANTS
    TypeOK
    SessionCount
    NoLostWakeup
    IoOutlivesWaiters
    
    DrainBound
CHECK_DEADLOCK FALSE
