\* The server implements ServerLifecycle, and stop() comes to an end when sessions
\* have deadlines.  Without an early stop() nothing hangs: deadlock is checked.
SPECIFICATION FairSpec
CONSTANTS
    Conns = {c1, c2}
    NoConn = NoConn
    ThreadCount = 2
    MaxStarts = 2
    UseTimeout = TRUE
    EarlyStop = FALSE
    Faults = {"no_descriptors", "endpoint", "user"}
PROPERTIES
    ImplementsLifecycle
    StopEnds
