\* No failures; stop() may run before the accept fiber has opened the acceptor.
SPECIFICATION FairSpec
CONSTANTS
    Conns = {c1}
    NoConn = NoConn
    ThreadCount = 1
    MaxStarts = 1
    UseTimeout = TRUE
    EarlyStop = TRUE
    Faults = {}
PROPERTIES
    CloseEndsAccept
CHECK_DEADLOCK FALSE
