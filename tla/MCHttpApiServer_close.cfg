\* No failures at all: stop() alone can end the process.
SPECIFICATION Spec
CONSTANTS
    Conns = {c1}
    NoConn = NoConn
    ThreadCount = 1
    MaxStarts = 1
    UseTimeout = TRUE
    EarlyStop = FALSE
    Faults = {}
INVARIANTS
    DeliberateCloseEnds
