\* Two fibers on two threads.
SPECIFICATION FairSpec
CONSTANTS
    Fns = {f1, f2}
    Capacity = 2
    Modes = {"values"}
    Parallel = {TRUE}
PROPERTIES
    ValuesReturned
CHECK_DEADLOCK FALSE
