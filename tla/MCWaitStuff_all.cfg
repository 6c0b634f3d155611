\* Three functions; a channel that fills up, on one thread or on several; every
\* helper.  The helpers end, and a lost decrement leaves the caller waiting, so
\* deadlock is not checked; the properties say how it ends.
SPECIFICATION CallSpec
CONSTANTS
    Fns = {f1, f2, f3}
    Capacity = 1
    Modes = {"value", "outcome", "success", "values", "until_error", "collect_errors"}
    Parallel = {FALSE, TRUE}
    N = 3
    SimpleModes = {"first", "all", "members"}
INVARIANTS
    CallTypeOK
    ClosedOnlyWhenFull
    ChannelAnswers
    SimpleAnswers
PROPERTIES
    CallEnds
CHECK_DEADLOCK FALSE
