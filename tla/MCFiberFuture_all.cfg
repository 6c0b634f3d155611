\* Three calls of every shape: the handlers of two may come late in the third.
\* The fiber stops after its last call, so deadlock is not checked.
SPECIFICATION FairSpec
CONSTANTS
    MaxCalls = 3
    Shapes = {"plain", "packaged", "resolve", "h2"}
INVARIANTS
    TypeOK
    FailureConveyed
    OwnFrame
PROPERTIES
    SatisfiedOnce
    CallsReturn
CHECK_DEADLOCK FALSE
