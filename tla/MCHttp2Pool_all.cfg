\* Two requests, sessions that fail at any time and peers that may stay silent.
SPECIFICATION FairSpec
CONSTANTS
    Reqs = {r1, r2}
    ConnIds = {k1, k2, k3}
    None = None
    UnuseTimeout = 0
    MaxClock = 1
INVARIANTS
    TypeOK
    ListSound
PROPERTIES
    EntersOnce
    RequestReturns
    DeadDropped
