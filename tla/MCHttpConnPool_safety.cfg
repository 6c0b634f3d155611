\* Three requests, four connections, one https endpoint; the clock may go back.
SPECIFICATION Spec
CONSTANTS
    Reqs = {r1, r2, r3}
    Endpoints = {tls}
    TlsEndpoints = {tls}
    ConnIds = {k1, k2, k3, k4}
    None = None
    UnuseTimeout = 1
    MaxClock = 2
    ClockJumps = TRUE
SYMMETRY PoolSymmetry
INVARIANTS
    TypeOK
    InUseMeansHeld
    PoolBound
