\* Two requests, http and https, a clock that only advances, silent peers.
SPECIFICATION FairSpec
CONSTANTS
    Reqs = {r1, r2}
    Endpoints = {web, tls}
    TlsEndpoints = {tls}
    ConnIds = {k1, k2, k3, k4}
    None = None
    UnuseTimeout = 0
    MaxClock = 1
    ClockJumps = FALSE
PROPERTIES
    ImplementsLeasePool
    ReuseWithinTimeout
    RequestReturns
