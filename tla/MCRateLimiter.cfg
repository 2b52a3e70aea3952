\* A session and two addresses, every reading exact: the idle sweep runs, and
\* the second address does not fit into the stores any more.
CONSTANTS
    Session = {s1}
    Ip = {i1, i2}
    Null = Null
    Cost = 2
    Burst <- SmallBurst
    Rate <- SmallRate
    IpStoreCap = 1
    IdleTtl = 2
    SweepEvery = 2
    DedupeWindow = 2
    DedupeTtl = 2
    DedupeCap = 2
    SessionCap = 2
    MaxClock = 3
    ClockSkew = 0
    MaxGrants = 2
SPECIFICATION Spec
SYMMETRY KeySymmetry
INVARIANTS
    StoresBounded
    SessionRateBounded
    IpRateBounded
PROPERTIES
    RetryAfterSuffices
    LogLinesSpaced
CHECK_DEADLOCK FALSE
