\* Three sessions, one after another, with a session cap of two.
CONSTANTS
    Session = {s1, s2, s3}
    Ip = {}
    Null = Null
    Cost = 2
    Burst <- SmallBurst
    Rate <- SmallRate
    IpStoreCap = 2
    IdleTtl = 2
    SweepEvery = 2
    DedupeWindow = 2
    DedupeTtl = 2
    DedupeCap = 5
    SessionCap = 2
    MaxClock = 0
    ClockSkew = 0
    MaxGrants = 9
SPECIFICATION Spec
INVARIANTS
    SessionBucketsBounded
CHECK_DEADLOCK FALSE
