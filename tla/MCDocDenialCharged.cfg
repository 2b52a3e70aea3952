\* One address that starts workflows and lists them.
CONSTANTS
    Session = {}
    Ip = {i1}
    Null = Null
    Cost = 2
    Burst <- SmallBurst
    Rate <- SmallRate
    IpStoreCap = 2
    IdleTtl = 2
    SweepEvery = 2
    DedupeWindow = 2
    DedupeTtl = 2
    DedupeCap = 5
    SessionCap = 2
    MaxClock = 0
    ClockSkew = 0
    MaxGrants = 9
SPECIFICATION Spec
PROPERTIES
    DenialChargesNothing
CHECK_DEADLOCK FALSE
