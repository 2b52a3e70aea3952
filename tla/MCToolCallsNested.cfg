\* One thread: every sequence of calls over sub-workflows nested two deep.
CONSTANTS
    Sid = {s1, s2, s3, s4}
    Null = Null
    SessionCap = 9
    Thread = {t1}
    Definition <- NestedFlows
    Content = {"good", "bad"}
    ValidContent = {"good"}
    MaxStackDepth = 2
    ActiveCap = 3
    CountBound = 2
    MaxRestarts = 0
    Tools <- CallTools
SPECIFICATION Spec
SYMMETRY SidSymmetry
INVARIANTS
    OrderEnforced
    NoStaleData
    CompletedFrameHandedOver
CHECK_DEADLOCK FALSE
