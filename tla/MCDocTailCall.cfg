\* A called workflow that ends in a call-step.
CONSTANTS
    Sid = {s1, s2, s3}
    Null = Null
    SessionCap = 9
    Thread = {t1}
    Definition <- TailCallFlows
    Content = {"good"}
    ValidContent = {"good"}
    MaxStackDepth = 3
    ActiveCap = 5
    CountBound = 2
    MaxRestarts = 0
    Tools <- StartSubmitEnter
SPECIFICATION Spec
SYMMETRY SidSymmetry
INVARIANTS
    CompletedFrameHandedOver
CHECK_DEADLOCK FALSE
