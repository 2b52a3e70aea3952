\* Revising a call-step whose child has a child of its own.
CONSTANTS
    Sid = {s1, s2, s3, s4}
    Null = Null
    SessionCap = 9
    Thread = {t1}
    Definition <- TailCallFlows
    Content = {"good"}
    ValidContent = {"good"}
    MaxStackDepth = 3
    ActiveCap = 5
    CountBound = 2
    MaxRestarts = 0
    Tools <- CallTools
SPECIFICATION Spec
SYMMETRY SidSymmetry
PROPERTIES
    FreshChildHasCleanSlate
CHECK_DEADLOCK FALSE
