\* OrderEnforced when the frame above is a digression.
CONSTANTS
    Sid = {s1, s2}
    Null = Null
    SessionCap = 9
    Thread = {t1}
    Definition <- CallFlows
    Content = {"good"}
    ValidContent = {"good"}
    MaxStackDepth = 3
    ActiveCap = 5
    CountBound = 2
    MaxRestarts = 0
    Tools <- AllTools
SPECIFICATION Spec
SYMMETRY SidSymmetry
INVARIANTS
    OrderEnforced
CHECK_DEADLOCK FALSE
