\* A submission in flight when the digression is pushed.
CONSTANTS
    Sid = {s1, s2}
    Null = Null
    SessionCap = 9
    Thread = {t1, t2}
    Definition <- LineFlows
    Content = {"good"}
    ValidContent = {"good"}
    MaxStackDepth = 3
    ActiveCap = 5
    CountBound = 2
    MaxRestarts = 0
    Tools <- StartSubmitPush
SPECIFICATION Spec
SYMMETRY SidSymmetry
INVARIANTS
    ResumesAtPausedStep
CHECK_DEADLOCK FALSE
