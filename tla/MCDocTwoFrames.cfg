\* Two threads push above one session.
CONSTANTS
    Sid = {s1, s2, s3}
    Null = Null
    SessionCap = 9
    Thread = {t1, t2}
    Definition <- LineFlows
    Content = {"good"}
    ValidContent = {"good"}
    MaxStackDepth = 3
    ActiveCap = 5
    CountBound = 2
    MaxRestarts = 0
    Tools <- StartSubmitPush
SPECIFICATION Spec
SYMMETRY SidSymmetry
INVARIANTS
    OneFramePerSlot
CHECK_DEADLOCK FALSE
