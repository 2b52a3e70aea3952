\* Nested calls against the active-session cap.
CONSTANTS
    Sid = {s1, s2, s3, s4, s5, s6}
    Null = Null
    SessionCap = 9
    Thread = {t1}
    Definition <- ChainFlows
    Content = {"good"}
    ValidContent = {"good"}
    MaxStackDepth = 3
    ActiveCap = 5
    CountBound = 2
    MaxRestarts = 0
    Tools <- StartSubmitEnter
SPECIFICATION Spec
SYMMETRY SidSymmetry
INVARIANTS
    ActiveSessionsCapped
CHECK_DEADLOCK FALSE
