\* A child that used up its retries and then submits valid content.
CONSTANTS
    Sid = {s1, s2}
    Null = Null
    SessionCap = 9
    Thread = {t1}
    Definition <- OneTryFlows
    Content = {"good", "bad"}
    ValidContent = {"good"}
    MaxStackDepth = 3
    ActiveCap = 5
    CountBound = 2
    MaxRestarts = 0
    Tools <- StartSubmitEnter
SPECIFICATION Spec
SYMMETRY SidSymmetry
PROPERTIES
    EscalatedNeverAdvances
CHECK_DEADLOCK FALSE
