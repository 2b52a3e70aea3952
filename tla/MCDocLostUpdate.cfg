\* Two threads submit to one session.
CONSTANTS
    Sid = {s1}
    Null = Null
    SessionCap = 9
    Thread = {t1, t2}
    Definition <- LineFlows
    Content = {"good"}
    ValidContent = {"good"}
    MaxStackDepth = 3
    ActiveCap = 5
    CountBound = 2
    MaxRestarts = 0
    Tools <- StartAndSubmit
SPECIFICATION Spec
PROPERTIES
    NoLostUpdates
CHECK_DEADLOCK FALSE
