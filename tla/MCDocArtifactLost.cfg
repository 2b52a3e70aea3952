\* The skip loop of the parent fails after the child was deleted.
CONSTANTS
    Sid = {s1, s2}
    Null = Null
    SessionCap = 9
    Thread = {t1}
    Definition <- CascadingFlows
    Content = {"good", "bad"}
    ValidContent = {"good"}
    MaxStackDepth = 3
    ActiveCap = 5
    CountBound = 2
    MaxRestarts = 0
    Tools <- StartSubmitEnter
SPECIFICATION FairSpec
PROPERTIES
    ArtifactReachesParent
CHECK_DEADLOCK FALSE
