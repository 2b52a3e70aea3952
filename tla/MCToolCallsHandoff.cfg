\* One thread, calls nested two deep, under fairness of the server: with a cap
\* of two, entering a sub-workflow may evict the session that enters it.
CONSTANTS
    Sid = {s1, s2, s3}
    Null = Null
    SessionCap = 2
    Thread = {t1}
    Definition <- NestedFlows
    Content = {"good", "bad"}
    ValidContent = {"good"}
    MaxStackDepth = 3
    ActiveCap = 1
    CountBound = 2
    MaxRestarts = 0
    Tools <- StartSubmitEnter
SPECIFICATION FairSpec
PROPERTIES
    ArtifactReachesParent
CHECK_DEADLOCK FALSE
