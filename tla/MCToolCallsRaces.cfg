\* Two threads under fairness of the server: starts, submissions, called
\* sessions and the mcp step behind them meet deletions by the other thread and,
\* with a cap of two, evictions by its creations.
CONSTANTS
    Sid = {s1, s2, s3}
    Null = Null
    SessionCap = 2
    Thread = {t1, t2}
    Definition <- LoopingFlows
    Content = {"good"}
    ValidContent = {"good"}
    MaxStackDepth = 3
    ActiveCap = 1
    CountBound = 2
    MaxRestarts = 0
    Tools <- StartSubmitEnterDelete
SPECIFICATION FairSpec
PROPERTIES
    ImplementsStore
    EveryCallReturns
CHECK_DEADLOCK FALSE
