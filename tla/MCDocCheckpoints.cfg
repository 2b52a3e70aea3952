\* Checkpoints across a revision.
CONSTANTS
    Sid = {s1}
    Null = Null
    SessionCap = 9
    Thread = {t1}
    Definition <- CheckpointFlows
    Content = {"good"}
    ValidContent = {"good"}
    MaxStackDepth = 3
    ActiveCap = 5
    CountBound = 2
    MaxRestarts = 0
    Tools <- StartSubmitRevise
SPECIFICATION Spec
SYMMETRY SidSymmetry
INVARIANTS
    NoStaleCheckpoints
CHECK_DEADLOCK FALSE
