\* One thread, every tool, calls nested two deep: digressions meet the depth cap
\* of two and the active cap of three, and the process is restarted once, at any
\* point of a call, with the other version of a workflow or without it.
CONSTANTS
    Sid = {s1, s2, s3}
    Null = Null
    SessionCap = 9
    Thread = {t1}
    Definition <- RedeployedFlows
    Content = {"good"}
    ValidContent = {"good"}
    MaxStackDepth = 2
    ActiveCap = 3
    CountBound = 2
    MaxRestarts = 1
    Tools <- AllTools
SPECIFICATION Spec
SYMMETRY SidSymmetry
INVARIANTS
    TypeOK
    OneFramePerSlot
    FramedOuterParked
PROPERTIES
    PausedNeverAdvances
    WorkflowChangedTerminal
CHECK_DEADLOCK FALSE
