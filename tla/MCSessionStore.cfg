\* Three ids and a cap of two: the third creation evicts, also the session it
\* stands on; a digression meets the depth cap of one.  Time passes, and a
\* timestamp may be one tick older than the transaction that stores it.
CONSTANTS
    Sid = {s1, s2, s3}
    Null = Null
    SessionCap = 2
    Step = {"a"}
    MaxStackDepth = 1
    MaxClock = 2
    LockWait = 1
SPECIFICATION Spec
SYMMETRY SidSymmetry
INVARIANTS
    TypeOK
    CapRespected
    FramesHaveSessions
    RootsUnframed
    ParentColumnAgrees
PROPERTIES
    DigressionsWithinCap
    CompletedEvictedFirst
CHECK_DEADLOCK FALSE
