\* No lock wait, so timestamps are exact: what the docstring of create_session
\* says of the eviction order, against what the query does.
CONSTANTS
    Sid = {s1, s2, s3}
    Null = Null
    SessionCap = 2
    Step = {"a"}
    MaxStackDepth = 1
    MaxClock = 2
    LockWait = 0
SPECIFICATION Spec
PROPERTY
    ActiveEvictedByUpdatedAt
CHECK_DEADLOCK FALSE
