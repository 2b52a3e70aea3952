\* An mcp step whose argument refers to a skipped step.
CONSTANTS
    Sid = {s1}
    Null = Null
    SessionCap = 9
    Thread = {t1}
    Definition <- ArgsFlows
    Content = {"good", "bad"}
    ValidContent = {"good"}
    MaxStackDepth = 3
    ActiveCap = 5
    CountBound = 2
    MaxRestarts = 0
    Tools <- StartAndSubmit
SPECIFICATION Spec
SYMMETRY SidSymmetry
INVARIANTS
    McpStepNeverRestedOn
CHECK_DEADLOCK FALSE
