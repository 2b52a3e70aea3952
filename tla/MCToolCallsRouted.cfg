\* One thread: branches, loops, guardrails, preconditions, artifacts and mcp
\* steps; the second session evicts the first.
CONSTANTS
    Sid = {s1, s2}
    Null = Null
    SessionCap = 1
    Thread = {t1}
    Definition <- RoutedFlows
    Content = {"good", "bad"}
    ValidContent = {"good"}
    MaxStackDepth = 3
    ActiveCap = 5
    CountBound = 4
    MaxRestarts = 0
    Tools <- StartAndSubmit
SPECIFICATION Spec
SYMMETRY SidSymmetry
INVARIANTS
    RestsOnRunnable
    RevisitGuardStopsLoops
PROPERTIES
    EscalatedNeverAdvances
CHECK_DEADLOCK FALSE
