\* A called workflow that ends in a call-step, in a dry run.
CONSTANTS
    Sid = {s1, s2, s3}
    Null = Null
    SessionCap = 9
    Thread = {t1}
    Definition <- TailCallFlows
    Content = {"good", "bad"}
    ValidContent = {"good"}
    MaxStackDepth = 3
    ActiveCap = 5
    CountBound = 3
    MaxRestarts = 0
    Tools <- DryRunTools
    Target = "main"
    Scripts <- OperatorOnly
SPECIFICATION DryRunSpec
SYMMETRY SidSymmetry
INVARIANTS
    CompletionIsOfTheRoot
