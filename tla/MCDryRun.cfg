\* One dry run: an operator at the prompt, or any of some thousand scripts,
\* through a workflow that calls a second, which calls a third.
CONSTANTS
    Sid = {s1, s2, s3}
    Null = Null
    SessionCap = 9
    Thread = {t1}
    Definition <- InspectedFlows
    Content = {"good", "bad"}
    ValidContent = {"good"}
    MaxStackDepth = 3
    ActiveCap = 5
    CountBound = 3
    MaxRestarts = 0
    Tools <- DryRunTools
    Target = "main"
    Scripts <- EditedRuns
SPECIFICATION DryRunSpec
SYMMETRY SidSymmetry
INVARIANTS
    ReplMatchesServer
    ExitZeroMeansComplete
