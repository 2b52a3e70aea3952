\* Every call graph over three workflows and an unknown target, every pair of
\* preconditions, and a directory for each kind of defect.
CONSTANTS
    Null = Null
    N = 3
    File = {1, 2, 3}
    Documents <- SmallDocuments
    Registries <- AllRegistries
SPECIFICATION Spec
INVARIANTS
    CallGraphVerdict
    SearchSound
    SkipLoopAgrees
PROPERTIES
    LoaderDecides
CHECK_DEADLOCK FALSE
