CONSTANTS
    Null = Null
    N = 3
    File = {1, 2, 3}
    Documents <- DuplicateIds
    Registries <- SmallRegistries
SPECIFICATION Spec
INVARIANTS
    StepIdsUnique
CHECK_DEADLOCK FALSE
