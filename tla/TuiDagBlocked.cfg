SPECIFICATION Spec
CONSTANTS
    Ids <- ThreeIds
    DependsOn <- Lists
    MaxParallel = 2
INVARIANTS
    FailedDependenciesBlock
CHECK_DEADLOCK FALSE
