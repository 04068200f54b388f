SPECIFICATION Spec
CONSTANTS
    Ids <- ThreeIds
    DependsOn <- Lists
    MaxParallel = 2
INVARIANTS
    GraphsAreOrdered
    RunsAfterDependencies
    ReturnsTheWhole
PROPERTIES
    Ends
\* execute_dag returned, or nodes wait for events that a cancelled one never sets.
CHECK_DEADLOCK FALSE
