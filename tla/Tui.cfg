SPECIFICATION Spec
CONSTANTS
    Agents = {a1, a2}
    MaxParallel = 1
    MaxCancels = 2
INVARIANTS
    TasksTracked
    StatusFollowsTask
    CapacityOneByOne
    NothingLeftRunning
PROPERTIES
    QuitExits
\* An app that has exited does nothing more.
CHECK_DEADLOCK FALSE
