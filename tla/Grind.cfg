SPECIFICATION Spec
CONSTANTS
    TaskDefs <- Tasks
    IsTerminal = TRUE
INVARIANTS
    CompletionEarned
    ThreeStrikes
    LimitMeansSilence
    AnswersInStep
PROPERTIES
    CheckpointNeedsKey
    ImplementsTask
    EndsOrWaits
\* A grind that returned or was cancelled does nothing more.
CHECK_DEADLOCK FALSE
