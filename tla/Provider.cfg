\* Four tasks of at most three iterations and four turns, two tool calls in an
\* answer, tools that create and remove the one required output.
SPECIFICATION Spec
CONSTANTS
    o1 = o1
    TaskDefs <- Tasks
    ToolNames = {"Write", "Bash"}
    Outputs = {o1}
    Unlimited = Unlimited
    MaxCalls = 2
INVARIANTS
    DialogueWellFormed
    CompleteEarned
PROPERTIES
    ImplementsTask
\* A run that returned, raised or was cancelled does nothing more.
CHECK_DEADLOCK FALSE
