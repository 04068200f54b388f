SPECIFICATION Spec
CONSTANTS
    h1 = h1
    h2 = h2
    Handlers = {h1, h2}
    Publishers = {c1, c2}
    Types <- RunEvents
    NoEvent = NoEvent
    FirstSubscribers <- Subscriptions
    a = a
    b = b
    Agents = {a, b}
    FirstAgents <- Registries
    Gone = Gone
    MaxEntries = 3
    MaxChanges = 2
INVARIANTS
    HeardOnce
    MetricsMatchAnswers
    RunsAllOnce
PROPERTIES
    WhoStaysHears
SYMMETRY CallerSymmetry
\* Calls are made once, and changes are bounded.
CHECK_DEADLOCK FALSE
