SPECIFICATION Spec
CONSTANTS
    Events = {e1, e2, e3}
    Clients = {c1, c2}
    Nobody = Nobody
    MaxJoins = 2
    MaxCrashes = 1
INVARIANTS
    StreamInOrder
    AnsweredIsStored
PROPERTIES
    QueuedIsHeard
\* All events were posted and the clients have left.
CHECK_DEADLOCK FALSE
