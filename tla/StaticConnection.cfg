\* One extension, three events of two names, two connections.
CONSTANTS
    Key = {"k"}
    Action = {"x", "y"}
    Delay = 2
    MaxEvents = 3
    MaxConnections = 2
SPECIFICATION FairSpec
INVARIANTS
    DeliveredInOrder
PROPERTIES
    WaitingIsKept
    NotCutEarly
    EventuallyReleased
\* Events are bounded: then the helper is at rest.
CHECK_DEADLOCK FALSE
