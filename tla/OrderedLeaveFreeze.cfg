\* One event; its receivers may never answer or unsubscribe at any point, the first
\* may be frozen; it is also the listener of the publisher.
CONSTANTS
    a = a
    b = b
    c = c
    None = None
    Subscriber = {a, b}
    Priority <- PriorityABC
    Leaving = {a, b}
    Freezable = {a}
    Listener = {a}
    MaxRecords = 1
    TIMEOUT_TICKS = 1
SPECIFICATION FairSpec
INVARIANTS
    TypeOK
    NoReceiverSkipped
PROPERTIES
    NoEarlyTimeout
    NeverCutShort
    EventuallyAnswered
\* The bounded publishers fall silent and subscribers may leave: the service is
\* then at rest.
CHECK_DEADLOCK FALSE
