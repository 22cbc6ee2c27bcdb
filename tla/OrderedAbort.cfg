\* An aborted event reaches the next receiver.
CONSTANTS
    a = a
    b = b
    c = c
    None = None
    Subscriber = {a, b}
    Priority <- PriorityABC
    Leaving = {}
    Freezable = {}
    Listener = {}
    MaxRecords = 2
    TIMEOUT_TICKS = 1
SPECIFICATION Spec
INVARIANT AbortStopsDelivery
\* The bounded publishers fall silent and subscribers may leave: the service is
\* then at rest.
CHECK_DEADLOCK FALSE
