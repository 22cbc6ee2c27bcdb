\* Two ordered events with up to two receivers each, which answer late or never.
CONSTANTS
    a = a
    b = b
    c = c
    None = None
    Subscriber = {a, b}
    Priority <- PriorityABC
    Leaving = {}
    Freezable = {}
    Listener = {}
    MaxRecords = 2
    TIMEOUT_TICKS = 1
SPECIFICATION Spec
VIEW DispatchView
INVARIANT
    NoLostWakeup
PROPERTIES
    ImplementsBroadcast
\* The bounded publishers fall silent and subscribers may leave: the service is
\* then at rest.
CHECK_DEADLOCK FALSE
