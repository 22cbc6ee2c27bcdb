\* One event under fair queues; one subscription has no proxy.
CONSTANTS
    a = a
    b = b
    None = None
    Subscriber = {a, b}
    Uid <- OneUid
    Pid <- TwoPids
    Leaving = {a}
    Invalid = {b}
    Interface = {"uid", "all"}
    FREEZE_EVENT_TIMEOUT = 1
    MaxEvents = 1
    MaxRequests = 3
    MaxTime = 0
SPECIFICATION FairSpec
PROPERTY EventuallyServed
\* Events and requests are bounded: then the service is at rest.
CHECK_DEADLOCK FALSE
