\* One subscription with two events, both kinds of freeze requests.
CONSTANTS
    a = a
    b = b
    None = None
    Subscriber = {a}
    Uid <- OneUid
    Pid <- TwoPids
    Leaving = {a}
    Invalid = {}
    Interface = {"uid", "pid"}
    FREEZE_EVENT_TIMEOUT = 1
    MaxEvents = 2
    MaxRequests = 4
    MaxTime = 2
SPECIFICATION Spec
INVARIANTS
    NothingLost
    OncePerMap
\* Events and requests are bounded: then the service is at rest.
CHECK_DEADLOCK FALSE
