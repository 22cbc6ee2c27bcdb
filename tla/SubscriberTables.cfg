\* A process with two listeners and one with one, two events and a limit of one subscriber.
CONSTANTS
    l1 = l1
    l2 = l2
    l3 = l3
    p = p
    q = q
    e1 = e1
    e2 = e2
    None = None
    Listener = {l1, l2, l3}
    Process = {p, q}
    Pid <- PidOf
    Event = {e1, e2}
    MaxSubscriberNum = 1
    MaxRecords = 2
SPECIFICATION FairSpec
INVARIANTS
    OneRecordPerListener
    IndexComplete
    OrphansAreDead
    CountsMatch
    LiveAreWatched
PROPERTIES
    KillsLargest
    WatchedAreForgotten
\* Records are bounded.
CHECK_DEADLOCK FALSE
