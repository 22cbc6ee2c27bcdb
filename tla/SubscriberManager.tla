-------------------------- MODULE SubscriberManager --------------------------
(***************************************************************************)
(* The subscriber tables of CommonEventSubscriberManager.                  *)
(*                                                                         *)
(* subscribers_ holds one record per listener, eventSubscribers_ finds the *)
(* records of an event and subscriberCounts_ counts the records of a       *)
(* process.  They are changed by two threads: the service queue CesSrvMain *)
(* (subscribe, unsubscribe, and the compaction at a SCREEN_OFF event) and  *)
(* the binder thread that runs SubscriberDeathRecipient::OnRemoteDied when *)
(* the process of a listener has died.  Every table access holds mutex_,   *)
(* but a subscription is several of them: the lookup, AddDeathRecipient    *)
(* and the insertion, or the lookup and the update of the record found.    *)
(*                                                                         *)
(* A request may run long after it was sent, when its process is dead.     *)
(***************************************************************************)
EXTENDS Integers, FiniteSets

CONSTANTS
    Listener,          \* listeners of subscribers, one per subscriber object
    Process, Pid,      \* processes, and the process of each listener
    Event,             \* event names
    MaxSubscriberNum,  \* hiviewdfx.ces.subscriber_limit
    MaxRecords,        \* bound: subscriber records created in a behaviour
    None

ASSUME ListenerAssumption == None \notin Listener
ASSUME ProcessAssumption == IsFiniteSet(Process) /\ Pid \in [Listener -> Process]
ASSUME BoundAssumption == MaxRecords \in Nat /\ MaxSubscriberNum \in Nat \ {0}

Record == 1..MaxRecords
ASSUME NoneAssumption == None \notin Record

VARIABLES
    \* the records
    created,              \* number of records inserted so far
    commonEventListener,  \* the listener of a record
    events,               \* the events of its subscribe info
    \* the tables
    subscribers, eventSubscribers, subscriberCounts, hasCompacted,
    \* the service's task: where it is, its listener, events and record
    spc, caller, wanted, record,
    \* binder
    alive,                \* processes
    deathRecipient,       \* listeners death_ is registered with
    obituary,             \* listeners whose death has been reported
    dying                 \* those of them OnRemoteDied is running for

recordVars == <<created, commonEventListener, events>>
tableVars == <<subscribers, eventSubscribers, subscriberCounts, hasCompacted>>
serviceVars == <<spc, caller, wanted, record>>
binderVars == <<alive, deathRecipient, obituary, dying>>
vars == <<recordVars, tableVars, serviceVars, binderVars>>

Init ==
    /\ created = 0
    /\ commonEventListener = [r \in Record |-> None]
    /\ events = [r \in Record |-> {}]
    /\ subscribers = {}
    /\ eventSubscribers = [ev \in Event |-> {}]
    /\ subscriberCounts = [p \in Process |-> 0]
    /\ hasCompacted = FALSE
    /\ spc = "idle"
    /\ caller = None
    /\ wanted = {}
    /\ record = None
    /\ alive = Process
    /\ deathRecipient = {}
    /\ obituary = {}
    /\ dying = {}

\* The records of subscribers_ that have the listener l.
RecordsOf(l) == {r \in subscribers : commonEventListener[r] = l}

-----------------------------------------------------------------------------
(***************************************************************************)
(* The service                                                             *)
(***************************************************************************)

\* A listener without a record is to be watched and inserted.
AfterLookup(r) == IF r = None THEN "watch" ELSE "update"

\* InsertSubscriber up to GetSubscriberRecord.
InsertSubscriber(l, evs) ==
    /\ spc = "idle"
    /\ evs # {}
    /\ caller' = l
    /\ wanted' = evs
    /\ record' = IF RecordsOf(l) = {} THEN None ELSE CHOOSE r \in RecordsOf(l) : TRUE
    /\ spc' = AfterLookup(record')
    /\ UNCHANGED <<recordVars, tableVars, binderVars>>

\* AddDeathRecipient.  It fails on a proxy that has had its obituary; on one
\* of a dead process that has not, binder reports the death right away.
Watched(l) == deathRecipient' = deathRecipient \cup ({l} \ obituary)

\* Mutant: the record is inserted without a death recipient.
SkipDeathRecipient ==
    /\ spc = "watch"
    /\ spc' = "insert"
    /\ UNCHANGED <<recordVars, tableVars, caller, wanted, record, alive, obituary, dying, deathRecipient>>

AddDeathRecipient ==
    /\ spc = "watch"
    /\ spc' = "insert"
    /\ Watched(caller)
    /\ UNCHANGED <<recordVars, tableVars, caller, wanted, record, alive, obituary, dying>>

ServiceDone ==
    /\ spc' = "idle"
    /\ caller' = None
    /\ wanted' = {}
    /\ record' = None

\* Mutant: the sort order is ignored.
AnyProcess == Process

\* GetTopSubscriberCounts(1): one of the processes with the most subscribers.
TopSubscriberCounts ==
    {p \in Process : \A q \in Process : subscriberCounts[q] <= subscriberCounts[p]}

\* InsertSubscriberRecordLocked below the limit, or past it: the test is for
\* equality.
InsertSubscriberRecordLocked ==
    /\ subscribers' = subscribers \cup {created + 1}
    /\ eventSubscribers' = [ev \in Event |->
            IF ev \in wanted THEN eventSubscribers[ev] \cup {created + 1} ELSE eventSubscribers[ev]]
    /\ subscriberCounts' = [subscriberCounts EXCEPT ![Pid[caller]] = @ + 1]
    /\ created' = created + 1
    /\ commonEventListener' = [commonEventListener EXCEPT ![created + 1] = caller]
    /\ events' = [events EXCEPT ![created + 1] = wanted]
    /\ UNCHANGED hasCompacted

InsertRecord ==
    /\ spc = "insert"
    /\ created < MaxRecords
    /\ Cardinality(subscribers) # MaxSubscriberNum
    /\ InsertSubscriberRecordLocked
    /\ ServiceDone
    /\ UNCHANGED binderVars

\* At the limit a subscriber of the process that has the most is turned away.
RejectRecord ==
    /\ spc = "insert"
    /\ Cardinality(subscribers) = MaxSubscriberNum
    /\ Pid[caller] \in TopSubscriberCounts
    /\ ServiceDone
    /\ UNCHANGED <<recordVars, tableVars, binderVars>>

\* Any other is inserted, and the process that has the most is killed (kill
\* may fail).
InsertAndKill(killedPid, killResult) ==
    /\ spc = "insert"
    /\ created < MaxRecords
    /\ Cardinality(subscribers) = MaxSubscriberNum
    /\ killedPid \in TopSubscriberCounts \ {Pid[caller]}
    /\ alive' = IF killResult THEN alive \ {killedPid} ELSE alive
    /\ InsertSubscriberRecordLocked
    /\ ServiceDone
    /\ UNCHANGED <<deathRecipient, obituary, dying>>

\* Mutant: the record stays under the events it gave up.
KeepOldEvents(ev) ==
    IF ev \in wanted \ events[record] THEN eventSubscribers[ev] \cup {record} ELSE eventSubscribers[ev]

\* RemoveEventSubscribers and InsertEventSubscribers on the two differences.
UpdateEvent(ev) ==
    IF ev \in events[record] \ wanted THEN eventSubscribers[ev] \ {record}
    ELSE IF ev \in wanted \ events[record] THEN eventSubscribers[ev] \cup {record}
    ELSE eventSubscribers[ev]

\* Mutant: the subscription is inserted anew beside the record.
UpdateByInsertion ==
    /\ spc = "update"
    /\ created < MaxRecords
    /\ InsertSubscriberRecordLocked
    /\ ServiceDone
    /\ UNCHANGED binderVars

\* UpdateSubscriberRecordLocked, on the record that was found -- which may
\* have been removed since.
UpdateSubscriberRecordLocked ==
    /\ spc = "update"
    /\ eventSubscribers' = [ev \in Event |-> UpdateEvent(ev)]
    /\ events' = [events EXCEPT ![record] = wanted]
    /\ ServiceDone
    /\ UNCHANGED <<created, commonEventListener, subscribers, subscriberCounts, hasCompacted, binderVars>>

\* Mutant: the count of the process is not taken back.
CountKept(p, n) == subscriberCounts

\* The count of p without n records.
CountRemoved(p, n) == [subscriberCounts EXCEPT ![p] = @ - n]

\* Mutant: the entry of subscribers_ is not erased.
SubscribersKept(l) == subscribers

SubscribersRemoved(l) == subscribers \ RecordsOf(l)

\* Mutant: the index keeps the record.
IndexKept(l, ev) == eventSubscribers[ev]

\* Under the events of the record all records of l are erased.
IndexRemoved(l, ev) ==
    IF \E r \in RecordsOf(l) : ev \in events[r]
    THEN {r \in eventSubscribers[ev] : commonEventListener[r] # l}
    ELSE eventSubscribers[ev]

\* RemoveSubscriberRecordLocked once it has mutex_: the record of l leaves
\* subscribers_, its process's count and the index.
RemoveSubscriberRecordLocked(l) ==
    /\ subscribers' = SubscribersRemoved(l)
    /\ subscriberCounts' = CountRemoved(Pid[l], Cardinality(RecordsOf(l)))
    /\ eventSubscribers' = [ev \in Event |-> IndexRemoved(l, ev)]
    /\ UNCHANGED <<recordVars, hasCompacted>>

\* UnsubscribeCommonEvent: RemoveDeathRecipient, then the removal.
UnsubscribeCommonEvent(l) ==
    /\ spc = "idle"
    /\ spc' = "remove"
    /\ caller' = l
    /\ deathRecipient' = deathRecipient \ {l}
    /\ UNCHANGED <<recordVars, tableVars, wanted, record, alive, obituary, dying>>

RemoveSubscriber ==
    /\ spc = "remove"
    /\ RemoveSubscriberRecordLocked(caller)
    /\ ServiceDone
    /\ UNCHANGED binderVars

\* CompactSubscriberDataStructures: the index and the counts are built anew
\* from subscribers_.  The copies of the records stand for the records.
CompactSubscriberDataStructures ==
    /\ spc = "idle"
    /\ ~hasCompacted
    /\ hasCompacted' = TRUE
    /\ eventSubscribers' = [ev \in Event |-> {r \in subscribers : ev \in events[r]}]
    /\ subscriberCounts' = [p \in Process |->
            Cardinality({r \in subscribers : Pid[commonEventListener[r]] = p})]
    /\ UNCHANGED <<recordVars, subscribers, serviceVars, binderVars>>

-----------------------------------------------------------------------------
(***************************************************************************)
(* Processes and the binder thread                                         *)
(***************************************************************************)

Die(p) ==
    /\ p \in alive
    /\ alive' = alive \ {p}
    /\ UNCHANGED <<recordVars, tableVars, serviceVars, deathRecipient, obituary, dying>>

\* Binder reports the death of a listener to the recipient registered with it.
SendObituary(l) ==
    /\ Pid[l] \notin alive
    /\ l \in deathRecipient \ obituary
    /\ obituary' = obituary \cup {l}
    /\ deathRecipient' = deathRecipient \ {l}
    /\ dying' = dying \cup {l}
    /\ UNCHANGED <<recordVars, tableVars, serviceVars, alive>>

\* SubscriberDeathRecipient::OnRemoteDied: RemoveSubscriber.
OnRemoteDied(l) ==
    /\ l \in dying
    /\ dying' = dying \ {l}
    /\ RemoveSubscriberRecordLocked(l)
    /\ UNCHANGED <<serviceVars, alive, deathRecipient, obituary>>

-----------------------------------------------------------------------------
\* The requests that start a task, and the steps of one that has started.
ServiceRequest ==
    \/ \E l \in Listener, evs \in SUBSET Event : InsertSubscriber(l, evs)
    \/ \E l \in Listener : UnsubscribeCommonEvent(l)
    \/ CompactSubscriberDataStructures

ServiceStep ==
    \/ AddDeathRecipient
    \/ InsertRecord
    \/ RejectRecord
    \/ \E killedPid \in Process, killResult \in BOOLEAN : InsertAndKill(killedPid, killResult)
    \/ UpdateSubscriberRecordLocked
    \/ RemoveSubscriber

BinderStep == \E l \in Listener : SendObituary(l) \/ OnRemoteDied(l)

Next ==
    \/ ServiceRequest
    \/ ServiceStep
    \/ BinderStep
    \/ \E p \in Process : Die(p)

Spec == Init /\ [][Next]_vars

\* The service queue and the binder thread run what has been submitted.
FairSpec ==
    /\ Spec
    /\ WF_vars(ServiceStep)
    /\ \A l \in Listener : WF_vars(SendObituary(l)) /\ WF_vars(OnRemoteDied(l))

-----------------------------------------------------------------------------
(***************************************************************************)
(* Properties                                                              *)
(***************************************************************************)

\* Every variable has its type, and the service has a record when it updates.
TypeOK ==
    /\ created \in 0..MaxRecords
    /\ commonEventListener \in [Record -> Listener \cup {None}]
    /\ events \in [Record -> SUBSET Event]
    /\ subscribers \in SUBSET Record
    /\ eventSubscribers \in [Event -> SUBSET Record]
    /\ subscriberCounts \in [Process -> Int]
    /\ hasCompacted \in BOOLEAN
    /\ spc \in {"idle", "watch", "insert", "update", "remove"}
    /\ caller \in Listener \cup {None}
    /\ wanted \in SUBSET Event
    /\ record \in Record \cup {None}
    /\ spc = "idle" <=> caller = None
    /\ spc = "update" <=> record # None
    /\ alive \in SUBSET Process
    /\ deathRecipient \in SUBSET Listener
    /\ obituary \in SUBSET Listener
    /\ dying \in SUBSET obituary

\* A listener has at most one record in subscribers_, although the lookup and
\* the insertion are separate and another thread removes records in between.
OneRecordPerListener ==
    \A r, s \in subscribers : commonEventListener[r] = commonEventListener[s] => r = s

\* A record is found under exactly the events of its current subscribe info,
\* through updates, removals of others and the compaction.
IndexComplete ==
    \A r \in subscribers : \A ev \in Event : r \in eventSubscribers[ev] <=> ev \in events[r]

\* What the index still holds although it has left subscribers_ is a record
\* of a listener whose process has died: after an unsubscription nothing is
\* delivered any more.
OrphansAreDead ==
    \A ev \in Event : \A r \in eventSubscribers[ev] \ subscribers :
        commonEventListener[r] \in obituary

Owned(p) == {r \in subscribers : Pid[commonEventListener[r]] = p}

\* subscriberCounts_ counts what subscribers_ holds.
CountsMatch == \A p \in Process : subscriberCounts[p] = Cardinality(Owned(p))

\* The process that is killed at the limit is one that has the most
\* subscribers, and it has some.
KillsLargest ==
    [][spc = "insert" => \A p \in alive \ alive' :
            spc' = "idle" =>
                /\ Owned(p) # {}
                /\ \A q \in Process : Cardinality(Owned(q)) <= Cardinality(Owned(p))]_vars

\* A subscriber whose process lives is watched, so that its death will be
\* noticed, unless it is just unsubscribing.
LiveAreWatched ==
    \A r \in subscribers : LET l == commonEventListener[r] IN
        Pid[l] \in alive => l \in deathRecipient \/ (spc = "remove" /\ caller = l)

\* A subscriber that is watched when its process dies is removed.
WatchedAreForgotten ==
    \A r \in Record :
        (/\ r \in subscribers
         /\ commonEventListener[r] \in deathRecipient
         /\ Pid[commonEventListener[r]] \notin alive) ~> r \notin subscribers

(***************************************************************************)
(* The inductive invariant behind them                                     *)
(***************************************************************************)

\* Nothing refers to a record that has not been created, and a created one
\* has a listener.
CreatedOnly ==
    /\ subscribers \subseteq 1..created
    /\ \A ev \in Event : eventSubscribers[ev] \subseteq 1..created
    /\ record # None => record \in 1..created
    /\ \A r \in 1..created : commonEventListener[r] \in Listener

\* What the lookup of the service's task has found still means something when
\* it is used: no record of the listener has appeared, and the one found is
\* gone only if the listener is dead.
LookupHolds ==
    /\ spc \in {"watch", "insert"} => RecordsOf(caller) = {}
    /\ spc = "update" => /\ commonEventListener[record] = caller
                         /\ record \in subscribers \/ caller \in obituary

\* An obituary is that of a dead process; a listener to be inserted is watched.
WatchIsKept ==
    /\ \A l \in obituary : Pid[l] \notin alive
    /\ spc = "insert" /\ Pid[caller] \in alive => caller \in deathRecipient

IndInv ==
    /\ TypeOK
    /\ CreatedOnly
    /\ LookupHolds
    /\ WatchIsKept
    /\ OneRecordPerListener
    /\ IndexComplete
    /\ OrphansAreDead
    /\ CountsMatch
    /\ LiveAreWatched

=============================================================================
