--------------------------- MODULE UnorderedEvents ---------------------------
(***************************************************************************)
(* Delivery of unordered common events, and of the events kept for frozen  *)
(* applications (CommonEventControlManager, CommonEventSubscriberManager). *)
(*                                                                         *)
(* An unordered event is a task of one of two serial queues: system events *)
(* go to unordered_immediate_common_event and the others to                *)
(* unordered_common_event.  The task visits the receivers that matched     *)
(* when the event was published.  A frozen one is not notified: the event  *)
(* is kept for it, in frozenEvents_ (by uid) and in frozenEventsMap_ (by   *)
(* pid), until Unfreeze, SetFreezeStatus or UnfreezeAll hands the kept     *)
(* events over through the immediate queue.                                *)
(*                                                                         *)
(* Four executors interleave: the service queue (publish and freeze        *)
(* requests), the two workers, and the binder thread that removes the      *)
(* subscribers of a process that died.  mutex_ of the subscriber manager   *)
(* makes each call on it atomic, but isFreeze is read without it, and an   *)
(* unfreeze request is several such calls.                                 *)
(*                                                                         *)
(* CompactSubscriberDataStructures replaces every subscriber record by a   *)
(* copy, once.  Events published before keep the old records; a record is  *)
(* <<subscriber, generation>>.                                             *)
(***************************************************************************)
EXTENDS Integers, Sequences, FiniteSets

CONSTANTS
    Subscriber,           \* subscriptions, known by their listeners
    Uid, Pid,             \* functions: the uid and the pid of each of them
    Leaving,              \* those that unsubscribe or whose process may die
    Invalid,              \* those whose listener gives no IEventReceive proxy
    Interface,            \* "uid" (Freeze/Unfreeze), "pid" (SetFreezeStatus)
                          \* and "all" (UnfreezeAll): the requests in use
    FREEZE_EVENT_TIMEOUT, \* how far back kept events go
    MaxEvents,            \* bound: events published in a behaviour
    MaxRequests,          \* bound: freeze and unfreeze requests
    MaxTime,              \* bound: the clock that stamps recordTime
    None

ASSUME SubscriberAssumption == IsFiniteSet(Subscriber) /\ None \notin Subscriber
ASSUME EnvironmentAssumption ==
    /\ Leaving \subseteq Subscriber /\ Invalid \subseteq Subscriber
    /\ DOMAIN Uid = Subscriber /\ DOMAIN Pid = Subscriber
    /\ Interface \subseteq {"uid", "pid", "all"}
ASSUME BoundAssumption ==
    /\ MaxEvents \in Nat /\ MaxRequests \in Nat /\ MaxTime \in Nat
    /\ FREEZE_EVENT_TIMEOUT \in Nat

Event == 1..MaxEvents
ASSUME NoneAssumption == None \notin Event

Worker == {"unordered", "immediate"}
Kept == [Subscriber -> Seq(Event)]     \* events kept for each subscriber

\* A task of a queue: NotifyUnorderedEvent(event), or (event = None) the
\* NotifyFreezeEvents tasks one flush has submitted in a row.
Task == [event : Event \cup {None}, kept : Kept]

PENDING == 0
DELIVERED == 1
SKIPPED == 2

VARIABLES
    \* the event records
    published,            \* number of events published
    receivers, recordTime, deliveryState,
    holds,                \* the generation of the subscriber records it holds
    unorderedEventQueue,  \* unorderedEventQueue_
    \* the queues and the task each is running
    queue,
    wpc, eventRecord, todo, vec,
    \* the service
    requests,             \* freeze requests so far
    flush,                \* the maps PublishFreezeCommonEvent has yet to empty
    \* the subscriber manager
    subscribed,           \* subscribers_
    generation,           \* 1 once hasCompacted_
    isFreeze,             \* the records <<c, g>> that are frozen
    frozenEvents,         \* frozenEvents_, by subscriber
    frozenEventsMap,      \* frozenEventsMap_, by subscriber
    \* the subscribers
    notified              \* how often NotifyEvent was called

eventVars == <<published, receivers, recordTime, holds>>
workerVars == <<wpc, eventRecord, todo, vec>>
serviceVars == <<requests, flush>>
managerVars == <<subscribed, generation, isFreeze, frozenEvents, frozenEventsMap>>
vars == <<eventVars, deliveryState, unorderedEventQueue, queue, workerVars, serviceVars,
          managerVars, notified>>

Nothing == [c \in Subscriber |-> <<>>]

Init ==
    /\ published = 0
    /\ receivers = [e \in Event |-> {}]
    /\ recordTime = [e \in Event |-> 0]
    /\ deliveryState = [e \in Event |-> [c \in Subscriber |-> PENDING]]
    /\ holds = [e \in Event |-> 0]
    /\ unorderedEventQueue = {}
    /\ queue = [w \in Worker |-> <<>>]
    /\ wpc = [w \in Worker |-> "idle"]
    /\ eventRecord = [w \in Worker |-> None]
    /\ todo = [w \in Worker |-> {}]
    /\ vec = [w \in Worker |-> None]
    /\ requests = 0
    /\ flush = <<>>
    /\ subscribed = Subscriber
    /\ generation = 0
    /\ isFreeze = {}
    /\ frozenEvents = Nothing
    /\ frozenEventsMap = Nothing
    /\ notified = [c \in Subscriber |-> [e \in Event |-> 0]]

-----------------------------------------------------------------------------
(***************************************************************************)
(* The service: one request at a time                                      *)
(***************************************************************************)

\* hasCompacted_ is still false.
MayCompact == generation = 0

\* ProcessUnorderedEvent.  Any subscribers may match; one of them alone is
\* also what PublishStickyCommonEvent asks for.  A SCREEN_OFF event compacts
\* the subscriber records first, copying the flags of those still subscribed.
ProcessUnorderedEvent(matched, isSystemEvent, time, screenOff) ==
    /\ flush = <<>>
    /\ published < MaxEvents
    /\ screenOff => isSystemEvent
    /\ IF screenOff /\ MayCompact
       THEN /\ generation' = generation + 1
            /\ isFreeze' = isFreeze \cup {<<c, generation + 1>> :
                                c \in {d \in subscribed : <<d, generation>> \in isFreeze}}
       ELSE UNCHANGED <<generation, isFreeze>>
    /\ LET e == published + 1
           w == IF isSystemEvent THEN "immediate" ELSE "unordered" IN
        /\ published' = e
        /\ receivers' = [receivers EXCEPT ![e] = matched]
        /\ recordTime' = [recordTime EXCEPT ![e] = time]
        /\ holds' = [holds EXCEPT ![e] = generation']
        /\ unorderedEventQueue' = unorderedEventQueue \cup {e}
        /\ queue' = [queue EXCEPT ![w] = Append(@, [event |-> e, kept |-> Nothing])]
    /\ UNCHANGED <<deliveryState, workerVars, serviceVars, subscribed, frozenEvents,
                   frozenEventsMap, notified>>

\* UpdateFreezeInfo and UpdateAllFreezeInfos: the records of the subscribers
\* cs that are still in subscribers_, and no others, get the flag.
UpdateFreezeInfo(cs, freezeState) ==
    LET records == (cs \cap subscribed) \X {generation} IN
    isFreeze' = IF freezeState THEN isFreeze \cup records ELSE isFreeze \ records

WithUid(uid) == {c \in Subscriber : Uid[c] = uid}
WithPid(pid) == {c \in Subscriber : Pid[c] = pid}

\* A freeze request: the flags are set, or they are cleared and the maps in
\* next are to be flushed.
Request(cs, freezeState, next) ==
    /\ flush = <<>>
    /\ requests < MaxRequests
    /\ requests' = requests + 1
    /\ UpdateFreezeInfo(cs, freezeState)
    /\ flush' = next
    /\ UNCHANGED <<eventVars, deliveryState, unorderedEventQueue, queue, workerVars, subscribed,
                   generation, frozenEvents, frozenEventsMap, notified>>

Freeze(uid) == "uid" \in Interface /\ Request(WithUid(uid), TRUE, <<>>)
Unfreeze(uid) == "uid" \in Interface /\ Request(WithUid(uid), FALSE, <<<<"uid", uid>>>>)

\* SetFreezeStatus.  Its list has one process, or all of them.
SetFreezeStatus(pids, freezeState) ==
    /\ "pid" \in Interface
    /\ Request(UNION {WithPid(pid) : pid \in {pids[i] : i \in DOMAIN pids}}, freezeState,
               IF freezeState THEN <<>> ELSE [i \in DOMAIN pids |-> <<"pid", pids[i]>>])

UnfreezeAll ==
    /\ "all" \in Interface
    /\ Request(Subscriber, FALSE, <<<<"all", "uid">>, <<"all", "pid">>>>)

\* What is found for the subscribers cs, and what stays.
Found(kept, cs) == [c \in Subscriber |-> IF c \in cs THEN kept[c] ELSE <<>>]

\* Mutant: GetFrozenEvents and GetFrozenEventsMapByPid only read.
KeepAll(kept, cs) == kept

\* RemoveFrozenEvents and RemoveFrozenEventsMapByPid.
RemoveFrozenEvents(kept, cs) == [c \in Subscriber |-> IF c \in cs THEN <<>> ELSE kept[c]]

\* PublishFrozenEventsInner: one task per subscriber and event.
PublishFrozenEventsInner(found) ==
    queue' = IF found = Nothing THEN queue
             ELSE [queue EXCEPT !["immediate"] = Append(@, [event |-> None, kept |-> found])]

FlushUnchanged == UNCHANGED <<eventVars, deliveryState, unorderedEventQueue, workerVars, requests,
                              subscribed, generation, isFreeze, notified>>

\* PublishFreezeCommonEvent(uid): GetFrozenEvents.
GetFrozenEvents ==
    /\ flush # <<>> /\ Head(flush)[1] = "uid"
    /\ flush' = Tail(flush)
    /\ LET cs == WithUid(Head(flush)[2]) IN
        /\ PublishFrozenEventsInner(Found(frozenEvents, cs))
        /\ frozenEvents' = RemoveFrozenEvents(frozenEvents, cs)
    /\ UNCHANGED frozenEventsMap
    /\ FlushUnchanged

\* PublishFreezeCommonEvent(pidList): GetFrozenEventsMapByPid, for one pid.
GetFrozenEventsMapByPid ==
    /\ flush # <<>> /\ Head(flush)[1] = "pid"
    /\ flush' = Tail(flush)
    /\ LET cs == WithPid(Head(flush)[2]) IN
        /\ PublishFrozenEventsInner(Found(frozenEventsMap, cs))
        /\ frozenEventsMap' = RemoveFrozenEvents(frozenEventsMap, cs)
    /\ UNCHANGED frozenEvents
    /\ FlushUnchanged

\* PublishAllFreezeCommonEvents: GetAllFrozenEvents, GetAllFrozenEventsMap.
\* Both return copies and remove nothing.
GetAllFrozenEvents ==
    /\ flush # <<>> /\ Head(flush)[1] = "all"
    /\ flush' = Tail(flush)
    /\ PublishFrozenEventsInner(IF Head(flush)[2] = "uid" THEN frozenEvents ELSE frozenEventsMap)
    /\ UNCHANGED <<frozenEvents, frozenEventsMap>>
    /\ FlushUnchanged

\* RemoveSubscriberRecordLocked, from an unsubscription or, at any time, from
\* SubscriberDeathRecipient: what is kept for the subscriber goes with it.
RemoveSubscriber(c) ==
    /\ c \in subscribed \cap Leaving
    /\ subscribed' = subscribed \ {c}
    /\ frozenEvents' = [frozenEvents EXCEPT ![c] = <<>>]
    /\ frozenEventsMap' = [frozenEventsMap EXCEPT ![c] = <<>>]
    /\ UNCHANGED <<eventVars, deliveryState, unorderedEventQueue, queue, workerVars, serviceVars,
                   generation, isFreeze, notified>>

-----------------------------------------------------------------------------
(***************************************************************************)
(* The workers                                                             *)
(***************************************************************************)

\* A queue starts on its next event.
StartNotify(w) ==
    /\ wpc[w] = "idle"
    /\ queue[w] # <<>> /\ Head(queue[w]).event # None
    /\ queue' = [queue EXCEPT ![w] = Tail(@)]
    /\ wpc' = [wpc EXCEPT ![w] = "next"]
    /\ eventRecord' = [eventRecord EXCEPT ![w] = Head(queue[w]).event]
    /\ todo' = [todo EXCEPT ![w] = receivers[Head(queue[w]).event]]
    /\ UNCHANGED <<eventVars, deliveryState, unorderedEventQueue, vec, serviceVars, managerVars,
                   notified>>

\* NotifySingleUnorderedSubscriber: the flag is read; a subscriber that is
\* not frozen is notified (a Freeze in between changes nothing, so reading
\* and notifying are one step), one without a proxy is passed over.  Whether
\* NotifyEvent succeeds changes nothing that is read again.
NotifySingleUnorderedSubscriber(w, c) ==
    /\ wpc[w] = "next"
    /\ c \in todo[w]
    /\ <<c, holds[eventRecord[w]]>> \notin isFreeze
    /\ deliveryState' = [deliveryState EXCEPT
            ![eventRecord[w]][c] = IF c \in Invalid THEN SKIPPED ELSE DELIVERED]
    /\ notified' = IF c \in Invalid THEN notified
                   ELSE [notified EXCEPT ![c][eventRecord[w]] = @ + 1]
    /\ todo' = [todo EXCEPT ![w] = @ \ {c}]
    /\ UNCHANGED <<eventVars, unorderedEventQueue, queue, wpc, eventRecord, vec, serviceVars,
                   managerVars>>

\* HandleFrozenUnorderedSubscriber, on a flag read true.
HandleFrozenUnorderedSubscriber(w, c) ==
    /\ wpc[w] = "next"
    /\ c \in todo[w]
    /\ <<c, holds[eventRecord[w]]>> \in isFreeze
    /\ deliveryState' = [deliveryState EXCEPT ![eventRecord[w]][c] = SKIPPED]
    /\ vec' = [vec EXCEPT ![w] = c]
    /\ wpc' = [wpc EXCEPT ![w] = "keep"]
    /\ UNCHANGED <<eventVars, unorderedEventQueue, queue, eventRecord, todo, serviceVars,
                   managerVars, notified>>

\* Mutant: an event exactly FREEZE_EVENT_TIMEOUT old is dropped.
AppendKeptSoon(kept, e) ==
    LET all == Append(kept, e) IN
    IF recordTime[e] - recordTime[Head(all)] >= FREEZE_EVENT_TIMEOUT THEN Tail(all) ELSE all

\* The vector of a subscriber with one more event: at most one old event is
\* dropped in exchange.
AppendKept(kept, e) ==
    LET all == Append(kept, e) IN
    IF recordTime[e] - recordTime[Head(all)] > FREEZE_EVENT_TIMEOUT THEN Tail(all) ELSE all

InsertFrozenEvents(w) ==
    /\ wpc[w] = "keep"
    /\ frozenEvents' = [frozenEvents EXCEPT ![vec[w]] = AppendKept(@, eventRecord[w])]
    /\ wpc' = [wpc EXCEPT ![w] = "keepMap"]
    /\ UNCHANGED <<eventVars, deliveryState, unorderedEventQueue, queue, eventRecord, todo, vec,
                   serviceVars, subscribed, generation, isFreeze, frozenEventsMap, notified>>

\* Mutant: the task ends at the first frozen receiver.
LeaveLoop(cs, c) == {}

\* The receivers that are left after c.
AfterReceiver(cs, c) == cs \ {c}

InsertFrozenEventsMap(w) ==
    /\ wpc[w] = "keepMap"
    /\ frozenEventsMap' = [frozenEventsMap EXCEPT ![vec[w]] = AppendKept(@, eventRecord[w])]
    /\ wpc' = [wpc EXCEPT ![w] = "next"]
    /\ todo' = [todo EXCEPT ![w] = AfterReceiver(@, vec[w])]
    /\ vec' = [vec EXCEPT ![w] = None]
    /\ UNCHANGED <<eventVars, deliveryState, unorderedEventQueue, queue, eventRecord, serviceVars,
                   subscribed, generation, isFreeze, frozenEvents, notified>>

\* The end of NotifyUnorderedEvent.
FinishNotify(w) ==
    /\ wpc[w] = "next"
    /\ todo[w] = {}
    /\ unorderedEventQueue' = unorderedEventQueue \ {eventRecord[w]}
    /\ wpc' = [wpc EXCEPT ![w] = "idle"]
    /\ eventRecord' = [eventRecord EXCEPT ![w] = None]
    /\ UNCHANGED <<eventVars, deliveryState, queue, todo, vec, serviceVars, managerVars, notified>>

\* NotifyFreezeEvents, without a look at isFreeze or subscribers_.  The tasks
\* of a flush run in the order of each subscriber's vector.
NotifyFreezeEvents(c) ==
    /\ wpc["immediate"] = "idle"
    /\ queue["immediate"] # <<>>
    /\ LET task == Head(queue["immediate"])
           rest == [task.kept EXCEPT ![c] = Tail(@)] IN
        /\ task.event = None
        /\ task.kept[c] # <<>>
        /\ notified' = IF c \in Invalid THEN notified
                       ELSE [notified EXCEPT ![c][Head(task.kept[c])] = @ + 1]
        /\ queue' = [queue EXCEPT !["immediate"] =
                        IF rest = Nothing THEN Tail(@) ELSE <<[task EXCEPT !.kept = rest]>> \o Tail(@)]
    /\ UNCHANGED <<eventVars, deliveryState, unorderedEventQueue, workerVars, serviceVars, managerVars>>

-----------------------------------------------------------------------------
Publish ==
    \E matched \in SUBSET subscribed, isSystemEvent, screenOff \in BOOLEAN, time \in 0..MaxTime :
        ProcessUnorderedEvent(matched, isSystemEvent, time, screenOff)

\* The orders in which a list of processes is walked: one, or all.
PidLists ==
    LET pids == {Pid[c] : c \in Subscriber} IN
    {<<pid>> : pid \in pids} \cup
    {s \in [1..Cardinality(pids) -> pids] : \A i, j \in DOMAIN s : i # j => s[i] # s[j]}

FreezeRequest ==
    \/ \E c \in Subscriber : Freeze(Uid[c])
    \/ \E c \in Subscriber : Unfreeze(Uid[c])
    \/ \E pids \in PidLists, freezeState \in BOOLEAN : SetFreezeStatus(pids, freezeState)
    \/ UnfreezeAll

FlushStep == GetFrozenEvents \/ GetFrozenEventsMapByPid \/ GetAllFrozenEvents

WorkerStep(w) ==
    \/ StartNotify(w)
    \/ \E c \in Subscriber : NotifySingleUnorderedSubscriber(w, c)
    \/ \E c \in Subscriber : HandleFrozenUnorderedSubscriber(w, c)
    \/ InsertFrozenEvents(w)
    \/ InsertFrozenEventsMap(w)
    \/ FinishNotify(w)

FreezeTask == \E c \in Subscriber : NotifyFreezeEvents(c)

Next ==
    \/ Publish
    \/ FreezeRequest
    \/ FlushStep
    \/ \E w \in Worker : WorkerStep(w)
    \/ FreezeTask
    \/ \E c \in Subscriber : RemoveSubscriber(c)

Spec == Init /\ [][Next]_vars

\* ffrt runs the tasks of the three queues.
FairSpec ==
    /\ Spec
    /\ WF_vars(FlushStep)
    /\ WF_vars(WorkerStep("unordered"))
    /\ WF_vars(WorkerStep("immediate") \/ FreezeTask)

-----------------------------------------------------------------------------
(***************************************************************************)
(* Properties                                                              *)
(***************************************************************************)

Elements(s) == {s[i] : i \in DOMAIN s}

\* e is on its way to c in a submitted flush.
HandedOver(c, e) ==
    \E i \in DOMAIN queue["immediate"] : e \in Elements(queue["immediate"][i].kept[c])

\* An event f, kept later for c, is too young to be kept together with e.
Outdated(c, e) ==
    \E f \in 1..published : /\ deliveryState[f][c] = SKIPPED
                            /\ recordTime[f] - recordTime[e] > FREEZE_EVENT_TIMEOUT

Keeping(w, c, e) == vec[w] = c /\ eventRecord[w] = e

\* Every variable has its type and a worker's locals are set when it uses them.
TypeOK ==
    /\ published \in 0..MaxEvents
    /\ receivers \in [Event -> SUBSET Subscriber]
    /\ recordTime \in [Event -> 0..MaxTime]
    /\ deliveryState \in [Event -> [Subscriber -> {PENDING, DELIVERED, SKIPPED}]]
    /\ holds \in [Event -> {0, 1}]
    /\ unorderedEventQueue \subseteq 1..published
    /\ queue \in [Worker -> Seq(Task)]
    /\ wpc \in [Worker -> {"idle", "next", "keep", "keepMap"}]
    /\ eventRecord \in [Worker -> Event \cup {None}]
    /\ todo \in [Worker -> SUBSET Subscriber]
    /\ vec \in [Worker -> Subscriber \cup {None}]
    /\ \A w \in Worker : /\ eventRecord[w] = None <=> wpc[w] = "idle"
                         /\ vec[w] = None <=> wpc[w] \in {"idle", "next"}
                         /\ vec[w] # None => vec[w] \in todo[w]
    /\ requests \in 0..MaxRequests
    /\ flush \in Seq({"uid", "pid"} \X ({Uid[c] : c \in Subscriber} \cup {Pid[c] : c \in Subscriber})
                     \cup {"all"} \X {"uid", "pid"})
    /\ subscribed \subseteq Subscriber
    /\ generation \in {0, 1}
    /\ isFreeze \subseteq Subscriber \X {0, 1}
    /\ frozenEvents \in Kept
    /\ frozenEventsMap \in Kept
    /\ notified \in [Subscriber -> [Event -> Nat]]

\* An event that was not delivered because its receiver was frozen is not
\* lost while the receiver lives, whatever freezes, flushes and deliveries of
\* other events come in between: it is about to be kept, kept in each of the
\* two maps, on its way in a flush, or has been handed over -- unless a later
\* kept event has outdated it.
NothingLost ==
    \A e \in 1..published : \A c \in subscribed \ Invalid :
        deliveryState[e][c] = SKIPPED /\ ~Outdated(c, e) =>
            \/ HandedOver(c, e) \/ notified[c][e] > 0
            \/ /\ \/ e \in Elements(frozenEvents[c])
                  \/ \E w \in Worker : Keeping(w, c, e) /\ wpc[w] = "keep"
               /\ \/ e \in Elements(frozenEventsMap[c])
                  \/ \E w \in Worker : Keeping(w, c, e)

\* The number of times e has been or is being handed to c.
Deliveries(c, e) ==
    notified[c][e] +
    Cardinality({i \in DOMAIN queue["immediate"] : e \in Elements(queue["immediate"][i].kept[c])})

\* A receiver gets an event once, directly or from a flush, however the flag,
\* the two maps and the two queues are raced -- or once from each of the two
\* maps, in a system that uses both kinds of request.  (UnfreezeAll hands
\* copies over, each time it is called.)
OncePerMap ==
    \A e \in 1..published : \A c \in Subscriber :
        IF deliveryState[e][c] # SKIPPED THEN Deliveries(c, e) <= 1
        ELSE "all" \notin Interface => Deliveries(c, e) <= Cardinality(Interface)

\* Every receiver of a published event is served: it is notified or passed
\* over for want of a proxy, the event is kept for it and, once a flush has
\* taken it, handed over -- or the receiver is gone or the event outdated.
Served(c, e) ==
    \/ c \notin subscribed \/ c \in Invalid
    \/ notified[c][e] > 0
    \/ e \in Elements(frozenEventsMap[c])
    \/ Outdated(c, e)
EventuallyServed ==
    \A e \in Event, c \in Subscriber : c \in receivers[e] ~> Served(c, e)

=============================================================================
