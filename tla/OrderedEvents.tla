---------------------------- MODULE OrderedEvents ----------------------------
(***************************************************************************)
(* Ordered dispatch of CommonEventControlManager.                          *)
(*                                                                         *)
(* An ordered common event is handed to its receivers one after the other, *)
(* highest priority first; each receiver has TIMEOUT to answer with        *)
(* FinishReceiver, and when the last one has answered (or one of them has  *)
(* aborted the event) the publisher's own listener is told the result.     *)
(*                                                                         *)
(* Two serial executors share the records:                                 *)
(*   - the service: the ffrt queue CesSrvMain, which runs the publish,     *)
(*     finish, unsubscribe and freeze requests that arrive over IPC;       *)
(*   - the dispatcher: the ffrt queue ordered_common_event, which runs     *)
(*     ProcessNextOrderedEvent and the delayed CurrentOrderedEventTimeout. *)
(* orderedMutex_ guards the queue of records and recordMutex_ the writes   *)
(* of a record's fields.  A step of the model is a locked section, or the  *)
(* access to one shared variable outside of a lock.  The section of        *)
(* FinishReceiver is split after its first store because the dispatcher    *)
(* reads state and resultAbort without taking recordMutex_.                *)
(*                                                                         *)
(* Clients are not trusted to answer: a subscriber that died or hangs is   *)
(* one that takes no step, and a notification sent to it may fail.         *)
(***************************************************************************)
EXTENDS Integers, Sequences, FiniteSets

CONSTANTS
    Subscriber,   \* subscriptions: a subscriber record and its listener proxy
    Priority,     \* the priority each of them subscribed with
    Leaving,      \* the subscriptions that may be withdrawn
    Freezable,    \* the ones whose application may be frozen
    Listener,     \* the listeners publishers pass for the result (resultTo)
    MaxRecords,   \* bound: ordered events published in a behaviour
    TIMEOUT_TICKS,\* TIMEOUT (10 s) in clock ticks
    None          \* nullptr

ASSUME SubscriberAssumption == IsFiniteSet(Subscriber)
ASSUME EnvironmentAssumption ==
    Leaving \subseteq Subscriber /\ Freezable \subseteq Subscriber /\ Listener \subseteq Subscriber
ASSUME PriorityAssumption == Priority \in [Subscriber -> Int]
ASSUME BoundAssumption == MaxRecords \in Nat
ASSUME TimeoutAssumption == TIMEOUT_TICKS \in Nat \ {0}

\* OrderedEventRecord::EventState and ::DeliveryState are int8_t; the code
\* stores a DeliveryState into state in one place, hence the numbers.
IDLE == 0
RECEIVING == 1
RECEIVED == 2

PENDING == 0
DELIVERED == 1
SKIPPED == 2
TIMEOUT == 3

DOUBLE == 2
Off == -1          \* no delayed timeout task is pending

Record == 1..MaxRecords

\* What a receiver answers: the result it wants stored.  "about" is the event
\* it was processing and "from" the receiver; the service only sees "from".
Answer == [about : Record, from : Subscriber, abort : BOOLEAN]

ASSUME NoneAssumption == None \notin Subscriber /\ None \notin Record /\ None \notin Answer

VARIABLES
    \* the records, in order of publication
    published,          \* number of records created so far
    receivers, resultTo, state, nextReceiver, curReceiver, deliveryState,
    resultAbort,
    result,             \* code and data of commonEventData: whose answer it is
    \* the control manager
    orderedEventQueue,  \* waiting records, the front one being dispatched
    scheduled,          \* scheduled_
    orderedQueue,       \* submitted ProcessNextOrderedEvent(isSendMsg) tasks:
                        \* "scheduled" (isSendMsg) and "finished" ones
    timer,              \* ticks to the delayed task; Off = !pendingTimeoutMessage_
    receiverAge,        \* now - receiverTime of the front record
    dispatchAge,        \* now - dispatchTime of the front record
    \* the dispatcher's task: where it is, its sp and its removedRecords
    dpc, sp, removedRecords,
    \* the service's task: where it is, the record it matched, the state it
    \* loaded, the answer it applies (None: an unsubscription, which writes
    \* back what it has read) and the subscriber it unsubscribes
    spc, recordPtr, loaded, answer, leaver,
    \* subscribers
    subscribed,         \* subscribers known to the subscriber manager
    isFreeze,           \* those of them that are frozen
    frozenEvents,       \* events kept for frozen subscribers
    inbox               \* ordered notifications a subscriber has not answered

recordVars == <<published, receivers, resultTo, state, nextReceiver,
                curReceiver, deliveryState, resultAbort, result>>
taskVars == <<scheduled, orderedQueue, timer, receiverAge, dispatchAge>>
dispatcherVars == <<dpc, sp, removedRecords>>
serviceVars == <<spc, recordPtr, loaded, answer, leaver>>
clientVars == <<subscribed, isFreeze, frozenEvents, inbox>>
vars == <<recordVars, orderedEventQueue, taskVars, dispatcherVars,
          serviceVars, clientVars>>

Front == Head(orderedEventQueue)

\* The receiver whose turn nextReceiver was last advanced to.
Current(r) == receivers[r][nextReceiver[r]]

\* The service is inside the locked section of FinishReceiver for r.
RecordLocked(r) == spc = "locked" /\ recordPtr = r

\* ProcessOrderedEventQueueLocked is running.
OrderedMutexHeld == dpc = "select"

\* The orders std::sort can leave a set of subscriber records in.
PriorityOrders(S) ==
    {s \in [1..Cardinality(S) -> S] :
        \A i, j \in 1..Cardinality(S) :
            i < j => s[i] # s[j] /\ Priority[s[i]] >= Priority[s[j]]}

Init ==
    /\ published = 0
    /\ receivers = [r \in Record |-> <<>>]
    /\ resultTo = [r \in Record |-> None]
    /\ state = [r \in Record |-> IDLE]
    /\ nextReceiver = [r \in Record |-> 0]
    /\ curReceiver = [r \in Record |-> None]
    /\ deliveryState = [r \in Record |-> <<>>]
    /\ resultAbort = [r \in Record |-> FALSE]
    /\ result = [r \in Record |-> None]
    /\ orderedEventQueue = <<>>
    /\ scheduled = FALSE
    /\ orderedQueue = <<>>
    /\ timer = Off
    /\ receiverAge = 0
    /\ dispatchAge = 0
    /\ dpc = "idle"
    /\ sp = None
    /\ removedRecords = <<>>
    /\ spc = "idle"
    /\ recordPtr = None
    /\ loaded = IDLE
    /\ answer = None
    /\ leaver = None
    /\ subscribed = Subscriber
    /\ isFreeze = {}
    /\ frozenEvents = {}
    /\ inbox = [c \in Subscriber |-> {}]

-----------------------------------------------------------------------------
(***************************************************************************)
(* The service                                                             *)
(***************************************************************************)

\* ProcessOrderedEvent up to EnqueueOrderedRecord.  Which subscribers match
\* the event is the subscriber manager's business: any of them may.
ProcessOrderedEvent(matched, order, commonEventListener) ==
    /\ spc = "idle"
    /\ ~OrderedMutexHeld
    /\ published < MaxRecords
    /\ matched \subseteq subscribed
    /\ order \in PriorityOrders(matched)
    /\ LET r == published + 1 IN
        /\ published' = r
        /\ receivers' = [receivers EXCEPT ![r] = order]
        /\ resultTo' = [resultTo EXCEPT ![r] = commonEventListener]
        /\ deliveryState' = [deliveryState EXCEPT ![r] = [i \in DOMAIN order |-> PENDING]]
        /\ orderedEventQueue' = Append(orderedEventQueue, r)
    /\ spc' = "schedule"
    /\ UNCHANGED <<state, nextReceiver, curReceiver, resultAbort, result, taskVars,
                   dispatcherVars, recordPtr, loaded, answer, leaver, clientVars>>

\* ScheduleOrderedCommonEvent called by the service: the test of scheduled_...
ServiceReadScheduled ==
    /\ spc = "schedule"
    /\ spc' = IF scheduled THEN "idle" ELSE "submit"
    /\ UNCHANGED <<recordVars, orderedEventQueue, taskVars, dispatcherVars,
                   recordPtr, loaded, answer, leaver, clientVars>>

\* ... and, when it was false, the store and the submission.
ServiceSubmit ==
    /\ spc = "submit"
    /\ spc' = "idle"
    /\ scheduled' = TRUE
    /\ orderedQueue' = Append(orderedQueue, "scheduled")
    /\ UNCHANGED <<recordVars, orderedEventQueue, timer, receiverAge, dispatchAge,
                   dispatcherVars, recordPtr, loaded, answer, leaver, clientVars>>

\* GetMatchingOrderedReceiver(proxy), then on to FinishReceiverAction with a.
\* Without a match the request goes on at otherwise.
MatchOrderedReceiver(proxy, a, otherwise) ==
    /\ ~OrderedMutexHeld
    /\ IF orderedEventQueue # <<>> /\ curReceiver[Front] = proxy
       THEN /\ spc' = "matched"
            /\ recordPtr' = Front
            /\ answer' = a
       ELSE /\ spc' = otherwise
            /\ UNCHANGED <<recordPtr, answer>>

\* A subscriber answers one of its notifications (FinishCommonEvent) and the
\* service runs InnerCommonEventManager::FinishReceiver.  Answers may come in
\* any order: a subscriber that went async finishes whenever it likes.
FinishReceiver(c, r, abort) ==
    /\ spc = "idle"
    /\ r \in inbox[c]
    /\ inbox' = [inbox EXCEPT ![c] = @ \ {r}]
    /\ MatchOrderedReceiver(c, [about |-> r, from |-> c, abort |-> abort], "idle")
    /\ UNCHANGED <<recordVars, orderedEventQueue, taskVars, dispatcherVars, loaded, leaver,
                   subscribed, isFreeze, frozenEvents>>

\* UnsubscribeCommonEvent: a subscriber that is awaited is finished on its
\* behalf, with the values the record has ...
UnsubscribeCommonEvent(c) ==
    /\ spc = "idle"
    /\ c \in subscribed \cap Leaving
    /\ MatchOrderedReceiver(c, None, "remove")
    /\ leaver' = c
    /\ UNCHANGED <<recordVars, orderedEventQueue, taskVars, dispatcherVars, loaded, clientVars>>

\* ... and then removed, with the events kept for it.  The subscriber record
\* lives on in the events it is a receiver of, with the isFreeze it had.
RemoveSubscriber ==
    /\ spc = "remove"
    /\ spc' = "idle"
    /\ leaver' = None
    /\ subscribed' = subscribed \ {leaver}
    /\ frozenEvents' = {e \in frozenEvents : e[1] # leaver}
    /\ UNCHANGED <<recordVars, orderedEventQueue, taskVars, dispatcherVars, recordPtr, loaded,
                   answer, isFreeze, inbox>>

\* FinishReceiver: the state is loaded before recordMutex_ is taken ...
FinishLoadState ==
    /\ spc = "matched"
    /\ spc' = "loaded"
    /\ loaded' = state[recordPtr]
    /\ UNCHANGED <<recordVars, orderedEventQueue, taskVars, dispatcherVars,
                   recordPtr, answer, leaver, clientVars>>

\* ... the first store of the locked section ...
FinishStoreIdle ==
    /\ spc = "loaded"
    /\ spc' = "locked"
    /\ state' = [state EXCEPT ![recordPtr] = IDLE]
    /\ UNCHANGED <<published, receivers, resultTo, nextReceiver, curReceiver,
                   deliveryState, resultAbort, result, orderedEventQueue, taskVars,
                   dispatcherVars, recordPtr, loaded, answer, leaver, clientVars>>

\* ... and the others; FinishReceiverAction submits ProcessNextOrderedEvent
\* only if the state loaded first was RECEIVED.
FinishApply ==
    /\ spc = "locked"
    /\ spc' = IF leaver = None THEN "idle" ELSE "remove"
    /\ curReceiver' = [curReceiver EXCEPT ![recordPtr] = None]
    /\ IF answer = None
       THEN UNCHANGED <<result, resultAbort>>
       ELSE /\ result' = [result EXCEPT ![recordPtr] = answer]
            /\ resultAbort' = [resultAbort EXCEPT ![recordPtr] = answer.abort]
    /\ orderedQueue' = IF loaded = RECEIVED THEN Append(orderedQueue, "finished") ELSE orderedQueue
    /\ recordPtr' = None
    /\ loaded' = IDLE
    /\ answer' = None
    /\ UNCHANGED <<published, receivers, resultTo, state, nextReceiver, deliveryState,
                   orderedEventQueue, scheduled, timer, receiverAge, dispatchAge,
                   dispatcherVars, leaver, clientVars>>

\* Freeze: UpdateFreezeInfo(uid, true).
Freeze(c) ==
    /\ spc = "idle"
    /\ c \in (subscribed \cap Freezable) \ isFreeze
    /\ isFreeze' = isFreeze \cup {c}
    /\ UNCHANGED <<recordVars, orderedEventQueue, taskVars, dispatcherVars, serviceVars,
                   subscribed, frozenEvents, inbox>>

\* Unfreeze: the flag of a subscriber the manager knows is cleared and the
\* kept events leave through the unordered immediate queue, as unordered
\* notifications.
Unfreeze(c) ==
    /\ spc = "idle"
    /\ c \in isFreeze
    /\ isFreeze' = isFreeze \ ({c} \cap subscribed)
    /\ frozenEvents' = {e \in frozenEvents : e[1] # c}
    /\ UNCHANGED <<recordVars, orderedEventQueue, taskVars, dispatcherVars, serviceVars,
                   subscribed, inbox>>

-----------------------------------------------------------------------------
(***************************************************************************)
(* The dispatcher                                                          *)
(***************************************************************************)

\* ScheduleOrderedCommonEvent called on the dispatcher's own queue.
DispatcherSchedule ==
    /\ scheduled' = TRUE
    /\ orderedQueue' = IF scheduled THEN orderedQueue ELSE Append(orderedQueue, "scheduled")

\* scheduled_ at the head of ProcessNextOrderedEvent(isSendMsg).
ScheduledAfterStart(task) == scheduled /\ task # "scheduled"

\* Mutant: no delayed task is submitted.
SetNoTimeout(pending) == pending

\* SetTimeout and CancelTimeout: the delayed task and pendingTimeoutMessage_.
SetTimeout(pending) == IF pending = Off THEN TIMEOUT_TICKS ELSE pending
CancelTimeout(pending) == Off

\* HandleTimeoutReceiver, on the fields of the record.
TimeOutReceiver(r) ==
    /\ deliveryState' = [deliveryState EXCEPT ![r][nextReceiver[r]] = TIMEOUT]
    /\ state' = [state EXCEPT ![r] = IDLE]
    /\ curReceiver' = [curReceiver EXCEPT ![r] = None]

\* Mutant: the delayed task is always taken to be about the current receiver.
NeverInTime == FALSE

\* CheckAndRescheduleTimeout: timeoutTime > nowSysTime.
StillInTime == receiverAge < TIMEOUT_TICKS

\* The head of ProcessNextOrderedEvent(isSendMsg).
StartProcessNext ==
    /\ dpc = "idle"
    /\ orderedQueue # <<>>
    /\ orderedQueue' = Tail(orderedQueue)
    /\ scheduled' = ScheduledAfterStart(Head(orderedQueue))
    /\ dpc' = "select"
    /\ UNCHANGED <<recordVars, orderedEventQueue, timer, receiverAge, dispatchAge,
                   sp, removedRecords, serviceVars, clientVars>>

\* The condition of CheckTimeoutForceReceive.
ForceReceive(r) ==
    /\ nextReceiver[r] > 0
    /\ dispatchAge > DOUBLE * TIMEOUT_TICKS * Len(receivers[r])

\* Mutants: one receiver too many, one too few.
ShouldRemoveLate(r) == nextReceiver[r] > Len(receivers[r]) \/ resultAbort[r] \/ ForceReceive(r)
ShouldRemoveSoon(r) == nextReceiver[r] + 1 >= Len(receivers[r]) \/ resultAbort[r] \/ ForceReceive(r)

\* The condition shouldRemove.
ShouldRemove(r) ==
    \/ nextReceiver[r] >= Len(receivers[r])
    \/ resultAbort[r]
    \/ ForceReceive(r)

\* Where ProcessNextOrderedEvent goes on when orderedMutex_ is released.
AfterSelect(removed, next) ==
    CASE removed # <<>> -> "final"
      [] removed = <<>> /\ next # None -> "prepare"
      [] OTHER -> "idle"

\* One round of the loop of ProcessOrderedEventQueueLocked that removes the
\* front record, after CheckTimeoutForceReceive has timed its receiver out.
SelectRemove ==
    /\ dpc = "select"
    /\ orderedEventQueue # <<>>
    /\ state[Front] = IDLE \/ ForceReceive(Front)
    /\ ShouldRemove(Front)
    /\ ForceReceive(Front) => ~RecordLocked(Front)
    /\ IF ForceReceive(Front)
       THEN TimeOutReceiver(Front)
       ELSE UNCHANGED <<deliveryState, state, curReceiver>>
    /\ timer' = CancelTimeout(timer)
    /\ receiverAge' = 0
    /\ dispatchAge' = 0
    /\ orderedEventQueue' = Tail(orderedEventQueue)
    /\ removedRecords' = Append(removedRecords, Front)
    /\ UNCHANGED <<published, receivers, resultTo, nextReceiver, resultAbort, result,
                   scheduled, orderedQueue, dpc, sp, serviceVars, clientVars>>

\* Mutant: whether a receiver still has its turn is not looked at.
SelectBusy ==
    /\ dpc = "select"
    /\ orderedEventQueue # <<>> => ~ShouldRemove(Front)
    /\ sp' = IF orderedEventQueue # <<>> THEN Front ELSE None
    /\ dpc' = AfterSelect(removedRecords, sp')
    /\ UNCHANGED <<recordVars, orderedEventQueue, taskVars, removedRecords,
                   serviceVars, clientVars>>

\* The round that leaves the loop: the queue is empty or its front record is
\* with a receiver (sp = nullptr), or the front record has a next receiver.
SelectDone ==
    /\ dpc = "select"
    /\ orderedEventQueue # <<>> =>
        /\ ~ForceReceive(Front)
        /\ state[Front] = IDLE => ~ShouldRemove(Front)
    /\ sp' = IF orderedEventQueue # <<>> /\ state[Front] = IDLE THEN Front ELSE None
    /\ dpc' = AfterSelect(removedRecords, sp')
    /\ UNCHANGED <<recordVars, orderedEventQueue, taskVars, removedRecords,
                   serviceVars, clientVars>>

\* HandleFinalSubscriber for one of the removed records.
HandleFinalSubscriber ==
    /\ dpc = "final"
    /\ LET r == Head(removedRecords) IN
        /\ resultTo' = [resultTo EXCEPT ![r] = None]
        /\ \/ /\ resultTo[r] # None
              /\ inbox' = [inbox EXCEPT ![resultTo[r]] = @ \cup {r}]
           \/ UNCHANGED inbox      \* no listener, or the notification fails
    /\ removedRecords' = Tail(removedRecords)
    /\ dpc' = AfterSelect(Tail(removedRecords), sp)
    /\ UNCHANGED <<published, receivers, state, nextReceiver, curReceiver, deliveryState,
                   resultAbort, result, orderedEventQueue, taskVars, sp, serviceVars,
                   subscribed, isFreeze, frozenEvents>>

\* PrepareNextReceiverRecord and SetTimeout.
PrepareNextReceiverRecord ==
    /\ dpc = "prepare"
    /\ ~RecordLocked(sp)
    /\ nextReceiver' = [nextReceiver EXCEPT ![sp] = @ + 1]
    /\ receiverAge' = 0
    /\ dispatchAge' = IF nextReceiver[sp] = 0 THEN 0 ELSE dispatchAge
    /\ timer' = SetTimeout(timer)
    /\ dpc' = "notify"
    /\ UNCHANGED <<published, receivers, resultTo, state, curReceiver, deliveryState,
                   resultAbort, result, orderedEventQueue, scheduled, orderedQueue,
                   sp, removedRecords, serviceVars, clientVars>>

\* Mutant: the frozen receiver is not marked.
NotifyFrozenUnmarked ==
    /\ dpc = "notify"
    /\ Current(sp) \in isFreeze
    /\ ~RecordLocked(sp)
    /\ frozenEvents' = frozenEvents \cup {<<Current(sp), sp>>}
    /\ curReceiver' = [curReceiver EXCEPT ![sp] = None]
    /\ dpc' = "check"
    /\ UNCHANGED <<published, receivers, resultTo, state, nextReceiver, deliveryState,
                   resultAbort, result, orderedEventQueue, taskVars, sp, removedRecords,
                   serviceVars, subscribed, isFreeze, inbox>>

\* NotifyOrderedEvent for a frozen receiver: NotifyFrozenSubscriber keeps the
\* event and the turn is over.
NotifyFrozenSubscriber ==
    /\ dpc = "notify"
    /\ Current(sp) \in isFreeze
    /\ ~RecordLocked(sp)
    /\ frozenEvents' = frozenEvents \cup {<<Current(sp), sp>>}
    /\ deliveryState' = [deliveryState EXCEPT ![sp][nextReceiver[sp]] = SKIPPED]
    /\ curReceiver' = [curReceiver EXCEPT ![sp] = None]
    /\ dpc' = "check"
    /\ UNCHANGED <<published, receivers, resultTo, state, nextReceiver, resultAbort, result,
                   orderedEventQueue, taskVars, sp, removedRecords, serviceVars,
                   subscribed, isFreeze, inbox>>

\* PrepareOrderedNotify, and the oneway call of NotifyEvent: there is no proxy
\* to call ("check"), or the notification is sent, or it fails.
NotifyOrderedEvent(outcome) ==
    /\ dpc = "notify"
    /\ Current(sp) \notin isFreeze
    /\ ~RecordLocked(sp)
    /\ deliveryState' = [deliveryState EXCEPT ![sp][nextReceiver[sp]] = DELIVERED]
    /\ IF outcome = "check"
       THEN /\ curReceiver' = [curReceiver EXCEPT ![sp] = None]
            /\ UNCHANGED state
       ELSE /\ curReceiver' = [curReceiver EXCEPT ![sp] = Current(sp)]
            /\ state' = [state EXCEPT ![sp] = RECEIVING]
    /\ inbox' = IF outcome = "sent" THEN [inbox EXCEPT ![Current(sp)] = @ \cup {sp}] ELSE inbox
    /\ dpc' = outcome
    /\ UNCHANGED <<published, receivers, resultTo, nextReceiver, resultAbort, result,
                   orderedEventQueue, taskVars, sp, removedRecords, serviceVars,
                   subscribed, isFreeze, frozenEvents>>

\* HandleOrderedNotifyResult; on failure it stores SKIPPED into state.
HandleOrderedNotifyResult ==
    /\ dpc \in {"sent", "failed"}
    /\ ~RecordLocked(sp)
    /\ state' = [state EXCEPT ![sp] = IF dpc = "sent" THEN RECEIVED ELSE SKIPPED]
    /\ curReceiver' = IF dpc = "sent" THEN curReceiver ELSE [curReceiver EXCEPT ![sp] = None]
    /\ dpc' = "check"
    /\ UNCHANGED <<published, receivers, resultTo, nextReceiver, deliveryState,
                   resultAbort, result, orderedEventQueue, taskVars, sp, removedRecords,
                   serviceVars, clientVars>>

\* The end of ProcessNextOrderedEvent: without a receiver to wait for, the
\* record is made IDLE and the next round is scheduled.
CheckCurReceiver ==
    /\ dpc = "check"
    /\ IF curReceiver[sp] = None
       THEN /\ state' = [state EXCEPT ![sp] = IDLE]
            /\ DispatcherSchedule
       ELSE UNCHANGED <<state, scheduled, orderedQueue>>
    /\ dpc' = "idle"
    /\ sp' = None
    /\ UNCHANGED <<published, receivers, resultTo, nextReceiver, curReceiver, deliveryState,
                   resultAbort, result, orderedEventQueue, timer, receiverAge, dispatchAge,
                   removedRecords, serviceVars, clientVars>>

\* CurrentOrderedEventTimeout(true) up to CheckAndRescheduleTimeout: a front
\* record whose receiver has not had its time yet gets a new delayed task.
\* (That the queue is not empty when the task runs is TimerCoversTurn.)
StartTimeout ==
    /\ dpc = "idle"
    /\ timer = 0
    /\ orderedEventQueue # <<>>
    /\ ~RecordLocked(Front)
    /\ IF StillInTime
       THEN /\ timer' = SetTimeout(Off)
            /\ UNCHANGED <<dpc, sp>>
       ELSE /\ timer' = Off
            /\ dpc' = "timeout"
            /\ sp' = Front
    /\ UNCHANGED <<recordVars, orderedEventQueue, scheduled, orderedQueue, receiverAge,
                   dispatchAge, removedRecords, serviceVars, clientVars>>

\* HandleTimeoutReceiver and ScheduleOrderedCommonEvent.
HandleTimeoutReceiver ==
    /\ dpc = "timeout"
    /\ ~RecordLocked(sp)
    /\ receiverAge' = 0
    /\ TimeOutReceiver(sp)
    /\ DispatcherSchedule
    /\ dpc' = "idle"
    /\ sp' = None
    /\ UNCHANGED <<published, receivers, resultTo, nextReceiver, resultAbort, result,
                   orderedEventQueue, timer, dispatchAge, removedRecords, serviceVars,
                   clientVars>>

\* The clock.  Ages stop where the code no longer tells them apart.
Tick ==
    /\ orderedEventQueue # <<>> /\ nextReceiver[Front] > 0
    /\ LET limit == DOUBLE * TIMEOUT_TICKS * Len(receivers[Front]) IN
        /\ timer > 0 \/ receiverAge < TIMEOUT_TICKS \/ dispatchAge <= limit
        /\ timer' = IF timer > 0 THEN timer - 1 ELSE timer
        /\ receiverAge' = IF receiverAge < TIMEOUT_TICKS THEN receiverAge + 1 ELSE receiverAge
        /\ dispatchAge' = IF dispatchAge <= limit THEN dispatchAge + 1 ELSE dispatchAge
    /\ UNCHANGED <<recordVars, orderedEventQueue, scheduled, orderedQueue, dispatcherVars,
                   serviceVars, clientVars>>

-----------------------------------------------------------------------------
\* The steps of a service task that has started.
ServiceStep ==
    \/ ServiceReadScheduled
    \/ ServiceSubmit
    \/ FinishLoadState
    \/ FinishStoreIdle
    \/ FinishApply
    \/ RemoveSubscriber

\* The requests that start one.
Request ==
    \/ \E matched \in SUBSET subscribed, commonEventListener \in Listener \cup {None} :
        \E order \in PriorityOrders(matched) :
            ProcessOrderedEvent(matched, order, commonEventListener)
    \/ \E c \in Subscriber :
        \/ \E r \in inbox[c], abort \in BOOLEAN : FinishReceiver(c, r, abort)
        \/ UnsubscribeCommonEvent(c)
        \/ Freeze(c)
        \/ Unfreeze(c)

DispatcherStep ==
    \/ StartProcessNext
    \/ SelectRemove
    \/ SelectDone
    \/ HandleFinalSubscriber
    \/ PrepareNextReceiverRecord
    \/ NotifyFrozenSubscriber
    \/ \E outcome \in {"check", "sent", "failed"} : NotifyOrderedEvent(outcome)
    \/ HandleOrderedNotifyResult
    \/ CheckCurReceiver
    \/ StartTimeout
    \/ HandleTimeoutReceiver

Next == ServiceStep \/ Request \/ DispatcherStep \/ Tick

Spec == Init /\ [][Next]_vars

\* ffrt runs the tasks of a queue, a task that has started goes on, and time
\* passes.  Nothing is assumed of subscribers and publishers.
FairSpec == Spec /\ WF_vars(ServiceStep) /\ WF_vars(DispatcherStep) /\ WF_vars(Tick)

-----------------------------------------------------------------------------
(***************************************************************************)
(* Properties                                                              *)
(***************************************************************************)

Queued == {orderedEventQueue[i] : i \in DOMAIN orderedEventQueue}
Removed == {removedRecords[i] : i \in DOMAIN removedRecords}

RecordTypeOK ==
    /\ published \in 0..MaxRecords
    /\ receivers \in [Record -> Seq(Subscriber)]
    /\ resultTo \in [Record -> Subscriber \cup {None}]
    /\ state \in [Record -> {IDLE, RECEIVING, RECEIVED}]
    /\ nextReceiver \in [Record -> Nat]
    /\ curReceiver \in [Record -> Subscriber \cup {None}]
    /\ deliveryState \in [Record -> Seq({PENDING, DELIVERED, SKIPPED, TIMEOUT})]
    /\ resultAbort \in [Record -> BOOLEAN]
    /\ result \in [Record -> Answer \cup {None}]

TaskTypeOK ==
    /\ orderedEventQueue \in Seq(Record)
    /\ scheduled \in BOOLEAN
    /\ orderedQueue \in Seq({"scheduled", "finished"})
    /\ timer \in {Off} \cup 0..TIMEOUT_TICKS
    /\ receiverAge \in 0..TIMEOUT_TICKS
    /\ dispatchAge \in Nat

DispatcherTypeOK ==
    /\ dpc \in {"idle", "select", "final", "prepare", "notify", "sent", "failed",
                "check", "timeout"}
    /\ sp \in Record \cup {None}
    /\ removedRecords \in Seq(Record)

ServiceTypeOK ==
    /\ spc \in {"idle", "schedule", "submit", "matched", "loaded", "locked", "remove"}
    /\ recordPtr \in Record \cup {None}
    /\ loaded \in {IDLE, RECEIVING, RECEIVED}
    /\ answer \in Answer \cup {None}
    /\ leaver \in Subscriber \cup {None}

ClientTypeOK ==
    /\ subscribed \in SUBSET Subscriber
    /\ isFreeze \in SUBSET Subscriber
    /\ frozenEvents \in SUBSET (Subscriber \X Record)
    /\ inbox \in [Subscriber -> SUBSET Record]

\* The index nextReceiver - 1 the code uses stays within the receivers.
CursorInRange ==
    \A r \in Record : /\ Len(deliveryState[r]) = Len(receivers[r])
                      /\ nextReceiver[r] <= Len(receivers[r])

\* Every variable has its type and the cursor of a record stays in range.
TypeOK ==
    /\ RecordTypeOK
    /\ TaskTypeOK
    /\ DispatcherTypeOK
    /\ ServiceTypeOK
    /\ ClientTypeOK
    /\ CursorInRange

\* A queued record is never forgotten, although FinishReceiver drops the wake
\* up when it loaded RECEIVING, the two executors race on scheduled_ and a
\* subscriber may never answer: whenever the dispatcher is at rest, an event
\* not dispatched yet has a ProcessNextOrderedEvent submitted (or about to be,
\* by the publishing task), and a dispatched one has that or the timeout task.
NoLostWakeup ==
    dpc = "idle" /\ orderedEventQueue # <<>> =>
        \/ orderedQueue # <<>>
        \/ nextReceiver[Front] = 0 /\ spc \in {"schedule", "submit"}
        \/ nextReceiver[Front] > 0 /\ timer # Off

\* The delayed task is pending only for a record that was dispatched and is
\* still at the front: it never finds the queue empty, and never times out a
\* receiver of a record that was not handed to anybody.
TimerCoversTurn ==
    timer # Off => orderedEventQueue # <<>> /\ nextReceiver[Front] > 0

\* The flag scheduled_ is up only while a task that clears it is on its way:
\* otherwise every later ScheduleOrderedCommonEvent would be dropped.
ScheduledMeansSubmitted ==
    scheduled => \E i \in DOMAIN orderedQueue : orderedQueue[i] = "scheduled"

\* Only the front record is ever with a receiver; the others wait untouched.
\* A record that left the queue has no current receiver, except for as long as
\* FinishReceiver is storing into it.
OnlyFrontInTurn ==
    \A r \in 1..published :
        /\ r \in Queued /\ r # Front => nextReceiver[r] = 0 /\ state[r] = IDLE
        /\ r \notin Queued \/ r # Front => curReceiver[r] = None \/ RecordLocked(r)

\* No receiver is passed over: those before the cursor have been notified,
\* skipped because frozen, or timed out, and those behind it have not been
\* touched, whatever finishes, time-outs and freezes came in between.
NoReceiverSkipped ==
    \A r \in 1..published : \A i \in DOMAIN receivers[r] :
        /\ deliveryState[r][i] = PENDING => i >= nextReceiver[r]
        /\ deliveryState[r][i] = PENDING /\ i = nextReceiver[r] => dpc = "notify" /\ sp = r
        /\ i > nextReceiver[r] => deliveryState[r][i] = PENDING

\* A receiver is declared timed out only when it had the whole TIMEOUT since
\* its own dispatch, although the delayed task may have been submitted for an
\* earlier receiver -- or when the event as a whole is overdue.
NoEarlyTimeout ==
    [][\A r \in Record : \A i \in DOMAIN receivers[r] :
        deliveryState[r][i] # TIMEOUT /\ deliveryState'[r][i] = TIMEOUT =>
            receiverAge = TIMEOUT_TICKS \/ ForceReceive(r)]_vars

\* An event leaves the queue only when it is over: nobody holds it (the test
\* is on state, not on curReceiver), and every receiver was served, or one has
\* aborted the event, or it is overdue.
NeverCutShort ==
    [][\A r \in Queued : r \notin Queued' =>
        /\ curReceiver'[r] = None \/ RecordLocked(r)
        /\ \/ \A i \in DOMAIN receivers[r] : deliveryState[r][i] # PENDING
           \/ resultAbort[r]
           \/ ForceReceive(r)]_vars

\* Every ordered event comes to its end and its publisher is answered, even
\* if no receiver ever finishes.
EventuallyAnswered ==
    \A r \in Record : r \in Queued ~> r \notin Queued \cup Removed /\ resultTo[r] = None

(***************************************************************************)
(* The inductive invariant behind TypeOK and NoLostWakeup                  *)
(***************************************************************************)

\* The records are queued in the order of their publication, without gaps.
First == published - Len(orderedEventQueue) + 1
QueueIsInterval ==
    /\ Len(orderedEventQueue) <= published
    /\ \A i \in DOMAIN orderedEventQueue : orderedEventQueue[i] = First + i - 1

\* The records behind the front one, and those not published yet.
BehindFrontUntouched ==
    \A r \in Record : r > First =>
        nextReceiver[r] = 0 /\ state[r] = IDLE /\ curReceiver[r] = None

UnpublishedUntouched ==
    \A r \in Record : r > published =>
        nextReceiver[r] = 0 /\ state[r] = IDLE /\ curReceiver[r] = None

\* Where the dispatcher is, and what its locals are there.
InTurn == {"prepare", "notify", "sent", "failed", "check", "timeout"}
DispatcherLocals ==
    /\ dpc \in InTurn => sp \in Record /\ orderedEventQueue # <<>> /\ sp = Front
    /\ dpc \in {"idle", "select"} => sp = None
    /\ dpc = "final" => removedRecords # <<>>
    /\ dpc \in {"idle"} \cup InTurn => removedRecords = <<>>
    /\ dpc = "final" /\ sp # None => sp \in Record /\ orderedEventQueue # <<>> /\ sp = Front
    /\ dpc = "prepare" \/ (dpc = "final" /\ sp # None) =>
            nextReceiver[sp] < Len(receivers[sp])
    /\ dpc \in {"notify", "sent", "failed", "check", "timeout"} => nextReceiver[sp] > 0

\* Where the service is, and what its locals are there: it works on a record
\* that has been dispatched.
ServiceLocals ==
    /\ spc \in {"matched", "loaded", "locked"} =>
            recordPtr \in Record /\ nextReceiver[recordPtr] > 0
    /\ spc \in {"idle", "schedule", "submit", "remove"} => recordPtr = None

\* A record is with a receiver, or was, only after a dispatch; while it is, the
\* delayed task is pending.
TurnIsTimed ==
    /\ \A r \in Record : state[r] # IDLE \/ curReceiver[r] # None => nextReceiver[r] > 0
    /\ orderedEventQueue # <<>> /\ state[Front] # IDLE /\ dpc # "timeout" => timer # Off
    /\ dpc \in {"notify", "sent", "failed", "check"} => timer # Off

\* NoLostWakeup, for every state in which the dispatcher selects nothing more.
Woken ==
    (dpc = "idle" \/ (dpc = "final" /\ sp = None)) /\ orderedEventQueue # <<>> =>
        \/ orderedQueue # <<>>
        \/ nextReceiver[Front] = 0 /\ spc \in {"schedule", "submit"}
        \/ nextReceiver[Front] > 0 /\ timer # Off

IndInv ==
    /\ TypeOK
    /\ QueueIsInterval
    /\ BehindFrontUntouched
    /\ UnpublishedUntouched
    /\ DispatcherLocals
    /\ ServiceLocals
    /\ TurnIsTimed
    /\ TimerCoversTurn
    /\ ScheduledMeansSubmitted
    /\ Woken

(***************************************************************************)
(* What the documents promise                                              *)
(***************************************************************************)

\* The position of c among the receivers of r.
PositionOf(c, r) == CHOOSE i \in DOMAIN receivers[r] : receivers[r][i] = c

\* abortCommonEvent: an event a receiver has aborted in its turn (it was not
\* timed out) is not passed on: no receiver after it has it to process.
AbortStopsDelivery ==
    \A r \in 1..published :
        resultAbort[r] /\ result[r].about = r =>
            LET i == PositionOf(result[r].from, r) IN
            deliveryState[r][i] = DELIVERED =>
                \A j \in DOMAIN receivers[r] : j > i => r \notin inbox[receivers[r][j]]

=============================================================================
