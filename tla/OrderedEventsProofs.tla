------------------------- MODULE OrderedEventsProofs -------------------------
(***************************************************************************)
(* Proofs about OrderedEvents, for any number of subscribers, any          *)
(* priorities, any number of events and any timeout: IndInv is inductive,  *)
(* and it implies that every variable has its type, that no queued event   *)
(* is forgotten, that the timeout task only runs for a dispatched event    *)
(* and that scheduled_ is up only while a task to clear it is submitted;   *)
(* DeliveryInv, which adds to it, is inductive as well, and no receiver is *)
(* passed over, timed out early or cut short.  At the end, the dispatch    *)
(* implements OrderedBroadcast: initial states map to initial states, and  *)
(* every step to a step of the broadcast or to none.                       *)
(***************************************************************************)
EXTENDS OrderedImplementation, TLAPS, SequenceTheorems, FiniteSetTheorems

(***************************************************************************)
(* The initial state                                                       *)
(***************************************************************************)

\* The service starts in a state of the inductive invariant: nothing queued.
LEMMA InitIndInv == Init => IndInv
<1> SUFFICES ASSUME Init PROVE IndInv
  OBVIOUS
<1> USE BoundAssumption, TimeoutAssumption DEF Init, Record
<1>1. RecordTypeOK
  <2>1. \A r \in Record : /\ <<>> \in Seq(Subscriber)
                         /\ <<>> \in Seq({PENDING, DELIVERED, SKIPPED, TIMEOUT})
    BY EmptySeq
  <2>2. /\ receivers \in [Record -> Seq(Subscriber)]
        /\ deliveryState \in [Record -> Seq({PENDING, DELIVERED, SKIPPED, TIMEOUT})]
    BY <2>1
  <2>3. /\ resultTo \in [Record -> Subscriber \cup {None}]
        /\ curReceiver \in [Record -> Subscriber \cup {None}]
        /\ resultAbort \in [Record -> BOOLEAN]
        /\ result \in [Record -> Answer \cup {None}]
    BY Zenon
  <2>4. state \in [Record -> {IDLE, RECEIVING, RECEIVED}] /\ nextReceiver \in [Record -> Nat]
    BY DEF IDLE
  <2> QED
    BY <2>2, <2>3, <2>4 DEF RecordTypeOK
<1>2. TaskTypeOK /\ DispatcherTypeOK
  <2>1. orderedQueue \in Seq({"scheduled", "finished"}) /\ scheduled \in BOOLEAN
    BY EmptySeq, Zenon
  <2>2. timer \in {Off} \cup 0..TIMEOUT_TICKS /\ receiverAge \in 0..TIMEOUT_TICKS
    OBVIOUS
  <2> QED
    BY EmptySeq, <2>1, <2>2 DEF TaskTypeOK, DispatcherTypeOK
<1>3. ServiceTypeOK /\ ClientTypeOK
  BY DEF ServiceTypeOK, ClientTypeOK, IDLE, RECEIVING, RECEIVED, Answer
<1>4. CursorInRange
  BY EmptySeq DEF CursorInRange
<1>5. QueueIsInterval /\ BehindFrontUntouched /\ UnpublishedUntouched
  BY DEF QueueIsInterval, First, BehindFrontUntouched, UnpublishedUntouched
<1>6. DispatcherLocals /\ ServiceLocals
  BY DEF DispatcherLocals, ServiceLocals, InTurn
<1>7. TurnIsTimed /\ TimerCoversTurn /\ ScheduledMeansSubmitted /\ Woken
  BY DEF TurnIsTimed, TimerCoversTurn, ScheduledMeansSubmitted, Woken
<1> QED
  BY <1>1, <1>2, <1>3, <1>4, <1>5, <1>6, <1>7 DEF IndInv, TypeOK

\* The parts of the type invariant speak of disjoint groups of variables: one
\* whose variables a step leaves alone still holds.
LEMMA RecordFrame ==
    ASSUME RecordTypeOK, CursorInRange, UNCHANGED recordVars
    PROVE  RecordTypeOK' /\ CursorInRange'
BY DEF RecordTypeOK, CursorInRange, recordVars

\* The same for the tasks.
LEMMA TaskFrame ==
    ASSUME TaskTypeOK, UNCHANGED <<orderedEventQueue, taskVars>>
    PROVE  TaskTypeOK'
BY DEF TaskTypeOK, taskVars

\* The same for the dispatcher's locals.
LEMMA DispatcherFrame ==
    ASSUME DispatcherTypeOK, UNCHANGED dispatcherVars
    PROVE  DispatcherTypeOK'
BY DEF DispatcherTypeOK, dispatcherVars

\* The same for the service's locals.
LEMMA ServiceFrame ==
    ASSUME ServiceTypeOK, UNCHANGED serviceVars
    PROVE  ServiceTypeOK'
BY DEF ServiceTypeOK, serviceVars

\* The same for the subscribers.
LEMMA ClientFrame ==
    ASSUME ClientTypeOK, UNCHANGED clientVars
    PROVE  ClientTypeOK'
BY DEF ClientTypeOK, clientVars

\* What the service leaves alone when it works on its own locals only.
LEMMA QueueFrame ==
    ASSUME QueueIsInterval, BehindFrontUntouched, UnpublishedUntouched, TurnIsTimed,
           TimerCoversTurn, ScheduledMeansSubmitted, DispatcherLocals,
           UNCHANGED <<recordVars, orderedEventQueue, taskVars, dispatcherVars>>
    PROVE  /\ QueueIsInterval' /\ BehindFrontUntouched' /\ UnpublishedUntouched'
           /\ TurnIsTimed' /\ TimerCoversTurn' /\ ScheduledMeansSubmitted' /\ DispatcherLocals'
<1> USE DEF recordVars, taskVars, dispatcherVars
<1>1. QueueIsInterval' /\ BehindFrontUntouched' /\ UnpublishedUntouched'
  BY DEF QueueIsInterval, First, BehindFrontUntouched, UnpublishedUntouched
<1>2. TurnIsTimed' /\ TimerCoversTurn' /\ ScheduledMeansSubmitted'
  BY DEF TurnIsTimed, TimerCoversTurn, ScheduledMeansSubmitted, Front
<1>3. DispatcherLocals'
  BY DEF DispatcherLocals, Front
<1> QED
  BY <1>1, <1>2, <1>3

(***************************************************************************)
(* Facts about sequences and the helpers of the dispatcher                 *)
(***************************************************************************)

\* What appending to a queue does: its elements stay where they are, the new
\* one is the last, and the front only changes when the queue was empty.
LEMMA AppendedElements ==
    ASSUME NEW S, NEW s \in Seq(S), NEW e \in S
    PROVE  /\ Append(s, e) \in Seq(S)
           /\ Append(s, e) # <<>>
           /\ Len(Append(s, e)) = Len(s) + 1
           /\ \A i \in DOMAIN s : i \in DOMAIN Append(s, e) /\ Append(s, e)[i] = s[i]
           /\ Len(s) + 1 \in DOMAIN Append(s, e) /\ Append(s, e)[Len(s) + 1] = e
           /\ \A i \in DOMAIN Append(s, e) : i \in DOMAIN s \/ i = Len(s) + 1
           /\ s # <<>> => Head(Append(s, e)) = Head(s)
           /\ s = <<>> => Head(Append(s, e)) = e
OBVIOUS

\* What removing the front of a queue does: the others move up by one.
LEMMA TailElements ==
    ASSUME NEW S, NEW s \in Seq(S), s # <<>>
    PROVE  /\ Tail(s) \in Seq(S)
           /\ Head(s) \in S
           /\ Len(s) \in Nat \ {0}
           /\ Len(Tail(s)) = Len(s) - 1
           /\ \A i \in DOMAIN Tail(s) : i + 1 \in DOMAIN s /\ Tail(s)[i] = s[i + 1]
OBVIOUS

\* The receivers of an event are a sequence of subscribers.
LEMMA PriorityOrdersAreSeqs ==
    ASSUME NEW S \in SUBSET Subscriber, NEW order \in PriorityOrders(S)
    PROVE  order \in Seq(Subscriber)
<1>1. Cardinality(S) \in Nat
  BY SubscriberAssumption, FS_Subset, FS_CardinalityType
<1>2. order \in [1..Cardinality(S) -> Subscriber]
  BY DEF PriorityOrders
<1> QED
  BY <1>1, <1>2

\* The head of a queue that holds the interval up to n.
LEMMA HeadOfInterval ==
    ASSUME NEW n \in Nat, NEW q \in Seq(Record), q # <<>>, Len(q) <= n,
           \A i \in DOMAIN q : q[i] = (n - Len(q) + 1) + i - 1
    PROVE  Head(q) = n - Len(q) + 1 /\ Head(q) \in Record /\ Head(q) \in Nat /\ Head(q) <= n
<1>1. Len(q) \in Nat \ {0} /\ 1 \in DOMAIN q
  BY EmptySeq, LenProperties
<1>2. Head(q) = q[1] /\ Head(q) \in Record
  BY <1>1
<1>3. Head(q) = (n - Len(q) + 1) + 1 - 1
  BY <1>1, <1>2
<1> QED
  BY <1>1, <1>2, <1>3

\* The front record is the first of the interval of queued records.
LEMMA FrontIsFirst ==
    ASSUME TypeOK, QueueIsInterval, orderedEventQueue # <<>>
    PROVE  Front = First /\ Front \in Record /\ Front \in Nat /\ Front <= published
<1>1. published \in Nat /\ orderedEventQueue \in Seq(Record)
  BY BoundAssumption DEF TypeOK, RecordTypeOK, TaskTypeOK
<1> QED
  BY <1>1, HeadOfInterval DEF Front, First, QueueIsInterval

\* ScheduleOrderedCommonEvent on the dispatcher leaves a task submitted.
LEMMA DispatcherScheduleWakes ==
    ASSUME TaskTypeOK, ScheduledMeansSubmitted, DispatcherSchedule
    PROVE  /\ scheduled' \in BOOLEAN /\ orderedQueue' \in Seq({"scheduled", "finished"})
           /\ orderedQueue' # <<>>
           /\ ScheduledMeansSubmitted'
<1>1. CASE scheduled
  BY <1>1 DEF TaskTypeOK, ScheduledMeansSubmitted, DispatcherSchedule
<1>2. CASE ~scheduled
  <2>1. orderedQueue' = Append(orderedQueue, "scheduled") /\ orderedQueue \in Seq({"scheduled", "finished"})
    BY <1>2 DEF TaskTypeOK, DispatcherSchedule
  <2> QED
    BY <2>1, AppendedElements DEF ScheduledMeansSubmitted, DispatcherSchedule
<1> QED
  BY <1>1, <1>2

\* Storing a delivery state at the cursor keeps the types and the cursors.
LEMMA DeliveryStateTyped ==
    ASSUME TypeOK, NEW r \in Record, nextReceiver[r] > 0,
           NEW d \in {PENDING, DELIVERED, SKIPPED, TIMEOUT},
           deliveryState' = [deliveryState EXCEPT ![r][nextReceiver[r]] = d],
           UNCHANGED <<receivers, nextReceiver>>
    PROVE  /\ deliveryState' \in [Record -> Seq({PENDING, DELIVERED, SKIPPED, TIMEOUT})]
           /\ CursorInRange'
<1>1. deliveryState[r] \in Seq({PENDING, DELIVERED, SKIPPED, TIMEOUT})
  BY DEF TypeOK, RecordTypeOK
<1>2. nextReceiver[r] \in 1..Len(deliveryState[r])
  BY DEF TypeOK, RecordTypeOK, CursorInRange
<1>3. /\ [deliveryState[r] EXCEPT ![nextReceiver[r]] = d]
            \in Seq({PENDING, DELIVERED, SKIPPED, TIMEOUT})
      /\ Len([deliveryState[r] EXCEPT ![nextReceiver[r]] = d]) = Len(deliveryState[r])
  BY <1>1, <1>2
<1>4. deliveryState' = [deliveryState EXCEPT ![r] =
                            [deliveryState[r] EXCEPT ![nextReceiver[r]] = d]]
  BY DEF TypeOK, RecordTypeOK
<1> QED
  BY <1>3, <1>4 DEF TypeOK, RecordTypeOK, CursorInRange

\* The receiver at the cursor is a subscriber.
LEMMA CurrentTyped ==
    ASSUME TypeOK, NEW r \in Record, nextReceiver[r] > 0
    PROVE  Current(r) \in Subscriber
<1>1. receivers[r] \in Seq(Subscriber) /\ nextReceiver[r] \in 1..Len(receivers[r])
  BY DEF TypeOK, RecordTypeOK, CursorInRange
<1> QED
  BY <1>1, ElementOfSeq DEF Current

(***************************************************************************)
(* The steps of the service and the clock                                  *)
(***************************************************************************)

\* The clock keeps the invariant: it never switches the timeout task off.
LEMMA TickStep == IndInv /\ Tick => IndInv'
<1> SUFFICES ASSUME IndInv, Tick PROVE IndInv'
  OBVIOUS
<1> USE DEF Tick, recordVars, dispatcherVars, serviceVars, clientVars
<1>1. TaskTypeOK'
  <2>1. Len(receivers[Front]) \in Nat
    BY FrontIsFirst, LenProperties DEF IndInv, TypeOK, RecordTypeOK
  <2>2. DOUBLE * TIMEOUT_TICKS * Len(receivers[Front]) \in Nat
    <3>1. \A m, n \in Nat : m * n \in Nat
      OBVIOUS
    <3>2. DOUBLE * TIMEOUT_TICKS \in Nat
      BY TimeoutAssumption DEF DOUBLE
    <3> QED
      BY <2>1, <3>1, <3>2, Zenon
  <2>3. dispatchAge' \in Nat
    BY <2>2 DEF IndInv, TypeOK, TaskTypeOK
  <2>4. timer' \in {Off} \cup 0..TIMEOUT_TICKS /\ receiverAge' \in 0..TIMEOUT_TICKS
    BY TimeoutAssumption DEF IndInv, TypeOK, TaskTypeOK, Off
  <2> QED
    BY <2>3, <2>4 DEF IndInv, TypeOK, TaskTypeOK
<1>2. TypeOK'
  BY <1>1, RecordFrame, DispatcherFrame, ServiceFrame, ClientFrame DEF IndInv, TypeOK
<1>3. (QueueIsInterval /\ BehindFrontUntouched /\ UnpublishedUntouched)'
  BY DEF IndInv, QueueIsInterval, First, BehindFrontUntouched, UnpublishedUntouched
<1>4. (DispatcherLocals /\ ServiceLocals)'
  BY DEF IndInv, DispatcherLocals, ServiceLocals, Front
<1>5. timer' = Off <=> timer = Off
  BY TimeoutAssumption DEF IndInv, TypeOK, TaskTypeOK, Off
<1>6. (TurnIsTimed /\ TimerCoversTurn /\ ScheduledMeansSubmitted /\ Woken)'
  BY <1>5 DEF IndInv, TurnIsTimed, TimerCoversTurn, ScheduledMeansSubmitted, Woken, Front
<1> QED
  BY <1>2, <1>3, <1>4, <1>6 DEF IndInv

\* Publishing keeps the invariant: the new record goes to the end of the
\* queue, and if it is the front one its publisher is about to schedule it.
LEMMA ProcessOrderedEventStep ==
    ASSUME IndInv, NEW matched, NEW order, NEW commonEventListener \in Listener \cup {None},
           ProcessOrderedEvent(matched, order, commonEventListener)
    PROVE  IndInv'
<1> DEFINE r == published + 1
<1> USE DEF ProcessOrderedEvent, taskVars, dispatcherVars, clientVars
<1>1. /\ published \in Nat /\ r \in Record /\ r \in Nat /\ r > published
      /\ orderedEventQueue \in Seq(Record) /\ Len(orderedEventQueue) \in Nat
      /\ Len(orderedEventQueue) <= published
  BY BoundAssumption, LenProperties
     DEF IndInv, TypeOK, RecordTypeOK, TaskTypeOK, Record, QueueIsInterval
<1>2. First \in Int /\ First <= r
  BY <1>1 DEF First
<1>3. order \in Seq(Subscriber)
  BY PriorityOrdersAreSeqs DEF IndInv, TypeOK, ClientTypeOK
<1>4. orderedEventQueue' = Append(orderedEventQueue, r) /\ published' = r
  OBVIOUS
<1>5. First' = First
  BY <1>1, <1>4, AppendedElements DEF First
<1>6. nextReceiver[r] = 0 /\ state[r] = IDLE /\ curReceiver[r] = None
  BY <1>1 DEF IndInv, UnpublishedUntouched
<1>7. TypeOK'
  <2>1. [i \in DOMAIN order |-> PENDING] \in Seq({PENDING, DELIVERED, SKIPPED, TIMEOUT})
        /\ Len([i \in DOMAIN order |-> PENDING]) = Len(order)
    BY <1>3
  <2>2. published' \in 0..MaxRecords /\ orderedEventQueue' \in Seq(Record)
    BY <1>1, <1>4, AppendedElements, BoundAssumption DEF Record
  <2>3. /\ receivers' \in [Record -> Seq(Subscriber)]
        /\ resultTo' \in [Record -> Subscriber \cup {None}]
        /\ deliveryState' \in [Record -> Seq({PENDING, DELIVERED, SKIPPED, TIMEOUT})]
    BY <1>1, <1>3, <2>1, EnvironmentAssumption DEF IndInv, TypeOK, RecordTypeOK
  <2>4. CursorInRange'
    BY <1>1, <1>3, <1>6, <2>1, LenProperties DEF IndInv, TypeOK, RecordTypeOK, CursorInRange
  <2>5. RecordTypeOK' /\ TaskTypeOK'
    BY <2>2, <2>3 DEF IndInv, TypeOK, RecordTypeOK, TaskTypeOK
  <2> QED
    BY <2>4, <2>5 DEF IndInv, TypeOK, DispatcherTypeOK, ServiceTypeOK, ClientTypeOK
<1>8. QueueIsInterval'
  <2>1. \A i \in DOMAIN orderedEventQueue' : orderedEventQueue'[i] = First + i - 1
    <3> SUFFICES ASSUME NEW i \in DOMAIN orderedEventQueue'
                 PROVE  orderedEventQueue'[i] = First + i - 1
      OBVIOUS
    <3>1. CASE i \in DOMAIN orderedEventQueue
      BY <1>1, <1>4, <3>1, AppendedElements DEF IndInv, QueueIsInterval
    <3>2. CASE i = Len(orderedEventQueue) + 1
      BY <1>1, <1>4, <3>2, AppendedElements DEF First
    <3> QED
      BY <1>1, <1>4, <3>1, <3>2, AppendedElements
  <2>2. Len(orderedEventQueue') <= published'
    BY <1>1, <1>4, AppendedElements
  <2> QED
    BY <1>5, <2>1, <2>2 DEF QueueIsInterval
<1>9. (BehindFrontUntouched /\ UnpublishedUntouched)'
  BY <1>1, <1>4, <1>5 DEF IndInv, Record, BehindFrontUntouched, UnpublishedUntouched
<1>10. /\ orderedEventQueue # <<>> => Front' = Front
       /\ orderedEventQueue = <<>> => Front' = r
       /\ orderedEventQueue' # <<>>
  BY <1>1, <1>4, AppendedElements DEF Front
<1>11. (DispatcherLocals /\ ServiceLocals)'
  <2>1. \A q \in Record : q # r => receivers'[q] = receivers[q]
    BY DEF IndInv, TypeOK, RecordTypeOK
  <2>2. orderedEventQueue # <<>> => Front # r
    BY FrontIsFirst, <1>1 DEF IndInv
  <2>3. dpc \in InTurn \/ (dpc = "final" /\ sp # None) =>
            orderedEventQueue # <<>> /\ sp = Front /\ sp \in Record /\ sp # r
    BY <2>2 DEF IndInv, DispatcherLocals
  <2> QED
    BY <2>1, <2>3, <1>10 DEF IndInv, DispatcherLocals, ServiceLocals, InTurn
<1>12. (TurnIsTimed /\ TimerCoversTurn)'
  BY <1>6, <1>10 DEF IndInv, TurnIsTimed, TimerCoversTurn
<1>13. (ScheduledMeansSubmitted /\ Woken)'
  BY <1>6, <1>10 DEF IndInv, ScheduledMeansSubmitted, Woken
<1> QED
  BY <1>7, <1>8, <1>9, <1>11, <1>12, <1>13 DEF IndInv

\* Reading scheduled_ keeps the invariant: a publisher that finds it up leaves
\* the record to a task that is on its way.
LEMMA ServiceReadScheduledStep == IndInv /\ ServiceReadScheduled => IndInv'
<1> SUFFICES ASSUME IndInv, ServiceReadScheduled PROVE IndInv'
  OBVIOUS
<1> USE DEF ServiceReadScheduled, recordVars, taskVars, dispatcherVars, clientVars
<1>1. TypeOK'
  BY DEF IndInv, TypeOK, RecordTypeOK, TaskTypeOK, DispatcherTypeOK, ServiceTypeOK,
         ClientTypeOK, CursorInRange
<1>2. (QueueIsInterval /\ BehindFrontUntouched /\ UnpublishedUntouched)'
  BY DEF IndInv, QueueIsInterval, First, BehindFrontUntouched, UnpublishedUntouched
<1>3. (DispatcherLocals /\ ServiceLocals /\ TurnIsTimed /\ TimerCoversTurn)'
  BY DEF IndInv, DispatcherLocals, ServiceLocals, TurnIsTimed, TimerCoversTurn, Front
<1>4. ScheduledMeansSubmitted'
  BY DEF IndInv, ScheduledMeansSubmitted
<1>5. Woken'
  <2>1. scheduled => orderedQueue # <<>>
    BY DEF IndInv, ScheduledMeansSubmitted
  <2> QED
    BY <2>1 DEF IndInv, Woken, Front
<1> QED
  BY <1>1, <1>2, <1>3, <1>4, <1>5 DEF IndInv

\* Submitting the task keeps the invariant.
LEMMA ServiceSubmitStep == IndInv /\ ServiceSubmit => IndInv'
<1> SUFFICES ASSUME IndInv, ServiceSubmit PROVE IndInv'
  OBVIOUS
<1> USE DEF ServiceSubmit, recordVars, dispatcherVars, clientVars
<1>1. /\ orderedQueue' \in Seq({"scheduled", "finished"})
      /\ orderedQueue' # <<>>
      /\ \E i \in DOMAIN orderedQueue' : orderedQueue'[i] = "scheduled"
  <2>1. orderedQueue \in Seq({"scheduled", "finished"})
    BY DEF IndInv, TypeOK, TaskTypeOK
  <2> QED
    BY <2>1, AppendedElements
<1>2. TypeOK'
  <2>1. TaskTypeOK' /\ ServiceTypeOK'
    BY <1>1 DEF IndInv, TypeOK, TaskTypeOK, ServiceTypeOK
  <2> QED
    BY <2>1, RecordFrame, DispatcherFrame, ClientFrame DEF IndInv, TypeOK
<1>3. (QueueIsInterval /\ BehindFrontUntouched /\ UnpublishedUntouched)'
  BY DEF IndInv, QueueIsInterval, First, BehindFrontUntouched, UnpublishedUntouched
<1>4. (DispatcherLocals /\ ServiceLocals /\ TurnIsTimed /\ TimerCoversTurn)'
  BY DEF IndInv, DispatcherLocals, ServiceLocals, TurnIsTimed, TimerCoversTurn, Front
<1>5. (ScheduledMeansSubmitted /\ Woken)'
  BY <1>1 DEF IndInv, ScheduledMeansSubmitted, Woken, Front
<1> QED
  BY <1>2, <1>3, <1>4, <1>5 DEF IndInv

\* Looking for the record a proxy is the current receiver of, on behalf of a
\* finish or an unsubscription, keeps the invariant: a match was dispatched.
LEMMA MatchOrderedReceiverStep ==
    ASSUME IndInv, NEW c \in Subscriber, NEW a \in Answer \cup {None},
           NEW otherwise \in {"idle", "remove"},
           spc = "idle", MatchOrderedReceiver(c, a, otherwise),
           UNCHANGED <<recordVars, orderedEventQueue, taskVars, dispatcherVars, loaded,
                       subscribed, isFreeze, frozenEvents>>,
           leaver' \in Subscriber \cup {None}, inbox' \in [Subscriber -> SUBSET Record]
    PROVE  IndInv'
<1> USE DEF MatchOrderedReceiver, recordVars, taskVars, dispatcherVars
<1>1. CASE orderedEventQueue # <<>> /\ curReceiver[Front] = c
  <2>1. Front \in Record /\ curReceiver[Front] # None
    BY <1>1, FrontIsFirst, NoneAssumption DEF IndInv
  <2>2. nextReceiver[Front] > 0
    BY <2>1 DEF IndInv, TurnIsTimed
  <2>3. spc' = "matched" /\ recordPtr' = Front /\ answer' = a
    BY <1>1
  <2>4. ServiceTypeOK' /\ ServiceLocals'
    BY <2>1, <2>2, <2>3 DEF IndInv, TypeOK, ServiceTypeOK, ServiceLocals
  <2>5. Woken' /\ ClientTypeOK'
    BY <2>3 DEF IndInv, TypeOK, Woken, Front, ClientTypeOK
  <2> QED
    BY <2>4, <2>5, RecordFrame, TaskFrame, DispatcherFrame, QueueFrame DEF IndInv, TypeOK
<1>2. CASE ~(orderedEventQueue # <<>> /\ curReceiver[Front] = c)
  <2>1. spc' = otherwise /\ UNCHANGED <<recordPtr, answer>>
    BY <1>2
  <2>2. ServiceTypeOK' /\ ServiceLocals'
    BY <2>1 DEF IndInv, TypeOK, ServiceTypeOK, ServiceLocals
  <2>3. Woken' /\ ClientTypeOK'
    BY <2>1 DEF IndInv, TypeOK, Woken, Front, ClientTypeOK
  <2> QED
    BY <2>2, <2>3, RecordFrame, TaskFrame, DispatcherFrame, QueueFrame DEF IndInv, TypeOK
<1> QED
  BY <1>1, <1>2

\* A finish request keeps the invariant ...
LEMMA FinishReceiverStep ==
    ASSUME IndInv, NEW c \in Subscriber, NEW r \in inbox[c], NEW abort \in BOOLEAN,
           FinishReceiver(c, r, abort)
    PROVE  IndInv'
<1>1. r \in Record /\ inbox' \in [Subscriber -> SUBSET Record]
  BY DEF FinishReceiver, IndInv, TypeOK, ClientTypeOK
<1>2. [about |-> r, from |-> c, abort |-> abort] \in Answer
  BY <1>1 DEF Answer
<1>3. leaver' \in Subscriber \cup {None}
  BY DEF FinishReceiver, IndInv, TypeOK, ServiceTypeOK
<1> QED
  BY <1>1, <1>2, <1>3, MatchOrderedReceiverStep DEF FinishReceiver

\* ... and so does an unsubscription, up to its removal of the subscriber.
LEMMA UnsubscribeCommonEventStep ==
    ASSUME IndInv, NEW c \in Subscriber, UnsubscribeCommonEvent(c)
    PROVE  IndInv'
<1>1. leaver' \in Subscriber \cup {None} /\ inbox' \in [Subscriber -> SUBSET Record]
  BY DEF UnsubscribeCommonEvent, IndInv, TypeOK, ClientTypeOK, clientVars
<1> QED
  BY <1>1, MatchOrderedReceiverStep DEF UnsubscribeCommonEvent, clientVars

\* A step that touches only the clients keeps the invariant.
LEMMA ClientStep ==
    ASSUME IndInv, ClientTypeOK',
           UNCHANGED <<recordVars, orderedEventQueue, taskVars, dispatcherVars, serviceVars>>
    PROVE  IndInv'
<1> USE DEF recordVars, taskVars, dispatcherVars, serviceVars
<1>1. TypeOK'
  BY DEF IndInv, TypeOK, RecordTypeOK, TaskTypeOK, DispatcherTypeOK, ServiceTypeOK, CursorInRange
<1>2. (QueueIsInterval /\ BehindFrontUntouched /\ UnpublishedUntouched)'
  BY DEF IndInv, QueueIsInterval, First, BehindFrontUntouched, UnpublishedUntouched
<1>3. (DispatcherLocals /\ ServiceLocals /\ TurnIsTimed /\ TimerCoversTurn)'
  BY DEF IndInv, DispatcherLocals, ServiceLocals, TurnIsTimed, TimerCoversTurn, Front
<1>4. (ScheduledMeansSubmitted /\ Woken)'
  BY DEF IndInv, ScheduledMeansSubmitted, Woken, Front
<1> QED
  BY <1>1, <1>2, <1>3, <1>4 DEF IndInv

\* Freezing and unfreezing keep the invariant.
LEMMA FreezeSteps ==
    ASSUME IndInv, NEW c \in Subscriber, Freeze(c) \/ Unfreeze(c)
    PROVE  IndInv'
<1>1. ClientTypeOK'
  BY DEF Freeze, Unfreeze, IndInv, TypeOK, ClientTypeOK
<1> QED
  BY <1>1, ClientStep DEF Freeze, Unfreeze

\* Removing an unsubscribed subscriber keeps the invariant.
LEMMA RemoveSubscriberStep == IndInv /\ RemoveSubscriber => IndInv'
<1> SUFFICES ASSUME IndInv, RemoveSubscriber PROVE IndInv'
  OBVIOUS
<1> USE DEF RemoveSubscriber, recordVars, taskVars, dispatcherVars
<1>1. ClientTypeOK' /\ ServiceTypeOK' /\ ServiceLocals'
  BY DEF IndInv, TypeOK, ClientTypeOK, ServiceTypeOK, ServiceLocals
<1>2. Woken'
  BY DEF IndInv, Woken, Front
<1> QED
  BY <1>1, <1>2, RecordFrame, TaskFrame, DispatcherFrame, QueueFrame DEF IndInv, TypeOK

\* Loading the state keeps the invariant.
LEMMA FinishLoadStateStep == IndInv /\ FinishLoadState => IndInv'
<1> SUFFICES ASSUME IndInv, FinishLoadState PROVE IndInv'
  OBVIOUS
<1> USE DEF FinishLoadState, recordVars, taskVars, dispatcherVars, clientVars
<1>1. ServiceTypeOK' /\ ServiceLocals'
  BY DEF IndInv, TypeOK, RecordTypeOK, ServiceTypeOK, ServiceLocals
<1>2. Woken'
  BY DEF IndInv, Woken, Front
<1> QED
  BY <1>1, <1>2, RecordFrame, TaskFrame, DispatcherFrame, ClientFrame, QueueFrame
     DEF IndInv, TypeOK

\* Storing IDLE keeps the invariant: an idle record needs no timeout task.
LEMMA FinishStoreIdleStep == IndInv /\ FinishStoreIdle => IndInv'
<1> SUFFICES ASSUME IndInv, FinishStoreIdle PROVE IndInv'
  OBVIOUS
<1> USE DEF FinishStoreIdle, taskVars, dispatcherVars, clientVars
<1>1. recordPtr \in Record
  BY DEF IndInv, ServiceLocals
<1>2. /\ state' \in [Record -> {IDLE, RECEIVING, RECEIVED}]
      /\ \A r \in Record : state'[r] = state[r] \/ state'[r] = IDLE
  BY <1>1 DEF IndInv, TypeOK, RecordTypeOK
<1>3. RecordTypeOK' /\ ServiceTypeOK' /\ ServiceLocals'
  BY <1>2 DEF IndInv, TypeOK, RecordTypeOK, ServiceTypeOK, ServiceLocals
<1>4. (BehindFrontUntouched /\ UnpublishedUntouched)'
  BY <1>2 DEF IndInv, BehindFrontUntouched, UnpublishedUntouched, First
<1>5. TurnIsTimed' /\ Woken'
  BY <1>2, FrontIsFirst DEF IndInv, TurnIsTimed, Woken, Front
<1> QED
  BY <1>3, <1>4, <1>5 DEF IndInv, TypeOK, TaskTypeOK, DispatcherTypeOK, ClientTypeOK,
       CursorInRange, QueueIsInterval, First, DispatcherLocals, TimerCoversTurn,
       ScheduledMeansSubmitted, Front

\* The rest of FinishReceiver keeps the invariant: the record it answered was
\* dispatched, so if it does not submit a task the timeout task is pending.
LEMMA FinishApplyStep == IndInv /\ FinishApply => IndInv'
<1> SUFFICES ASSUME IndInv, FinishApply PROVE IndInv'
  OBVIOUS
<1> USE DEF FinishApply, dispatcherVars, clientVars
<1>1. recordPtr \in Record
  BY DEF IndInv, ServiceLocals
<1>2. /\ curReceiver' \in [Record -> Subscriber \cup {None}]
      /\ \A r \in Record : curReceiver'[r] = curReceiver[r] \/ curReceiver'[r] = None
  BY <1>1 DEF IndInv, TypeOK, RecordTypeOK
<1>3. result' \in [Record -> Answer \cup {None}] /\ resultAbort' \in [Record -> BOOLEAN]
  <2>1. answer # None => answer.abort \in BOOLEAN
    BY DEF IndInv, TypeOK, ServiceTypeOK, Answer
  <2>2. result \in [Record -> Answer \cup {None}] /\ resultAbort \in [Record -> BOOLEAN]
        /\ answer \in Answer \cup {None}
    BY DEF IndInv, TypeOK, RecordTypeOK, ServiceTypeOK
  <2>3. CASE answer = None
    BY <2>2, <2>3, Zenon
  <2>4. CASE answer # None
    <3>1. answer \in Answer \cup {None} /\ answer.abort \in BOOLEAN
      BY <2>1, <2>2, <2>4, Zenon
    <3>2. /\ result' = [result EXCEPT ![recordPtr] = answer]
          /\ resultAbort' = [resultAbort EXCEPT ![recordPtr] = answer.abort]
      BY <2>4, Zenon
    <3>3. result' \in [Record -> Answer \cup {None}]
      BY <1>1, <2>2, <3>1, <3>2
    <3>4. resultAbort' \in [Record -> BOOLEAN]
      BY <1>1, <2>2, <3>1, <3>2
    <3> QED
      BY <3>3, <3>4
  <2> QED
    BY <2>3, <2>4
<1>4. /\ orderedQueue' \in Seq({"scheduled", "finished"})
      /\ orderedQueue # <<>> => orderedQueue' # <<>>
      /\ \A i \in DOMAIN orderedQueue :
            i \in DOMAIN orderedQueue' /\ orderedQueue'[i] = orderedQueue[i]
  <2>1. orderedQueue \in Seq({"scheduled", "finished"})
    BY DEF IndInv, TypeOK, TaskTypeOK
  <2> QED
    BY <2>1, AppendedElements
<1>5. RecordTypeOK'
  BY <1>2, <1>3 DEF IndInv, TypeOK, RecordTypeOK
<1>6. TaskTypeOK' /\ ServiceTypeOK' /\ ServiceLocals'
  BY <1>4 DEF IndInv, TypeOK, TaskTypeOK, ServiceTypeOK, ServiceLocals, IDLE
<1>7. (BehindFrontUntouched /\ UnpublishedUntouched)'
  BY <1>2 DEF IndInv, BehindFrontUntouched, UnpublishedUntouched, First
<1>8. (TurnIsTimed /\ ScheduledMeansSubmitted /\ Woken)'
  BY <1>2, <1>4 DEF IndInv, TurnIsTimed, ScheduledMeansSubmitted, Woken, Front
<1> QED
  BY <1>5, <1>6, <1>7, <1>8 DEF IndInv, TypeOK, DispatcherTypeOK, ClientTypeOK,
       CursorInRange, QueueIsInterval, First, DispatcherLocals, TimerCoversTurn, Front

(***************************************************************************)
(* The steps of the dispatcher                                             *)
(***************************************************************************)

\* Taking a task from the queue keeps the invariant: a "scheduled" one takes
\* scheduled_ down with it.
LEMMA StartProcessNextStep == IndInv /\ StartProcessNext => IndInv'
<1> SUFFICES ASSUME IndInv, StartProcessNext PROVE IndInv'
  OBVIOUS
<1> USE DEF StartProcessNext, recordVars, serviceVars, clientVars
<1>1. orderedQueue \in Seq({"scheduled", "finished"}) /\ orderedQueue # <<>>
  BY DEF IndInv, TypeOK, TaskTypeOK
<1>2. orderedQueue' \in Seq({"scheduled", "finished"})
  BY <1>1, TailElements
<1>3. scheduled' \in BOOLEAN
  BY DEF ScheduledAfterStart
<1>4. TypeOK'
  BY <1>2, <1>3 DEF IndInv, TypeOK, RecordTypeOK, TaskTypeOK, DispatcherTypeOK, ServiceTypeOK,
         ClientTypeOK, CursorInRange
<1>5. ScheduledMeansSubmitted'
  <2> SUFFICES ASSUME scheduled' PROVE \E i \in DOMAIN orderedQueue' : orderedQueue'[i] = "scheduled"
    BY DEF ScheduledMeansSubmitted
  <2>1. scheduled /\ Head(orderedQueue) # "scheduled"
    BY DEF ScheduledAfterStart
  <2>2. PICK i \in DOMAIN orderedQueue : orderedQueue[i] = "scheduled"
    BY <2>1 DEF IndInv, ScheduledMeansSubmitted
  <2>3. i \in 1..Len(orderedQueue) /\ i # 1
    BY <1>1, <2>1, <2>2
  <2>4. i - 1 \in DOMAIN Tail(orderedQueue) /\ Tail(orderedQueue)[i - 1] = orderedQueue[i]
    BY <1>1, <2>3
  <2> QED
    BY <2>2, <2>4
<1>6. (QueueIsInterval /\ BehindFrontUntouched /\ UnpublishedUntouched)'
  BY DEF IndInv, QueueIsInterval, First, BehindFrontUntouched, UnpublishedUntouched
<1>7. (DispatcherLocals /\ ServiceLocals /\ TurnIsTimed /\ TimerCoversTurn /\ Woken)'
  BY DEF IndInv, DispatcherLocals, ServiceLocals, TurnIsTimed, TimerCoversTurn, Woken, Front,
         InTurn
<1> QED
  BY <1>4, <1>5, <1>6, <1>7 DEF IndInv

\* Removing the front record keeps the invariant: the record behind it has
\* not been touched, so that it needs no timeout task, and the dispatcher is
\* still in its loop.
LEMMA SelectRemoveStep == IndInv /\ SelectRemove => IndInv'
<1> SUFFICES ASSUME IndInv, SelectRemove PROVE IndInv'
  OBVIOUS
<1> USE DEF SelectRemove, serviceVars, clientVars
<1>1. /\ orderedEventQueue \in Seq(Record) /\ removedRecords \in Seq(Record)
      /\ orderedEventQueue # <<>> /\ published \in Nat
      /\ Len(orderedEventQueue) <= published
  BY BoundAssumption
     DEF IndInv, TypeOK, RecordTypeOK, TaskTypeOK, DispatcherTypeOK, QueueIsInterval
<1>2. Front = First /\ Front \in Record /\ Front \in Nat /\ Front <= published
  BY FrontIsFirst DEF IndInv
<1>3. /\ orderedEventQueue' = Tail(orderedEventQueue)
      /\ orderedEventQueue' \in Seq(Record) /\ removedRecords' \in Seq(Record)
      /\ Len(orderedEventQueue) \in Nat \ {0}
      /\ Len(orderedEventQueue') = Len(orderedEventQueue) - 1
  BY <1>1, <1>2, TailElements, AppendedElements DEF Front
<1>4. First' = First + 1 /\ First \in Nat
  BY <1>1, <1>2, <1>3 DEF First
<1>5. /\ state' \in [Record -> {IDLE, RECEIVING, RECEIVED}]
      /\ curReceiver' \in [Record -> Subscriber \cup {None}]
      /\ \A r \in Record : state'[r] = state[r] \/ state'[r] = IDLE
      /\ \A r \in Record : curReceiver'[r] = curReceiver[r] \/ curReceiver'[r] = None
  BY <1>2 DEF TimeOutReceiver, IndInv, TypeOK, RecordTypeOK
<1>6. /\ deliveryState' \in [Record -> Seq({PENDING, DELIVERED, SKIPPED, TIMEOUT})]
      /\ CursorInRange'
  <2>1. CASE ForceReceive(Front)
    BY <1>2, <2>1, DeliveryStateTyped DEF ForceReceive, TimeOutReceiver, IndInv
  <2>2. CASE ~ForceReceive(Front)
    BY <2>2 DEF IndInv, TypeOK, RecordTypeOK, CursorInRange
  <2> QED
    BY <2>1, <2>2
<1>7. RecordTypeOK'
  BY <1>5, <1>6 DEF IndInv, TypeOK, RecordTypeOK
<1>8. TaskTypeOK' /\ DispatcherTypeOK'
  BY <1>3, TimeoutAssumption DEF IndInv, TypeOK, TaskTypeOK, DispatcherTypeOK, CancelTimeout
<1>9. TypeOK'
  BY <1>6, <1>7, <1>8 DEF IndInv, TypeOK, ServiceTypeOK, ClientTypeOK
<1>10. QueueIsInterval'
  <2>1. \A i \in DOMAIN orderedEventQueue' : orderedEventQueue'[i] = First' + i - 1
    <3> SUFFICES ASSUME NEW i \in DOMAIN orderedEventQueue'
                 PROVE  orderedEventQueue'[i] = First' + i - 1
      OBVIOUS
    <3>1. i \in Nat
      BY <1>3, LenProperties
    <3>2. i + 1 \in DOMAIN orderedEventQueue /\ orderedEventQueue'[i] = orderedEventQueue[i + 1]
      BY <1>1, <1>3, TailElements
    <3>3. orderedEventQueue[i + 1] = First + (i + 1) - 1
      BY <3>2 DEF IndInv, QueueIsInterval
    <3> QED
      BY <1>4, <3>1, <3>2, <3>3
  <2> QED
    BY <1>1, <1>3, <2>1 DEF QueueIsInterval
<1>11. (BehindFrontUntouched /\ UnpublishedUntouched)'
  BY <1>4, <1>5 DEF IndInv, BehindFrontUntouched, UnpublishedUntouched, Record
<1>12. (DispatcherLocals /\ ServiceLocals)'
  BY DEF IndInv, DispatcherLocals, ServiceLocals, InTurn
<1>13. TurnIsTimed'
  <2>1. orderedEventQueue' # <<>> => Front' \in Record /\ Front' > First
    <3>1. orderedEventQueue' # <<>> => Front' = First' /\ Front' \in Record
      BY <1>1, <1>3, <1>10, HeadOfInterval DEF Front, First, QueueIsInterval
    <3> QED
      BY <1>4, <3>1
  <2>2. orderedEventQueue' # <<>> => state'[Front'] = IDLE
    BY <1>5, <2>1 DEF IndInv, BehindFrontUntouched
  <2>3. \A r \in Record : state'[r] # IDLE \/ curReceiver'[r] # None => nextReceiver'[r] > 0
    BY <1>5 DEF IndInv, TurnIsTimed
  <2> QED
    BY <2>2, <2>3 DEF TurnIsTimed
<1>14. (TimerCoversTurn /\ ScheduledMeansSubmitted /\ Woken)'
  BY DEF IndInv, TimerCoversTurn, ScheduledMeansSubmitted, Woken, CancelTimeout
<1> QED
  BY <1>9, <1>10, <1>11, <1>12, <1>13, <1>14 DEF IndInv

\* Leaving the loop keeps the invariant: when nothing is selected, the front
\* record is with a receiver and the timeout task is pending for it.
LEMMA SelectDoneStep == IndInv /\ SelectDone => IndInv'
<1> SUFFICES ASSUME IndInv, SelectDone PROVE IndInv'
  OBVIOUS
<1> USE DEF SelectDone, recordVars, taskVars, serviceVars, clientVars
<1>1. orderedEventQueue # <<>> => Front \in Record
  BY FrontIsFirst DEF IndInv
<1>2. TypeOK'
  <2>1. DispatcherTypeOK'
    BY <1>1 DEF IndInv, TypeOK, TaskTypeOK, DispatcherTypeOK, AfterSelect
  <2> QED
    BY <2>1, RecordFrame, TaskFrame, ServiceFrame, ClientFrame DEF IndInv, TypeOK
<1>3. sp' # None => /\ orderedEventQueue # <<>> /\ sp' = Front /\ sp' \in Record
                    /\ nextReceiver[sp'] < Len(receivers[sp'])
  <2>1. orderedEventQueue # <<>> =>
            nextReceiver[Front] \in Nat /\ Len(receivers[Front]) \in Nat
    BY <1>1, LenProperties DEF IndInv, TypeOK, RecordTypeOK
  <2> QED
    BY <1>1, <2>1 DEF ShouldRemove
<1>4. (QueueIsInterval /\ BehindFrontUntouched /\ UnpublishedUntouched)'
  BY DEF IndInv, QueueIsInterval, First, BehindFrontUntouched, UnpublishedUntouched
<1>5. /\ dpc' \in {"idle", "final", "prepare"}
      /\ dpc' = "final" <=> removedRecords # <<>>
      /\ dpc' = "prepare" => sp' # None
      /\ dpc' = "idle" => sp' = None
  BY DEF AfterSelect
<1>6. (DispatcherLocals /\ ServiceLocals)'
  BY <1>3, <1>5 DEF IndInv, DispatcherLocals, ServiceLocals, InTurn, Front
<1>7. sp' = None /\ orderedEventQueue # <<>> => nextReceiver[Front] > 0 /\ timer # Off
  <2>1. sp' = None /\ orderedEventQueue # <<>> => state[Front] # IDLE
    BY <1>1, NoneAssumption
  <2> QED
    BY <1>1, <2>1 DEF IndInv, TurnIsTimed
<1>8. (TurnIsTimed /\ TimerCoversTurn /\ ScheduledMeansSubmitted /\ Woken)'
  BY <1>5, <1>7 DEF IndInv, TurnIsTimed, TimerCoversTurn, ScheduledMeansSubmitted, Woken, Front
<1> QED
  BY <1>2, <1>4, <1>6, <1>8 DEF IndInv

\* Telling the publisher keeps the invariant.
LEMMA HandleFinalSubscriberStep == IndInv /\ HandleFinalSubscriber => IndInv'
<1> SUFFICES ASSUME IndInv, HandleFinalSubscriber PROVE IndInv'
  OBVIOUS
<1> DEFINE r == Head(removedRecords)
<1> USE DEF HandleFinalSubscriber, taskVars, serviceVars
<1>1. removedRecords \in Seq(Record) /\ removedRecords # <<>>
  BY DEF IndInv, TypeOK, DispatcherTypeOK, DispatcherLocals
<1>2. r \in Record /\ removedRecords' \in Seq(Record)
  BY <1>1, TailElements
<1>3. resultTo' \in [Record -> Subscriber \cup {None}]
  BY <1>2 DEF IndInv, TypeOK, RecordTypeOK
<1>4. inbox' \in [Subscriber -> SUBSET Record]
  <2>1. CASE UNCHANGED inbox
    BY <2>1 DEF IndInv, TypeOK, ClientTypeOK
  <2>2. CASE resultTo[r] # None /\ inbox' = [inbox EXCEPT ![resultTo[r]] = @ \cup {r}]
    BY <1>2, <2>2 DEF IndInv, TypeOK, RecordTypeOK, ClientTypeOK
  <2> QED
    BY <2>1, <2>2
<1>5. /\ dpc' \in {"idle", "final", "prepare"}
      /\ dpc' = "final" <=> removedRecords' # <<>>
      /\ dpc' = "prepare" => sp # None
      /\ dpc' = "idle" => sp = None
  BY DEF AfterSelect
<1>6. RecordTypeOK' /\ TaskTypeOK' /\ DispatcherTypeOK'
  BY <1>2, <1>3, <1>5 DEF IndInv, TypeOK, RecordTypeOK, TaskTypeOK, DispatcherTypeOK
<1>7. TypeOK'
  BY <1>4, <1>6 DEF IndInv, TypeOK, ServiceTypeOK, ClientTypeOK, CursorInRange
<1>8. (QueueIsInterval /\ BehindFrontUntouched /\ UnpublishedUntouched)'
  BY DEF IndInv, QueueIsInterval, First, BehindFrontUntouched, UnpublishedUntouched
<1>9. (DispatcherLocals /\ ServiceLocals)'
  BY <1>5 DEF IndInv, DispatcherLocals, ServiceLocals, InTurn, Front
<1>10. (TurnIsTimed /\ TimerCoversTurn /\ ScheduledMeansSubmitted /\ Woken)'
  BY <1>5 DEF IndInv, TurnIsTimed, TimerCoversTurn, ScheduledMeansSubmitted, Woken, Front
<1> QED
  BY <1>7, <1>8, <1>9, <1>10 DEF IndInv

\* What the invariant says of the record in turn: it is the front one, so no
\* other record is concerned by a write to it.
LEMMA InTurnRecord ==
    ASSUME IndInv, dpc \in InTurn
    PROVE  /\ orderedEventQueue # <<>> /\ sp = Front /\ sp \in Record
           /\ sp = First /\ sp <= published /\ sp \in Nat
           /\ First \in Nat /\ published \in Nat
<1>1. orderedEventQueue # <<>> /\ sp = Front
  BY DEF IndInv, DispatcherLocals
<1> QED
  BY <1>1, FrontIsFirst, BoundAssumption DEF IndInv, TypeOK, RecordTypeOK

\* Advancing the cursor and arming the timeout keep the invariant.
LEMMA PrepareNextReceiverRecordStep == IndInv /\ PrepareNextReceiverRecord => IndInv'
<1> SUFFICES ASSUME IndInv, PrepareNextReceiverRecord PROVE IndInv'
  OBVIOUS
<1> USE DEF PrepareNextReceiverRecord, serviceVars, clientVars
<1>1. /\ orderedEventQueue # <<>> /\ sp = Front /\ sp \in Record /\ sp = First
      /\ sp <= published /\ sp \in Nat /\ published \in Nat
  BY InTurnRecord DEF InTurn
<1>2. nextReceiver[sp] \in Nat /\ nextReceiver[sp] < Len(receivers[sp])
  BY <1>1 DEF IndInv, DispatcherLocals, TypeOK, RecordTypeOK
<1>3. /\ nextReceiver' \in [Record -> Nat]
      /\ nextReceiver'[sp] = nextReceiver[sp] + 1
      /\ \A r \in Record : r # sp => nextReceiver'[r] = nextReceiver[r]
      /\ \A r \in Record : nextReceiver[r] > 0 => nextReceiver'[r] > 0
  BY <1>1, <1>2 DEF IndInv, TypeOK, RecordTypeOK
<1>4. timer' # Off /\ timer' \in 0..TIMEOUT_TICKS
  BY TimeoutAssumption DEF SetTimeout, Off, IndInv, TypeOK, TaskTypeOK
<1>5. RecordTypeOK' /\ TaskTypeOK' /\ DispatcherTypeOK'
  <2>1. RecordTypeOK'
    BY <1>3 DEF IndInv, TypeOK, RecordTypeOK
  <2>2. TaskTypeOK'
    BY <1>4, TimeoutAssumption DEF IndInv, TypeOK, TaskTypeOK
  <2>3. DispatcherTypeOK'
    BY DEF IndInv, TypeOK, DispatcherTypeOK
  <2> QED
    BY <2>1, <2>2, <2>3
<1>6. CursorInRange'
  <2> SUFFICES ASSUME NEW r \in Record
               PROVE  /\ Len(deliveryState'[r]) = Len(receivers'[r])
                      /\ nextReceiver'[r] <= Len(receivers'[r])
    BY DEF CursorInRange
  <2>1. Len(receivers[r]) \in Nat
    BY LenProperties DEF IndInv, TypeOK, RecordTypeOK
  <2> QED
    BY <1>2, <1>3, <2>1 DEF IndInv, TypeOK, CursorInRange
<1>7. TypeOK'
  BY <1>5, <1>6 DEF IndInv, TypeOK, ServiceTypeOK, ClientTypeOK
<1>8. (QueueIsInterval /\ BehindFrontUntouched /\ UnpublishedUntouched)'
  BY <1>1, <1>3 DEF IndInv, QueueIsInterval, First, BehindFrontUntouched, UnpublishedUntouched
<1>9. DispatcherLocals'
  BY <1>1, <1>2, <1>3 DEF IndInv, DispatcherLocals, InTurn, Front
<1>10. ServiceLocals'
  BY <1>3 DEF IndInv, ServiceLocals
<1>11. (TurnIsTimed /\ TimerCoversTurn /\ ScheduledMeansSubmitted /\ Woken)'
  BY <1>1, <1>2, <1>3, <1>4
     DEF IndInv, TurnIsTimed, TimerCoversTurn, ScheduledMeansSubmitted, Woken, Front
<1> QED
  BY <1>7, <1>8, <1>9, <1>10, <1>11 DEF IndInv

\* A step of the dispatcher that, in the turn of a receiver, writes the
\* record's state, current receiver and delivery state and goes on with the
\* turn keeps the invariant: the timeout task is pending throughout.
LEMMA TurnGoesOn ==
    ASSUME IndInv, dpc \in {"notify", "sent", "failed"}, dpc' \in {"sent", "failed", "check"},
           state' \in [Record -> {IDLE, RECEIVING, RECEIVED}],
           curReceiver' \in [Record -> Subscriber \cup {None}],
           \A r \in Record : r # sp => state'[r] = state[r] /\ curReceiver'[r] = curReceiver[r],
           deliveryState' \in [Record -> Seq({PENDING, DELIVERED, SKIPPED, TIMEOUT})],
           CursorInRange', ClientTypeOK',
           UNCHANGED <<published, receivers, resultTo, nextReceiver, resultAbort, result,
                       orderedEventQueue, taskVars, sp, removedRecords, serviceVars>>
    PROVE  IndInv'
<1> USE DEF taskVars, serviceVars
<1>1. /\ orderedEventQueue # <<>> /\ sp = Front /\ sp \in Record /\ sp = First
      /\ sp <= published /\ sp \in Nat /\ published \in Nat
  BY InTurnRecord DEF InTurn
<1>2. nextReceiver[sp] > 0 /\ timer # Off
  BY DEF IndInv, DispatcherLocals, TurnIsTimed
<1>3. TypeOK'
  <2>1. RecordTypeOK'
    BY DEF IndInv, TypeOK, RecordTypeOK
  <2>2. TaskTypeOK' /\ DispatcherTypeOK' /\ ServiceTypeOK'
    BY DEF IndInv, TypeOK, TaskTypeOK, DispatcherTypeOK, ServiceTypeOK
  <2> QED
    BY <2>1, <2>2 DEF TypeOK
<1>4. (QueueIsInterval /\ BehindFrontUntouched /\ UnpublishedUntouched)'
  <2>1. QueueIsInterval' /\ First' = First
    BY DEF IndInv, QueueIsInterval, First
  <2>2. \A r \in Record : r > First \/ r > published => r # sp
    BY <1>1
  <2> QED
    BY <2>1, <2>2 DEF IndInv, BehindFrontUntouched, UnpublishedUntouched
<1>5. (DispatcherLocals /\ ServiceLocals)'
  BY <1>1, <1>2 DEF IndInv, DispatcherLocals, ServiceLocals, InTurn, Front
<1>6. (TurnIsTimed /\ TimerCoversTurn)'
  BY <1>1, <1>2 DEF IndInv, TurnIsTimed, TimerCoversTurn, Front
<1>7. (ScheduledMeansSubmitted /\ Woken)'
  BY <1>1, <1>2 DEF IndInv, ScheduledMeansSubmitted, Woken, Front
<1> QED
  BY <1>3, <1>4, <1>5, <1>6, <1>7 DEF IndInv

\* Skipping a frozen receiver keeps the invariant.
LEMMA NotifyFrozenSubscriberStep == IndInv /\ NotifyFrozenSubscriber => IndInv'
<1> SUFFICES ASSUME IndInv, NotifyFrozenSubscriber PROVE IndInv'
  OBVIOUS
<1> USE DEF NotifyFrozenSubscriber
<1>1. sp \in Record /\ nextReceiver[sp] > 0
  BY InTurnRecord DEF InTurn, IndInv, DispatcherLocals
<1>2. /\ deliveryState' \in [Record -> Seq({PENDING, DELIVERED, SKIPPED, TIMEOUT})]
      /\ CursorInRange'
  BY <1>1, DeliveryStateTyped DEF IndInv
<1>3. ClientTypeOK'
  BY <1>1, CurrentTyped DEF IndInv, TypeOK, ClientTypeOK
<1>4. /\ state' \in [Record -> {IDLE, RECEIVING, RECEIVED}]
      /\ curReceiver' \in [Record -> Subscriber \cup {None}]
      /\ \A r \in Record : r # sp => state'[r] = state[r] /\ curReceiver'[r] = curReceiver[r]
  BY <1>1 DEF IndInv, TypeOK, RecordTypeOK
<1> QED
  BY <1>2, <1>3, <1>4, TurnGoesOn

\* Notifying a receiver keeps the invariant, whatever becomes of the call.
LEMMA NotifyOrderedEventStep ==
    ASSUME IndInv, NEW outcome \in {"check", "sent", "failed"}, NotifyOrderedEvent(outcome)
    PROVE  IndInv'
<1> USE DEF NotifyOrderedEvent
<1>1. sp \in Record /\ nextReceiver[sp] > 0
  BY InTurnRecord DEF InTurn, IndInv, DispatcherLocals
<1>2. /\ deliveryState' \in [Record -> Seq({PENDING, DELIVERED, SKIPPED, TIMEOUT})]
      /\ CursorInRange'
  BY <1>1, DeliveryStateTyped DEF IndInv
<1>3. Current(sp) \in Subscriber
  BY <1>1, CurrentTyped DEF IndInv
<1>4. ClientTypeOK'
  BY <1>1, <1>3 DEF IndInv, TypeOK, ClientTypeOK
<1>5. /\ state' \in [Record -> {IDLE, RECEIVING, RECEIVED}]
      /\ curReceiver' \in [Record -> Subscriber \cup {None}]
      /\ \A r \in Record : r # sp => state'[r] = state[r] /\ curReceiver'[r] = curReceiver[r]
  BY <1>1, <1>3 DEF IndInv, TypeOK, RecordTypeOK
<1> QED
  BY <1>2, <1>4, <1>5, TurnGoesOn

\* Taking in the result of the call keeps the invariant.
LEMMA HandleOrderedNotifyResultStep == IndInv /\ HandleOrderedNotifyResult => IndInv'
<1> SUFFICES ASSUME IndInv, HandleOrderedNotifyResult PROVE IndInv'
  OBVIOUS
<1> USE DEF HandleOrderedNotifyResult, clientVars
<1>1. sp \in Record
  BY InTurnRecord DEF InTurn
<1>2. /\ state' \in [Record -> {IDLE, RECEIVING, RECEIVED}]
      /\ curReceiver' \in [Record -> Subscriber \cup {None}]
      /\ \A r \in Record : r # sp => state'[r] = state[r] /\ curReceiver'[r] = curReceiver[r]
  BY <1>1 DEF IndInv, TypeOK, RecordTypeOK, RECEIVED, SKIPPED
<1>3. CursorInRange' /\ ClientTypeOK'
      /\ deliveryState' \in [Record -> Seq({PENDING, DELIVERED, SKIPPED, TIMEOUT})]
  BY DEF IndInv, TypeOK, RecordTypeOK, CursorInRange, ClientTypeOK
<1> QED
  BY <1>2, <1>3, TurnGoesOn

\* Ending the turn keeps the invariant: without a receiver to wait for, a
\* task is submitted, and with one the timeout task is pending.
LEMMA CheckCurReceiverStep == IndInv /\ CheckCurReceiver => IndInv'
<1> SUFFICES ASSUME IndInv, CheckCurReceiver PROVE IndInv'
  OBVIOUS
<1> USE DEF CheckCurReceiver, serviceVars, clientVars
<1>1. orderedEventQueue # <<>> /\ sp = Front /\ sp \in Record /\ nextReceiver[sp] > 0
      /\ timer # Off
  BY InTurnRecord DEF InTurn, IndInv, DispatcherLocals, TurnIsTimed
<1>2. /\ scheduled' \in BOOLEAN /\ orderedQueue' \in Seq({"scheduled", "finished"})
      /\ ScheduledMeansSubmitted'
  <2>1. CASE curReceiver[sp] = None
    BY <2>1, DispatcherScheduleWakes DEF IndInv, TypeOK
  <2>2. CASE curReceiver[sp] # None
    BY <2>2 DEF IndInv, TypeOK, TaskTypeOK, ScheduledMeansSubmitted
  <2> QED
    BY <2>1, <2>2
<1>3. /\ state' \in [Record -> {IDLE, RECEIVING, RECEIVED}]
      /\ \A r \in Record : state'[r] = state[r] \/ state'[r] = IDLE
  BY <1>1 DEF IndInv, TypeOK, RecordTypeOK
<1>4. TypeOK'
  BY <1>2, <1>3 DEF IndInv, TypeOK, RecordTypeOK, TaskTypeOK, DispatcherTypeOK, ServiceTypeOK,
         ClientTypeOK, CursorInRange
<1>5. (QueueIsInterval /\ BehindFrontUntouched /\ UnpublishedUntouched)'
  BY <1>3 DEF IndInv, QueueIsInterval, First, BehindFrontUntouched, UnpublishedUntouched
<1>6. (DispatcherLocals /\ ServiceLocals)'
  BY DEF IndInv, DispatcherLocals, ServiceLocals, InTurn
<1>7. (TurnIsTimed /\ TimerCoversTurn /\ Woken)'
  BY <1>1, <1>3 DEF IndInv, TurnIsTimed, TimerCoversTurn, Woken, Front
<1> QED
  BY <1>2, <1>4, <1>5, <1>6, <1>7 DEF IndInv

\* The timeout task keeps the invariant up to HandleTimeoutReceiver.
LEMMA StartTimeoutStep == IndInv /\ StartTimeout => IndInv'
<1> SUFFICES ASSUME IndInv, StartTimeout PROVE IndInv'
  OBVIOUS
<1> USE DEF StartTimeout, recordVars, serviceVars, clientVars
<1>1. Front \in Record /\ nextReceiver[Front] > 0
  BY FrontIsFirst DEF IndInv, TimerCoversTurn, Off
<1>2. TypeOK'
  <2>1. TaskTypeOK' /\ DispatcherTypeOK'
    BY <1>1, TimeoutAssumption DEF SetTimeout, IndInv, TypeOK, TaskTypeOK, DispatcherTypeOK
  <2> QED
    BY <2>1 DEF IndInv, TypeOK, RecordTypeOK, ServiceTypeOK, ClientTypeOK, CursorInRange
<1>3. (QueueIsInterval /\ BehindFrontUntouched /\ UnpublishedUntouched)'
  BY DEF IndInv, QueueIsInterval, First, BehindFrontUntouched, UnpublishedUntouched
<1>4. (DispatcherLocals /\ ServiceLocals)'
  BY <1>1 DEF IndInv, DispatcherLocals, ServiceLocals, InTurn, Front
<1>5. StillInTime => timer' # Off
  BY TimeoutAssumption DEF SetTimeout, Off
<1>6. (TurnIsTimed /\ TimerCoversTurn /\ ScheduledMeansSubmitted /\ Woken)'
  BY <1>1, <1>5
     DEF IndInv, TurnIsTimed, TimerCoversTurn, ScheduledMeansSubmitted, Woken, Front
<1> QED
  BY <1>2, <1>3, <1>4, <1>6 DEF IndInv

\* Timing a receiver out keeps the invariant: the next round is scheduled.
LEMMA HandleTimeoutReceiverStep == IndInv /\ HandleTimeoutReceiver => IndInv'
<1> SUFFICES ASSUME IndInv, HandleTimeoutReceiver PROVE IndInv'
  OBVIOUS
<1> USE DEF HandleTimeoutReceiver, TimeOutReceiver, serviceVars, clientVars
<1>1. /\ orderedEventQueue # <<>> /\ sp = Front /\ sp \in Record /\ nextReceiver[sp] > 0
  BY InTurnRecord DEF InTurn, IndInv, DispatcherLocals
<1>2. /\ scheduled' \in BOOLEAN /\ orderedQueue' \in Seq({"scheduled", "finished"})
      /\ ScheduledMeansSubmitted' /\ orderedQueue' # <<>>
  BY DispatcherScheduleWakes DEF IndInv, TypeOK
<1>3. /\ deliveryState' \in [Record -> Seq({PENDING, DELIVERED, SKIPPED, TIMEOUT})]
      /\ CursorInRange'
  BY <1>1, DeliveryStateTyped DEF IndInv
<1>4. /\ state' \in [Record -> {IDLE, RECEIVING, RECEIVED}] /\ state'[sp] = IDLE
      /\ curReceiver' \in [Record -> Subscriber \cup {None}]
      /\ \A r \in Record : state'[r] = state[r] \/ state'[r] = IDLE
      /\ \A r \in Record : curReceiver'[r] = curReceiver[r] \/ curReceiver'[r] = None
  BY <1>1 DEF IndInv, TypeOK, RecordTypeOK
<1>5. TypeOK'
  <2>1. RecordTypeOK'
    BY <1>3, <1>4 DEF IndInv, TypeOK, RecordTypeOK
  <2>2. TaskTypeOK' /\ DispatcherTypeOK'
    BY <1>2, TimeoutAssumption DEF IndInv, TypeOK, TaskTypeOK, DispatcherTypeOK
  <2> QED
    BY <1>3, <2>1, <2>2, ServiceFrame, ClientFrame DEF IndInv, TypeOK
<1>6. (QueueIsInterval /\ BehindFrontUntouched /\ UnpublishedUntouched)'
  BY <1>4 DEF IndInv, QueueIsInterval, First, BehindFrontUntouched, UnpublishedUntouched
<1>7. (DispatcherLocals /\ ServiceLocals)'
  BY DEF IndInv, DispatcherLocals, ServiceLocals, InTurn
<1>8. (TurnIsTimed /\ TimerCoversTurn /\ Woken)'
  BY <1>1, <1>2, <1>4 DEF IndInv, TurnIsTimed, TimerCoversTurn, Woken, Front
<1> QED
  BY <1>2, <1>5, <1>6, <1>7, <1>8 DEF IndInv

(***************************************************************************)
(* The theorems                                                            *)
(***************************************************************************)

\* IndInv is inductive: every step of the service, the dispatcher, a client
\* and the clock keeps it.
LEMMA IndInvStep == IndInv /\ [Next]_vars => IndInv'
<1> SUFFICES ASSUME IndInv, [Next]_vars PROVE IndInv'
  OBVIOUS
<1>1. CASE ServiceStep
  BY <1>1, ServiceReadScheduledStep, ServiceSubmitStep, FinishLoadStateStep,
     FinishStoreIdleStep, FinishApplyStep, RemoveSubscriberStep DEF ServiceStep
<1>2. CASE Request
  <2>1. CASE \E matched \in SUBSET subscribed, commonEventListener \in Listener \cup {None} :
                \E order \in PriorityOrders(matched) :
                    ProcessOrderedEvent(matched, order, commonEventListener)
    BY <2>1, ProcessOrderedEventStep
  <2>2. CASE \E c \in Subscriber : \E r \in inbox[c], abort \in BOOLEAN : FinishReceiver(c, r, abort)
    BY <2>2, FinishReceiverStep, Zenon
  <2>3. CASE \E c \in Subscriber : UnsubscribeCommonEvent(c)
    BY <2>3, UnsubscribeCommonEventStep
  <2>4. CASE \E c \in Subscriber : Freeze(c) \/ Unfreeze(c)
    BY <2>4, FreezeSteps
  <2> QED
    BY <1>2, <2>1, <2>2, <2>3, <2>4, Zenon DEF Request
<1>3. CASE DispatcherStep
  BY <1>3, StartProcessNextStep, SelectRemoveStep, SelectDoneStep, HandleFinalSubscriberStep,
     PrepareNextReceiverRecordStep, NotifyFrozenSubscriberStep, NotifyOrderedEventStep,
     HandleOrderedNotifyResultStep, CheckCurReceiverStep, StartTimeoutStep,
     HandleTimeoutReceiverStep DEF DispatcherStep
<1>4. CASE Tick
  BY <1>4, TickStep
<1>5. CASE UNCHANGED vars
  <2>1. ClientTypeOK'
    BY <1>5 DEF IndInv, TypeOK, ClientTypeOK, vars, clientVars
  <2> QED
    BY <1>5, <2>1, ClientStep DEF vars
<1> QED
  BY <1>1, <1>2, <1>3, <1>4, <1>5 DEF Next

\* IndInv holds throughout every behaviour of the ordered dispatch.
THEOREM Invariance == Spec => []IndInv
<1>1. Init => IndInv
  BY InitIndInv
<1>2. IndInv /\ [Next]_vars => IndInv'
  BY IndInvStep
<1> QED
  BY <1>1, <1>2, PTL DEF Spec

\* Every variable keeps its type, and the index nextReceiver - 1 with which
\* the code reads receivers and writes deliveryState stays in range.
THEOREM TypeCorrect == Spec => []TypeOK
<1>1. IndInv => TypeOK
  BY DEF IndInv
<1> QED
  BY <1>1, Invariance, PTL

\* No queued event is forgotten, although FinishReceiver loads the state
\* before it locks the record and drops the wake up when that was RECEIVING.
THEOREM NoLostWakeupHolds == Spec => []NoLostWakeup
<1>1. IndInv => NoLostWakeup
  BY DEF IndInv, Woken, NoLostWakeup
<1> QED
  BY <1>1, Invariance, PTL

\* The timeout task never finds the queue empty or an event that was not
\* handed to anybody.
THEOREM TimerCoversTurnHolds == Spec => []TimerCoversTurn
<1>1. IndInv => TimerCoversTurn
  BY DEF IndInv
<1> QED
  BY <1>1, Invariance, PTL

\* scheduled_ is up only while a task that clears it is submitted, although
\* two threads test and set it without a lock.
THEOREM ScheduledMeansSubmittedHolds == Spec => []ScheduledMeansSubmitted
<1>1. IndInv => ScheduledMeansSubmitted
  BY DEF IndInv
<1> QED
  BY <1>1, Invariance, PTL

(***************************************************************************)
(* What the receivers of an event can rely on: none of them is passed      *)
(* over, none is timed out early, and an event leaves the queue only when  *)
(* it is over.  The three rest on IndInv and on what DeliveryInv adds to   *)
(* it: the clock has run out when the dispatcher comes to time a receiver  *)
(* out, and an IDLE record is with nobody.                                 *)
(***************************************************************************)


\* A record without an event has no receivers.
UnpublishedEmpty == \A r \in Record : r > published => receivers[r] = <<>>

\* Between the test of CheckAndRescheduleTimeout and HandleTimeoutReceiver.
TimeoutIsDue == dpc = "timeout" => receiverAge = TIMEOUT_TICKS

\* A record is made IDLE after its current receiver is cleared, or by the
\* section of FinishReceiver that is about to clear it.
IdleIsFree == \A r \in Record : state[r] = IDLE => curReceiver[r] = None \/ RecordLocked(r)

\* A record that left the queue is with nobody.
LeftIsFree == \A r \in Record : r < First => curReceiver[r] = None \/ RecordLocked(r)

DeliveryInv ==
    /\ IndInv
    /\ NoReceiverSkipped
    /\ UnpublishedEmpty
    /\ TimeoutIsDue
    /\ IdleIsFree
    /\ LeftIsFree

(***************************************************************************)
(* The state at the cursor                                                 *)
(***************************************************************************)

\* Storing a delivery state at the cursor of one record leaves every other
\* receiver's alone.
LEMMA StoredAtCursor ==
    ASSUME TypeOK, NEW r \in Record, nextReceiver[r] > 0,
           NEW d \in {DELIVERED, SKIPPED, TIMEOUT},
           deliveryState' = [deliveryState EXCEPT ![r][nextReceiver[r]] = d]
    PROVE  \A q \in Record : \A i \in DOMAIN receivers[q] :
              deliveryState'[q][i] =
                  IF q = r /\ i = nextReceiver[r] THEN d ELSE deliveryState[q][i]
<1>1. deliveryState \in [Record -> Seq({PENDING, DELIVERED, SKIPPED, TIMEOUT})]
  BY DEF TypeOK, RecordTypeOK
<1>2. deliveryState' = [deliveryState EXCEPT ![r] =
                            [deliveryState[r] EXCEPT ![nextReceiver[r]] = d]]
  BY <1>1
<1> SUFFICES ASSUME NEW q \in Record, NEW i \in DOMAIN receivers[q]
             PROVE  deliveryState'[q][i] =
                        IF q = r /\ i = nextReceiver[r] THEN d ELSE deliveryState[q][i]
  OBVIOUS
<1>3. CASE q # r
  BY <1>1, <1>2, <1>3
<1>4. CASE q = r
  <2>1. receivers[r] \in Seq(Subscriber) /\ Len(deliveryState[r]) = Len(receivers[r])
    BY DEF TypeOK, RecordTypeOK, CursorInRange
  <2>2. i \in DOMAIN deliveryState[r]
    BY <1>1, <1>4, <2>1
  <2>3. deliveryState'[r] = [deliveryState[r] EXCEPT ![nextReceiver[r]] = d]
    BY <1>1, <1>2
  <2> QED
    BY <1>4, <2>2, <2>3
<1> QED
  BY <1>3, <1>4

\* The records of NoReceiverSkipped are records.
LEMMA PublishedAreRecords ==
    ASSUME TypeOK PROVE 1..published \subseteq Record /\ published \in Nat
BY BoundAssumption DEF TypeOK, RecordTypeOK, Record

(***************************************************************************)
(* NoReceiverSkipped                                                       *)
(***************************************************************************)

\* A step that touches no delivery state and no cursor, and does not end a
\* notification, passes over nobody.
LEMMA SkippedFrame ==
    ASSUME NoReceiverSkipped,
           UNCHANGED <<published, receivers, deliveryState, nextReceiver>>,
           dpc = "notify" => dpc' = dpc /\ sp' = sp
    PROVE  NoReceiverSkipped'
BY DEF NoReceiverSkipped

\* A receiver that gets its delivery state in its turn is not passed over.
LEMMA MarkedAtCursor ==
    ASSUME TypeOK, NoReceiverSkipped, NEW r \in Record, nextReceiver[r] > 0,
           NEW d \in {DELIVERED, SKIPPED, TIMEOUT},
           deliveryState' = [deliveryState EXCEPT ![r][nextReceiver[r]] = d],
           UNCHANGED <<published, receivers, nextReceiver>>,
           dpc = "notify" => sp = r
    PROVE  NoReceiverSkipped'
<1>1. \A q \in Record : \A i \in DOMAIN receivers[q] :
          deliveryState'[q][i] = IF q = r /\ i = nextReceiver[r] THEN d ELSE deliveryState[q][i]
  BY StoredAtCursor
<1> SUFFICES ASSUME NEW q \in 1..published, NEW i \in DOMAIN receivers[q]
             PROVE  /\ deliveryState'[q][i] = PENDING => i >= nextReceiver[q]
                    /\ ~(deliveryState'[q][i] = PENDING /\ i = nextReceiver[q])
                    /\ i > nextReceiver[q] => deliveryState'[q][i] = PENDING
  BY DEF NoReceiverSkipped
<1>2. q \in Record /\ d # PENDING
  BY PublishedAreRecords DEF PENDING, DELIVERED, SKIPPED, TIMEOUT
<1>3. /\ deliveryState[q][i] = PENDING => i >= nextReceiver[q]
      /\ deliveryState[q][i] = PENDING /\ i = nextReceiver[q] => q = r
      /\ i > nextReceiver[q] => deliveryState[q][i] = PENDING
  BY DEF NoReceiverSkipped
<1>4. nextReceiver[q] \in Nat /\ nextReceiver[r] \in Nat /\ receivers[q] \in Seq(Subscriber)
  BY <1>2 DEF TypeOK, RecordTypeOK
<1>5. i \in Nat
  BY <1>4
<1> QED
  BY <1>1, <1>2, <1>3, <1>4, <1>5

\* A new event: all of its receivers are ahead of the cursor.
LEMMA SkippedPublish ==
    ASSUME IndInv, NoReceiverSkipped, NEW matched, NEW order \in PriorityOrders(matched),
           NEW l, ProcessOrderedEvent(matched, order, l)
    PROVE  NoReceiverSkipped'
<1> DEFINE n == published + 1
<1>1. /\ n \in Record /\ published \in Nat /\ 1..published \subseteq Record /\ n \notin 1..published
      /\ published' = n /\ matched \subseteq Subscriber
  BY PublishedAreRecords, BoundAssumption
     DEF ProcessOrderedEvent, IndInv, TypeOK, ClientTypeOK, Record
<1>2. /\ receivers' = [receivers EXCEPT ![n] = order]
      /\ deliveryState' = [deliveryState EXCEPT ![n] = [i \in DOMAIN order |-> PENDING]]
      /\ nextReceiver' = nextReceiver /\ dpc' = dpc /\ sp' = sp
  BY DEF ProcessOrderedEvent, dispatcherVars
<1>3. /\ receivers \in [Record -> Seq(Subscriber)] /\ nextReceiver[n] = 0
      /\ deliveryState \in [Record -> Seq({PENDING, DELIVERED, SKIPPED, TIMEOUT})]
  BY <1>1 DEF IndInv, TypeOK, RecordTypeOK, UnpublishedUntouched
<1>4. order \in Seq(Subscriber)
  BY <1>1, PriorityOrdersAreSeqs
<1> SUFFICES ASSUME NEW q \in 1..published', NEW i \in DOMAIN receivers'[q]
             PROVE  /\ deliveryState'[q][i] = PENDING => i >= nextReceiver[q]
                    /\ deliveryState'[q][i] = PENDING /\ i = nextReceiver[q] => dpc = "notify" /\ sp = q
                    /\ i > nextReceiver[q] => deliveryState'[q][i] = PENDING
  BY <1>2 DEF NoReceiverSkipped
<1>5. CASE q = n
  <2>1. i \in DOMAIN order /\ deliveryState'[q][i] = PENDING
    BY <1>1, <1>2, <1>3, <1>5
  <2>2. i \in Nat /\ i > 0
    BY <1>4, <2>1
  <2> QED
    BY <1>3, <1>5, <2>1, <2>2
<1>6. CASE q # n
  <2>1. q \in 1..published
    BY <1>1, <1>6
  <2>2. receivers'[q] = receivers[q] /\ deliveryState'[q] = deliveryState[q]
    BY <1>1, <1>2, <1>3, <1>6, <2>1
  <2> QED
    BY <2>1, <2>2 DEF NoReceiverSkipped
<1> QED
  BY <1>5, <1>6

\* The cursor advances only past a receiver that has its delivery state.
LEMMA SkippedPrepare ==
    ASSUME IndInv, NoReceiverSkipped, PrepareNextReceiverRecord
    PROVE  NoReceiverSkipped'
<1>1. /\ UNCHANGED <<published, receivers, deliveryState, sp>> /\ dpc = "prepare" /\ dpc' = "notify"
      /\ nextReceiver' = [nextReceiver EXCEPT ![sp] = @ + 1]
  BY DEF PrepareNextReceiverRecord
<1>2. sp \in Record
  BY <1>1, InTurnRecord DEF InTurn
<1>3. nextReceiver \in [Record -> Nat] /\ receivers \in [Record -> Seq(Subscriber)]
  BY DEF IndInv, TypeOK, RecordTypeOK
<1> SUFFICES ASSUME NEW q \in 1..published, NEW i \in DOMAIN receivers[q]
             PROVE  /\ deliveryState[q][i] = PENDING => i >= nextReceiver'[q]
                    /\ deliveryState[q][i] = PENDING /\ i = nextReceiver'[q] => sp = q
                    /\ i > nextReceiver'[q] => deliveryState[q][i] = PENDING
  BY <1>1 DEF NoReceiverSkipped
<1>4. q \in Record
  BY PublishedAreRecords DEF IndInv
<1>5. i \in Nat /\ nextReceiver[q] \in Nat
  BY <1>3, <1>4
<1>6. /\ deliveryState[q][i] = PENDING => i > nextReceiver[q]
      /\ i > nextReceiver[q] => deliveryState[q][i] = PENDING
  BY <1>1, <1>5 DEF NoReceiverSkipped
<1>7. nextReceiver'[q] = IF q = sp THEN nextReceiver[q] + 1 ELSE nextReceiver[q]
  BY <1>1, <1>2, <1>3, <1>4
<1> QED
  BY <1>5, <1>6, <1>7

\* Every step of the service, the dispatcher, a client and the clock keeps
\* NoReceiverSkipped.
LEMMA SkippedStep == IndInv /\ NoReceiverSkipped /\ [Next]_vars => NoReceiverSkipped'
<1> SUFFICES ASSUME IndInv, NoReceiverSkipped, [Next]_vars PROVE NoReceiverSkipped'
  OBVIOUS
<1>0. TypeOK
  BY DEF IndInv
<1>1. CASE ServiceStep
  <2>1. UNCHANGED <<published, receivers, deliveryState, nextReceiver, dpc, sp>>
    BY <1>1 DEF ServiceStep, ServiceReadScheduled, ServiceSubmit, FinishLoadState, FinishStoreIdle,
                FinishApply, RemoveSubscriber, recordVars, dispatcherVars
  <2> QED
    BY <2>1, SkippedFrame
<1>2. CASE Request
  <2>1. CASE \E matched \in SUBSET subscribed, commonEventListener \in Listener \cup {None} :
                \E order \in PriorityOrders(matched) :
                    ProcessOrderedEvent(matched, order, commonEventListener)
    BY <2>1, SkippedPublish
  <2>2. CASE \E c \in Subscriber :
                \/ \E r \in inbox[c], abort \in BOOLEAN : FinishReceiver(c, r, abort)
                \/ UnsubscribeCommonEvent(c)
                \/ Freeze(c)
                \/ Unfreeze(c)
    <3>1. UNCHANGED <<published, receivers, deliveryState, nextReceiver, dpc, sp>>
      BY <2>2, Zenon DEF FinishReceiver, UnsubscribeCommonEvent, Freeze, Unfreeze, recordVars,
                         dispatcherVars
    <3> QED
      BY <3>1, SkippedFrame
  <2> QED
    BY <1>2, <2>1, <2>2, Zenon DEF Request
<1>3. CASE PrepareNextReceiverRecord
  BY <1>3, SkippedPrepare
<1>4. CASE NotifyFrozenSubscriber
  <2>1. sp \in Record /\ nextReceiver[sp] > 0
    BY <1>4, InTurnRecord DEF NotifyFrozenSubscriber, InTurn, IndInv, DispatcherLocals
  <2> QED
    BY <1>0, <1>4, <2>1, MarkedAtCursor DEF NotifyFrozenSubscriber
<1>5. CASE \E outcome \in {"check", "sent", "failed"} : NotifyOrderedEvent(outcome)
  <2>1. sp \in Record /\ nextReceiver[sp] > 0
    BY <1>5, InTurnRecord DEF NotifyOrderedEvent, InTurn, IndInv, DispatcherLocals
  <2>2. /\ deliveryState' = [deliveryState EXCEPT ![sp][nextReceiver[sp]] = DELIVERED]
        /\ UNCHANGED <<published, receivers, nextReceiver>>
    BY <1>5 DEF NotifyOrderedEvent
  <2> QED
    BY <1>0, <2>1, <2>2, MarkedAtCursor
<1>6. CASE HandleTimeoutReceiver
  <2>1. sp \in Record /\ nextReceiver[sp] > 0 /\ dpc # "notify"
    BY <1>6, InTurnRecord DEF HandleTimeoutReceiver, InTurn, IndInv, DispatcherLocals
  <2> QED
    BY <1>0, <1>6, <2>1, MarkedAtCursor DEF HandleTimeoutReceiver, TimeOutReceiver
<1>7. CASE SelectRemove
  <2>1. Front \in Record /\ dpc = "select" /\ UNCHANGED <<published, receivers, nextReceiver, dpc, sp>>
    BY <1>7, FrontIsFirst DEF SelectRemove, IndInv
  <2>2. CASE ForceReceive(Front)
    BY <1>0, <1>7, <2>1, <2>2, MarkedAtCursor DEF SelectRemove, TimeOutReceiver, ForceReceive
  <2>3. CASE ~ForceReceive(Front)
    BY <1>7, <2>1, <2>3, SkippedFrame DEF SelectRemove
  <2> QED
    BY <2>2, <2>3
<1>8. CASE \/ StartProcessNext \/ SelectDone \/ HandleFinalSubscriber
           \/ HandleOrderedNotifyResult \/ CheckCurReceiver \/ StartTimeout
  <2>1. UNCHANGED <<published, receivers, deliveryState, nextReceiver>> /\ dpc # "notify"
    BY <1>8 DEF StartProcessNext, SelectDone, HandleFinalSubscriber, HandleOrderedNotifyResult,
                CheckCurReceiver, StartTimeout, recordVars
  <2> QED
    BY <2>1, SkippedFrame
<1>9. CASE Tick \/ UNCHANGED vars
  BY <1>9, SkippedFrame DEF Tick, vars, recordVars, dispatcherVars
<1> QED
  BY <1>1, <1>2, <1>3, <1>4, <1>5, <1>6, <1>7, <1>8, <1>9 DEF Next, DispatcherStep

(***************************************************************************)
(* The clock and the holders of a record                                   *)
(***************************************************************************)

\* Only a publication gives a record its receivers.
LEMMA UnpublishedEmptyStep ==
    IndInv /\ UnpublishedEmpty /\ [Next]_vars => UnpublishedEmpty'
<1> SUFFICES ASSUME IndInv, UnpublishedEmpty, [Next]_vars PROVE UnpublishedEmpty'
  OBVIOUS
<1>1. CASE UNCHANGED <<published, receivers>>
  BY <1>1 DEF UnpublishedEmpty
<1>2. CASE \E matched \in SUBSET subscribed, commonEventListener \in Listener \cup {None} :
              \E order \in PriorityOrders(matched) :
                  ProcessOrderedEvent(matched, order, commonEventListener)
  <2>1. PICK order : receivers' = [receivers EXCEPT ![published + 1] = order] /\ published' = published + 1
    BY <1>2, Zenon DEF ProcessOrderedEvent
  <2>2. published \in Nat /\ receivers \in [Record -> Seq(Subscriber)]
    BY PublishedAreRecords DEF IndInv, TypeOK, RecordTypeOK
  <2> QED
    BY <2>1, <2>2, BoundAssumption DEF UnpublishedEmpty, Record
<1>3. CASE \E c \in Subscriber :
              \/ \E r \in inbox[c], abort \in BOOLEAN : FinishReceiver(c, r, abort)
              \/ UnsubscribeCommonEvent(c)
              \/ Freeze(c)
              \/ Unfreeze(c)
  <2>1. UNCHANGED <<published, receivers>>
    BY <1>3, Zenon DEF FinishReceiver, UnsubscribeCommonEvent, Freeze, Unfreeze, recordVars
  <2> QED
    BY <1>1, <2>1
<1>4. CASE ServiceStep
  BY <1>1, <1>4 DEF ServiceStep, ServiceReadScheduled, ServiceSubmit, FinishLoadState,
                    FinishStoreIdle, FinishApply, RemoveSubscriber, recordVars
<1>5. CASE DispatcherStep
  BY <1>1, <1>5 DEF DispatcherStep, StartProcessNext, SelectRemove, SelectDone,
                    HandleFinalSubscriber, PrepareNextReceiverRecord, NotifyFrozenSubscriber,
                    NotifyOrderedEvent, HandleOrderedNotifyResult, CheckCurReceiver, StartTimeout,
                    HandleTimeoutReceiver, recordVars
<1>6. CASE Tick \/ UNCHANGED vars
  BY <1>1, <1>6 DEF Tick, vars, recordVars
<1> QED
  BY <1>2, <1>3, <1>4, <1>5, <1>6, Zenon DEF Next, Request

\* Only the dispatcher winds the clock of a receiver back, and not between
\* the test of the timeout task and the time-out.
LEMMA TimeoutIsDueStep == IndInv /\ TimeoutIsDue /\ [Next]_vars => TimeoutIsDue'
<1> SUFFICES ASSUME IndInv, TimeoutIsDue, [Next]_vars PROVE TimeoutIsDue'
  OBVIOUS
<1>0. receiverAge \in 0..TIMEOUT_TICKS
  BY DEF IndInv, TypeOK, TaskTypeOK
<1>1. CASE UNCHANGED <<dpc, receiverAge>>
  BY <1>1 DEF TimeoutIsDue
<1>2. CASE ServiceStep \/ Request
  <2>1. UNCHANGED <<dispatcherVars, receiverAge>>
    BY <1>2, Zenon DEF ServiceStep, ServiceReadScheduled, ServiceSubmit, FinishLoadState,
                FinishStoreIdle, FinishApply, RemoveSubscriber, Request, ProcessOrderedEvent,
                FinishReceiver, UnsubscribeCommonEvent, Freeze, Unfreeze, taskVars
  <2> QED
    BY <1>1, <2>1 DEF dispatcherVars
<1>3. CASE StartTimeout
  BY <1>0, <1>3, TimeoutAssumption DEF StartTimeout, StillInTime, TimeoutIsDue
<1>4. CASE \/ StartProcessNext \/ SelectRemove \/ PrepareNextReceiverRecord
           \/ NotifyFrozenSubscriber \/ HandleOrderedNotifyResult \/ CheckCurReceiver
           \/ HandleTimeoutReceiver
  BY <1>4 DEF StartProcessNext, SelectRemove, PrepareNextReceiverRecord, NotifyFrozenSubscriber,
              HandleOrderedNotifyResult, CheckCurReceiver, HandleTimeoutReceiver, TimeoutIsDue
<1>5. CASE \E outcome \in {"check", "sent", "failed"} : NotifyOrderedEvent(outcome)
  BY <1>5 DEF NotifyOrderedEvent, TimeoutIsDue
<1>6. CASE SelectDone \/ HandleFinalSubscriber
  BY <1>6 DEF SelectDone, HandleFinalSubscriber, AfterSelect, TimeoutIsDue
<1>7. CASE Tick
  BY <1>0, <1>7, TimeoutAssumption DEF Tick, TimeoutIsDue, dispatcherVars
<1>8. CASE UNCHANGED vars
  BY <1>1, <1>8 DEF vars, dispatcherVars, taskVars
<1> QED
  BY <1>2, <1>3, <1>4, <1>5, <1>6, <1>7, <1>8 DEF Next, DispatcherStep

\* A record that is IDLE, or has left the queue, is with nobody.
Free == IdleIsFree /\ LeftIsFree

\* A step that touches neither the records' state nor the queue, and does not
\* leave the locked section, keeps that.
LEMMA FreeFrame ==
    ASSUME Free, UNCHANGED <<state, curReceiver>>, First' = First,
           \A r \in Record : RecordLocked(r) => RecordLocked(r)'
    PROVE  Free'
BY DEF Free, IdleIsFree, LeftIsFree

\* A step that ends the turn of a record, or goes on with the front one's in a
\* state that is not IDLE, keeps it.
LEMMA FreeTurn ==
    ASSUME Free, NEW r \in Record,
           state \in [Record -> {IDLE, RECEIVING, RECEIVED}],
           curReceiver \in [Record -> Subscriber \cup {None}],
           \A q \in Record : q # r => state'[q] = state[q] /\ curReceiver'[q] = curReceiver[q],
           curReceiver'[r] = None \/ (state'[r] # IDLE /\ ~(r < First)),
           First' = First, \A q \in Record : RecordLocked(q) => RecordLocked(q)'
    PROVE  Free'
BY DEF Free, IdleIsFree, LeftIsFree

\* The requests of clients leave the records' holders alone: the service is not
\* in the section of FinishReceiver when it takes one.
LEMMA FreeRequest ==
    ASSUME IndInv, Free, Request
    PROVE  Free'
<1>1. ~(spc = "locked") /\ UNCHANGED <<state, curReceiver>>
  BY Zenon DEF Request, ProcessOrderedEvent, FinishReceiver, UnsubscribeCommonEvent, Freeze,
               Unfreeze, recordVars
<1>2. published \in Nat /\ orderedEventQueue \in Seq(Record)
  BY PublishedAreRecords DEF IndInv, TypeOK, TaskTypeOK
<1>3. \/ UNCHANGED <<published, orderedEventQueue>>
      \/ published' = published + 1 /\ orderedEventQueue' = Append(orderedEventQueue, published + 1)
  BY Zenon DEF Request, ProcessOrderedEvent, FinishReceiver, UnsubscribeCommonEvent, Freeze,
               Unfreeze, recordVars
<1>4. First' = First
  <2>1. CASE UNCHANGED <<published, orderedEventQueue>>
    BY <2>1 DEF First
  <2>2. CASE published' = published + 1 /\ orderedEventQueue' = Append(orderedEventQueue, published + 1)
    BY <1>2, <2>2 DEF First
  <2> QED
    BY <1>3, <2>1, <2>2
<1>5. \A r \in Record : ~RecordLocked(r)
  BY <1>1 DEF RecordLocked
<1> QED
  BY <1>1, <1>4, <1>5, FreeFrame

\* A record leaves the queue when it is IDLE or has just been timed out.
LEMMA FreeSelectRemove ==
    ASSUME IndInv, Free, SelectRemove
    PROVE  Free' /\ (curReceiver'[Front] = None \/ RecordLocked(Front))
<1>1. /\ Front = First /\ Front \in Record /\ orderedEventQueue \in Seq(Record)
      /\ orderedEventQueue # <<>> /\ published \in Nat
  BY FrontIsFirst, PublishedAreRecords DEF SelectRemove, IndInv, TypeOK, TaskTypeOK
<1>2. First' = First + 1 /\ First \in Int
  <2>1. published' = published /\ orderedEventQueue' = Tail(orderedEventQueue)
    BY DEF SelectRemove
  <2> QED
    BY <1>1, <2>1, TailElements DEF First
<1>3. /\ state \in [Record -> {IDLE, RECEIVING, RECEIVED}]
      /\ curReceiver \in [Record -> Subscriber \cup {None}]
  BY DEF IndInv, TypeOK, RecordTypeOK
<1>4. /\ curReceiver'[Front] = None \/ RecordLocked(Front)
      /\ \A q \in Record : q # Front => state'[q] = state[q] /\ curReceiver'[q] = curReceiver[q]
  <2>1. CASE ForceReceive(Front)
    BY <1>1, <1>3, <2>1 DEF SelectRemove, TimeOutReceiver
  <2>2. CASE ~ForceReceive(Front)
    BY <1>1, <2>2 DEF SelectRemove, Free, IdleIsFree
  <2> QED
    BY <2>1, <2>2
<1>5. \A q \in Record : RecordLocked(q)' = RecordLocked(q)
  BY DEF SelectRemove, serviceVars, RecordLocked
<1>6. \A q \in Record : q < First' => q < First \/ q = Front
  BY <1>1, <1>2 DEF Record
<1> QED
  BY <1>1, <1>4, <1>5, <1>6 DEF Free, IdleIsFree, LeftIsFree

\* Every step keeps it.
LEMMA FreeStep == IndInv /\ Free /\ [Next]_vars => Free'
<1> SUFFICES ASSUME IndInv, Free, [Next]_vars PROVE Free'
  OBVIOUS
<1>0. /\ state \in [Record -> {IDLE, RECEIVING, RECEIVED}]
      /\ curReceiver \in [Record -> Subscriber \cup {None}]
  BY DEF IndInv, TypeOK, RecordTypeOK
<1>1. CASE Request
  BY <1>1, FreeRequest
<1>2. CASE ServiceReadScheduled \/ ServiceSubmit \/ FinishLoadState \/ RemoveSubscriber
  <2>1. UNCHANGED <<recordVars, orderedEventQueue>> /\ spc # "locked"
    BY <1>2 DEF ServiceReadScheduled, ServiceSubmit, FinishLoadState, RemoveSubscriber
  <2> QED
    BY <2>1, FreeFrame DEF recordVars, First, RecordLocked
<1>3. CASE FinishStoreIdle
  <2>1. recordPtr \in Record /\ First' = First
    BY <1>3 DEF FinishStoreIdle, IndInv, ServiceLocals, First
  <2>2. \A q \in Record : ~RecordLocked(q)
    BY <1>3 DEF FinishStoreIdle, RecordLocked
  <2>3. RecordLocked(recordPtr)'
    BY <1>3 DEF FinishStoreIdle, RecordLocked
  <2> QED
    BY <1>0, <1>3, <2>1, <2>2, <2>3 DEF FinishStoreIdle, Free, IdleIsFree, LeftIsFree, RecordLocked
<1>4. CASE FinishApply
  <2>1. recordPtr \in Record /\ First' = First /\ state' = state
    BY <1>4 DEF FinishApply, IndInv, ServiceLocals, First
  <2>2. \A q \in Record : RecordLocked(q) => q = recordPtr
    BY DEF RecordLocked
  <2> QED
    BY <1>0, <1>4, <2>1, <2>2 DEF FinishApply, Free, IdleIsFree, LeftIsFree
<1>5. CASE SelectRemove
  BY <1>5, FreeSelectRemove
<1>6. CASE StartProcessNext \/ SelectDone \/ StartTimeout \/ HandleFinalSubscriber
           \/ PrepareNextReceiverRecord \/ Tick \/ UNCHANGED vars
           \/ (CheckCurReceiver /\ curReceiver[sp] # None)
  <2>1. UNCHANGED <<state, curReceiver, published, orderedEventQueue, spc, recordPtr>>
    BY <1>6 DEF StartProcessNext, SelectDone, StartTimeout, HandleFinalSubscriber, CheckCurReceiver,
                PrepareNextReceiverRecord, Tick, vars, recordVars, serviceVars
  <2> QED
    BY <2>1, FreeFrame DEF First, RecordLocked
<1>7. CASE \/ NotifyFrozenSubscriber \/ HandleOrderedNotifyResult
           \/ (CheckCurReceiver /\ curReceiver[sp] = None)
           \/ HandleTimeoutReceiver
           \/ \E outcome \in {"check", "sent", "failed"} : NotifyOrderedEvent(outcome)
  <2>1. sp \in Record /\ sp = First /\ ~(sp < First)
    BY <1>7, InTurnRecord DEF InTurn, NotifyFrozenSubscriber, HandleOrderedNotifyResult,
                CheckCurReceiver, HandleTimeoutReceiver, NotifyOrderedEvent
  <2>2. UNCHANGED <<published, orderedEventQueue, spc, recordPtr>>
    BY <1>7 DEF NotifyFrozenSubscriber, HandleOrderedNotifyResult, CheckCurReceiver,
                HandleTimeoutReceiver, NotifyOrderedEvent, serviceVars
  <2>3. /\ \A q \in Record : q # sp => state'[q] = state[q] /\ curReceiver'[q] = curReceiver[q]
        /\ curReceiver'[sp] = None \/ state'[sp] # IDLE
    <3>1. CASE NotifyFrozenSubscriber
      BY <1>0, <2>1, <3>1 DEF NotifyFrozenSubscriber
    <3>2. CASE HandleOrderedNotifyResult
      BY <1>0, <2>1, <3>2 DEF HandleOrderedNotifyResult, IDLE, RECEIVED, SKIPPED
    <3>3. CASE CheckCurReceiver /\ curReceiver[sp] = None
      BY <1>0, <1>7, <2>1, <3>3 DEF CheckCurReceiver
    <3>4. CASE HandleTimeoutReceiver
      BY <1>0, <2>1, <3>4 DEF HandleTimeoutReceiver, TimeOutReceiver
    <3>5. CASE \E outcome \in {"check", "sent", "failed"} : NotifyOrderedEvent(outcome)
      BY <1>0, <2>1, <3>5 DEF NotifyOrderedEvent, IDLE, RECEIVING
    <3> QED
      BY <1>7, <3>1, <3>2, <3>3, <3>4, <3>5
  <2> QED
    BY <1>0, <2>1, <2>2, <2>3, FreeTurn DEF First, RecordLocked
<1> QED
  BY <1>1, <1>2, <1>3, <1>4, <1>5, <1>6, <1>7 DEF Next, ServiceStep, DispatcherStep

(***************************************************************************)
(* The theorems                                                            *)
(***************************************************************************)

\* DeliveryInv is inductive.
LEMMA DeliveryInvStep == DeliveryInv /\ [Next]_vars => DeliveryInv'
BY IndInvStep, SkippedStep, UnpublishedEmptyStep, TimeoutIsDueStep, FreeStep DEF DeliveryInv, Free

\* DeliveryInv holds throughout every behaviour of the ordered dispatch.
THEOREM DeliveryInvariance == Spec => []DeliveryInv
<1>1. Init => DeliveryInv
  <2> SUFFICES ASSUME Init PROVE DeliveryInv
    OBVIOUS
  <2>1. NoReceiverSkipped
    BY DEF Init, NoReceiverSkipped
  <2>2. UnpublishedEmpty /\ TimeoutIsDue /\ IdleIsFree /\ LeftIsFree
    BY DEF Init, UnpublishedEmpty, TimeoutIsDue, IdleIsFree, LeftIsFree
  <2> QED
    BY <2>1, <2>2, InitIndInv DEF DeliveryInv
<1>2. DeliveryInv /\ [Next]_vars => DeliveryInv'
  BY DeliveryInvStep
<1> QED
  BY <1>1, <1>2, PTL DEF Spec

\* No receiver of an ordered event is passed over, whatever finishes, time-outs,
\* freezes and unsubscriptions come in between.
THEOREM NoReceiverSkippedHolds == Spec => []NoReceiverSkipped
<1>1. DeliveryInv => NoReceiverSkipped
  BY DEF DeliveryInv
<1> QED
  BY <1>1, DeliveryInvariance, PTL

\* Only the front record is ever with a receiver, and a record that left the
\* queue with nobody, except while FinishReceiver is storing into it.
THEOREM OnlyFrontInTurnHolds == Spec => []OnlyFrontInTurn
<1>1. DeliveryInv => OnlyFrontInTurn
  <2> SUFFICES ASSUME DeliveryInv, NEW r \in 1..published
               PROVE  /\ r \in Queued /\ r # Front => nextReceiver[r] = 0 /\ state[r] = IDLE
                      /\ r \notin Queued \/ r # Front => curReceiver[r] = None \/ RecordLocked(r)
    BY DEF OnlyFrontInTurn
  <2>1. r \in Record /\ published \in Nat /\ r \in Nat /\ orderedEventQueue \in Seq(Record)
    BY PublishedAreRecords DEF DeliveryInv, IndInv, TypeOK, TaskTypeOK
  <2>2. r \notin Queued => r < First
    <3> SUFFICES ASSUME ~(r < First) PROVE r \in Queued
      OBVIOUS
    <3>1. QueueIsInterval /\ Len(orderedEventQueue) \in Nat
      BY <2>1 DEF DeliveryInv, IndInv
    <3>2. r - First + 1 \in DOMAIN orderedEventQueue
      BY <2>1, <3>1 DEF First, QueueIsInterval
    <3>3. orderedEventQueue[r - First + 1] = r
      BY <2>1, <3>1, <3>2 DEF First, QueueIsInterval
    <3> QED
      BY <3>2, <3>3 DEF Queued
  <2>3. r \in Queued => orderedEventQueue # <<>> /\ Front = First /\ ~(r < First) /\ First \in Int
    <3> SUFFICES ASSUME r \in Queued
                 PROVE  orderedEventQueue # <<>> /\ Front = First /\ ~(r < First) /\ First \in Int
      OBVIOUS
    <3>1. PICK i \in DOMAIN orderedEventQueue : r = orderedEventQueue[i]
      BY DEF Queued
    <3>2. orderedEventQueue # <<>> /\ i \in Nat /\ i > 0 /\ Len(orderedEventQueue) \in Nat
      BY <2>1, <3>1
    <3>3. Front = First
      BY <3>2, FrontIsFirst DEF DeliveryInv, IndInv
    <3>4. r = First + i - 1
      BY <3>1 DEF DeliveryInv, IndInv, QueueIsInterval
    <3> QED
      BY <2>1, <3>2, <3>3, <3>4 DEF First
  <2>4. r > First => nextReceiver[r] = 0 /\ state[r] = IDLE /\ curReceiver[r] = None
    BY <2>1 DEF DeliveryInv, IndInv, BehindFrontUntouched
  <2>5. r < First => curReceiver[r] = None \/ RecordLocked(r)
    BY <2>1 DEF DeliveryInv, LeftIsFree
  <2> QED
    BY <2>1, <2>2, <2>3, <2>4, <2>5
<1> QED
  BY <1>1, DeliveryInvariance, PTL

\* A step that stores TIMEOUT for a receiver does so when the receiver has had
\* the whole TIMEOUT since its own dispatch, or the event is overdue.
LEMMA TimeoutStep ==
    ASSUME DeliveryInv, [Next]_vars, NEW r \in Record, NEW i \in DOMAIN receivers[r],
           deliveryState[r][i] # TIMEOUT, deliveryState'[r][i] = TIMEOUT
    PROVE  receiverAge = TIMEOUT_TICKS \/ ForceReceive(r)
<1>0. IndInv /\ TypeOK
  BY DEF DeliveryInv, IndInv
<1>1. CASE UNCHANGED deliveryState
  BY <1>1
<1>2. CASE ServiceStep \/ Tick \/ UNCHANGED vars
  BY <1>1, <1>2 DEF ServiceStep, ServiceReadScheduled, ServiceSubmit, FinishLoadState,
                FinishStoreIdle, FinishApply, RemoveSubscriber, Tick, vars, recordVars
<1>3. CASE Request
  <2>1. \/ UNCHANGED deliveryState
        \/ \E order : /\ published < MaxRecords
                      /\ deliveryState' = [deliveryState EXCEPT ![published + 1] =
                                              [k \in DOMAIN order |-> PENDING]]
    BY <1>3, Zenon DEF Request, ProcessOrderedEvent, FinishReceiver, UnsubscribeCommonEvent,
                       Freeze, Unfreeze, recordVars
  <2>2. CASE r = published + 1
    <3>1. receivers[r] = <<>>
      BY <2>2, PublishedAreRecords, <1>0 DEF DeliveryInv, UnpublishedEmpty
    <3> QED
      BY <3>1
  <2>3. deliveryState \in [Record -> Seq({PENDING, DELIVERED, SKIPPED, TIMEOUT})]
    BY <1>0 DEF TypeOK, RecordTypeOK
  <2> QED
    BY <2>1, <2>2, <2>3
<1>4. CASE \/ StartProcessNext \/ SelectDone \/ HandleFinalSubscriber
           \/ PrepareNextReceiverRecord \/ HandleOrderedNotifyResult \/ CheckCurReceiver
           \/ StartTimeout \/ (SelectRemove /\ ~ForceReceive(Front))
  BY <1>1, <1>4 DEF StartProcessNext, SelectDone, HandleFinalSubscriber, PrepareNextReceiverRecord,
                HandleOrderedNotifyResult, CheckCurReceiver, StartTimeout, SelectRemove, recordVars
<1>5. CASE NotifyFrozenSubscriber \/ \E outcome \in {"check", "sent", "failed"} : NotifyOrderedEvent(outcome)
  <2>1. sp \in Record /\ nextReceiver[sp] > 0
    BY <1>0, <1>5, InTurnRecord DEF NotifyFrozenSubscriber, NotifyOrderedEvent, InTurn, IndInv,
                                    DispatcherLocals
  <2>2. PICK d \in {DELIVERED, SKIPPED} :
            deliveryState' = [deliveryState EXCEPT ![sp][nextReceiver[sp]] = d]
    BY <1>5 DEF NotifyFrozenSubscriber, NotifyOrderedEvent
  <2>3. d # TIMEOUT
    BY DEF DELIVERED, SKIPPED, TIMEOUT
  <2> QED
    BY <1>0, <2>1, <2>2, <2>3, StoredAtCursor
<1>6. CASE HandleTimeoutReceiver
  BY <1>6 DEF HandleTimeoutReceiver, DeliveryInv, TimeoutIsDue
<1>7. CASE SelectRemove /\ ForceReceive(Front)
  <2>1. /\ Front \in Record /\ nextReceiver[Front] > 0
        /\ deliveryState' = [deliveryState EXCEPT ![Front][nextReceiver[Front]] = TIMEOUT]
    BY <1>0, <1>7, FrontIsFirst DEF SelectRemove, TimeOutReceiver, ForceReceive, IndInv
  <2>2. r = Front
    BY <1>0, <2>1, StoredAtCursor
  <2> QED
    BY <1>7, <2>2
<1> QED
  BY <1>2, <1>3, <1>4, <1>5, <1>6, <1>7 DEF Next, DispatcherStep

\* A receiver is never declared timed out before it had the whole TIMEOUT since
\* its own dispatch, although the delayed task may have been submitted for an
\* earlier receiver, unless the event as a whole is overdue.
THEOREM NoEarlyTimeoutHolds == Spec => NoEarlyTimeout
<1>1. DeliveryInv /\ [Next]_vars =>
        [\A r \in Record : \A i \in DOMAIN receivers[r] :
            deliveryState[r][i] # TIMEOUT /\ deliveryState'[r][i] = TIMEOUT =>
                receiverAge = TIMEOUT_TICKS \/ ForceReceive(r)]_vars
  BY TimeoutStep
<1> QED
  BY <1>1, DeliveryInvariance, PTL DEF Spec, NoEarlyTimeout

\* A record leaves the queue only at the hands of ProcessOrderedEventQueueLocked,
\* and then every receiver was served, one has aborted it, or it is overdue.
LEMMA RemovalStep ==
    ASSUME DeliveryInv, [Next]_vars, NEW r \in Queued, r \notin Queued'
    PROVE  /\ curReceiver'[r] = None \/ RecordLocked(r)
           /\ \/ \A i \in DOMAIN receivers[r] : deliveryState[r][i] # PENDING
              \/ resultAbort[r]
              \/ ForceReceive(r)
<1>0. /\ IndInv /\ TypeOK /\ orderedEventQueue \in Seq(Record) /\ published \in Nat
      /\ published + 1 \in Nat
  BY PublishedAreRecords DEF DeliveryInv, IndInv, TypeOK, TaskTypeOK
<1>1. PICK k \in DOMAIN orderedEventQueue : r = orderedEventQueue[k]
  BY DEF Queued
<1>2. SelectRemove
  <2>1. CASE UNCHANGED orderedEventQueue
    BY <1>1, <2>1 DEF Queued
  <2>2. CASE ServiceStep \/ Tick \/ UNCHANGED vars
    BY <2>1, <2>2 DEF ServiceStep, ServiceReadScheduled, ServiceSubmit, FinishLoadState,
                  FinishStoreIdle, FinishApply, RemoveSubscriber, Tick, vars
  <2>3. CASE Request
    <3>1. \/ UNCHANGED orderedEventQueue
          \/ published < MaxRecords /\ orderedEventQueue' = Append(orderedEventQueue, published + 1)
      BY <2>3, Zenon DEF Request, ProcessOrderedEvent, FinishReceiver, UnsubscribeCommonEvent,
                         Freeze, Unfreeze
    <3>2. CASE published < MaxRecords /\ orderedEventQueue' = Append(orderedEventQueue, published + 1)
      <4>1. published + 1 \in Record
        BY <1>0, <3>2, BoundAssumption DEF Record
      <4>2. k \in DOMAIN orderedEventQueue' /\ orderedEventQueue'[k] = r
        BY <1>0, <1>1, <3>2, <4>1, AppendedElements
      <4> QED
        BY <4>2 DEF Queued
    <3> QED
      BY <2>1, <3>1, <3>2
  <2>4. CASE DispatcherStep /\ ~SelectRemove
    BY <2>1, <2>4 DEF DispatcherStep, StartProcessNext, SelectDone, HandleFinalSubscriber,
                  PrepareNextReceiverRecord, NotifyFrozenSubscriber, NotifyOrderedEvent,
                  HandleOrderedNotifyResult, CheckCurReceiver, StartTimeout, HandleTimeoutReceiver
  <2> QED
    BY <2>2, <2>3, <2>4 DEF Next
<1>3. r = Front
  <2>1. orderedEventQueue' = Tail(orderedEventQueue) /\ orderedEventQueue # <<>>
    BY <1>2 DEF SelectRemove
  <2>2. CASE k = 1
    BY <1>0, <1>1, <2>1, <2>2 DEF Front
  <2>3. CASE k # 1
    <3>1. k - 1 \in DOMAIN Tail(orderedEventQueue)
      BY <1>0, <1>1, <2>1, <2>3
    <3>2. Tail(orderedEventQueue)[k - 1] = r
      BY <1>0, <1>1, <2>1, <3>1
    <3> QED
      BY <2>1, <3>1, <3>2 DEF Queued
  <2> QED
    BY <2>2, <2>3
<1>4. curReceiver'[r] = None \/ RecordLocked(r)
  BY <1>0, <1>2, <1>3, FreeSelectRemove DEF DeliveryInv, Free
<1>5. nextReceiver[r] >= Len(receivers[r]) => \A i \in DOMAIN receivers[r] : deliveryState[r][i] # PENDING
  <2> SUFFICES ASSUME nextReceiver[r] >= Len(receivers[r]), NEW i \in DOMAIN receivers[r],
                      deliveryState[r][i] = PENDING
               PROVE  FALSE
    OBVIOUS
  <2>1. r \in 1..published /\ r \in Record
    BY <1>0, <1>2, <1>3, FrontIsFirst DEF IndInv, SelectRemove, Record
  <2>2. dpc # "notify"
    BY <1>2 DEF SelectRemove
  <2>3. i >= nextReceiver[r] /\ i # nextReceiver[r]
    BY <2>1, <2>2 DEF DeliveryInv, NoReceiverSkipped
  <2>4. receivers[r] \in Seq(Subscriber) /\ nextReceiver[r] \in Nat
    BY <1>0, <2>1 DEF TypeOK, RecordTypeOK
  <2>5. i \in Nat /\ i <= Len(receivers[r]) /\ Len(receivers[r]) \in Nat
    BY <2>4
  <2> QED
    BY <2>3, <2>4, <2>5
<1> QED
  BY <1>2, <1>3, <1>4, <1>5 DEF SelectRemove, ShouldRemove

\* An ordered event leaves the queue only when it is over: nobody holds it, and
\* every receiver was served, or one has aborted it, or it is overdue.
THEOREM NeverCutShortHolds == Spec => NeverCutShort
<1>1. DeliveryInv /\ [Next]_vars =>
        [\A r \in Queued : r \notin Queued' =>
            /\ curReceiver'[r] = None \/ RecordLocked(r)
            /\ \/ \A i \in DOMAIN receivers[r] : deliveryState[r][i] # PENDING
               \/ resultAbort[r]
               \/ ForceReceive(r)]_vars
  BY RemovalStep
<1> QED
  BY <1>1, DeliveryInvariance, PTL DEF Spec, NeverCutShort

-----------------------------------------------------------------------------
(***************************************************************************)
(* The refinement.  RefInv is what the mapping needs of the states:        *)
(* IndInv, and that a record selected for its next receiver is still IDLE  *)
(* when the dispatcher comes to prepare it.                                *)
(***************************************************************************)

SelectedIsIdle ==
    dpc = "prepare" \/ (dpc = "final" /\ sp # None) => state[sp] = IDLE

RefInv == IndInv /\ SelectedIsIdle

\* Where the dispatcher is while it hands the front record to a receiver.
Notifying == {"notify", "sent", "failed", "check"}

(***************************************************************************)
(* The invariant                                                           *)
(***************************************************************************)

\* Nothing but a finish touches the state of a selected record, and a finish
\* makes it IDLE: the selection still stands when the dispatcher acts on it.
LEMMA SelectedIsIdleStep == RefInv /\ [Next]_vars => SelectedIsIdle'
<1> SUFFICES ASSUME RefInv, [Next]_vars PROVE SelectedIsIdle'
  OBVIOUS
<1> USE DEF RefInv, SelectedIsIdle
<1>1. state \in [Record -> {IDLE, RECEIVING, RECEIVED}]
  BY DEF IndInv, TypeOK, RecordTypeOK
<1>2. CASE UNCHANGED <<state, dispatcherVars>>
  BY <1>2 DEF dispatcherVars
<1>3. CASE FinishStoreIdle
  BY <1>1, <1>3 DEF FinishStoreIdle, dispatcherVars, IndInv, DispatcherLocals, InTurn
<1>4. CASE SelectDone
  BY <1>4, NoneAssumption, FrontIsFirst DEF SelectDone, AfterSelect, recordVars, IndInv
<1>5. CASE HandleFinalSubscriber
  BY <1>5 DEF HandleFinalSubscriber, AfterSelect
<1>6. CASE StartProcessNext \/ PrepareNextReceiverRecord \/ NotifyFrozenSubscriber
            \/ HandleOrderedNotifyResult \/ CheckCurReceiver \/ HandleTimeoutReceiver
  BY <1>6 DEF StartProcessNext, PrepareNextReceiverRecord, NotifyFrozenSubscriber,
              HandleOrderedNotifyResult, CheckCurReceiver, HandleTimeoutReceiver
<1>7. CASE StartTimeout
  BY <1>7 DEF StartTimeout, IndInv, DispatcherLocals
<1>8. CASE SelectRemove
  BY <1>8 DEF SelectRemove
<1>9. CASE \E outcome \in {"check", "sent", "failed"} : NotifyOrderedEvent(outcome)
  BY <1>9 DEF NotifyOrderedEvent
<1>10. CASE ServiceStep /\ ~FinishStoreIdle
  <2>1. UNCHANGED <<state, dispatcherVars>>
    BY <1>10 DEF ServiceStep, ServiceReadScheduled, ServiceSubmit, FinishLoadState, FinishApply,
                 RemoveSubscriber, recordVars
  <2> QED
    BY <1>2, <2>1
<1>11. CASE Request
  <2>1. UNCHANGED <<state, dispatcherVars>>
    BY <1>11, Zenon DEF Request, ProcessOrderedEvent, FinishReceiver, UnsubscribeCommonEvent, Freeze,
                 Unfreeze, recordVars
  <2> QED
    BY <1>2, <2>1
<1>12. CASE Tick
  BY <1>2, <1>12 DEF Tick, recordVars
<1>13. CASE UNCHANGED vars
  BY <1>2, <1>13 DEF vars, recordVars
<1> QED
  BY <1>3, <1>4, <1>5, <1>6, <1>7, <1>8, <1>9, <1>10, <1>11, <1>12, <1>13 DEF Next, DispatcherStep

\* RefInv holds throughout every behaviour of the ordered dispatch.
THEOREM RefInvariance == Spec => []RefInv
<1>1. Init => RefInv
  BY InitIndInv DEF Init, RefInv, SelectedIsIdle
<1>2. RefInv /\ [Next]_vars => RefInv'
  BY IndInvStep, SelectedIsIdleStep DEF RefInv
<1> QED
  BY <1>1, <1>2, PTL DEF Spec


(***************************************************************************)
(* The mapping                                                             *)
(***************************************************************************)

\* What the mapping makes of a state: the event being worked off is the front
\* record, and there is one as long as the queue is not empty.
LEMMA MappedState ==
    ASSUME IndInv
    PROVE  /\ published \in Nat /\ Len(orderedEventQueue) \in Nat /\ Len(removedRecords) \in Nat
           /\ ended \in Nat /\ told \in Int
           /\ orderedEventQueue # <<>> <=> ended < published
           /\ orderedEventQueue # <<>> => Broadcast!Current = Front /\ Front \in Record
<1>1. /\ published \in Nat /\ orderedEventQueue \in Seq(Record) /\ removedRecords \in Seq(Record)
      /\ Len(orderedEventQueue) <= published
  BY BoundAssumption DEF IndInv, TypeOK, RecordTypeOK, TaskTypeOK, DispatcherTypeOK, QueueIsInterval
<1>2. /\ Len(orderedEventQueue) \in Nat /\ Len(removedRecords) \in Nat
      /\ orderedEventQueue # <<>> <=> Len(orderedEventQueue) > 0
  BY <1>1, LenProperties, EmptySeq
<1>3. orderedEventQueue # <<>> => Front = First /\ Front \in Record
  BY FrontIsFirst DEF IndInv
<1> QED
  BY <1>1, <1>2, <1>3 DEF ended, told, First, Broadcast!Current

\* A step that leaves the queues, the cursors, the abort flags and the age of
\* the event alone, and nobody's turn begins or ends, is no step of the
\* broadcast.
LEMMA NoStep ==
    ASSUME UNCHANGED <<published, receivers, nextReceiver, resultAbort, orderedEventQueue,
                       removedRecords, dispatchAge>>,
           turn' <=> turn
    PROVE  UNCHANGED Broadcast!vars
<1>1. UNCHANGED <<overdue, ended, told>>
  BY DEF overdue, ended, told, ForceReceive, Front
<1>2. turn' = turn
  BY DEF turn
<1> QED
  BY <1>1, <1>2 DEF Broadcast!vars

\* A step that does no more than end the turn of a receiver is EndTurn.
LEMMA TurnEnds ==
    ASSUME UNCHANGED <<published, receivers, nextReceiver, resultAbort, orderedEventQueue,
                       removedRecords, dispatchAge>>,
           turn' => turn
    PROVE  [Broadcast!Next]_(Broadcast!vars)
<1>1. CASE turn' <=> turn
  BY <1>1, NoStep
<1>2. CASE turn /\ ~turn'
  <2>1. UNCHANGED <<overdue, ended, told>>
    BY DEF overdue, ended, told, ForceReceive, Front
  <2>2. turn' = FALSE
    BY <1>2
  <2> QED
    BY <1>2, <2>1, <2>2 DEF Broadcast!Next, Broadcast!EndTurn
<1> QED
  BY <1>1, <1>2

\* The service starts with an empty broadcast.
LEMMA InitMapped == Init => Broadcast!Init
<1> SUFFICES ASSUME Init PROVE Broadcast!Init
  OBVIOUS
<1>1. ~turn /\ ~overdue
  BY DEF Init, turn, overdue
<1>2. turn = FALSE /\ overdue = FALSE
  BY <1>1 DEF turn, overdue
<1>3. ended = 0 /\ told = 0
  <2>1. published = 0 /\ Len(orderedEventQueue) = 0 /\ Len(removedRecords) = 0
    BY EmptySeq DEF Init
  <2> QED
    BY <2>1 DEF ended, told
<1> QED
  BY <1>2, <1>3 DEF Init, Broadcast!Init, Record, Broadcast!Record

(***************************************************************************)
(* The steps of the service and the clock                                  *)
(***************************************************************************)

\* Publishing is Publish: a record added to an empty queue is with nobody.
LEMMA ProcessOrderedEventMapped ==
    ASSUME IndInv, NEW matched, NEW order, NEW commonEventListener,
           ProcessOrderedEvent(matched, order, commonEventListener)
    PROVE  Broadcast!Publish
<1> DEFINE r == published + 1
<1> USE DEF ProcessOrderedEvent
<1>1. /\ published \in Nat /\ published < MaxRecords /\ r \in Record /\ r > published
      /\ orderedEventQueue \in Seq(Record) /\ Len(orderedEventQueue) \in Nat
  BY BoundAssumption, LenProperties DEF IndInv, TypeOK, RecordTypeOK, TaskTypeOK, Record
<1>2. order \in Broadcast!Orders
  <2>1. matched \in SUBSET Subscriber
    BY DEF IndInv, TypeOK, ClientTypeOK
  <2>2. order \in PriorityOrders(matched)
    OBVIOUS
  <2>3. Cardinality(matched) = Broadcast!Cardinality(matched)
    BY Zenon DEF Cardinality, Broadcast!Cardinality
  <2> QED
    BY <2>1, <2>2, <2>3 DEF PriorityOrders, Broadcast!Orders
<1>3. /\ orderedEventQueue' # <<>> /\ Len(orderedEventQueue') = Len(orderedEventQueue) + 1
      /\ orderedEventQueue # <<>> => Front' = Front
      /\ orderedEventQueue = <<>> => Front' = r
  BY <1>1, AppendedElements DEF Front
<1>4. nextReceiver[r] = 0 /\ state[r] = IDLE
  BY <1>1 DEF IndInv, UnpublishedUntouched
<1>5. dpc \in Notifying => orderedEventQueue # <<>>
  BY DEF IndInv, DispatcherLocals, InTurn, Notifying
<1>6. turn' = turn
  BY <1>3, <1>4, <1>5 DEF turn, Notifying, dispatcherVars
<1>7. overdue' = overdue
  <2>1. CASE orderedEventQueue = <<>>
    BY <1>3, <1>4, <2>1 DEF overdue, ForceReceive
  <2>2. CASE orderedEventQueue # <<>>
    <3>1. Front \in Record /\ Front # r
      BY <1>1, <2>2, FrontIsFirst DEF IndInv
    <3>2. receivers'[Front] = receivers[Front]
      BY <3>1 DEF IndInv, TypeOK, RecordTypeOK
    <3> QED
      BY <1>3, <2>2, <3>2 DEF overdue, ForceReceive, taskVars
  <2> QED
    BY <2>1, <2>2
<1>8. ended' = ended /\ told' = told
  <2>1. ended' = ended
    BY <1>1, <1>3 DEF ended
  <2> QED
    BY <2>1 DEF told, dispatcherVars
<1> QED
  BY <1>1, <1>2, <1>6, <1>7, <1>8 DEF Broadcast!Publish

\* The first store of a finish ends the turn, if there still is one.
LEMMA FinishStoreIdleMapped ==
    ASSUME IndInv, FinishStoreIdle
    PROVE  [Broadcast!Next]_(Broadcast!vars)
<1>1. UNCHANGED <<published, receivers, nextReceiver, resultAbort, orderedEventQueue,
                  removedRecords, dispatchAge, dpc>>
  BY DEF FinishStoreIdle, taskVars, dispatcherVars
<1>2. orderedEventQueue # <<>> => Front \in Record /\ Front' = Front
  BY <1>1, FrontIsFirst DEF IndInv, Front
<1>3. \A r \in Record : state'[r] # IDLE => state[r] # IDLE
  BY DEF FinishStoreIdle, IndInv, TypeOK, RecordTypeOK
<1>4. turn' => turn
  BY <1>1, <1>2, <1>3 DEF turn
<1> QED
  BY <1>1, <1>4, TurnEnds

\* The other stores are an Answer; an unsubscription writes back what it read.
LEMMA FinishApplyMapped ==
    ASSUME IndInv, FinishApply
    PROVE  [Broadcast!Next]_(Broadcast!vars)
<1>1. UNCHANGED <<published, receivers, nextReceiver, state, orderedEventQueue,
                  removedRecords, dispatchAge, dpc>>
  BY DEF FinishApply, dispatcherVars
<1>2. turn' = turn /\ overdue' = overdue /\ ended' = ended /\ told' = told
  BY <1>1 DEF turn, overdue, ended, told, ForceReceive, Front
<1>3. CASE answer = None
  <2>1. UNCHANGED resultAbort
    BY <1>3 DEF FinishApply
  <2> QED
    BY <1>1, <1>2, <2>1 DEF Broadcast!vars
<1>4. CASE answer # None
  <2>1. recordPtr \in Record /\ nextReceiver[recordPtr] > 0
    BY DEF FinishApply, IndInv, ServiceLocals
  <2>2. answer.abort \in BOOLEAN
    BY <1>4 DEF IndInv, TypeOK, ServiceTypeOK, Answer
  <2>3. resultAbort' = [resultAbort EXCEPT ![recordPtr] = answer.abort]
    BY <1>4 DEF FinishApply
  <2>4. Broadcast!Answer(recordPtr, answer.abort)
    BY <1>1, <1>2, <2>1, <2>3 DEF Broadcast!Answer
  <2> QED
    BY <2>1, <2>2, <2>4 DEF Broadcast!Next, Record, Broadcast!Record
<1> QED
  BY <1>3, <1>4

\* The clock makes an event overdue that was handed to somebody, or does
\* nothing to the broadcast.
LEMMA TickMapped ==
    ASSUME IndInv, Tick
    PROVE  [Broadcast!Next]_(Broadcast!vars)
<1>1. /\ orderedEventQueue # <<>> /\ nextReceiver[Front] > 0
      /\ UNCHANGED <<published, receivers, nextReceiver, state, resultAbort, orderedEventQueue,
                     removedRecords, dpc>>
  BY DEF Tick, recordVars, dispatcherVars
<1>2. turn' = turn /\ ended' = ended /\ told' = told
  BY <1>1 DEF turn, ended, told, Front
<1>3. ended < published /\ Broadcast!Current = Front
  BY <1>1, MappedState
<1>4. dispatchAge \in Nat /\ (dispatchAge' = dispatchAge + 1 \/ dispatchAge' = dispatchAge)
  BY DEF Tick, IndInv, TypeOK, TaskTypeOK
<1>5. overdue => overdue'
  <2>1. Len(receivers[Front]) \in Nat
    BY <1>1, MappedState, LenProperties DEF IndInv, TypeOK, RecordTypeOK
  <2>2. DOUBLE * TIMEOUT_TICKS * Len(receivers[Front]) \in Nat
    <3>1. \A m, n \in Nat : m * n \in Nat
      OBVIOUS
    <3>2. DOUBLE * TIMEOUT_TICKS \in Nat
      BY TimeoutAssumption DEF DOUBLE
    <3> QED
      BY <2>1, <3>1, <3>2, Zenon
  <2>3. \A limit \in Nat : dispatchAge > limit => dispatchAge' > limit
    BY <1>4
  <2> QED
    BY <1>1, <2>2, <2>3, Zenon DEF overdue, ForceReceive, Front
<1>6. CASE overdue' <=> overdue
  <2>1. overdue' = overdue
    BY <1>6 DEF overdue
  <2> QED
    BY <1>1, <1>2, <2>1 DEF Broadcast!vars
<1>7. CASE overdue' /\ ~overdue
  <2>1. overdue' = TRUE
    BY <1>7 DEF overdue
  <2> QED
    BY <1>1, <1>2, <1>3, <2>1 DEF Broadcast!Next, Broadcast!GetOverdue
<1> QED
  BY <1>5, <1>6, <1>7

(***************************************************************************)
(* The steps that are none of the broadcast                                *)
(***************************************************************************)

\* What the service does with its own locals, and with freezing and leaving
\* subscribers, is not seen in the broadcast.
LEMMA ServiceSilent ==
    ASSUME \/ ServiceReadScheduled \/ ServiceSubmit \/ FinishLoadState \/ RemoveSubscriber
           \/ \E c \in Subscriber :
                \/ \E r \in inbox[c], abort \in BOOLEAN : FinishReceiver(c, r, abort)
                \/ UnsubscribeCommonEvent(c)
                \/ Freeze(c)
                \/ Unfreeze(c)
    PROVE  UNCHANGED Broadcast!vars
<1>1. UNCHANGED <<recordVars, orderedEventQueue, dispatchAge, dispatcherVars>>
  BY Zenon DEF ServiceReadScheduled, ServiceSubmit, FinishLoadState, RemoveSubscriber,
         FinishReceiver, UnsubscribeCommonEvent, Freeze, Unfreeze, taskVars
<1>2. turn' <=> turn
  BY <1>1 DEF turn, recordVars, dispatcherVars, Front
<1> QED
  BY <1>1, <1>2, NoStep DEF recordVars, dispatcherVars

\* Neither is what the dispatcher does before it has chosen a record, or the
\* delayed task before it has found the receiver's time to be up.
LEMMA SelectingSilent ==
    ASSUME StartProcessNext \/ SelectDone \/ StartTimeout
    PROVE  UNCHANGED Broadcast!vars
<1>1. /\ UNCHANGED <<recordVars, orderedEventQueue, removedRecords, dispatchAge>>
      /\ dpc \notin Notifying /\ dpc' \notin Notifying
  BY DEF StartProcessNext, SelectDone, StartTimeout, AfterSelect, taskVars, Notifying
<1>2. turn' <=> turn
  BY <1>1 DEF turn, recordVars, Notifying, Front
<1> QED
  BY <1>1, <1>2, NoStep DEF recordVars

\* While the dispatcher notifies a receiver, its turn goes on.
LEMMA NotifyingSilent ==
    ASSUME IndInv,
           \/ NotifyFrozenSubscriber
           \/ \E outcome \in {"check", "sent", "failed"} : NotifyOrderedEvent(outcome)
           \/ HandleOrderedNotifyResult
    PROVE  UNCHANGED Broadcast!vars
<1>1. /\ UNCHANGED <<published, receivers, nextReceiver, resultAbort, orderedEventQueue,
                     removedRecords, dispatchAge>>
      /\ dpc \in Notifying /\ dpc' \in Notifying
  BY DEF NotifyFrozenSubscriber, NotifyOrderedEvent, HandleOrderedNotifyResult, taskVars, Notifying
<1>2. orderedEventQueue # <<>>
  BY <1>1 DEF IndInv, DispatcherLocals, InTurn, Notifying
<1>3. turn' <=> turn
  BY <1>1, <1>2 DEF turn, Notifying
<1> QED
  BY <1>1, <1>3, NoStep

(***************************************************************************)
(* The steps of the dispatcher                                             *)
(***************************************************************************)

\* Advancing nextReceiver is Offer: the record selected is IDLE, so that the
\* turn of the receiver before is over.
LEMMA PrepareNextReceiverRecordMapped ==
    ASSUME RefInv, PrepareNextReceiverRecord
    PROVE  Broadcast!Offer
<1> USE DEF PrepareNextReceiverRecord
<1>1. dpc = "prepare" /\ dpc' = "notify" /\ dpc \in InTurn
  BY DEF InTurn
<1>2. orderedEventQueue # <<>> /\ sp = Front /\ sp \in Record
  BY <1>1, InTurnRecord DEF RefInv
<1>3. ended < published /\ Broadcast!Current = sp
  BY <1>2, MappedState DEF RefInv
<1>4. turn = FALSE /\ turn' = TRUE
  BY <1>1, <1>2 DEF turn, RefInv, SelectedIsIdle
<1>5. nextReceiver[sp] < Len(receivers[sp]) /\ nextReceiver[sp] \in Nat
      /\ nextReceiver \in [Record -> Nat]
  BY <1>1, <1>2 DEF RefInv, IndInv, DispatcherLocals, TypeOK, RecordTypeOK
<1>6. overdue' = overdue
  <2>1. Front' = Front /\ nextReceiver'[sp] = nextReceiver[sp] + 1
    BY <1>2, <1>5 DEF Front
  <2>2. CASE nextReceiver[sp] = 0
    <3>1. DOUBLE * TIMEOUT_TICKS * Len(receivers[sp]) \in Nat
      <4>1. Len(receivers[sp]) \in Nat
        BY <1>2, LenProperties DEF RefInv, IndInv, TypeOK, RecordTypeOK
      <4>2. \A m, n \in Nat : m * n \in Nat
        OBVIOUS
      <4>3. DOUBLE * TIMEOUT_TICKS \in Nat
        BY TimeoutAssumption DEF DOUBLE
      <4> QED
        BY <4>1, <4>2, <4>3, Zenon
    <3>2. \A limit \in Nat : ~(0 > limit)
      OBVIOUS
    <3>3. dispatchAge' = 0
      BY <2>2
    <3>4. ~(dispatchAge' > DOUBLE * TIMEOUT_TICKS * Len(receivers[sp]))
      BY <3>1, <3>2, <3>3
    <3>5. ~ForceReceive(Front) /\ ~ForceReceive(Front)'
      BY <1>2, <2>1, <2>2, <3>4 DEF ForceReceive
    <3> QED
      BY <3>5 DEF overdue
  <2>3. CASE nextReceiver[sp] > 0
    <3>1. dispatchAge' = dispatchAge /\ nextReceiver'[sp] > 0
      BY <1>5, <2>1, <2>3
    <3>2. ForceReceive(Front)' <=> ForceReceive(Front)
      BY <1>2, <2>1, <2>3, <3>1 DEF ForceReceive
    <3> QED
      BY <3>2 DEF overdue
  <2> QED
    BY <1>5, <2>2, <2>3
<1>7. ended' = ended /\ told' = told
  BY DEF ended, told
<1> QED
  BY <1>3, <1>4, <1>5, <1>6, <1>7 DEF Broadcast!Offer

\* Removing the front record is End: it is with nobody and has no receiver
\* left or was aborted, or it is overdue.
LEMMA SelectRemoveMapped ==
    ASSUME IndInv, SelectRemove
    PROVE  Broadcast!End
<1> USE DEF SelectRemove
<1>1. IndInv'
  BY SelectRemoveStep
<1>2. /\ orderedEventQueue # <<>> /\ Front = First /\ Front \in Record /\ Front \in Nat
      /\ published \in Nat
      /\ orderedEventQueue \in Seq(Record) /\ removedRecords \in Seq(Record)
  <2>1. published \in Nat /\ orderedEventQueue \in Seq(Record) /\ removedRecords \in Seq(Record)
    BY BoundAssumption DEF IndInv, TypeOK, RecordTypeOK, TaskTypeOK, DispatcherTypeOK
  <2> QED
    BY <2>1, FrontIsFirst DEF IndInv
<1>3. ended < published /\ Broadcast!Current = Front
  BY <1>2, MappedState
<1>4. /\ Len(orderedEventQueue') = Len(orderedEventQueue) - 1
      /\ Len(removedRecords') = Len(removedRecords) + 1
      /\ Len(orderedEventQueue) \in Nat /\ Len(removedRecords) \in Nat
  BY <1>2, TailElements, AppendedElements, LenProperties
<1>5. ended' = ended + 1 /\ told' = told
  BY <1>2, <1>4 DEF ended, told
<1>6. orderedEventQueue' # <<>> => /\ Front' \in Record /\ Front' > First
                                   /\ nextReceiver'[Front'] = 0 /\ state'[Front'] = IDLE
  <2>1. orderedEventQueue' # <<>> => Front' = First' /\ Front' \in Record
    <3>1. /\ QueueIsInterval' /\ published' \in Nat /\ published' = published
          /\ orderedEventQueue' \in Seq(Record)
      BY <1>1, <1>2, BoundAssumption DEF IndInv, TypeOK, RecordTypeOK, TaskTypeOK
    <3> QED
      BY <3>1, HeadOfInterval DEF Front, First, QueueIsInterval
  <2>2. First' = First + 1
    BY <1>2, <1>4 DEF First
  <2>3. orderedEventQueue' # <<>> => Front' > First
    BY <1>2, <2>1, <2>2
  <2>4. \A r \in Record : state'[r] = state[r] \/ state'[r] = IDLE
    BY DEF TimeOutReceiver, IndInv, TypeOK, RecordTypeOK
  <2> QED
    BY <2>1, <2>3, <2>4 DEF IndInv, BehindFrontUntouched
<1>7. turn' = FALSE /\ overdue' = FALSE
  <2>1. dpc' = "select"
    OBVIOUS
  <2>2. ~turn'
    BY <1>6, <2>1 DEF turn
  <2>3. ~overdue'
    BY <1>6 DEF overdue, ForceReceive
  <2> QED
    BY <2>2, <2>3 DEF turn, overdue
<1>8. CASE ForceReceive(Front)
  <2>1. overdue
    BY <1>2, <1>8 DEF overdue
  <2> QED
    BY <1>3, <1>5, <1>7, <2>1 DEF Broadcast!End
<1>9. CASE ~ForceReceive(Front)
  <2>1. ~turn
    BY <1>9 DEF turn
  <2>2. nextReceiver[Front] = Len(receivers[Front]) \/ resultAbort[Front]
    <3>1. nextReceiver[Front] \in Nat /\ Len(receivers[Front]) \in Nat
          /\ nextReceiver[Front] <= Len(receivers[Front])
      BY <1>2, LenProperties DEF IndInv, TypeOK, RecordTypeOK, CursorInRange
    <3>2. nextReceiver[Front] >= Len(receivers[Front]) \/ resultAbort[Front]
      BY <1>9 DEF ShouldRemove
    <3> QED
      BY <3>1, <3>2
  <2> QED
    BY <1>3, <1>5, <1>7, <2>1, <2>2 DEF Broadcast!End
<1> QED
  BY <1>8, <1>9

\* Answering the publisher is Tell, and the removed records are told in the
\* order in which they were removed.
LEMMA HandleFinalSubscriberMapped ==
    ASSUME IndInv, HandleFinalSubscriber
    PROVE  Broadcast!Tell
<1> USE DEF HandleFinalSubscriber
<1>1. /\ removedRecords \in Seq(Record) /\ removedRecords # <<>> /\ published \in Nat
      /\ Len(orderedEventQueue) \in Nat
  BY MappedState DEF IndInv, TypeOK, DispatcherTypeOK, DispatcherLocals
<1>2. Len(removedRecords) \in Nat \ {0} /\ Len(removedRecords') = Len(removedRecords) - 1
  BY <1>1, TailElements
<1>3. ended' = ended /\ ended \in Int
  BY <1>1 DEF ended
<1>4. told < ended /\ told' = told + 1
  BY <1>2, <1>3 DEF told
<1>5. dpc = "final" /\ dpc' \notin Notifying
  BY DEF AfterSelect, Notifying
<1>6. turn' = turn
  BY <1>5 DEF turn, Notifying, Front
<1>7. overdue' = overdue
  BY DEF overdue, ForceReceive, Front, taskVars
<1> QED
  BY <1>3, <1>4, <1>6, <1>7 DEF Broadcast!Tell

\* The end of the dispatcher's task ends the turn when nobody is waited for.
LEMMA CheckCurReceiverMapped ==
    ASSUME IndInv, CheckCurReceiver
    PROVE  [Broadcast!Next]_(Broadcast!vars)
<1>1. /\ UNCHANGED <<published, receivers, nextReceiver, resultAbort, orderedEventQueue,
                     removedRecords, dispatchAge>>
      /\ dpc = "check"
  BY DEF CheckCurReceiver
<1>2. orderedEventQueue # <<>>
  BY <1>1 DEF IndInv, DispatcherLocals, InTurn
<1>3. turn
  BY <1>1, <1>2 DEF turn
<1> QED
  BY <1>1, <1>3, TurnEnds

\* A timeout ends the turn of the receiver, if it has not ended by itself.
LEMMA HandleTimeoutReceiverMapped ==
    ASSUME IndInv, HandleTimeoutReceiver
    PROVE  [Broadcast!Next]_(Broadcast!vars)
<1>1. /\ UNCHANGED <<published, receivers, nextReceiver, resultAbort, orderedEventQueue,
                     removedRecords, dispatchAge>>
      /\ dpc = "timeout" /\ dpc' = "idle" /\ state' = [state EXCEPT ![sp] = IDLE]
  BY DEF HandleTimeoutReceiver, TimeOutReceiver
<1>2. orderedEventQueue # <<>> /\ sp = Front /\ sp \in Record
  BY <1>1, InTurnRecord DEF InTurn
<1>3. state'[sp] = IDLE /\ Front' = Front
  BY <1>1, <1>2 DEF IndInv, TypeOK, RecordTypeOK, Front
<1>4. ~turn'
  BY <1>1, <1>2, <1>3 DEF turn
<1> QED
  BY <1>1, <1>4, TurnEnds

(***************************************************************************)
(* The refinement                                                          *)
(***************************************************************************)

\* Every step of the ordered dispatch is a step of the broadcast or none.
LEMMA StepMapped == RefInv /\ [Next]_vars => [Broadcast!Next]_(Broadcast!vars)
<1> SUFFICES ASSUME RefInv, [Next]_vars PROVE [Broadcast!Next]_(Broadcast!vars)
  OBVIOUS
<1>1. IndInv
  BY DEF RefInv
<1>2. CASE ServiceStep
  BY <1>1, <1>2, ServiceSilent, FinishStoreIdleMapped, FinishApplyMapped DEF ServiceStep
<1>3. CASE Request
  <2>1. CASE \E matched \in SUBSET subscribed, commonEventListener \in Listener \cup {None} :
                \E order \in PriorityOrders(matched) :
                    ProcessOrderedEvent(matched, order, commonEventListener)
    BY <1>1, <2>1, ProcessOrderedEventMapped DEF Broadcast!Next
  <2>2. CASE \E c \in Subscriber :
                \/ \E r \in inbox[c], abort \in BOOLEAN : FinishReceiver(c, r, abort)
                \/ UnsubscribeCommonEvent(c)
                \/ Freeze(c)
                \/ Unfreeze(c)
    BY <2>2, ServiceSilent, Zenon
  <2> QED
    BY <1>3, <2>1, <2>2, Zenon DEF Request
<1>4. CASE DispatcherStep
  <2>1. CASE SelectRemove \/ HandleFinalSubscriber \/ PrepareNextReceiverRecord
    BY <1>1, <2>1, SelectRemoveMapped, HandleFinalSubscriberMapped,
       PrepareNextReceiverRecordMapped DEF Broadcast!Next
  <2>2. CASE StartProcessNext \/ SelectDone \/ StartTimeout
    BY <2>2, SelectingSilent
  <2>3. CASE \/ NotifyFrozenSubscriber
             \/ \E outcome \in {"check", "sent", "failed"} : NotifyOrderedEvent(outcome)
             \/ HandleOrderedNotifyResult
    BY <1>1, <2>3, NotifyingSilent
  <2>4. CASE CheckCurReceiver \/ HandleTimeoutReceiver
    BY <1>1, <2>4, CheckCurReceiverMapped, HandleTimeoutReceiverMapped
  <2> QED
    BY <1>4, <2>1, <2>2, <2>3, <2>4 DEF DispatcherStep
<1>5. CASE Tick
  BY <1>1, <1>5, TickMapped
<1>6. CASE UNCHANGED vars
  <2>1. UNCHANGED <<recordVars, orderedEventQueue, taskVars, dispatcherVars>>
    BY <1>6 DEF vars
  <2>2. turn' <=> turn
    BY <2>1 DEF turn, recordVars, dispatcherVars, Front
  <2> QED
    BY <2>1, <2>2, NoStep DEF recordVars, taskVars, dispatcherVars
<1> QED
  BY <1>2, <1>3, <1>4, <1>5, <1>6 DEF Next

\* The ordered dispatch implements the broadcast: the events are worked off in
\* the order of publication, each by one receiver after the other in order of
\* priority, and the publishers are told in that order, once each.
THEOREM Refinement == Spec => ImplementsBroadcast
<1>1. Init => Broadcast!Init
  BY InitMapped
<1>2. RefInv /\ [Next]_vars => [Broadcast!Next]_(Broadcast!vars)
  BY StepMapped
<1> QED
  BY <1>1, <1>2, RefInvariance, PTL DEF Spec, Broadcast!Spec, ImplementsBroadcast

=============================================================================
