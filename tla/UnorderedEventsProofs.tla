------------------------ MODULE UnorderedEventsProofs ------------------------
(***************************************************************************)
(* What holds of unordered delivery and of the events kept for the frozen, *)
(* for any subscribers, requests and number of events: nothing is lost and *)
(* nothing leaves a map twice.                                             *)
(*                                                                         *)
(* The argument.  An event has one task, and the task comes to each of its *)
(* receivers once; until then nothing is recorded for the receiver.  What  *)
(* is kept for a receiver, or handed over from what was kept, was skipped  *)
(* for it; a map has an event at most once, and who takes it from there    *)
(* leaves none behind.                                                     *)
(***************************************************************************)
EXTENDS UnorderedEvents, FiniteSetTheorems, TLAPS

\* The tasks that have yet to start are of different published events, and of
\* other events than the ones the workers are on.
EventTasks ==
    /\ \A w \in Worker : \A i \in DOMAIN queue[w] :
         queue[w][i].event # None =>
           /\ queue[w][i].event <= published
           /\ queue[w][i].kept = Nothing
           /\ \A v \in Worker : eventRecord[v] # queue[w][i].event
    /\ \A w, v \in Worker : \A i \in DOMAIN queue[w] : \A j \in DOMAIN queue[v] :
         queue[w][i].event # None /\ queue[w][i].event = queue[v][j].event => w = v /\ i = j
    /\ \A w \in Worker : eventRecord[w] # None => eventRecord[w] <= published
    /\ \A w, v \in Worker : eventRecord[w] # None /\ eventRecord[w] = eventRecord[v] => w = v

\* The event's task has yet to come to c.
Awaiting(e, c) ==
    \/ e > published
    \/ \E w \in Worker : \E i \in DOMAIN queue[w] : queue[w][i].event = e
    \/ \E w \in Worker : eventRecord[w] = e /\ c \in todo[w] /\ vec[w] # c

\* What the delivery state says of a receiver.
StatesOK ==
    \A e \in Event, c \in Subscriber :
        /\ Awaiting(e, c) => deliveryState[e][c] = PENDING
        /\ \A w \in Worker : Keeping(w, c, e) => deliveryState[e][c] = SKIPPED
        /\ deliveryState[e][c] = PENDING => notified[c][e] = 0
        /\ deliveryState[e][c] = DELIVERED => notified[c][e] = 1

Distinct(s) == \A i, j \in DOMAIN s : s[i] = s[j] => i = j

\* Vectors of kept events: without repetitions, and of skipped events.
KeptFor(c, s) == Distinct(s) /\ \A i \in DOMAIN s : deliveryState[s[i]][c] = SKIPPED

KeptOK ==
    \A c \in Subscriber :
        /\ KeptFor(c, frozenEvents[c])
        /\ KeptFor(c, frozenEventsMap[c])
        /\ \A i \in DOMAIN queue["immediate"] : KeptFor(c, queue["immediate"][i].kept[c])

\* What a worker is about to keep is not there yet.
KeepingIsNew ==
    \A w \in Worker :
        /\ wpc[w] = "keep" => eventRecord[w] \notin Elements(frozenEvents[vec[w]])
        /\ wpc[w] \in {"keep", "keepMap"} => eventRecord[w] \notin Elements(frozenEventsMap[vec[w]])

\* Only interfaces in use ask for a flush.
FlushOK == \A i \in DOMAIN flush : flush[i][1] \in Interface

\* The copies of e that requests can still take from a map for c.
UidCopy(c, e) ==
    IF /\ "uid" \in Interface
       /\ \/ e \in Elements(frozenEvents[c])
          \/ \E w \in Worker : Keeping(w, c, e) /\ wpc[w] = "keep"
    THEN 1 ELSE 0
PidCopy(c, e) ==
    IF /\ "pid" \in Interface
       /\ e \in Elements(frozenEventsMap[c]) \/ \E w \in Worker : Keeping(w, c, e)
    THEN 1 ELSE 0

\* The copies of e for c that there are and that there may be.
CopiesBounded ==
    "all" \notin Interface =>
        \A e \in Event, c \in Subscriber :
            deliveryState[e][c] = SKIPPED =>
                Deliveries(c, e) + UidCopy(c, e) + PidCopy(c, e) <= Cardinality(Interface)

UnorderedInv ==
    /\ TypeOK
    /\ EventTasks
    /\ StatesOK
    /\ KeptOK
    /\ KeepingIsNew
    /\ FlushOK
    /\ CopiesBounded
    /\ NothingLost

(***************************************************************************)
(* Sequences                                                               *)
(***************************************************************************)

\* What the queue operations do, index by index.
LEMMA AppendAt ==
  ASSUME NEW S, NEW s \in Seq(S), NEW x \in S
  PROVE  /\ Append(s, x) \in Seq(S)
         /\ DOMAIN s = 1..Len(s) /\ Len(s) \in Nat
         /\ DOMAIN Append(s, x) = 1..(Len(s) + 1)
         /\ \A i \in 1..Len(s) : s[i] \in S /\ Append(s, x)[i] = s[i]
         /\ Append(s, x)[Len(s) + 1] = x
OBVIOUS

\* The positions of the tail of a sequence.
LEMMA TailAt ==
  ASSUME NEW S, NEW s \in Seq(S), s # <<>>
  PROVE  /\ Tail(s) \in Seq(S) /\ Head(s) \in S /\ Head(s) = s[1]
         /\ Len(s) \in Nat /\ Len(s) > 0
         /\ DOMAIN s = 1..Len(s) /\ DOMAIN Tail(s) = 1..(Len(s) - 1)
         /\ \A i \in 1..(Len(s) - 1) : i + 1 \in DOMAIN s /\ Tail(s)[i] = s[i + 1]
OBVIOUS

\* The first element of a sequence replaced.
LEMMA NewHeadAt ==
  ASSUME NEW S, NEW s \in Seq(S), s # <<>>, NEW x \in S
  PROVE  LET n == <<x>> \o Tail(s) IN
         /\ n \in Seq(S) /\ n # <<>> /\ Head(n) = x /\ Tail(n) = Tail(s)
         /\ DOMAIN s = 1..Len(s) /\ DOMAIN n = 1..Len(s) /\ Len(s) \in Nat /\ Len(s) > 0
         /\ n[1] = x /\ \A i \in 2..Len(s) : n[i] = s[i]
<1> DEFINE n == <<x>> \o Tail(s)
<1>1. /\ n \in Seq(S) /\ Len(n) = Len(s) /\ n[1] = x
      /\ Len(s) \in Nat /\ Len(s) > 0 /\ DOMAIN s = 1..Len(s) /\ DOMAIN n = 1..Len(s)
  BY TailAt
<1>2. \A i \in 2..Len(s) : n[i] = s[i]
  BY TailAt
<1>3. n # <<>> /\ Head(n) = x
  BY <1>1
<1>4. Tail(n) = Tail(s)
  <2>1. Tail(n) \in Seq(S) /\ Tail(s) \in Seq(S) /\ Len(Tail(n)) = Len(Tail(s))
    BY <1>1, <1>3, TailAt
  <2>2. \A i \in 1..Len(Tail(n)) : Tail(n)[i] = Tail(s)[i]
    BY <1>1, <1>2, <1>3, TailAt
  <2> QED  BY <2>1, <2>2
<1> QED  BY <1>1, <1>2, <1>3, <1>4

\* Vectors without repetitions stay so.
LEMMA DistinctAppend ==
  ASSUME NEW s \in Seq(Event), NEW e \in Event, Distinct(s), e \notin Elements(s)
  PROVE  Distinct(Append(s, e)) /\ Elements(Append(s, e)) = Elements(s) \cup {e}
<1>1. \A i, j \in DOMAIN Append(s, e) : Append(s, e)[i] = Append(s, e)[j] => i = j
  BY AppendAt DEF Distinct, Elements
<1>2. Elements(Append(s, e)) = Elements(s) \cup {e}
  BY AppendAt DEF Elements
<1> QED  BY <1>1, <1>2 DEF Distinct

\* A vector without repetitions loses exactly its first event.
LEMMA DistinctTail ==
  ASSUME NEW s \in Seq(Event), s # <<>>, Distinct(s)
  PROVE  /\ Distinct(Tail(s)) /\ Elements(Tail(s)) = Elements(s) \ {Head(s)}
         /\ Head(s) \in Elements(s) /\ Head(s) \in Event /\ Tail(s) \in Seq(Event)
<1>1. Distinct(Tail(s))
  BY TailAt DEF Distinct
<1>2. \A i \in DOMAIN Tail(s) : Tail(s)[i] \in Elements(s) /\ Tail(s)[i] # Head(s)
  BY TailAt DEF Distinct, Elements
<1>3. \A i \in DOMAIN s : i # 1 => i - 1 \in DOMAIN Tail(s) /\ Tail(s)[i - 1] = s[i]
  BY TailAt
<1>4. Elements(Tail(s)) \subseteq Elements(s) \ {Head(s)}
  BY <1>2 DEF Elements
<1>5. ASSUME NEW x \in Elements(s), x # Head(s)
      PROVE  x \in Elements(Tail(s))
  <2>1. PICK i \in DOMAIN s : x = s[i]
    BY DEF Elements
  <2>2. i - 1 \in DOMAIN Tail(s) /\ Tail(s)[i - 1] = x
    BY <1>3, <2>1, <1>5, TailAt
  <2> QED  BY <2>2 DEF Elements
<1>6. Head(s) \in Elements(s)
  BY TailAt DEF Elements
<1> QED  BY <1>1, <1>4, <1>5, <1>6, TailAt

(***************************************************************************)
(* Type correctness                                                        *)
(***************************************************************************)

\* What the assumptions say of the constants.
LEMMA Constants ==
  /\ MaxEvents \in Nat /\ MaxRequests \in Nat /\ MaxTime \in Nat /\ FREEZE_EVENT_TIMEOUT \in Nat
  /\ Event = 1..MaxEvents /\ None \notin Event /\ None \notin Subscriber
  /\ Nothing \in Kept /\ Worker = {"unordered", "immediate"}
BY SubscriberAssumption, BoundAssumption, NoneAssumption DEF Event, Nothing, Kept, Worker

\* Everything starts empty and of its type.
LEMMA TypeInit == Init => TypeOK
<1> SUFFICES ASSUME Init PROVE TypeOK
  OBVIOUS
<1>1. published \in 0..MaxEvents /\ receivers \in [Event -> SUBSET Subscriber]
      /\ recordTime \in [Event -> 0..MaxTime] /\ holds \in [Event -> {0, 1}]
      /\ unorderedEventQueue \subseteq 1..published
  BY Constants DEF Init
<1>2. deliveryState \in [Event -> [Subscriber -> {PENDING, DELIVERED, SKIPPED}]]
  BY DEF Init
<1>3. queue \in [Worker -> Seq(Task)] /\ todo \in [Worker -> SUBSET Subscriber]
  BY DEF Init
<1>4. wpc \in [Worker -> {"idle", "next", "keep", "keepMap"}]
      /\ eventRecord \in [Worker -> Event \cup {None}] /\ vec \in [Worker -> Subscriber \cup {None}]
      /\ \A w \in Worker : wpc[w] = "idle" /\ eventRecord[w] = None /\ vec[w] = None
  BY DEF Init
<1>5. requests \in 0..MaxRequests /\ flush = <<>> /\ subscribed \subseteq Subscriber
      /\ generation \in {0, 1} /\ isFreeze \subseteq Subscriber \X {0, 1}
      /\ frozenEvents \in Kept /\ frozenEventsMap \in Kept
  BY Constants DEF Init
<1>6. notified \in [Subscriber -> [Event -> Nat]]
  BY DEF Init
<1> QED  BY <1>1, <1>2, <1>3, <1>4, <1>5, <1>6 DEF TypeOK

\* Nothing is queued, kept or notified at the start.
LEMMA InitInv == Init => UnorderedInv
<1> SUFFICES ASSUME Init PROVE UnorderedInv
  OBVIOUS
<1>1. TypeOK
  BY TypeInit
<1>2. EventTasks /\ KeepingIsNew /\ FlushOK /\ NothingLost
  BY Constants DEF Init, EventTasks, KeepingIsNew, FlushOK, NothingLost
<1>3. StatesOK
  BY Constants DEF Init, StatesOK, Keeping, PENDING, DELIVERED, SKIPPED
<1>4. KeptOK
  BY Constants DEF Init, KeptOK, KeptFor, Distinct, Nothing
<1>5. CopiesBounded
  BY Constants DEF Init, CopiesBounded, PENDING, SKIPPED
<1> QED  BY <1>1, <1>2, <1>3, <1>4, <1>5 DEF UnorderedInv

(***************************************************************************)
(* Types of the steps                                                      *)
(***************************************************************************)

\* The entries of flush.
Entry == {"uid", "pid"} \X ({Uid[c] : c \in Subscriber} \cup {Pid[c] : c \in Subscriber})
         \cup {"all"} \X {"uid", "pid"}

\* ProcessUnorderedEvent keeps the types: the record is new and its task
\* well-formed.
LEMMA PublishType ==
  ASSUME TypeOK, NEW matched \in SUBSET Subscriber, NEW isSystemEvent \in BOOLEAN,
         NEW screenOff \in BOOLEAN, NEW time \in 0..MaxTime,
         ProcessUnorderedEvent(matched, isSystemEvent, time, screenOff)
  PROVE  TypeOK'
<1> DEFINE e == published + 1
           w == IF isSystemEvent THEN "immediate" ELSE "unordered"
           t == [event |-> e, kept |-> Nothing]
<1>1. e \in Event /\ e \in 1..MaxEvents /\ w \in Worker /\ t \in Task
  BY Constants DEF TypeOK, ProcessUnorderedEvent, Task
<1>2. published' \in 0..MaxEvents /\ unorderedEventQueue' \subseteq 1..published'
  BY <1>1, Constants DEF TypeOK, ProcessUnorderedEvent
<1>3. generation' \in {0, 1} /\ isFreeze' \subseteq Subscriber \X {0, 1}
  <2>1. CASE screenOff /\ MayCompact
    <3>1. generation = 0 /\ generation' = 1
      BY <2>1 DEF ProcessUnorderedEvent, MayCompact
    <3>2. isFreeze' = isFreeze \cup {<<c, 1>> : c \in {d \in subscribed : <<d, 0>> \in isFreeze}}
      BY <2>1, <3>1 DEF ProcessUnorderedEvent
    <3>3. \A r \in isFreeze' : r \in Subscriber \X {0, 1}
      <4> SUFFICES ASSUME NEW r \in isFreeze', r \notin isFreeze
                   PROVE  r \in Subscriber \X {0, 1}
        BY DEF TypeOK
      <4>1. PICK c \in subscribed : r = <<c, 1>>
        BY <3>2
      <4> QED  BY <4>1 DEF TypeOK
    <3> QED  BY <3>1, <3>3
  <2>2. CASE ~(screenOff /\ MayCompact)
    BY <2>2 DEF TypeOK, ProcessUnorderedEvent
  <2> QED  BY <2>1, <2>2
<1>4. /\ receivers' \in [Event -> SUBSET Subscriber] /\ recordTime' \in [Event -> 0..MaxTime]
      /\ holds' \in [Event -> {0, 1}]
  BY <1>1, <1>3 DEF TypeOK, ProcessUnorderedEvent
<1>5. queue' \in [Worker -> Seq(Task)]
  <2>1. queue' = [queue EXCEPT ![w] = Append(queue[w], t)]
    BY DEF ProcessUnorderedEvent
  <2>2. Append(queue[w], t) \in Seq(Task)
    BY <1>1, AppendAt DEF TypeOK
  <2> QED  BY <1>1, <2>1, <2>2 DEF TypeOK
<1> QED  BY <1>2, <1>3, <1>4, <1>5
         DEF TypeOK, ProcessUnorderedEvent, workerVars, serviceVars

\* A freeze request keeps the types.
LEMMA RequestType ==
  ASSUME TypeOK, NEW cs, NEW freezeState \in BOOLEAN, NEW next \in Seq(Entry),
         Request(cs, freezeState, next)
  PROVE  TypeOK'
<1>1. requests' \in 0..MaxRequests /\ flush' \in Seq(Entry)
  BY Constants DEF TypeOK, Request
<1>2. isFreeze' \subseteq Subscriber \X {0, 1}
  BY DEF TypeOK, Request, UpdateFreezeInfo
<1> QED  BY <1>1, <1>2 DEF TypeOK, Request, Entry, eventVars, workerVars

\* What is found in a map and what stays there.
LEMMA FoundAndLeft ==
  ASSUME NEW kept \in Kept, NEW cs
  PROVE  /\ Found(kept, cs) \in Kept /\ RemoveFrozenEvents(kept, cs) \in Kept
         /\ \A c \in Subscriber :
              \/ c \in cs /\ Found(kept, cs)[c] = kept[c] /\ RemoveFrozenEvents(kept, cs)[c] = <<>>
              \/ c \notin cs /\ Found(kept, cs)[c] = <<>> /\ RemoveFrozenEvents(kept, cs)[c] = kept[c]
BY DEF Kept, Found, RemoveFrozenEvents

\* The steps of a flush keep the types.
LEMMA FlushType ==
  ASSUME TypeOK, NEW found \in Kept, PublishFrozenEventsInner(found), FlushUnchanged,
         flush # <<>>, flush' = Tail(flush), frozenEvents' \in Kept, frozenEventsMap' \in Kept
  PROVE  TypeOK'
<1>1. flush' \in Seq(Entry)
  BY TailAt DEF TypeOK, Entry
<1>2. queue' \in [Worker -> Seq(Task)]
  <2>1. [event |-> None, kept |-> found] \in Task
    BY DEF Task
  <2>2. Append(queue["immediate"], [event |-> None, kept |-> found]) \in Seq(Task)
    BY <2>1, AppendAt DEF TypeOK, Worker
  <2> QED  BY <2>2 DEF TypeOK, PublishFrozenEventsInner
<1> QED  BY <1>1, <1>2 DEF TypeOK, Entry, FlushUnchanged, eventVars, workerVars

\* A queue that starts on an event keeps the types.
LEMMA StartType ==
  ASSUME TypeOK, NEW w \in Worker, StartNotify(w)
  PROVE  /\ TypeOK' /\ Head(queue[w]) \in Task /\ Head(queue[w]).event \in Event
         /\ eventRecord'[w] = Head(queue[w]).event
<1>1. /\ Head(queue[w]) \in Task /\ Tail(queue[w]) \in Seq(Task)
      /\ Head(queue[w]).event \in Event
  <2>1. queue[w] \in Seq(Task) /\ queue[w] # <<>> /\ Head(queue[w]).event # None
    BY DEF TypeOK, StartNotify
  <2>2. Head(queue[w]) \in Task /\ Tail(queue[w]) \in Seq(Task)
    BY <2>1, TailAt
  <2> QED  BY <2>1, <2>2 DEF Task
<1>2. queue' \in [Worker -> Seq(Task)]
  BY <1>1 DEF TypeOK, StartNotify
<1>3. /\ wpc' \in [Worker -> {"idle", "next", "keep", "keepMap"}]
      /\ eventRecord' \in [Worker -> Event \cup {None}]
      /\ todo' \in [Worker -> SUBSET Subscriber]
  BY <1>1 DEF TypeOK, StartNotify
<1>4. \A v \in Worker : /\ eventRecord'[v] = None <=> wpc'[v] = "idle"
                        /\ vec[v] = None <=> wpc'[v] \in {"idle", "next"}
                        /\ vec[v] # None => vec[v] \in todo'[v]
  BY <1>1, Constants DEF TypeOK, StartNotify
<1>5. eventRecord'[w] = Head(queue[w]).event
  BY DEF TypeOK, StartNotify
<1> QED  BY <1>1, <1>2, <1>3, <1>4, <1>5 DEF TypeOK, StartNotify, eventVars, serviceVars, managerVars

\* NotifySingleUnorderedSubscriber keeps the types.
LEMMA NotifyType ==
  ASSUME TypeOK, NEW w \in Worker, NEW c \in Subscriber, NotifySingleUnorderedSubscriber(w, c)
  PROVE  TypeOK' /\ eventRecord[w] \in Event
<1>1. eventRecord[w] \in Event /\ vec[w] = None
  BY DEF TypeOK, NotifySingleUnorderedSubscriber
<1>2. deliveryState' \in [Event -> [Subscriber -> {PENDING, DELIVERED, SKIPPED}]]
  BY <1>1 DEF TypeOK, NotifySingleUnorderedSubscriber
<1>3. notified' \in [Subscriber -> [Event -> Nat]]
  BY <1>1 DEF TypeOK, NotifySingleUnorderedSubscriber
<1>4. todo' \in [Worker -> SUBSET Subscriber] /\ \A v \in Worker : vec[v] # None => vec[v] \in todo'[v]
  BY <1>1 DEF TypeOK, NotifySingleUnorderedSubscriber
<1> QED  BY <1>1, <1>2, <1>3, <1>4
         DEF TypeOK, NotifySingleUnorderedSubscriber, eventVars, serviceVars, managerVars

\* HandleFrozenUnorderedSubscriber keeps the types; its locals are set.
LEMMA HandleType ==
  ASSUME TypeOK, NEW w \in Worker, NEW c \in Subscriber, HandleFrozenUnorderedSubscriber(w, c)
  PROVE  TypeOK' /\ eventRecord[w] \in Event
<1>1. eventRecord[w] \in Event
  BY DEF TypeOK, HandleFrozenUnorderedSubscriber
<1>2. deliveryState' \in [Event -> [Subscriber -> {PENDING, DELIVERED, SKIPPED}]]
  BY <1>1 DEF TypeOK, HandleFrozenUnorderedSubscriber
<1>3. /\ vec' \in [Worker -> Subscriber \cup {None}]
      /\ wpc' \in [Worker -> {"idle", "next", "keep", "keepMap"}]
      /\ \A v \in Worker : /\ eventRecord[v] = None <=> wpc'[v] = "idle"
                           /\ vec'[v] = None <=> wpc'[v] \in {"idle", "next"}
                           /\ vec'[v] # None => vec'[v] \in todo[v]
  BY Constants DEF TypeOK, HandleFrozenUnorderedSubscriber
<1> QED  BY <1>1, <1>2, <1>3
         DEF TypeOK, HandleFrozenUnorderedSubscriber, eventVars, serviceVars, managerVars

\* A vector with one more event: the oldest event may go for it, outdated.
LEMMA AppendKeptIs ==
  ASSUME TypeOK, NEW s \in Seq(Event), NEW e \in Event, Distinct(s), e \notin Elements(s)
  PROVE  /\ AppendKept(s, e) \in Seq(Event) /\ Distinct(AppendKept(s, e))
         /\ e \in Elements(AppendKept(s, e))
         /\ Elements(AppendKept(s, e)) \subseteq Elements(s) \cup {e}
         /\ \A x \in Elements(s) : x \in Elements(AppendKept(s, e))
                                     \/ recordTime[e] - recordTime[x] > FREEZE_EVENT_TIMEOUT
<1> DEFINE all == Append(s, e)
<1>1. all \in Seq(Event) /\ all # <<>> /\ Distinct(all) /\ Elements(all) = Elements(s) \cup {e}
  BY DistinctAppend, AppendAt
<1>2. CASE ~(recordTime[e] - recordTime[Head(all)] > FREEZE_EVENT_TIMEOUT)
  BY <1>1, <1>2 DEF AppendKept
<1>3. CASE recordTime[e] - recordTime[Head(all)] > FREEZE_EVENT_TIMEOUT
  <2>1. AppendKept(s, e) = Tail(all)
    BY <1>3 DEF AppendKept
  <2>2. /\ Distinct(Tail(all)) /\ Elements(Tail(all)) = Elements(all) \ {Head(all)}
        /\ Tail(all) \in Seq(Event)
    <3> HIDE DEF all
    <3> QED  BY <1>1, DistinctTail
  <2>3. Head(all) # e
    <3>1. recordTime[e] \in Nat
      BY Constants DEF TypeOK
    <3>2. ~(recordTime[e] - recordTime[e] > FREEZE_EVENT_TIMEOUT)
      BY <3>1, Constants
    <3> HIDE DEF all
    <3> QED  BY <1>3, <3>2
  <2> HIDE DEF all
  <2> QED  BY <1>1, <1>3, <2>1, <2>2, <2>3
<1> QED  BY <1>2, <1>3

\* InsertFrozenEvents keeps the types.
LEMMA InsertType ==
  ASSUME TypeOK, KeptOK, KeepingIsNew, NEW w \in Worker, InsertFrozenEvents(w)
  PROVE  TypeOK' /\ eventRecord[w] \in Event /\ vec[w] \in Subscriber
<1>1. eventRecord[w] \in Event /\ vec[w] \in Subscriber
  BY DEF TypeOK, InsertFrozenEvents
<1>2. AppendKept(frozenEvents[vec[w]], eventRecord[w]) \in Seq(Event)
  <2>1. frozenEvents[vec[w]] \in Seq(Event)
    BY <1>1 DEF TypeOK, Kept
  <2>2. Distinct(frozenEvents[vec[w]]) /\ eventRecord[w] \notin Elements(frozenEvents[vec[w]])
    BY <1>1 DEF KeptOK, KeptFor, KeepingIsNew, InsertFrozenEvents
  <2> QED  BY <1>1, <2>1, <2>2, AppendKeptIs
<1>3. frozenEvents' \in Kept
  BY <1>1, <1>2 DEF TypeOK, Kept, InsertFrozenEvents
<1>4. /\ wpc' \in [Worker -> {"idle", "next", "keep", "keepMap"}]
      /\ \A v \in Worker : /\ eventRecord[v] = None <=> wpc'[v] = "idle"
                           /\ vec[v] = None <=> wpc'[v] \in {"idle", "next"}
  BY DEF TypeOK, InsertFrozenEvents
<1> QED  BY <1>1, <1>3, <1>4 DEF TypeOK, InsertFrozenEvents, eventVars, serviceVars

\* InsertFrozenEventsMap keeps the types.
LEMMA InsertMapType ==
  ASSUME TypeOK, KeptOK, KeepingIsNew, NEW w \in Worker, InsertFrozenEventsMap(w)
  PROVE  TypeOK' /\ eventRecord[w] \in Event /\ vec[w] \in Subscriber
<1>1. eventRecord[w] \in Event /\ vec[w] \in Subscriber
  BY DEF TypeOK, InsertFrozenEventsMap
<1>2. AppendKept(frozenEventsMap[vec[w]], eventRecord[w]) \in Seq(Event)
  <2>1. frozenEventsMap[vec[w]] \in Seq(Event)
    BY <1>1 DEF TypeOK, Kept
  <2>2. Distinct(frozenEventsMap[vec[w]]) /\ eventRecord[w] \notin Elements(frozenEventsMap[vec[w]])
    BY <1>1 DEF KeptOK, KeptFor, KeepingIsNew, InsertFrozenEventsMap
  <2> QED  BY <1>1, <2>1, <2>2, AppendKeptIs
<1>3. frozenEventsMap' \in Kept
  BY <1>1, <1>2 DEF TypeOK, Kept, InsertFrozenEventsMap
<1>4. /\ wpc' \in [Worker -> {"idle", "next", "keep", "keepMap"}]
      /\ vec' \in [Worker -> Subscriber \cup {None}]
      /\ todo' \in [Worker -> SUBSET Subscriber]
      /\ \A v \in Worker : /\ eventRecord[v] = None <=> wpc'[v] = "idle"
                           /\ vec'[v] = None <=> wpc'[v] \in {"idle", "next"}
                           /\ vec'[v] # None => vec'[v] \in todo'[v]
  BY Constants DEF TypeOK, InsertFrozenEventsMap, AfterReceiver
<1> QED  BY <1>1, <1>3, <1>4 DEF TypeOK, InsertFrozenEventsMap, eventVars, serviceVars

\* The end of NotifyUnorderedEvent keeps the types.
LEMMA FinishType ==
  ASSUME TypeOK, NEW w \in Worker, FinishNotify(w)
  PROVE  TypeOK'
<1>1. /\ wpc' \in [Worker -> {"idle", "next", "keep", "keepMap"}]
      /\ eventRecord' \in [Worker -> Event \cup {None}]
      /\ unorderedEventQueue' \subseteq 1..published
      /\ \A v \in Worker : /\ eventRecord'[v] = None <=> wpc'[v] = "idle"
                           /\ vec[v] = None <=> wpc'[v] \in {"idle", "next"}
  BY DEF TypeOK, FinishNotify
<1> QED  BY <1>1 DEF TypeOK, FinishNotify, eventVars, serviceVars, managerVars

\* The step of a flush task in terms of its parts.
Rest(c) == [Head(queue["immediate"]).kept EXCEPT ![c] = Tail(@)]
FlushTaskLeft(c) == [Head(queue["immediate"]) EXCEPT !.kept = Rest(c)]

\* What NotifyFreezeEvents does to the first task and to the receiver.
LEMMA FreezeTaskIs ==
  ASSUME TypeOK, NEW c \in Subscriber, NotifyFreezeEvents(c)
  PROVE  LET q == queue["immediate"] IN
         /\ q \in Seq(Task) /\ q # <<>> /\ Head(q) \in Task /\ Head(q).event = None
         /\ Head(q).kept \in Kept /\ Head(q).kept[c] \in Seq(Event) /\ Head(q).kept[c] # <<>>
         /\ Rest(c) \in Kept /\ Rest(c)[c] = Tail(Head(q).kept[c])
         /\ \A d \in Subscriber : d # c => Rest(c)[d] = Head(q).kept[d]
         /\ FlushTaskLeft(c) \in Task /\ FlushTaskLeft(c).event = None
         /\ FlushTaskLeft(c).kept = Rest(c)
         /\ queue' = [queue EXCEPT !["immediate"] =
                        IF Rest(c) = Nothing THEN Tail(q) ELSE <<FlushTaskLeft(c)>> \o Tail(q)]
         /\ notified' = IF c \in Invalid THEN notified
                        ELSE [notified EXCEPT ![c][Head(Head(q).kept[c])] = @ + 1]
         /\ Head(Head(q).kept[c]) \in Event
<1> DEFINE q == queue["immediate"]
<1>1. q \in Seq(Task) /\ q # <<>> /\ Head(q) \in Task
  BY TailAt DEF TypeOK, Worker, NotifyFreezeEvents
<1>2. Head(q).event = None /\ Head(q).kept[c] # <<>>
  BY DEF NotifyFreezeEvents
<1>3. Head(q).kept \in Kept /\ Head(q).kept[c] \in Seq(Event)
  BY <1>1 DEF Task, Kept
<1>4. Tail(Head(q).kept[c]) \in Seq(Event) /\ Head(Head(q).kept[c]) \in Event
  BY <1>2, <1>3, TailAt
<1>5. /\ Rest(c) \in Kept /\ Rest(c)[c] = Tail(Head(q).kept[c])
      /\ \A d \in Subscriber : d # c => Rest(c)[d] = Head(q).kept[d]
  BY <1>3, <1>4 DEF Kept, Rest
<1>6. /\ FlushTaskLeft(c) \in Task /\ FlushTaskLeft(c).event = None
      /\ FlushTaskLeft(c).kept = Rest(c)
  BY <1>1, <1>2, <1>5 DEF Task, FlushTaskLeft
<1>7. /\ queue' = [queue EXCEPT !["immediate"] =
                     IF Rest(c) = Nothing THEN Tail(q) ELSE <<FlushTaskLeft(c)>> \o Tail(q)]
      /\ notified' = IF c \in Invalid THEN notified
                     ELSE [notified EXCEPT ![c][Head(Head(q).kept[c])] = @ + 1]
  BY DEF NotifyFreezeEvents, Rest, FlushTaskLeft
<1> QED  BY <1>1, <1>2, <1>3, <1>4, <1>5, <1>6, <1>7

\* NotifyFreezeEvents keeps the types.
LEMMA FreezeTaskType ==
  ASSUME TypeOK, NEW c \in Subscriber, NotifyFreezeEvents(c)
  PROVE  TypeOK'
<1> DEFINE q == queue["immediate"]
<1>1. Tail(q) \in Seq(Task) /\ <<FlushTaskLeft(c)>> \o Tail(q) \in Seq(Task)
  BY FreezeTaskIs, TailAt, NewHeadAt
<1>2. queue' \in [Worker -> Seq(Task)]
  <2>1. \E n \in Seq(Task) : queue' = [queue EXCEPT !["immediate"] = n]
    BY <1>1, FreezeTaskIs
  <2> QED  BY <2>1 DEF TypeOK
<1>3. notified' \in [Subscriber -> [Event -> Nat]]
  <2>1. notified' = notified \/ \E e \in Event : notified' = [notified EXCEPT ![c][e] = @ + 1]
    BY FreezeTaskIs
  <2>2. ASSUME NEW e \in Event
        PROVE  [notified EXCEPT ![c][e] = @ + 1] \in [Subscriber -> [Event -> Nat]]
    BY DEF TypeOK
  <2>3. notified \in [Subscriber -> [Event -> Nat]]
    BY DEF TypeOK
  <2> QED  BY <2>1, <2>2, <2>3, Zenon
<1> QED  BY <1>2, <1>3 DEF TypeOK, NotifyFreezeEvents, eventVars, workerVars, serviceVars, managerVars

\* RemoveSubscriberRecordLocked keeps the types.
LEMMA RemoveType ==
  ASSUME TypeOK, NEW c \in Subscriber, RemoveSubscriber(c)
  PROVE  TypeOK'
<1>1. frozenEvents' \in Kept /\ frozenEventsMap' \in Kept /\ subscribed' \subseteq Subscriber
  BY DEF TypeOK, Kept, RemoveSubscriber
<1> QED  BY <1>1 DEF TypeOK, RemoveSubscriber, eventVars, workerVars, serviceVars

(***************************************************************************)
(* Counting the copies on the immediate queue                              *)
(***************************************************************************)

\* The tasks of q with e for c.
Copies(q, c, e) == {i \in DOMAIN q : e \in Elements(q[i].kept[c])}

\* One when e is in the vector, none otherwise.
One(s, e) == IF e \in Elements(s) THEN 1 ELSE 0

\* The copies can be counted.
LEMMA CopiesNat ==
  ASSUME NEW q \in Seq(Task), NEW c, NEW e
  PROVE  IsFiniteSet(Copies(q, c, e)) /\ Cardinality(Copies(q, c, e)) \in Nat
<1>1. DOMAIN q = 1..Len(q) /\ Len(q) \in Nat
  OBVIOUS
<1>2. IsFiniteSet(1..Len(q))
  BY <1>1, FS_Interval
<1>3. Copies(q, c, e) \in SUBSET (1..Len(q))
  BY <1>1 DEF Copies
<1> QED  BY <1>2, <1>3, FS_Subset, FS_CardinalityType

\* A task more on the queue is at most one copy more.
LEMMA CopiesAppend ==
  ASSUME NEW q \in Seq(Task), NEW t \in Task, NEW c, NEW e
  PROVE  Cardinality(Copies(Append(q, t), c, e)) = Cardinality(Copies(q, c, e)) + One(t.kept[c], e)
<1> DEFINE n == Append(q, t)
<1>1. /\ DOMAIN q = 1..Len(q) /\ Len(q) \in Nat /\ DOMAIN n = 1..(Len(q) + 1)
      /\ n[Len(q) + 1] = t /\ \A i \in 1..Len(q) : n[i] = q[i]
  BY AppendAt
<1>2. IsFiniteSet(Copies(q, c, e)) /\ Cardinality(Copies(q, c, e)) \in Nat
  BY CopiesNat
<1>3. CASE e \in Elements(t.kept[c])
  <2>1. Copies(n, c, e) = Copies(q, c, e) \cup {Len(q) + 1}
    <3> HIDE DEF n
    <3> QED  BY <1>1, <1>3 DEF Copies
  <2>2. Len(q) + 1 \notin Copies(q, c, e)
    BY <1>1 DEF Copies
  <2> QED  BY <1>2, <1>3, <2>1, <2>2, FS_AddElement DEF One
<1>4. CASE e \notin Elements(t.kept[c])
  <2>1. Copies(n, c, e) = Copies(q, c, e)
    <3> HIDE DEF n
    <3> QED  BY <1>1, <1>4 DEF Copies
  <2> QED  BY <1>2, <1>4, <2>1 DEF One
<1> QED  BY <1>3, <1>4

\* The copies of a queue are those of its first task and of the rest.
LEMMA CopiesHead ==
  ASSUME NEW q \in Seq(Task), q # <<>>, NEW c, NEW e
  PROVE  Cardinality(Copies(q, c, e)) = Cardinality(Copies(Tail(q), c, e)) + One(Head(q).kept[c], e)
<1> DEFINE S == Copies(Tail(q), c, e)
           T == Copies(q, c, e) \ {1}
           f == [i \in S |-> i + 1]
<1>1. /\ DOMAIN q = 1..Len(q) /\ Len(q) \in Nat /\ Len(q) > 0 /\ Head(q) = q[1]
      /\ DOMAIN Tail(q) = 1..(Len(q) - 1) /\ Tail(q) \in Seq(Task)
      /\ \A i \in 1..(Len(q) - 1) : Tail(q)[i] = q[i + 1]
  BY TailAt
<1>2. /\ IsFiniteSet(S) /\ Cardinality(S) \in Nat
      /\ IsFiniteSet(Copies(q, c, e)) /\ Cardinality(Copies(q, c, e)) \in Nat
  BY <1>1, CopiesNat
<1>3. S \in SUBSET Nat /\ \A i \in S : i + 1 \in T
  BY <1>1 DEF Copies
<1>4. \A j \in T : j - 1 \in S /\ j \in Nat
  BY <1>1 DEF Copies
<1> HIDE DEF S, T
<1>5. f \in [S -> T] /\ IsInjective(f)
  BY <1>3 DEF IsInjective
<1>6. f \in Surjection(S, T)
  <2>1. \A j \in T : f[j - 1] = j /\ j - 1 \in S
    BY <1>4
  <2> QED  BY <1>5, <2>1 DEF Surjection
<1>7. ExistsBijection(S, T)
  BY <1>5, <1>6 DEF ExistsBijection, Bijection, Injection
<1>8. Cardinality(T) = Cardinality(S)
  BY <1>2, <1>7, FS_Bijection
<1>9. 1 \in Copies(q, c, e) <=> e \in Elements(Head(q).kept[c])
  BY <1>1 DEF Copies
<1>10. Cardinality(T) = IF 1 \in Copies(q, c, e) THEN Cardinality(Copies(q, c, e)) - 1
                        ELSE Cardinality(Copies(q, c, e))
  BY <1>2, FS_RemoveElement DEF T
<1> QED  BY <1>2, <1>8, <1>9, <1>10 DEF One, S

\* Deliveries by the number of copies.
LEMMA DeliveriesIs ==
  \A c, e : Deliveries(c, e) = notified[c][e] + Cardinality(Copies(queue["immediate"], c, e))
BY DEF Deliveries, Copies

\* The same in the next state.
LEMMA NewDeliveriesIs ==
  \A c, e : Deliveries(c, e)' = notified'[c][e] + Cardinality(Copies(queue'["immediate"], c, e))
BY DEF Deliveries, Copies

\* Interface counts.
LEMMA InterfaceCounts ==
  ASSUME "all" \notin Interface
  PROVE  Cardinality(Interface) = (IF "uid" \in Interface THEN 1 ELSE 0)
                                  + (IF "pid" \in Interface THEN 1 ELSE 0)
<1>1. Interface \subseteq {"uid", "pid"}
  BY EnvironmentAssumption
<1>2. Cardinality({"uid", "pid"}) = 2 /\ Cardinality({"uid"}) = 1 /\ Cardinality({"pid"}) = 1
      /\ Cardinality({}) = 0
  <2>1. {"uid", "pid"} = {"uid"} \cup {"pid"} /\ "pid" \notin {"uid"}
    OBVIOUS
  <2>2. IsFiniteSet({"uid"}) /\ Cardinality({"uid"}) = 1 /\ Cardinality({"pid"}) = 1
    BY FS_Singleton, Zenon
  <2>3. Cardinality({"uid"} \cup {"pid"}) = Cardinality({"uid"}) + 1
    BY <2>1, <2>2, FS_AddElement, Zenon
  <2> QED  BY <2>1, <2>2, <2>3, FS_EmptySet
<1>3. Interface = {} \/ Interface = {"uid"} \/ Interface = {"pid"} \/ Interface = {"uid", "pid"}
  BY <1>1
<1>4. CASE Interface = {}
  BY <1>2, <1>4
<1>5. CASE Interface = {"uid"}
  BY <1>2, <1>5
<1>6. CASE Interface = {"pid"}
  BY <1>2, <1>6
<1>7. CASE Interface = {"uid", "pid"}
  BY <1>2, <1>7
<1> QED  BY <1>3, <1>4, <1>5, <1>6, <1>7

(***************************************************************************)
(* Requests                                                                *)
(***************************************************************************)

\* A freeze request changes only flags and the maps to flush.
LEMMA RequestKeeps ==
  ASSUME UnorderedInv, NEW cs, NEW freezeState \in BOOLEAN, NEW next \in Seq(Entry),
         \A i \in DOMAIN next : next[i][1] \in Interface, Request(cs, freezeState, next)
  PROVE  UnorderedInv'
<1>1. TypeOK'
  BY RequestType DEF UnorderedInv
<1>2. FlushOK'
  BY DEF FlushOK, Request
<1>3. UNCHANGED <<published, recordTime, deliveryState, queue, wpc, eventRecord, todo, vec,
                  subscribed, frozenEvents, frozenEventsMap, notified>>
  BY DEF Request, eventVars, workerVars
<1>4. EventTasks' /\ KeptOK' /\ KeepingIsNew'
  BY <1>3 DEF UnorderedInv, EventTasks, KeptOK, KeptFor, KeepingIsNew
<1>5. StatesOK'
  BY <1>3 DEF UnorderedInv, StatesOK, Awaiting, Keeping
<1>6. CopiesBounded'
  <2>1. \A d \in Subscriber, f \in Event :
          /\ UidCopy(d, f)' = UidCopy(d, f) /\ PidCopy(d, f)' = PidCopy(d, f)
          /\ Deliveries(d, f)' = Deliveries(d, f)
    BY <1>3 DEF Deliveries, UidCopy, PidCopy, Keeping
  <2> QED  BY <1>3, <2>1 DEF UnorderedInv, CopiesBounded
<1>7. NothingLost'
  BY <1>3 DEF UnorderedInv, NothingLost, Outdated, HandedOver, Keeping
<1> QED  BY <1>1, <1>2, <1>4, <1>5, <1>6, <1>7 DEF UnorderedInv

\* The lists of SetFreezeStatus, and what it asks to have flushed for them.
LEMMA PidListIs ==
  ASSUME NEW pids \in PidLists
  PROVE  [i \in DOMAIN pids |-> <<"pid", pids[i]>>] \in Seq(Entry)
<1> DEFINE P == {Pid[c] : c \in Subscriber}
<1>1. PICK n \in Nat : pids \in [1..n -> P]
  <2>1. CASE \E pid \in P : pids = <<pid>>
    <3>1. PICK pid \in P : pids = <<pid>>
      BY <2>1
    <3>2. pids \in [1..1 -> P]
      BY <3>1
    <3> QED  BY <3>2
  <2>2. CASE pids \in [1..Cardinality(P) -> P]
    <3>1. IsFiniteSet(P)
      <4> DEFINE f == [c \in Subscriber |-> Pid[c]]
      <4>1. f \in Surjection(Subscriber, P)
        BY DEF Surjection
      <4> QED  BY <4>1, SubscriberAssumption, FS_Surjection DEF ExistsSurjection
    <3> QED  BY <2>2, <3>1, FS_CardinalityType
  <2> QED  BY <2>1, <2>2 DEF PidLists
<1>2. \A i \in 1..n : <<"pid", pids[i]>> \in Entry
  BY <1>1 DEF Entry
<1>3. DOMAIN pids = 1..n
  BY <1>1
<1>4. [i \in 1..n |-> <<"pid", pids[i]>>] \in [1..n -> Entry]
  BY <1>2
<1> QED  BY <1>3, <1>4

\* Freeze, Unfreeze, SetFreezeStatus and UnfreezeAll keep the invariant.
LEMMA FreezeRequestKeeps ==
  ASSUME UnorderedInv, FreezeRequest
  PROVE  UnorderedInv'
<1>1. <<>> \in Seq(Entry)
  OBVIOUS
<1>2. ASSUME NEW c \in Subscriber, Freeze(Uid[c])
      PROVE  UnorderedInv'
  <2>1. Request(WithUid(Uid[c]), TRUE, <<>>)
    BY <1>2 DEF Freeze
  <2>2. \A i \in DOMAIN <<>> : <<>>[i][1] \in Interface
    OBVIOUS
  <2> QED  BY <1>1, <2>1, <2>2, RequestKeeps
<1>3. ASSUME NEW c \in Subscriber, Unfreeze(Uid[c])
      PROVE  UnorderedInv'
  <2>1. <<<<"uid", Uid[c]>>>> \in Seq(Entry)
    BY DEF Entry
  <2>2. Request(WithUid(Uid[c]), FALSE, <<<<"uid", Uid[c]>>>>) /\ "uid" \in Interface
    BY <1>3 DEF Unfreeze
  <2>3. \A i \in DOMAIN <<<<"uid", Uid[c]>>>> : <<<<"uid", Uid[c]>>>>[i][1] \in Interface
    BY <2>2
  <2> QED  BY <2>1, <2>2, <2>3, RequestKeeps
<1>4. ASSUME NEW pids \in PidLists, NEW freezeState \in BOOLEAN, SetFreezeStatus(pids, freezeState)
      PROVE  UnorderedInv'
  <2> DEFINE next == IF freezeState THEN <<>> ELSE [i \in DOMAIN pids |-> <<"pid", pids[i]>>]
  <2>1. next \in Seq(Entry)
    BY <1>1, PidListIs
  <2>2. "pid" \in Interface
    BY <1>4 DEF SetFreezeStatus
  <2>3. \A i \in DOMAIN next : next[i][1] \in Interface
    BY <2>2
  <2>4. PICK cs : Request(cs, freezeState, next)
    BY <1>4 DEF SetFreezeStatus
  <2> HIDE DEF next
  <2> QED  BY <2>1, <2>3, <2>4, RequestKeeps
<1>5. ASSUME UnfreezeAll
      PROVE  UnorderedInv'
  <2>1. <<<<"all", "uid">>, <<"all", "pid">>>> \in Seq(Entry)
    BY DEF Entry
  <2>2. Request(Subscriber, FALSE, <<<<"all", "uid">>, <<"all", "pid">>>>) /\ "all" \in Interface
    BY <1>5 DEF UnfreezeAll
  <2>3. \A i \in DOMAIN <<<<"all", "uid">>, <<"all", "pid">>>> :
          <<<<"all", "uid">>, <<"all", "pid">>>>[i][1] \in Interface
    BY <2>2
  <2> QED  BY <2>1, <2>2, <2>3, RequestKeeps
<1> QED  BY <1>2, <1>3, <1>4, <1>5 DEF FreezeRequest

(***************************************************************************)
(* Publication                                                             *)
(***************************************************************************)

\* The record and the task of a new event have nothing to their name yet.
LEMMA PublishKeeps ==
  ASSUME UnorderedInv, Publish
  PROVE  UnorderedInv'
<1>1. PICK matched \in SUBSET subscribed, isSystemEvent \in BOOLEAN, screenOff \in BOOLEAN,
           time \in 0..MaxTime : ProcessUnorderedEvent(matched, isSystemEvent, time, screenOff)
  BY DEF Publish
<1>2. matched \in SUBSET Subscriber
  BY DEF UnorderedInv, TypeOK
<1> DEFINE e == published + 1
           w == IF isSystemEvent THEN "immediate" ELSE "unordered"
           t == [event |-> e, kept |-> Nothing]
<1>3. TypeOK /\ TypeOK'
  BY <1>1, <1>2, PublishType DEF UnorderedInv
<1>4. /\ published' = e /\ e \in Event /\ e \in Nat /\ published \in Nat /\ t \in Task /\ w \in Worker
      /\ Worker = {"unordered", "immediate"}
  BY <1>1, <1>3, Constants DEF TypeOK, ProcessUnorderedEvent, Task
<1>5. UNCHANGED <<deliveryState, wpc, eventRecord, todo, vec, flush,
                  subscribed, frozenEvents, frozenEventsMap, notified>>
  BY <1>1 DEF ProcessUnorderedEvent, workerVars, serviceVars
<1>6. /\ queue'[w] = Append(queue[w], t) /\ \A v \in Worker : v # w => queue'[v] = queue[v]
      /\ \A f \in Event : f # e => recordTime'[f] = recordTime[f]
  BY <1>1, <1>3, <1>4 DEF TypeOK, ProcessUnorderedEvent
<1>7. \A v \in Worker : queue[v] \in Seq(Task)
  BY <1>3 DEF TypeOK
<1> HIDE DEF e, w
<1>8. \A v \in Worker : \A i \in DOMAIN queue'[v] :
        \/ i \in DOMAIN queue[v] /\ queue'[v][i] = queue[v][i]
        \/ v = w /\ i = Len(queue[w]) + 1 /\ queue'[v][i] = t
  <2> HIDE DEF t
  <2> SUFFICES ASSUME NEW v \in Worker, NEW i \in DOMAIN queue'[v]
               PROVE  \/ i \in DOMAIN queue[v] /\ queue'[v][i] = queue[v][i]
                      \/ v = w /\ i = Len(queue[w]) + 1 /\ queue'[v][i] = t
    OBVIOUS
  <2>1. CASE v # w
    BY <1>6, <2>1
  <2>2. CASE v = w
    <3>1. queue'[v] = Append(queue[w], t) /\ queue[w] \in Seq(Task) /\ t \in Task
      BY <1>4, <1>6, <1>7, <2>2
    <3> QED  BY <2>2, <3>1, AppendAt
  <2> QED  BY <2>1, <2>2
<1>9. t.event = e /\ t.kept = Nothing /\ e # None
  BY <1>4, Constants
<1> HIDE DEF t
<1>10. EventTasks'
  <2>1. ASSUME NEW v \in Worker, NEW i \in DOMAIN queue'[v], queue'[v][i].event # None
        PROVE  /\ queue'[v][i].event <= published' /\ queue'[v][i].kept = Nothing
               /\ \A u \in Worker : eventRecord'[u] # queue'[v][i].event
    <3>1. CASE queue'[v][i] = t
      <4>1. \A u \in Worker : eventRecord[u] # e
        <5> SUFFICES ASSUME NEW u \in Worker, eventRecord[u] = e
                     PROVE  FALSE
          OBVIOUS
        <5>1. e <= published
          BY <1>9 DEF UnorderedInv, EventTasks
        <5> QED  BY <1>4, <5>1 DEF e
      <4> QED  BY <1>4, <1>5, <1>9, <3>1, <4>1
    <3>2. CASE i \in DOMAIN queue[v] /\ queue'[v][i] = queue[v][i]
      <4>1. queue[v][i].event \in Nat
        <5>1. queue[v][i] \in Task
          BY <1>7, <3>2
        <5>2. queue[v][i].event \in Event
          BY <2>1, <3>2, <5>1 DEF Task
        <5> QED  BY <5>2, Constants
      <4> QED  BY <1>4, <1>5, <2>1, <3>2, <4>1 DEF UnorderedInv, EventTasks, e
    <3> QED  BY <1>8, <3>1, <3>2
  <2>2. ASSUME NEW u \in Worker, NEW v \in Worker, NEW i \in DOMAIN queue'[u],
               NEW j \in DOMAIN queue'[v], queue'[u][i].event # None,
               queue'[u][i].event = queue'[v][j].event
        PROVE  u = v /\ i = j
    <3>1. \A x \in Worker : \A k \in DOMAIN queue[x] : queue[x][k].event # e
      <4> SUFFICES ASSUME NEW x \in Worker, NEW k \in DOMAIN queue[x], queue[x][k].event = e
                   PROVE  FALSE
        OBVIOUS
      <4>1. e <= published
        BY <1>9 DEF UnorderedInv, EventTasks
      <4> QED  BY <4>1, <1>4 DEF e
    <3>2. CASE queue'[u][i].event = e
      BY <1>8, <1>9, <2>2, <3>1, <3>2
    <3>3. CASE queue'[u][i].event # e
      <4>1. /\ i \in DOMAIN queue[u] /\ queue[u][i] = queue'[u][i]
            /\ j \in DOMAIN queue[v] /\ queue[v][j] = queue'[v][j]
        BY <1>8, <1>9, <2>2, <3>3
      <4> QED  BY <2>2, <4>1 DEF UnorderedInv, EventTasks
    <3> QED  BY <3>2, <3>3
  <2>3. ASSUME NEW v \in Worker, eventRecord'[v] # None
        PROVE  eventRecord'[v] <= published'
    <3>1. eventRecord[v] \in Nat
      BY <1>3, <1>5, <2>3, Constants DEF TypeOK
    <3>2. eventRecord[v] <= published
      BY <1>5, <2>3 DEF UnorderedInv, EventTasks
    <3> QED  BY <1>4, <1>5, <3>1, <3>2 DEF e
  <2> QED  BY <2>1, <2>2, <2>3, <1>5 DEF UnorderedInv, EventTasks
<1>11. ASSUME NEW f \in Event, NEW c \in Subscriber, Awaiting(f, c)'
       PROVE  Awaiting(f, c)
  <2>1. CASE f > published'
    BY <1>4, <2>1, Constants DEF Awaiting, e
  <2>2. CASE \E v \in Worker : \E i \in DOMAIN queue'[v] : queue'[v][i].event = f
    <3>1. CASE f = e
      BY <1>4, <3>1 DEF Awaiting, e
    <3> QED  BY <1>8, <1>9, <2>2, <3>1 DEF Awaiting
  <2> QED  BY <1>11, <1>5, <2>1, <2>2 DEF Awaiting
<1>12. StatesOK'
  BY <1>5, <1>11 DEF UnorderedInv, StatesOK, Keeping
<1>13. \A c \in Subscriber : t.kept[c] = <<>>
  BY <1>9 DEF Nothing
<1>14. KeptOK'
  <2>1. ASSUME NEW c \in Subscriber, NEW i \in DOMAIN queue'["immediate"]
        PROVE  KeptFor(c, queue["immediate"][i].kept[c])'
    <3>1. CASE queue'["immediate"][i] = t
      BY <1>13, <3>1 DEF KeptFor, Distinct
    <3> QED  BY <1>4, <1>5, <1>8, <3>1 DEF UnorderedInv, KeptOK, KeptFor
  <2> QED  BY <2>1, <1>5 DEF UnorderedInv, KeptOK, KeptFor
<1>15. KeepingIsNew' /\ FlushOK'
  BY <1>5 DEF UnorderedInv, KeepingIsNew, FlushOK
<1>16. CopiesBounded'
  <2>1. \A c \in Subscriber, f \in Event :
          Cardinality(Copies(queue'["immediate"], c, f)) = Cardinality(Copies(queue["immediate"], c, f))
    <3> SUFFICES ASSUME NEW c \in Subscriber, NEW f \in Event
                 PROVE  Cardinality(Copies(queue'["immediate"], c, f))
                          = Cardinality(Copies(queue["immediate"], c, f))
      OBVIOUS
    <3>1. CASE w = "immediate"
      <4>1. One(t.kept[c], f) = 0
        BY <1>13 DEF One, Elements
      <4>2. /\ queue'["immediate"] = Append(queue["immediate"], t)
            /\ queue["immediate"] \in Seq(Task) /\ t \in Task
        BY <1>4, <1>6, <1>7, <3>1
      <4>3. Cardinality(Copies(Append(queue["immediate"], t), c, f))
              = Cardinality(Copies(queue["immediate"], c, f)) + One(t.kept[c], f)
        BY <4>2, CopiesAppend
      <4> QED  BY <4>1, <4>2, <4>3, CopiesNat
    <3>2. CASE w # "immediate"
      BY <1>4, <1>6, <3>2
    <3> QED  BY <3>1, <3>2
  <2>2. \A c \in Subscriber, f \in Event : Deliveries(c, f)' = Deliveries(c, f)
    BY <1>5, <2>1, DeliveriesIs, NewDeliveriesIs
  <2> QED  BY <1>5, <2>2 DEF UnorderedInv, CopiesBounded, UidCopy, PidCopy, Keeping
<1>17. NothingLost'
  <2> SUFFICES ASSUME NEW f \in 1..published', NEW c \in subscribed' \ Invalid,
                      deliveryState'[f][c] = SKIPPED, ~Outdated(c, f)'
               PROVE  \/ HandedOver(c, f)' \/ notified'[c][f] > 0
                      \/ /\ \/ f \in Elements(frozenEvents'[c])
                            \/ \E v \in Worker : Keeping(v, c, f)' /\ wpc'[v] = "keep"
                         /\ \/ f \in Elements(frozenEventsMap'[c])
                            \/ \E v \in Worker : Keeping(v, c, f)'
    BY DEF NothingLost
  <2>1. c \in Subscriber /\ f \in Event /\ c \in subscribed \ Invalid
    BY <1>3, <1>4, <1>5, Constants DEF TypeOK
  <2>2. f # e
    BY <1>4, <1>5, <2>1 DEF UnorderedInv, StatesOK, Awaiting, e, PENDING, SKIPPED
  <2>3. f \in 1..published
    BY <1>4, <2>1, <2>2 DEF e
  <2>4. ~Outdated(c, f)
    <3> SUFFICES ASSUME NEW g \in 1..published, deliveryState[g][c] = SKIPPED,
                        recordTime[g] - recordTime[f] > FREEZE_EVENT_TIMEOUT
                 PROVE  FALSE
      BY DEF Outdated
    <3>1. g \in 1..published' /\ g # e /\ g \in Event
      BY <1>3, <1>4, Constants DEF e, TypeOK
    <3>2. recordTime'[g] = recordTime[g] /\ recordTime'[f] = recordTime[f]
      BY <1>6, <2>1, <2>2, <3>1
    <3> QED  BY <1>5, <3>1, <3>2 DEF Outdated
  <2>5. HandedOver(c, f) => HandedOver(c, f)'
    <3> SUFFICES ASSUME NEW i \in DOMAIN queue["immediate"],
                        f \in Elements(queue["immediate"][i].kept[c])
                 PROVE  HandedOver(c, f)'
      BY DEF HandedOver
    <3>1. i \in DOMAIN queue'["immediate"] /\ queue'["immediate"][i] = queue["immediate"][i]
      <4>1. CASE w = "immediate"
        <5>1. queue'[w] = Append(queue[w], t) /\ queue[w] \in Seq(Task) /\ t \in Task
          BY <1>4, <1>6, <1>7
        <5> QED  BY <4>1, <5>1, AppendAt
      <4>2. CASE w # "immediate"
        BY <1>4, <1>6, <4>2, Constants
      <4> QED  BY <4>1, <4>2
    <3> QED  BY <3>1 DEF HandedOver
  <2> QED  BY <1>5, <2>1, <2>3, <2>4, <2>5 DEF UnorderedInv, NothingLost, Keeping
<1> QED  BY <1>3, <1>10, <1>12, <1>14, <1>15, <1>16, <1>17 DEF UnorderedInv

(***************************************************************************)
(* Flushes                                                                 *)
(***************************************************************************)

\* What a flush finds for c: nothing, what it takes from one of the maps, or a
\* copy of what one of them has.
Taken(c, found) ==
    \/ found[c] = <<>> /\ frozenEvents'[c] = frozenEvents[c] /\ frozenEventsMap'[c] = frozenEventsMap[c]
    \/ /\ found[c] = frozenEvents[c] /\ "uid" \in Interface
       /\ frozenEvents'[c] = <<>> /\ frozenEventsMap'[c] = frozenEventsMap[c]
    \/ /\ found[c] = frozenEventsMap[c] /\ "pid" \in Interface
       /\ frozenEvents'[c] = frozenEvents[c] /\ frozenEventsMap'[c] = <<>>
    \/ /\ found[c] \in {frozenEvents[c], frozenEventsMap[c]} /\ "all" \in Interface
       /\ frozenEvents'[c] = frozenEvents[c] /\ frozenEventsMap'[c] = frozenEventsMap[c]

\* What a flush takes out of a map is on the queue instead.
LEMMA FlushKeeps ==
  ASSUME UnorderedInv, NEW found \in Kept, PublishFrozenEventsInner(found), FlushUnchanged,
         flush # <<>>, flush' = Tail(flush), frozenEvents' \in Kept, frozenEventsMap' \in Kept,
         \A c \in Subscriber : Taken(c, found)
  PROVE  UnorderedInv'
<1> DEFINE t == [event |-> None, kept |-> found]
           q == queue["immediate"]
           n == queue'["immediate"]
<1>1. TypeOK /\ TypeOK'
  BY FlushType DEF UnorderedInv
<1>2. UNCHANGED <<published, recordTime, deliveryState, wpc, eventRecord, todo, vec, subscribed,
                  notified>>
  BY DEF FlushUnchanged, eventVars, workerVars
<1>3. Worker = {"unordered", "immediate"} /\ \A v \in Worker : queue[v] \in Seq(Task)
  BY <1>1 DEF TypeOK, Worker
<1>4. t \in Task /\ t.event = None /\ t.kept = found
  BY DEF Task
<1> HIDE DEF t
<1>5. \A v \in Worker : v # "immediate" => queue'[v] = queue[v]
  BY <1>1, <1>3 DEF TypeOK, PublishFrozenEventsInner
<1>6. n = Append(q, t) \/ (n = q /\ found = Nothing)
  BY <1>1, <1>3 DEF TypeOK, PublishFrozenEventsInner, t
<1>7. \A v \in Worker : \A i \in DOMAIN queue'[v] :
        \/ i \in DOMAIN queue[v] /\ queue'[v][i] = queue[v][i]
        \/ v = "immediate" /\ queue'[v][i] = t
  <2>1. ASSUME NEW i \in DOMAIN n
        PROVE  (i \in DOMAIN q /\ n[i] = q[i]) \/ n[i] = t
    <3>1. CASE n = Append(q, t)
      BY <1>3, <1>4, <3>1, AppendAt
    <3>2. CASE n = q
      BY <2>1, <3>2
    <3> QED  BY <1>6, <3>1, <3>2
  <2> QED  BY <1>5, <2>1
<1>8. \A i \in DOMAIN q : i \in DOMAIN n /\ n[i] = q[i]
  <2>1. q \in Seq(Task)
    BY <1>3
  <2> HIDE DEF q, n
  <2>2. CASE n = Append(q, t)
    BY <1>4, <2>1, <2>2, AppendAt
  <2> QED  BY <1>6, <2>2
<1>9. EventTasks'
  <2>1. ASSUME NEW v \in Worker, NEW i \in DOMAIN queue'[v], queue'[v][i].event # None
        PROVE  i \in DOMAIN queue[v] /\ queue'[v][i] = queue[v][i]
    BY <1>4, <1>7, <2>1
  <2> QED  BY <1>2, <2>1 DEF UnorderedInv, EventTasks
<1>10. ASSUME NEW f \in Event, NEW c \in Subscriber, Awaiting(f, c)'
       PROVE  Awaiting(f, c)
  <2>1. ASSUME NEW v \in Worker, NEW i \in DOMAIN queue'[v], queue'[v][i].event = f
        PROVE  i \in DOMAIN queue[v] /\ queue[v][i].event = f
    BY <1>4, <1>7, <2>1, Constants
  <2> QED  BY <1>2, <1>10, <2>1 DEF Awaiting
<1>11. StatesOK'
  BY <1>2, <1>10 DEF UnorderedInv, StatesOK, Keeping
<1>12. \A c \in Subscriber : KeptFor(c, <<>>)
  BY DEF KeptFor, Distinct
<1>13. \A c \in Subscriber : KeptFor(c, found[c]) /\ KeptFor(c, frozenEvents'[c])
                              /\ KeptFor(c, frozenEventsMap'[c])
  <2> SUFFICES ASSUME NEW c \in Subscriber
               PROVE  KeptFor(c, found[c]) /\ KeptFor(c, frozenEvents'[c])
                        /\ KeptFor(c, frozenEventsMap'[c])
    OBVIOUS
  <2>1. KeptFor(c, frozenEvents[c]) /\ KeptFor(c, frozenEventsMap[c]) /\ KeptFor(c, <<>>)
    BY <1>12 DEF UnorderedInv, KeptOK
  <2>2. /\ found[c] = <<>> \/ found[c] = frozenEvents[c] \/ found[c] = frozenEventsMap[c]
        /\ frozenEvents'[c] = <<>> \/ frozenEvents'[c] = frozenEvents[c]
        /\ frozenEventsMap'[c] = <<>> \/ frozenEventsMap'[c] = frozenEventsMap[c]
    BY DEF Taken
  <2> QED  BY <2>1, <2>2, Zenon
<1>14. KeptOK'
  <2>1. \A c \in Subscriber : \A i \in DOMAIN n : KeptFor(c, n[i].kept[c])
    BY <1>3, <1>4, <1>7, <1>13 DEF UnorderedInv, KeptOK
  <2> QED  BY <1>2, <1>13, <2>1 DEF KeptOK, KeptFor
<1>15. FlushOK'
  <2>1. flush \in Seq(Entry)
    BY <1>1 DEF TypeOK, Entry
  <2>2. \A i \in DOMAIN Tail(flush) : i + 1 \in DOMAIN flush /\ Tail(flush)[i] = flush[i + 1]
    BY <2>1, TailAt
  <2> QED  BY <2>2 DEF UnorderedInv, FlushOK
<1>16. \A c \in Subscriber : /\ Elements(frozenEvents'[c]) \subseteq Elements(frozenEvents[c])
                             /\ Elements(frozenEventsMap'[c]) \subseteq Elements(frozenEventsMap[c])
                             /\ Elements(<<>>) = {}
  BY DEF Taken, Elements
<1>17. KeepingIsNew'
  <2> SUFFICES ASSUME NEW v \in Worker, wpc[v] \in {"keep", "keepMap"}
               PROVE  /\ wpc[v] = "keep" => eventRecord[v] \notin Elements(frozenEvents'[vec[v]])
                      /\ eventRecord[v] \notin Elements(frozenEventsMap'[vec[v]])
    BY <1>2 DEF KeepingIsNew
  <2>1. vec[v] \in Subscriber
    BY <1>1 DEF TypeOK
  <2> QED  BY <1>16, <2>1 DEF UnorderedInv, KeepingIsNew
<1>18. \A c \in Subscriber, e \in Event :
         Cardinality(Copies(n, c, e)) = Cardinality(Copies(q, c, e)) + One(found[c], e)
  <2> SUFFICES ASSUME NEW c \in Subscriber, NEW e \in Event
               PROVE  Cardinality(Copies(n, c, e)) = Cardinality(Copies(q, c, e)) + One(found[c], e)
    OBVIOUS
  <2>1. q \in Seq(Task)
    BY <1>3
  <2> HIDE DEF q, n
  <2>2. CASE n = Append(q, t)
    BY <1>4, <2>1, <2>2, CopiesAppend
  <2>3. CASE n = q /\ found = Nothing
    <3>1. found[c] = <<>>
      BY <2>3 DEF Nothing
    <3>2. One(found[c], e) = 0
      BY <3>1, <1>16 DEF One
    <3> QED  BY <2>1, <2>3, <3>2, CopiesNat
  <2> QED  BY <1>6, <2>2, <2>3
<1>19. CopiesBounded'
  <2> SUFFICES ASSUME "all" \notin Interface, NEW e \in Event, NEW c \in Subscriber,
                      deliveryState[e][c] = SKIPPED
               PROVE  (Deliveries(c, e) + UidCopy(c, e) + PidCopy(c, e))' <= Cardinality(Interface)
    BY <1>2 DEF CopiesBounded
  <2>1. Deliveries(c, e) + UidCopy(c, e) + PidCopy(c, e) <= Cardinality(Interface)
    BY DEF UnorderedInv, CopiesBounded
  <2>2. Deliveries(c, e)' = Deliveries(c, e) + One(found[c], e) /\ Deliveries(c, e) \in Nat
    <3>1. notified[c][e] \in Nat /\ Cardinality(Copies(q, c, e)) \in Nat /\ One(found[c], e) \in Nat
      <4>1. q \in Seq(Task) /\ notified[c][e] \in Nat
        BY <1>1, <1>3 DEF TypeOK
      <4>2. Cardinality(Copies(q, c, e)) \in Nat
        BY <4>1, CopiesNat
      <4> QED  BY <4>1, <4>2 DEF One
    <3> HIDE DEF q, n
    <3>2. /\ Deliveries(c, e) = notified[c][e] + Cardinality(Copies(q, c, e))
          /\ Deliveries(c, e)' = notified[c][e] + Cardinality(Copies(n, c, e))
      BY <1>2, DeliveriesIs, NewDeliveriesIs DEF q, n
    <3> QED  BY <1>18, <3>1, <3>2
  <2>3. One(found[c], e) + UidCopy(c, e)' + PidCopy(c, e)' <= UidCopy(c, e) + PidCopy(c, e)
    <3>1. \A v \in Worker : Keeping(v, c, e)' <=> Keeping(v, c, e)
      BY <1>2 DEF Keeping
    <3>2. CASE found[c] = <<>> /\ frozenEvents'[c] = frozenEvents[c]
               /\ frozenEventsMap'[c] = frozenEventsMap[c]
      <4>1. One(found[c], e) = 0
        BY <1>16, <3>2 DEF One
      <4>2. UidCopy(c, e)' = UidCopy(c, e) /\ UidCopy(c, e) \in {0, 1}
        BY <1>2, <3>1, <3>2 DEF UidCopy
      <4>3. PidCopy(c, e)' = PidCopy(c, e) /\ PidCopy(c, e) \in {0, 1}
        BY <3>1, <3>2 DEF PidCopy
      <4> QED  BY <4>1, <4>2, <4>3
    <3>3. CASE /\ found[c] = frozenEvents[c] /\ "uid" \in Interface
               /\ frozenEvents'[c] = <<>> /\ frozenEventsMap'[c] = frozenEventsMap[c]
      <4>1. PidCopy(c, e)' = PidCopy(c, e) /\ PidCopy(c, e) \in {0, 1}
        BY <3>1, <3>3 DEF PidCopy
      <4>2. CASE e \in Elements(frozenEvents[c])
        <5>1. \A v \in Worker : ~(Keeping(v, c, e) /\ wpc[v] = "keep")
          BY <4>2 DEF UnorderedInv, KeepingIsNew, Keeping
        <5>2. UidCopy(c, e)' = 0
          BY <1>2, <1>16, <3>1, <3>3, <5>1 DEF UidCopy
        <5>3. UidCopy(c, e) = 1 /\ One(found[c], e) = 1
          BY <3>3, <4>2 DEF UidCopy, One
        <5> QED  BY <4>1, <5>2, <5>3
      <4>3. CASE e \notin Elements(frozenEvents[c])
        <5>1. One(found[c], e) = 0
          BY <3>3, <4>3 DEF One
        <5>2. UidCopy(c, e)' = UidCopy(c, e) /\ UidCopy(c, e) \in {0, 1}
          BY <1>2, <1>16, <3>1, <3>3, <4>3 DEF UidCopy
        <5> QED  BY <4>1, <5>1, <5>2
      <4> QED  BY <4>2, <4>3
    <3>4. CASE /\ found[c] = frozenEventsMap[c] /\ "pid" \in Interface
               /\ frozenEvents'[c] = frozenEvents[c] /\ frozenEventsMap'[c] = <<>>
      <4>1. UidCopy(c, e)' = UidCopy(c, e) /\ UidCopy(c, e) \in {0, 1}
        BY <1>2, <3>1, <3>4 DEF UidCopy
      <4>2. CASE e \in Elements(frozenEventsMap[c])
        <5>1. \A v \in Worker : ~Keeping(v, c, e)
          <6> SUFFICES ASSUME NEW v \in Worker, Keeping(v, c, e)
                       PROVE  FALSE
            OBVIOUS
          <6>1. wpc[v] \in {"keep", "keepMap"} /\ vec[v] = c /\ eventRecord[v] = e
            BY <1>1, Constants DEF TypeOK, Keeping
          <6> QED  BY <4>2, <6>1 DEF UnorderedInv, KeepingIsNew
        <5>2. PidCopy(c, e)' = 0
          BY <1>16, <3>1, <3>4, <5>1 DEF PidCopy
        <5>3. PidCopy(c, e) = 1 /\ One(found[c], e) = 1
          BY <3>4, <4>2 DEF PidCopy, One
        <5> QED  BY <4>1, <5>2, <5>3
      <4>3. CASE e \notin Elements(frozenEventsMap[c])
        <5>1. One(found[c], e) = 0
          BY <3>4, <4>3 DEF One
        <5>2. PidCopy(c, e)' = PidCopy(c, e) /\ PidCopy(c, e) \in {0, 1}
          BY <1>16, <3>1, <3>4, <4>3 DEF PidCopy
        <5> QED  BY <4>1, <5>1, <5>2
      <4> QED  BY <4>2, <4>3
    <3> QED  BY <3>2, <3>3, <3>4 DEF Taken
  <2>4. UidCopy(c, e) \in Nat /\ PidCopy(c, e) \in Nat /\ UidCopy(c, e)' \in Nat /\ PidCopy(c, e)' \in Nat
        /\ One(found[c], e) \in Nat
    BY DEF UidCopy, PidCopy, One
  <2>5. Cardinality(Interface) \in Nat
    BY InterfaceCounts
  <2> QED  BY <2>1, <2>2, <2>3, <2>4, <2>5
<1>20. NothingLost'
  <2> SUFFICES ASSUME NEW f \in 1..published, NEW c \in subscribed \ Invalid,
                      deliveryState[f][c] = SKIPPED, ~Outdated(c, f)
               PROVE  \/ HandedOver(c, f)' \/ notified[c][f] > 0
                      \/ /\ \/ f \in Elements(frozenEvents'[c])
                            \/ \E v \in Worker : Keeping(v, c, f) /\ wpc[v] = "keep"
                         /\ \/ f \in Elements(frozenEventsMap'[c])
                            \/ \E v \in Worker : Keeping(v, c, f)
    BY <1>2 DEF NothingLost, Outdated, Keeping
  <2>1. c \in Subscriber
    BY <1>1 DEF TypeOK
  <2>2. HandedOver(c, f) => HandedOver(c, f)'
    BY <1>8 DEF HandedOver
  <2>3. f \in Elements(found[c]) => HandedOver(c, f)'
    <3> SUFFICES ASSUME f \in Elements(found[c])
                 PROVE  HandedOver(c, f)'
      OBVIOUS
    <3>1. found # Nothing
      BY <1>16, <2>1 DEF Nothing
    <3>2. n = Append(q, t) /\ q \in Seq(Task)
      BY <1>3, <1>6, <3>1
    <3>3. Len(q) + 1 \in DOMAIN n /\ n[Len(q) + 1] = t
      BY <1>4, <3>2, AppendAt
    <3> QED  BY <1>4, <3>3 DEF HandedOver
  <2> QED  BY <2>1, <2>2, <2>3 DEF UnorderedInv, NothingLost, Taken
<1> QED  BY <1>1, <1>9, <1>11, <1>14, <1>15, <1>17, <1>19, <1>20 DEF UnorderedInv

\* The three ways to take kept events are instances of it.
LEMMA FlushStepKeeps ==
  ASSUME UnorderedInv, FlushStep
  PROVE  UnorderedInv'
<1>1. frozenEvents \in Kept /\ frozenEventsMap \in Kept /\ flush \in Seq(Entry)
  BY DEF UnorderedInv, TypeOK, Entry
<1>2. flush # <<>> => Head(flush)[1] \in Interface
  BY <1>1, TailAt DEF UnorderedInv, FlushOK
<1>3. CASE GetFrozenEvents
  <2> DEFINE cs == WithUid(Head(flush)[2])
             found == Found(frozenEvents, cs)
  <2>1. /\ flush # <<>> /\ flush' = Tail(flush) /\ PublishFrozenEventsInner(found) /\ FlushUnchanged
        /\ frozenEvents' = RemoveFrozenEvents(frozenEvents, cs) /\ frozenEventsMap' = frozenEventsMap
        /\ "uid" \in Interface
    BY <1>2, <1>3 DEF GetFrozenEvents
  <2> HIDE DEF cs
  <2>2. found \in Kept /\ frozenEvents' \in Kept /\ frozenEventsMap' \in Kept
        /\ \A c \in Subscriber : Taken(c, found)
    BY <1>1, <2>1, FoundAndLeft DEF Taken
  <2> HIDE DEF found
  <2> QED  BY <2>1, <2>2, FlushKeeps
<1>4. CASE GetFrozenEventsMapByPid
  <2> DEFINE cs == WithPid(Head(flush)[2])
             found == Found(frozenEventsMap, cs)
  <2>1. /\ flush # <<>> /\ flush' = Tail(flush) /\ PublishFrozenEventsInner(found) /\ FlushUnchanged
        /\ frozenEventsMap' = RemoveFrozenEvents(frozenEventsMap, cs) /\ frozenEvents' = frozenEvents
        /\ "pid" \in Interface
    BY <1>2, <1>4 DEF GetFrozenEventsMapByPid
  <2> HIDE DEF cs
  <2>2. found \in Kept /\ frozenEvents' \in Kept /\ frozenEventsMap' \in Kept
        /\ \A c \in Subscriber : Taken(c, found)
    BY <1>1, <2>1, FoundAndLeft DEF Taken
  <2> HIDE DEF found
  <2> QED  BY <2>1, <2>2, FlushKeeps
<1>5. CASE GetAllFrozenEvents
  <2> DEFINE found == IF Head(flush)[2] = "uid" THEN frozenEvents ELSE frozenEventsMap
  <2>1. /\ flush # <<>> /\ flush' = Tail(flush) /\ PublishFrozenEventsInner(found) /\ FlushUnchanged
        /\ frozenEventsMap' = frozenEventsMap /\ frozenEvents' = frozenEvents
        /\ "all" \in Interface
    BY <1>2, <1>5 DEF GetAllFrozenEvents
  <2>2. found \in Kept /\ frozenEvents' \in Kept /\ frozenEventsMap' \in Kept
        /\ \A c \in Subscriber : Taken(c, found)
    BY <1>1, <2>1 DEF Taken
  <2> HIDE DEF found
  <2> QED  BY <2>1, <2>2, FlushKeeps
<1> QED  BY <1>3, <1>4, <1>5 DEF FlushStep

(***************************************************************************)
(* Removal                                                                 *)
(***************************************************************************)

\* A removed subscriber is owed nothing.
LEMMA RemoveKeeps ==
  ASSUME UnorderedInv, NEW c \in Subscriber, RemoveSubscriber(c)
  PROVE  UnorderedInv'
<1>1. TypeOK /\ TypeOK'
  BY RemoveType DEF UnorderedInv
<1>2. UNCHANGED <<published, recordTime, deliveryState, queue, wpc, eventRecord, todo, vec,
                  flush, notified>>
  BY DEF RemoveSubscriber, eventVars, workerVars, serviceVars
<1>3. /\ subscribed' = subscribed \ {c}
      /\ frozenEvents'[c] = <<>> /\ frozenEventsMap'[c] = <<>>
      /\ \A d \in Subscriber : d # c => frozenEvents'[d] = frozenEvents[d]
                                        /\ frozenEventsMap'[d] = frozenEventsMap[d]
  BY <1>1 DEF TypeOK, Kept, RemoveSubscriber
<1>4. Elements(<<>>) = {}
  BY DEF Elements
<1>5. \A d \in Subscriber : /\ Elements(frozenEvents'[d]) \subseteq Elements(frozenEvents[d])
                            /\ Elements(frozenEventsMap'[d]) \subseteq Elements(frozenEventsMap[d])
  BY <1>3, <1>4
<1>6. EventTasks' /\ FlushOK'
  BY <1>2 DEF UnorderedInv, EventTasks, FlushOK
<1>7. StatesOK'
  BY <1>2 DEF UnorderedInv, StatesOK, Awaiting, Keeping
<1>8. KeptOK'
  <2> SUFFICES ASSUME NEW d \in Subscriber
               PROVE  /\ KeptFor(d, frozenEvents[d])' /\ KeptFor(d, frozenEventsMap[d])'
                      /\ \A i \in DOMAIN queue'["immediate"] :
                           KeptFor(d, queue["immediate"][i].kept[d])'
    BY DEF KeptOK
  <2>1. CASE d = c
    BY <1>2, <1>3, <2>1 DEF UnorderedInv, KeptOK, KeptFor, Distinct
  <2>2. CASE d # c
    BY <1>2, <1>3, <2>2 DEF UnorderedInv, KeptOK, KeptFor
  <2> QED  BY <2>1, <2>2
<1>9. KeepingIsNew'
  <2> SUFFICES ASSUME NEW v \in Worker, wpc[v] \in {"keep", "keepMap"}
               PROVE  /\ wpc[v] = "keep" => eventRecord[v] \notin Elements(frozenEvents'[vec[v]])
                      /\ eventRecord[v] \notin Elements(frozenEventsMap'[vec[v]])
    BY <1>2 DEF KeepingIsNew
  <2>1. vec[v] \in Subscriber
    BY <1>1 DEF TypeOK
  <2> QED  BY <1>5, <2>1 DEF UnorderedInv, KeepingIsNew
<1>10. CopiesBounded'
  <2> SUFFICES ASSUME "all" \notin Interface, NEW e \in Event, NEW d \in Subscriber,
                      deliveryState[e][d] = SKIPPED
               PROVE  (Deliveries(d, e) + UidCopy(d, e) + PidCopy(d, e))' <= Cardinality(Interface)
    BY <1>2 DEF CopiesBounded
  <2>1. Deliveries(d, e) + UidCopy(d, e) + PidCopy(d, e) <= Cardinality(Interface)
    BY DEF UnorderedInv, CopiesBounded
  <2>2. Deliveries(d, e)' = Deliveries(d, e) /\ Deliveries(d, e) \in Nat
    <3>1. queue["immediate"] \in Seq(Task) /\ notified[d][e] \in Nat
      BY <1>1 DEF TypeOK, Worker
    <3>2. Cardinality(Copies(queue["immediate"], d, e)) \in Nat
      BY <3>1, CopiesNat
    <3> QED  BY <1>2, <3>1, <3>2, DeliveriesIs, NewDeliveriesIs
  <2>3. UidCopy(d, e)' \in {0, 1} /\ UidCopy(d, e) \in {0, 1} /\ UidCopy(d, e)' <= UidCopy(d, e)
    BY <1>2, <1>5 DEF UidCopy, Keeping
  <2>4. PidCopy(d, e)' \in {0, 1} /\ PidCopy(d, e) \in {0, 1} /\ PidCopy(d, e)' <= PidCopy(d, e)
    BY <1>2, <1>5 DEF PidCopy, Keeping
  <2>5. Cardinality(Interface) \in Nat
    BY InterfaceCounts
  <2> QED  BY <2>1, <2>2, <2>3, <2>4, <2>5
<1>11. NothingLost'
  <2>1. \A d \in subscribed' \ Invalid : d \in Subscriber /\ d # c /\ d \in subscribed \ Invalid
    BY <1>1, <1>3 DEF TypeOK
  <2> QED  BY <1>2, <1>3, <2>1 DEF UnorderedInv, NothingLost, Outdated, HandedOver, Keeping
<1> QED  BY <1>1, <1>6, <1>7, <1>8, <1>9, <1>10, <1>11 DEF UnorderedInv

(***************************************************************************)
(* The workers                                                             *)
(***************************************************************************)

\* A task that starts is the only one of its event, and its receivers have
\* nothing of it.
LEMMA StartKeeps ==
  ASSUME UnorderedInv, NEW w \in Worker, StartNotify(w)
  PROVE  UnorderedInv'
<1> DEFINE e == Head(queue[w]).event
<1>1. /\ TypeOK /\ TypeOK' /\ e \in Event /\ eventRecord'[w] = e
      /\ e # None /\ queue[w] # <<>> /\ \A v \in Worker : queue[v] \in Seq(Task)
  BY StartType, Constants DEF UnorderedInv, TypeOK, StartNotify
<1>2. UNCHANGED <<published, recordTime, deliveryState, vec, flush, subscribed, frozenEvents,
                  frozenEventsMap, notified>>
  BY DEF StartNotify, eventVars, serviceVars, managerVars
<1>3. /\ queue'[w] = Tail(queue[w])
      /\ \A v \in Worker : v # w => /\ queue'[v] = queue[v] /\ eventRecord'[v] = eventRecord[v]
                                    /\ wpc'[v] = wpc[v] /\ todo'[v] = todo[v]
      /\ wpc[w] = "idle" /\ wpc'[w] = "next" /\ vec[w] = None /\ eventRecord[w] = None
  BY <1>1 DEF TypeOK, StartNotify
<1>4. /\ 1 \in DOMAIN queue[w] /\ queue[w][1].event = e
      /\ \A i \in DOMAIN queue'[w] : i + 1 \in DOMAIN queue[w] /\ i + 1 # 1 /\ i \in Nat
                                     /\ queue'[w][i] = queue[w][i + 1]
  BY <1>1, <1>3, TailAt
<1>5. e <= published /\ Head(queue[w]).kept = Nothing
  BY <1>1, <1>4, TailAt DEF UnorderedInv, EventTasks
<1>6. \A v \in Worker : \A i \in DOMAIN queue'[v] :
        \E j \in DOMAIN queue[v] : queue'[v][i] = queue[v][j] /\ (v = w => j # 1 /\ j = i + 1)
                                     /\ (v # w => j = i)
  <2> SUFFICES ASSUME NEW v \in Worker, NEW i \in DOMAIN queue'[v]
               PROVE  \E j \in DOMAIN queue[v] : queue'[v][i] = queue[v][j]
                                                 /\ (v = w => j # 1 /\ j = i + 1)
                                                 /\ (v # w => j = i)
    BY Zenon
  <2>1. CASE v = w
    BY <1>4, <2>1
  <2>2. CASE v # w
    BY <1>3, <2>2
  <2> QED  BY <2>1, <2>2
<1> HIDE DEF e
<1>7. \A v \in Worker : eventRecord[v] # e
  BY <1>1, <1>4 DEF UnorderedInv, EventTasks
<1>8. EventTasks'
  <2>1. ASSUME NEW v \in Worker, NEW i \in DOMAIN queue'[v], queue'[v][i].event # None
        PROVE  /\ queue'[v][i].event <= published /\ queue'[v][i].kept = Nothing
               /\ \A u \in Worker : eventRecord'[u] # queue'[v][i].event
    <3>1. PICK j \in DOMAIN queue[v] : queue'[v][i] = queue[v][j] /\ (v = w => j # 1)
      BY <1>6
    <3>2. /\ queue[v][j].event <= published /\ queue[v][j].kept = Nothing
          /\ \A u \in Worker : eventRecord[u] # queue[v][j].event
      BY <2>1, <3>1 DEF UnorderedInv, EventTasks
    <3>3. queue[v][j].event # e
      BY <1>1, <1>4, <3>1 DEF UnorderedInv, EventTasks
    <3> QED  BY <1>1, <1>3, <3>1, <3>2, <3>3
  <2>2. ASSUME NEW u \in Worker, NEW v \in Worker, NEW i \in DOMAIN queue'[u],
               NEW j \in DOMAIN queue'[v], queue'[u][i].event # None,
               queue'[u][i].event = queue'[v][j].event
        PROVE  u = v /\ i = j
    <3>1. PICK k \in DOMAIN queue[u] : /\ queue'[u][i] = queue[u][k]
                                       /\ u = w => k = i + 1
                                       /\ u # w => k = i
      BY <1>6
    <3>2. PICK l \in DOMAIN queue[v] : /\ queue'[v][j] = queue[v][l]
                                       /\ v = w => l = j + 1
                                       /\ v # w => l = j
      BY <1>6
    <3>3. u = v /\ k = l
      BY <2>2, <3>1, <3>2 DEF UnorderedInv, EventTasks
    <3> QED  BY <1>4, <3>1, <3>2, <3>3
  <2>3. \A v \in Worker : eventRecord'[v] # None => eventRecord'[v] <= published
    BY <1>1, <1>3, <1>5 DEF UnorderedInv, EventTasks
  <2>4. ASSUME NEW u \in Worker, NEW v \in Worker, eventRecord'[u] # None,
               eventRecord'[u] = eventRecord'[v]
        PROVE  u = v
    BY <1>1, <1>3, <1>7, <2>4 DEF UnorderedInv, EventTasks
  <2> QED  BY <1>2, <2>1, <2>2, <2>3, <2>4 DEF EventTasks
<1>9. ASSUME NEW f \in Event, NEW c \in Subscriber, Awaiting(f, c)'
      PROVE  Awaiting(f, c)
  <2>1. CASE f > published'
    BY <1>2, <2>1 DEF Awaiting
  <2>2. CASE \E v \in Worker : \E i \in DOMAIN queue'[v] : queue'[v][i].event = f
    BY <1>6, <2>2 DEF Awaiting
  <2>3. ASSUME NEW v \in Worker, eventRecord'[v] = f, c \in todo'[v], vec'[v] # c
        PROVE  Awaiting(f, c)
    <3>1. CASE v = w
      BY <1>1, <1>4, <2>3, <3>1 DEF Awaiting
    <3>2. CASE v # w
      BY <1>2, <1>3, <2>3, <3>2 DEF Awaiting
    <3> QED  BY <3>1, <3>2
  <2> QED  BY <1>9, <2>1, <2>2, <2>3 DEF Awaiting
<1>10. \A v \in Worker, c \in Subscriber, f \in Event : Keeping(v, c, f)' <=> Keeping(v, c, f)
  BY <1>1, <1>2, <1>3, Constants DEF Keeping
<1>11. StatesOK'
  BY <1>2, <1>9, <1>10 DEF UnorderedInv, StatesOK
<1>12. KeptOK'
  <2>1. "immediate" \in Worker
    BY Constants
  <2>2. \A c \in Subscriber : \A i \in DOMAIN queue'["immediate"] :
           KeptFor(c, queue["immediate"][i].kept[c])'
    BY <1>2, <1>6, <2>1 DEF UnorderedInv, KeptOK, KeptFor
  <2> QED  BY <1>2, <2>2 DEF UnorderedInv, KeptOK, KeptFor
<1>13. KeepingIsNew' /\ FlushOK'
  <2>1. FlushOK'
    BY <1>2 DEF UnorderedInv, FlushOK
  <2>2. ASSUME NEW v \in Worker, wpc'[v] \in {"keep", "keepMap"}
        PROVE  v # w /\ wpc'[v] = wpc[v] /\ eventRecord'[v] = eventRecord[v]
    BY <1>3, <2>2
  <2>3. KeepingIsNew'
    BY <1>2, <2>2 DEF UnorderedInv, KeepingIsNew
  <2> QED  BY <2>1, <2>3
<1>14. \A c \in Subscriber, f \in Event :
         Cardinality(Copies(queue'["immediate"], c, f)) = Cardinality(Copies(queue["immediate"], c, f))
  <2> SUFFICES ASSUME NEW c \in Subscriber, NEW f \in Event
               PROVE  Cardinality(Copies(queue'["immediate"], c, f))
                        = Cardinality(Copies(queue["immediate"], c, f))
    OBVIOUS
  <2>1. CASE w = "immediate"
    <3>1. One(Head(queue[w]).kept[c], f) = 0
      BY <1>5 DEF One, Elements, Nothing
    <3>2. queue[w] \in Seq(Task) /\ Tail(queue[w]) \in Seq(Task)
      BY <1>1, TailAt
    <3>3. Cardinality(Copies(queue[w], c, f))
            = Cardinality(Copies(Tail(queue[w]), c, f)) + One(Head(queue[w]).kept[c], f)
      BY <1>1, <3>2, CopiesHead
    <3>4. Cardinality(Copies(Tail(queue[w]), c, f)) \in Nat
      BY <3>2, CopiesNat
    <3> QED  BY <1>3, <2>1, <3>1, <3>3, <3>4
  <2>2. CASE w # "immediate"
    BY <1>3, <2>2, Constants
  <2> QED  BY <2>1, <2>2
<1>15. CopiesBounded'
  <2>1. \A c \in Subscriber, f \in Event : Deliveries(c, f)' = Deliveries(c, f)
    BY <1>2, <1>14, DeliveriesIs, NewDeliveriesIs
  <2>2. \A c \in Subscriber, f \in Event :
          (\E v \in Worker : Keeping(v, c, f) /\ wpc[v] = "keep")'
            <=> \E v \in Worker : Keeping(v, c, f) /\ wpc[v] = "keep"
    BY <1>3, <1>10
  <2>3. \A c \in Subscriber, f \in Event : UidCopy(c, f)' = UidCopy(c, f)
    BY <1>2, <2>2 DEF UidCopy
  <2>4. \A c \in Subscriber, f \in Event : PidCopy(c, f)' = PidCopy(c, f)
    BY <1>2, <1>10 DEF PidCopy
  <2> QED  BY <1>2, <2>1, <2>3, <2>4 DEF UnorderedInv, CopiesBounded
<1>16. NothingLost'
  <2> SUFFICES ASSUME NEW f \in 1..published, NEW c \in subscribed \ Invalid,
                      deliveryState[f][c] = SKIPPED, ~Outdated(c, f)
               PROVE  \/ HandedOver(c, f)' \/ notified[c][f] > 0
                      \/ /\ \/ f \in Elements(frozenEvents[c])
                            \/ \E v \in Worker : Keeping(v, c, f)' /\ wpc'[v] = "keep"
                         /\ \/ f \in Elements(frozenEventsMap[c])
                            \/ \E v \in Worker : Keeping(v, c, f)'
    BY <1>2 DEF NothingLost, Outdated
  <2>1. c \in Subscriber /\ f \in Event
    BY <1>1, Constants DEF TypeOK
  <2>2. HandedOver(c, f) => HandedOver(c, f)'
    <3> SUFFICES ASSUME NEW i \in DOMAIN queue["immediate"],
                        f \in Elements(queue["immediate"][i].kept[c])
                 PROVE  HandedOver(c, f)'
      BY DEF HandedOver
    <3>1. CASE w # "immediate"
      BY <1>3, <3>1, Constants DEF HandedOver
    <3>2. CASE w = "immediate"
      <4>1. i # 1
        BY <1>1, <1>5, <2>1, <3>2, TailAt DEF Nothing, Elements
      <4>2. i - 1 \in DOMAIN Tail(queue[w]) /\ Tail(queue[w])[i - 1] = queue[w][i]
        BY <1>1, <3>2, <4>1, TailAt
      <4> QED  BY <1>3, <3>2, <4>2 DEF HandedOver
    <3> QED  BY <3>1, <3>2
  <2> QED  BY <1>3, <1>10, <2>1, <2>2 DEF UnorderedInv, NothingLost
<1> QED  BY <1>1, <1>8, <1>11, <1>12, <1>13, <1>15, <1>16 DEF UnorderedInv

\* Nothing is recorded for a receiver a task has yet to come to.
LEMMA NextIsFresh ==
  ASSUME UnorderedInv, NEW w \in Worker, wpc[w] = "next", NEW c \in todo[w]
  PROVE  LET e == eventRecord[w] IN
         /\ e \in Event /\ e \in 1..published /\ vec[w] = None /\ c \in Subscriber
         /\ deliveryState[e][c] = PENDING /\ notified[c][e] = 0 /\ Deliveries(c, e) = 0
         /\ e \notin Elements(frozenEvents[c]) /\ e \notin Elements(frozenEventsMap[c])
         /\ \A v \in Worker : ~Keeping(v, c, e) /\ (eventRecord[v] = e => v = w)
         /\ \A v \in Worker : \A i \in DOMAIN queue[v] : queue[v][i].event # e
<1> DEFINE e == eventRecord[w]
<1>1. TypeOK /\ e \in Event /\ vec[w] = None /\ c \in Subscriber /\ e # None /\ "immediate" \in Worker
  BY Constants DEF UnorderedInv, TypeOK
<1>2. e \in 1..published
  BY <1>1, Constants DEF UnorderedInv, EventTasks
<1>3. Awaiting(e, c)
  BY <1>1, Constants DEF Awaiting
<1>4. deliveryState[e][c] = PENDING /\ notified[c][e] = 0
  BY <1>1, <1>3 DEF UnorderedInv, StatesOK
<1>5. deliveryState[e][c] # SKIPPED
  BY <1>4 DEF PENDING, SKIPPED
<1>6. /\ e \notin Elements(frozenEvents[c]) /\ e \notin Elements(frozenEventsMap[c])
      /\ \A i \in DOMAIN queue["immediate"] : e \notin Elements(queue["immediate"][i].kept[c])
  BY <1>1, <1>5 DEF UnorderedInv, KeptOK, KeptFor, Elements
<1>7. Deliveries(c, e) = 0
  <2>1. Copies(queue["immediate"], c, e) = {}
    BY <1>6 DEF Copies
  <2> QED  BY <1>4, <2>1, DeliveriesIs, FS_EmptySet
<1>8. \A v \in Worker : eventRecord[v] = e => v = w
  BY <1>1 DEF UnorderedInv, EventTasks
<1>9. \A v \in Worker : ~Keeping(v, c, e)
  BY <1>1, <1>5 DEF UnorderedInv, StatesOK
<1>10. \A v \in Worker : \A i \in DOMAIN queue[v] : queue[v][i].event # e
  BY <1>1 DEF UnorderedInv, EventTasks
<1> QED  BY <1>1, <1>2, <1>4, <1>6, <1>7, <1>8, <1>9, <1>10

\* The events published so far are events.
LEMMA PublishedAreEvents ==
  ASSUME TypeOK
  PROVE  published \in Nat /\ \A g \in 1..published : g \in Event /\ g \in Nat /\ ~(g > published)
<1>1. published \in 0..MaxEvents
  BY DEF TypeOK
<1> QED  BY <1>1, Constants

\* What is skipped stays skipped.
LEMMA KeptStays ==
  ASSUME TypeOK, KeptOK, UNCHANGED <<queue, frozenEvents, frozenEventsMap>>,
         \A f \in Event, d \in Subscriber :
           deliveryState[f][d] = SKIPPED => deliveryState'[f][d] = SKIPPED
  PROVE  KeptOK'
<1> SUFFICES ASSUME NEW d \in Subscriber
             PROVE  /\ KeptFor(d, frozenEvents[d])' /\ KeptFor(d, frozenEventsMap[d])'
                    /\ \A i \in DOMAIN queue["immediate"] : KeptFor(d, queue["immediate"][i].kept[d])'
  BY DEF KeptOK
<1>1. \A s \in Seq(Event) : \A i \in DOMAIN s : s[i] \in Event
  OBVIOUS
<1>2. frozenEvents[d] \in Seq(Event) /\ frozenEventsMap[d] \in Seq(Event)
  BY DEF TypeOK, Kept
<1>3. ASSUME NEW i \in DOMAIN queue["immediate"]
      PROVE  queue["immediate"][i].kept[d] \in Seq(Event)
  <2>1. queue["immediate"] \in Seq(Task)
    BY Constants DEF TypeOK
  <2>2. queue["immediate"][i] \in Task
    BY <2>1
  <2> QED  BY <2>2 DEF Task, Kept
<1>4. KeptFor(d, frozenEvents[d])'
  BY <1>1, <1>2 DEF KeptOK, KeptFor
<1>5. KeptFor(d, frozenEventsMap[d])'
  BY <1>1, <1>2 DEF KeptOK, KeptFor
<1>6. \A i \in DOMAIN queue["immediate"] : KeptFor(d, queue["immediate"][i].kept[d])'
  BY <1>1, <1>3 DEF KeptOK, KeptFor
<1> QED  BY <1>4, <1>5, <1>6

\* A receiver that is notified directly was not notified before and is not
\* visited again.
LEMMA NotifyKeeps ==
  ASSUME UnorderedInv, NEW w \in Worker, NEW c \in Subscriber, NotifySingleUnorderedSubscriber(w, c)
  PROVE  UnorderedInv'
<1>0. PICK e \in Event : e = eventRecord[w]
  BY NotifyType DEF UnorderedInv
<1>1. TypeOK /\ TypeOK' /\ wpc[w] = "next" /\ c \in todo[w]
  BY NotifyType DEF UnorderedInv, NotifySingleUnorderedSubscriber
<1>2. /\ e \in Event /\ e \in 1..published /\ vec[w] = None
      /\ deliveryState[e][c] = PENDING /\ notified[c][e] = 0 /\ Deliveries(c, e) = 0
      /\ e \notin Elements(frozenEvents[c]) /\ e \notin Elements(frozenEventsMap[c])
      /\ \A v \in Worker : ~Keeping(v, c, e) /\ (eventRecord[v] = e => v = w)
      /\ \A v \in Worker : \A i \in DOMAIN queue[v] : queue[v][i].event # e
  BY <1>0, <1>1, NextIsFresh
<1>3. UNCHANGED <<published, recordTime, queue, wpc, eventRecord, vec, flush, subscribed,
                  frozenEvents, frozenEventsMap>>
  BY DEF NotifySingleUnorderedSubscriber, eventVars, serviceVars, managerVars
<1>4. /\ deliveryState'[e][c] = IF c \in Invalid THEN SKIPPED ELSE DELIVERED
      /\ \A f \in Event, d \in Subscriber :
           f # e \/ d # c => deliveryState'[f][d] = deliveryState[f][d]
  BY <1>0, <1>1, <1>2 DEF TypeOK, NotifySingleUnorderedSubscriber
<1>5. /\ notified'[c][e] = IF c \in Invalid THEN 0 ELSE 1
      /\ \A f \in Event, d \in Subscriber : f # e \/ d # c => notified'[d][f] = notified[d][f]
  BY <1>0, <1>1, <1>2 DEF TypeOK, NotifySingleUnorderedSubscriber
<1>6. todo'[w] = todo[w] \ {c} /\ \A v \in Worker : v # w => todo'[v] = todo[v]
  BY <1>1 DEF TypeOK, NotifySingleUnorderedSubscriber
<1>7. \A f \in Event, d \in Subscriber :
        deliveryState[f][d] = SKIPPED => deliveryState'[f][d] = SKIPPED /\ (f # e \/ d # c)
  BY <1>2, <1>4 DEF PENDING, SKIPPED
<1>8. EventTasks' /\ KeepingIsNew' /\ FlushOK'
  BY <1>3 DEF UnorderedInv, EventTasks, KeepingIsNew, FlushOK
<1>9. StatesOK'
  <2> SUFFICES ASSUME NEW f \in Event, NEW d \in Subscriber
               PROVE  /\ Awaiting(f, d)' => deliveryState'[f][d] = PENDING
                      /\ \A v \in Worker : Keeping(v, d, f) => deliveryState'[f][d] = SKIPPED
                      /\ deliveryState'[f][d] = PENDING => notified'[d][f] = 0
                      /\ deliveryState'[f][d] = DELIVERED => notified'[d][f] = 1
    BY <1>3 DEF StatesOK, Keeping
  <2>1. CASE f = e /\ d = c
    <3>1. ~Awaiting(e, c)'
      <4>0. ~(e > published)
        BY <1>1, <1>2, PublishedAreEvents
      <4>1. ~\E v \in Worker : \E i \in DOMAIN queue[v] : queue[v][i].event = e
        BY <1>2
      <4>2. \A v \in Worker : ~(eventRecord[v] = e /\ c \in todo'[v])
        BY <1>2, <1>6
      <4> QED  BY <1>3, <4>0, <4>1, <4>2 DEF Awaiting
    <3> QED  BY <1>2, <1>4, <1>5, <2>1, <3>1 DEF PENDING, SKIPPED, DELIVERED
  <2>2. CASE f # e \/ d # c
    <3>1. Awaiting(f, d)' => Awaiting(f, d)
      BY <1>3, <1>6 DEF Awaiting
    <3> QED  BY <1>4, <1>5, <2>2, <3>1 DEF UnorderedInv, StatesOK
  <2> QED  BY <2>1, <2>2
<1>10. KeptOK'
  BY <1>3, <1>7, KeptStays DEF UnorderedInv
<1>11. CopiesBounded'
  <2> SUFFICES ASSUME "all" \notin Interface, NEW f \in Event, NEW d \in Subscriber,
                      deliveryState'[f][d] = SKIPPED
               PROVE  (Deliveries(d, f) + UidCopy(d, f) + PidCopy(d, f))' <= Cardinality(Interface)
    BY DEF CopiesBounded
  <2>1. UidCopy(d, f)' = UidCopy(d, f) /\ PidCopy(d, f)' = PidCopy(d, f)
    BY <1>3 DEF UidCopy, PidCopy, Keeping
  <2>2. CASE f = e /\ d = c
    <3>1. c \in Invalid
      BY <1>4, <2>2 DEF SKIPPED, DELIVERED
    <3>2. Deliveries(c, e)' = Deliveries(c, e)
      BY <1>2, <1>3, <1>5, <3>1, DeliveriesIs, NewDeliveriesIs
    <3>3. UidCopy(c, e) = 0 /\ PidCopy(c, e) = 0
      BY <1>2 DEF UidCopy, PidCopy
    <3>4. 0 <= Cardinality(Interface)
      BY InterfaceCounts
    <3> QED  BY <1>2, <2>1, <2>2, <3>2, <3>3, <3>4
  <2>3. CASE f # e \/ d # c
    <3>1. Deliveries(d, f)' = Deliveries(d, f)
      BY <1>3, <1>5, <2>3, DeliveriesIs, NewDeliveriesIs
    <3> QED  BY <1>4, <2>1, <2>3, <3>1 DEF UnorderedInv, CopiesBounded
  <2> QED  BY <2>2, <2>3
<1>12. NothingLost'
  <2> SUFFICES ASSUME NEW f \in 1..published, NEW d \in subscribed \ Invalid,
                      deliveryState'[f][d] = SKIPPED, ~Outdated(d, f)'
               PROVE  \/ HandedOver(d, f) \/ notified'[d][f] > 0
                      \/ /\ \/ f \in Elements(frozenEvents[d])
                            \/ \E v \in Worker : Keeping(v, d, f) /\ wpc[v] = "keep"
                         /\ \/ f \in Elements(frozenEventsMap[d])
                            \/ \E v \in Worker : Keeping(v, d, f)
    BY <1>3 DEF NothingLost, HandedOver, Keeping
  <2>1. d \in Subscriber /\ f \in Event /\ \A g \in 1..published : g \in Event
    BY <1>1, PublishedAreEvents DEF TypeOK
  <2>2. f # e \/ d # c
    BY <1>4, <2>1 DEF SKIPPED, DELIVERED
  <2>3. deliveryState[f][d] = SKIPPED /\ notified'[d][f] = notified[d][f]
    BY <1>4, <1>5, <2>1, <2>2
  <2>4. ~Outdated(d, f)
    BY <1>3, <1>7, <2>1 DEF Outdated
  <2> QED  BY <2>3, <2>4 DEF UnorderedInv, NothingLost
<1> QED  BY <1>1, <1>8, <1>9, <1>10, <1>11, <1>12 DEF UnorderedInv

\* A receiver found frozen is skipped for the first time; the event is about to
\* be kept for it.
LEMMA HandleKeeps ==
  ASSUME UnorderedInv, NEW w \in Worker, NEW c \in Subscriber, HandleFrozenUnorderedSubscriber(w, c)
  PROVE  UnorderedInv'
<1>0. PICK e \in Event : e = eventRecord[w]
  BY HandleType DEF UnorderedInv
<1>1. TypeOK /\ TypeOK' /\ wpc[w] = "next" /\ c \in todo[w]
  BY HandleType DEF UnorderedInv, HandleFrozenUnorderedSubscriber
<1>2. /\ e \in Event /\ e \in 1..published /\ vec[w] = None
      /\ deliveryState[e][c] = PENDING /\ notified[c][e] = 0 /\ Deliveries(c, e) = 0
      /\ e \notin Elements(frozenEvents[c]) /\ e \notin Elements(frozenEventsMap[c])
      /\ \A v \in Worker : ~Keeping(v, c, e) /\ (eventRecord[v] = e => v = w)
      /\ \A v \in Worker : \A i \in DOMAIN queue[v] : queue[v][i].event # e
  BY <1>0, <1>1, NextIsFresh
<1>3. UNCHANGED <<published, recordTime, queue, eventRecord, todo, flush, subscribed,
                  frozenEvents, frozenEventsMap, notified>>
  BY DEF HandleFrozenUnorderedSubscriber, eventVars, serviceVars, managerVars
<1>4. /\ deliveryState'[e][c] = SKIPPED
      /\ \A f \in Event, d \in Subscriber :
           f # e \/ d # c => deliveryState'[f][d] = deliveryState[f][d]
  BY <1>0, <1>1, <1>2 DEF TypeOK, HandleFrozenUnorderedSubscriber
<1>5. /\ vec'[w] = c /\ wpc'[w] = "keep"
      /\ \A v \in Worker : v # w => vec'[v] = vec[v] /\ wpc'[v] = wpc[v]
  BY <1>1 DEF TypeOK, HandleFrozenUnorderedSubscriber
<1>6. /\ \A v \in Worker, d \in Subscriber, f \in Event :
           f # e \/ d # c => (Keeping(v, d, f)' <=> Keeping(v, d, f))
      /\ Keeping(w, c, e)'
  BY <1>0, <1>2, <1>3, <1>5, Constants DEF Keeping
<1>7. eventRecord[w] = e /\ c # None
  BY <1>0, Constants
<1>8. \A f \in Event, d \in Subscriber :
        deliveryState[f][d] = SKIPPED => deliveryState'[f][d] = SKIPPED /\ (f # e \/ d # c)
  BY <1>2, <1>4 DEF PENDING, SKIPPED
<1>9. EventTasks' /\ FlushOK'
  BY <1>3 DEF UnorderedInv, EventTasks, FlushOK
<1>10. KeepingIsNew'
  <2> SUFFICES ASSUME NEW v \in Worker, wpc'[v] \in {"keep", "keepMap"}
               PROVE  /\ wpc'[v] = "keep" => eventRecord[v] \notin Elements(frozenEvents[vec'[v]])
                      /\ eventRecord[v] \notin Elements(frozenEventsMap[vec'[v]])
    BY <1>3 DEF KeepingIsNew
  <2>1. CASE v = w
    BY <1>2, <1>5, <1>7, <2>1
  <2>2. CASE v # w
    BY <1>5, <2>2 DEF UnorderedInv, KeepingIsNew
  <2> QED  BY <2>1, <2>2
<1>11. StatesOK'
  <2> SUFFICES ASSUME NEW f \in Event, NEW d \in Subscriber
               PROVE  /\ Awaiting(f, d)' => deliveryState'[f][d] = PENDING
                      /\ \A v \in Worker : Keeping(v, d, f)' => deliveryState'[f][d] = SKIPPED
                      /\ deliveryState'[f][d] = PENDING => notified[d][f] = 0
                      /\ deliveryState'[f][d] = DELIVERED => notified[d][f] = 1
    BY <1>3 DEF StatesOK
  <2>1. CASE f = e /\ d = c
    <3>1. ~Awaiting(e, c)'
      <4>0. ~(e > published)
        BY <1>1, <1>2, PublishedAreEvents
      <4>1. ~\E v \in Worker : \E i \in DOMAIN queue[v] : queue[v][i].event = e
        BY <1>2
      <4>2. \A v \in Worker : ~(eventRecord[v] = e /\ vec'[v] # c)
        BY <1>2, <1>5
      <4> QED  BY <1>3, <4>0, <4>1, <4>2 DEF Awaiting
    <3> QED  BY <1>4, <2>1, <3>1 DEF PENDING, SKIPPED, DELIVERED
  <2>2. CASE f # e \/ d # c
    <3>1. Awaiting(f, d)' => Awaiting(f, d)
      <4> SUFFICES ASSUME NEW v \in Worker, eventRecord[v] = f, d \in todo[v], vec'[v] # d
                   PROVE  vec[v] # d
        BY <1>3 DEF Awaiting
      <4>1. CASE v = w
        BY <1>2, <4>1, Constants
      <4> QED  BY <1>5, <4>1
    <3> QED  BY <1>4, <1>6, <2>2, <3>1 DEF UnorderedInv, StatesOK
  <2> QED  BY <2>1, <2>2
<1>12. KeptOK'
  BY <1>3, <1>8, KeptStays DEF UnorderedInv
<1>13. CopiesBounded'
  <2> SUFFICES ASSUME "all" \notin Interface, NEW f \in Event, NEW d \in Subscriber,
                      deliveryState'[f][d] = SKIPPED
               PROVE  (Deliveries(d, f) + UidCopy(d, f) + PidCopy(d, f))' <= Cardinality(Interface)
    BY DEF CopiesBounded
  <2>1. Deliveries(d, f)' = Deliveries(d, f)
    BY <1>3, DeliveriesIs, NewDeliveriesIs
  <2>2. CASE f = e /\ d = c
    <3>1. /\ UidCopy(c, e)' \in {0, 1} /\ ("uid" \notin Interface => UidCopy(c, e)' = 0)
          /\ PidCopy(c, e)' \in {0, 1} /\ ("pid" \notin Interface => PidCopy(c, e)' = 0)
      BY DEF UidCopy, PidCopy
    <3> QED  BY <1>2, <2>1, <2>2, <3>1, InterfaceCounts
  <2>3. CASE f # e \/ d # c
    <3>1. \A v \in Worker : (Keeping(v, d, f) /\ wpc[v] = "keep")' <=> Keeping(v, d, f) /\ wpc[v] = "keep"
      <4> SUFFICES ASSUME NEW v \in Worker
                   PROVE  (Keeping(v, d, f) /\ wpc[v] = "keep")' <=> Keeping(v, d, f) /\ wpc[v] = "keep"
        OBVIOUS
      <4>1. CASE v = w
        <5>1. ~Keeping(w, d, f)
          BY <1>2, Constants DEF Keeping
        <5> QED  BY <1>6, <2>3, <4>1, <5>1
      <4>2. CASE v # w
        BY <1>5, <1>6, <2>3, <4>2
      <4> QED  BY <4>1, <4>2
    <3>2. UidCopy(d, f)' = UidCopy(d, f)
      BY <1>3, <3>1 DEF UidCopy
    <3>3. PidCopy(d, f)' = PidCopy(d, f)
      BY <1>3, <1>6, <2>3 DEF PidCopy
    <3> QED  BY <1>4, <2>1, <2>3, <3>2, <3>3 DEF UnorderedInv, CopiesBounded
  <2> QED  BY <2>2, <2>3
<1>14. NothingLost'
  <2> SUFFICES ASSUME NEW f \in 1..published, NEW d \in subscribed \ Invalid,
                      deliveryState'[f][d] = SKIPPED, ~Outdated(d, f)'
               PROVE  \/ HandedOver(d, f) \/ notified[d][f] > 0
                      \/ /\ \/ f \in Elements(frozenEvents[d])
                            \/ \E v \in Worker : Keeping(v, d, f)' /\ wpc'[v] = "keep"
                         /\ \/ f \in Elements(frozenEventsMap[d])
                            \/ \E v \in Worker : Keeping(v, d, f)'
    BY <1>3 DEF NothingLost, HandedOver
  <2>1. d \in Subscriber /\ f \in Event /\ \A g \in 1..published : g \in Event
    BY <1>1, PublishedAreEvents DEF TypeOK
  <2>2. CASE f = e /\ d = c
    BY <1>5, <1>6, <2>2
  <2>3. CASE f # e \/ d # c
    <3>1. deliveryState[f][d] = SKIPPED
      BY <1>4, <2>1, <2>3
    <3>2. ~Outdated(d, f)
      BY <1>3, <1>8, <2>1 DEF Outdated
    <3>3. \A v \in Worker : Keeping(v, d, f) => Keeping(v, d, f)' /\ v # w
      BY <1>2, <1>6, <2>1, <2>3, Constants DEF Keeping
    <3> QED  BY <1>5, <3>1, <3>2, <3>3 DEF UnorderedInv, NothingLost
  <2> QED  BY <2>2, <2>3
<1> QED  BY <1>1, <1>9, <1>10, <1>11, <1>12, <1>13, <1>14 DEF UnorderedInv

\* InsertFrozenEvents turns an event about to be kept into a kept one; what it
\* drops is outdated.
LEMMA InsertKeeps ==
  ASSUME UnorderedInv, NEW w \in Worker, InsertFrozenEvents(w)
  PROVE  UnorderedInv'
<1>0. PICK e \in Event, c \in Subscriber : e = eventRecord[w] /\ c = vec[w]
  BY InsertType DEF UnorderedInv
<1>1. TypeOK /\ TypeOK' /\ wpc[w] = "keep" /\ Keeping(w, c, e) /\ c # None /\ e # None
  BY <1>0, InsertType, Constants DEF UnorderedInv, InsertFrozenEvents, Keeping
<1>2. UNCHANGED <<published, recordTime, deliveryState, queue, eventRecord, todo, vec, flush,
                  subscribed, frozenEventsMap, notified>>
  BY DEF InsertFrozenEvents, eventVars, serviceVars
<1>3. /\ frozenEvents'[c] = AppendKept(frozenEvents[c], e)
      /\ \A d \in Subscriber : d # c => frozenEvents'[d] = frozenEvents[d]
      /\ wpc'[w] = "keepMap" /\ \A v \in Worker : v # w => wpc'[v] = wpc[v]
  BY <1>0, <1>1 DEF TypeOK, Kept, InsertFrozenEvents
<1>4. frozenEvents[c] \in Seq(Event) /\ Distinct(frozenEvents[c]) /\ e \notin Elements(frozenEvents[c])
  BY <1>0, <1>1 DEF UnorderedInv, TypeOK, Kept, KeptOK, KeptFor, KeepingIsNew
<1>5. /\ frozenEvents'[c] \in Seq(Event) /\ Distinct(frozenEvents'[c]) /\ e \in Elements(frozenEvents'[c])
      /\ Elements(frozenEvents'[c]) \subseteq Elements(frozenEvents[c]) \cup {e}
      /\ \A x \in Elements(frozenEvents[c]) :
           x \in Elements(frozenEvents'[c]) \/ recordTime[e] - recordTime[x] > FREEZE_EVENT_TIMEOUT
  BY <1>1, <1>3, <1>4, AppendKeptIs
<1>6. /\ \A v \in Worker, d \in Subscriber, f \in Event : Keeping(v, d, f)' <=> Keeping(v, d, f)
      /\ \A v \in Worker : eventRecord[v] = e => v = w
      /\ deliveryState[e][c] = SKIPPED /\ e \in 1..published
  <2>1. \A v \in Worker, d \in Subscriber, f \in Event : Keeping(v, d, f)' <=> Keeping(v, d, f)
    BY <1>2 DEF Keeping
  <2>2. \A v \in Worker : eventRecord[v] = e => v = w
    BY <1>0, <1>1 DEF UnorderedInv, EventTasks
  <2>3. deliveryState[e][c] = SKIPPED
    BY <1>1 DEF UnorderedInv, StatesOK
  <2>4. e \in 1..published
    BY <1>0, <1>1, Constants DEF UnorderedInv, EventTasks
  <2> QED  BY <2>1, <2>2, <2>3, <2>4
<1>7. EventTasks' /\ FlushOK'
  BY <1>2 DEF UnorderedInv, EventTasks, FlushOK
<1>8. StatesOK'
  BY <1>2 DEF UnorderedInv, StatesOK, Awaiting, Keeping
<1>9. KeptOK'
  <2> SUFFICES ASSUME NEW d \in Subscriber
               PROVE  /\ KeptFor(d, frozenEvents[d])' /\ KeptFor(d, frozenEventsMap[d])'
                      /\ \A i \in DOMAIN queue'["immediate"] :
                           KeptFor(d, queue["immediate"][i].kept[d])'
    BY DEF KeptOK
  <2>1. /\ KeptFor(d, frozenEventsMap[d])'
        /\ \A i \in DOMAIN queue'["immediate"] : KeptFor(d, queue["immediate"][i].kept[d])'
    BY <1>2 DEF UnorderedInv, KeptOK, KeptFor
  <2>2. CASE d = c
    <3>1. \A i \in DOMAIN frozenEvents'[c] : deliveryState[frozenEvents'[c][i]][c] = SKIPPED
      <4> SUFFICES ASSUME NEW i \in DOMAIN frozenEvents'[c]
                   PROVE  deliveryState[frozenEvents'[c][i]][c] = SKIPPED
        OBVIOUS
      <4>1. frozenEvents'[c][i] \in Elements(frozenEvents[c]) \cup {e}
        BY <1>5 DEF Elements
      <4> QED  BY <1>6, <4>1 DEF UnorderedInv, KeptOK, KeptFor, Elements
    <3> QED  BY <1>2, <1>5, <2>1, <2>2, <3>1 DEF KeptFor
  <2>3. CASE d # c
    BY <1>2, <1>3, <2>1, <2>3 DEF UnorderedInv, KeptOK, KeptFor
  <2> QED  BY <2>2, <2>3
<1>10. KeepingIsNew'
  <2> SUFFICES ASSUME NEW v \in Worker, wpc'[v] \in {"keep", "keepMap"}
               PROVE  /\ wpc'[v] = "keep" => eventRecord[v] \notin Elements(frozenEvents'[vec[v]])
                      /\ eventRecord[v] \notin Elements(frozenEventsMap[vec[v]])
    BY <1>2 DEF KeepingIsNew
  <2>1. CASE v = w
    BY <1>1, <1>3, <2>1 DEF UnorderedInv, KeepingIsNew
  <2>2. CASE v # w
    <3>1. wpc[v] = wpc'[v] /\ vec[v] \in Subscriber /\ eventRecord[v] # e
      BY <1>1, <1>3, <1>6, <2>2 DEF TypeOK
    <3>2. /\ wpc[v] = "keep" => eventRecord[v] \notin Elements(frozenEvents[vec[v]])
          /\ eventRecord[v] \notin Elements(frozenEventsMap[vec[v]])
      BY <3>1 DEF UnorderedInv, KeepingIsNew
    <3> QED  BY <1>3, <1>5, <3>1, <3>2
  <2> QED  BY <2>1, <2>2
<1>11. CopiesBounded'
  <2> SUFFICES ASSUME "all" \notin Interface, NEW f \in Event, NEW d \in Subscriber,
                      deliveryState[f][d] = SKIPPED
               PROVE  (Deliveries(d, f) + UidCopy(d, f) + PidCopy(d, f))' <= Cardinality(Interface)
    BY <1>2 DEF CopiesBounded
  <2>1. Deliveries(d, f) + UidCopy(d, f) + PidCopy(d, f) <= Cardinality(Interface)
    BY DEF UnorderedInv, CopiesBounded
  <2>2. Deliveries(d, f)' = Deliveries(d, f) /\ Deliveries(d, f) \in Nat
    <3>1. queue["immediate"] \in Seq(Task) /\ notified[d][f] \in Nat
      BY <1>1 DEF TypeOK, Worker
    <3>2. Cardinality(Copies(queue["immediate"], d, f)) \in Nat
      BY <3>1, CopiesNat
    <3> QED  BY <1>2, <3>1, <3>2, DeliveriesIs, NewDeliveriesIs
  <2>3. PidCopy(d, f)' = PidCopy(d, f) /\ PidCopy(d, f) \in {0, 1}
    BY <1>2, <1>6 DEF PidCopy
  <2>4. UidCopy(d, f)' \in {0, 1} /\ UidCopy(d, f) \in {0, 1} /\ UidCopy(d, f)' <= UidCopy(d, f)
    <3>1. ASSUME NEW v \in Worker, Keeping(v, d, f)', wpc'[v] = "keep"
          PROVE  Keeping(v, d, f) /\ wpc[v] = "keep"
      BY <1>3, <1>6, <3>1
    <3>2. f \in Elements(frozenEvents'[d]) =>
            \/ f \in Elements(frozenEvents[d])
            \/ Keeping(w, d, f) /\ wpc[w] = "keep"
      BY <1>1, <1>3, <1>5
    <3> QED  BY <3>1, <3>2 DEF UidCopy
  <2>5. Cardinality(Interface) \in Nat
    BY InterfaceCounts
  <2> QED  BY <2>1, <2>2, <2>3, <2>4, <2>5
<1>12. NothingLost'
  <2> SUFFICES ASSUME NEW f \in 1..published, NEW d \in subscribed \ Invalid,
                      deliveryState[f][d] = SKIPPED, ~Outdated(d, f)
               PROVE  \/ HandedOver(d, f) \/ notified[d][f] > 0
                      \/ /\ \/ f \in Elements(frozenEvents'[d])
                            \/ \E v \in Worker : Keeping(v, d, f) /\ wpc'[v] = "keep"
                         /\ \/ f \in Elements(frozenEventsMap[d])
                            \/ \E v \in Worker : Keeping(v, d, f)
    BY <1>2 DEF NothingLost, HandedOver, Outdated, Keeping
  <2>1. d \in Subscriber /\ f \in Event
    BY <1>1, PublishedAreEvents DEF TypeOK
  <2>2. f \in Elements(frozenEvents[d]) => f \in Elements(frozenEvents'[d])
    <3>1. CASE d = c
      BY <1>5, <1>6, <3>1 DEF Outdated
    <3>2. CASE d # c
      BY <1>3, <2>1, <3>2
    <3> QED  BY <3>1, <3>2
  <2>3. ASSUME NEW v \in Worker, Keeping(v, d, f), wpc[v] = "keep"
        PROVE  f \in Elements(frozenEvents'[d]) \/ (Keeping(v, d, f) /\ wpc'[v] = "keep")
    <3>1. CASE v = w
      BY <1>0, <1>5, <2>3, <3>1 DEF Keeping
    <3>2. CASE v # w
      BY <1>3, <2>3, <3>2
    <3> QED  BY <3>1, <3>2
  <2> QED  BY <2>2, <2>3 DEF UnorderedInv, NothingLost
<1> QED  BY <1>1, <1>7, <1>8, <1>9, <1>10, <1>11, <1>12 DEF UnorderedInv

\* InsertFrozenEventsMap does the same for the second map.
LEMMA InsertMapKeeps ==
  ASSUME UnorderedInv, NEW w \in Worker, InsertFrozenEventsMap(w)
  PROVE  UnorderedInv'
<1>0. PICK e \in Event, c \in Subscriber : e = eventRecord[w] /\ c = vec[w]
  BY InsertMapType DEF UnorderedInv
<1>1. TypeOK /\ TypeOK' /\ wpc[w] = "keepMap" /\ Keeping(w, c, e) /\ c # None /\ e # None
  BY <1>0, InsertMapType, Constants DEF UnorderedInv, InsertFrozenEventsMap, Keeping
<1>2. UNCHANGED <<published, recordTime, deliveryState, queue, eventRecord, flush,
                  subscribed, frozenEvents, notified>>
  BY DEF InsertFrozenEventsMap, eventVars, serviceVars
<1>3. /\ frozenEventsMap'[c] = AppendKept(frozenEventsMap[c], e)
      /\ \A d \in Subscriber : d # c => frozenEventsMap'[d] = frozenEventsMap[d]
      /\ wpc'[w] = "next" /\ vec'[w] = None /\ todo'[w] = todo[w] \ {c}
      /\ \A v \in Worker : v # w => wpc'[v] = wpc[v] /\ vec'[v] = vec[v] /\ todo'[v] = todo[v]
  BY <1>0, <1>1 DEF TypeOK, Kept, InsertFrozenEventsMap, AfterReceiver
<1>4. /\ frozenEventsMap[c] \in Seq(Event) /\ Distinct(frozenEventsMap[c])
      /\ e \notin Elements(frozenEventsMap[c])
  BY <1>0, <1>1 DEF UnorderedInv, TypeOK, Kept, KeptOK, KeptFor, KeepingIsNew
<1>5. /\ frozenEventsMap'[c] \in Seq(Event) /\ Distinct(frozenEventsMap'[c])
      /\ e \in Elements(frozenEventsMap'[c])
      /\ Elements(frozenEventsMap'[c]) \subseteq Elements(frozenEventsMap[c]) \cup {e}
      /\ \A x \in Elements(frozenEventsMap[c]) :
           x \in Elements(frozenEventsMap'[c]) \/ recordTime[e] - recordTime[x] > FREEZE_EVENT_TIMEOUT
  BY <1>1, <1>3, <1>4, AppendKeptIs
<1>6. /\ \A v \in Worker, d \in Subscriber, f \in Event : Keeping(v, d, f)' <=> Keeping(v, d, f) /\ v # w
      /\ \A v \in Worker : eventRecord[v] = e => v = w
      /\ deliveryState[e][c] = SKIPPED /\ e \in 1..published
  <2>1. \A v \in Worker, d \in Subscriber, f \in Event : Keeping(v, d, f)' <=> Keeping(v, d, f) /\ v # w
    BY <1>2, <1>3, Constants DEF Keeping
  <2>2. \A v \in Worker : eventRecord[v] = e => v = w
    BY <1>0, <1>1 DEF UnorderedInv, EventTasks
  <2>3. deliveryState[e][c] = SKIPPED
    BY <1>1 DEF UnorderedInv, StatesOK
  <2>4. e \in 1..published
    BY <1>0, <1>1, Constants DEF UnorderedInv, EventTasks
  <2> QED  BY <2>1, <2>2, <2>3, <2>4
<1>7. EventTasks' /\ FlushOK'
  BY <1>2 DEF UnorderedInv, EventTasks, FlushOK
<1>8. StatesOK'
  <2>1. ASSUME NEW f \in Event, NEW d \in Subscriber, Awaiting(f, d)'
        PROVE  Awaiting(f, d)
    <3>1. ASSUME NEW v \in Worker, eventRecord[v] = f, d \in todo'[v], vec'[v] # d
          PROVE  d \in todo[v] /\ vec[v] # d
      BY <1>0, <1>3, <3>1
    <3> QED  BY <1>2, <2>1, <3>1 DEF Awaiting
  <2> QED  BY <1>2, <1>6, <2>1 DEF UnorderedInv, StatesOK
<1>9. KeptOK'
  <2> SUFFICES ASSUME NEW d \in Subscriber
               PROVE  /\ KeptFor(d, frozenEvents[d])' /\ KeptFor(d, frozenEventsMap[d])'
                      /\ \A i \in DOMAIN queue'["immediate"] :
                           KeptFor(d, queue["immediate"][i].kept[d])'
    BY DEF KeptOK
  <2>1. /\ KeptFor(d, frozenEvents[d])'
        /\ \A i \in DOMAIN queue'["immediate"] : KeptFor(d, queue["immediate"][i].kept[d])'
    BY <1>2 DEF UnorderedInv, KeptOK, KeptFor
  <2>2. CASE d = c
    <3>1. \A i \in DOMAIN frozenEventsMap'[c] : deliveryState[frozenEventsMap'[c][i]][c] = SKIPPED
      <4> SUFFICES ASSUME NEW i \in DOMAIN frozenEventsMap'[c]
                   PROVE  deliveryState[frozenEventsMap'[c][i]][c] = SKIPPED
        OBVIOUS
      <4>1. frozenEventsMap'[c][i] \in Elements(frozenEventsMap[c]) \cup {e}
        BY <1>5 DEF Elements
      <4> QED  BY <1>6, <4>1 DEF UnorderedInv, KeptOK, KeptFor, Elements
    <3> QED  BY <1>2, <1>5, <2>1, <2>2, <3>1 DEF KeptFor
  <2>3. CASE d # c
    BY <1>2, <1>3, <2>1, <2>3 DEF UnorderedInv, KeptOK, KeptFor
  <2> QED  BY <2>2, <2>3
<1>10. KeepingIsNew'
  <2> SUFFICES ASSUME NEW v \in Worker, wpc'[v] \in {"keep", "keepMap"}
               PROVE  /\ wpc'[v] = "keep" => eventRecord[v] \notin Elements(frozenEvents[vec'[v]])
                      /\ eventRecord[v] \notin Elements(frozenEventsMap'[vec'[v]])
    BY <1>2 DEF KeepingIsNew
  <2>1. v # w
    BY <1>3
  <2>2. wpc[v] = wpc'[v] /\ vec'[v] = vec[v] /\ vec[v] \in Subscriber /\ eventRecord[v] # e
    BY <1>1, <1>3, <1>6, <2>1 DEF TypeOK
  <2>3. /\ wpc[v] = "keep" => eventRecord[v] \notin Elements(frozenEvents[vec[v]])
        /\ eventRecord[v] \notin Elements(frozenEventsMap[vec[v]])
    BY <2>2 DEF UnorderedInv, KeepingIsNew
  <2> QED  BY <1>3, <1>5, <2>2, <2>3
<1>11. CopiesBounded'
  <2> SUFFICES ASSUME "all" \notin Interface, NEW f \in Event, NEW d \in Subscriber,
                      deliveryState[f][d] = SKIPPED
               PROVE  (Deliveries(d, f) + UidCopy(d, f) + PidCopy(d, f))' <= Cardinality(Interface)
    BY <1>2 DEF CopiesBounded
  <2>1. Deliveries(d, f) + UidCopy(d, f) + PidCopy(d, f) <= Cardinality(Interface)
    BY DEF UnorderedInv, CopiesBounded
  <2>2. Deliveries(d, f)' = Deliveries(d, f) /\ Deliveries(d, f) \in Nat
    <3>1. queue["immediate"] \in Seq(Task) /\ notified[d][f] \in Nat
      BY <1>1 DEF TypeOK, Worker
    <3>2. Cardinality(Copies(queue["immediate"], d, f)) \in Nat
      BY <3>1, CopiesNat
    <3> QED  BY <1>2, <3>1, <3>2, DeliveriesIs, NewDeliveriesIs
  <2>3. UidCopy(d, f)' \in {0, 1} /\ UidCopy(d, f) \in {0, 1} /\ UidCopy(d, f)' <= UidCopy(d, f)
    <3>1. ASSUME NEW v \in Worker, Keeping(v, d, f)', wpc'[v] = "keep"
          PROVE  Keeping(v, d, f) /\ wpc[v] = "keep"
      BY <1>3, <1>6, <3>1
    <3> QED  BY <1>2, <3>1 DEF UidCopy
  <2>4. PidCopy(d, f)' \in {0, 1} /\ PidCopy(d, f) \in {0, 1} /\ PidCopy(d, f)' <= PidCopy(d, f)
    <3>1. f \in Elements(frozenEventsMap'[d]) => f \in Elements(frozenEventsMap[d]) \/ Keeping(w, d, f)
      BY <1>1, <1>3, <1>5
    <3> QED  BY <1>6, <3>1 DEF PidCopy
  <2>5. Cardinality(Interface) \in Nat
    BY InterfaceCounts
  <2> QED  BY <2>1, <2>2, <2>3, <2>4, <2>5
<1>12. NothingLost'
  <2> SUFFICES ASSUME NEW f \in 1..published, NEW d \in subscribed \ Invalid,
                      deliveryState[f][d] = SKIPPED, ~Outdated(d, f)
               PROVE  \/ HandedOver(d, f) \/ notified[d][f] > 0
                      \/ /\ \/ f \in Elements(frozenEvents[d])
                            \/ \E v \in Worker : Keeping(v, d, f)' /\ wpc'[v] = "keep"
                         /\ \/ f \in Elements(frozenEventsMap'[d])
                            \/ \E v \in Worker : Keeping(v, d, f)'
    BY <1>2 DEF NothingLost, HandedOver, Outdated
  <2>1. d \in Subscriber /\ f \in Event
    BY <1>1, PublishedAreEvents DEF TypeOK
  <2>2. f \in Elements(frozenEventsMap[d]) => f \in Elements(frozenEventsMap'[d])
    <3>1. CASE d = c
      BY <1>5, <1>6, <3>1 DEF Outdated
    <3>2. CASE d # c
      BY <1>3, <2>1, <3>2
    <3> QED  BY <3>1, <3>2
  <2>3. ASSUME NEW v \in Worker, Keeping(v, d, f)
        PROVE  f \in Elements(frozenEventsMap'[d]) \/ Keeping(v, d, f)'
    <3>1. CASE v = w
      BY <1>0, <1>5, <2>3, <3>1 DEF Keeping
    <3>2. CASE v # w
      BY <1>6, <2>1, <2>3, <3>2
    <3> QED  BY <3>1, <3>2
  <2>4. ASSUME NEW v \in Worker, Keeping(v, d, f), wpc[v] = "keep"
        PROVE  Keeping(v, d, f)' /\ wpc'[v] = "keep"
    <3>1. v # w
      BY <1>1, <2>4
    <3> QED  BY <1>3, <1>6, <2>1, <2>4, <3>1
  <2> QED  BY <2>2, <2>3, <2>4 DEF UnorderedInv, NothingLost
<1> QED  BY <1>1, <1>7, <1>8, <1>9, <1>10, <1>11, <1>12 DEF UnorderedInv

\* A task ends with no receiver left.
LEMMA FinishKeeps ==
  ASSUME UnorderedInv, NEW w \in Worker, FinishNotify(w)
  PROVE  UnorderedInv'
<1>1. TypeOK /\ TypeOK'
  BY FinishType DEF UnorderedInv
<1>2. UNCHANGED <<published, recordTime, deliveryState, queue, todo, vec, flush, subscribed,
                  frozenEvents, frozenEventsMap, notified>>
  BY DEF FinishNotify, eventVars, serviceVars, managerVars
<1>3. /\ wpc[w] = "next" /\ wpc'[w] = "idle" /\ eventRecord'[w] = None /\ vec[w] = None
      /\ \A v \in Worker : v # w => wpc'[v] = wpc[v] /\ eventRecord'[v] = eventRecord[v]
  BY <1>1 DEF TypeOK, FinishNotify
<1>4. \A v \in Worker, d \in Subscriber, f \in Event : Keeping(v, d, f)' <=> Keeping(v, d, f)
  BY <1>2, <1>3, Constants DEF Keeping
<1>5. EventTasks' /\ FlushOK'
  <2>1. \A v \in Worker : eventRecord'[v] # None => eventRecord'[v] = eventRecord[v]
    BY <1>3
  <2> QED  BY <1>2, <2>1 DEF UnorderedInv, EventTasks, FlushOK
<1>6. StatesOK'
  <2>1. ASSUME NEW f \in Event, NEW d \in Subscriber, Awaiting(f, d)'
        PROVE  Awaiting(f, d)
    <3>1. \A v \in Worker : eventRecord'[v] = f => eventRecord[v] = f
      BY <1>3, Constants
    <3> QED  BY <1>2, <2>1, <3>1 DEF Awaiting
  <2> QED  BY <1>2, <1>4, <2>1 DEF UnorderedInv, StatesOK
<1>7. KeptOK'
  BY <1>2 DEF UnorderedInv, KeptOK, KeptFor
<1>8. KeepingIsNew'
  BY <1>2, <1>3 DEF UnorderedInv, KeepingIsNew
<1>9. \A v \in Worker, d \in Subscriber, f \in Event :
        (Keeping(v, d, f) /\ wpc[v] = "keep")' <=> Keeping(v, d, f) /\ wpc[v] = "keep"
  BY <1>3, <1>4
<1>10. CopiesBounded'
  <2>1. \A d \in Subscriber, f \in Event : UidCopy(d, f)' = UidCopy(d, f)
    BY <1>2, <1>9 DEF UidCopy
  <2>2. \A d \in Subscriber, f \in Event : PidCopy(d, f)' = PidCopy(d, f)
    BY <1>2, <1>4 DEF PidCopy
  <2>3. \A d \in Subscriber, f \in Event : Deliveries(d, f)' = Deliveries(d, f)
    BY <1>2, DeliveriesIs, NewDeliveriesIs
  <2> QED  BY <1>2, <2>1, <2>2, <2>3 DEF UnorderedInv, CopiesBounded
<1>11. NothingLost'
  <2>1. \A d \in subscribed \ Invalid, f \in 1..published : d \in Subscriber /\ f \in Event
    BY <1>1, PublishedAreEvents DEF TypeOK
  <2>2. \A d \in subscribed \ Invalid, f \in 1..published :
          (Outdated(d, f)' <=> Outdated(d, f)) /\ (HandedOver(d, f)' <=> HandedOver(d, f))
    BY <1>2 DEF Outdated, HandedOver
  <2> QED  BY <1>2, <1>4, <1>9, <2>1, <2>2 DEF UnorderedInv, NothingLost
<1> QED  BY <1>1, <1>5, <1>6, <1>7, <1>8, <1>10, <1>11 DEF UnorderedInv

\* A step of a flush task: the event tasks keep their order, and e leaves the
\* first task for c.
FlushTaskStep(c, e) ==
    LET q == queue["immediate"]
        n == queue'["immediate"]
    IN
    /\ \A v \in Worker : v # "immediate" => queue'[v] = queue[v]
    /\ n \in Seq(Task) /\ q \in Seq(Task)
    /\ \E k \in {0, 1} : \A i \in DOMAIN n :
         /\ i \in Nat /\ i + k \in DOMAIN q
         /\ \/ n[i] = q[i + k]
            \/ i = 1 /\ k = 0 /\ n[i].event = None /\ n[i].kept = Rest(c)
    /\ \A d \in Subscriber, f \in Event :
         Cardinality(Copies(n, d, f)) = Cardinality(Copies(q, d, f))
                                        - (IF d = c /\ f = e THEN 1 ELSE 0)
    /\ \A d \in Subscriber : Distinct(Rest(c)[d])
                             /\ Elements(Rest(c)[d]) = Elements(Head(q).kept[d])
                                                       \ (IF d = c THEN {e} ELSE {})

\* What NotifyFreezeEvents does to the tasks of the immediate queue.
LEMMA FreezeTaskQueue ==
  ASSUME UnorderedInv, NEW c \in Subscriber, NotifyFreezeEvents(c),
         NEW e \in Event, e = Head(Head(queue["immediate"]).kept[c])
  PROVE  FlushTaskStep(c, e)
<1> DEFINE q == queue["immediate"]
           n == queue'["immediate"]
           x == FlushTaskLeft(c)
<1>1. TypeOK /\ "immediate" \in Worker
  BY Constants DEF UnorderedInv
<1>2. /\ q \in Seq(Task) /\ q # <<>> /\ Head(q) \in Task /\ Head(q).event = None
      /\ Head(q).kept \in Kept /\ Head(q).kept[c] \in Seq(Event) /\ Head(q).kept[c] # <<>>
      /\ Rest(c) \in Kept /\ Rest(c)[c] = Tail(Head(q).kept[c])
      /\ \A d \in Subscriber : d # c => Rest(c)[d] = Head(q).kept[d]
      /\ x \in Task /\ x.event = None /\ x.kept = Rest(c)
      /\ e = Head(Head(q).kept[c])
  BY <1>1, FreezeTaskIs
<1>3. /\ \A v \in Worker : v # "immediate" => queue'[v] = queue[v]
      /\ \/ n = Tail(q) /\ Rest(c) = Nothing
         \/ n = <<x>> \o Tail(q) /\ Rest(c) # Nothing
  BY <1>1, FreezeTaskIs DEF TypeOK
<1> HIDE DEF q, n, x
<1>4. /\ Tail(q) \in Seq(Task) /\ Len(q) \in Nat /\ Len(q) > 0 /\ DOMAIN q = 1..Len(q)
      /\ DOMAIN Tail(q) = 1..(Len(q) - 1) /\ Head(q) = q[1]
      /\ \A i \in 1..(Len(q) - 1) : Tail(q)[i] = q[i + 1]
  BY <1>2, TailAt
<1>5. LET m == <<x>> \o Tail(q) IN
      /\ m \in Seq(Task) /\ m # <<>> /\ Head(m) = x /\ Tail(m) = Tail(q)
      /\ DOMAIN m = 1..Len(q) /\ m[1] = x /\ \A i \in 2..Len(q) : m[i] = q[i]
  BY <1>2, NewHeadAt
<1>6. n \in Seq(Task)
  BY <1>3, <1>4, <1>5
<1>7. \E k \in {0, 1} : \A i \in DOMAIN n :
        /\ i \in Nat /\ i + k \in DOMAIN q
        /\ \/ n[i] = q[i + k]
           \/ i = 1 /\ k = 0 /\ n[i].event = None /\ n[i].kept = Rest(c)
  <2>1. CASE n = Tail(q)
    <3>1. \A i \in DOMAIN n : i \in Nat /\ i + 1 \in DOMAIN q /\ n[i] = q[i + 1]
      BY <1>4, <2>1
    <3> QED  BY <3>1
  <2>2. CASE n = <<x>> \o Tail(q)
    <3>1. \A i \in DOMAIN n :
            /\ i \in Nat /\ i + 0 \in DOMAIN q
            /\ \/ n[i] = q[i + 0]
               \/ i = 1 /\ n[i].event = None /\ n[i].kept = Rest(c)
      BY <1>2, <1>4, <1>5, <2>2
    <3> QED  BY <3>1
  <2> QED  BY <1>3, <2>1, <2>2
<1>8. \A d \in Subscriber : Distinct(Head(q).kept[d])
  <2>1. 1 \in DOMAIN q
    BY <1>4
  <2> QED  BY <1>4, <2>1 DEF UnorderedInv, KeptOK, KeptFor, q
<1>9. /\ Distinct(Tail(Head(q).kept[c])) /\ e \in Elements(Head(q).kept[c])
      /\ Elements(Tail(Head(q).kept[c])) = Elements(Head(q).kept[c]) \ {e}
  BY <1>2, <1>8, DistinctTail
<1>10. \A d \in Subscriber : Distinct(Rest(c)[d])
                             /\ Elements(Rest(c)[d]) = Elements(Head(q).kept[d])
                                                       \ (IF d = c THEN {e} ELSE {})
  BY <1>2, <1>8, <1>9
<1>11. ASSUME NEW d \in Subscriber, NEW f \in Event
       PROVE  Cardinality(Copies(n, d, f)) = Cardinality(Copies(q, d, f))
                                             - (IF d = c /\ f = e THEN 1 ELSE 0)
  <2>1. Cardinality(Copies(q, d, f)) = Cardinality(Copies(Tail(q), d, f)) + One(Head(q).kept[d], f)
    BY <1>2, CopiesHead
  <2>2. Cardinality(Copies(Tail(q), d, f)) \in Nat
    BY <1>4, CopiesNat
  <2>3. Cardinality(Copies(n, d, f)) = Cardinality(Copies(Tail(q), d, f)) + One(Rest(c)[d], f)
    <3>1. CASE n = Tail(q) /\ Rest(c) = Nothing
      <4>1. One(Rest(c)[d], f) = 0
        BY <3>1 DEF One, Elements, Nothing
      <4> QED  BY <2>2, <3>1, <4>1
    <3>2. CASE n = <<x>> \o Tail(q)
      <4>1. n \in Seq(Task) /\ n # <<>> /\ Head(n) = x /\ Tail(n) = Tail(q)
        BY <1>5, <3>2
      <4>2. Cardinality(Copies(n, d, f)) = Cardinality(Copies(Tail(n), d, f)) + One(Head(n).kept[d], f)
        BY <4>1, CopiesHead
      <4> QED  BY <1>2, <4>1, <4>2
    <3> QED  BY <1>3, <3>1, <3>2
  <2>4. One(Rest(c)[d], f) = One(Head(q).kept[d], f) - (IF d = c /\ f = e THEN 1 ELSE 0)
    <3>1. CASE d = c /\ f = e
      <4>1. f \notin Elements(Rest(c)[d]) /\ f \in Elements(Head(q).kept[d])
        BY <1>9, <1>10, <3>1
      <4> QED  BY <3>1, <4>1 DEF One
    <3>2. CASE ~(d = c /\ f = e)
      <4>1. f \in Elements(Rest(c)[d]) <=> f \in Elements(Head(q).kept[d])
        BY <1>10, <3>2
      <4> QED  BY <3>2, <4>1 DEF One
    <3> QED  BY <3>1, <3>2
  <2>5. One(Rest(c)[d], f) \in {0, 1} /\ One(Head(q).kept[d], f) \in {0, 1}
    BY DEF One
  <2> QED  BY <2>1, <2>2, <2>3, <2>4, <2>5
<1> QED  BY <1>2, <1>3, <1>6, <1>7, <1>10, <1>11 DEF FlushTaskStep, q, n

\* NotifyFreezeEvents turns a copy on the queue into a notification.
LEMMA FreezeTaskKeeps ==
  ASSUME UnorderedInv, NEW c \in Subscriber, NotifyFreezeEvents(c)
  PROVE  UnorderedInv'
<1> DEFINE q == queue["immediate"]
           n == queue'["immediate"]
<1>1. TypeOK /\ TypeOK' /\ "immediate" \in Worker
  BY FreezeTaskType, Constants DEF UnorderedInv
<1>2. UNCHANGED <<published, recordTime, deliveryState, wpc, eventRecord, todo, vec, flush,
                  subscribed, frozenEvents, frozenEventsMap>>
  BY DEF NotifyFreezeEvents, eventVars, workerVars, serviceVars, managerVars
<1>3. PICK e \in Event : e = Head(Head(q).kept[c])
  BY <1>1, FreezeTaskIs
<1>3a. FlushTaskStep(c, e)
  BY <1>3, FreezeTaskQueue
<1>4. /\ \A v \in Worker : v # "immediate" => queue'[v] = queue[v]
      /\ n \in Seq(Task) /\ q \in Seq(Task)
      /\ \E k \in {0, 1} : \A i \in DOMAIN n :
           /\ i \in Nat /\ i + k \in DOMAIN q
           /\ \/ n[i] = q[i + k]
              \/ i = 1 /\ k = 0 /\ n[i].event = None /\ n[i].kept = Rest(c)
      /\ \A d \in Subscriber, f \in Event :
           Cardinality(Copies(n, d, f)) = Cardinality(Copies(q, d, f))
                                          - (IF d = c /\ f = e THEN 1 ELSE 0)
      /\ \A d \in Subscriber : Distinct(Rest(c)[d])
                               /\ Elements(Rest(c)[d]) = Elements(Head(q).kept[d])
                                                         \ (IF d = c THEN {e} ELSE {})
  BY <1>3a DEF FlushTaskStep
<1>5. PICK k \in {0, 1} : \A i \in DOMAIN n :
        /\ i \in Nat /\ i + k \in DOMAIN q
        /\ \/ n[i] = q[i + k]
           \/ i = 1 /\ k = 0 /\ n[i].event = None /\ n[i].kept = Rest(c)
  BY <1>4
<1>6. /\ q # <<>> /\ Head(q) = q[1] /\ 1 \in DOMAIN q /\ e \in Elements(Head(q).kept[c])
      /\ Head(q).event = None
  <2>1. /\ q # <<>> /\ Head(q).kept[c] \in Seq(Event) /\ Head(q).kept[c] # <<>>
        /\ Head(q).event = None
    BY <1>1, FreezeTaskIs
  <2>2. Head(q) = q[1] /\ 1 \in DOMAIN q
    BY <1>4, <2>1, TailAt
  <2>3. e \in Elements(Head(q).kept[c])
    BY <1>3, <2>1, TailAt DEF Elements
  <2> QED  BY <2>1, <2>2, <2>3
<1>7. deliveryState[e][c] = SKIPPED
  BY <1>6 DEF UnorderedInv, KeptOK, KeptFor, Elements
<1>8. /\ \A d \in Subscriber, f \in Event : d # c \/ f # e => notified'[d][f] = notified[d][f]
      /\ notified'[c][e] = IF c \in Invalid THEN notified[c][e] ELSE notified[c][e] + 1
      /\ \A d \in Subscriber, f \in Event : notified[d][f] \in Nat
  <2>1. notified' = IF c \in Invalid THEN notified ELSE [notified EXCEPT ![c][e] = @ + 1]
    BY <1>1, <1>3, FreezeTaskIs
  <2> QED  BY <1>1, <2>1 DEF TypeOK
<1> HIDE DEF q, n
<1>9. \A v \in Worker : \A i \in DOMAIN queue'[v] : queue'[v][i].event # None =>
        LET j == IF v = "immediate" THEN i + k ELSE i
        IN j \in DOMAIN queue[v] /\ queue[v][j] = queue'[v][i]
  <2>1. \A i \in DOMAIN n : n[i].event # None => i + k \in DOMAIN q /\ q[i + k] = n[i]
    BY <1>5
  <2> QED  BY <1>4, <2>1 DEF q, n
<1>10. EventTasks'
  <2>1. ASSUME NEW v \in Worker, NEW i \in DOMAIN queue'[v], queue'[v][i].event # None
        PROVE  /\ queue'[v][i].event <= published /\ queue'[v][i].kept = Nothing
               /\ \A u \in Worker : eventRecord[u] # queue'[v][i].event
    <3>1. PICK j \in DOMAIN queue[v] : queue[v][j] = queue'[v][i]
      BY <1>9, <2>1
    <3> QED  BY <2>1, <3>1 DEF UnorderedInv, EventTasks
  <2>2. ASSUME NEW u \in Worker, NEW v \in Worker, NEW i \in DOMAIN queue'[u],
               NEW j \in DOMAIN queue'[v], queue'[u][i].event # None,
               queue'[u][i].event = queue'[v][j].event
        PROVE  u = v /\ i = j
    <3> DEFINE a == IF u = "immediate" THEN i + k ELSE i
               b == IF v = "immediate" THEN j + k ELSE j
    <3>1. /\ a \in DOMAIN queue[u] /\ queue[u][a] = queue'[u][i]
          /\ b \in DOMAIN queue[v] /\ queue[v][b] = queue'[v][j]
      BY <1>9, <2>2
    <3>2. u = v /\ a = b
      <4> HIDE DEF a, b
      <4> QED  BY <2>2, <3>1 DEF UnorderedInv, EventTasks
    <3>3. \A h \in DOMAIN queue'["immediate"] : h \in Nat
      BY <1>5 DEF n
    <3> QED  BY <3>2, <3>3, <1>5
  <2> QED  BY <1>2, <2>1, <2>2 DEF UnorderedInv, EventTasks
<1>11. StatesOK'
  <2>1. ASSUME NEW f \in Event, NEW d \in Subscriber, Awaiting(f, d)'
        PROVE  Awaiting(f, d)
    <3>1. ASSUME NEW v \in Worker, NEW i \in DOMAIN queue'[v], queue'[v][i].event = f
          PROVE  \E j \in DOMAIN queue[v] : queue[v][j].event = f
      BY <1>9, <3>1, Constants
    <3> QED  BY <1>2, <2>1, <3>1 DEF Awaiting
  <2>2. ASSUME NEW f \in Event, NEW d \in Subscriber
        PROVE  /\ deliveryState[f][d] = PENDING => notified'[d][f] = 0
               /\ deliveryState[f][d] = DELIVERED => notified'[d][f] = 1
    <3>1. CASE d = c /\ f = e
      BY <1>7, <3>1 DEF PENDING, DELIVERED, SKIPPED
    <3>2. CASE d # c \/ f # e
      BY <1>8, <3>2 DEF UnorderedInv, StatesOK
    <3> QED  BY <3>1, <3>2
  <2>3. \A v \in Worker, d \in Subscriber, f \in Event : Keeping(v, d, f)' <=> Keeping(v, d, f)
    BY <1>2 DEF Keeping
  <2> QED  BY <1>2, <2>1, <2>2, <2>3 DEF UnorderedInv, StatesOK
<1>12. KeptOK'
  <2>1. ASSUME NEW d \in Subscriber, NEW i \in DOMAIN n
        PROVE  KeptFor(d, n[i].kept[d])
    <3>1. CASE n[i] = q[i + k]
      BY <1>5, <3>1 DEF UnorderedInv, KeptOK, q
    <3>2. CASE n[i].kept = Rest(c)
      <4>1. KeptFor(d, Head(q).kept[d])
        BY <1>6 DEF UnorderedInv, KeptOK, q
      <4>2. \A y \in Elements(Head(q).kept[d]) : deliveryState[y][d] = SKIPPED
        BY <4>1 DEF KeptFor, Elements
      <4>3. \A j \in DOMAIN Rest(c)[d] : Rest(c)[d][j] \in Elements(Head(q).kept[d])
        BY <1>4 DEF Elements
      <4> QED  BY <1>4, <3>2, <4>2, <4>3 DEF KeptFor
    <3> QED  BY <1>5, <3>1, <3>2
  <2>2. KeptOK
    BY DEF UnorderedInv
  <2> QED  BY <1>2, <2>1, <2>2 DEF KeptOK, KeptFor, n
<1>13. KeepingIsNew' /\ FlushOK'
  BY <1>2 DEF UnorderedInv, KeepingIsNew, FlushOK
<1>14. CopiesBounded'
  <2> SUFFICES ASSUME "all" \notin Interface, NEW f \in Event, NEW d \in Subscriber,
                      deliveryState[f][d] = SKIPPED
               PROVE  (Deliveries(d, f) + UidCopy(d, f) + PidCopy(d, f))' <= Cardinality(Interface)
    BY <1>2 DEF CopiesBounded
  <2>1. Deliveries(d, f) + UidCopy(d, f) + PidCopy(d, f) <= Cardinality(Interface)
    BY DEF UnorderedInv, CopiesBounded
  <2>2. UidCopy(d, f)' = UidCopy(d, f) /\ PidCopy(d, f)' = PidCopy(d, f)
        /\ UidCopy(d, f) \in {0, 1} /\ PidCopy(d, f) \in {0, 1}
    BY <1>2 DEF UidCopy, PidCopy, Keeping
  <2>3. /\ Deliveries(d, f) = notified[d][f] + Cardinality(Copies(q, d, f))
        /\ Deliveries(d, f)' = notified'[d][f] + Cardinality(Copies(n, d, f))
    BY DeliveriesIs, NewDeliveriesIs DEF q, n
  <2>4. Cardinality(Copies(q, d, f)) \in Nat
    BY <1>4, CopiesNat
  <2>5. Deliveries(d, f) \in Nat /\ Deliveries(d, f)' \in Int /\ Deliveries(d, f)' <= Deliveries(d, f)
    <3>1. CASE d = c /\ f = e
      <4>1. Cardinality(Copies(n, d, f)) = Cardinality(Copies(q, d, f)) - 1
        BY <1>4, <3>1
      <4>2. /\ notified[d][f] \in Nat
            /\ notified'[d][f] = notified[d][f] \/ notified'[d][f] = notified[d][f] + 1
        BY <1>8, <3>1
      <4> QED  BY <2>3, <2>4, <4>1, <4>2
    <3>2. CASE ~(d = c /\ f = e)
      <4>1. Cardinality(Copies(n, d, f)) = Cardinality(Copies(q, d, f))
        BY <1>4, <2>4, <3>2
      <4>2. notified[d][f] \in Nat /\ notified'[d][f] = notified[d][f]
        BY <1>8, <3>2
      <4> QED  BY <2>3, <2>4, <4>1, <4>2
    <3> QED  BY <3>1, <3>2
  <2>6. Cardinality(Interface) \in Nat
    BY InterfaceCounts
  <2> QED  BY <2>1, <2>2, <2>5, <2>6
<1>15. NothingLost'
  <2> SUFFICES ASSUME NEW f \in 1..published, NEW d \in subscribed \ Invalid,
                      deliveryState[f][d] = SKIPPED, ~Outdated(d, f)
               PROVE  \/ HandedOver(d, f)' \/ notified'[d][f] > 0
                      \/ /\ \/ f \in Elements(frozenEvents[d])
                            \/ \E v \in Worker : Keeping(v, d, f) /\ wpc[v] = "keep"
                         /\ \/ f \in Elements(frozenEventsMap[d])
                            \/ \E v \in Worker : Keeping(v, d, f)
    BY <1>2 DEF NothingLost, Outdated, Keeping
  <2>1. d \in Subscriber /\ f \in Event
    BY <1>1, PublishedAreEvents DEF TypeOK
  <2>2. CASE d = c /\ f = e
    BY <1>8, <2>2
  <2>3. CASE d # c \/ f # e
    <3>1. HandedOver(d, f) => HandedOver(d, f)'
      <4> SUFFICES ASSUME HandedOver(d, f)
                   PROVE  HandedOver(d, f)'
        OBVIOUS
      <4>1. Copies(q, d, f) # {}
        BY DEF HandedOver, Copies, q
      <4>2. Cardinality(Copies(n, d, f)) = Cardinality(Copies(q, d, f))
            /\ Cardinality(Copies(q, d, f)) \in Nat
            /\ IsFiniteSet(Copies(q, d, f)) /\ IsFiniteSet(Copies(n, d, f))
        BY <1>4, <2>1, <2>3, CopiesNat
      <4>3. Copies(n, d, f) # {}
        BY <4>1, <4>2, FS_EmptySet
      <4> QED  BY <4>3 DEF HandedOver, Copies, n
    <3>2. notified'[d][f] = notified[d][f]
      BY <1>8, <2>1, <2>3
    <3> QED  BY <3>1, <3>2 DEF UnorderedInv, NothingLost
  <2> QED  BY <2>2, <2>3
<1> QED  BY <1>1, <1>10, <1>11, <1>12, <1>13, <1>14, <1>15 DEF UnorderedInv

(***************************************************************************)
(* The theorems                                                            *)
(***************************************************************************)

\* The invariant is inductive: one case per action.
LEMMA StepInv == UnorderedInv /\ [Next]_vars => UnorderedInv'
<1> SUFFICES ASSUME UnorderedInv, [Next]_vars
             PROVE  UnorderedInv'
  OBVIOUS
<1>1. CASE Publish
  BY <1>1, PublishKeeps
<1>2. CASE FreezeRequest
  BY <1>2, FreezeRequestKeeps
<1>3. CASE FlushStep
  BY <1>3, FlushStepKeeps
<1>4. ASSUME NEW w \in Worker, WorkerStep(w)
      PROVE  UnorderedInv'
  BY <1>4, StartKeeps, NotifyKeeps, HandleKeeps, InsertKeeps, InsertMapKeeps, FinishKeeps
     DEF WorkerStep
<1>5. CASE FreezeTask
  BY <1>5, FreezeTaskKeeps DEF FreezeTask
<1>6. ASSUME NEW c \in Subscriber, RemoveSubscriber(c)
      PROVE  UnorderedInv'
  BY <1>6, RemoveKeeps
<1>7. CASE UNCHANGED vars
  <2>1. UNCHANGED <<published, receivers, recordTime, deliveryState, holds, unorderedEventQueue,
                    queue, wpc, eventRecord, todo, vec, requests, flush, subscribed, generation,
                    isFreeze, frozenEvents, frozenEventsMap, notified>>
    BY <1>7 DEF vars, eventVars, workerVars, serviceVars, managerVars
  <2>2. TypeOK'
    BY <2>1 DEF UnorderedInv, TypeOK
  <2>3. EventTasks' /\ KeptOK' /\ KeepingIsNew' /\ FlushOK'
    BY <2>1 DEF UnorderedInv, EventTasks, KeptOK, KeptFor, KeepingIsNew, FlushOK
  <2>4. StatesOK'
    BY <2>1 DEF UnorderedInv, StatesOK, Awaiting, Keeping
  <2>5. CopiesBounded'
    BY <2>1 DEF UnorderedInv, CopiesBounded, Deliveries, UidCopy, PidCopy, Keeping
  <2>6. NothingLost'
    BY <2>1 DEF UnorderedInv, NothingLost, Outdated, HandedOver, Keeping
  <2> QED  BY <2>2, <2>3, <2>4, <2>5, <2>6 DEF UnorderedInv
<1> QED  BY <1>1, <1>2, <1>3, <1>4, <1>5, <1>6, <1>7 DEF Next

\* Receivers that were not skipped have the event at most once, the skipped as
\* often as there are maps a request can take it from.
LEMMA InvImpliesOnce == UnorderedInv => OncePerMap
<1> SUFFICES ASSUME UnorderedInv, NEW e \in 1..published, NEW c \in Subscriber
             PROVE  IF deliveryState[e][c] # SKIPPED THEN Deliveries(c, e) <= 1
                    ELSE "all" \notin Interface => Deliveries(c, e) <= Cardinality(Interface)
  BY DEF OncePerMap
<1>1. TypeOK /\ e \in Event
  BY PublishedAreEvents DEF UnorderedInv
<1>2. queue["immediate"] \in Seq(Task) /\ notified[c][e] \in Nat
  BY <1>1, Constants DEF TypeOK
<1>3. Cardinality(Copies(queue["immediate"], c, e)) \in Nat
  BY <1>2, CopiesNat
<1>4. CASE deliveryState[e][c] # SKIPPED
  <2>1. deliveryState[e][c] \in {PENDING, DELIVERED, SKIPPED}
    BY <1>1 DEF TypeOK
  <2>2. notified[c][e] \in {0, 1}
    BY <1>1, <1>4, <2>1 DEF UnorderedInv, StatesOK
  <2>3. Copies(queue["immediate"], c, e) = {}
    BY <1>4 DEF UnorderedInv, KeptOK, KeptFor, Copies, Elements
  <2>4. Cardinality(Copies(queue["immediate"], c, e)) = 0
    BY <2>3, FS_EmptySet
  <2> QED  BY <1>4, <2>2, <2>4, DeliveriesIs
<1>5. CASE deliveryState[e][c] = SKIPPED
  <2> SUFFICES ASSUME "all" \notin Interface
               PROVE  Deliveries(c, e) <= Cardinality(Interface)
    BY <1>5
  <2>1. Deliveries(c, e) + UidCopy(c, e) + PidCopy(c, e) <= Cardinality(Interface)
    BY <1>1, <1>5 DEF UnorderedInv, CopiesBounded
  <2>2. UidCopy(c, e) \in Nat /\ PidCopy(c, e) \in Nat /\ Cardinality(Interface) \in Nat
    BY InterfaceCounts DEF UidCopy, PidCopy
  <2> QED  BY <1>2, <1>3, <2>1, <2>2, DeliveriesIs
<1> QED  BY <1>4, <1>5

\* The inductive invariant holds of every behaviour of unordered delivery.
THEOREM UnorderedInvariance == Spec => []UnorderedInv
<1>1. Init => UnorderedInv
  BY InitInv
<1>2. UnorderedInv /\ [Next]_vars => UnorderedInv'
  BY StepInv
<1> QED  BY <1>1, <1>2, PTL DEF Spec

\* Queues, tasks, maps and the locals of the workers always have their types,
\* and the locals are set when they are used (NotifyUnorderedEvent).
THEOREM TypeCorrect == Spec => []TypeOK
<1>1. UnorderedInv => TypeOK
  BY DEF UnorderedInv
<1> QED  BY <1>1, UnorderedInvariance, PTL

\* An event skipped for a frozen receiver is about to be kept, kept, on its way
\* or handed over, or outdated (HandleFrozenUnorderedSubscriber,
\* InsertFrozenEvents, InsertFrozenEventsMap, PublishFreezeCommonEvent).
THEOREM NothingLostHolds == Spec => []NothingLost
<1>1. UnorderedInv => NothingLost
  BY DEF UnorderedInv
<1> QED  BY <1>1, UnorderedInvariance, PTL

\* Nobody gets an event more often than there are maps to take it from
\* (GetFrozenEvents, GetFrozenEventsMapByPid).
THEOREM OncePerMapHolds == Spec => []OncePerMap
<1>1. UnorderedInv => OncePerMap
  BY InvImpliesOnce
<1> QED  BY <1>1, UnorderedInvariance, PTL

=============================================================================
