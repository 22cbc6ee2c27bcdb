------------------------- MODULE ClientLibraryProofs -------------------------
(***************************************************************************)
(* Proofs about ClientLibrary, for any subscribers, threads and limits and *)
(* however often the service dies.  ClientInv is inductive and implies the *)
(* four invariants of the library: the limit on listeners holds whatever   *)
(* the threads do, a restart of the service reaches every listener that    *)
(* was subscribed unless nobody watched the death, a listener the library  *)
(* keeps is never a stopped one, and a stopped one is silent once the call *)
(* that stops it has returned.                                             *)
(***************************************************************************)
EXTENDS ClientLibrary, TLAPS, SequenceTheorems, FiniteSetTheorems

(***************************************************************************)
(* The inductive invariant                                                 *)
(***************************************************************************)

Objects == 1..Len(subscriberOf)

\* The tables and what they say of the listeners made so far.
TablesTyped ==
  /\ subscriberOf \in Seq(Subscriber)
  /\ eventListeners \in [Subscriber -> {0} \cup Objects]
  /\ \A s \in Subscriber : eventListeners[s] # 0 => subscriberOf[eventListeners[s]] = s
  /\ stopped \in SUBSET Objects /\ registered \in SUBSET Objects
  /\ accepted \in SUBSET Objects /\ unseen \in SUBSET Objects

QueuesTyped ==
  /\ tasks \in [Objects -> Seq(Nat)] /\ running \in [Objects -> Nat]
  /\ events \in Nat

ServiceTyped ==
  /\ deaths \in Nat /\ service \in 0..(deaths + 1) /\ refusals \in Nat
  /\ watching \in BOOLEAN /\ isSAOffline \in BOOLEAN
  /\ notices \in Seq({"remove", "add"})
  /\ resubscribe \in Nat
  /\ resubscribing \in [proxy : Nat, todo : SUBSET Objects]

\* What a thread's call carries, by where it is; O are the listeners there are.
CallTyped(x, O) ==
  \/ x = NoCall
  \/ x.at \in {"watchToCreate", "watchToUpdate"} /\ x = [at |-> x.at, sub |-> x.sub, proxy |-> x.proxy]
     /\ x.sub \in Subscriber
  \/ x.at \in {"create", "createOrUpdate", "unsubscribe"} /\ x.sub \in Subscriber
  \/ x.at = "send" /\ x.sub \in Subscriber /\ x.listener \in O
  \/ x.at = "update" /\ x.listener \in O
  \/ x.at = "undo" /\ x.sub \in Subscriber
  \/ x.at \in {"stop", "delete"} /\ x = [at |-> x.at, listener |-> x.listener]
     /\ x.listener \in O

CallsTyped == call = [t \in Thread |-> call[t]] /\ \A t \in Thread : CallTyped(call[t], Objects)

\* The notices of the ability manager alternate and the last one tells how the
\* service is now; without the watch there are none.
NoticesOK ==
  /\ \A i \in 1..(Len(notices) - 1) : notices[i] # notices[i + 1]
  /\ notices # <<>> => notices[Len(notices)] = IF service = 0 THEN "remove" ELSE "add"
  /\ ~watching => notices = <<>> /\ resubscribe = 0 /\ resubscribing = Idle

\* A listener about to be stopped is no longer the library's.
StoppingIsForgotten ==
  \A t \in Thread : call[t].at = "stop" => call[t].listener \notin Known

\* No notice of a death comes before the next one of a return.
AddIsNext ==
  \/ notices = <<>> /\ service = 0
  \/ Len(notices) = 1 /\ notices[1] = "add"

\* What RestartIsSeen promises is under way: whoever is owed a subscription was
\* lost in a death that is watched, and the notice of the return finds
\* isSAOffline set.
Owed == ((Known \intersect accepted) \ unseen) \ registered
OwedIsComing ==
  /\ ~watching => Owed = {}
  /\ Owed # {} /\ AddIsNext => isSAOffline
  /\ \A l \in Owed : \/ service = 0 \/ notices # <<>> \/ resubscribe > 0
                     \/ resubscribing.proxy # 0 /\ (Free \/ l \in resubscribing.todo)

ClientInv ==
  /\ TablesTyped
  /\ QueuesTyped
  /\ ServiceTyped
  /\ CallsTyped
  /\ NoticesOK
  /\ ListenersBounded
  /\ StoppingIsForgotten
  /\ KnownIsLive
  /\ UnsubscribedIsSilent
  /\ OwedIsComing

(***************************************************************************)
(* Effects on the tables                                                   *)
(***************************************************************************)

\* Growing a sequence given as a function on an interval.
LEMMA AppendInterval ==
    ASSUME NEW n \in Nat, NEW S, NEW f \in [1..n -> S], NEW e \in S
    PROVE  /\ Append(f, e) \in [1..(n + 1) -> S]
           /\ \A i \in 1..n : Append(f, e)[i] = f[i]
           /\ Append(f, e)[n + 1] = e
<1>1. f \in Seq(S) /\ Len(f) = n
  OBVIOUS
<1>2. /\ Append(f, e) \in Seq(S) /\ Len(Append(f, e)) = n + 1
      /\ \A i \in 1..n : Append(f, e)[i] = f[i]
      /\ Append(f, e)[n + 1] = e
  BY <1>1
<1>3. Append(f, e) \in [1..Len(Append(f, e)) -> S]
  BY <1>2, LenProperties
<1> QED
  BY <1>2, <1>3

\* A new listener: one object more, which only its subscriber's entry names.
LEMMA NewListenerEffect ==
    ASSUME TablesTyped, QueuesTyped, NEW s \in Subscriber, eventListeners[s] = 0, NewListener(s)
    PROVE  /\ Len(subscriberOf) + 1 \notin Objects /\ Len(subscriberOf) + 1 # 0
           /\ Len(subscriberOf) + 1 \in Objects'
           /\ Objects' = Objects \cup {Len(subscriberOf) + 1}
           /\ subscriberOf' \in Seq(Subscriber)
           /\ \A l \in Objects : subscriberOf'[l] = subscriberOf[l] /\ running'[l] = running[l]
           /\ eventListeners' \in [Subscriber -> {0} \cup Objects']
           /\ \A q \in Subscriber : eventListeners'[q] # 0 => subscriberOf'[eventListeners'[q]] = q
           /\ Known' = Known \cup {Len(subscriberOf) + 1}
           /\ tasks' \in [Objects' -> Seq(Nat)] /\ running' \in [Objects' -> Nat]
<1> DEFINE n == Len(subscriberOf)
<1>1. n \in Nat /\ subscriberOf \in Seq(Subscriber) /\ eventListeners \in [Subscriber -> {0} \cup 1..n]
  BY DEF TablesTyped, Objects
<1>2. /\ subscriberOf' = Append(subscriberOf, s)
      /\ eventListeners' = [eventListeners EXCEPT ![s] = n + 1]
      /\ tasks' = Append(tasks, <<>>) /\ running' = Append(running, 0)
  BY DEF NewListener
<1>3. /\ subscriberOf' \in Seq(Subscriber) /\ Len(subscriberOf') = n + 1
      /\ \A l \in 1..n : subscriberOf'[l] = subscriberOf[l]
      /\ subscriberOf'[n + 1] = s
  BY <1>1, <1>2
<1>4. Objects = 1..n /\ Objects' = 1..(n + 1)
  BY <1>3 DEF Objects
<1>5. Objects' = Objects \cup {n + 1} /\ n + 1 \notin Objects /\ n + 1 # 0 /\ n + 1 \in Objects'
  BY <1>1, <1>4
<1>6. eventListeners' \in [Subscriber -> {0} \cup Objects']
  BY <1>1, <1>2, <1>4, <1>5
<1>7. \A q \in Subscriber : eventListeners'[q] = IF q = s THEN n + 1 ELSE eventListeners[q]
  BY <1>1, <1>2
<1>8. \A q \in Subscriber : eventListeners'[q] # 0 => subscriberOf'[eventListeners'[q]] = q
  BY <1>1, <1>3, <1>7 DEF TablesTyped
<1>9. Known' = Known \cup {n + 1}
  <2>1. Known' = {eventListeners'[q] : q \in Subscriber} \ {0}
    BY DEF Known
  <2>2. \A k : k \in Known' <=> k \in Known \cup {n + 1}
    BY <1>5, <1>7, <2>1 DEF Known
  <2> QED
    BY <2>2
<1>10. tasks \in [1..n -> Seq(Nat)] /\ running \in [1..n -> Nat] /\ <<>> \in Seq(Nat)
  BY <1>4 DEF QueuesTyped
<1>11. tasks' \in [1..(n + 1) -> Seq(Nat)]
  BY <1>1, <1>2, <1>10, AppendInterval
<1>12. running' \in [1..(n + 1) -> Nat] /\ \A l \in 1..n : running'[l] = running[l]
  <2>1. running \in Seq(Nat) /\ Len(running) = n
    BY <1>1, <1>10
  <2>2. /\ Append(running, 0) \in Seq(Nat) /\ Len(Append(running, 0)) = n + 1
        /\ \A l \in 1..n : Append(running, 0)[l] = running[l]
    BY <2>1
  <2>3. Append(running, 0) \in [1..Len(Append(running, 0)) -> Nat]
    BY <2>2, LenProperties
  <2> QED
    BY <1>2, <2>2, <2>3
<1> QED
  BY <1>3, <1>4, <1>5, <1>6, <1>8, <1>9, <1>11, <1>12

\* Erasing an entry: the library forgets that listener and no other.
LEMMA ErasedEffect ==
    ASSUME TablesTyped, NEW s \in Subscriber, eventListeners' = [eventListeners EXCEPT ![s] = 0],
           UNCHANGED subscriberOf
    PROVE  /\ Objects' = Objects
           /\ eventListeners' \in [Subscriber -> {0} \cup Objects']
           /\ \A q \in Subscriber : eventListeners'[q] # 0 => subscriberOf'[eventListeners'[q]] = q
           /\ Known' = Known \ {eventListeners[s]}
<1>1. /\ eventListeners \in [Subscriber -> {0} \cup Objects] /\ Objects' = Objects
      /\ \A q \in Subscriber : eventListeners[q] # 0 => subscriberOf[eventListeners[q]] = q
  BY DEF TablesTyped, Objects
<1>2. \A q \in Subscriber : eventListeners'[q] = IF q = s THEN 0 ELSE eventListeners[q]
  BY <1>1
<1>3. eventListeners' \in [Subscriber -> {0} \cup Objects']
  BY <1>1
<1>4. Known' = Known \ {eventListeners[s]}
  BY <1>1, <1>2 DEF Known
<1> QED
  BY <1>1, <1>2, <1>3, <1>4

\* What the library keeps are listeners it made, finitely many.
LEMMA KnownFinite ==
    ASSUME TablesTyped
    PROVE  Known \subseteq Objects /\ IsFiniteSet(Known) /\ Cardinality(Known) \in Nat
<1>1. Len(subscriberOf) \in Nat /\ Known \subseteq Objects
  BY DEF TablesTyped, Known
<1>2. IsFiniteSet(Objects)
  BY <1>1, FS_Interval DEF Objects
<1> QED
  BY <1>1, <1>2, FS_Subset, FS_CardinalityType

(***************************************************************************)
(* Frames: what a conjunct needs of a step to go on holding                *)
(***************************************************************************)

\* A step that forgets listeners keeps the bound.
LEMMA BoundedFrame ==
    ASSUME TablesTyped, ListenersBounded, Known' \subseteq Known
    PROVE  ListenersBounded'
<1>1. IsFiniteSet(Known) /\ Cardinality(Known) \in Nat
  BY KnownFinite
<1>2. IsFiniteSet(Known') /\ Cardinality(Known') <= Cardinality(Known)
  BY <1>1, FS_Subset
<1>3. Cardinality(Known') \in Nat
  BY <1>2, FS_CardinalityType
<1> QED
  BY <1>1, <1>2, <1>3, ClientLibraryAssumption DEF ListenersBounded

\* So does one that adds a listener after the test of the limit.
LEMMA BoundedGrows ==
    ASSUME TablesTyped, ListenersBounded, BelowLimit, NEW n, n \notin Known, Known' = Known \cup {n}
    PROVE  ListenersBounded'
<1>1. IsFiniteSet(Known) /\ Cardinality(Known) \in Nat
  BY KnownFinite
<1>2. Cardinality(Known') = Cardinality(Known) + 1
  BY <1>1, FS_AddElement
<1> QED
  BY <1>1, <1>2, ClientLibraryAssumption DEF ListenersBounded, BelowLimit

\* A thread goes on with its call.
LEMMA CallGoesOn ==
    ASSUME CallsTyped, StoppingIsForgotten, NEW t \in Thread, NEW x,
           call' = [call EXCEPT ![t] = x], CallTyped(x, Objects'),
           x.at = "stop" => x.listener \notin Known',
           Objects \subseteq Objects', Known' \intersect Objects \subseteq Known
    PROVE  CallsTyped' /\ StoppingIsForgotten'
<1>1. DOMAIN call' = Thread /\ call'[t] = x /\ \A u \in Thread : u # t => call'[u] = call[u]
  BY DEF CallsTyped
<1>2. \A u \in Thread : CallTyped(call[u], Objects')
  BY DEF CallsTyped, CallTyped
<1>3. /\ \A u \in Thread : CallTyped(call'[u], Objects')
      /\ call' = [u \in Thread |-> call'[u]]
  BY <1>1, <1>2
<1>4. \A u \in Thread : u # t /\ call[u].at = "stop" => call[u].listener \in Objects
  BY DEF CallsTyped, CallTyped, NoCall
<1>5. StoppingIsForgotten'
  BY <1>1, <1>4 DEF StoppingIsForgotten
<1> QED
  BY <1>1, <1>3, <1>5 DEF CallsTyped

\* No thread does.
LEMMA CallsFrame ==
    ASSUME CallsTyped, StoppingIsForgotten, UNCHANGED call,
           Objects \subseteq Objects', Known' \intersect Objects \subseteq Known
    PROVE  CallsTyped' /\ StoppingIsForgotten'
<1>1. \A u \in Thread : CallTyped(call[u], Objects')
  BY DEF CallsTyped, CallTyped
<1>2. \A u \in Thread : call[u].at = "stop" => call[u].listener \in Objects
  BY DEF CallsTyped, CallTyped, NoCall
<1> QED
  BY <1>1, <1>2 DEF CallsTyped, StoppingIsForgotten

\* Nobody new is stopped, called or through with stopping.
LEMMA SilentFrame ==
    ASSUME UnsubscribedIsSilent, UNCHANGED stopped,
           \A l \in stopped : subscriberOf'[l] = subscriberOf[l],
           \A l \in stopped : running'[l] = running[l] \/ running'[l] = 0,
           \A u \in Thread : call[u].at = "delete" => call'[u] = call[u]
    PROVE  UnsubscribedIsSilent'
BY DEF UnsubscribedIsSilent, Stopping

\* The library comes to keep none but a new listener.
LEMMA LiveFrame ==
    ASSUME TablesTyped, KnownIsLive, UNCHANGED stopped, Known' \intersect Objects \subseteq Known
    PROVE  KnownIsLive'
BY DEF TablesTyped, KnownIsLive

\* Nothing more is owed, and what was coming still is.
LEMMA OwedFrame ==
    ASSUME OwedIsComing, Owed' \subseteq Owed,
           UNCHANGED <<service, watching, notices, isSAOffline, resubscribe, resubscribing>>
    PROVE  OwedIsComing'
BY DEF OwedIsComing, AddIsNext, Free

\* The service's side is left alone.
LEMMA ServiceFrame ==
    ASSUME ServiceTyped, NoticesOK, Objects \subseteq Objects',
           UNCHANGED <<serviceVars, resubscribe, resubscribing>>, refusals' \in Nat
    PROVE  ServiceTyped' /\ NoticesOK'
<1>1. ServiceTyped'
  BY DEF ServiceTyped, serviceVars
<1>2. NoticesOK'
  BY DEF NoticesOK, serviceVars
<1> QED
  BY <1>1, <1>2

\* The tables are left alone.
LEMMA TablesFrame ==
    ASSUME TablesTyped, UNCHANGED <<eventListeners, subscriberOf, stopped>>,
           registered' \in SUBSET Objects, accepted' \in SUBSET Objects, unseen' \in SUBSET Objects
    PROVE  TablesTyped' /\ Objects' = Objects /\ Known' = Known
BY DEF TablesTyped, Objects, Known

(***************************************************************************)
(* The steps of a thread                                                   *)
(***************************************************************************)

\* A listener is made after the test of the limit, by a subscription, which
\* goes on to send it, or for the final receiver of a publication.
LEMMA NewListenerStep ==
    ASSUME ClientInv, NEW s \in Subscriber, eventListeners[s] = 0, BelowLimit, NewListener(s),
           NEW t \in Thread, NEW p,
           \/ UNCHANGED call
           \/ /\ call[t].at \in {"create", "createOrUpdate"}
              /\ call' = [call EXCEPT ![t] = [at |-> "send", sub |-> s,
                              listener |-> Len(subscriberOf) + 1, proxy |-> p]],
           UNCHANGED <<stopped, serviceVars, registered, refusals, accepted, resubscribeVars, events>>
    PROVE  ClientInv'
<1> USE DEF ClientInv
<1> DEFINE n == Len(subscriberOf) + 1
<1>1. /\ n \notin Objects /\ n # 0 /\ n \in Objects' /\ Objects' = Objects \cup {n}
      /\ subscriberOf' \in Seq(Subscriber)
      /\ \A l \in Objects : subscriberOf'[l] = subscriberOf[l] /\ running'[l] = running[l]
      /\ eventListeners' \in [Subscriber -> {0} \cup Objects']
      /\ \A q \in Subscriber : eventListeners'[q] # 0 => subscriberOf'[eventListeners'[q]] = q
      /\ Known' = Known \cup {n}
      /\ tasks' \in [Objects' -> Seq(Nat)] /\ running' \in [Objects' -> Nat]
  BY NewListenerEffect
<1> HIDE DEF n
<1>2. /\ stopped \in SUBSET Objects /\ registered \in SUBSET Objects /\ accepted \in SUBSET Objects
      /\ unseen \in SUBSET Objects /\ Known \subseteq Objects
  BY KnownFinite DEF TablesTyped
<1>3. TablesTyped' /\ QueuesTyped'
  BY <1>1, <1>2 DEF TablesTyped, QueuesTyped, serviceVars
<1>4. Objects \subseteq Objects' /\ Known' \intersect Objects \subseteq Known /\ n \notin Known
  BY <1>1, <1>2
<1>5. ServiceTyped' /\ NoticesOK'
  BY <1>4, ServiceFrame DEF ServiceTyped, resubscribeVars
<1>6. CallsTyped' /\ StoppingIsForgotten'
  <2>1. CASE UNCHANGED call
    BY <1>4, <2>1, CallsFrame
  <2>2. CASE ~UNCHANGED call
    <3>1. call' = [call EXCEPT ![t] = [at |-> "send", sub |-> s, listener |-> n, proxy |-> p]]
      BY <2>2 DEF n
    <3>2. CallTyped([at |-> "send", sub |-> s, listener |-> n, proxy |-> p], Objects')
      BY <1>1 DEF CallTyped
    <3> QED
      BY <1>4, <3>1, <3>2, CallGoesOn
  <2> QED
    BY <2>1, <2>2
<1>7. ListenersBounded' /\ KnownIsLive'
  BY <1>1, <1>4, BoundedGrows, LiveFrame
<1>8. UnsubscribedIsSilent'
  <2>1. \A u \in Thread : call[u].at = "delete" => call'[u] = call[u]
    BY DEF CallsTyped
  <2> QED
    BY <1>1, <1>2, <2>1, SilentFrame
<1>9. OwedIsComing'
  <2>1. Owed' \subseteq Owed
    BY <1>1, <1>2 DEF Owed, serviceVars
  <2> QED
    BY <2>1, OwedFrame DEF serviceVars, resubscribeVars
<1> QED
  BY <1>3, <1>5, <1>6, <1>7, <1>8, <1>9

\* A thread's call goes on without touching anything else.
LEMMA CallOnlyStep ==
    ASSUME ClientInv, NEW t \in Thread, NEW x, call' = [call EXCEPT ![t] = x],
           CallTyped(x, Objects), x.at # "stop", call[t].at # "delete",
           UNCHANGED <<eventListeners, subscriberOf, stopped, serviceVars, registered, refusals,
                       accepted, resubscribeVars, deliveryVars>>
    PROVE  ClientInv'
<1> USE DEF ClientInv
<1>1. TablesTyped' /\ Objects' = Objects /\ Known' = Known
  BY TablesFrame DEF TablesTyped, serviceVars
<1>2. QueuesTyped'
  BY <1>1 DEF QueuesTyped, deliveryVars
<1>3. ServiceTyped' /\ NoticesOK'
  BY <1>1, ServiceFrame DEF ServiceTyped, resubscribeVars
<1>4. CallsTyped' /\ StoppingIsForgotten'
  BY <1>1, CallGoesOn
<1>5. ListenersBounded' /\ KnownIsLive'
  BY <1>1, BoundedFrame, LiveFrame
<1>6. UnsubscribedIsSilent'
  <2>1. \A u \in Thread : call[u].at = "delete" => call'[u] = call[u]
    BY DEF CallsTyped
  <2> QED
    BY <2>1, SilentFrame DEF deliveryVars
<1>7. OwedIsComing'
  BY <1>1, OwedFrame DEF Owed, resubscribeVars, serviceVars
<1> QED
  BY <1>1, <1>2, <1>3, <1>4, <1>5, <1>6, <1>7

\* A thread enters a call: only its own record of it changes.
LEMMA EnterStep ==
    ASSUME ClientInv, NEW t \in Thread, NEW s \in Subscriber,
           SubscribeCommonEvent(t, s) \/ Subscribe(t, s) \/ UnSubscribeCommonEvent(t, s)
    PROVE  ClientInv'
<1> USE DEF ClientInv
<1>1. PICK kind \in {"watchToCreate", "watchToUpdate", "unsubscribe"} :
          /\ call' = [call EXCEPT ![t] = [at |-> kind, sub |-> s, proxy |-> service]]
          /\ call[t] = NoCall
  BY DEF SubscribeCommonEvent, Subscribe, UnSubscribeCommonEvent, Enter, GetCommonEventProxy
<1>2. UNCHANGED <<eventListeners, subscriberOf, stopped, serviceVars, registered, refusals, accepted,
                  resubscribeVars, deliveryVars>>
  BY DEF SubscribeCommonEvent, Subscribe, UnSubscribeCommonEvent
<1> DEFINE x == [at |-> kind, sub |-> s, proxy |-> service]
<1>3. /\ CallTyped(x, Objects) /\ x.at # "stop"
      /\ call[t].at # "delete"
  BY <1>1 DEF CallTyped, NoCall
<1> QED
  BY <1>1, <1>2, <1>3, CallOnlyStep

\* The status listener is registered, or not: what is owed was lost in a watched
\* death, so the watch was there before.
LEMMA WatchStep ==
    ASSUME ClientInv, NEW t \in Thread, SubscribeSAManager(t)
    PROVE  ClientInv'
<1> USE DEF ClientInv
<1>1. /\ call[t].at \in {"watchToCreate", "watchToUpdate"}
      /\ call[t] = [at |-> call[t].at, sub |-> call[t].sub, proxy |-> call[t].proxy]
      /\ call[t].sub \in Subscriber
  BY DEF SubscribeSAManager, CallsTyped, CallTyped, NoCall
<1>2. /\ watching' \in {watching, TRUE}
      /\ UNCHANGED <<eventListeners, subscriberOf, stopped, service, deaths, unseen, notices,
                     isSAOffline, registered, refusals, accepted, resubscribeVars, deliveryVars>>
  BY DEF SubscribeSAManager
<1>3. PICK kind \in {"create", "createOrUpdate"} : call' = [call EXCEPT ![t] = [call[t] EXCEPT !.at = kind]]
  <2>1. call' = [call EXCEPT ![t] = [call[t] EXCEPT
                    !.at = IF call[t].at = "watchToCreate" THEN "create" ELSE "createOrUpdate"]]
    BY DEF SubscribeSAManager, CallsTyped
  <2> QED
    BY <2>1
<1> DEFINE x == [at |-> kind, sub |-> call[t].sub, proxy |-> call[t].proxy]
<1>4. call' = [call EXCEPT ![t] = x]
  <2>1. [call[t] EXCEPT !.at = kind] = x
    BY <1>1
  <2> QED
    BY <1>3, <2>1
<1>5. TablesTyped' /\ Objects' = Objects /\ Known' = Known
  BY <1>2, TablesFrame DEF TablesTyped, serviceVars
<1>6. QueuesTyped'
  BY <1>2, <1>5 DEF QueuesTyped, deliveryVars
<1>7. watching \in BOOLEAN /\ watching' \in BOOLEAN /\ (watching => watching')
  BY <1>2, Zenon DEF ServiceTyped
<1>8. ServiceTyped'
  BY <1>2, <1>5, <1>7 DEF ServiceTyped, resubscribeVars
<1>9. NoticesOK'
  BY <1>2, <1>7 DEF NoticesOK, resubscribeVars
<1>10. CallsTyped' /\ StoppingIsForgotten'
  <2>1. CallTyped(x, Objects') /\ x.at # "stop"
    BY <1>1 DEF CallTyped
  <2> QED
    BY <1>4, <1>5, <2>1, CallGoesOn
<1>11. ListenersBounded' /\ KnownIsLive'
  BY <1>2, <1>5, BoundedFrame, LiveFrame
<1>12. UnsubscribedIsSilent'
  <2>1. \A u \in Thread : call[u].at = "delete" => call'[u] = call[u]
    BY <1>1, <1>4 DEF CallsTyped
  <2> QED
    BY <1>2, <2>1, SilentFrame DEF deliveryVars
<1>13. OwedIsComing'
  BY <1>2, <1>5, <1>7 DEF OwedIsComing, Owed, AddIsNext, Free, resubscribeVars
<1> QED
  BY <1>5, <1>6, <1>8, <1>9, <1>10, <1>11, <1>12, <1>13

\* CreateCommonEventListener keeps the invariant.
LEMMA CreateStep ==
    ASSUME ClientInv, NEW t \in Thread, CreateCommonEventListener(t)
    PROVE  ClientInv'
<1>1. call[t].at \in {"create", "createOrUpdate"}
  BY DEF CreateCommonEventListener
<1>2. call[t].sub \in Subscriber
  BY <1>1 DEF ClientInv, CallsTyped, CallTyped, NoCall
<1> DEFINE s == call[t].sub
<1>3. UNCHANGED <<stopped, serviceVars, registered, refusals, accepted, resubscribeVars, events>>
  BY DEF CreateCommonEventListener
<1>4. CASE eventListeners[s] # 0
  <2>1. eventListeners[s] \in Objects
    BY <1>2, <1>4 DEF ClientInv, TablesTyped
  <2>2. PICK x : /\ call' = [call EXCEPT ![t] = x]
                 /\ \/ x = NoCall
                    \/ \E p : x = [at |-> "update", listener |-> eventListeners[s], proxy |-> p]
                 /\ UNCHANGED <<eventListeners, subscriberOf, tasks, running>>
    <3>1. /\ call' = [call EXCEPT ![t] = IF call[t].at = "create" THEN NoCall
                        ELSE [at |-> "update", listener |-> eventListeners[s], proxy |-> call[t].proxy]]
          /\ UNCHANGED <<eventListeners, subscriberOf, tasks, running>>
      BY <1>4 DEF CreateCommonEventListener, ClientInv, CallsTyped
    <3> QED
      BY <3>1
  <2>3. CallTyped(x, Objects) /\ x.at # "stop"
    BY <2>1, <2>2 DEF CallTyped, NoCall
  <2> QED
    BY <1>1, <1>3, <2>2, <2>3, CallOnlyStep DEF deliveryVars
<1>5. CASE eventListeners[s] = 0 /\ ~BelowLimit
  <2>1. call' = [call EXCEPT ![t] = NoCall] /\ UNCHANGED <<eventListeners, subscriberOf, tasks, running>>
    BY <1>5 DEF CreateCommonEventListener
  <2>2. CallTyped(NoCall, Objects) /\ NoCall.at # "stop"
    BY DEF CallTyped, NoCall
  <2> QED
    BY <1>1, <1>3, <2>1, <2>2, CallOnlyStep DEF deliveryVars
<1>6. CASE eventListeners[s] = 0 /\ BelowLimit
  <2>1. /\ NewListener(s)
        /\ call' = [call EXCEPT ![t] = [at |-> "send", sub |-> s,
                        listener |-> Len(subscriberOf) + 1, proxy |-> call[t].proxy]]
    BY <1>6 DEF CreateCommonEventListener, ClientInv, CallsTyped
  <2> QED
    BY <1>1, <1>2, <1>3, <1>6, <2>1, NewListenerStep
<1> QED
  BY <1>4, <1>5, <1>6

\* PublishParameterCheck keeps the invariant.
LEMMA PublishStep ==
    ASSUME ClientInv, NEW t \in Thread, NEW s \in Subscriber, PublishParameterCheck(t, s)
    PROVE  ClientInv'
<1>1. UNCHANGED <<stopped, call, serviceVars, registered, refusals, accepted, resubscribeVars, events>>
  BY DEF PublishParameterCheck
<1>2. CASE eventListeners[s] = 0 /\ BelowLimit
  BY <1>1, <1>2, NewListenerStep DEF PublishParameterCheck
<1>3. CASE ~(eventListeners[s] = 0 /\ BelowLimit)
  <2>1. UNCHANGED <<eventListeners, subscriberOf, tasks, running>> /\ call[t] = NoCall
    BY <1>3 DEF PublishParameterCheck
  <2>2. call' = [call EXCEPT ![t] = NoCall]
    BY <1>1, <2>1 DEF ClientInv, CallsTyped
  <2>3. CallTyped(NoCall, Objects) /\ NoCall.at # "stop" /\ call[t].at # "delete"
    BY <2>1 DEF CallTyped, NoCall
  <2> QED
    BY <1>1, <2>1, <2>2, <2>3, CallOnlyStep DEF deliveryVars
<1> QED
  BY <1>2, <1>3

\* What the service's answer to a subscription can change.
LEMMA AnswerEffect ==
    ASSUME TablesTyped, ServiceTyped, NEW proxy, NEW l \in Objects, Answer(proxy, l)
    PROVE  /\ registered' \in SUBSET Objects /\ accepted' \in SUBSET Objects /\ refusals' \in Nat
           /\ registered \subseteq registered' /\ accepted' \subseteq accepted \cup {l}
           /\ l \in accepted' => l \in registered' \/ (l \in accepted /\ ~Accepted(proxy))
           /\ Accepted(proxy) => l \in registered'
BY DEF Answer, Accepted, TablesTyped, ServiceTyped

\* SendSubscription keeps the invariant: what the service accepts, it knows.
LEMMA SendSubscriptionStep ==
    ASSUME ClientInv, NEW t \in Thread, SendSubscription(t)
    PROVE  ClientInv'
<1> USE DEF ClientInv
<1> DEFINE l == call[t].listener
<1>1. /\ call[t].at \in {"send", "update"} /\ l \in Objects /\ call[t] # NoCall
      /\ call[t].at = "send" => call[t].sub \in Subscriber
  BY DEF SendSubscription, CallsTyped, CallTyped, NoCall
<1>2. UNCHANGED <<eventListeners, subscriberOf, stopped, serviceVars, resubscribeVars, deliveryVars>>
  BY DEF SendSubscription
<1>3. /\ registered' \in SUBSET Objects /\ accepted' \in SUBSET Objects /\ refusals' \in Nat
      /\ registered \subseteq registered' /\ accepted' \subseteq accepted \cup {l}
      /\ l \in accepted' => l \in registered' \/ l \in accepted
  BY <1>1, AnswerEffect DEF SendSubscription
<1>4. TablesTyped' /\ Objects' = Objects /\ Known' = Known
  BY <1>2, <1>3, TablesFrame DEF TablesTyped, serviceVars
<1>5. QueuesTyped'
  BY <1>2, <1>4 DEF QueuesTyped, deliveryVars
<1>7. ServiceTyped' /\ NoticesOK'
  BY <1>2, <1>3, <1>4, ServiceFrame DEF resubscribeVars
<1>8. PICK x : /\ call' = [call EXCEPT ![t] = x]
               /\ \/ x = NoCall
                  \/ /\ call[t].at = "send"
                     /\ x = [at |-> "undo", sub |-> call[t].sub, listener |-> call[t].listener]
  <2>1. call' = [call EXCEPT ![t] = IF call[t].at = "update" \/ Accepted(call[t].proxy) THEN NoCall
                     ELSE [at |-> "undo", sub |-> call[t].sub, listener |-> call[t].listener]]
    BY DEF SendSubscription, CallsTyped
  <2> QED
    BY <1>1, <2>1
<1>9. CallsTyped' /\ StoppingIsForgotten'
  <2>1. CallTyped(x, Objects') /\ x.at # "stop"
    BY <1>1, <1>4, <1>8 DEF CallTyped, NoCall
  <2> QED
    BY <1>2, <1>4, <1>8, <2>1, CallGoesOn
<1>10. ListenersBounded' /\ KnownIsLive'
  BY <1>2, <1>4, BoundedFrame, LiveFrame
<1>11. UnsubscribedIsSilent'
  <2>1. \A u \in Thread : call[u].at = "delete" => call'[u] = call[u]
    BY <1>1, <1>8 DEF CallsTyped
  <2> QED
    BY <1>2, <2>1, SilentFrame DEF deliveryVars
<1>12. OwedIsComing'
  <2>1. Owed' \subseteq Owed
    BY <1>2, <1>3, <1>4 DEF Owed, serviceVars
  <2> QED
    BY <1>2, <2>1, OwedFrame DEF serviceVars, resubscribeVars
<1> QED
  BY <1>4, <1>5, <1>7, <1>9, <1>10, <1>11, <1>12

\* Erasing a subscriber's entry and going on to stop its listener: nobody else
\* can reach that listener through the library.
LEMMA EraseStep ==
    ASSUME ClientInv, NEW t \in Thread, NEW s \in Subscriber, call[t].at # "delete",
           eventListeners' = Erased(s), eventListeners[s] # 0,
           call' = [call EXCEPT ![t] = [at |-> "stop", listener |-> eventListeners[s]]],
           registered' \in {registered, registered \ {eventListeners[s]}},
           UNCHANGED <<subscriberOf, stopped, serviceVars, refusals, accepted, resubscribeVars,
                       deliveryVars>>
    PROVE  ClientInv'
<1> USE DEF ClientInv
<1> DEFINE l == eventListeners[s]
           x == [at |-> "stop", listener |-> l]
<1>1. /\ Objects' = Objects /\ Known' = Known \ {l}
      /\ eventListeners' \in [Subscriber -> {0} \cup Objects']
      /\ \A q \in Subscriber : eventListeners'[q] # 0 => subscriberOf'[eventListeners'[q]] = q
  BY ErasedEffect DEF Erased
<1>2. l \in Objects
  BY DEF TablesTyped
<1>3. TablesTyped'
  BY <1>1 DEF TablesTyped, serviceVars
<1>4. QueuesTyped'
  BY <1>1 DEF QueuesTyped, deliveryVars
<1>5. ServiceTyped' /\ NoticesOK'
  BY <1>1, ServiceFrame DEF ServiceTyped, resubscribeVars
<1>6. CallsTyped' /\ StoppingIsForgotten'
  <2>1. CallTyped(x, Objects') /\ x.at = "stop" /\ x.listener \notin Known'
    BY <1>1, <1>2 DEF CallTyped
  <2> QED
    BY <1>1, <2>1, CallGoesOn
<1>7. ListenersBounded' /\ KnownIsLive'
  BY <1>1, BoundedFrame, LiveFrame
<1>8. UnsubscribedIsSilent'
  <2>1. \A u \in Thread : call[u].at = "delete" => call'[u] = call[u]
    BY DEF CallsTyped
  <2> QED
    BY <2>1, SilentFrame DEF deliveryVars
<1>9. OwedIsComing'
  <2>1. Owed' \subseteq Owed
    BY <1>1 DEF Owed, serviceVars
  <2> QED
    BY <2>1, OwedFrame DEF serviceVars, resubscribeVars
<1> QED
  BY <1>3, <1>4, <1>5, <1>6, <1>7, <1>8, <1>9

\* After a failed subscription.
LEMMA UndoSubscriptionStep ==
    ASSUME ClientInv, NEW t \in Thread, UndoSubscription(t)
    PROVE  ClientInv'
<1> DEFINE s == call[t].sub
<1>1. call[t].at = "undo" /\ s \in Subscriber
  BY DEF UndoSubscription, ClientInv, CallsTyped, CallTyped, NoCall
<1>2. /\ eventListeners' = Erased(s)
      /\ UNCHANGED <<subscriberOf, stopped, serviceVars, registered, refusals, accepted,
                     resubscribeVars, deliveryVars>>
  BY DEF UndoSubscription
<1>3. CASE eventListeners[s] = 0
  <2>1. eventListeners' = eventListeners
    BY <1>1, <1>2, <1>3 DEF Erased, ClientInv, TablesTyped
  <2>2. call' = [call EXCEPT ![t] = NoCall]
    BY <1>3 DEF UndoSubscription
  <2>3. CallTyped(NoCall, Objects) /\ NoCall.at # "stop"
    BY DEF CallTyped, NoCall
  <2> QED
    BY <1>1, <1>2, <2>1, <2>2, <2>3, CallOnlyStep
<1>4. CASE eventListeners[s] # 0
  <2>1. call' = [call EXCEPT ![t] = [at |-> "stop", listener |-> eventListeners[s]]]
    BY <1>4 DEF UndoSubscription
  <2> QED
    BY <1>1, <1>2, <1>4, <2>1, EraseStep
<1> QED
  BY <1>3, <1>4

\* An unsubscription, with the service's answer or without.
LEMMA SendUnsubscriptionStep ==
    ASSUME ClientInv, NEW t \in Thread, SendUnsubscription(t)
    PROVE  ClientInv'
<1> DEFINE s == call[t].sub
           l == eventListeners[s]
<1>1. call[t].at = "unsubscribe" /\ s \in Subscriber
  BY DEF SendUnsubscription, ClientInv, CallsTyped, CallTyped, NoCall
<1>2. UNCHANGED <<subscriberOf, stopped, serviceVars, refusals, accepted, resubscribeVars, deliveryVars>>
  BY DEF SendUnsubscription
<1>3. CASE l # 0 /\ call[t].proxy = service
  <2>1. /\ registered' = registered \ {l} /\ eventListeners' = Erased(s)
        /\ call' = [call EXCEPT ![t] = [at |-> "stop", listener |-> l]]
    BY <1>3 DEF SendUnsubscription
  <2> QED
    BY <1>1, <1>2, <1>3, <2>1, EraseStep
<1>4. CASE ~(l # 0 /\ call[t].proxy = service)
  <2>1. call' = [call EXCEPT ![t] = NoCall] /\ UNCHANGED <<registered, eventListeners>>
    BY <1>4 DEF SendUnsubscription
  <2>2. CallTyped(NoCall, Objects) /\ NoCall.at # "stop"
    BY DEF CallTyped, NoCall
  <2> QED
    BY <1>1, <1>2, <2>1, <2>2, CallOnlyStep
<1> QED
  BY <1>3, <1>4

\* Stop, which nobody can undo, is on a listener the library has forgotten.
LEMMA StopStep ==
    ASSUME ClientInv, NEW t \in Thread, Stop(t)
    PROVE  ClientInv'
<1> USE DEF ClientInv
<1> DEFINE l == call[t].listener
           x == [at |-> "delete", listener |-> l]
<1>1. /\ call[t].at = "stop" /\ l \in Objects /\ l \notin Known
      /\ call[t] = [at |-> "stop", listener |-> l]
  BY DEF Stop, CallsTyped, CallTyped, NoCall, StoppingIsForgotten
<1>2. /\ stopped' = stopped \cup {l}
      /\ UNCHANGED <<eventListeners, subscriberOf, serviceVars, registered, refusals, accepted,
                     resubscribeVars, deliveryVars>>
  BY DEF Stop
<1>3. call' = [call EXCEPT ![t] = x]
  <2>1. [call[t] EXCEPT !.at = "delete"] = x
    BY <1>1
  <2>2. call' = [call EXCEPT ![t] = [call[t] EXCEPT !.at = "delete"]]
    BY DEF Stop, CallsTyped
  <2> QED
    BY <2>1, <2>2
<1>4. Objects' = Objects /\ Known' = Known
  BY <1>2 DEF Objects, Known
<1>5. TablesTyped' /\ QueuesTyped'
  BY <1>1, <1>2, <1>4 DEF TablesTyped, QueuesTyped, deliveryVars, serviceVars
<1>6. ServiceTyped' /\ NoticesOK'
  BY <1>2, <1>4, ServiceFrame DEF ServiceTyped, resubscribeVars
<1>7. CallsTyped' /\ StoppingIsForgotten'
  <2>1. CallTyped(x, Objects') /\ x.at # "stop" 
    BY <1>1, <1>4 DEF CallTyped
  <2> QED
    BY <1>2, <1>3, <1>4, <2>1, CallGoesOn
<1>8. ListenersBounded'
  BY <1>4, BoundedFrame
<1>9. KnownIsLive'
  BY <1>1, <1>2, <1>4 DEF KnownIsLive
<1>10. UnsubscribedIsSilent'
  <2>1. call'[t] = x /\ \A u \in Thread : call[u].at = "delete" => call'[u] = call[u]
    BY <1>1, <1>3 DEF CallsTyped
  <2>2. \A k : k = l => Stopping(k)'
    BY <2>1 DEF Stopping
  <2>3. \A k \in stopped : Stopping(k) => Stopping(k)'
    BY <2>1 DEF Stopping
  <2>4. UNCHANGED <<running, subscriberOf>>
    BY <1>2 DEF deliveryVars
  <2>5. \A k \in stopped : running[k] = 0 \/ subscriberOf[k] \in Handler \/ Stopping(k)'
    BY <2>3 DEF UnsubscribedIsSilent
  <2>6. \A k \in stopped' : running'[k] = 0 \/ subscriberOf'[k] \in Handler \/ Stopping(k)'
    BY <1>2, <2>2, <2>4, <2>5
  <2> QED
    BY <2>6 DEF UnsubscribedIsSilent
<1>11. OwedIsComing'
  BY <1>2, <1>4, OwedFrame DEF Owed, serviceVars, resubscribeVars
<1> QED
  BY <1>5, <1>6, <1>7, <1>8, <1>9, <1>10, <1>11

\* Stop returns when the task that runs is over, unless the main handler has it.
LEMMA EndStopStep ==
    ASSUME ClientInv, NEW t \in Thread, EndStop(t)
    PROVE  ClientInv'
<1> USE DEF ClientInv
<1> DEFINE l == call[t].listener
<1>1. call[t].at = "delete" /\ l \in Objects
  BY DEF EndStop, CallsTyped, CallTyped, NoCall
<1>2. /\ call' = [call EXCEPT ![t] = NoCall]
      /\ subscriberOf[l] \in Handler \/ running[l] = 0
      /\ tasks' = tasks \/ tasks' = [tasks EXCEPT ![l] = <<>>]
      /\ UNCHANGED <<eventListeners, subscriberOf, stopped, serviceVars, registered, refusals,
                     accepted, resubscribeVars, running, events>>
  BY DEF EndStop, DeleteQueue
<1>3. TablesTyped' /\ Objects' = Objects /\ Known' = Known
  BY <1>2, TablesFrame DEF TablesTyped, serviceVars
<1>4. QueuesTyped'
  <2>1. tasks \in [Objects -> Seq(Nat)] /\ <<>> \in Seq(Nat)
    BY DEF QueuesTyped
  <2>2. tasks' \in [Objects -> Seq(Nat)]
    BY <1>1, <1>2, <2>1
  <2> QED
    BY <1>2, <1>3, <2>2 DEF QueuesTyped
<1>5. ServiceTyped' /\ NoticesOK'
  BY <1>2, <1>3, ServiceFrame DEF ServiceTyped, resubscribeVars
<1>6. CallsTyped' /\ StoppingIsForgotten'
  <2>1. CallTyped(NoCall, Objects') /\ NoCall.at # "stop"
    BY DEF CallTyped, NoCall
  <2> QED
    BY <1>2, <1>3, <2>1, CallGoesOn
<1>7. ListenersBounded' /\ KnownIsLive'
  BY <1>2, <1>3, BoundedFrame, LiveFrame
<1>8. UnsubscribedIsSilent'
  <2>1. \A u \in Thread : u # t => call'[u] = call[u]
    BY <1>2 DEF CallsTyped
  <2>2. \A k \in stopped : k # l /\ Stopping(k) => Stopping(k)'
    BY <2>1 DEF Stopping
  <2> QED
    BY <1>2, <2>2 DEF UnsubscribedIsSilent
<1>9. OwedIsComing'
  BY <1>2, <1>3, OwedFrame DEF Owed, serviceVars, resubscribeVars
<1> QED
  BY <1>3, <1>4, <1>5, <1>6, <1>7, <1>8, <1>9

(***************************************************************************)
(* The service dies and comes back                                         *)
(***************************************************************************)

\* What neither a thread nor a queue takes part in.
LEMMA LibraryFrame ==
    ASSUME ClientInv, UNCHANGED <<eventListeners, subscriberOf, stopped, call, accepted, deliveryVars>>,
           registered' \in SUBSET Objects, unseen' \in SUBSET Objects
    PROVE  /\ TablesTyped' /\ QueuesTyped' /\ CallsTyped' /\ ListenersBounded'
           /\ StoppingIsForgotten' /\ KnownIsLive' /\ UnsubscribedIsSilent'
           /\ Objects' = Objects /\ Known' = Known
<1> USE DEF ClientInv
<1>1. TablesTyped' /\ Objects' = Objects /\ Known' = Known
  BY TablesFrame DEF TablesTyped
<1>2. QueuesTyped'
  BY <1>1 DEF QueuesTyped, deliveryVars
<1>3. CallsTyped' /\ StoppingIsForgotten'
  BY <1>1, CallsFrame
<1>4. ListenersBounded' /\ KnownIsLive'
  BY <1>1, BoundedFrame, LiveFrame
<1>5. UnsubscribedIsSilent'
  BY SilentFrame DEF deliveryVars
<1> QED
  BY <1>1, <1>2, <1>3, <1>4, <1>5

\* The notices go on alternating when one is sent, and when one arrives.
LEMMA NoticeSent ==
    ASSUME NEW q \in Seq({"remove", "add"}), NEW e \in {"remove", "add"},
           \A i \in 1..(Len(q) - 1) : q[i] # q[i + 1], q # <<>> => q[Len(q)] # e
    PROVE  /\ Append(q, e) \in Seq({"remove", "add"}) /\ Append(q, e) # <<>>
           /\ Len(Append(q, e)) = 1 => q = <<>>
           /\ \A i \in 1..(Len(Append(q, e)) - 1) : Append(q, e)[i] # Append(q, e)[i + 1]
           /\ Append(q, e)[Len(Append(q, e))] = e
           /\ Append(q, e)[1] = IF q = <<>> THEN e ELSE q[1]
<1>1. Len(q) \in Nat /\ Len(Append(q, e)) = Len(q) + 1 /\ Append(q, e) \in Seq({"remove", "add"})
  OBVIOUS
<1>2. /\ \A i \in 1..Len(q) : Append(q, e)[i] = q[i]
      /\ Append(q, e)[Len(q) + 1] = e
  OBVIOUS
<1>3. \A i \in 1..(Len(Append(q, e)) - 1) : Append(q, e)[i] # Append(q, e)[i + 1]
  <2> SUFFICES ASSUME NEW i \in 1..Len(q) PROVE Append(q, e)[i] # Append(q, e)[i + 1]
    BY <1>1
  <2>1. CASE i = Len(q)
    BY <1>1, <1>2, <2>1
  <2>2. CASE i # Len(q)
    <3>1. i \in 1..(Len(q) - 1) /\ i + 1 \in 1..Len(q)
      BY <1>1, <2>2
    <3> QED
      BY <1>2, <3>1
  <2> QED
    BY <2>1, <2>2
<1>4. Append(q, e)[1] = IF q = <<>> THEN e ELSE q[1]
  <2>1. CASE q = <<>>
    BY <1>2, <2>1
  <2>2. CASE q # <<>>
    BY <1>1, <1>2, <2>2
  <2> QED
    BY <2>1, <2>2
<1>5. Append(q, e) # <<>>
  <2>1. Len(Append(q, e)) # 0
    BY <1>1
  <2> QED
    BY <1>1, <2>1, EmptySeq
<1>6. Append(q, e)[Len(Append(q, e))] = e
  BY <1>1, <1>2
<1>7. Len(Append(q, e)) = 1 => q = <<>>
  BY <1>1, EmptySeq
<1> QED
  BY <1>1, <1>3, <1>4, <1>5, <1>6, <1>7

\* The notices go on alternating when one arrives.
LEMMA NoticeTaken ==
    ASSUME NEW q \in Seq({"remove", "add"}), q # <<>>,
           \A i \in 1..(Len(q) - 1) : q[i] # q[i + 1]
    PROVE  /\ Tail(q) \in Seq({"remove", "add"}) /\ Head(q) = q[1]
           /\ \A i \in 1..(Len(Tail(q)) - 1) : Tail(q)[i] # Tail(q)[i + 1]
           /\ Tail(q) # <<>> => Tail(q)[Len(Tail(q))] = q[Len(q)] /\ Tail(q)[1] # Head(q)
           /\ Tail(q) = <<>> => Len(q) = 1 /\ q[Len(q)] = Head(q)
<1>1. /\ Len(q) \in Nat \ {0} /\ Len(Tail(q)) = Len(q) - 1 /\ Head(q) = q[1]
      /\ Tail(q) \in Seq({"remove", "add"})
  OBVIOUS
<1>2. \A i \in 1..(Len(q) - 1) : Tail(q)[i] = q[i + 1]
  OBVIOUS
<1>3. \A i \in 1..(Len(Tail(q)) - 1) : Tail(q)[i] # Tail(q)[i + 1]
  <2> SUFFICES ASSUME NEW i \in 1..(Len(q) - 2) PROVE Tail(q)[i] # Tail(q)[i + 1]
    BY <1>1
  <2>1. i \in 1..(Len(q) - 1) /\ i + 1 \in 1..(Len(q) - 1)
    BY <1>1
  <2> QED
    BY <1>2, <2>1
<1>4. Tail(q) # <<>> => Tail(q)[Len(Tail(q))] = q[Len(q)] /\ Tail(q)[1] # Head(q)
  <2> SUFFICES ASSUME Tail(q) # <<>>
               PROVE  Tail(q)[Len(Tail(q))] = q[Len(q)] /\ Tail(q)[1] # Head(q)
    OBVIOUS
  <2>1. Len(q) > 1
    BY <1>1
  <2> QED
    BY <1>1, <1>2, <2>1
<1>5. Tail(q) = <<>> => Len(q) = 1 /\ q[Len(q)] = Head(q)
  <2> SUFFICES ASSUME Tail(q) = <<>> PROVE Len(q) = 1 /\ q[Len(q)] = Head(q)
    OBVIOUS
  <2>1. Len(Tail(q)) = 0
    BY <1>1, EmptySeq
  <2>2. Len(q) = 1
    BY <1>1, <2>1
  <2> QED
    BY <1>1, <2>2
<1> QED
  BY <1>1, <1>3, <1>4, <1>5

\* The service dies: a listener owed a subscription waits for its return.
LEMMA ServiceDiesStep == ClientInv /\ ServiceDies => ClientInv'
<1> SUFFICES ASSUME ClientInv, ServiceDies PROVE ClientInv'
  OBVIOUS
<1> USE DEF ClientInv
<1>1. /\ service # 0 /\ deaths' = deaths + 1 /\ service' = 0 /\ registered' = {}
      /\ unseen' = (IF watching THEN {} ELSE unseen \cup registered)
      /\ notices' = (IF watching THEN Append(notices, "remove") ELSE notices)
      /\ UNCHANGED <<eventListeners, subscriberOf, stopped, call, refusals, accepted, watching,
                     isSAOffline, resubscribeVars, deliveryVars>>
  BY DEF ServiceDies, Tell
<1>2. /\ TablesTyped' /\ QueuesTyped' /\ CallsTyped' /\ ListenersBounded'
      /\ StoppingIsForgotten' /\ KnownIsLive' /\ UnsubscribedIsSilent'
      /\ Objects' = Objects /\ Known' = Known
  BY <1>1, LibraryFrame DEF TablesTyped
<1>3. CASE ~watching
  <2>1. notices = <<>> /\ notices' = <<>> /\ resubscribe = 0 /\ resubscribing = Idle
    BY <1>1, <1>3 DEF NoticesOK
  <2>2. ServiceTyped'
    BY <1>1, <1>2, <2>1 DEF ServiceTyped, resubscribeVars
  <2>3. NoticesOK'
    BY <1>1, <1>3, <2>1 DEF NoticesOK, resubscribeVars
  <2>4. Owed' = {}
    BY <1>1, <1>2, <1>3 DEF OwedIsComing, Owed
  <2>5. OwedIsComing'
    BY <2>4 DEF OwedIsComing
  <2> QED
    BY <1>2, <2>2, <2>3, <2>5
<1>4. CASE watching
  <2>1. notices \in Seq({"remove", "add"}) /\ notices' = Append(notices, "remove")
    BY <1>1, <1>4 DEF ServiceTyped
  <2>2. /\ notices # <<>> => notices[Len(notices)] # "remove"
        /\ \A i \in 1..(Len(notices) - 1) : notices[i] # notices[i + 1]
    BY <1>1 DEF NoticesOK
  <2>3. /\ notices' \in Seq({"remove", "add"}) /\ notices' # <<>>
        /\ \A i \in 1..(Len(notices') - 1) : notices'[i] # notices'[i + 1]
        /\ notices'[Len(notices')] = "remove"
    BY <2>1, <2>2, NoticeSent
  <2>4. ServiceTyped'
    BY <1>1, <1>2, <2>3 DEF ServiceTyped, resubscribeVars
  <2>5. NoticesOK'
    BY <1>1, <1>4, <2>3 DEF NoticesOK
  <2>6. OwedIsComing'
    BY <1>1, <1>4, <2>3 DEF OwedIsComing, AddIsNext
  <2> QED
    BY <1>2, <2>4, <2>5, <2>6
<1> QED
  BY <1>3, <1>4

\* The service returns: whoever is owed a subscription has a notice coming.
LEMMA ServiceReturnsStep == ClientInv /\ ServiceReturns => ClientInv'
<1> SUFFICES ASSUME ClientInv, ServiceReturns PROVE ClientInv'
  OBVIOUS
<1> USE DEF ClientInv
<1>1. /\ service = 0 /\ service' = deaths + 1
      /\ notices' = (IF watching THEN Append(notices, "add") ELSE notices)
      /\ UNCHANGED <<eventListeners, subscriberOf, stopped, call, deaths, registered, refusals,
                     accepted, unseen, watching, isSAOffline, resubscribeVars, deliveryVars>>
  BY DEF ServiceReturns, Tell
<1>2. /\ TablesTyped' /\ QueuesTyped' /\ CallsTyped' /\ ListenersBounded'
      /\ StoppingIsForgotten' /\ KnownIsLive' /\ UnsubscribedIsSilent'
      /\ Objects' = Objects /\ Known' = Known
  BY <1>1, LibraryFrame DEF TablesTyped
<1>3. deaths \in Nat /\ service' # 0
  BY <1>1 DEF ServiceTyped
<1>4. CASE ~watching
  <2>1. notices' = <<>> /\ Owed' = {}
    BY <1>1, <1>2, <1>4 DEF NoticesOK, OwedIsComing, Owed
  <2>2. ServiceTyped'
    BY <1>1, <1>2, <2>1 DEF ServiceTyped, resubscribeVars
  <2>3. NoticesOK'
    BY <1>1, <1>3, <1>4, <2>1 DEF NoticesOK, resubscribeVars
  <2>4. OwedIsComing'
    BY <2>1 DEF OwedIsComing
  <2> QED
    BY <1>2, <2>2, <2>3, <2>4
<1>5. CASE watching
  <2>1. notices' = Append(notices, "add") /\ notices \in Seq({"remove", "add"})
    BY <1>1, <1>5 DEF ServiceTyped
  <2>2. /\ notices # <<>> => notices[Len(notices)] # "add"
        /\ \A i \in 1..(Len(notices) - 1) : notices[i] # notices[i + 1]
    BY <1>1 DEF NoticesOK
  <2>3. /\ notices' \in Seq({"remove", "add"}) /\ notices' # <<>>
        /\ \A i \in 1..(Len(notices') - 1) : notices'[i] # notices'[i + 1]
        /\ notices'[Len(notices')] = "add"
        /\ Len(notices') = 1 => notices = <<>>
    BY <2>1, <2>2, NoticeSent
  <2>4. ServiceTyped'
    BY <1>1, <1>2, <1>3, <2>3 DEF ServiceTyped, resubscribeVars
  <2>5. NoticesOK'
    BY <1>1, <1>3, <1>5, <2>3 DEF NoticesOK
  <2>6. OwedIsComing'
    <3>1. Owed' = Owed
      BY <1>1, <1>2 DEF Owed
    <3> QED
      BY <1>1, <1>5, <2>3, <3>1 DEF OwedIsComing, AddIsNext
  <2> QED
    BY <1>2, <2>4, <2>5, <2>6
<1> QED
  BY <1>4, <1>5

\* The notice of a death is never the last one while the service is there.
LEMMA OnRemoveStep == ClientInv /\ OnRemoveSystemAbility => ClientInv'
<1> SUFFICES ASSUME ClientInv, OnRemoveSystemAbility PROVE ClientInv'
  OBVIOUS
<1> USE DEF ClientInv
<1>1. /\ notices # <<>> /\ Head(notices) = "remove" /\ notices' = Tail(notices) /\ isSAOffline' = TRUE
      /\ UNCHANGED <<eventListeners, subscriberOf, stopped, call, service, deaths, registered,
                     refusals, accepted, unseen, watching, resubscribeVars, deliveryVars>>
  BY DEF OnRemoveSystemAbility
<1>2. /\ TablesTyped' /\ QueuesTyped' /\ CallsTyped' /\ ListenersBounded'
      /\ StoppingIsForgotten' /\ KnownIsLive' /\ UnsubscribedIsSilent'
      /\ Objects' = Objects /\ Known' = Known
  BY <1>1, LibraryFrame DEF TablesTyped
<1>3. /\ notices \in Seq({"remove", "add"}) /\ watching
      /\ \A i \in 1..(Len(notices) - 1) : notices[i] # notices[i + 1]
      /\ notices[Len(notices)] = IF service = 0 THEN "remove" ELSE "add"
  BY <1>1 DEF ServiceTyped, NoticesOK
<1>4. /\ notices' \in Seq({"remove", "add"})
      /\ \A i \in 1..(Len(notices') - 1) : notices'[i] # notices'[i + 1]
      /\ notices' # <<>> => notices'[Len(notices')] = notices[Len(notices)]
      /\ notices' = <<>> => service = 0
  BY <1>1, <1>3, NoticeTaken
<1>5. ServiceTyped'
  BY <1>1, <1>2, <1>4 DEF ServiceTyped, resubscribeVars
<1>6. NoticesOK'
  BY <1>1, <1>3, <1>4 DEF NoticesOK
<1>7. OwedIsComing'
  BY <1>1, <1>3, <1>4 DEF OwedIsComing
<1> QED
  BY <1>2, <1>5, <1>6, <1>7

\* The notice of a return, if it is the last, finds isSAOffline set for whoever
\* is owed a subscription, and leads to a resubscription.
LEMMA OnAddStep == ClientInv /\ OnAddSystemAbility => ClientInv'
<1> SUFFICES ASSUME ClientInv, OnAddSystemAbility PROVE ClientInv'
  OBVIOUS
<1> USE DEF ClientInv
<1>0. /\ notices # <<>> /\ Head(notices) = "add" /\ notices' = Tail(notices)
      /\ resubscribe' = (IF isSAOffline /\ service # 0 THEN resubscribe + 1 ELSE resubscribe)
      /\ isSAOffline' = (isSAOffline /\ service = 0)
      /\ UNCHANGED <<eventListeners, subscriberOf, stopped, call, service, deaths, registered,
                     refusals, accepted, unseen, watching, resubscribing, deliveryVars>>
  BY DEF OnAddSystemAbility, GetCommonEventProxy, OfflineAfterAdd
<1>1. /\ TablesTyped' /\ QueuesTyped' /\ CallsTyped' /\ ListenersBounded'
      /\ StoppingIsForgotten' /\ KnownIsLive' /\ UnsubscribedIsSilent'
      /\ Objects' = Objects /\ Known' = Known
  BY <1>0, LibraryFrame DEF TablesTyped
<1>2. /\ notices \in Seq({"remove", "add"}) /\ watching
      /\ \A i \in 1..(Len(notices) - 1) : notices[i] # notices[i + 1]
      /\ notices[Len(notices)] = IF service = 0 THEN "remove" ELSE "add"
  BY <1>0 DEF ServiceTyped, NoticesOK
<1>3. /\ notices' \in Seq({"remove", "add"}) /\ Head(notices) = notices[1]
      /\ \A i \in 1..(Len(notices') - 1) : notices'[i] # notices'[i + 1]
      /\ notices' # <<>> => notices'[Len(notices')] = notices[Len(notices)] /\ notices'[1] # "add"
      /\ notices' = <<>> => service # 0 /\ Len(notices) = 1
  BY <1>0, <1>2, NoticeTaken
<1>4. isSAOffline \in BOOLEAN /\ isSAOffline' \in BOOLEAN
  BY <1>0, Zenon DEF ServiceTyped
<1>5. resubscribe \in Nat /\ resubscribe' \in Nat
      /\ (isSAOffline /\ service # 0 => resubscribe' > 0)
  BY <1>0 DEF ServiceTyped
<1>6. ServiceTyped'
  BY <1>0, <1>1, <1>3, <1>4, <1>5 DEF ServiceTyped
<1>7. NoticesOK'
  BY <1>0, <1>2, <1>3 DEF NoticesOK
<1>8. OwedIsComing'
  <2>1. Owed' = Owed
    BY <1>0, <1>1 DEF Owed
  <2>2. ~AddIsNext'
    <3>1. CASE notices' = <<>>
      <4>1. Len(notices') = 0 /\ service' # 0
        BY <1>0, <1>3, <3>1
      <4> QED
        BY <4>1 DEF AddIsNext
    <3>2. CASE notices' # <<>>
      BY <1>3, <3>2 DEF AddIsNext
    <3> QED
      BY <3>1, <3>2
  <2>3. Owed # {} /\ notices' = <<>> => service # 0 /\ isSAOffline
    BY <1>0, <1>3 DEF OwedIsComing, AddIsNext
  <2> QED
    BY <1>0, <1>2, <1>5, <2>1, <2>2, <2>3 DEF OwedIsComing
<1> QED
  BY <1>1, <1>6, <1>7, <1>8

\* A task of the resubscription takes the proxy, then the lock and with it all
\* the listeners there are.
LEMMA ResubscribeStep == ClientInv /\ (Resubscribe \/ ResubscribeLocked) => ClientInv'
<1> SUFFICES ASSUME ClientInv, Resubscribe \/ ResubscribeLocked PROVE ClientInv'
  OBVIOUS
<1> USE DEF ClientInv
<1>0. /\ UNCHANGED <<eventListeners, subscriberOf, stopped, call, serviceVars, registered,
                     refusals, accepted, deliveryVars>>
  BY DEF Resubscribe, ResubscribeLocked
<1>1. /\ TablesTyped' /\ QueuesTyped' /\ CallsTyped' /\ ListenersBounded'
      /\ StoppingIsForgotten' /\ KnownIsLive' /\ UnsubscribedIsSilent'
      /\ Objects' = Objects /\ Known' = Known
  BY <1>0, LibraryFrame DEF TablesTyped, serviceVars
<1>2. Known \subseteq Objects /\ service \in Nat /\ resubscribe \in Nat
      /\ resubscribing \in [proxy : Nat, todo : SUBSET Objects]
  BY KnownFinite DEF ServiceTyped
<1>3. watching
  BY DEF NoticesOK, Resubscribe, ResubscribeLocked, Idle
<1>4. CASE Resubscribe
  <2>1. /\ resubscribe > 0 /\ resubscribe' = resubscribe - 1
        /\ resubscribing' = [proxy |-> service, todo |-> {}]
    BY <1>4 DEF Resubscribe, GetCommonEventProxy
  <2>2. ServiceTyped'
    BY <1>0, <1>1, <1>2, <2>1 DEF ServiceTyped, serviceVars
  <2>3. NoticesOK'
    BY <1>0, <1>3 DEF NoticesOK, serviceVars
  <2>4. OwedIsComing'
    <3>1. Owed' = Owed /\ AddIsNext' = AddIsNext
      BY <1>0, <1>1 DEF Owed, AddIsNext, serviceVars
    <3> QED
      BY <1>0, <1>3, <2>1, <3>1 DEF OwedIsComing, Free, serviceVars
  <2> QED
    BY <1>1, <2>2, <2>3, <2>4
<1>5. CASE ResubscribeLocked
  <2>1. /\ resubscribing.proxy # 0 /\ resubscribe' = resubscribe
        /\ Known # {} => resubscribing' = [resubscribing EXCEPT !.todo = Known]
        /\ Known = {} => resubscribing' = Idle
    BY <1>5 DEF ResubscribeLocked
  <2>2. Known # {} => /\ resubscribing'.proxy # 0 /\ resubscribing'.todo = Known
                      /\ resubscribing' \in [proxy : Nat, todo : SUBSET Objects]
    BY <1>2, <2>1
  <2>3. ServiceTyped'
    BY <1>0, <1>1, <1>2, <2>1, <2>2 DEF ServiceTyped, serviceVars, Idle
  <2>4. NoticesOK'
    BY <1>0, <1>3 DEF NoticesOK, serviceVars
  <2>5. OwedIsComing'
    <3>1. Owed' = Owed /\ AddIsNext' = AddIsNext /\ Owed \subseteq Known
      BY <1>0, <1>1 DEF Owed, AddIsNext, serviceVars
    <3> QED
      BY <1>0, <1>3, <2>2, <3>1 DEF OwedIsComing, serviceVars
  <2> QED
    BY <1>1, <2>3, <2>4, <2>5
<1> QED
  BY <1>4, <1>5

\* One listener is subscribed again, or forgotten if that fails; the others
\* still have their turn.
LEMMA ResubscribeOneStep ==
    ASSUME ClientInv, NEW l \in Listener, ResubscribeOne(l)
    PROVE  ClientInv'
<1> USE DEF ClientInv
<1> DEFINE s == subscriberOf[l]
           todo == resubscribing.todo
<1>1. /\ l \in todo /\ l \in Objects /\ s \in Subscriber
      /\ resubscribing \in [proxy : Nat, todo : SUBSET Objects]
  BY DEF ResubscribeOne, ServiceTyped, TablesTyped, Objects
<1>2. UNCHANGED <<subscriberOf, stopped, call, serviceVars, resubscribe, deliveryVars>>
  BY DEF ResubscribeOne
<1>3. /\ registered' \in SUBSET Objects /\ accepted' \in SUBSET Objects /\ refusals' \in Nat
      /\ registered \subseteq registered' /\ accepted' \subseteq accepted \cup {l}
      /\ Accepted(resubscribing.proxy) => l \in registered'
  BY <1>1, AnswerEffect DEF ResubscribeOne
<1>4. /\ Objects' = Objects /\ Known' \subseteq Known
      /\ eventListeners' \in [Subscriber -> {0} \cup Objects']
      /\ \A q \in Subscriber : eventListeners'[q] # 0 => subscriberOf'[eventListeners'[q]] = q
      /\ l \in Known' => l \in registered'
  <2>1. CASE Accepted(resubscribing.proxy)
    <3>1. eventListeners' = eventListeners
      BY <2>1 DEF ResubscribeOne
    <3> QED
      BY <1>2, <1>3, <2>1, <3>1 DEF TablesTyped, Objects, Known
  <2>2. CASE ~Accepted(resubscribing.proxy)
    <3>1. eventListeners' = [eventListeners EXCEPT ![s] = 0]
      BY <2>2 DEF ResubscribeOne, Forgotten
    <3>2. /\ Objects' = Objects /\ Known' = Known \ {eventListeners[s]}
          /\ eventListeners' \in [Subscriber -> {0} \cup Objects']
          /\ \A q \in Subscriber : eventListeners'[q] # 0 => subscriberOf'[eventListeners'[q]] = q
      BY <1>1, <1>2, <3>1, ErasedEffect
    <3>3. l \in Known => l = eventListeners[s]
      BY DEF Known, TablesTyped
    <3> QED
      BY <3>2, <3>3
  <2> QED
    BY <2>1, <2>2
<1>5. TablesTyped' /\ QueuesTyped'
  BY <1>2, <1>3, <1>4 DEF TablesTyped, QueuesTyped, deliveryVars, serviceVars
<1>6. /\ resubscribing' \in [proxy : Nat, todo : SUBSET Objects]
      /\ todo # {l} => resubscribing'.proxy = resubscribing.proxy /\ resubscribing'.todo = todo \ {l}
  <2>1. CASE todo = {l}
    BY <2>1 DEF ResubscribeOne, Idle
  <2>2. CASE todo # {l}
    BY <1>1, <2>2 DEF ResubscribeOne
  <2> QED
    BY <2>1, <2>2
<1>7. watching
  BY <1>1 DEF NoticesOK, Idle
<1>8. ServiceTyped'
  BY <1>2, <1>3, <1>4, <1>6 DEF ServiceTyped, serviceVars
<1>9. NoticesOK'
  BY <1>2, <1>7 DEF NoticesOK, serviceVars
<1>10. CallsTyped' /\ StoppingIsForgotten'
  BY <1>2, <1>4, CallsFrame
<1>11. ListenersBounded' /\ KnownIsLive'
  BY <1>2, <1>4, BoundedFrame, LiveFrame
<1>12. UnsubscribedIsSilent'
  BY <1>2, SilentFrame DEF deliveryVars
<1>13. OwedIsComing'
  <2>0. Owed' \subseteq Owed /\ AddIsNext' = AddIsNext /\ watching' /\ isSAOffline' = isSAOffline
    BY <1>2, <1>3, <1>4, <1>7 DEF Owed, AddIsNext, serviceVars
  <2> SUFFICES ASSUME NEW k \in Owed'
               PROVE  \/ service' = 0 \/ notices' # <<>> \/ resubscribe' > 0
                      \/ resubscribing'.proxy # 0 /\ k \in resubscribing'.todo
    BY <2>0 DEF OwedIsComing
  <2>1. k \in Owed /\ k # l
    BY <1>3, <1>4, <2>0 DEF Owed
  <2>2. \/ service = 0 \/ notices # <<>> \/ resubscribe > 0
        \/ resubscribing.proxy # 0 /\ k \in todo
    BY <1>1, <2>1 DEF OwedIsComing, Free
  <2>3. k \in todo => todo # {l}
    BY <2>1
  <2> QED
    BY <1>2, <1>6, <2>1, <2>2, <2>3 DEF serviceVars
<1> QED
  BY <1>5, <1>8, <1>9, <1>10, <1>11, <1>12, <1>13

(***************************************************************************)
(* Delivery                                                                *)
(***************************************************************************)

\* Events reach a listener's queue and the subscriber from there; a stopped
\* listener calls nobody.
LEMMA DeliveryStep ==
    ASSUME ClientInv, NEW l \in Listener, NotifyEvent(l) \/ OnReceiveEvent(l) \/ EndReceiveEvent(l)
    PROVE  ClientInv'
<1> USE DEF ClientInv
<1>1. UNCHANGED <<eventListeners, subscriberOf, stopped, call, serviceVars, registered, refusals,
                  accepted, resubscribeVars>>
  BY DEF NotifyEvent, OnReceiveEvent, EndReceiveEvent
<1>2. TablesTyped' /\ Objects' = Objects /\ Known' = Known
  BY <1>1, TablesFrame DEF TablesTyped, serviceVars
<1>3. /\ l \in Objects /\ tasks[l] \in Seq(Nat) /\ tasks \in [Objects -> Seq(Nat)]
      /\ running \in [Objects -> Nat] /\ events \in Nat /\ stopped \subseteq Objects
  <2>1. l \in Objects
    BY DEF TablesTyped, Objects, Listener
  <2> QED
    BY <2>1 DEF TablesTyped, QueuesTyped
<1>4. /\ QueuesTyped'
      /\ \A k \in stopped : running'[k] = running[k] \/ running'[k] = 0
  <2>1. CASE NotifyEvent(l)
    <3>1. Append(tasks[l], events + 1) \in Seq(Nat)
      BY <1>3
    <3>2. tasks' \in [Objects -> Seq(Nat)] /\ running' = running /\ events' = events + 1
      BY <1>3, <2>1, <3>1 DEF NotifyEvent
    <3> QED
      BY <1>2, <1>3, <3>2 DEF QueuesTyped
  <2>2. CASE OnReceiveEvent(l)
    <3>1. Tail(tasks[l]) \in Seq(Nat) /\ Head(tasks[l]) \in Nat
      BY <1>3, <2>2 DEF OnReceiveEvent
    <3>2. /\ tasks' = [tasks EXCEPT ![l] = Tail(tasks[l])]
          /\ running' = [running EXCEPT ![l] = IF l \in stopped THEN 0 ELSE Head(tasks[l])]
          /\ events' = events
      BY <2>2 DEF OnReceiveEvent
    <3>3. tasks' \in [Objects -> Seq(Nat)] /\ running' \in [Objects -> Nat]
      BY <1>3, <3>1, <3>2
    <3>4. \A k \in stopped : running'[k] = running[k] \/ running'[k] = 0
      BY <1>3, <3>2
    <3> QED
      BY <1>2, <1>3, <3>2, <3>3, <3>4 DEF QueuesTyped
  <2>3. CASE EndReceiveEvent(l)
    BY <1>2, <1>3, <2>3 DEF EndReceiveEvent, QueuesTyped
  <2> QED
    BY <2>1, <2>2, <2>3
<1>5. ServiceTyped' /\ NoticesOK'
  BY <1>1, <1>2, ServiceFrame DEF ServiceTyped, resubscribeVars
<1>6. CallsTyped' /\ StoppingIsForgotten'
  BY <1>1, <1>2, CallsFrame
<1>7. ListenersBounded' /\ KnownIsLive'
  BY <1>1, <1>2, BoundedFrame, LiveFrame
<1>8. UnsubscribedIsSilent'
  BY <1>1, <1>4, SilentFrame
<1>9. OwedIsComing'
  BY <1>1, <1>2, OwedFrame DEF Owed, serviceVars, resubscribeVars
<1> QED
  BY <1>2, <1>4, <1>5, <1>6, <1>7, <1>8, <1>9

(***************************************************************************)
(* The theorems                                                            *)
(***************************************************************************)

\* The library starts in a state of the invariant.
LEMMA ClientInvInit == Init => ClientInv
<1> SUFFICES ASSUME Init PROVE ClientInv
  OBVIOUS
<1>1. Objects = {} /\ Known = {}
  BY DEF Init, Objects, Known
<1>2. TablesTyped /\ QueuesTyped /\ ServiceTyped
  <2>1. TablesTyped
    BY <1>1, EmptySeq DEF Init, TablesTyped
  <2>2. QueuesTyped
    BY <1>1 DEF Init, QueuesTyped
  <2>3. ServiceTyped
    <3>1. notices \in Seq({"remove", "add"}) /\ resubscribing \in [proxy : Nat, todo : SUBSET Objects]
      BY EmptySeq DEF Init, Idle
    <3>2. watching \in BOOLEAN /\ isSAOffline \in BOOLEAN
      BY Zenon DEF Init
    <3>3. deaths \in Nat /\ service \in 0..(deaths + 1) /\ refusals \in Nat /\ resubscribe \in Nat
      BY DEF Init
    <3> QED
      BY <3>1, <3>2, <3>3 DEF ServiceTyped
  <2> QED
    BY <2>1, <2>2, <2>3
<1>3. CallsTyped /\ StoppingIsForgotten
  BY DEF Init, CallsTyped, CallTyped, StoppingIsForgotten, NoCall
<1>4. NoticesOK /\ KnownIsLive /\ UnsubscribedIsSilent
  BY DEF Init, NoticesOK, KnownIsLive, UnsubscribedIsSilent, Idle
<1>5. ListenersBounded
  BY <1>1, FS_EmptySet, ClientLibraryAssumption DEF ListenersBounded
<1>6. OwedIsComing
  BY <1>1 DEF OwedIsComing, Owed
<1> QED
  BY <1>2, <1>3, <1>4, <1>5, <1>6 DEF ClientInv

\* ClientInv is inductive.
LEMMA ClientInvStep == ClientInv /\ [Next]_vars => ClientInv'
<1> SUFFICES ASSUME ClientInv, [Next]_vars PROVE ClientInv'
  OBVIOUS
<1>1. CASE \E t \in Thread, s \in Subscriber :
             \/ SubscribeCommonEvent(t, s) \/ Subscribe(t, s) \/ UnSubscribeCommonEvent(t, s)
             \/ PublishParameterCheck(t, s)
  BY <1>1, EnterStep, PublishStep
<1>2. CASE \E t \in Thread :
             \/ SubscribeSAManager(t) \/ CreateCommonEventListener(t) \/ SendSubscription(t)
             \/ UndoSubscription(t) \/ SendUnsubscription(t) \/ Stop(t) \/ EndStop(t)
  BY <1>2, WatchStep, CreateStep, SendSubscriptionStep, UndoSubscriptionStep, SendUnsubscriptionStep, StopStep,
     EndStopStep
<1>3. CASE \/ ServiceDies \/ ServiceReturns \/ OnRemoveSystemAbility \/ OnAddSystemAbility
           \/ Resubscribe \/ ResubscribeLocked
  BY <1>3, ServiceDiesStep, ServiceReturnsStep, OnRemoveStep, OnAddStep, ResubscribeStep
<1>4. CASE \E l \in Listener :
             \/ ResubscribeOne(l) \/ NotifyEvent(l) \/ OnReceiveEvent(l) \/ EndReceiveEvent(l)
  BY <1>4, ResubscribeOneStep, DeliveryStep
<1>5. CASE UNCHANGED vars
  <2> USE DEF ClientInv
  <2>1. /\ TablesTyped' /\ QueuesTyped' /\ CallsTyped' /\ ListenersBounded'
        /\ StoppingIsForgotten' /\ KnownIsLive' /\ UnsubscribedIsSilent'
        /\ Objects' = Objects /\ Known' = Known
    BY <1>5, LibraryFrame DEF vars, deliveryVars, serviceVars, TablesTyped
  <2>2. ServiceTyped' /\ NoticesOK'
    BY <1>5, <2>1, ServiceFrame DEF vars, serviceVars, ServiceTyped
  <2>3. OwedIsComing'
    BY <1>5, <2>1, OwedFrame DEF vars, Owed
  <2> QED
    BY <2>1, <2>2, <2>3
<1> QED
  BY <1>1, <1>2, <1>3, <1>4, <1>5 DEF Next

\* ClientInv holds throughout every behaviour of the library.
THEOREM ClientInvariance == Spec => []ClientInv
<1> QED
  BY ClientInvInit, ClientInvStep, PTL DEF Spec

\* Every state is well typed and a subscriber's listener is its own.
THEOREM TypeCorrect == Spec => []TypeOK
<1>1. ClientInv => TypeOK
  <2> SUFFICES ASSUME ClientInv PROVE TypeOK
    OBVIOUS
  <2>1. Listener = Objects
    BY DEF ClientInv, TablesTyped, Objects, Listener
  <2>2. \A t \in Thread : call[t].at \in {"none", "watchToCreate", "watchToUpdate", "create",
                                          "createOrUpdate", "send", "update", "undo", "unsubscribe",
                                          "stop", "delete"}
    BY DEF ClientInv, CallsTyped, CallTyped, NoCall
  <2> QED
    BY <2>1, <2>2 DEF ClientInv, TablesTyped, QueuesTyped, ServiceTyped, TypeOK
<1> QED
  BY <1>1, ClientInvariance, PTL

\* The library never keeps more listeners than SUBSCRIBER_MAX_SIZE, although the
\* test is for equality and any number of threads create them.
THEOREM ListenersBoundedHolds == Spec => []ListenersBounded
<1>1. ClientInv => ListenersBounded
  BY DEF ClientInv
<1> QED
  BY <1>1, ClientInvariance, PTL

\* However often the service dies and whatever that interrupts, every listener
\* that was ever subscribed and is still kept is subscribed once all is quiet,
\* except those lost in a death at which the status listener was not registered.
THEOREM RestartIsSeenHolds == Spec => []RestartIsSeen
<1>1. ClientInv => RestartIsSeen
  BY DEF ClientInv, OwedIsComing, Owed, RestartIsSeen, Quiet, Idle
<1> QED
  BY <1>1, ClientInvariance, PTL

\* A listener that a second subscription or an update can find is not stopped.
THEOREM KnownIsLiveHolds == Spec => []KnownIsLive
<1>1. ClientInv => KnownIsLive
  BY DEF ClientInv
<1> QED
  BY <1>1, ClientInvariance, PTL

\* When the call that stops a listener has returned nobody is in OnReceiveEvent
\* for it, or will be, except for a subscriber of the main handler; of a call that
\* finds no listener to stop nothing is said.
THEOREM UnsubscribedIsSilentHolds == Spec => []UnsubscribedIsSilent
<1>1. ClientInv => UnsubscribedIsSilent
  BY DEF ClientInv
<1> QED
  BY <1>1, ClientInvariance, PTL

=============================================================================
