--------------------------- MODULE ClientLibrary ---------------------------
(***************************************************************************)
(* The library in an application's process: CommonEvent, which keeps a     *)
(* CommonEventListener for every subscriber object and subscribes them     *)
(* again when the service has come back, CommonEventDeathRecipient, which  *)
(* learns of that from the system ability manager, and the listeners,      *)
(* which hand events to the subscribers from queues of their own.          *)
(*                                                                         *)
(* Executors: the application's threads, the binder threads of the status  *)
(* listener (which hold its mutex_), the queue of resubscriptions and one  *)
(* serial queue per listener.  Resubscribe and UnSubscribeCommonEvent call *)
(* the service with eventListenersMutex_ held, SubscribeCommonEvent        *)
(* without.  Listener objects are numbered in order of creation.           *)
(***************************************************************************)
EXTENDS Integers, Sequences, FiniteSets

CONSTANTS
  Subscriber,             \* subscriber objects of the application
  Thread,                 \* its threads
  Handler,                \* subscribers of thread mode HANDLER
  SUBSCRIBER_MAX_SIZE,    \* 200
  MaxCalls, MaxDeaths, MaxEvents, MaxRefusals,  \* bounds
  MaxIncidents            \* bound on deaths, events and refusals together

ASSUME ClientLibraryAssumption ==
  /\ Handler \subseteq Subscriber
  /\ SUBSCRIBER_MAX_SIZE \in Nat /\ MaxCalls \in Nat /\ MaxDeaths \in Nat
  /\ MaxEvents \in Nat /\ MaxRefusals \in Nat /\ MaxIncidents \in Nat

VARIABLES
  eventListeners,     \* per subscriber its listener, or 0
  subscriberOf,       \* per listener its subscriber (constant once created)
  stopped,            \* listeners after Stop
  call,               \* per thread the call it is in
  calls,              \* calls so far
  service,            \* number of its incarnation, or 0 while it is down
  deaths,             \* how often it has died
  registered,         \* listeners it knows as subscribers
  refusals,           \* subscriptions it has refused
  accepted,           \* listeners it has ever accepted a subscription of
  unseen,             \* those it lost in a death nobody watched (for the properties)
  watching,           \* statusChangeListener_ is registered
  notices,            \* notifications of the ability manager under way
  isSAOffline,
  resubscribe,        \* Resubscribe tasks submitted
  resubscribing,      \* the one that runs: [proxy, todo], or Idle
  tasks,              \* per listener the events on its queue
  running,            \* per listener the event being handled, or 0
  events              \* events notified so far

vars == <<eventListeners, subscriberOf, stopped, call, calls, service, deaths, registered, refusals,
          accepted, unseen, watching, notices, isSAOffline, resubscribe, resubscribing, tasks,
          running, events>>
serviceVars == <<service, deaths, unseen, watching, notices, isSAOffline>>
deliveryVars == <<tasks, running, events>>
resubscribeVars == <<resubscribe, resubscribing>>

Listener == DOMAIN subscriberOf
Idle == [proxy |-> 0, todo |-> {}]
NoCall == [at |-> "none"]
Known == {eventListeners[s] : s \in Subscriber} \ {0}
Incidents == deaths + events + refusals
Free == resubscribing.todo = {}   \* eventListenersMutex_ can be had

Init ==
  /\ eventListeners = [s \in Subscriber |-> 0]
  /\ subscriberOf = <<>> /\ stopped = {}
  /\ call = [t \in Thread |-> NoCall] /\ calls = 0
  /\ service = 1 /\ deaths = 0 /\ registered = {} /\ refusals = 0 /\ accepted = {}
  /\ unseen = {} /\ watching = FALSE /\ notices = <<>> /\ isSAOffline = FALSE
  /\ resubscribe = 0 /\ resubscribing = Idle
  /\ tasks = <<>> /\ running = <<>> /\ events = 0

(***************************************************************************)
(* SubscribeCommonEvent, Subscribe                                         *)
(***************************************************************************)

\* GetCommonEventProxy: none while the service is down.
GetCommonEventProxy == service

\* A call is entered with a subscriber that names events; without a proxy
\* it returns at once and changes nothing.
Enter(t, kind, s) ==
  /\ call[t] = NoCall /\ calls < MaxCalls /\ calls' = calls + 1
  /\ GetCommonEventProxy # 0
  /\ call' = [call EXCEPT ![t] = [at |-> kind, sub |-> s, proxy |-> GetCommonEventProxy]]

SubscribeCommonEvent(t, s) ==
  /\ Enter(t, "watchToCreate", s)
  /\ UNCHANGED <<eventListeners, subscriberOf, stopped, serviceVars, registered, refusals, accepted,
                 resubscribeVars, deliveryVars>>

\* Subscribe sends the subscription again if there is one.
Subscribe(t, s) ==
  /\ Enter(t, "watchToUpdate", s)
  /\ UNCHANGED <<eventListeners, subscriberOf, stopped, serviceVars, registered, refusals, accepted,
                 resubscribeVars, deliveryVars>>

\* The status listener is registered once.  That this failed is not looked at;
\* the next subscription tries again.
SubscribeSAManager(t) ==
  /\ call[t].at \in {"watchToCreate", "watchToUpdate"}
  /\ watching' \in {watching, TRUE}
  /\ call' = [call EXCEPT ![t].at = IF @ = "watchToCreate" THEN "create" ELSE "createOrUpdate"]
  /\ UNCHANGED <<eventListeners, subscriberOf, stopped, calls, service, deaths, unseen, notices,
                 isSAOffline, registered, refusals, accepted, resubscribeVars, deliveryVars>>

NewListener(s) ==
  /\ subscriberOf' = Append(subscriberOf, s)
  /\ eventListeners' = [eventListeners EXCEPT ![s] = Len(subscriberOf) + 1]
  /\ tasks' = Append(tasks, <<>>) /\ running' = Append(running, 0)

\* Mutant: the limit is tested before one more is counted.
BelowLimitLoose == Cardinality(Known) <= SUBSCRIBER_MAX_SIZE

BelowLimit == Cardinality(Known) # SUBSCRIBER_MAX_SIZE

CreateCommonEventListener(t) ==
  /\ call[t].at \in {"create", "createOrUpdate"} /\ Free
  /\ LET s == call[t].sub
     IN \/ /\ eventListeners[s] # 0        \* ALREADY_SUBSCRIBED
           /\ call' = [call EXCEPT ![t] = IF @.at = "create" THEN NoCall
                        ELSE [at |-> "update", listener |-> eventListeners[s], proxy |-> @.proxy]]
           /\ UNCHANGED <<eventListeners, subscriberOf, tasks, running>>
        \/ /\ eventListeners[s] = 0 /\ ~BelowLimit     \* SUBSCRIBE_EXCEED_LIMIT
           /\ call' = [call EXCEPT ![t] = NoCall]
           /\ UNCHANGED <<eventListeners, subscriberOf, tasks, running>>
        \/ /\ eventListeners[s] = 0 /\ BelowLimit      \* INITIAL_SUBSCRIPTION
           /\ NewListener(s)
           /\ call' = [call EXCEPT ![t] = [at |-> "send", sub |-> s, listener |-> Len(subscriberOf) + 1,
                                           proxy |-> @.proxy]]
  /\ UNCHANGED <<stopped, calls, serviceVars, registered, refusals, accepted, resubscribeVars, events>>

\* The service's answer to a subscription: accepted, refused, or dead.
Answer(proxy, listener) ==
  \/ /\ proxy = service /\ registered' = registered \cup {listener}
     /\ accepted' = accepted \cup {listener} /\ refusals' = refusals
  \/ /\ proxy = service /\ refusals < MaxRefusals /\ Incidents < MaxIncidents
     /\ refusals' = refusals + 1
     /\ UNCHANGED <<registered, accepted>>
  \/ proxy # service /\ UNCHANGED <<registered, refusals, accepted>>

Accepted(proxy) == proxy = service /\ refusals' = refusals

SendSubscription(t) ==
  /\ call[t].at \in {"send", "update"}
  /\ Answer(call[t].proxy, call[t].listener)
  /\ call' = [call EXCEPT ![t] = IF @.at = "update" \/ Accepted(@.proxy) THEN NoCall
                                 ELSE [at |-> "undo", sub |-> @.sub, listener |-> @.listener]]
  /\ UNCHANGED <<eventListeners, subscriberOf, stopped, calls, serviceVars, resubscribeVars, deliveryVars>>

\* Mutant: the entry stays.
Kept(s) == eventListeners

Erased(s) == [eventListeners EXCEPT ![s] = 0]

\* After a failure whatever listener the subscriber has by now is dropped.
UndoSubscription(t) ==
  /\ call[t].at = "undo" /\ Free
  /\ LET s == call[t].sub
     IN /\ eventListeners' = Erased(s)
        /\ call' = [call EXCEPT ![t] = IF eventListeners[s] = 0 THEN NoCall
                                       ELSE [at |-> "stop", listener |-> eventListeners[s]]]
  /\ UNCHANGED <<subscriberOf, stopped, calls, serviceVars, registered, refusals, accepted, resubscribeVars, deliveryVars>>

(***************************************************************************)
(* PublishCommonEvent with a final receiver: its listener is made here and *)
(* kept like that of a subscriber.                                         *)
(***************************************************************************)

PublishParameterCheck(t, s) ==
  /\ call[t] = NoCall /\ calls < MaxCalls /\ calls' = calls + 1 /\ Free
  /\ IF eventListeners[s] = 0 /\ BelowLimit THEN NewListener(s)
     ELSE UNCHANGED <<eventListeners, subscriberOf, tasks, running>>
  /\ UNCHANGED <<stopped, call, serviceVars, registered, refusals, accepted, resubscribeVars, events>>

(***************************************************************************)
(* UnSubscribeCommonEvent, UnSubscribeCommonEventSync                      *)
(***************************************************************************)

UnSubscribeCommonEvent(t, s) ==
  /\ Enter(t, "unsubscribe", s)
  /\ UNCHANGED <<eventListeners, subscriberOf, stopped, serviceVars, registered, refusals, accepted,
                 resubscribeVars, deliveryVars>>

\* The listener stays if the service did not answer.
SendUnsubscription(t) ==
  /\ call[t].at = "unsubscribe" /\ Free
  /\ LET s == call[t].sub
         l == eventListeners[s]
     IN IF l # 0 /\ call[t].proxy = service
        THEN /\ registered' = registered \ {l}
             /\ eventListeners' = Erased(s)
             /\ call' = [call EXCEPT ![t] = [at |-> "stop", listener |-> l]]
        ELSE call' = [call EXCEPT ![t] = NoCall] /\ UNCHANGED <<registered, eventListeners>>
  /\ UNCHANGED <<subscriberOf, stopped, calls, serviceVars, refusals, accepted, resubscribeVars, deliveryVars>>

\* Mutant: the queue is not waited for.
DeleteAtOnce(l) == tasks' = [tasks EXCEPT ![l] = <<>>]

\* A queue of the listener's own is deleted after the task that runs, with
\* what else is on it; what is with the main handler stays there.
DeleteQueue(l) ==
  IF subscriberOf[l] \in Handler THEN tasks' = tasks
  ELSE running[l] = 0 /\ tasks' = [tasks EXCEPT ![l] = <<>>]

\* Stop forgets the subscriber, and then deletes the queue.
Stop(t) ==
  /\ call[t].at = "stop"
  /\ stopped' = stopped \cup {call[t].listener}
  /\ call' = [call EXCEPT ![t].at = "delete"]
  /\ UNCHANGED <<eventListeners, subscriberOf, calls, serviceVars, registered, refusals, accepted,
                 resubscribeVars, deliveryVars>>

EndStop(t) ==
  /\ call[t].at = "delete"
  /\ DeleteQueue(call[t].listener)
  /\ call' = [call EXCEPT ![t] = NoCall]
  /\ UNCHANGED <<eventListeners, subscriberOf, stopped, calls, serviceVars, registered, refusals, accepted,
                 resubscribeVars, running, events>>

(***************************************************************************)
(* The service dies and comes back                                         *)
(***************************************************************************)

Tell(what) == IF watching THEN Append(notices, what) ELSE notices

ServiceDies ==
  /\ service # 0 /\ deaths < MaxDeaths /\ Incidents < MaxIncidents /\ deaths' = deaths + 1
  /\ service' = 0 /\ registered' = {} /\ notices' = Tell("remove")
  /\ unseen' = IF watching THEN {} ELSE unseen \cup registered
  /\ UNCHANGED <<eventListeners, subscriberOf, stopped, call, calls, refusals, accepted, watching, isSAOffline,
                 resubscribeVars, deliveryVars>>

ServiceReturns ==
  /\ service = 0 /\ service' = deaths + 1 /\ notices' = Tell("add")
  /\ UNCHANGED <<eventListeners, subscriberOf, stopped, call, calls, deaths, registered, refusals, accepted,
                 unseen, watching, isSAOffline, resubscribeVars, deliveryVars>>

OnRemoveSystemAbility ==
  /\ notices # <<>> /\ Head(notices) = "remove" /\ notices' = Tail(notices)
  /\ isSAOffline' = TRUE
  /\ UNCHANGED <<eventListeners, subscriberOf, stopped, call, calls, service, deaths, registered,
                 refusals, accepted, unseen, watching, resubscribeVars, deliveryVars>>

\* Reconnect asks up to MAX_RETRY_TIME times; if the service dies meanwhile
\* and stays away it gives up, and the flag stays for the next notice.
OfflineAfterAdd == isSAOffline /\ GetCommonEventProxy = 0

OnAddSystemAbility ==
  /\ notices # <<>> /\ Head(notices) = "add" /\ notices' = Tail(notices)
  /\ resubscribe' = IF isSAOffline /\ GetCommonEventProxy # 0 THEN resubscribe + 1 ELSE resubscribe
  /\ isSAOffline' = OfflineAfterAdd
  /\ UNCHANGED <<eventListeners, subscriberOf, stopped, call, calls, service, deaths, registered,
                 refusals, accepted, unseen, watching, resubscribing, deliveryVars>>

\* The proxy is taken before the lock; without one the task is over.
Resubscribe ==
  /\ resubscribe > 0 /\ resubscribing = Idle /\ resubscribe' = resubscribe - 1
  /\ resubscribing' = [proxy |-> GetCommonEventProxy, todo |-> {}]
  /\ UNCHANGED <<eventListeners, subscriberOf, stopped, call, calls, serviceVars, registered, refusals, accepted,
                 deliveryVars>>

ResubscribeLocked ==
  /\ resubscribing.proxy # 0 /\ Free
  /\ resubscribing' = IF Known = {} THEN Idle ELSE [resubscribing EXCEPT !.todo = Known]
  /\ UNCHANGED <<eventListeners, subscriberOf, stopped, call, calls, serviceVars, registered, refusals, accepted,
                 resubscribe, deliveryVars>>

\* Mutant: a listener that was refused is kept.
KeptAfterRefusal(l) == eventListeners

\* A listener whose subscription fails is forgotten, without Stop.
Forgotten(l) == [eventListeners EXCEPT ![subscriberOf[l]] = 0]

ResubscribeOne(l) ==
  /\ l \in resubscribing.todo
  /\ Answer(resubscribing.proxy, l)
  /\ eventListeners' = IF Accepted(resubscribing.proxy) THEN eventListeners ELSE Forgotten(l)
  /\ resubscribing' = IF resubscribing.todo = {l} THEN Idle
                      ELSE [resubscribing EXCEPT !.todo = @ \ {l}]
  /\ UNCHANGED <<subscriberOf, stopped, call, calls, serviceVars, resubscribe, deliveryVars>>

(***************************************************************************)
(* Delivery                                                                *)
(***************************************************************************)

\* NotifyEvent of the service; refused once the listener is stopped.
NotifyEvent(l) ==
  /\ events < MaxEvents /\ Incidents < MaxIncidents /\ l \in registered
  /\ events' = events + 1
  /\ tasks' = IF l \in stopped THEN tasks ELSE [tasks EXCEPT ![l] = Append(@, events + 1)]
  /\ UNCHANGED <<eventListeners, subscriberOf, stopped, call, calls, serviceVars, registered, refusals, accepted,
                 resubscribeVars, running>>

\* The task of the queue takes the subscriber and calls it.
OnReceiveEvent(l) ==
  /\ tasks[l] # <<>> /\ running[l] = 0
  /\ tasks' = [tasks EXCEPT ![l] = Tail(@)]
  /\ running' = [running EXCEPT ![l] = IF l \in stopped THEN 0 ELSE Head(tasks[l])]
  /\ UNCHANGED <<eventListeners, subscriberOf, stopped, call, calls, serviceVars, registered, refusals, accepted,
                 resubscribeVars, events>>

EndReceiveEvent(l) ==
  /\ running[l] # 0 /\ running' = [running EXCEPT ![l] = 0]
  /\ UNCHANGED <<eventListeners, subscriberOf, stopped, call, calls, serviceVars, registered, refusals, accepted,
                 resubscribeVars, tasks, events>>

Next ==
  \/ \E t \in Thread, s \in Subscriber :
       \/ SubscribeCommonEvent(t, s) \/ Subscribe(t, s) \/ UnSubscribeCommonEvent(t, s)
       \/ PublishParameterCheck(t, s)
  \/ \E t \in Thread :
       \/ SubscribeSAManager(t) \/ CreateCommonEventListener(t) \/ SendSubscription(t) \/ UndoSubscription(t)
       \/ SendUnsubscription(t) \/ Stop(t) \/ EndStop(t)
  \/ ServiceDies \/ ServiceReturns \/ OnRemoveSystemAbility \/ OnAddSystemAbility
  \/ Resubscribe \/ ResubscribeLocked
  \/ \E l \in Listener :
       \/ ResubscribeOne(l) \/ NotifyEvent(l) \/ OnReceiveEvent(l) \/ EndReceiveEvent(l)

Spec == Init /\ [][Next]_vars

-----------------------------------------------------------------------------
(***************************************************************************)
(* Properties                                                              *)
(***************************************************************************)

\* Every reachable state is well typed, and a subscriber's listener is its.
TypeOK ==
  /\ \A s \in Subscriber : eventListeners[s] # 0 => subscriberOf[eventListeners[s]] = s
  /\ stopped \subseteq Listener /\ registered \subseteq Listener /\ unseen \subseteq Listener
  /\ DOMAIN tasks = Listener /\ DOMAIN running = Listener
  /\ \A t \in Thread : call[t].at \in {"none", "watchToCreate", "watchToUpdate", "create", "createOrUpdate",
                                       "send", "update", "undo", "unsubscribe", "stop", "delete"}
  /\ service \in 0..(deaths + 1) /\ resubscribe \in Nat

\* Never more listeners than SUBSCRIBER_MAX_SIZE, the number at which the
\* service stops a process (CreateCommonEventListener, threads in parallel).
ListenersBounded == Cardinality(Known) <= SUBSCRIBER_MAX_SIZE

Quiet ==
  /\ service # 0 /\ notices = <<>> /\ resubscribe = 0 /\ resubscribing = Idle
  /\ \A t \in Thread : call[t] = NoCall

\* When the service is there and everything has settled, every listener that
\* was ever subscribed and that the library keeps is subscribed, however often
\* the service died and whatever it interrupted (OnAddSystemAbility,
\* Resubscribe), except those lost in a death at which the status listener was
\* not registered: the library makes up for that death only at a later one.
RestartIsSeen ==
  Quiet => (Known \intersect accepted) \ unseen \subseteq registered

Stopping(l) == \E t \in Thread : call[t].at = "delete" /\ call[t].listener = l

\* When the call that stops a listener (the unsubscription that found it, or a
\* subscription that failed and dropped it) has returned, no thread is in the
\* subscriber's OnReceiveEvent for it and none will enter it; a subscriber of
\* the main handler, whose tasks nobody waits for, may still be in it (Stop,
\* OnReceiveEvent).  Nothing is said of an unsubscription that finds no
\* listener any more, which returns while the first one waits, nor of a
\* listener that a failed resubscription dropped, which is never stopped.
UnsubscribedIsSilent ==
  \A l \in stopped : running[l] = 0 \/ subscriberOf[l] \in Handler \/ Stopping(l)

\* A listener the application can still use, by an update or by a second
\* subscription that finds it, is not a stopped one.
KnownIsLive == Known \intersect stopped = {}

=============================================================================
