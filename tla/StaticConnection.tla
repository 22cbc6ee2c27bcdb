-------------------------- MODULE StaticConnection --------------------------
(***************************************************************************)
(* Connections to the extensions of static subscribers:                    *)
(* AbilityManagerHelper, which caches one connection per bundle, ability   *)
(* and user and drops it some time after its last event, and               *)
(* StaticSubscriberConnection, which keeps events until the extension is   *)
(* connected and then notifies it from a queue of its own.                 *)
(*                                                                         *)
(* Executors: the serial queue of the helper (ConnectAbility and the       *)
(* delayed disconnections, both under its mutex_), one notification queue  *)
(* per connection, the ability manager's callbacks and the binder thread   *)
(* that reports a death.  The notification task holds the connection's     *)
(* mutex_ during the synchronous call of the extension.  A disconnection   *)
(* holds the helper's mutex_ from its look-up to the erase, the            *)
(* connection's only in RemoveEvent and in Clear: the callbacks and the    *)
(* notifications run in between.  A connection object is a number, given   *)
(* in order of creation.                                                   *)
(***************************************************************************)
EXTENDS Integers, Sequences, FiniteSets, SequencesExt

CONSTANTS
  Key,                \* bundle, ability and user
  Action,             \* event names
  Delay,              \* DISCONNECT_DELAY_TIME, in ticks
  MaxEvents, MaxConnections   \* bounds

NoAction == "none"    \* the empty action of the first disconnection
Free == 0             \* no event is being notified

ASSUME StaticConnectionAssumption ==
  /\ Delay \in Nat \ {0}
  /\ MaxEvents \in Nat /\ MaxConnections \in Nat
  /\ NoAction \notin Action

VARIABLES
  idle,               \* per connection the time since its last event, up to Delay
  actionOf,           \* actions of the events so far, in order of arrival
  created,            \* keys of the connection objects so far
  subscriberConnection,   \* per key the cached connection, or 0
  extension,          \* state of the other side: "connecting", "up", "failed", "dead"
  proxy,              \* connections whose proxy_ is set
  events,             \* per connection events_
  action,             \* per connection action_, as a count per name
  notifyQueue,        \* per connection the submitted notifications
  calling,            \* per connection the event being notified, or Free
  timers,             \* delayed disconnections [conn, action, event, left]
  dropping,           \* the disconnection that holds the helper's mutex_
  delivered           \* log of <<event, connection>>

vars == <<idle, actionOf, created, subscriberConnection, extension, proxy, events, action,
          notifyQueue, calling, timers, dropping, delivered>>

Event == DOMAIN actionOf
Conn == DOMAIN created
Cached == {subscriberConnection[k] : k \in Key} \ {0}

\* A disconnection of connection conn is about to test its action_, to clear or
\* to erase it; connected: its proxy_ was set at the test (for the properties).
Disconnection(c, step, connected) == [conn |-> c, at |-> step, connected |-> connected]
Unlocked == Disconnection(0, "none", FALSE)

TypeOK ==
  /\ actionOf \in Seq(Action) /\ created \in Seq(Key)
  /\ subscriberConnection \in [Key -> 0..Len(created)]
  /\ \A k \in Key : subscriberConnection[k] # 0 => created[subscriberConnection[k]] = k
  /\ \A c \in Conn :
       /\ extension[c] \in {"connecting", "up", "failed", "dead"}
       /\ events[c] \in Seq(Event) /\ notifyQueue[c] \in Seq(Event)
       /\ action[c] \in [Action -> Nat]
       /\ calling[c] \in Event \union {Free}
       /\ idle[c] \in 0..Delay
  /\ proxy \subseteq Conn
  /\ \A t \in timers : t.conn \in Conn /\ t.action \in Action \union {NoAction} /\ t.left \in 0..Delay
  /\ \/ dropping = Unlocked
     \/ dropping.conn \in Cached /\ dropping.at \in {"test", "clear", "erase"}

Init ==
  /\ idle = <<>>
  /\ actionOf = <<>> /\ created = <<>>
  /\ subscriberConnection = [k \in Key |-> 0]
  /\ extension = <<>> /\ proxy = {}
  /\ events = <<>> /\ action = <<>> /\ notifyQueue = <<>> /\ calling = <<>>
  /\ timers = {}
  /\ dropping = Unlocked
  /\ delivered = <<>>

(***************************************************************************)
(* AbilityManagerHelper, on its queue                                      *)
(***************************************************************************)

\* Mutant: the disconnection that comes with the connection is left out.
DelayAfterEventsOnly(c, a, e) ==
  timers' = IF a = NoAction THEN timers
            ELSE timers \union {[conn |-> c, action |-> a, event |-> e, left |-> Delay]}

DisconnectServiceAbilityDelay(c, a, e) ==
  timers' = timers \union {[conn |-> c, action |-> a, event |-> e, left |-> Delay]}

\* Mutant: only the latest event is kept for the connection.
CacheLatest(cached, e) == <<e>>

CacheEvent(cached, e) == Append(cached, e)

\* ConnectAbility with a cached connection: NotifyEvent under its mutex_.
ConnectCached(k, a) ==
  LET c == subscriberConnection[k]
      e == Len(actionOf) + 1
  IN /\ e <= MaxEvents
     /\ dropping = Unlocked
     /\ c # 0
     /\ calling[c] = Free
     /\ actionOf' = Append(actionOf, a)
     /\ IF c \in proxy
        THEN /\ action' = [action EXCEPT ![c][a] = @ + 1]
             /\ notifyQueue' = [notifyQueue EXCEPT ![c] = Append(@, e)]
             /\ UNCHANGED events
        ELSE /\ events' = [events EXCEPT ![c] = CacheEvent(@, e)]
             /\ UNCHANGED <<action, notifyQueue>>
     /\ UNCHANGED <<idle, created, subscriberConnection, extension, proxy, calling, timers,
                    dropping, delivered>>

\* ConnectAbility with no cached connection; the ability manager accepts.
ConnectNew(k, a) ==
  LET c == Len(created) + 1
      e == Len(actionOf) + 1
  IN /\ e <= MaxEvents /\ c <= MaxConnections
     /\ dropping = Unlocked
     /\ subscriberConnection[k] = 0
     /\ actionOf' = Append(actionOf, a)
     /\ created' = Append(created, k)
     /\ subscriberConnection' = [subscriberConnection EXCEPT ![k] = c]
     /\ extension' = Append(extension, "connecting")
     /\ events' = Append(events, <<e>>)
     /\ action' = Append(action, [x \in Action |-> 0])
     /\ notifyQueue' = Append(notifyQueue, <<>>)
     /\ calling' = Append(calling, Free)
     /\ idle' = Append(idle, Delay)
     /\ DisconnectServiceAbilityDelay(c, NoAction, 0)
     /\ UNCHANGED <<proxy, dropping, delivered>>

\* Mutant: every entry of that name is removed.
RemoveEveryEvent(count, a) == [x \in Action |-> IF x = a THEN 0 ELSE count[x]]

\* RemoveEvent: one entry of that name, if there is one.
RemoveEvent(count, a) ==
  [x \in Action |-> IF x = a /\ count[x] > 0 THEN count[x] - 1 ELSE count[x]]

IsEmptyAction(count) == \A x \in Action : count[x] = 0

\* The delayed task locks mutex_ and finds its connection cached, or returns.
DisconnectAbility(t) ==
  LET c == t.conn
  IN /\ t.left = 0
     /\ dropping = Unlocked
     /\ timers' = timers \ {t}
     /\ \/ c \notin Cached /\ UNCHANGED <<action, dropping>>
        \/ /\ c \in Cached /\ calling[c] = Free
           /\ action' = [action EXCEPT ![c] = RemoveEvent(@, t.action)]
           /\ dropping' = Disconnection(c, "test", FALSE)
     /\ UNCHANGED <<idle, actionOf, created, subscriberConnection, extension, proxy, events,
                    notifyQueue, calling, delivered>>

\* IsEmptyAction, which takes no lock: the connection goes, or was used in time.
TestAction ==
  LET c == dropping.conn
  IN /\ dropping.at = "test"
     /\ dropping' = IF IsEmptyAction(action[c]) THEN Disconnection(c, "clear", c \in proxy)
                    ELSE Unlocked
     /\ UNCHANGED <<idle, actionOf, created, subscriberConnection, extension, proxy, events,
                    action, notifyQueue, calling, timers, delivered>>

\* The ability manager disconnects, and Clear waits for the connection's mutex_.
Clear ==
  LET c == dropping.conn
  IN /\ dropping.at = "clear"
     /\ calling[c] = Free
     /\ proxy' = proxy \ {c}
     /\ dropping' = [dropping EXCEPT !.at = "erase"]
     /\ UNCHANGED <<idle, actionOf, created, subscriberConnection, extension, events, action,
                    notifyQueue, calling, timers, delivered>>

Erase ==
  /\ dropping.at = "erase"
  /\ subscriberConnection' =
       [k \in Key |-> IF subscriberConnection[k] = dropping.conn THEN 0
                      ELSE subscriberConnection[k]]
  /\ dropping' = Unlocked
  /\ UNCHANGED <<idle, actionOf, created, extension, proxy, events, action, notifyQueue,
                 calling, timers, delivered>>

(***************************************************************************)
(* The other side                                                          *)
(***************************************************************************)

\* Mutant: the cached events are notified last first.
NotifyReversed(queue, cached) == queue \o Reverse(cached)

\* action_ and the notification queue after NotifyEvent for each cached event.
Counted(count, cached) ==
  [x \in Action |-> count[x] + Cardinality({i \in DOMAIN cached : actionOf[cached[i]] = x})]
NotifyCached(queue, cached) == queue \o cached

\* OnAbilityConnectDone with a remote object: cached events become notifications.
OnAbilityConnectDone(c) ==
  /\ extension[c] = "connecting"
  /\ extension' = [extension EXCEPT ![c] = "up"]
  /\ proxy' = proxy \union {c}
  /\ notifyQueue' = [notifyQueue EXCEPT ![c] = NotifyCached(@, events[c])]
  /\ action' = [action EXCEPT ![c] = Counted(@, events[c])]
  /\ events' = [events EXCEPT ![c] = <<>>]
  /\ UNCHANGED <<idle, actionOf, created, subscriberConnection, calling, timers, dropping,
                 delivered>>

\* OnAbilityConnectDone without one: the loop appends to the vector it runs
\* over, and the clear that follows drops every cached event.
OnAbilityConnectFailed(c) ==
  /\ extension[c] = "connecting"
  /\ extension' = [extension EXCEPT ![c] = "failed"]
  /\ events' = [events EXCEPT ![c] = <<>>]
  /\ UNCHANGED <<idle, actionOf, created, subscriberConnection, proxy, action, notifyQueue,
                 calling, timers, dropping, delivered>>

ExtensionDies(c) ==
  /\ extension[c] = "up"
  /\ extension' = [extension EXCEPT ![c] = "dead"]
  /\ UNCHANGED <<idle, actionOf, created, subscriberConnection, proxy, events, action,
                 notifyQueue, calling, timers, dropping, delivered>>

\* The death recipient: RemoveConnection, which tests nothing.
RemoveConnection(c) ==
  /\ extension[c] = "dead"
  /\ dropping = Unlocked
  /\ c \in proxy /\ c \in Cached
  /\ dropping' = Disconnection(c, "clear", TRUE)
  /\ UNCHANGED <<idle, actionOf, created, subscriberConnection, extension, proxy, events, action,
                 notifyQueue, calling, timers, delivered>>

(***************************************************************************)
(* The notification queue of a connection                                  *)
(***************************************************************************)

\* The task runs up to the synchronous call, or ends when there is no proxy.
StartNotify(c) ==
  /\ notifyQueue[c] # <<>> /\ calling[c] = Free
  /\ notifyQueue' = [notifyQueue EXCEPT ![c] = Tail(@)]
  /\ calling' = [calling EXCEPT ![c] = IF c \in proxy THEN Head(notifyQueue[c]) ELSE Free]
  /\ UNCHANGED <<idle, actionOf, created, subscriberConnection, extension, proxy, events, action,
                 timers, dropping, delivered>>

\* The call returns, by the answer of the extension or by its death.
EndNotify(c) ==
  LET e == calling[c]
  IN /\ e # Free
     /\ calling' = [calling EXCEPT ![c] = Free]
     /\ delivered' = IF extension[c] = "up" THEN Append(delivered, <<e, c>>) ELSE delivered
     /\ idle' = [idle EXCEPT ![c] = 0]
     /\ DisconnectServiceAbilityDelay(c, actionOf[e], e)
     /\ UNCHANGED <<actionOf, created, subscriberConnection, extension, proxy, events, action,
                    notifyQueue, dropping>>

Tick ==
  /\ \E t \in timers : t.left > 0
  /\ timers' = {[t EXCEPT !.left = IF @ > 0 THEN @ - 1 ELSE 0] : t \in timers}
  /\ idle' = [c \in Conn |-> IF idle[c] < Delay THEN idle[c] + 1 ELSE Delay]
  /\ UNCHANGED <<actionOf, created, subscriberConnection, extension, proxy, events, action,
                 notifyQueue, calling, dropping, delivered>>

Next ==
  \/ \E k \in Key, a \in Action : ConnectCached(k, a) \/ ConnectNew(k, a)
  \/ \E t \in timers : DisconnectAbility(t)
  \/ TestAction \/ Clear \/ Erase
  \/ \E c \in Conn :
       \/ OnAbilityConnectDone(c) \/ OnAbilityConnectFailed(c)
       \/ ExtensionDies(c) \/ RemoveConnection(c)
       \/ StartNotify(c) \/ EndNotify(c)
  \/ Tick

Spec == Init /\ [][Next]_vars

\* The queues run, the clock runs, a death is reported, and a call returns.
FairSpec ==
  /\ Spec
  /\ WF_vars(Tick)
  /\ WF_vars(\E t \in timers : DisconnectAbility(t))
  /\ WF_vars(TestAction \/ Clear \/ Erase)
  /\ \A c \in 1..MaxConnections :
       /\ WF_vars(c \in Conn /\ RemoveConnection(c))
       /\ WF_vars(c \in Conn /\ (StartNotify(c) \/ EndNotify(c)))

(***************************************************************************)
(* Properties                                                              *)
(***************************************************************************)

InQueue(c, e) == calling[c] = e \/ \E i \in DOMAIN notifyQueue[c] : notifyQueue[c][i] = e

Delivered(e) == \E i \in DOMAIN delivered : delivered[i][1] = e

\* The extension of c was connected after the test of its disconnection, which
\* has cleared the proxy nevertheless: nothing looks at action_ again.
CutLate(c) == dropping.conn = c /\ dropping.at = "erase" /\ ~dropping.connected

\* While a connection that is not refused is cached and its extension lives,
\* an event that waits in it does not disappear before it is delivered, unless
\* the extension was connected after the test of the disconnection under way.
WaitingIsKept ==
  [][\A c \in Conn, e \in Event :
       /\ (\E i \in DOMAIN events[c] : events[c][i] = e) \/ InQueue(c, e)
       /\ c \in Cached' /\ extension'[c] \in {"connecting", "up"} /\ ~CutLate(c)
       => (\E i \in DOMAIN events'[c] : events'[c][i] = e) \/ InQueue(c, e)' \/ Delivered(e)']_vars

\* An extension that lives and was connected when its disconnection tested
\* action_ is not cut while a notification is on its way, nor within Delay of
\* the last one ("Event within 15 seconds!"), whatever runs between the test
\* and Clear.
NotCutEarly ==
  [][\A c \in Conn :
       /\ c \in proxy /\ c \notin proxy' /\ extension[c] = "up"
       /\ dropping.connected
       => notifyQueue[c] = <<>> /\ calling[c] = Free /\ idle[c] = Delay]_vars

\* No event is delivered twice, and one connection delivers in order of arrival.
DeliveredInOrder ==
  \A i, j \in DOMAIN delivered :
    i < j /\ delivered[i][2] = delivered[j][2] => delivered[i][1] < delivered[j][1]

\* No connection stays cached for ever, whether its extension is never
\* connected, is refused, dies or is idle: a disconnection is always to come.
EventuallyReleased ==
  \A k \in Key : subscriberConnection[k] # 0 ~> subscriberConnection[k] = 0
=============================================================================
