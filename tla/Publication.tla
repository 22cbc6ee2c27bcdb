---------------------------- MODULE Publication ----------------------------
(***************************************************************************)
(* The way of a request through the Common Event Service: the checks on    *)
(* the IPC thread (CommonEventManagerService), the flood window            *)
(* (PublishManager), the serial service queue, the checks and the order of *)
(* effects of InnerCommonEventManager, and the table of sticky events      *)
(* (CommonEventStickyManager) with its replay to new subscribers.          *)
(*                                                                         *)
(* Publications are numbered in the order in which they arrive; attempts   *)
(* is the log of them.  What the control manager does with an event it is  *)
(* handed is in OrderedEvents and UnorderedEvents; here `deliveries' only  *)
(* records to whom an event is handed, and whether by replay.              *)
(***************************************************************************)
EXTENDS Matching, Sequences, FiniteSetsExt

CONSTANTS
  Caller,             \* records, see Matching
  Listener,           \* the listeners applications subscribe with
  Owner,              \* Owner[l]: the caller whose process holds listener l
  PublishRequest,     \* [want, info, userId, isProxy, hasListener]
  SubscribeRequest,   \* [info, userId]
  Users,              \* the accounts that exist
  FloodMax,           \* FLOOD_ATTACK_NUMBER_MAX
  FloodInterval,      \* FLOOD_ATTACK_INTERVAL_MAX
  None,               \* no subscriber record
  MaxAttempts, MaxSubscribes, MaxTime   \* bounds

ASSUME PublicationAssumption ==
  /\ FloodMax \in Nat /\ FloodInterval \in Nat /\ MaxTime \in Nat
  /\ Users \subseteq Nat
  /\ \A c \in Caller : c.account \in Users
  /\ \A l \in Listener : Owner[l] \in Caller
  /\ \A r \in PublishRequest : r.userId \in Int

VARIABLES
  now,                \* the steady clock
  attempts,           \* log of the publications that passed the entry checks
  floodAttackAppStatistics,   \* per uid, the times in the window
  srvQueue,           \* tasks of CesSrvMain
  stickyEvents,       \* commonEventRecords_: per event a publication, or 0
  subscribers,        \* per listener its subscriber record, or None
  subscribes,         \* subscriptions requested so far
  toStatic,           \* publications handed to the static subscribers
  deliveries          \* [event, listener, replay] handed to the control manager

vars == <<now, attempts, floodAttackAppStatistics, srvQueue, stickyEvents,
          subscribers, subscribes, toStatic, deliveries>>

Actions == {r.want.action : r \in PublishRequest}
Uids == {c.uid : c \in Caller}

\* The CommonEventRecord of a publication.
EventRecord(a) ==
  [caller |-> a.caller,
   from   |-> ComeFrom(a.caller, a.request.isProxy),
   userId |-> ResolvedUserId(a.caller, a.request.isProxy, a.request.userId),
   want   |-> a.request.want,
   info   |-> a.request.info]

TypeOK ==
  /\ now \in 0..MaxTime
  /\ \A i \in DOMAIN attempts :
       attempts[i] \in [caller : Caller, request : PublishRequest, time : 0..MaxTime,
                        state : {"flooded", "queued", "refused", "published"}]
  /\ \A u \in Uids : \A i \in DOMAIN floodAttackAppStatistics[u] :
       floodAttackAppStatistics[u][i] \in 0..now
  /\ \A i \in DOMAIN srvQueue : srvQueue[i].kind \in {"publish", "subscribe", "unsubscribe"}
  /\ stickyEvents \in [Actions -> 0..Len(attempts)]
  /\ \A l \in Listener : subscribers[l] = None \/ subscribers[l].info.events # {}
  /\ toStatic \subseteq DOMAIN attempts
  /\ deliveries \subseteq [event : DOMAIN attempts, listener : Listener, replay : BOOLEAN]

Init ==
  /\ now = 0
  /\ attempts = <<>>
  /\ floodAttackAppStatistics = [u \in Uids |-> <<>>]
  /\ srvQueue = <<>>
  /\ stickyEvents = [a \in Actions |-> 0]
  /\ subscribers = [l \in Listener |-> None]
  /\ subscribes = 0
  /\ toStatic = {}
  /\ deliveries = {}

(***************************************************************************)
(* IPC threads                                                             *)
(***************************************************************************)

\* Mutant: the window expires one tick early.
DropExpiredSoon(window, t) ==
  LET kept == {i \in DOMAIN window : t - window[i] < FloodInterval}
  IN IF kept = {} THEN <<>> ELSE SubSeq(window, Min(kept), Len(window))

\* The window without the entries that have expired, from the front.
DropExpired(window, t) ==
  LET kept == {i \in DOMAIN window : t - window[i] <= FloodInterval}
  IN IF kept = {} THEN <<>> ELSE SubSeq(window, Min(kept), Len(window))

CheckIsFloodAttack(uid) ==
  Len(DropExpired(floodAttackAppStatistics[uid], now)) + 1 > FloodMax

CheckUserIdParams(userId) ==
  userId \in {ALL_USER, CURRENT_USER, UNDEFINED_USER} \union Users

\* PublishCommonEvent up to the submission; isProxy when foundation publishes for c.
PublishCommonEvent(c, r) ==
  LET uid == c.uid
      attacked == CheckIsFloodAttack(uid)
      n == Len(attempts) + 1
  IN /\ n <= MaxAttempts
     /\ r.isProxy \/ MayNameUser(c, r.userId)
     /\ ~c.dlp
     /\ CheckUserIdParams(r.userId)
     /\ floodAttackAppStatistics' = [floodAttackAppStatistics EXCEPT
          ![uid] = Append(DropExpired(@, now), now)]
     /\ attempts' = Append(attempts, [caller |-> c, request |-> r, time |-> now,
                                      state |-> IF attacked THEN "flooded" ELSE "queued"])
     /\ srvQueue' = IF attacked THEN srvQueue
                    ELSE Append(srvQueue, [kind |-> "publish", event |-> n])
     /\ UNCHANGED <<now, stickyEvents, subscribers, subscribes, toStatic, deliveries>>

SubscribeCommonEvent(l, r) ==
  /\ subscribes < MaxSubscribes
  /\ subscribes' = subscribes + 1
  /\ CheckUserIdParams(r.userId)
  /\ srvQueue' = Append(srvQueue, [kind |-> "subscribe", listener |-> l, request |-> r])
  /\ UNCHANGED <<now, attempts, floodAttackAppStatistics, stickyEvents, subscribers,
                 toStatic, deliveries>>

\* UnsubscribeCommonEventSync differs in that its caller waits for the task.
\* One request at a time, and of a listener that is subscribed: the others
\* change nothing.
UnsubscribeCommonEvent(l) ==
  /\ subscribers[l] # None
  /\ \A i \in DOMAIN srvQueue : srvQueue[i].kind # "unsubscribe"
  /\ srvQueue' = Append(srvQueue, [kind |-> "unsubscribe", listener |-> l])
  /\ UNCHANGED <<now, attempts, floodAttackAppStatistics, stickyEvents, subscribers,
                 subscribes, toStatic, deliveries>>

\* RemoveStickyCommonEvent takes the table's mutex on the IPC thread.
RemoveStickyCommonEvent(c, action) ==
  LET i == stickyEvents[action]
  IN /\ MayRemoveSticky(c)
     /\ i # 0 /\ attempts[i].caller.uid = c.uid
     /\ stickyEvents' = [stickyEvents EXCEPT ![action] = 0]
     /\ UNCHANGED <<now, attempts, floodAttackAppStatistics, srvQueue, subscribers,
                    subscribes, toStatic, deliveries>>

Tick ==
  /\ now < MaxTime
  /\ now' = now + 1
  /\ UNCHANGED <<attempts, floodAttackAppStatistics, srvQueue, stickyEvents, subscribers,
                 subscribes, toStatic, deliveries>>

(***************************************************************************)
(* The service queue                                                       *)
(***************************************************************************)

HeadTask(kind) == srvQueue # <<>> /\ Head(srvQueue).kind = kind

\* The checks of InnerCommonEventManager::PublishCommonEvent before its effects.
PublishAllowed(a) ==
  LET r == a.request
  IN /\ r.want.action # ""
     /\ r.hasListener => r.info.ordered
     /\ IsPublishAllowed(r.want.action, a.caller)
     /\ UserIdAllowed(a.caller, r.isProxy, r.userId)
     /\ SystemEventAllowed(r.want.action, ComeFrom(a.caller, r.isProxy))

\* Mutant: an event that is in the table stays there (emplace for operator[]).
EmplaceStickyEvent(action, n) ==
  [stickyEvents EXCEPT ![action] = IF @ = 0 THEN n ELSE @]

UpdateStickyEvent(action, n) == [stickyEvents EXCEPT ![action] = n]

\* Static subscribers are served before a sticky event is accepted or refused.
PublishTask ==
  /\ HeadTask("publish")
  /\ LET n == Head(srvQueue).event
         e == EventRecord(attempts[n])
         allowed == PublishAllowed(attempts[n])
         accepted == allowed /\ (e.info.sticky => MayPublishSticky(e.caller, e.from))
         receivers == {l \in Listener : subscribers[l] # None /\ Matches(subscribers[l], e)}
     IN /\ toStatic' = IF allowed THEN toStatic \union {n} ELSE toStatic
        /\ stickyEvents' = IF accepted /\ e.info.sticky
                           THEN UpdateStickyEvent(e.want.action, n) ELSE stickyEvents
        /\ attempts' = [attempts EXCEPT ![n].state = IF accepted THEN "published" ELSE "refused"]
        /\ deliveries' = IF accepted
             THEN deliveries \union
                    {[event |-> n, listener |-> l, replay |-> FALSE] : l \in receivers}
             ELSE deliveries
  /\ srvQueue' = Tail(srvQueue)
  /\ UNCHANGED <<now, floodAttackAppStatistics, subscribers, subscribes>>

\* Mutant: the replay stops at the first event that has one.
FindFirstSticky(info) ==
  LET found == {stickyEvents[a] : a \in info.events \intersect Actions} \ {0}
  IN IF found = {} THEN {} ELSE {Min(found)}

FindStickyEvents(info) == {stickyEvents[a] : a \in info.events \intersect Actions} \ {0}

\* PublishStickyEvent: the kept events that go to a new subscriber.
ReplayedTo(c, info) ==
  {n \in FindStickyEvents(info) :
     attempts[n].request.info.bundleName \in {"", c.bundleName}}

SubscribeAllowed(l, r) ==
  r.info.events # {} /\ UserIdAllowed(Owner[l], FALSE, r.userId)

SubscribeTask ==
  /\ HeadTask("subscribe")
  /\ LET l == Head(srvQueue).listener
         r == Head(srvQueue).request
         c == Owner[l]
     IN \/ /\ ~SubscribeAllowed(l, r)
           /\ UNCHANGED <<subscribers, deliveries>>
        \/ /\ SubscribeAllowed(l, r)
           /\ subscribers' = [subscribers EXCEPT ![l] =
                [caller |-> c, from |-> ComeFrom(c, FALSE), info |-> r.info,
                 userId |-> ResolvedUserId(c, FALSE, r.userId)]]
           /\ deliveries' = deliveries \union
                {[event |-> n, listener |-> l, replay |-> TRUE] : n \in ReplayedTo(c, r.info)}
  /\ srvQueue' = Tail(srvQueue)
  /\ UNCHANGED <<now, attempts, floodAttackAppStatistics, stickyEvents, subscribes, toStatic>>

UnsubscribeTask ==
  /\ HeadTask("unsubscribe")
  /\ subscribers' = [subscribers EXCEPT ![Head(srvQueue).listener] = None]
  /\ srvQueue' = Tail(srvQueue)
  /\ UNCHANGED <<now, attempts, floodAttackAppStatistics, stickyEvents, subscribes, toStatic,
                 deliveries>>

Next ==
  \/ \E c \in Caller, r \in PublishRequest : PublishCommonEvent(c, r)
  \/ \E l \in Listener, r \in SubscribeRequest : SubscribeCommonEvent(l, r)
  \/ \E l \in Listener : UnsubscribeCommonEvent(l)
  \/ \E c \in Caller, a \in Actions : RemoveStickyCommonEvent(c, a)
  \/ PublishTask
  \/ SubscribeTask
  \/ UnsubscribeTask
  \/ Tick

Spec == Init /\ [][Next]_vars

(***************************************************************************)
(* Properties                                                              *)
(***************************************************************************)

\* Of FloodMax + 1 publications of one application in a row, the last one is
\* let through by CheckIsFloodAttack only if it comes more than FloodInterval
\* after the first, refused publications counting like accepted ones.
FloodBound ==
  \A i, j \in DOMAIN attempts :
    /\ i < j
    /\ attempts[i].caller.uid = attempts[j].caller.uid
    /\ Cardinality({k \in i..j : attempts[k].caller.uid = attempts[i].caller.uid}) > FloodMax
    /\ attempts[j].state # "flooded"
    => attempts[j].time - attempts[i].time > FloodInterval

\* Who is neither a system application nor a subsystem nor the shell.
Ordinary(c) == ~c.native /\ ~c.shell /\ ~c.systemApp

\* The accounts a publication is meant for, in terms of who published it and
\* for whom, whatever identifier the service resolves that to.  The accounts of
\* the system see what the system publishes for any account.
Audience(a) ==
  LET u == a.request.userId
      asSystem == ~Ordinary(a.caller) /\ ~a.request.isProxy
      named == CASE u >= 0 -> {u}
                 [] u = ALL_USER -> Users
                 [] u = UNDEFINED_USER /\ asSystem
                      /\ (a.caller.native \/ a.caller.account \in SystemUsers) -> Users
                 [] OTHER -> {a.caller.account}
  IN IF asSystem THEN named \union SystemUsers ELSE named

\* A live event reaches an ordinary application only in an account it is
\* meant for, although publisher and subscriber are resolved to users at
\* different times and by different rules (CheckUserId, CheckSubscriberByUserId).
UserIsolation ==
  \A d \in deliveries :
    ~d.replay /\ Ordinary(Owner[d.listener]) =>
      Owner[d.listener].account \in Audience(attempts[d.event])

\* The table of sticky events never falls behind: once a later sticky
\* publication of the same event is through, an earlier one is not kept,
\* and a refused one is never kept.
StickyNewest ==
  \A action \in Actions :
    LET i == stickyEvents[action]
    IN i # 0 =>
         /\ attempts[i].state = "published"
         /\ \A j \in DOMAIN attempts :
              j > i /\ attempts[j].request.info.sticky /\ attempts[j].request.want.action = action
                => attempts[j].state # "published"

\* Whoever subscribes, before or after a sticky event is published, has been
\* handed the sticky event that is kept, if it is entitled to it and the event
\* is not reserved to another bundle (UpdateStickyEvent, PublishStickyEvent).
StickyReachesAll ==
  \A l \in Listener, action \in Actions :
    LET i == stickyEvents[action]
        e == EventRecord(attempts[i])
    IN /\ i # 0
       /\ subscribers[l] # None
       /\ Matches(subscribers[l], e)
       /\ e.info.bundleName \in {"", subscribers[l].caller.bundleName}
       => \E d \in deliveries : d.event = i /\ d.listener = l

=============================================================================
