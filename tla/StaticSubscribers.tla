------------------------- MODULE StaticSubscribers -------------------------
(***************************************************************************)
(* Static subscribers: StaticSubscriberManager, which knows the extensions *)
(* that may be started for an event and the events each has switched off,  *)
(* and StaticSubscriberDataManager, which keeps the switched-off events in *)
(* a key-value store across restarts of the service.                       *)
(*                                                                         *)
(* Executors: the service queue (PublishCommonEvent, one at a time), the   *)
(* queue of the delayed starts of a boot and the binder threads of         *)
(* SetStaticSubscriberState.  disableEventsMutex_ makes a request, the     *)
(* removal of a bundle and IsDisableEvent exclude each other; the start    *)
(* that follows IsDisableEvent is outside it, and InitValidSubscribers     *)
(* fills disableEvents_ from the store without it.  kvStorePtrMutex_ makes *)
(* each use of the store one step, but the service may die inside it and   *)
(* leave any prefix of its writes behind.                                  *)
(*                                                                         *)
(* A key is "userId_bundle".  Vectors of events are bags: functions from   *)
(* Event to the number of copies.                                          *)
(***************************************************************************)
EXTENDS Integers, Sequences, FiniteSets, SequencesExt

CONSTANTS
  App,                \* key -> [user, bundle, uid, system, granted, name, allowed, profile]
  Event,              \* the events extensions declare
  Publication,        \* what is published (see Entitled)
  BOOT_COMPLETED,     \* the event whose starts a build may delay, or None
  ActiveUser,         \* QueryActiveOsAccountIds
  StoreAtStart,       \* stores an earlier version may have left
  None,               \* nothing there
  Bad,                \* a JSON value of the wrong kind
  MaxTasks, MaxRequests, MaxFaults,  \* bounds: publications, requests, failures and crashes
  MaxNotices          \* bound: package events not published yet

Key == DOMAIN App
ALL_USER == -1
USER_FOREGROUND == "usual.event.USER_FOREGROUND"
PACKAGE_ADDED == "usual.event.PACKAGE_ADDED"
PACKAGE_CHANGED == "usual.event.PACKAGE_CHANGED"
PACKAGE_REMOVED == "usual.event.PACKAGE_REMOVED"

\* What the store may hold, and under which keys: with a uid (an earlier
\* version), with a user, or malformed by a second conversion.
StoredValue == [default : BOOLEAN, events : [Event -> Nat]]
StoreKey == {"uid", "user", "bad"} \X Key

ASSUME StaticSubscribersAssumption ==
  /\ MaxTasks \in Nat /\ MaxRequests \in Nat /\ MaxFaults \in Nat /\ MaxNotices \in Nat
  /\ None \notin Key
  /\ \A p \in Publication : p.about \in Key \cup {None}
  /\ \A s \in StoreAtStart : \A sk \in DOMAIN s : sk \in {"uid"} \X Key /\ s[sk] \in StoredValue

VARIABLES
  installed,          \* bundle manager: bundles that are installed
  notices,            \* its package events not published yet
  staticSubscribers,  \* key -> bag of allowed events (no key: all zero)
  validSubscribers,   \* set of [event, key, permission, filter]
  disableEvents,      \* partial function key -> bag
  hasInit,            \* hasInitValidSubscribers_
  store,              \* partial function <<"uid" | "user" | "bad", key>> -> value
  updated,            \* is_updated_key is in the store
  task,               \* the publication on the service queue
  request,            \* the request that holds disableEventsMutex_
  acked,              \* <<key, event>> switched off with ERR_OK and not since on
  delayed,            \* submitted delayed starts [p, keys], in order
  missed,             \* removed bundles whose event was dropped (for the properties)
  tasks, requests, faults   \* counters, bounded

vars == <<installed, notices, staticSubscribers, validSubscribers, disableEvents, hasInit,
          store, updated, task, request, acked, delayed, missed, tasks, requests, faults>>
queueVars == <<installed, notices, staticSubscribers, validSubscribers, hasInit, task, delayed,
               missed, tasks>>

NoEvents == [e \in Event |-> 0]
InBag(b) == {e \in Event : b[e] > 0}
NoTask == [at |-> "idle"]
NoRequest == [at |-> "none"]

\* Mutant: only one of the events of a bundle is looked at.
DisabledFirst(k) ==
  IF k \in DOMAIN disableEvents /\ InBag(disableEvents[k]) # {} THEN {CHOOSE e \in InBag(disableEvents[k]) : TRUE} ELSE {}

\* IsDisableEvent, as the set of a bundle's events that are off.
Disabled(k) == IF k \in DOMAIN disableEvents THEN InBag(disableEvents[k]) ELSE {}

\* emplace: an entry that is there already stays.
Emplace(f, g) == [x \in DOMAIN f \cup DOMAIN g |-> IF x \in DOMAIN f THEN f[x] ELSE g[x]]
Without(f, S) == [x \in DOMAIN f \ S |-> f[x]]

(***************************************************************************)
(* The store                                                               *)
(***************************************************************************)

\* IsNeedUpdateKey: the digits in front are taken for a uid, in a key of
\* the current form too.
GetValidKey(sk) ==
  IF sk[1] = "uid" THEN <<"user", sk[2]>> ELSE <<"bad", sk[2]>>

\* A value is an array of events, or STATIC_SUBSCRIBER_VALUE_DEFAULT.
ConvertEventsToValue(bag) == [default |-> FALSE, events |-> bag]
Legacy == [default |-> TRUE, events |-> NoEvents]

\* An empty array is not accepted on the way back.
ConvertValueToEvents(value) == InBag(value.events) # {}

ReadKey(sk) == IF updated THEN sk ELSE GetValidKey(sk)

Malformed == {sk \in DOMAIN store : store[sk] # Legacy /\ ~ConvertValueToEvents(store[sk])}

\* What QueryStaticSubscriberStateData may return: the entries read before
\* the first malformed one, those among them with the legacy value, and
\* the store after the keys read were brought to the current form.
QueryResults ==
  {[ok |-> Malformed = {},
    legacy |-> {ReadKey(sk) : sk \in {x \in read : store[x] = Legacy}},
    data |-> [nk \in {ReadKey(sk) : sk \in {x \in read : store[x] # Legacy}} |->
                store[CHOOSE sk \in read : ReadKey(sk) = nk].events],
    read |-> read] :
   read \in IF Malformed = {} THEN {DOMAIN store} ELSE SUBSET (DOMAIN store \ Malformed)}

\* UpdateDistributedKv, complete: the old keys deleted, the new ones put.
Migrated(read) ==
  IF updated \/ read = {} THEN store
  ELSE [nk \in (DOMAIN store \ read) \cup {ReadKey(sk) : sk \in read} |->
          IF \E sk \in read : ReadKey(sk) = nk
          THEN store[CHOOSE sk \in read : ReadKey(sk) = nk]
          ELSE store[nk]]

\* Its states in between, which a crash may leave.
MigratedPartly(read) == {store, Without(store, read), Migrated(read)}

UserKeys(f) == [k \in {sk[2] : sk \in {x \in DOMAIN f : x[1] = "user"}} |-> f[<<"user", k>>]]

StoredForm(mem) == [sk \in {<<"user", k>> : k \in DOMAIN mem} |-> ConvertEventsToValue(mem[sk[2]])]

\* UpdateStaticSubscriberState deletes what it has read, then puts memory.
Saved(base, q, mem) == Emplace(StoredForm(mem), Without(base, DOMAIN q.data))

SavedPartly(base, q, mem) ==
  {Without(base, gone) : gone \in SUBSET DOMAIN q.data} \cup
  {Emplace([sk \in put |-> StoredForm(mem)[sk]], Without(base, DOMAIN q.data)) :
     put \in SUBSET DOMAIN StoredForm(mem)}

\* The two outcomes of the call: ERR_OK, or an error because the store
\* cannot be opened or read, holds something malformed, or refuses a write.
UpdateStaticSubscriberState(mem, ok) ==
  \/ /\ ok /\ Malformed = {} /\ faults' = faults /\ updated' = TRUE
     /\ \E q \in QueryResults : store' = Saved(Migrated(q.read), q, mem)
  \/ /\ ~ok /\ Malformed # {} /\ faults' = faults /\ updated' = TRUE
     /\ \E q \in QueryResults : store' = Migrated(q.read)
  \/ /\ ~ok /\ faults < MaxFaults /\ faults' = faults + 1
     /\ \/ UNCHANGED <<store, updated>>
        \/ /\ Malformed = {} /\ updated' = TRUE
           /\ \E q \in QueryResults : store' \in SavedPartly(Migrated(q.read), q, mem)

(***************************************************************************)
(* Who may be started                                                      *)
(***************************************************************************)

\* The first filter of the profile entry that is for the event.
ParseFilterObject(filters, event) ==
  LET fit == {i \in DOMAIN filters : filters[i] # Bad /\ filters[i].event = event
                                       /\ filters[i].conditions # Bad}
  IN IF fit = {} THEN [code |-> None, data |-> None, parameters |-> {}]
     ELSE filters[CHOOSE i \in fit : \A j \in fit : i <= j].conditions

\* ParseEvents over the profile of an extension; AddToValidSubscribers
\* keeps the first entry for an event.
ParseEvents(k) ==
  LET profile == App[k].profile
      good == {i \in DOMAIN profile : profile[i] # Bad /\ profile[i].name = App[k].name
                                        /\ profile[i].permission # Bad}
      declares(i, e) == e \in profile[i].events /\ staticSubscribers[k][e] > 0
      first(i, e) == declares(i, e) /\ \A j \in good : declares(j, e) => i <= j
  IN {[event |-> x[2], key |-> k, permission |-> profile[x[1]].permission,
       filter |-> ParseFilterObject(profile[x[1]].filters, x[2])] :
      x \in {y \in good \X Event : first(y[1], y[2])}}

AddSubscribers(keys) == UNION {ParseEvents(k) : k \in keys}

(***************************************************************************)
(* Which of them an event is for.  A publication is [event, about, userId, *)
(* granted, bundleName, type, uids, permissions, maximumVersion, rule,     *)
(* code, data, parameters]; "about" is the key of a package event.         *)
(***************************************************************************)

VerifyPublisherPermission(p, permission) == permission = "" \/ permission \in p.granted

FilterSettings(p) ==
  {f \in {"bundle", "type", "uid", "permission", "version"} :
     \/ f = "bundle" /\ p.bundleName # ""
     \/ f = "type" /\ p.type # None
     \/ f = "uid" /\ p.uids # {}
     \/ f = "permission" /\ p.permissions # {}
     \/ f = "version" /\ p.maximumVersion # None}

FiltersPassed(a, p) ==
  {f \in {"bundle", "type", "uid", "permission"} :
     \/ f = "bundle" /\ p.bundleName # "" /\ p.bundleName = a.bundle
     \/ f = "type" /\ (p.type = "all" \/ (p.type = "system" /\ a.system))
     \/ f = "uid" /\ a.uid \in p.uids
     \/ f = "permission" /\ p.permissions # {} /\ p.permissions \subseteq a.granted}

\* No bit is ever set for the version: with AND it matches nobody.
CheckSubscriberWhetherMatched(a, p) ==
  LET set == FilterSettings(p)
      passed == FiltersPassed(a, p)
  IN \/ set = {}
     \/ IF p.rule = "AND" THEN passed = set ELSE passed \intersect set # {}

\* Parameters are <<name, kind, value>>: a value of another kind is none.
IsFilterParameters(filter, p) ==
  /\ filter.code \in {None, p.code}
  /\ filter.data \in {None, p.data}
  /\ filter.parameters \subseteq p.parameters

UserMatched(a, userId) ==
  a.user >= 0 /\ (a.user > 99 => userId \in {ALL_USER, a.user})

\* Mutant: the account of the extension is not looked at.
AnyUser(s, p) ==
  /\ CheckSubscriberWhetherMatched(App[s.key], p)
  /\ VerifyPublisherPermission(p, s.permission)
  /\ IsFilterParameters(s.filter, p)

Entitled(s, p) ==
  /\ UserMatched(App[s.key], p.userId)
  /\ CheckSubscriberWhetherMatched(App[s.key], p)
  /\ VerifyPublisherPermission(p, s.permission)
  /\ IsFilterParameters(s.filter, p)

-----------------------------------------------------------------------------
(***************************************************************************)
(* The bundle manager                                                      *)
(***************************************************************************)

Init ==
  /\ installed = Key /\ notices = <<>>
  /\ staticSubscribers = [k \in Key |-> NoEvents]
  /\ validSubscribers = {} /\ disableEvents = <<>> /\ hasInit = FALSE
  /\ store \in StoreAtStart /\ updated = FALSE
  /\ task = NoTask /\ request = NoRequest
  /\ acked = {} /\ delayed = <<>> /\ missed = {} /\ tasks = 0 /\ requests = 0 /\ faults = 0

BundleManager(k) ==
  /\ Len(notices) < MaxNotices /\ tasks < MaxTasks
  /\ \/ k \in installed /\ installed' = installed \ {k}
        /\ notices' = Append(notices, <<PACKAGE_REMOVED, k>>)
     \/ k \notin installed /\ installed' = installed \cup {k}
        /\ notices' = Append(notices, <<PACKAGE_ADDED, k>>)
     \/ k \in installed /\ installed' = installed
        /\ notices' = Append(notices, <<PACKAGE_CHANGED, k>>)
  /\ UNCHANGED <<staticSubscribers, validSubscribers, disableEvents, hasInit, store, updated,
                 task, request, acked, delayed, missed, tasks, requests, faults>>

(***************************************************************************)
(* PublishCommonEvent on the service queue.  Its steps: "allow" (the allow *)
(* list), "query", "extensions", "legacy", "update", "serve".              *)
(***************************************************************************)

\* A question to the bundle, account or store service is not answered.
Fails == faults < MaxFaults /\ faults' = faults + 1

PublishCommonEvent(p) ==
  /\ task.at = "idle" /\ tasks < MaxTasks
  /\ IF p.about = None THEN notices' = notices
     ELSE notices # <<>> /\ Head(notices) = <<p.event, p.about>> /\ notices' = Tail(notices)
  /\ tasks' = tasks + 1
  /\ \/ /\ hasInit /\ p.event # USER_FOREGROUND
        /\ task' = [at |-> "update", p |-> p]
        /\ UNCHANGED <<validSubscribers, missed, faults>>
     \/ /\ ~hasInit \/ p.event = USER_FOREGROUND
        /\ validSubscribers' = {} /\ missed' = {}
        /\ \/ Fails /\ task' = NoTask
           \/ /\ faults' = faults
              /\ task' = [at |-> "allow", p |-> p,
                          todo |-> {x \in installed \X Event : x[2] \in App[x[1]].allowed}]
  /\ UNCHANGED <<installed, staticSubscribers, disableEvents, hasInit, store, updated,
                 request, acked, delayed, requests>>

\* InitAllowList pushes one event at a time, once more at every call, and
\* passes over a bundle whose account it cannot look up.
InitAllowList ==
  /\ task.at = "allow"
  /\ \/ /\ task.todo = {} /\ task' = [at |-> "query", p |-> task.p]
        /\ UNCHANGED <<staticSubscribers, faults>>
     \/ \E x \in task.todo :
          /\ task' = [task EXCEPT !.todo = @ \ {x}]
          /\ staticSubscribers' = [staticSubscribers EXCEPT ![x[1]][x[2]] = @ + 1]
          /\ UNCHANGED faults
     \/ \E k \in Key :
          LET pushes == {k} \X (Event \intersect App[k].allowed)
          IN /\ pushes # {} /\ pushes \subseteq task.todo /\ Fails
             /\ task' = [task EXCEPT !.todo = @ \ pushes]
             /\ UNCHANGED staticSubscribers
  /\ UNCHANGED <<installed, notices, validSubscribers, disableEvents, hasInit, store, updated,
                 request, acked, delayed, missed, tasks, requests>>

\* Not under disableEventsMutex_; an error is not looked at.
QueryIntoMemory ==
  /\ task.at = "query"
  /\ \/ \E q \in QueryResults :
          /\ disableEvents' = Emplace(disableEvents, UserKeys(q.data))
          /\ store' = Migrated(q.read)
          /\ updated' = (updated \/ store # <<>>)
          /\ task' = [at |-> "extensions", p |-> task.p, legacy |-> q.legacy]
          /\ faults' = faults
     \/ /\ Fails
        /\ task' = [at |-> "extensions", p |-> task.p, legacy |-> {}]
        /\ UNCHANGED <<disableEvents, store, updated>>
  /\ UNCHANGED <<installed, notices, staticSubscribers, validSubscribers, hasInit, request,
                 acked, delayed, missed, tasks, requests>>

\* An extension whose account or profile cannot be had is passed over.
QueryExtensionInfos ==
  /\ task.at = "extensions"
  /\ \/ Fails /\ task' = NoTask /\ UNCHANGED <<validSubscribers, hasInit>>
     \/ /\ \/ validSubscribers' = AddSubscribers(installed) /\ UNCHANGED faults
           \/ \E k \in installed : validSubscribers' = AddSubscribers(installed \ {k}) /\ Fails
        /\ IF task.legacy = {} THEN hasInit' = TRUE /\ task' = [at |-> "update", p |-> task.p]
           ELSE hasInit' = hasInit /\ task' = [task EXCEPT !.at = "legacy"]
  /\ UNCHANGED <<installed, notices, staticSubscribers, disableEvents, store, updated, request,
                 acked, delayed, missed, tasks, requests>>

\* Bundles stored with the legacy value: everything they may get is off,
\* and what other bundles have switched off is forgotten.
LegacyEvents ==
  [k \in {x \in Key : InBag(staticSubscribers[x]) # {} /\ <<"user", x>> \in task.legacy} |->
     staticSubscribers[k]]

ConvertLegacy ==
  /\ task.at = "legacy" /\ request = NoRequest
  /\ disableEvents' = LegacyEvents
  /\ UpdateStaticSubscriberState(LegacyEvents, TRUE) \/ UpdateStaticSubscriberState(LegacyEvents, FALSE)
  /\ hasInit' = TRUE /\ acked' = {}
  /\ task' = [at |-> "update", p |-> task.p]
  /\ UNCHANGED <<installed, notices, staticSubscribers, validSubscribers, request, delayed,
                 missed, tasks, requests>>

\* RemoveSubscriberWithBundleName; a failure to delete is not looked at.
RemoveSubscriberWithBundleName(k) ==
  /\ disableEvents' = Without(disableEvents, {k})
  /\ \/ /\ store' = IF k \in DOMAIN disableEvents THEN Without(store, {<<"user", k>>}) ELSE store
        /\ faults' = faults
     \/ k \in DOMAIN disableEvents /\ Fails /\ store' = store
  /\ acked' = {a \in acked : a[1] # k}

\* Mutant: the entries of a removed bundle stay.
NoRemoval(valid, k) == valid

RemoveValid(valid, k) == {s \in valid : s.key # k}

AddSubscriberWithBundleName(k) ==
  IF k \in installed /\ InBag(staticSubscribers[k]) # {} THEN ParseEvents(k) ELSE {}

\* The package event is dropped when the account of the bundle or the active
\* accounts cannot be looked up.
UpdateSubscriber ==
  /\ task.at = "update" /\ request = NoRequest
  /\ LET event == task.p.event
         k == task.p.about
         applies == k # None /\ App[k].user \in ActiveUser
         remove == applies /\ event \in {PACKAGE_REMOVED, PACKAGE_CHANGED}
         add == applies /\ event \in {PACKAGE_ADDED, PACKAGE_CHANGED}
         kept == IF remove THEN RemoveValid(validSubscribers, k) ELSE validSubscribers
         added == IF ~add THEN {}
                  ELSE {s \in AddSubscriberWithBundleName(k) :
                          \A v \in kept : <<v.key, v.event>> # <<s.key, s.event>>}
     IN /\ \/ /\ k # None /\ Fails
              /\ missed' = IF event = PACKAGE_REMOVED THEN missed \cup {k} ELSE missed
              /\ UNCHANGED <<validSubscribers, disableEvents, store, acked>>
           \/ /\ IF remove THEN RemoveSubscriberWithBundleName(k)
                 ELSE UNCHANGED <<disableEvents, store, faults, acked>>
              /\ missed' = IF remove THEN missed \ {k} ELSE missed
              /\ validSubscribers' \in {kept, kept \cup added}   \* the query may fail
        /\ task' = [at |-> "serve", p |-> task.p, boot |-> {},
                    todo |-> {s \in validSubscribers' : s.event = event}]
  /\ UNCHANGED <<installed, notices, staticSubscribers, hasInit, updated, request, delayed,
                 tasks, requests>>

\* One subscriber of PublishCommonEventInner's loop: IsDisableEvent and the
\* other checks.  What passes is started next, or put aside for the boot task.
Check(s) ==
  /\ task.at = "serve" /\ s \in task.todo /\ request = NoRequest
  /\ LET rest == [task EXCEPT !.todo = @ \ {s}]
         passes == s.event \notin Disabled(s.key) /\ Entitled(s, task.p)
     IN task' = IF ~passes THEN rest
                ELSE IF s.event = BOOT_COMPLETED THEN [rest EXCEPT !.boot = @ \cup {s.key}]
                ELSE [at |-> "connect", p |-> task.p, todo |-> rest.todo, key |-> s.key]
  /\ UNCHANGED <<installed, notices, staticSubscribers, validSubscribers, disableEvents, hasInit,
                 store, updated, request, acked, delayed, missed, tasks, requests, faults>>

\* PublishCommonEventConnecAbility: nothing is looked at again.
Connect ==
  /\ task.at = "connect"
  /\ task' = [at |-> "serve", p |-> task.p, boot |-> {}, todo |-> task.todo]
  /\ UNCHANGED <<installed, notices, staticSubscribers, validSubscribers, disableEvents, hasInit,
                 store, updated, request, acked, delayed, missed, tasks, requests, faults>>

EndPublish ==
  /\ task.at = "serve" /\ task.todo = {} /\ task' = NoTask
  /\ delayed' = IF task.boot = {} THEN delayed
                ELSE Append(delayed, [p |-> task.p, keys |-> task.boot])
  /\ UNCHANGED <<installed, notices, staticSubscribers, validSubscribers, disableEvents, hasInit,
                 store, updated, request, acked, missed, tasks, requests, faults>>

\* One start of the oldest boot task, at some time after its delay.
DelayedConnect(k) ==
  /\ delayed # <<>> /\ k \in Head(delayed).keys
  /\ delayed' = IF Head(delayed).keys = {k} THEN Tail(delayed)
                ELSE [delayed EXCEPT ![1].keys = @ \ {k}]
  /\ UNCHANGED <<installed, notices, staticSubscribers, validSubscribers, disableEvents, hasInit,
                 store, updated, task, request, acked, missed, tasks, requests, faults>>

(***************************************************************************)
(* SetStaticSubscriberState on a binder thread                             *)
(***************************************************************************)

\* Mutant: an entry that is there already is left as it is.
AddOnlyNew(k, bag, enable) ==
  IF ~enable THEN Emplace(disableEvents, [x \in {k} |-> bag]) ELSE Without(disableEvents, {k})

\* UpdateDisableEvents on memory.  The first request stores the list as it
\* is; later ones add what is missing, or erase one copy per copy named.
ChangedEvents(k, bag, enable) ==
  IF k \notin DOMAIN disableEvents
  THEN IF enable THEN disableEvents ELSE Emplace(disableEvents, [x \in {k} |-> bag])
  ELSE LET old == disableEvents[k]
           new == [e \in Event |->
                     IF enable THEN IF old[e] > bag[e] THEN old[e] - bag[e] ELSE 0
                     ELSE IF old[e] = 0 /\ bag[e] > 0 THEN 1 ELSE old[e]]
       IN IF InBag(new) = {} THEN Without(disableEvents, {k})
          ELSE [disableEvents EXCEPT ![k] = new]

UpdateDisableEvents(k, bag, enable) ==
  /\ request = NoRequest /\ requests < MaxRequests /\ requests' = requests + 1
  /\ disableEvents' = ChangedEvents(k, bag, enable)
  /\ request' = [at |-> "save", key |-> k, events |-> InBag(bag), enable |-> enable]
  /\ acked' = IF enable THEN {a \in acked : a[1] # k \/ a[2] \notin InBag(bag)} ELSE acked
  /\ UNCHANGED <<queueVars, store, updated, faults>>

\* By the list of the caller, which may be empty ...
SetStaticSubscriberStateByEvents(k, events, enable) ==
  k \in installed /\ UpdateDisableEvents(k, [e \in Event |-> IF e \in events THEN 1 ELSE 0], enable)

\* ... or for all it is allowed; refused before the allow list is known.
SetStaticSubscriberState(k, enable) ==
  /\ k \in installed /\ InBag(staticSubscribers[k]) # {}
  /\ UpdateDisableEvents(k, staticSubscribers[k], enable)

\* ERR_OK only when everything was written.  After a failed write acked is
\* emptied: the entries of any bundle may be gone.
Save ==
  /\ request.at = "save" /\ request' = NoRequest
  /\ \/ /\ UpdateStaticSubscriberState(disableEvents, TRUE)
        /\ acked' = IF request.enable THEN acked
                    ELSE acked \cup ({request.key} \X request.events)
     \/ /\ UpdateStaticSubscriberState(disableEvents, FALSE)
        /\ acked' = IF store' = Migrated(DOMAIN store) THEN acked ELSE {}
  /\ UNCHANGED <<queueVars, disableEvents, requests>>

(***************************************************************************)
(* The service dies and starts again                                       *)
(***************************************************************************)

\* What a store operation in progress may have left behind.
LeftBehind ==
  {store} \cup
  (IF task.at = "query" THEN UNION {MigratedPartly(q.read) : q \in QueryResults} ELSE {}) \cup
  (IF request.at = "save" /\ Malformed = {}
   THEN UNION {SavedPartly(Migrated(q.read), q, disableEvents) : q \in QueryResults} ELSE {}) \cup
  (IF task.at = "legacy" /\ request = NoRequest /\ Malformed = {}
   THEN UNION {SavedPartly(store, q, LegacyEvents) : q \in QueryResults} ELSE {})

Crash ==
  /\ Fails
  /\ store' \in LeftBehind
  /\ updated' = (updated \/ (store' # store /\ request.at = "save"))
  /\ staticSubscribers' = [k \in Key |-> NoEvents]
  /\ validSubscribers' = {} /\ disableEvents' = <<>> /\ hasInit' = FALSE
  /\ task' = NoTask /\ request' = NoRequest /\ acked' = {} /\ delayed' = <<>> /\ missed' = {}
  /\ UNCHANGED <<installed, notices, tasks, requests>>

Next ==
  \/ \E k \in Key : BundleManager(k)
  \/ \E p \in Publication : PublishCommonEvent(p)
  \/ InitAllowList \/ QueryIntoMemory \/ QueryExtensionInfos \/ ConvertLegacy
  \/ UpdateSubscriber \/ Connect \/ EndPublish
  \/ task.at = "serve" /\ \E s \in task.todo : Check(s)
  \/ \E k \in Key : DelayedConnect(k)
  \/ \E k \in Key, enable \in BOOLEAN :
       \/ \E events \in SUBSET Event : SetStaticSubscriberStateByEvents(k, events, enable)
       \/ SetStaticSubscriberState(k, enable)
  \/ Save \/ Crash

Spec == Init /\ [][Next]_vars

-----------------------------------------------------------------------------
(***************************************************************************)
(* Properties                                                              *)
(***************************************************************************)

Request == [at : {"save"}, key : Key, events : SUBSET Event, enable : BOOLEAN]
Task(todo) ==
  {NoTask} \cup [at : {"allow"}, p : Publication, todo : SUBSET (Key \X Event)]
           \cup [at : {"query", "update"}, p : Publication]
           \cup [at : {"extensions", "legacy"}, p : Publication, legacy : SUBSET StoreKey]
           \cup [at : {"serve"}, p : Publication, todo : SUBSET todo, boot : SUBSET Key]
           \cup [at : {"connect"}, p : Publication, todo : SUBSET todo, key : Key]

\* Every reachable state is well typed: in particular the store holds only
\* bags of events and legacy values, under keys of known bundles.
TypeOK ==
  /\ installed \subseteq Key
  /\ notices \in Seq({PACKAGE_ADDED, PACKAGE_CHANGED, PACKAGE_REMOVED} \X Key)
  /\ staticSubscribers \in [Key -> [Event -> 0..MaxTasks]]
  /\ \A s \in validSubscribers : s.event \in Event /\ s.key \in Key
  /\ DOMAIN disableEvents \subseteq Key
  /\ \A k \in DOMAIN disableEvents : disableEvents[k] \in [Event -> Nat]
  /\ hasInit \in BOOLEAN /\ updated \in BOOLEAN
  /\ DOMAIN store \subseteq StoreKey
  /\ \A sk \in DOMAIN store : store[sk] \in StoredValue
  /\ task \in Task(validSubscribers)
  /\ request \in {NoRequest} \cup Request
  /\ acked \subseteq Key \X Event
  /\ delayed \in Seq([p : Publication, keys : SUBSET Key])
  /\ missed \subseteq Key
  /\ tasks \in 0..MaxTasks /\ requests \in 0..MaxRequests /\ faults \in 0..MaxFaults

\* An event that a bundle has switched off with ERR_OK, and has not switched
\* on again, is in the store, whatever initialisations, requests of other
\* bundles and package events came in between, up to the next crash, failed
\* write or legacy conversion (UpdateDisableEvents, InitValidSubscribers and
\* UpdateStaticSubscriberState, which rewrites the entries of all bundles).
AckedIsStored ==
  \A a \in acked :
    LET sk == <<"user", a[1]>>
    IN sk \in DOMAIN store /\ a[2] \in InBag(store[sk].events)

\* Extension k is to be started for the publication that is being served.
Chosen(k) == \/ task.at = "connect" /\ task.key = k
             \/ task.at = "serve" /\ k \in task.boot

\* From the return of that request on, no extension is chosen for the event
\* any more (IsDisableEvent in PublishCommonEventInner), even by a publication
\* that was already being served.  What was chosen before is still started: at
\* most one extension of a publication, or all that a boot task has put aside.
DisabledIsSilent ==
  [][\A k \in Key : Chosen(k)' /\ ~Chosen(k) => <<k, task.p.event>> \notin acked]_vars

\* Once its package event was handled, a removed bundle of an active account
\* is not among the valid subscribers, and an initialisation that runs in
\* between does not bring it back (RemoveSubscriberWithBundleName,
\* InitValidSubscribers).  A removal whose account look-ups failed is made up
\* for by the next initialisation or package event of the bundle.
RemovedIsForgotten ==
  \A s \in validSubscribers :
    s.key \in installed \/ App[s.key].user \notin ActiveUser
      \/ <<PACKAGE_REMOVED, s.key>> \in ToSet(notices)
      \/ s.key \in missed
      \/ (/\ task.at \notin {"idle", "serve", "connect"}
          /\ task.p.event = PACKAGE_REMOVED /\ task.p.about = s.key)

\* The profile of k declares the event, in an entry whose permission the
\* publisher of p has.
DeclaredFor(k, p) ==
  \E i \in DOMAIN App[k].profile :
    LET entry == App[k].profile[i]
    IN /\ entry # Bad /\ entry.name = App[k].name /\ p.event \in entry.events
       /\ VerifyPublisherPermission(p, entry.permission)

\* Everything that is to be started, at once or by a boot task.
ToStart ==
  {[p |-> task.p, key |-> k] : k \in IF task.at = "idle" THEN {} ELSE {x \in Key : Chosen(x)}} \cup
  UNION {{[p |-> delayed[i].p, key |-> k] : k \in delayed[i].keys} : i \in DOMAIN delayed}

\* An extension of an ordinary account is started only for events of its
\* account or of all, and every extension only for events it is allowed, that
\* its profile declares and whose publisher has the permission it asks for
\* there, whatever packages came and went since it was read.
StartedIsEntitled ==
  \A x \in ToStart :
    /\ App[x.key].user > 99 => x.p.userId \in {ALL_USER, App[x.key].user}
    /\ x.p.event \in App[x.key].allowed /\ DeclaredFor(x.key, x.p)

\* The interface of SetStaticSubscriberState: "Returns ERR_OK if success".
\* A request that returns ERR_OK leaves the named events as it was asked to.
SuccessIsEffective ==
  [][(request.at = "save" /\ request' = NoRequest
        /\ UpdateStaticSubscriberState(disableEvents, TRUE))
       => IF request.enable THEN Disabled(request.key) \intersect request.events = {}
          ELSE request.events \subseteq Disabled(request.key)]_vars

=============================================================================
