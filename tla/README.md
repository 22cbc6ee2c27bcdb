# Common Event Service: a TLA+ development

TLA+ models of the OpenHarmony Common Event Service (`src/`), the TLC runs that
check them on small instances, and TLAPS proofs about them for every instance.
`PROJECT.json` lists components, runs, mutants, the definition-to-source map,
hazards, findings and theorems.

## 1. The system

The Common Event Service (CES) is a system ability. Applications publish common
events; CES hands them to the applications that subscribed. Events are
*unordered* (every receiver at once), *ordered* (one receiver after the other,
by priority, each with 10 s to answer) or *sticky* (the last one is kept and
replayed to new subscribers). Applications that are *frozen* get their events
when they are unfrozen. *Static* subscribers are extensions that are started
when an event arrives.

### Executors

| executor | runs |
|---|---|
| `CesSrvMain`, a serial ffrt queue ("the service") | publish, subscribe, unsubscribe, finish and freeze requests, one at a time |
| `ordered_common_event`, a serial ffrt queue ("the dispatcher") | `ProcessNextOrderedEvent`, the delayed `CurrentOrderedEventTimeout` |
| `unordered_common_event`, `unordered_immediate_common_event` (the two "workers") | one task per unordered event; the second also one task per event kept for a frozen subscriber |
| the queue of `AbilityManagerHelper`, one queue per connection | connections to extensions and their delayed disconnection; notifications |
| binder threads of the service | death recipients, callbacks of the ability manager |
| IPC threads of the service | the first checks of every request, `RemoveStickyCommonEvent`, `SetStaticSubscriberState`, the flood check |
| in the application: its threads, the status listener's binder threads, the resubscription queue, a queue per listener | calls of the library, restarts of the service, delivery to subscribers |
| in a script's process: the script's thread and a pool of workers | calls of the bindings and their completions; the works they queue |

### Inventory

| component | state | operations | hard behaviour | what makes it correct |
|---|---|---|---|---|
| Ordered dispatch (`CommonEventControlManager`) | queue of `OrderedEventRecord`s, `scheduled_`, pending time-out; per record receivers, cursor, `state`, `curReceiver`, delivery states, result | publish, dispatch round, time-out, finish, unsubscribe while awaited, final answer | service and dispatcher race on a record; state loaded before the lock; one timer for all receivers; receivers that never answer | one turn at a time in order of priority, no event forgotten, no receiver skipped or timed out early, no event cut short, everyone answered in the end |
| Unordered delivery and frozen events (same class and `CommonEventSubscriberManager`) | event tasks, `isFreeze` per subscriber record, `frozenEvents_` by uid, `frozenEventsMap_` by pid | publish, deliver, Freeze, Unfreeze, SetFreezeStatus, UnfreezeAll, removal, compaction | the flag is read without the lock and used later; two maps emptied by different requests; stale records after compaction | nothing is lost while the receiver lives, nothing leaves a map twice |
| Subscriber tables (`CommonEventSubscriberManager`) | `subscribers_`, `eventSubscribers_`, `subscriberCounts_`, death recipients | subscribe, subscribe again, unsubscribe, death, limit and kill, compaction | lookup and insertion are separate critical sections; death at any point | one record per listener, index and counts agree with the records, the living are watched, the largest is killed |
| Matching and permissions | none (decisions) | `GetSubscriberRecordsByWantLocked` and its conditions | many conditions on users, permissions, versions | events stay in the accounts they are meant for |
| Publication checks (`InnerCommonEventManager`, `PublishManager`) | publish control table, flood window per uid | user id and publisher checks, flood check | users resolved twice by different rules; window at its limit | no event for a foreign user, at most the allowed rate |
| Sticky events (`CommonEventStickyManager`) | last record per event | update, replay, get, remove | publication, subscription and removal on two threads | whoever is entitled gets the last event, before or after |
| Static subscribers (`StaticSubscriberManager`, `StaticSubscriberDataManager`) | allow list, valid subscribers, disabled events, key-value store | lazy initialisation, publish, switch on/off, package events, migration | store rewritten entry by entry, initialisation without the mutex, crashes | what was switched off stays off and chooses nobody, the removed is forgotten |
| Static connections (`AbilityManagerHelper`, `StaticSubscriberConnection`) | connection cache, events waiting in a connection, notification queue, delayed tasks | connect, notify, disconnect, refusal, death | late connection, delayed task of an earlier event | events delivered in order, not cut early, connections released |
| Client library (`CommonEvent`, listener, death recipient) | listener cache, readiness flags, queues | subscribe, update, unsubscribe, publish with a receiver, re-subscribe | restart of the service in the middle of calls of several threads | cache within its limit and in step with the service after a watched death, silence of a stopped listener |
| Bindings (napi, legacy napi, ani, Cangjie, C) | subscriber map, wrapped subscribers, callback references, results of ordered events | every call, its work and its completion | works in any order, events in between, end of the environment | promises kept, publications as asked, ordered events answered once and by one side |
| Request entry (`CommonEventManagerService`) | the service queue | caller checks, submission | | |
| Data classes, extension, cem, dumps, helpers | none that outlives a call | conversions, formatting, calls to other services | | not modelled |

Interactions: the request entry submits to the service queue; the inner manager
calls the static manager, the sticky table and the control manager in that
order for a publication; the control manager asks the subscriber manager for
receivers and keeps the records it gets (shared pointers) in the event; the
static manager hands entitled extensions to the ability manager helper; the
death recipient calls the subscriber manager from a binder thread. The bindings
call the client library, which calls the service over IPC; the service calls
back into the listeners. The hazards this creates are listed, with the line
where each bites, in `PROJECT.json`.

## 2. Modules

| module | models |
|---|---|
| `OrderedEvents` | ordered dispatch |
| `OrderedBroadcast` | what ordered dispatch promises (abstract specification) |
| `OrderedImplementation` | `OrderedEvents` as an implementation of `OrderedBroadcast` |
| `OrderedEventsProofs` | theorems about them: the wake-up, the turns, the refinement |
| `UnorderedEvents`, `UnorderedEventsProofs` | unordered delivery and the freeze interface; theorems |
| `SubscriberManager`, `SubscriberManagerProofs` | the subscriber tables; theorems |
| `Matching` | user ids, permissions and matching, as operators |
| `Publication`, `PublicationProofs` | request entry, checks, flood window, sticky table, extends `Matching`; theorems |
| `StaticSubscribers`, `StaticSubscribersProofs` | static subscribers and their store; theorems |
| `StaticConnection`, `StaticConnectionProofs` | connections to static subscribers; theorems |
| `ClientLibrary`, `ClientLibraryProofs` | the library in an application; theorems |
| `ScriptBinding` | what the bindings share: the script, works, results, the map |
| `NapiCommonEvent`, `NapiCommonEventLegacy`, `AniCommonEvent`, `CjCommonEvent`, `OhCommonEvent` | the five bindings; each extends `ScriptBinding` |
| `Bindings`, `BindingsProofs` | the five side by side, for any set of scripts; theorems |
| `MCOrderedEvents`, `MCUnorderedEvents`, `MCSubscriberManager`, `MCPublication`, `MCStaticSubscribers`, `MCClientLibrary`, `MCBindings` | values and scripts for the runs |

A step is one locked section of the code or one access to a shared variable
outside of a lock. Locals that live across a step are variables of the executor
(`dpc`, `sp`, `removedRecords` of the dispatcher, `spc`, `recordPtr`, `loaded`,
`answer` of the service, `call` of an application's thread). Payloads, names,
logging and reports are left out. A definition introduced by "Mutant:" is a
wrong variant of the definition after it; no action uses it, it is there to
show that a property would notice such a mistake.

### OrderedEvents, OrderedBroadcast

Records are numbered in order of publication. `receivers`, `resultTo`, `state`,
`nextReceiver`, `curReceiver`, `deliveryState` and `resultAbort` are the fields
of `OrderedEventRecord`; `result` stands for code and data and remembers whose
answer it is. `orderedQueue` holds the submitted `ProcessNextOrderedEvent`
tasks, `timer` the delay of the time-out task (`Off` when
`pendingTimeoutMessage_` is false), `receiverAge` and `dispatchAge` the time
since the current receiver and the event were dispatched.

* Publication: `ProcessOrderedEvent` (record, sort by priority, enqueue), then
  `ServiceReadScheduled` and `ServiceSubmit` (the two halves of
  `ScheduleOrderedCommonEvent`).
* A round: `StartProcessNext`, `SelectRemove`* and `SelectDone`
  (`ProcessOrderedEventQueueLocked` under `orderedMutex_`),
  `HandleFinalSubscriber`*, `PrepareNextReceiverRecord`,
  `NotifyFrozenSubscriber` or `NotifyOrderedEvent`,
  `HandleOrderedNotifyResult`, `CheckCurReceiver`.
* Time-out: `StartTimeout` (with `CheckAndRescheduleTimeout`),
  `HandleTimeoutReceiver`; `Tick` is the clock.
* Finish: `FinishReceiver` or `UnsubscribeCommonEvent` match the front record;
  `FinishLoadState` is the load before the lock, `FinishStoreIdle` and
  `FinishApply` the locked section, split after its first store because the
  dispatcher reads `state` and `resultAbort` without `recordMutex_`.

A subscriber may answer any notification it has, late or never, or abort; its
listener may also be the one that is told the final result.

`OrderedBroadcast` has none of this: events are published, the current one is
offered to its receivers in order, a turn ends, answers come, an event becomes
overdue, ends, and its publisher is told. Under the mapping of
`OrderedImplementation` a turn lasts from the advance of `nextReceiver` to the
end of the notifying task and on while the record is not IDLE; an event is over
when it leaves `orderedEventQueue` and told when it leaves `removedRecords`.

### UnorderedEvents

A subscriber record is `<<subscriber, generation>>`: the compaction gives every
subscriber a new record (generation 1), and the events published before hold
the old ones. `isFreeze` is the set of frozen records. `ProcessUnorderedEvent`
publishes to any subset of the subscribers, on the queue of system or of other
events. A worker takes an event (`StartNotify`), visits its receivers in any
order (`NotifySingleUnorderedSubscriber`, or `HandleFrozenUnorderedSubscriber`
followed by `InsertFrozenEvents` and `InsertFrozenEventsMap`, each a locked
section) and ends (`FinishNotify`). An unfreeze request clears flags
(`Request`) and then empties maps (`GetFrozenEvents`,
`GetFrozenEventsMapByPid`, or `GetAllFrozenEvents`, which empties nothing); the
tasks it submits in a row are one entry of the immediate queue that
`NotifyFreezeEvents` works off. `RemoveSubscriber` may happen at any time.

### SubscriberManager

`InsertSubscriber` is the lookup; `AddDeathRecipient`, then `InsertRecord`,
`RejectRecord` or `InsertAndKill`, or else `UpdateSubscriberRecordLocked` follow
as steps of their own. Removal is split into `RemoveDeathRecipient`
(`UnsubscribeCommonEvent`) and the locked section. Binder is external:
processes die, a registered recipient is called once per dead listener
(`SendObituary`, `OnRemoteDied`), and `AddDeathRecipient` on a listener whose
death was reported has no effect.

### Matching, Publication

`Matching` has one operator per decision of the code, under the code's name: who
a caller is (`ComeFrom`), for which user a request is (`UserIdAllowed`,
`ResolvedUserId`, `MayNameUser`), publish control and sticky permission, and the
conditions of `GetSubscriberRecordsByWantLocked` joined in `Matches`. Callers,
events and subscriptions are records of what the access token, account and
bundle managers say; the table of event permissions is a constant.

`Publication` logs every publication in `attempts`. `PublishCommonEvent`,
`SubscribeCommonEvent` and `UnsubscribeCommonEvent` are the IPC half of a
request (checks, flood window, submission), `PublishTask`, `SubscribeTask` and
`UnsubscribeTask` the half on the service queue; `RemoveStickyCommonEvent` has
no second half. `deliveries` records to whom the control manager is told to
hand an event, and whether as a replay of a sticky one.

### StaticSubscribers, StaticConnection

In `StaticSubscribers` the service's task walks through `PublishCommonEvent`:
the lazy initialisation in its steps (`InitAllowList`, `QueryIntoMemory`,
`QueryExtensionInfos`, `ConvertLegacy`), `UpdateSubscriber` for package events,
and the loop of `PublishCommonEventInner` over the subscribers of the event.
There `Check` is `IsDisableEvent` and the other conditions, and `Connect` the
start, a step of its own because nothing is locked in between; of
BOOT_COMPLETED (a parameter: only some builds delay it) the chosen ones are put
aside, submitted by `EndPublish` and started later by `DelayedConnect`, which
looks at nothing again. Requests to switch events off or on run beside all this
in two steps (change of `disableEvents_`, `Save`). Every question to the bundle
and account services may fail (`Fails`), and what the code does then is in the
action that asks: a bundle is passed over, the initialisation given up, or a
package event dropped. `store` is the
key-value store with entries of current, legacy and malformed form; a write may
fail and `Crash` leaves any prefix of the writes of a step behind. Vectors of
events are bags, because the code can insert an event twice. A bundle that is
added, changed or removed leaves a package event in `notices`, of which at most
`MaxNotices` wait to be published. `acked` has the events that were switched off
with ERR_OK and not switched on again, `missed` the removed bundles whose package
event was dropped; both are read by properties only.

`StaticConnection` numbers connection objects. `ConnectCached` and `ConnectNew`
are the two ways of `ConnectAbility`, `OnAbilityConnectDone`, `...Failed` and
`RemoveConnection` the callbacks, `StartNotify` and `EndNotify` a notification
task. `DisconnectAbility` is the delayed task with the action it was scheduled
for: it takes the helper's mutex and removes its event; `TestAction`
(`IsEmptyAction`, without a lock), `Clear` (with the connection's mutex) and
`Erase` follow as steps of their own, since the callbacks and the notification
tasks take the connection's mutex only. `RemoveConnection` enters at `Clear`.
`dropping` is the disconnection that holds the helper's mutex. The extension is
external.

### ClientLibrary

Listener objects are numbered. A call of a thread goes through
`SubscribeSAManager` (the registration of the status listener, which may fail
without anybody looking at it), `CreateCommonEventListener`, `SendSubscription` and, when refused,
`UndoSubscription`; or `SendUnsubscription`, `Stop`, `EndStop`.
`ServiceDies` and `ServiceReturns` queue notices, which `OnRemoveSystemAbility`
and `OnAddSystemAbility` take; `Resubscribe` (the proxy is fetched before the
lock is taken), `ResubscribeLocked` and `ResubscribeOne` are the task on the
resubscription queue. `NotifyEvent`, `OnReceiveEvent` and
`EndReceiveEvent` are delivery from a listener's queue. `unseen` has the
listeners the service lost in a death for which the status listener was not
registered; only `RestartIsSeen` reads it.

### The bindings

A behaviour of `Bindings` runs one script, a sequence of calls from `SCRIPTS`, on
one of the bindings. Of the scripts it is assumed only that one that subscribes
names a subscriber, or nothing where the language lets it (`ScriptsAssumption`).
A call parses its arguments (one operator per parsing function; the set it returns
is empty when the call is refused), queues a work (`Submit`), which runs on the
pool in any order (`Execute`) and is completed on the script's thread
(`Settle`); synchronous calls do it in one step. A value of a script is its
type and a number: of a string its length, which is what the fixed buffers of
the napi bindings care about. `TakeResult` and `OnReceiveEvent` are the
listener's side, `ThreadSafeCallback` the callback on the script's thread,
`Finalize` the collection of a subscriber, `EnvExit` the end of the
environment. The bindings differ in when the subscriber enters the map, when
the result is taken over and what a failed call leaves; that is why each has a
module of its own. In the Cangjie binding and the C interface a work is a call
that a thread of the program is in and its settling the return of the call; the
callback runs on the listener's thread. The Cangjie binding converts the
parameters of an event before it calls back (`ParseParameters`), and finds a
subscriber again by the info it was made from (`GetManagerId`).

## 3. Runs

| run | instance | shows |
|---|---|---|
| `ordered_two_events` | 2 events, 2 receivers, time-out 1 tick; states told apart by `DispatchView` | `NoLostWakeup`; `ImplementsBroadcast`: the dispatch implements `OrderedBroadcast` |
| `ordered_leave_freeze` | 1 event, 2 receivers that leave, one of them frozen and also the publisher's listener; fair executors | type invariant; `NoReceiverSkipped`, `NoEarlyTimeout`, `NeverCutShort`, `EventuallyAnswered` |
| `ordered_abort` | violation | `AbortStopsDelivery`: an aborted event reaches the next receiver |
| `unordered_freeze_both` | 2 events at times 0..2, one subscription, 4 freeze requests of both kinds | `NothingLost` with outdating, `OncePerMap` |
| `unordered_liveness` | 1 event, 2 subscriptions, one without proxy; fair queues | `EventuallyServed` |
| `subscriber_tables` | a process with two listeners and one with one, 2 events, 2 records, limit 1; fair service and binder | `OneRecordPerListener`, `IndexComplete`, `OrphansAreDead`, `CountsMatch`, `LiveAreWatched`, `KillsLargest`, `WatchedAreForgotten` |
| `publication` | 4 callers of 2 accounts, 2 publications and 2 subscriptions, window of 1 | `FloodBound`, `UserIsolation`, `StickyNewest`, `StickyReachesAll` |
| `static_connection` | 3 events of 2 names for one extension, 2 connections, delay 2; fair queues | `DeliveredInOrder`; `WaitingIsKept` and `NotCutEarly`, a connection that comes up late excepted; `EventuallyReleased` |
| `static_subscribers` | 2 extensions, 2 events, 2 publications, 2 requests, 1 fault, 1 package event in waiting, a fresh store and one of an earlier version; one of the events is BOOT_COMPLETED | `AckedIsStored`; `RemovedIsForgotten`, failed look-ups excepted; `StartedIsEntitled`; `DisabledIsSilent` of what is chosen after the request |
| `static_enable` | violation, same instance | `SuccessIsEffective`: a request returns ERR_OK and the event is still off |
| `client_library` | 3 subscribers (one on the main handler), 2 threads, limit 2, 3 calls; 2 incidents among up to 2 deaths, 1 refusal and 1 event; a registration of the status listener that may fail | `ListenersBounded`, `RestartIsSeen` of the deaths that were watched, `KnownIsLive`, `UnsubscribedIsSilent` of the call that stops a listener |
| `bindings` | scripts that cover every call, 1 subscriber, 2 events (one ordered, one sticky) | `PromisesKept`, `HeldIsHeard`, `HeardIsHeld`, `AnsweredOnce`, `PublishedAsAsked`, `SilentAfterUnsubscribe`, `ReadsOwnWrites` |

Why the bounds are enough. Ordered and unordered delivery: the races are between
one task of each executor and at most two events (the one at the front and the
one behind it, or an earlier and a later kept one), and between one receiver and
the next; a time-out of one tick separates "in time" from "late". Four freeze
requests give freeze, unfreeze and freeze again by both interfaces. Tables: with
a limit of one, a second listener of the same process is turned away and one of
the other process has the first one killed, or both stay when the kill fails;
larger tables are covered by the proofs. Publication: two publications at a
window of one are the smallest flood, and a sticky event, its successor and a
subscription before, between or after them are all orders there are. Static
connections: three events are one that opens the connection, one that waits in
it and one that comes while the disconnection of the first is pending. Static
subscribers: one publication initialises, the other (a package event or not)
runs into what the requests have changed; the package events of one of the two
bundles are published, while the other's stay behind. The store of an earlier
version has a legacy value for one bundle and a list for the other, which the
conversion of the first loses. A request can come between the choice of an
extension and its start, at once or after the boot delay, and the one fault may
be the account look-up of a removal. Client: two deaths interrupt a resubscription of
two listeners, and every two of a death, a refusal and an event come together
(`MaxIncidents`), three of them only in the proofs; a limit of two with three
subscribers is reached by two threads at once. Bindings: what the calls keep
between them is kept per subscriber, and two events are the one being dealt with
and the one that replaces it; the works of two calls about a subscription race
in every binding, those of three in the newer napi binding and in the C
interface.

Every bound (`MaxRecords`, `MaxEvents`, `MaxRequests`, `MaxTime`, `MaxTasks`,
`MaxCalls`, `MaxDeaths`, ...) is a named constant in the guard of the action it
limits. Deadlock checking is off because a service whose bounded clients have
fallen silent is at rest. Symmetry is used in `client_library` only, between the
two queue-mode subscribers and between the threads; it checks invariants. A view
is used in `ordered_two_events` only: it leaves out `result` and `deliveryState`,
which steps write and neither a step nor the two properties of that run read;
the properties that look at them are in `ordered_leave_freeze` and `ordered_abort`.

### Fairness

`FairSpec` of a module asks weak fairness of the executors' steps (ffrt runs
what was submitted and a started task goes on) and of the clock where there is
one; in `SubscriberManager` of binder reporting the death of a watched process;
in `StaticConnection` of the reporting of an extension's death and of a
synchronous call returning (it returns with an error when the extension's
process is killed), and of a disconnection, once it holds the helper's mutex,
going on to its end. Nothing is assumed of publishers and subscribers: they may
be silent for ever.

## 4. What the violations show, and other observations

Two runs end in a violation of what the repository says of itself:

* **An aborted event is passed on.** `FinishReceiver` stores `state = IDLE`
  before `resultAbort`; the dispatcher tests both without `recordMutex_`. A
  round that a later publication has submitted (in the trace TLC gives) or that
  an earlier time-out has left over falls in between.
* **A request to switch a static event on has no effect.** The initialisation
  reads the store into `disableEvents_` without `disableEventsMutex_`: between
  the look at the memory and its saving it puts the stored entry there, which
  the request has erased or did not find because it was not read yet; the saving
  stores it, and the request returns ERR_OK.

The models also show behaviour that no document contradicts; the properties are
stated so as to allow it, and say so where they do:

* A finish names only the listener: a late answer, or the answer of a
  publisher's listener to the final notification, is applied to the front event
  if the same listener is its current receiver.
* An event may be kept for an application just after its unfreeze, until the
  next one; UnfreezeAll hands over copies from both maps and keeps them.
* Whatever the system publishes, for whichever account, is seen by every
  subscriber in a system account (0..99), ordinary applications included;
  `UserIsolation` counts these accounts in the audience of a system publication.
* Replay of a sticky event does not look at the publisher's maximum version
  (`SetSubscriberMaximumVersion` of `CommonEventPublishInfo`).
* The allow list of static subscribers is appended again when an account comes
  to the foreground, so that an event may be in it twice; a stored empty list
  makes later queries of the store fail.
* An extension that is chosen for an event is started although the event is
  switched off, with ERR_OK, before the start: nothing is locked from
  `IsDisableEvent` to `ConnectAbility`, and a boot task starts the extensions it
  has put aside without asking again, after its delay. `DisabledIsSilent` is
  about the choice.
* When the account of a removed bundle, or the active accounts, cannot be looked
  up, the package event is dropped and the bundle stays a valid subscriber until
  the next initialisation or package event of the bundle (`missed`).
* A connection to a static subscriber that comes up after a disconnection has
  found no event on it, and before its `Clear`, is cut all the same: the events
  cached in it have become tasks, which then find no proxy and are skipped.
  `WaitingIsKept` and `NotCutEarly` except this, and TLC finds each violated
  without the exception.
* When the status listener cannot be registered with the system ability manager,
  the subscription goes on and nobody sees the service's death: the library
  keeps listeners that are not subscribed again, and a later subscription of the
  same subscriber finds the cached one and sends nothing. An update by the
  application or a later death that is watched makes up for it (`unseen`).
* Of two unsubscriptions of one subscriber the second finds no listener and
  returns ERR_OK while the first still waits for the task that runs; a listener
  that a failed resubscription has dropped is never stopped, so an
  unsubscription after it does not wait either. `UnsubscribedIsSilent` is about
  the call that stops the listener.
* A publication with a final receiver leaves the receiver's listener in the
  client's cache; a second death of the service during the resubscription makes
  the library drop the listeners whose request failed.
* A napi subscription that is refused leaves its callback and thread-safe
  function behind; ani's `setCodeAndData` casts the code to eight bits; ani's
  `publishAsUser` copies the want before the parameters are put in.
* The Cangjie binding takes the result of an ordered event over before it
  converts the event's parameters. When they hold an array without elements or
  an object that is no file descriptor (`NONE_VALUE` is the same number as
  `ERR_CES_FAILED`), the event is dropped: nobody answers it, and the service
  waits for its time-out.
* The Cangjie binding's `SetCallback(nullptr)` leaves `*valid_` set, so that an
  event that arrived before its unsubscription, or one that comes after an
  unsubscription that the service refused, calls an empty function and ends the
  process (`CallOfEmptyCallback`). The model follows the program up to there.

## 5. Proofs

TLAPS proves the following for any subscribers, priorities, processes, events,
bounds and limits that satisfy the named assumptions of the modules (finite
sets, natural bounds, `None` not a value of anything else).

`OrderedEventsProofs`: `TypeCorrect`, `NoLostWakeupHolds`,
`TimerCoversTurnHolds`, `ScheduledMeansSubmittedHolds`. None of these is
inductive. `IndInv` adds: the queue is an interval of the publication order
(`QueueIsInterval`), records behind the front and unpublished ones are untouched
(`BehindFrontUntouched`, `UnpublishedUntouched`), what each executor's locals
mean where it stands (`DispatcherLocals`, `ServiceLocals`), a record that is
with a receiver is timed (`TurnIsTimed`), and the wake-up in every state in
which the dispatcher selects nothing more (`Woken`). The argument: a finish that
loaded `RECEIVING` submits no task, but then the front record has been
dispatched, and from dispatch to removal the timer is pending or the time-out
task itself is running.

The same module has `NoReceiverSkippedHolds`, `OnlyFrontInTurnHolds`,
`NoEarlyTimeoutHolds` and `NeverCutShortHolds`. `DeliveryInv` adds to `IndInv` what
a turn is in terms of the clock and the record: a record that was never
published has no receivers (`UnpublishedEmpty`), a time-out task that has passed
its check is for a turn that really is due (`TimeoutIsDue`), and a record that is
IDLE, or that has left the queue, is with nobody, unless a finish is just about
to clear its receiver (`IdleIsFree`, `LeftIsFree`). The two action properties then follow from one
step out of a state that satisfies it: only the dispatcher removes a record, and
it does so when every receiver has been served, on an abort, or when the event
is overdue.

At the end of the module stands `Refinement`: that `OrderedEvents` implements
`OrderedBroadcast`. The mapping needs `RefInv`: `IndInv`, and that a record the
dispatcher has selected is still IDLE when `PrepareNextReceiverRecord` comes to
it after the final notifications (`SelectedIsIdle`: only the dispatcher starts a
turn, and a finish only makes a record IDLE). Initial states map to initial
states (`InitMapped`), and each action to one of the broadcast or to none:
`ProcessOrderedEvent` to Publish, `PrepareNextReceiverRecord` to Offer,
`FinishStoreIdle`, `CheckCurReceiver` and `HandleTimeoutReceiver` to EndTurn or
none, `FinishApply` to Answer or none, `Tick` to GetOverdue or none,
`SelectRemove` to End, `HandleFinalSubscriber` to Tell, the others to none.

`UnorderedEventsProofs`: `TypeCorrect`, `NothingLostHolds`, `OncePerMapHolds`,
for any subscribers, uids, pids, requests and times of the events.
`UnorderedInv` adds: an event has one task (`EventTasks`), and as long as the
task has yet to come to a receiver, nothing is recorded for it (`StatesOK`);
what is in a map or on its way out of one was skipped for its receiver, and no
vector has it twice (`KeptOK`); what a worker is about to keep is not there yet
(`KeepingIsNew`); only interfaces in use ask for a flush (`FlushOK`). The bound
on deliveries needs to count what may still come: notifications, copies on the
immediate queue, and one for each map from which a request in use can still take
the event, are together no more than the kinds of request (`CopiesBounded`). A
step of a flush moves one of the last kind to the second, `NotifyFreezeEvents`
one of the second to the first. `UnfreezeAll` takes copies, so the bound is for
systems without it. `NothingLost` is inductive once the others hold: an event
that `AppendKept` drops is outdated by the one it makes room for, and that one
was skipped for the same receiver, which it remains.

`SubscriberManagerProofs`: `TypeCorrect`, `OneRecordHolds`,
`IndexCompleteHolds`, `OrphansAreDeadHolds`, `CountsMatchHolds`,
`LiveAreWatchedHolds`, `KillsLargestHolds`. `IndInv` adds that only created
records are referred to (`CreatedOnly`), that what a lookup found still means
something when it is used (`LookupHolds`: only the service inserts, so no record
of the listener has appeared; one that was found is gone only if the listener is
dead) and that obituaries are of dead processes (`WatchIsKept`). `InsertedRecord`
and `RemovedRecord` are the two lemmas on tables that the actions share.

`PublicationProofs`: `TypeCorrect`, `FloodBoundHolds`, `UserIsolationHolds`,
`StickyNewestHolds`, `StickyReachesAllHolds`, from `PublicationAssumption` (the
limits are natural numbers, accounts are natural numbers, every listener belongs
to a caller). `PublicationInv` adds: subscriptions in the table passed the checks
of their callers (`SubscribersEntitled`), what waits on the service queue is in
order of the publications it stands for (`QueueInOrder`), a sticky record is of
the action it is filed under (`StickyOfAction`), and the window holds what it
must (`WindowKept`). The bound on the rate rests on the last one: a publication
less than an interval old is in its caller's window, at the place that counts
the caller's publications since, so the oldest of `FloodMax + 1` recent ones
would be beyond the window's end. `StickyNewest` rests on the queue's order and
on the fact that only the service's task files sticky events.

`StaticConnectionProofs`: `TypeCorrect`, `DeliveredInOrderHolds`,
`NotCutEarlyHolds`, `WaitingIsKeptHolds`. `ConnectionInv` says that of one
connection the events that have ended, the one being notified, the ones on its
queue and the ones that wait for the proxy stand in one line (`AllInLine`), that
events wait only without a proxy (`ProxiesOK`), what the delayed disconnections
are for (`TimersOK`), that `action_` counts at least the events that are pending
(`PendingCounted`), and that a connection idle for less than the delay has a
delayed disconnection due when the delay is over (`IdleIsTimed`). Beside it
`DroppingOK` says of a disconnection under way that it is of a cached connection
(`DroppingTyped`), that a connection that had its proxy and no event at the test
stays unused until it is erased (`StillUnused`: only `ConnectAbility` could use
it, and that waits for the helper's mutex), and that the task of a living
extension finds the proxy unless the extension connected late (`QueueHasProxy`).

`StaticSubscribersProofs`: `StaticTypeCorrect`, `AckedIsStoredHolds`,
`RemovedIsForgottenHolds`, `StartedIsEntitledHolds`, `DisabledIsSilentHolds`,
for any bundles, profiles, publications and stores of earlier versions, however
many requests, package events, failed writes and crashes there are.
`StaticInv` (`StaticInvariance`) adds: what was acknowledged is in
`disableEvents_` as well as in the store, and then the store has the current
form (`AckedOK`); the events of a request that is about to be saved are still in
memory (`RequestOK`); a valid subscriber stands in the profile of its bundle and
its event is allowed, and there is none before the initialisation has read the
profiles (`ValidOK`); an event stands in the allow list at most once for every
time the list was read (`AllowListOK`); whoever is chosen, by the publication
that is served or for a boot task, may be started (`StartOK`). `AckedIsStored` is not inductive without the memory: a
save removes the entries of every bundle before it writes the memory back, so
what only the store had would be lost. The memory has it because the
initialisation takes over every stored entry that it lacks, and only a request
of the bundle itself takes an event out of it; a failed write and a crash end
the promise. `DisabledIsSilent` then needs only that `Check` looks into the
memory. `RemovedIsForgotten` is inductive once it is known that the
initialisation starts without valid subscribers: it reads the profiles of the
bundles installed in that very step, and a bundle that is removed later has its
package event on its way, or is in `missed` when that was dropped.

`ClientLibraryProofs`: `TypeCorrect`, `ListenersBoundedHolds`,
`RestartIsSeenHolds`, `KnownIsLiveHolds`, `UnsubscribedIsSilentHolds`.
`ClientInv` adds that notices of the service's death and return alternate and
end in the state it is in (`NoticesOK`), that a listener being stopped is no
longer in the cache (`StoppingIsForgotten`), and that for a restart the library
has not dealt with yet, a notice or a task is on its way (`OwedIsComing`). Since
the registration of the status listener may fail, the last one also has to say
that without the watch nobody is owed anything, and that the next notice of a
return finds `isSAOffline` set: a notice of a return whose death was not watched
leads to no resubscription.

`BindingsProofs`: `BindingsInvariance`, `AnsweredOnceHolds`,
`PromisesKeptHolds`, for any scripts, subscribers, events and limits.
`BindInv` says where a result may be: with at most one subscriber, from where
the listener answers it (`ResultsOK`), or taken over for the script; what the
map holds, what a finish is working on and what the script has answered was
taken over, and what was taken over the listener neither has answered nor will
(`Taken`, `HeldOK`, `AnswersOK`, `FinishingOK`). The two halves of
`AsyncCommonEventResult::FinishCommonEvent` are two steps, so a script that does
not wait may answer an event twice; one that waits has one work at most
(`FinishingOK`). For the promises, a work belongs to one call that was made, and
only an unsubscription without a callback has nothing to report (`WorksOK`).
The five bindings have more than 120 actions. The proof does not go through them
for each conjunct: it defines twelve kinds of step (`Made`, `Ran`, `Tested`,
`Sent`, `Done`, `Entered`, `TookOver`, `WentOn`, `Ended`, `Elsewhere` and the two
of the listener), shows that each kind keeps the invariant, and that every
action of every binding is of one of the kinds (`NewIsStep` to `NativeIsStep`).
What the bindings share is instantiated in each of them; `NewShares` to
`NativeShares` say that it is the same everywhere.

Every inductive invariant was first checked by TLC on the run's instance, that
of `Publication` also with four publications and a window of two and with an
application in a system account, that of `UnorderedEvents` also with other
interfaces in use and with a receiver without a proxy, that of
`StaticSubscribers` also with two package events in waiting. Each proof has one
lemma per action, in `BindingsProofs` per kind of step (and under it one step per
conjunct the action can disturb), a step lemma combines them, and the temporal
theorems follow by PTL. Two of the proofs corrected the
project: `OwedIsComing` needs to know who holds the library's mutex, and a
resubscription of an empty cache held it for ever in the model, because taking
the lock was part of fetching the proxy; and the case of an ordinary
application in a system account, which no run's instance has, was missing from
`Audience`.

Only model-checked:

* liveness (`EventuallyAnswered`, `EventuallyServed`, `WatchedAreForgotten`,
  `EventuallyReleased`): fairness and ENABLED are out of the prover's reach;
* `HeldIsHeard`, `HeardIsHeld` and `SilentAfterUnsubscribe`: they hold of scripts
  that deal with one subscriber at a time, as those of the run do. A script may
  name two subscribers in one call, or create one again while its subscription
  is under way, and then `Names` and `Leaving` no longer say which of them a call
  is about; what would have to be assumed of a script is most of the script;
* `PublishedAsAsked` and `ReadsOwnWrites`: what a conversion makes of the
  arguments of a call. They are about well-typed scripts, and proved they would be
  the parsing functions read once more; a run that covers every function is the
  better tool.

## 6. Abstractions

* In `OrderedEvents` and `UnorderedEvents` any set of subscribers may match an
  event; which ones do is in `Matching` and `Publication`.
* A wall clock that is set back is covered in `UnorderedEvents` by letting
  every event have any time; monotonic time elsewhere is a tick.
* `NotifyEvent` is a one-way call: it succeeds or fails, at the choice of the
  environment, and the subscriber acts on it later or never.
* The frozen events of ordered delivery are a set in `OrderedEvents`; the maps
  themselves are in `UnorderedEvents`.
* The delay before the starts for BOOT_COMPLETED is any time.
* The scripts use codes below 256 and at most as many arguments as the napi
  calls look at.
* Allocation failures and null managers are left out.
* Handles are not used after their release (in the C interface and the second
  version of the Cangjie functions that is undefined); reads and writes of the
  Cangjie callback, which no lock protects, are single steps.

## 7. Not modelled

* Data classes: holders of values, tables of event names and a facade. Dumps and
  reports format what the tables hold and change nothing. `cem` parses options
  and makes one call. Helpers call other system services, whose answers are
  inputs of the models.
* The static subscriber extension runs in the application's process;
  `StaticConnection` sees it as a call that returns, or a process that dies.
* The transfer of subscribers between static and dynamic scripts, the
  parameters by name and type of the C interface, and the getters of a Cangjie
  subscribe info, which read its fields back.
* Start and stop of the ability, the watch for the bundle manager and dump
  requests in the request entry.
* The contents of the event data that an ordered delivery shares with the
  sticky table: an unsynchronised write of strings, listed as a hazard.

## 8. Plan

What would come next: `HeldIsHeard` and `HeardIsHeld` for every script of a
subscriber at a time, with that condition as a definition over scripts instead
of the instance's choice; and the transfer of subscribers between static and
dynamic scripts, where two bindings share a subscriber.
