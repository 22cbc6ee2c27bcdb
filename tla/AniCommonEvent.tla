---------------------------- MODULE AniCommonEvent ----------------------------
(***************************************************************************)
(* The binding for static scripts (interfaces/kits/ani/common_event).  Its *)
(* calls run the native function on the task pool and settle on the        *)
(* script's thread; the Sync calls run it at once.  The arguments have the *)
(* declared types, and strings are copied whole.  Events are handled on    *)
(* the script's own thread (ThreadMode HANDLER).  Transfers between static *)
(* and dynamic subscribers are not modelled: no relation exists.           *)
(***************************************************************************)
EXTENDS ScriptBinding

-----------------------------------------------------------------------------
(* ani_common_event_utils.cpp: the conversions *)

GetStdString(v) == v.n
GetStdStringArrayClass(v) == [i \in DOMAIN v.elems |-> GetStdString(v.elems[i])]

\* a property that is undefined leaves the default
OrUndefined(object, name, default, Convert(_)) ==
  IF name \in DOMAIN object.props THEN Convert(object.props[name]) ELSE default
GetStringOrUndefined(object, name) == OrUndefined(object, name, 0, GetStdString)
GetIntOrUndefined(object, name, default) == OrUndefined(object, name, default, Number)
GetBooleanOrUndefined(object, name) == OrUndefined(object, name, FALSE, Flag)
GetStringArrayOrUndefined(object, name) == OrUndefined(object, name, <<>>, GetStdStringArrayClass)
GetWantParamsOrUndefined(object, name) == OrUndefined(object, name, 0, Number)

ConvertCommonEventPublishData(d) ==
  [bundleName |-> GetStringOrUndefined(d, "bundleName"), data |-> GetStringOrUndefined(d, "data"),
   code |-> GetIntOrUndefined(d, "code", 0), permissions |-> GetStringArrayOrUndefined(d, "subscriberPermissions"),
   ordered |-> GetBooleanOrUndefined(d, "isOrdered"), sticky |-> GetBooleanOrUndefined(d, "isSticky"),
   params |-> GetWantParamsOrUndefined(d, "parameters")]

\* the events, in order and each once (MatchingSkills::AddEvent); there may be none
ConvertCommonEventSubscribeInfo(d) ==
  [events |-> FoldSeq(LAMBDA e, seq : IF Contains(seq, e) THEN seq ELSE Append(seq, e), <<>>,
                      GetStringArrayOrUndefined(d, "events")),
   permission |-> GetStringOrUndefined(d, "publisherPermission"),
   deviceId |-> GetStringOrUndefined(d, "publisherDeviceId"),
   bundleName |-> GetStringOrUndefined(d, "publisherBundleName"),
   userId |-> GetIntOrUndefined(d, "userId", -1), priority |-> GetIntOrUndefined(d, "priority", 0)]

\* a callback or none: in the second case the call returns a promise
CallbackOrPromise(argv, i) == [settle |-> IF Is(Arg(argv, i), "function") THEN "callback" ELSE "promise"]

-----------------------------------------------------------------------------
(* Publishing and the service's other requests *)

publishExecute(argv) == NoPublishData
publishWithOptionsExecute(argv) == ConvertCommonEventPublishData(argv[2])

PublicationGiven(argv) ==
  {[settle |-> "callback", event |-> GetStdString(argv[1]), userId |-> -1,
    info |-> IF Len(argv) = 2 THEN publishExecute(argv) ELSE publishWithOptionsExecute(argv)]}
publish == Request("publish", PublicationGiven, HandedPublication)

publishAsUserExecute(argv) == NoPublishData

\* the want is put into the data before the options are read: the parameters are lost
publishAsUserWithOptionsExecute(argv) == [ConvertCommonEventPublishData(argv[3]) EXCEPT !.params = 0]

PublicationAsUserGiven(argv) ==
  {[settle |-> "callback", event |-> GetStdString(argv[1]), userId |-> Number(argv[2]),
    info |-> IF Len(argv) = 3 THEN publishAsUserExecute(argv) ELSE publishAsUserWithOptionsExecute(argv)]}
publishAsUser == Request("publishAsUser", PublicationAsUserGiven, HandedPublication)

StickyGiven(argv) == {Over(CallbackOrPromise(argv, 2), [event |-> GetStdString(argv[1])])}
removeStickyCommonEventExecute == Request("removeSticky", StickyGiven, HandedSticky)

HandedState(w) == [call |-> w.call, events |-> w.arg.events, enable |-> w.arg.enable]
setStaticSubscriberStateExecute(argv) ==
  Over(CallbackOrPromise(argv, 2), [events |-> <<>>, enable |-> Flag(argv[1])])
setStaticSubscriberStateWithEventsExecute(argv) ==
  Over(CallbackOrPromise(argv, 3), [events |-> GetStdStringArrayClass(argv[2]), enable |-> Flag(argv[1])])
StateGiven(argv) ==
  {IF Is(Arg(argv, 2), "array") THEN setStaticSubscriberStateWithEventsExecute(argv)
   ELSE setStaticSubscriberStateExecute(argv)}
setStaticSubscriberState == Request("setStaticSubscriberState", StateGiven, HandedState)

-----------------------------------------------------------------------------
(* Subscribers *)

CreateSubscriberRef(info) ==
  objects' = Append(objects, info) /\ UNCHANGED <<env_, ref_, tsfn_, hooks, instances, listening>>

\* the object is made by the work
createSubscriberCall ==
  \E c \in NextCall("createSubscriber") :
    /\ Len(objects) < MAX_OBJECTS
    /\ Submit(c, 1, Over(CallbackOrPromise(c.argv, 2), [info |-> c.argv[1]]))
    /\ UNCHANGED <<objectVars, eventVars, published, view>>
createSubscriberExecute ==
  \/ createSubscriberCall
  \/ \E w \in Queued("createSubscriber") :
       /\ CreateSubscriberRef(ConvertCommonEventSubscribeInfo(w.arg.info))
       /\ Execute(w, TRUE, 0)
       /\ UNCHANGED <<eventVars, published, view>>
  \/ Complete("createSubscriber")

createSubscriberSync ==
  \E c \in NextCall("createSubscriberSync") :
    /\ Len(objects) < MAX_OBJECTS
    /\ CreateSubscriberRef(ConvertCommonEventSubscribeInfo(c.argv[1]))
    /\ Return(TRUE, Len(objects) + 1, 0)
    /\ UNCHANGED <<eventVars, published, view>>

\* the work: the callback is set and the library asked ...
SendSubscription(w) ==
  \E ok \in BOOLEAN :
    /\ ref_' = ref_ \cup {w.sub}
    /\ listening' = IF ok THEN listening \cup {w.sub} ELSE listening
    /\ IF ok THEN /\ works' = Moved(w, "subscribed") /\ Outcome(w.call, TRUE, 0, 0)
                  /\ UNCHANGED <<binding, script, pc, settled, alive>>
       ELSE Execute(w, FALSE, 0)
    /\ UNCHANGED <<objects, env_, tsfn_, hooks, instances, eventVars, published, view>>

\* ... then the subscriber enters the map, with the result it has by then
EnterMap(w) ==
  /\ instances' = Over(Entry(w.sub, OwnResult(w.sub)), instances)
  /\ GoAsyncCommonEvent(w.sub)
  /\ works' = Moved(w, "executed")
  /\ UNCHANGED <<binding, script, pc, outcome, settled, alive, objects, env_, ref_, tsfn_, hooks, listening, events,
                 receiving, scriptQueue, heard, answers, published, view>>

SubscribeWork(api) ==
  \/ \E c \in NextCall(api) :
       /\ Submit(c, c.argv[1].n, [settle |-> IF api = "subscribe" THEN "callback" ELSE "promise", sub |-> c.argv[1].n])
       /\ UNCHANGED <<objectVars, eventVars, published, view>>
  \/ \E w \in Queued(api) : SendSubscription(w)
  \/ \E w \in works : w.api = api /\ w.at = "subscribed" /\ EnterMap(w)

\* a subscription that succeeded is reported by nothing
subscribeExecute ==
  \/ SubscribeWork("subscribe")
  \/ \E w \in Executed("subscribe") :
       /\ IF outcome[w.call].ok THEN Forget(w) ELSE Settle(w)
       /\ UNCHANGED <<objectVars, eventVars, published, view>>

subscribeToEventExecute == SubscribeWork("subscribeToEvent") \/ Complete("subscribeToEvent")

\* what the library refuses changes nothing here
UnsubscribeAndRemoveInstance(o, ok) ==
  /\ listening' = IF ok THEN listening \ {o} ELSE listening
  /\ IF ok /\ o \in DOMAIN instances
     THEN ref_' = ref_ \ {o} /\ instances' = [i \in DOMAIN instances \ {o} |-> instances[i]]
     ELSE UNCHANGED <<ref_, instances>>

unsubscribeCall ==
  \E c \in NextCall("unsubscribe") :
    /\ Submit(c, c.argv[1].n, [settle |-> IF Is(Arg(c.argv, 2), "function") THEN "callback" ELSE "none",
                               sub |-> c.argv[1].n])
    /\ UNCHANGED <<objectVars, eventVars, published, view>>
unsubscribeExecute ==
  \/ unsubscribeCall
  \/ \E w \in Queued("unsubscribe"), ok \in BOOLEAN :
       /\ UnsubscribeAndRemoveInstance(w.sub, ok)
       /\ Execute(w, ok, 0)
       /\ UNCHANGED <<objects, env_, tsfn_, hooks, eventVars, published, view>>
  \/ Complete("unsubscribe")

\* the cleaner of the script's object, once the script has dropped it
clean ==
  \E c \in NextCall("drop"), ok \in BOOLEAN :
    /\ pc' = pc + 1
    /\ UnsubscribeAndRemoveInstance(c.this, ok)
    /\ UNCHANGED <<runtime, objects, env_, tsfn_, hooks, eventVars, published, view>>

-----------------------------------------------------------------------------
(* Receiving an event, on the script's thread *)

\* an ordered event is taken over whether the subscriber is in the map or not
TakeResult ==
  /\ receiving # <<>> /\ receiving[2] = "arrived"
  /\ LET o == receiving[1]
     IN  IF IsOrderedCommonEvent(o)
         THEN instances' = Over(Entry(o, result_[o]), instances) /\ GoAsyncCommonEvent(o)
         ELSE UNCHANGED <<instances, result_>>
  /\ receiving' = <<receiving[1], "taken">>
  /\ UNCHANGED <<runtime, pc, objects, env_, ref_, tsfn_, hooks, listening, events, scriptQueue, heard, answers,
                 published, view>>

OnReceiveEvent ==
  /\ receiving # <<>> /\ receiving[2] = "taken"
  /\ heard' = IF receiving[1] \in ref_ THEN heard \cup {Len(events)} ELSE heard
  /\ receiving' = <<receiving[1], "received">>
  /\ UNCHANGED <<runtime, pc, objectVars, events, result_, scriptQueue, answers, published, view>>

-----------------------------------------------------------------------------
(* The calls on the result of the event held *)

\* no fallback to the subscriber's own result
HeldOrdered(o) == GetAsyncResult(o) # 0 /\ events[GetAsyncResult(o)].ordered
HeldSticky(o) == GetAsyncResult(o) # 0 /\ events[GetAsyncResult(o)].sticky

\* an ani_boolean has eight bits
AniBoolean(n) == n % 256

Answerer(argv) == {CallbackOrPromise(argv, 1)}
CodeGiven(argv) == {Over(CallbackOrPromise(argv, 2), [code |-> Number(argv[1])])}
DataGiven(argv) == {Over(CallbackOrPromise(argv, 2), [data |-> GetStdString(argv[1])])}
CodeAndDataGiven(argv) ==
  {Over(CallbackOrPromise(argv, 3), [code |-> Number(argv[1]), data |-> GetStdString(argv[2])])}
\* the code goes through a cast to ani_boolean
CastCodeAndData(p) == [code |-> AniBoolean(p.code), data |-> p.data]

setCode == Setter("setCode", CodeGiven, Code)
setData == Setter("setData", DataGiven, DataOf)
setCodeAndData ==
  \/ Invoke("setCodeAndData", CodeAndDataGiven, CodeAndData)
  \/ Write("setCodeAndData", CastCodeAndData)
  \/ Complete("setCodeAndData")
abortCommonEvent == Setter("abort", Answerer, Aborted)
clearAbortCommonEvent == Setter("clearAbort", Answerer, NotAborted)
finishCommonEvent == Finisher("finish", Answerer)
getCode == Getter("getCode", Answerer, ResultCode)
getData == Getter("getData", Answerer, ResultData)
getAbortCommonEvent == Getter("getAbort", Answerer, ResultAbort)
isOrderedCommonEvent == Getter("isOrdered", Answerer, HeldOrdered)
isStickyCommonEvent == Getter("isSticky", Answerer, HeldSticky)
getSubscribeInfo == Getter("getSubscribeInfo", Answerer, SubscribeInfoOf)

\* the same functions, called at once
SyncCalls ==
  \/ ReadSync("getCodeSync", ResultCode) \/ ReadSync("getDataSync", ResultData) \/ ReadSync("getAbortSync", ResultAbort)
  \/ ReadSync("isOrderedSync", HeldOrdered) \/ ReadSync("isStickySync", HeldSticky)
  \/ ReadSync("getSubscribeInfoSync", SubscribeInfoOf)
  \/ WriteSync("setCodeSync", LAMBDA argv : [code |-> Number(argv[1])])
  \/ WriteSync("setDataSync", LAMBDA argv : [data |-> GetStdString(argv[1])])
  \/ WriteSyncAs("setCodeAndDataSync",
       LAMBDA argv : [code |-> Number(argv[1]), data |-> GetStdString(argv[2])],
       LAMBDA argv : [code |-> AniBoolean(Number(argv[1])), data |-> GetStdString(argv[2])])
  \/ WriteSync("abortSync", Aborted) \/ WriteSync("clearAbortSync", NotAborted)

-----------------------------------------------------------------------------
StaticNext ==
  \/ createSubscriberExecute \/ createSubscriberSync \/ subscribeExecute \/ subscribeToEventExecute
  \/ unsubscribeExecute \/ clean \/ TakeResult \/ OnReceiveEvent
  \/ publish \/ publishAsUser \/ removeStickyCommonEventExecute \/ setStaticSubscriberState
  \/ setCode \/ setData \/ setCodeAndData \/ abortCommonEvent \/ clearAbortCommonEvent \/ finishCommonEvent
  \/ getCode \/ getData \/ getAbortCommonEvent \/ isOrderedCommonEvent \/ isStickyCommonEvent \/ getSubscribeInfo
  \/ SyncCalls

=============================================================================
