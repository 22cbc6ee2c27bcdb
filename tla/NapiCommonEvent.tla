--------------------------- MODULE NapiCommonEvent ---------------------------
(***************************************************************************)
(* The binding commonEventManager (interfaces/kits/napi/napi_common_event). *)
(* One operator per function of the binding: what it accepts (the parse    *)
(* operators give the set of the parsed arguments, empty when the call     *)
(* throws), the work it queues and the completion of that work.  A call    *)
(* that throws or returns null changes nothing.                            *)
(***************************************************************************)
EXTENDS ScriptBinding

-----------------------------------------------------------------------------
(* common_event_parse.cpp: the arguments of the calls *)

ParseParametersByGetSubscribeInfo(argv) == OptionalCallback(argv, 1)
ParseParametersByIsOrderedCommonEvent(argv) == OptionalCallback(argv, 1)
ParseParametersByIsStickyCommonEvent(argv) == OptionalCallback(argv, 1)
ParseParametersByGetCode(argv) == OptionalCallback(argv, 1)
ParseParametersByGetData(argv) == OptionalCallback(argv, 1)
ParseParametersByClearAbort(argv) == OptionalCallback(argv, 1)
ParseParametersByAbort(argv) == OptionalCallback(argv, 1)
ParseParametersByGetAbort(argv) == OptionalCallback(argv, 1)
ParseParametersByFinish(argv) == OptionalCallback(argv, 1)

ParseParametersBySetCode(argv) ==
  IF Is(Arg(argv, 1), "number")
  THEN {Over(p, [code |-> Number(argv[1])]) : p \in OptionalCallback(argv, 2)} ELSE {}

ParseParametersBySetData(argv) ==
  IF Is(Arg(argv, 1), "string")
  THEN {Over(p, [data |-> Data(argv[1])]) : p \in OptionalCallback(argv, 2)} ELSE {}

ParseParametersBySetCodeAndData(argv) ==
  IF Is(Arg(argv, 1), "number") /\ Is(Arg(argv, 2), "string")
  THEN {Over(p, [code |-> Number(argv[1]), data |-> Data(argv[2])]) : p \in OptionalCallback(argv, 3)} ELSE {}

\* a second argument that is no function is ignored: the call returns a promise
ParseParametersByCreateSubscriber(argv) ==
  IF ~Is(Arg(argv, 1), "object") THEN {}
  ELSE {[settle |-> IF Is(Arg(argv, 2), "function") THEN "callback" ELSE "promise", info |-> argv[1]]}

ParseParametersBySubscribe(argv) ==
  IF /\ Is(Arg(argv, 1), "object") /\ argv[1].n \in Wrapped
     /\ Is(Arg(argv, 2), "function")
  THEN {[settle |-> "callback", sub |-> argv[1].n]} ELSE {}

\* undefined and null stand for "no callback"
ParseParametersByUnsubscribe(argv) ==
  IF ~(Is(Arg(argv, 1), "object") /\ argv[1].n \in Wrapped) THEN {}
  ELSE IF Arg(argv, 2).t \in {"undefined", "null"} THEN {[settle |-> "none", sub |-> argv[1].n]}
  ELSE IF Is(argv[2], "function") THEN {[settle |-> "callback", sub |-> argv[1].n]} ELSE {}

\* an event given as a number or a boolean is turned into its decimal name
ParseParametersByRemoveSticky(argv) ==
  IF Arg(argv, 1).t \notin {"string", "number", "boolean"} THEN {}
  ELSE {[settle |-> IF Is(Arg(argv, 2), "function") THEN "callback" ELSE "promise",
         event |-> IF Is(argv[1], "string") THEN Name(argv[1]) ELSE Number(argv[1])]}

-----------------------------------------------------------------------------
(* The data of a publication *)

GetBundlenameByPublish(d) == Optional(d, "bundleName", "string", 0, Name)
GetDataByPublish(d) == Optional(d, "data", "string", 0, Data)
GetCodeByPublish(d) == Optional(d, "code", "number", 0, Number)
GetIsOrderedByPublish(d) == Optional(d, "isOrdered", "boolean", FALSE, Flag)
GetIsStickyByPublish(d) == Optional(d, "isSticky", "boolean", FALSE, Flag)
GetParametersByPublish(d) == Optional(d, "parameters", "object", 0, Number)

\* permissions that are no array are ignored; an element that is no string is refused
GetSubscriberPermissionsByPublish(d) ==
  IF "subscriberPermissions" \notin DOMAIN d.props \/ ~Is(d.props.subscriberPermissions, "array") THEN {<<>>}
  ELSE LET elems == d.props.subscriberPermissions.elems
       IN  IF \A i \in DOMAIN elems : Is(elems[i], "string") THEN {[i \in DOMAIN elems |-> Name(elems[i])]} ELSE {}

\* Mutant: the flag of a sticky publication is taken from the ordered one.
OrderedForSticky(d) ==
  {[bundleName |-> b, data |-> x, code |-> c, permissions |-> pe, ordered |-> o, sticky |-> o, params |-> pa] :
     b \in GetBundlenameByPublish(d), x \in GetDataByPublish(d), c \in GetCodeByPublish(d),
     pe \in GetSubscriberPermissionsByPublish(d), o \in GetIsOrderedByPublish(d), pa \in GetParametersByPublish(d)}

PaddingCallbackInfoPublish(d) ==
  {[bundleName |-> b, data |-> x, code |-> c, permissions |-> pe, ordered |-> o, sticky |-> st, params |-> pa] :
     b \in GetBundlenameByPublish(d), x \in GetDataByPublish(d), c \in GetCodeByPublish(d),
     pe \in GetSubscriberPermissionsByPublish(d), o \in GetIsOrderedByPublish(d), st \in GetIsStickyByPublish(d),
     pa \in GetParametersByPublish(d)}

ParseParametersByPublish(argv) ==
  IF Len(argv) < 2 \/ ~Is(argv[1], "string") \/ ~Is(argv[Len(argv)], "function") THEN {}
  ELSE LET parsed == IF Len(argv) = 2 THEN {NoPublishData}
                     ELSE IF Is(argv[2], "object") THEN PaddingCallbackInfoPublish(argv[2]) ELSE {}
       IN  {[settle |-> "callback", event |-> Name(argv[1]), userId |-> -1, info |-> d] : d \in parsed}

ParseParametersByPublishAsUser(argv) ==
  IF Len(argv) < 3 \/ ~Is(argv[1], "string") \/ ~Is(argv[2], "number") \/ ~Is(argv[Len(argv)], "function") THEN {}
  ELSE LET parsed == IF Len(argv) = 3 THEN {NoPublishData}
                     ELSE IF Is(argv[3], "object") THEN PaddingCallbackInfoPublish(argv[3]) ELSE {}
       IN  {[settle |-> "callback", event |-> Name(argv[1]), userId |-> Number(argv[2]), info |-> d] : d \in parsed}

-----------------------------------------------------------------------------
(* The constructor of a subscriber *)

\* the events, in order and each once (MatchingSkills::AddEvent)
GetEventsByCreateSubscriber(d) ==
  IF "events" \notin DOMAIN d.props \/ ~Is(d.props.events, "array") THEN {}
  ELSE LET elems == d.props.events.elems
       IN  IF elems = <<>> \/ \E i \in DOMAIN elems : ~Is(elems[i], "string") THEN {}
           ELSE {FoldSeq(LAMBDA v, seq : IF Contains(seq, Name(v)) THEN seq ELSE Append(seq, Name(v)), <<>>, elems)}

GetPublisherPermissionByCreateSubscriber(d) == Optional(d, "publisherPermission", "string", 0, Name)
GetPublisherDeviceIdByCreateSubscriber(d) == Optional(d, "publisherDeviceId", "string", 0, Name)
GetUserIdByCreateSubscriber(d) == Optional(d, "userId", "number", -1, Number)
GetPriorityByCreateSubscriber(d) == Optional(d, "priority", "number", 0, Number)
GetPublisherBundleNameByCreateSubscriber(d) == Optional(d, "publisherBundleName", "string", 0, Name)

ParseParametersConstructor(d) ==
  {[events |-> ev, permission |-> pe, deviceId |-> de, userId |-> us, priority |-> pr, bundleName |-> bu] :
     ev \in GetEventsByCreateSubscriber(d), pe \in GetPublisherPermissionByCreateSubscriber(d),
     de \in GetPublisherDeviceIdByCreateSubscriber(d), us \in GetUserIdByCreateSubscriber(d),
     pr \in GetPriorityByCreateSubscriber(d), bu \in GetPublisherBundleNameByCreateSubscriber(d)}

CommonEventSubscriberConstructor(info) ==
  /\ objects' = Append(objects, info)
  /\ UNCHANGED <<env_, ref_, tsfn_, hooks, instances, listening>>

\* the constructor runs in the completion; its exception becomes the error code of the call
CreateSubscriberInstance(w) ==
  LET made == ParseParametersConstructor(w.arg.info)
  IN  \/ made = {} /\ UNCHANGED objectVars
      \/ \E info \in made : CommonEventSubscriberConstructor(info)

CreateSubscriberCall ==
  \E c \in NextCall("createSubscriber") :
    /\ Len(objects) < MAX_OBJECTS
    /\ \/ ParseParametersByCreateSubscriber(c.argv) = {} /\ Refuse
       \/ \E p \in ParseParametersByCreateSubscriber(c.argv) : Submit(c, 1, p)
    /\ UNCHANGED <<objectVars, eventVars, published, view>>
CreateSubscriber ==
  \/ CreateSubscriberCall
  \/ Read("createSubscriber", LAMBDA o : 0)
  \/ \E w \in Executed("createSubscriber") :
       CreateSubscriberInstance(w) /\ Settle(w) /\ UNCHANGED <<eventVars, published, view>>

CreateSubscriberSync ==
  \E c \in NextCall("createSubscriberSync") :
    /\ Len(objects) < MAX_OBJECTS
    /\ LET made == IF Is(Arg(c.argv, 1), "object") THEN ParseParametersConstructor(c.argv[1]) ELSE {}
       IN  \/ made = {} /\ Refuse /\ UNCHANGED objectVars
           \/ \E info \in made :
                /\ CommonEventSubscriberConstructor(info)
                /\ Return(TRUE, Len(objects) + 1, 0) /\ UNCHANGED view
    /\ UNCHANGED <<eventVars, published>>

-----------------------------------------------------------------------------
(* Subscribing *)

\* the work: the library subscribes the subscriber, or reports an error
AsyncExecuteCallbackSubscribe(w) ==
  \E ok \in BOOLEAN :
    /\ Execute(w, ok, 0)
    /\ listening' = IF ok THEN listening \cup {w.sub} ELSE listening
    /\ UNCHANGED <<objects, env_, ref_, tsfn_, hooks, instances, eventVars, published, view>>

\* a subscription that succeeded is reported by nothing
AsyncCompleteCallbackSubscribe(w) ==
  /\ IF outcome[w.call].ok THEN SubscriberInserted(w.sub) /\ Forget(w) ELSE UNCHANGED instances /\ Settle(w)
  /\ UNCHANGED <<objects, env_, ref_, tsfn_, hooks, listening, eventVars, published, view>>

\* Mutant: a refused subscription is reported by nothing either.
RejectForgotten(w) ==
  /\ IF outcome[w.call].ok THEN SubscriberInserted(w.sub) /\ UNCHANGED ref_ /\ Settle(w)
     ELSE ref_' = ref_ \ {w.sub} /\ UNCHANGED instances /\ Forget(w)
  /\ UNCHANGED <<objects, env_, tsfn_, hooks, listening, eventVars, published, view>>

AsyncCompleteCallbackSubscribeToEvent(w) ==
  /\ IF outcome[w.call].ok THEN SubscriberInserted(w.sub) /\ UNCHANGED ref_
     ELSE ref_' = ref_ \ {w.sub} /\ UNCHANGED instances
  /\ Settle(w)
  /\ UNCHANGED <<objects, env_, tsfn_, hooks, listening, eventVars, published, view>>

SubscribeCall ==
  \E c \in NextCall("subscribe") :
    LET parsed == ParseParametersBySubscribe(c.argv)
    IN  /\ \/ parsed = {} /\ Refuse /\ UNCHANGED objectVars
           \/ \E p \in parsed :
                /\ env_' = env_ \cup {p.sub} /\ ref_' = ref_ \cup {p.sub} /\ tsfn_' = tsfn_ \cup {p.sub}
                /\ hooks' = hooks \cup {p.sub}
                /\ Submit(c, p.sub, p)
                /\ UNCHANGED <<objects, instances, listening, view>>
        /\ UNCHANGED <<eventVars, published>>
Subscribe ==
  \/ SubscribeCall
  \/ \E w \in Queued("subscribe") : AsyncExecuteCallbackSubscribe(w)
  \/ \E w \in Executed("subscribe") : AsyncCompleteCallbackSubscribe(w)

\* the environment of the subscriber is not set here
SubscribeToEventCall ==
  \E c \in NextCall("subscribeToEvent") :
    LET parsed == ParseParametersBySubscribe(c.argv)
    IN  /\ \/ parsed = {} /\ Refuse /\ UNCHANGED objectVars
           \/ \E p \in parsed :
                /\ ref_' = ref_ \cup {p.sub} /\ tsfn_' = tsfn_ \cup {p.sub}
                /\ hooks' = hooks \cup {p.sub}
                /\ Submit(c, p.sub, [p EXCEPT !.settle = "promise"])
                /\ UNCHANGED <<objects, env_, instances, listening, view>>
        /\ UNCHANGED <<eventVars, published>>
SubscribeToEvent ==
  \/ SubscribeToEventCall
  \/ \E w \in Queued("subscribeToEvent") : AsyncExecuteCallbackSubscribe(w)
  \/ \E w \in Executed("subscribeToEvent") : AsyncCompleteCallbackSubscribeToEvent(w)

ReleaseThreadSafeFunction(o) == tsfn_' = IF o \in env_ THEN tsfn_ \ {o} ELSE tsfn_

\* Mutant: the entry of the map is kept.
DeleteCallbackOnly(o) ==
  IF o \in DOMAIN instances
  THEN /\ ref_' = ref_ \ {o}
       /\ ReleaseThreadSafeFunction(o)
       /\ hooks' = IF o \in env_ THEN hooks \ {o} ELSE hooks
       /\ UNCHANGED instances
  ELSE UNCHANGED <<ref_, tsfn_, hooks, instances>>

\* the hook is removed from the environment of the subscriber, if it has one
NapiDeleteSubscribe(o) ==
  IF o \in DOMAIN instances
  THEN /\ ref_' = ref_ \ {o}
       /\ ReleaseThreadSafeFunction(o)
       /\ hooks' = IF o \in env_ THEN hooks \ {o} ELSE hooks
       /\ instances' = [i \in DOMAIN instances \ {o} |-> instances[i]]
  ELSE UNCHANGED <<ref_, tsfn_, hooks, instances>>

\* whatever the library answers, the completion forgets the subscriber
UnsubscribeCall ==
  \E c \in NextCall("unsubscribe") :
    LET parsed == ParseParametersByUnsubscribe(c.argv)
    IN  /\ \/ parsed = {} /\ Refuse
           \/ \E p \in parsed : Submit(c, p.sub, p) /\ UNCHANGED view
        /\ UNCHANGED <<objectVars, eventVars, published>>
Unsubscribe ==
  \/ UnsubscribeCall
  \/ \E w \in Queued("unsubscribe"), ok \in BOOLEAN :
       /\ Execute(w, ok, 0)
       /\ listening' = IF ok THEN listening \ {w.sub} ELSE listening
       /\ UNCHANGED <<objects, env_, ref_, tsfn_, hooks, instances, eventVars, published, view>>
  \/ \E w \in Executed("unsubscribe") :
       /\ Settle(w)
       /\ NapiDeleteSubscribe(w.sub)
       /\ UNCHANGED <<objects, env_, listening, eventVars, published, view>>

\* the finalizer of the script's object, once the script has dropped it
Finalize ==
  \E c \in NextCall("drop"), ok \in BOOLEAN :
    /\ pc' = pc + 1
    /\ IF c.this \in Wrapped
       THEN /\ listening' = IF ok THEN listening \ {c.this} ELSE listening
            /\ NapiDeleteSubscribe(c.this)
       ELSE UNCHANGED <<ref_, tsfn_, hooks, instances, listening>>
    /\ UNCHANGED <<runtime, objects, env_, eventVars, published, view>>

-----------------------------------------------------------------------------
(* Receiving an event *)

\* an ordered event of a subscriber in the map is taken over for the script
TakeResult ==
  /\ receiving # <<>> /\ receiving[2] = "arrived"
  /\ LET o == receiving[1]
     IN  IF IsOrderedCommonEvent(o) /\ o \in DOMAIN instances
         THEN instances' = [instances EXCEPT ![o] = result_[o]] /\ GoAsyncCommonEvent(o)
         ELSE UNCHANGED <<instances, result_>>
  /\ receiving' = <<receiving[1], "taken">>
  /\ UNCHANGED <<runtime, pc, objects, env_, ref_, tsfn_, hooks, listening, events, scriptQueue, heard, answers,
                 published, view>>

OnReceiveEvent ==
  /\ receiving # <<>> /\ receiving[2] = "taken"
  /\ scriptQueue' = IF receiving[1] \in tsfn_ THEN Append(scriptQueue, <<receiving[1], Len(events)>>) ELSE scriptQueue
  /\ receiving' = <<receiving[1], "received">>
  /\ UNCHANGED <<runtime, pc, objectVars, events, result_, heard, answers, published, view>>

\* on the script's thread: without a callback the event is dropped
ThreadSafeCallback ==
  /\ alive /\ scriptQueue # <<>>
  /\ scriptQueue' = Tail(scriptQueue)
  /\ heard' = IF Head(scriptQueue)[1] \in ref_ THEN heard \cup {Head(scriptQueue)[2]} ELSE heard
  /\ UNCHANGED <<runtime, pc, objectVars, events, result_, receiving, answers, published, view>>

-----------------------------------------------------------------------------
(* Publishing and the service's other requests *)

Publish == Request("publish", ParseParametersByPublish, HandedPublication)
PublishAsUser == Request("publishAsUser", ParseParametersByPublishAsUser, HandedPublication)
RemoveStickyCommonEvent == Request("removeSticky", ParseParametersByRemoveSticky, HandedSticky)

\* the events of a request to switch static subscriptions: none (all of them), or an array of strings
ParseSetStaticSubscriberStateParam(argv) ==
  IF Arg(argv, 2).t \in {"undefined", "null"} THEN {[settle |-> "promise", events |-> <<>>]}
  ELSE IF Is(argv[2], "function") THEN {[settle |-> "callback", events |-> <<>>]}
  ELSE IF Is(argv[2], "array") /\ \A i \in DOMAIN argv[2].elems : Is(argv[2].elems[i], "string")
       THEN {[settle |-> "promise", events |-> [i \in DOMAIN argv[2].elems |-> Number(argv[2].elems[i])]]} ELSE {}

\* here the request is made by the completion itself
SetStaticSubscriberStateCall ==
  \E c \in NextCall("setStaticSubscriberState") :
    LET parsed == IF Is(Arg(c.argv, 1), "boolean") THEN ParseSetStaticSubscriberStateParam(c.argv) ELSE {}
    IN  /\ \/ parsed = {} /\ Refuse
           \/ \E p \in parsed : Submit(c, 1, Over(p, [enable |-> Flag(c.argv[1])])) /\ UNCHANGED view
        /\ UNCHANGED <<objectVars, eventVars, published>>
OnSetStaticSubscriberState ==
  \/ SetStaticSubscriberStateCall
  \/ \E w \in Queued("setStaticSubscriberState") :
       /\ Settle(w)
       /\ published' = published \cup {[call |-> w.call, events |-> w.arg.events, enable |-> w.arg.enable]}
       /\ UNCHANGED <<objectVars, eventVars, view>>

-----------------------------------------------------------------------------
(* The calls on the result of the event held *)

SetCode == Setter("setCode", ParseParametersBySetCode, Code)
SetData == Setter("setData", ParseParametersBySetData, DataOf)
SetCodeAndData == Setter("setCodeAndData", ParseParametersBySetCodeAndData, CodeAndData)
Abort == Setter("abort", ParseParametersByAbort, Aborted)
ClearAbort == Setter("clearAbort", ParseParametersByClearAbort, NotAborted)
FinishCommonEvent == Finisher("finish", ParseParametersByFinish)
GetCode == Getter("getCode", ParseParametersByGetCode, ResultCode)
GetData == Getter("getData", ParseParametersByGetData, ResultData)
GetAbort == Getter("getAbort", ParseParametersByGetAbort, ResultAbort)
IsOrdered == Getter("isOrdered", ParseParametersByIsOrderedCommonEvent, ResultOrdered)
IsSticky == Getter("isSticky", ParseParametersByIsStickyCommonEvent, ResultSticky)
GetSubscribeInfo == Getter("getSubscribeInfo", ParseParametersByGetSubscribeInfo, SubscribeInfoOf)

GetCodeSync == ReadSync("getCodeSync", ResultCode)
GetDataSync == ReadSync("getDataSync", ResultData)
GetAbortCommonEventSync == ReadSync("getAbortSync", ResultAbort)
IsOrderedCommonEventSync == ReadSync("isOrderedSync", ResultOrdered)
IsStickyCommonEventSync == ReadSync("isStickySync", ResultSticky)
GetSubscribeInfoSync == ReadSync("getSubscribeInfoSync", SubscribeInfoOf)
SetCodeSync == WriteSync("setCodeSync", LAMBDA argv : [code |-> Number(argv[1])])
SetDataSync == WriteSync("setDataSync", LAMBDA argv : [data |-> Data(argv[1])])
SetCodeAndDataSync ==
  WriteSync("setCodeAndDataSync", LAMBDA argv : [code |-> Number(argv[1]), data |-> Data(argv[2])])
AbortCommonEventSync == WriteSync("abortSync", Aborted)
ClearAbortCommonEventSync == WriteSync("clearAbortSync", NotAborted)

-----------------------------------------------------------------------------
NewNext ==
  \/ CreateSubscriber \/ CreateSubscriberSync \/ Subscribe \/ SubscribeToEvent \/ Unsubscribe \/ Finalize
  \/ TakeResult \/ OnReceiveEvent \/ ThreadSafeCallback
  \/ Publish \/ PublishAsUser \/ RemoveStickyCommonEvent \/ OnSetStaticSubscriberState
  \/ SetCode \/ SetData \/ SetCodeAndData \/ Abort \/ ClearAbort \/ FinishCommonEvent
  \/ GetCode \/ GetData \/ GetAbort \/ IsOrdered \/ IsSticky \/ GetSubscribeInfo
  \/ GetCodeSync \/ GetDataSync \/ GetAbortCommonEventSync \/ IsOrderedCommonEventSync \/ IsStickyCommonEventSync
  \/ GetSubscribeInfoSync \/ SetCodeSync \/ SetDataSync \/ SetCodeAndDataSync \/ AbortCommonEventSync
  \/ ClearAbortCommonEventSync

=============================================================================
