----------------------------- MODULE CjCommonEvent -----------------------------
(***************************************************************************)
(* The binding for Cangjie (interfaces/kits/cj).  As in the C interface a  *)
(* work is a call that a thread of the program is in, and settling it is   *)
(* the return of the call; the callback runs on the listener's thread.     *)
(* Every function comes in two versions that differ in their handles:      *)
(* the first looks an id up and fails when it is unknown, the second       *)
(* follows a pointer, and a program that uses one after its release is     *)
(* undefined: the programs make no such call.  Reads and writes of         *)
(* callback_, which no lock protects, are single steps here.               *)
(***************************************************************************)
EXTENDS ScriptBinding

-----------------------------------------------------------------------------
(* Subscribe infos and the data of a publication *)

\* an empty string for a null pointer, every string as long as it is
Whole(d, name) == IF name \in DOMAIN d.props THEN d.props[name].n ELSE 0
AddEvent(events_, v) == IF Contains(events_, v.n) THEN events_ ELSE Append(events_, v.n)

CreateCommonEventSubscribeInfo(elems) ==
  [events |-> FoldLeft(AddEvent, <<>>, elems), permission |-> 0, deviceId |-> 0, userId |-> -1, priority |-> 0, bundleName |-> 0]

\* the setters of an info, for the properties the program gives
SetPermission(info, d) == [info EXCEPT !.permission = Whole(d, "publisherPermission")]
SetDeviceId(info, d) == [info EXCEPT !.deviceId = Whole(d, "publisherDeviceId")]
SetBundleName(info, d) == [info EXCEPT !.bundleName = Whole(d, "publisherBundleName")]
SetUserId(info, d) == IF "userId" \in DOMAIN d.props THEN [info EXCEPT !.userId = d.props.userId.n] ELSE info
SetPriority(info, d) == IF "priority" \in DOMAIN d.props THEN [info EXCEPT !.priority = d.props.priority.n] ELSE info
BuildInfo(d) ==
  SetPriority(SetUserId(SetBundleName(SetDeviceId(SetPermission(
    CreateCommonEventSubscribeInfo(d.props.events.elems), d), d), d), d), d)

\* the types of a parameter; one of any other type is left out
ValueTypes == {"int", "double", "string", "boolean", "object", "array"}
SetDataParameters(parameters) == SelectSeq(parameters, LAMBDA v : v.t \in ValueTypes)

PublishEventWithData(event, userId, d) ==
  [settle |-> "promise", event |-> event.n, userId |-> userId.n,
   info |-> [bundleName |-> Whole(d, "bundleName"), data |-> Whole(d, "data"), code |-> Whole(d, "code"),
             permissions |-> GivenSeq(d, "subscriberPermissions"),
             ordered |-> Whole(d, "isOrdered") = 1, sticky |-> Whole(d, "isSticky") = 1,
             params |-> SetDataParameters(d.props.parameters.elems)]]
PublishEvent(event, userId) ==
  [settle |-> "promise", event |-> event.n, userId |-> userId.n, info |-> NoPublishData]

-----------------------------------------------------------------------------
(* Subscribers *)

\* SetCallback(nullptr): the callback goes, but *valid_ is set once more
TakeCallbackBack(o) == ref_' = ref_ \ {o} /\ env_' = env_ \cup {o}
RemoveEntry(o) == instances' = [i \in DOMAIN instances \ {o} |-> instances[i]]

\* A subscriber of the map that was made from this info is unsubscribed and used again.
GetManagerId(id) == {o \in DOMAIN instances : objects[o].infoId = id}

CreateSubscriber ==
  \E c \in NextCall("createSubscriber") :
    LET infoId == c.argv[1].n
    IN  /\ \/ \E o \in GetManagerId(infoId), ok \in BOOLEAN :
                /\ TakeCallbackBack(o)
                /\ RemoveEntry(o)
                /\ listening' = IF ok THEN listening \ {o} ELSE listening
                /\ Return(TRUE, o, 0)
                /\ UNCHANGED <<objects, tsfn_, hooks, view>>
           \/ /\ GetManagerId(infoId) = {}
              /\ \/ infoId = 0 /\ Refuse /\ UNCHANGED objectVars
                 \/ /\ infoId # 0 /\ Len(objects) < MAX_OBJECTS
                    /\ objects' = Append(objects, Over([infoId |-> infoId], BuildInfo(c.argv[1])))
                    /\ Return(TRUE, Len(objects) + 1, 0)
                    /\ UNCHANGED <<env_, ref_, tsfn_, hooks, instances, listening, view>>
        /\ UNCHANGED <<eventVars, published>>

\* from the contents of an info instead of its handle: never found again by its id
CreateSubscriberFromContents ==
  \E c \in NextCall("createSubscriberSync") :
    /\ Len(objects) < MAX_OBJECTS
    /\ objects' = Append(objects, Over([infoId |-> -1], BuildInfo(c.argv[1])))
    /\ Return(TRUE, Len(objects) + 1, 0)
    /\ UNCHANGED <<env_, ref_, tsfn_, hooks, instances, listening, view, eventVars, published>>

\* the handle goes, nothing else: a subscription goes on
ReleaseSubscribeManager ==
  \E c \in NextCall("drop") :
    Return(TRUE, 0, 0) /\ UNCHANGED <<objectVars, eventVars, published, view>>

\* a call on a subscriber, refused when there is none by that handle
CallOn(api) ==
  \E c \in NextCall(api) :
    /\ \/ c.argv[1].n \notin Wrapped /\ Refuse
       \/ c.argv[1].n \in Wrapped /\ Submit(c, c.argv[1].n, [settle |-> "promise"]) /\ UNCHANGED view
    /\ UNCHANGED <<objectVars, eventVars, published>>

\* the steps of a call that follow the one of the library
At(api, at) == {w \in works : w.api = api /\ w.at = at}
StepOf(w, at) ==
  /\ works' = Moved(w, at)
  /\ UNCHANGED <<binding, script, pc, outcome, settled, alive, objects, tsfn_, hooks, listening, eventVars, published, view>>

\* the library is asked first; an event may come before the callback is there
Subscribe ==
  \/ CallOn("subscribe")
  \/ \E w \in Queued("subscribe"), ok \in BOOLEAN :
       /\ listening' = IF ok THEN listening \cup {w.sub} ELSE listening
       /\ works' = Moved(w, IF ok THEN "subscribed" ELSE "executed")
       /\ Outcome(w.call, ok, 0, 0)
       /\ UNCHANGED <<binding, script, pc, settled, alive, objects, env_, ref_, tsfn_, hooks, instances, eventVars, published, view>>
  \/ Complete("subscribe")

\* SetSubscribeInfo: first the callback, then the entry of the map
SetCallback ==
  \E w \in At("subscribe", "subscribed") :
    StepOf(w, "callback") /\ ref_' = ref_ \cup {w.sub} /\ env_' = env_ \cup {w.sub} /\ UNCHANGED instances
SetSubscribeInfo ==
  \E w \in At("subscribe", "callback") :
    StepOf(w, "executed") /\ SubscriberInserted(w.sub) /\ UNCHANGED <<ref_, env_>>

\* whatever the library answers, the entry of the map goes, and with it the callback
DeleteSubscribe ==
  \E w \in At("unsubscribe", "unsubscribed") :
    /\ StepOf(w, "executed")
    /\ IF w.sub \in DOMAIN instances THEN RemoveEntry(w.sub) /\ TakeCallbackBack(w.sub)
       ELSE UNCHANGED <<instances, ref_, env_>>
Unsubscribe ==
  \/ CallOn("unsubscribe")
  \/ \E w \in Queued("unsubscribe"), ok \in BOOLEAN :
       /\ listening' = IF ok THEN listening \ {w.sub} ELSE listening
       /\ works' = Moved(w, "unsubscribed")
       /\ Outcome(w.call, ok, 0, 0)
       /\ UNCHANGED <<binding, script, pc, settled, alive, objects, env_, ref_, tsfn_, hooks, instances, eventVars, published, view>>
  \/ Complete("unsubscribe")

-----------------------------------------------------------------------------
(* Receiving an event, on the listener's thread *)

\* no callback was ever set: the event is left to the listener; an ordered one of a subscriber in
\* the map is taken over, before it is known whether its parameters can be converted
SetPublishResult ==
  /\ receiving # <<>> /\ receiving[2] = "arrived"
  /\ LET o == receiving[1]
     IN  /\ IF o \in env_ /\ IsOrderedCommonEvent(o) /\ o \in DOMAIN instances
            THEN instances' = [instances EXCEPT ![o] = result_[o]] /\ GoAsyncCommonEvent(o)
            ELSE UNCHANGED <<instances, result_>>
         /\ receiving' = <<o, IF o \in env_ THEN "taken" ELSE "received">>
  /\ UNCHANGED <<runtime, pc, objects, env_, ref_, tsfn_, hooks, listening, events, scriptQueue, heard, answers,
                 published, view>>

OnReceiveEvent ==
  /\ receiving # <<>> /\ receiving[2] = "taken"
  /\ LET readable == ParseParameters(Last(events).parameters)
     IN  /\ readable => receiving[1] \in ref_
         /\ heard' = IF readable THEN heard \cup {Len(events)} ELSE heard
  /\ receiving' = <<receiving[1], "received">>
  /\ UNCHANGED <<runtime, pc, objectVars, events, result_, scriptQueue, answers, published, view>>

\* the call of a callback that was taken back in the meantime ends the process
CallOfEmptyCallback ==
  /\ receiving # <<>> /\ receiving[2] = "taken"
  /\ ParseParameters(Last(events).parameters) /\ receiving[1] \notin ref_
  /\ alive' = FALSE
  /\ works' = {} /\ listening' = {} /\ receiving' = <<>>
  /\ UNCHANGED <<binding, script, pc, outcome, settled, objects, env_, ref_, tsfn_, hooks, instances, events, result_,
                 scriptQueue, heard, answers, published, view>>

-----------------------------------------------------------------------------
(* Publications and static subscribers *)

PublicationGiven(argv) ==
  {IF Len(argv) = 2 THEN PublishEvent(argv[1], argv[2]) ELSE PublishEventWithData(argv[1], argv[2], argv[3])}
CJ_PublishEvent == Request("publishAsUser", PublicationGiven, HandedPublication)
StickyGiven(argv) == {[settle |-> "promise", event |-> argv[1].n]}
RemoveStickyCommonEvent == Request("removeSticky", StickyGiven, HandedSticky)
HandedState(w) == [call |-> w.call, enable |-> w.arg.enable]
StateGiven(argv) == {[settle |-> "promise", enable |-> Flag(argv[1])]}
SetStaticSubscriberState == Request("setStaticSubscriberState", StateGiven, HandedState)

-----------------------------------------------------------------------------
(* The calls on the result of the event held *)

Plain(argv) == {[settle |-> "promise"]}
CodeGiven(argv) == {[settle |-> "promise", code |-> argv[1].n]}
DataGiven(argv) == {[settle |-> "promise", data |-> argv[1].n]}
BothGiven(argv) == {[settle |-> "promise", code |-> argv[1].n, data |-> argv[2].n]}
GetSubscribeInfoId(o) == objects[o].infoId

SetCode == Setter("setCode", CodeGiven, Code)
SetData == Setter("setData", DataGiven, DataOf)
SetCodeAndData == Setter("setCodeAndData", BothGiven, CodeAndData)
AbortCommonEvent == Setter("abort", Plain, Aborted)
ClearAbortCommonEvent == Setter("clearAbort", Plain, NotAborted)
FinishCommonEvent == Finisher("finish", Plain)
GetCode == Getter("getCode", Plain, ResultCode)
GetData == Getter("getData", Plain, ResultData)
GetAbortCommonEvent == Getter("getAbort", Plain, ResultAbort)
IsOrderedCommonEvent_ == Getter("isOrdered", Plain, ResultOrdered)
IsStickyCommonEvent == Getter("isSticky", Plain, ResultSticky)
GetSubscribeInfo == Getter("getSubscribeInfo", Plain, GetSubscribeInfoId)

-----------------------------------------------------------------------------
CangjieNext ==
  \/ CreateSubscriber \/ CreateSubscriberFromContents \/ ReleaseSubscribeManager
  \/ Subscribe \/ SetCallback \/ SetSubscribeInfo \/ Unsubscribe \/ DeleteSubscribe
  \/ SetPublishResult \/ OnReceiveEvent \/ CallOfEmptyCallback
  \/ CJ_PublishEvent \/ RemoveStickyCommonEvent \/ SetStaticSubscriberState
  \/ SetCode \/ SetData \/ SetCodeAndData \/ AbortCommonEvent \/ ClearAbortCommonEvent \/ FinishCommonEvent
  \/ GetCode \/ GetData \/ GetAbortCommonEvent \/ IsOrderedCommonEvent_ \/ IsStickyCommonEvent \/ GetSubscribeInfo

=============================================================================
