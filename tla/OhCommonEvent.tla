----------------------------- MODULE OhCommonEvent -----------------------------
(***************************************************************************)
(* The C interface (interfaces/kits/ndk).  Here the script is a native     *)
(* program: a work is a call that one of its threads is in, and settling   *)
(* it is the return of the call.  The callback runs on the listener's      *)
(* thread.  A call on a handle that was destroyed, and a call on a result  *)
(* while its subscriber is being unsubscribed (GetAsyncResult gives a      *)
(* pointer into the map after its lock is released), are undefined: the    *)
(* programs make none.  The getters and setters of parameters by name and  *)
(* type are left out: parameters are one value here.                       *)
(***************************************************************************)
EXTENDS ScriptBinding

-----------------------------------------------------------------------------
(* Subscribe infos and publish infos, built by calls of their own *)

\* a null string is the empty one
OrEmpty(v) == v.n
\* a string with a length: what comes first ends it
WithLength(v, length) == Min({v.n, length.n})
NotNull(elems) == SelectSeq(elems, LAMBDA v : ~Is(v, "null"))

OH_CommonEvent_CreateSubscribeInfo(elems) ==
  IF elems = <<>> THEN {} ELSE {[events |-> NotNull(elems), permission |-> 0, bundleName |-> 0]}
OH_CommonEvent_SetPublisherPermission(info, v) == [info EXCEPT !.permission = OrEmpty(v)]
OH_CommonEvent_SetPublisherBundleName(info, v) == [info EXCEPT !.bundleName = OrEmpty(v)]

OH_CommonEvent_CreatePublishInfo(ordered) == [NoPublishData EXCEPT !.ordered = ordered]
OH_CommonEvent_SetPublishInfoBundleName(info, v) == [info EXCEPT !.bundleName = OrEmpty(v)]
OH_CommonEvent_SetPublishInfoPermissions(info, elems) ==
  [info EXCEPT !.permissions = [i \in DOMAIN NotNull(elems) |-> NotNull(elems)[i].n]]
OH_CommonEvent_SetPublishInfoCode(info, v) == [info EXCEPT !.code = v.n]
OH_CommonEvent_SetPublishInfoData(info, v, length) ==
  [info EXCEPT !.data = IF Is(v, "null") THEN 0 ELSE WithLength(v, length)]
OH_CommonEvent_SetPublishInfoParameters(info, v) == [info EXCEPT !.params = v.n]

\* the calls a program makes to build an info with these properties
Apply(d, name, info, Set(_, _)) == IF name \in DOMAIN d.props THEN Set(info, d.props[name]) ELSE info
BuildSubscribeInfo(d) ==
  {Apply(d, "publisherPermission",
     Apply(d, "publisherBundleName", info, OH_CommonEvent_SetPublisherBundleName), OH_CommonEvent_SetPublisherPermission) :
     info \in OH_CommonEvent_CreateSubscribeInfo(d.props.events.elems)}
BuildPublishInfo(d) ==
  LET created == OH_CommonEvent_CreatePublishInfo(Given(d, "isOrdered") = 1)
      named == Apply(d, "bundleName", created, OH_CommonEvent_SetPublishInfoBundleName)
      coded == Apply(d, "code", named, OH_CommonEvent_SetPublishInfoCode)
      withData == Apply(d, "data", coded, LAMBDA i, v : OH_CommonEvent_SetPublishInfoData(i, v, d.props.length))
      permitted == Apply(d, "subscriberPermissions", withData,
                     LAMBDA i, v : OH_CommonEvent_SetPublishInfoPermissions(i, v.elems))
  IN  Apply(d, "parameters", permitted, OH_CommonEvent_SetPublishInfoParameters)

-----------------------------------------------------------------------------
(* Subscribers *)

\* a null info gives a null subscriber; empty names are left out, each event is taken once
CreateSubscriber ==
  \E c \in NextCall("createSubscriber") :
    /\ Len(objects) < MAX_OBJECTS
    /\ LET made == BuildSubscribeInfo(c.argv[1])
       IN  \/ made = {} /\ Refuse /\ UNCHANGED objectVars
           \/ \E info \in made :
                /\ objects' = Append(objects, [info EXCEPT !.events =
                     FoldSeq(LAMBDA v, seq : IF v.n = 0 \/ Contains(seq, v.n) THEN seq ELSE Append(seq, v.n), <<>>, @)])
                /\ ref_' = ref_ \cup {Len(objects) + 1}
                /\ Return(TRUE, Len(objects) + 1, 0)
                /\ UNCHANGED <<env_, tsfn_, hooks, instances, listening, view>>
    /\ UNCHANGED <<eventVars, published>>

\* the handle goes, nothing else: a subscription goes on
DestroySubscriber ==
  \E c \in NextCall("drop") :
    Return(TRUE, 0, 0) /\ UNCHANGED <<objectVars, eventVars, published, view>>

CallOn(c) == Submit(c, c.argv[1].n, [settle |-> "promise"]) /\ UNCHANGED <<objectVars, eventVars, published, view>>

SubscribeCall ==
  \E c \in NextCall("subscribe") :
    \/ Is(Arg(c.argv, 1), "null") /\ Refuse /\ UNCHANGED <<objectVars, eventVars, published>>
    \/ ~Is(Arg(c.argv, 1), "null") /\ CallOn(c)
Subscribe ==
  \/ SubscribeCall
  \/ \E w \in Queued("subscribe"), ok \in BOOLEAN :
       /\ listening' = IF ok THEN listening \cup {w.sub} ELSE listening
       /\ works' = Moved(w, IF ok THEN "subscribed" ELSE "executed")
       /\ Outcome(w.call, ok, 0, 0)
       /\ UNCHANGED <<binding, script, pc, settled, alive, objects, env_, ref_, tsfn_, hooks, instances, eventVars, published, view>>
  \/ \E w \in works :
       /\ w.api = "subscribe" /\ w.at = "subscribed"
       /\ SubscriberInserted(w.sub)
       /\ works' = Moved(w, "executed")
       /\ UNCHANGED <<binding, script, pc, outcome, settled, alive, objects, env_, ref_, tsfn_, hooks, listening, eventVars,
                      published, view>>
  \/ Complete("subscribe")

\* whatever the library answers, the entry of the map goes
UnSubscribeCall ==
  \E c \in NextCall("unsubscribe") :
    \/ Is(Arg(c.argv, 1), "null") /\ Refuse /\ UNCHANGED <<objectVars, eventVars, published>>
    \/ ~Is(Arg(c.argv, 1), "null") /\ CallOn(c)
UnSubscribe ==
  \/ UnSubscribeCall
  \/ \E w \in Queued("unsubscribe"), ok \in BOOLEAN :
       /\ listening' = IF ok THEN listening \ {w.sub} ELSE listening
       /\ works' = Moved(w, "unsubscribed")
       /\ Outcome(w.call, ok, 0, 0)
       /\ UNCHANGED <<binding, script, pc, settled, alive, objects, env_, ref_, tsfn_, hooks, instances, eventVars, published, view>>
  \/ \E w \in works :
       /\ w.api = "unsubscribe" /\ w.at = "unsubscribed"
       /\ instances' = [i \in DOMAIN instances \ {w.sub} |-> instances[i]]
       /\ works' = Moved(w, "executed")
       /\ UNCHANGED <<binding, script, pc, outcome, settled, alive, objects, env_, ref_, tsfn_, hooks, listening, eventVars,
                      published, view>>
  \/ Complete("unsubscribe")

-----------------------------------------------------------------------------
(* Receiving an event, on the listener's thread *)

\* Mutant: the listener's result is taken over for a subscriber that is in no map.
TakeAlways ==
  /\ receiving # <<>> /\ receiving[2] = "arrived"
  /\ LET o == receiving[1]
     IN  IF IsOrderedCommonEvent(o)
         THEN /\ instances' = IF o \in DOMAIN instances THEN [instances EXCEPT ![o] = result_[o]] ELSE instances
              /\ GoAsyncCommonEvent(o)
         ELSE UNCHANGED <<instances, result_>>
  /\ receiving' = <<receiving[1], "taken">>
  /\ UNCHANGED <<runtime, pc, objects, env_, ref_, tsfn_, hooks, listening, events, scriptQueue, heard, answers,
                 published, view>>

\* an ordered event of a subscriber in the map is taken over
SetAsyncResult ==
  /\ receiving # <<>> /\ receiving[2] = "arrived"
  /\ LET o == receiving[1]
     IN  IF IsOrderedCommonEvent(o) /\ o \in DOMAIN instances
         THEN instances' = [instances EXCEPT ![o] = result_[o]] /\ GoAsyncCommonEvent(o)
         ELSE UNCHANGED <<instances, result_>>
  /\ receiving' = <<receiving[1], "taken">>
  /\ UNCHANGED <<runtime, pc, objects, env_, ref_, tsfn_, hooks, listening, events, scriptQueue, heard, answers,
                 published, view>>

OnReceiveEvent ==
  /\ receiving # <<>> /\ receiving[2] = "taken"
  /\ heard' = IF receiving[1] \in ref_ THEN heard \cup {Len(events)} ELSE heard
  /\ receiving' = <<receiving[1], "received">>
  /\ UNCHANGED <<runtime, pc, objectVars, events, result_, scriptQueue, answers, published, view>>

-----------------------------------------------------------------------------
(* Publishing *)

\* an info that is given must not be null
OH_CommonEvent_Publish ==
  Request("publish",
    LAMBDA argv :
      IF Is(argv[1], "null") \/ (Len(argv) > 1 /\ Is(argv[2], "null")) THEN {}
      ELSE {[settle |-> "promise", event |-> argv[1].n, userId |-> -1,
             info |-> IF Len(argv) = 1 THEN NoPublishData ELSE BuildPublishInfo(argv[2])]},
    HandedPublication)

-----------------------------------------------------------------------------
(* The calls on the result of the event held *)

Plain(argv) == {[settle |-> "promise"]}
CodeGiven(argv) == {[settle |-> "promise", code |-> argv[1].n]}
DataGiven(argv) == IF Is(argv[1], "null") THEN {} ELSE {[settle |-> "promise", data |-> WithLength(argv[1], argv[2])]}

OH_CommonEvent_SetCodeToSubscriber == Setter("setCode", CodeGiven, Code)
OH_CommonEvent_SetDataToSubscriber == Setter("setData", DataGiven, DataOf)
OH_CommonEvent_AbortCommonEvent == Setter("abort", Plain, Aborted)
OH_CommonEvent_ClearAbortCommonEvent == Setter("clearAbort", Plain, NotAborted)
OH_CommonEvent_FinishCommonEvent == Finisher("finish", Plain)
OH_CommonEvent_GetCodeFromSubscriber == Getter("getCode", Plain, ResultCode)
OH_CommonEvent_GetDataFromSubscriber == Getter("getData", Plain, ResultData)
OH_CommonEvent_GetAbortCommonEvent == Getter("getAbort", Plain, ResultAbort)
OH_CommonEvent_IsOrderedCommonEvent == Getter("isOrdered", Plain, ResultOrdered)

-----------------------------------------------------------------------------
NativeNext ==
  \/ CreateSubscriber \/ DestroySubscriber \/ Subscribe \/ UnSubscribe \/ SetAsyncResult \/ OnReceiveEvent
  \/ OH_CommonEvent_Publish
  \/ OH_CommonEvent_SetCodeToSubscriber \/ OH_CommonEvent_SetDataToSubscriber \/ OH_CommonEvent_AbortCommonEvent
  \/ OH_CommonEvent_ClearAbortCommonEvent \/ OH_CommonEvent_FinishCommonEvent \/ OH_CommonEvent_GetCodeFromSubscriber
  \/ OH_CommonEvent_GetDataFromSubscriber \/ OH_CommonEvent_GetAbortCommonEvent \/ OH_CommonEvent_IsOrderedCommonEvent

=============================================================================
