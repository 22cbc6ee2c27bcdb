---------------------------- MODULE ScriptBinding ----------------------------
(***************************************************************************)
(* What the bindings (napi_common_event, the older common_event, the one   *)
(* for static scripts, ani, the one for Cangjie, cj, and the C interface,  *)
(* ndk) share: the script and its runtime, and the objects they keep for   *)
(* it.  A script is a sequence of calls; its runtime runs the works the    *)
(* calls queue on a pool, in any order and on several threads, and         *)
(* completes them on the thread of the script.                             *)
(* Events come in on the thread of the client library's listener and reach *)
(* the script through a queue of its thread (the thread-safe function); a  *)
(* static script has no such queue, its listener uses the script's thread. *)
(*                                                                         *)
(* A value of the script is a record with its type t and a number n that   *)
(* stands for its contents: of a string its length (the bindings copy      *)
(* strings into buffers of a fixed size), of a subscriber its number;      *)
(* objects also have props, arrays elems.                                  *)
(***************************************************************************)
EXTENDS Integers, Sequences, FiniteSets, FiniteSetsExt, SequencesExt, TLC

CONSTANTS
  STR_MAX_SIZE,       \* the buffer of a name
  STR_DATA_MAX_SIZE,  \* the buffer of the data of an event
  EVENT_KINDS,        \* the events the library delivers: [ordered, sticky]
  EVENT_PARAMETERS,   \* the parameters they come with, where the binding converts them itself
  MAX_EVENTS,         \* bound on their number
  MAX_OBJECTS         \* bound on the subscribers the script creates

ASSUME SizeAssumption == STR_MAX_SIZE \in Nat /\ STR_MAX_SIZE > 2 /\ STR_DATA_MAX_SIZE \in Nat \ {0}

VARIABLES
  binding,      \* the binding the script runs on: "new", "legacy", "static", "cangjie" or "native"
  script,       \* the calls the script makes: [api, this, argv, await, heard]
  pc,           \* the next of them
  works,        \* the asynchronous works under way
  outcome,      \* call -> error-free or not, the value for the script, the event it worked on
  settled,      \* the calls whose promise is settled or whose callback was called
  objects,      \* the subscribers created, in order: their subscribe infos
  env_, ref_, tsfn_,  \* the subscribers with an environment, a callback, a thread-safe function
                      \* (with *valid_ set, a callback_ and nothing in the binding for Cangjie)
  hooks,        \* the subscribers with a clean-up hook at the environment
  instances,    \* subscriberInstances: subscriber -> the event whose result it holds (0: none)
  listening,    \* the subscribers the client library has subscribed
  events,       \* the events delivered, with the state of their results
  result_,      \* subscriber -> the event whose result it has itself (0: none)
  receiving,    \* the listener's thread: <<subscriber, event>> between two steps, or <<>>
  scriptQueue,  \* calls of thread-safe functions that wait for the script's thread
  heard,        \* the events the script's callback was called with
  answers,      \* the FinishReceiver calls made: [event, by, call, code, data, abort]
  published,    \* what was handed to the library's publish calls: [call, ...]
  view,         \* event -> the code, data and abort flag the script has asked for, in its order
  alive         \* the environment of the script exists

runtime == <<binding, script, works, outcome, settled, alive>>
sbVars == <<binding, script, pc, works, outcome, settled, objects, env_, ref_, tsfn_, hooks, instances, listening, events,
            result_, receiving, scriptQueue, heard, answers, published, view, alive>>

Object == 1..MAX_OBJECTS
Undefined == [t |-> "undefined", n |-> 0]
Arg(argv, i) == IF i <= Len(argv) THEN argv[i] ELSE Undefined
Is(v, type) == v.t = type

\* the entries of f, and those of g that f does not have; a map with one entry
Over(f, g) == [x \in DOMAIN f \cup DOMAIN g |-> IF x \in DOMAIN f THEN f[x] ELSE g[x]]
Entry(x, value) == [i \in {x} |-> value]

SBInit ==
  /\ pc = 1 /\ works = {} /\ outcome = <<>> /\ settled = {} /\ objects = <<>>
  /\ env_ = {} /\ ref_ = {} /\ tsfn_ = {} /\ hooks = {} /\ instances = <<>> /\ listening = {}
  /\ events = <<>> /\ result_ = [o \in Object |-> 0] /\ receiving = <<>> /\ scriptQueue = <<>>
  /\ heard = {} /\ answers = {} /\ published = {} /\ view = <<>> /\ alive = TRUE

-----------------------------------------------------------------------------
(* Conversions of values *)

\* napi_get_value_string_utf8 with a buffer of that size keeps one less
CopyString(v, size) == Min({v.n, size - 1})
Name(v) == CopyString(v, STR_MAX_SIZE - 1)
\* the length read back never exceeds the buffer, so "over size" is never seen: the rest is cut off
Data(v) == CopyString(v, STR_DATA_MAX_SIZE)
Number(v) == v.n
Flag(v) == v.n = 1

\* an optional property of an object: the set of its converted value, empty when it has another type
Optional(object, name, type, default, Convert(_)) ==
  IF name \notin DOMAIN object.props THEN {default}
  ELSE IF Is(object.props[name], type) THEN {Convert(object.props[name])} ELSE {}

\* an optional callback at place i: without it the call returns a promise
OptionalCallback(argv, i) ==
  IF Len(argv) < i THEN {[settle |-> "promise"]}
  ELSE IF Is(argv[i], "function") THEN {[settle |-> "callback"]} ELSE {}

\* The parameters of an event that the binding for Cangjie can pass on: no array without elements
\* or with elements of another type, and no object but the one of a file descriptor.
ArrayTypes == {"string", "boolean", "int", "long", "double"}
GetFDValue(v) == Is(v, "object") /\ v.fd
InnerWrapWantParamsArray(v) ==
  v.elems # <<>> /\ \A i \in DOMAIN v.elems : v.elems[i].t \in ArrayTypes \/ GetFDValue(v.elems[i])
ParseParameters(parameters) ==
  \A i \in DOMAIN parameters :
    LET v == parameters[i]
    IN  /\ Is(v, "object") => GetFDValue(v)
        /\ Is(v, "array") => InnerWrapWantParamsArray(v)

\* a subscriber whose constructor failed is an object without a wrapper
NoWrapper == [events |-> <<>>]
Wrapped == {o \in 1..Len(objects) : objects[o] # NoWrapper}

-----------------------------------------------------------------------------
(* The script and its works *)

\* the next call of the script, once what it waits for has happened: nothing of its earlier
\* calls is under way (await), or so many events have been heard
NextCall(api) ==
  IF /\ alive /\ pc <= Len(script)
     /\ script[pc].api = api
     /\ script[pc].await => works = {}
     /\ Cardinality(heard) >= script[pc].heard
  THEN {script[pc]} ELSE {}

\* the result the map holds for a subscriber
GetAsyncResult(o) == IF o \in DOMAIN instances THEN instances[o] ELSE 0
Receiving(o) == receiving # <<>> /\ receiving[1] = o
OwnResult(o) == result_[o]

Outcome(call, ok, out, e) == outcome' = Over(Entry(call, [ok |-> ok, out |-> out, on |-> e]), outcome)

\* a call that throws or returns null at once
Refuse == pc' = pc + 1 /\ UNCHANGED <<runtime, view>>

\* a call that gives its value at once
Return(ok, out, e) ==
  /\ pc' = pc + 1
  /\ Outcome(pc, ok, out, e)
  /\ settled' = settled \cup {pc}
  /\ UNCHANGED <<binding, script, works, alive>>

Submit(c, sub, parsed) ==
  /\ pc' = pc + 1
  /\ works' = works \cup {[call |-> pc, api |-> c.api, sub |-> sub, arg |-> parsed, at |-> "queued"]}
  /\ UNCHANGED <<binding, script, outcome, settled, alive>>

Queued(api) == {w \in works : w.api = api /\ w.at = "queued"}
Executed(api) == {w \in works : w.api = api /\ w.at = "executed"}
Moved(w, at) == (works \ {w}) \cup {[w EXCEPT !.at = at]}

\* the work of the pool ends with an error code and a value
Execute(w, ok, out) ==
  /\ works' = Moved(w, "executed")
  /\ Outcome(w.call, ok, out, GetAsyncResult(w.sub))
  /\ UNCHANGED <<binding, script, pc, settled, alive>>

\* the completion, on the script's thread: the promise is settled or the callback called
Settle(w) ==
  /\ alive
  /\ works' = works \ {w}
  /\ settled' = IF w.arg.settle = "none" THEN settled ELSE settled \cup {w.call}
  /\ UNCHANGED <<binding, script, pc, outcome, alive>>

\* a work that reports nothing
Forget(w) == alive /\ works' = works \ {w} /\ UNCHANGED <<binding, script, pc, outcome, settled, alive>>

objectVars == <<objects, env_, ref_, tsfn_, hooks, instances, listening>>
eventVars == <<events, result_, receiving, scriptQueue, heard, answers>>

-----------------------------------------------------------------------------
(* The result of an ordered event (AsyncCommonEventResult) *)

CheckSynchronous(e) == events[e].ordered

Answer(e, by, call) ==
  answers' = answers \cup {[event |-> e, by |-> by, call |-> call, code |-> events[e].code, data |-> events[e].data,
                            abort |-> events[e].abort]}

\* a setter: the members given change, when the event is ordered
Assign(e, members) == events' = [events EXCEPT ![e] = Over(members, @)]

\* the script's own account of what it has set
Intend(o, members) ==
  IF GetAsyncResult(o) = 0 THEN UNCHANGED view
  ELSE view' = [view EXCEPT ![GetAsyncResult(o)] = Over(members, @)]

-----------------------------------------------------------------------------
(* Calls on a subscriber that work on the result of the event it holds *)

Accepted(c, parsed) == IF c.this \in Wrapped THEN parsed ELSE {}

\* the call: arguments checked, the work queued; Members are what it sets
Invoke(api, Parse(_), Members(_)) ==
  \E c \in NextCall(api) :
    /\ \/ Accepted(c, Parse(c.argv)) = {} /\ Refuse
       \/ \E p \in Accepted(c, Parse(c.argv)) : Submit(c, c.this, p) /\ Intend(c.this, Members(p))
    /\ UNCHANGED <<objectVars, eventVars, published>>

NoMembers(p) == <<>>

\* what the work reports: without a held result the script bindings' error code stays NO_ERROR, the
\* one for static scripts reports no failure at all, the C interface returns false, the one for
\* Cangjie fails to abort or not to
Reported(api, e, done) ==
  CASE binding = "static" -> TRUE
    [] binding = "native" \/ (binding = "cangjie" /\ api \in {"abort", "clearAbort", "getAbort"}) -> e # 0 /\ done
    [] OTHER -> e = 0 \/ done

\* the work: without a held result nothing is done
Write(api, Members(_)) ==
  \E w \in Queued(api) :
    LET e == GetAsyncResult(w.sub)
    IN  /\ IF e # 0 /\ CheckSynchronous(e) THEN Assign(e, Members(w.arg)) ELSE UNCHANGED events
        /\ Execute(w, Reported(api, e, e # 0 /\ CheckSynchronous(e)), 0)
        /\ UNCHANGED <<objectVars, result_, receiving, scriptQueue, heard, answers, published, view>>

Read(api, Value(_)) ==
  \E w \in Queued(api) :
    /\ Execute(w, binding = "cangjie" => Reported(api, GetAsyncResult(w.sub), TRUE), Value(w.sub))
    /\ UNCHANGED <<objectVars, eventVars, published, view>>

Complete(api) ==
  \E w \in Executed(api) :
    Settle(w) /\ UNCHANGED <<objectVars, eventVars, published, view>>

\* the same at once, on the script's thread
WriteSyncAs(api, Wanted(_), Members(_)) ==
  \E c \in NextCall(api) :
    LET e == IF c.this \in Wrapped THEN GetAsyncResult(c.this) ELSE 0
    IN  /\ IF e # 0 /\ CheckSynchronous(e) THEN Assign(e, Members(c.argv)) /\ Intend(c.this, Wanted(c.argv))
           ELSE UNCHANGED <<events, view>>
        /\ Return(TRUE, 0, e)
        /\ UNCHANGED <<objectVars, result_, receiving, scriptQueue, heard, answers, published>>

WriteSync(api, Members(_)) == WriteSyncAs(api, Members, Members)

ReadSync(api, Value(_)) ==
  \E c \in NextCall(api) :
    /\ Return(TRUE, IF c.this \in Wrapped THEN Value(c.this) ELSE 0, GetAsyncResult(c.this))
    /\ UNCHANGED <<objectVars, eventVars, published, view>>

\* what the getters read, and what they give without a held result
ResultCode(o) == IF GetAsyncResult(o) = 0 THEN 0 ELSE events[GetAsyncResult(o)].code
ResultData(o) == IF GetAsyncResult(o) = 0 THEN 0 ELSE events[GetAsyncResult(o)].data
ResultAbort(o) == GetAsyncResult(o) # 0 /\ events[GetAsyncResult(o)].abort
ResultOrOwn(o) == IF GetAsyncResult(o) # 0 THEN GetAsyncResult(o) ELSE OwnResult(o)
ResultOrdered(o) == ResultOrOwn(o) # 0 /\ events[ResultOrOwn(o)].ordered
ResultSticky(o) == ResultOrOwn(o) # 0 /\ events[ResultOrOwn(o)].sticky
SubscribeInfoOf(o) == objects[o]

(* FinishCommonEvent tests finished_ and sets it without a lock: two works *)
(* on two threads of the pool may both find it unset.                      *)
TestFinished(api) ==
  \E w \in Queued(api) :
    LET e == GetAsyncResult(w.sub)
    IN  /\ IF e # 0 /\ CheckSynchronous(e) /\ ~events[e].finished
           THEN /\ works' = Moved(w, "finishing")
                /\ Outcome(w.call, TRUE, 0, e)
                /\ UNCHANGED <<binding, script, pc, settled, alive>>
           ELSE Execute(w, Reported(api, e, FALSE), 0)
        /\ UNCHANGED <<objectVars, eventVars, published, view>>

SendFinish(api) ==
  \E w \in works :
    /\ w.api = api /\ w.at = "finishing"
    /\ Assign(outcome[w.call].on, [finished |-> TRUE])
    /\ Answer(outcome[w.call].on, "script", w.call)
    /\ works' = Moved(w, "executed")
    /\ UNCHANGED <<binding, script, pc, outcome, settled, alive, objectVars, result_, receiving, scriptQueue, heard, published,
                   view>>

\* the call with its work and its completion
Setter(api, Parse(_), Members(_)) == Invoke(api, Parse, Members) \/ Write(api, Members) \/ Complete(api)
Getter(api, Parse(_), Value(_)) == Invoke(api, Parse, NoMembers) \/ Read(api, Value) \/ Complete(api)
Finisher(api, Parse(_)) == Invoke(api, Parse, NoMembers) \/ TestFinished(api) \/ SendFinish(api) \/ Complete(api)

Code(p) == [code |-> p.code]
DataOf(p) == [data |-> p.data]

\* Mutant: the data is forgotten.
CodeAlone(p) == [code |-> p.code]

CodeAndData(p) == [code |-> p.code, data |-> p.data]
Aborted(p) == [abort |-> TRUE]
NotAborted(p) == [abort |-> FALSE]

SubscriberInserted(o) == instances' = IF o \in DOMAIN instances THEN instances ELSE Over(Entry(o, 0), instances)

-----------------------------------------------------------------------------
(* Calls that the work hands to the client library *)

NoPublishData ==
  [bundleName |-> 0, data |-> 0, code |-> 0, permissions |-> <<>>, ordered |-> FALSE, sticky |-> FALSE, params |-> 0]

Request(api, Parse(_), Handed(_)) ==
  \/ \E c \in NextCall(api) :
       /\ \/ Parse(c.argv) = {} /\ Refuse
          \/ \E p \in Parse(c.argv) : Submit(c, 1, p) /\ UNCHANGED view
       /\ UNCHANGED <<objectVars, eventVars, published>>
  \/ \E w \in Queued(api), ok \in BOOLEAN :
       /\ Execute(w, ok, 0)
       /\ published' = published \cup {Handed(w)}
       /\ UNCHANGED <<objectVars, eventVars, view>>
  \/ Complete(api)

HandedPublication(w) == [call |-> w.call, event |-> w.arg.event, userId |-> w.arg.userId, info |-> w.arg.info]
HandedSticky(w) == [call |-> w.call, event |-> w.arg.event]

-----------------------------------------------------------------------------
(* The client library: listener and service, as the bindings see them *)

\* Mutant: the listener keeps the result as well.
GoesOnSynchronously(o) == UNCHANGED result_

\* the subscriber takes over its result: from here on the listener does not answer
GoAsyncCommonEvent(o) == result_' = [result_ EXCEPT ![o] = 0]
IsOrderedCommonEvent(o) == result_[o] # 0 /\ events[result_[o]].ordered

\* a call of the script that subscribes o is under way
Subscribing(o) == \E w \in works : w.sub = o /\ w.api \in {"subscribe", "subscribeToEvent"}

\* an event arrives at a subscribed subscriber; its result is set before OnReceiveEvent
Deliver ==
  \E o \in listening, kind \in EVENT_KINDS, parameters \in IF binding = "cangjie" THEN EVENT_PARAMETERS ELSE {<<>>} :
    /\ Len(events) < MAX_EVENTS /\ receiving = <<>>
    /\ events' = Append(events, [ordered |-> kind.ordered, sticky |-> kind.sticky, sub |-> o, code |-> 1, data |-> 1,
                                 abort |-> FALSE, finished |-> FALSE, parameters |-> parameters,
                                 early |-> binding = "static" /\ Subscribing(o)])
    /\ view' = Append(view, [code |-> 1, data |-> 1, abort |-> FALSE])
    /\ receiving' = <<o, "arrived">>
    /\ result_' = [result_ EXCEPT ![o] = Len(events) + 1]
    /\ UNCHANGED <<runtime, pc, objectVars, scriptQueue, heard, answers, published>>

\* after OnReceiveEvent the listener answers an ordered event that it still has
EndReceive ==
  /\ receiving # <<>> /\ receiving[2] = "received"
  /\ LET o == receiving[1]
         e == result_[o]
     IN  IF IsOrderedCommonEvent(o) /\ ~events[e].finished
         THEN Assign(e, [finished |-> TRUE]) /\ Answer(e, "listener", 0)
         ELSE UNCHANGED <<events, answers>>
  /\ receiving' = <<>>
  /\ UNCHANGED <<runtime, pc, objectVars, result_, scriptQueue, heard, published, view>>

-----------------------------------------------------------------------------
(* The end of the environment *)

\* ClearEnvCallback, the clean-up hook of a subscriber that was subscribed
ClearEnv == env_' = env_ \ hooks /\ tsfn_' = tsfn_ \ hooks

EnvExit ==
  /\ alive /\ binding \in {"new", "legacy"}
  /\ alive' = FALSE
  /\ ClearEnv
  /\ scriptQueue' = <<>>
  /\ works' = {}
  /\ UNCHANGED <<binding, script, pc, outcome, settled, objects, ref_, hooks, instances, listening, events, result_, receiving, heard,
                 answers, published, view>>

-----------------------------------------------------------------------------
(* Properties *)

\* the script makes each call only when nothing of the earlier ones is under way
Sequential == \A i \in DOMAIN script : script[i].await

\* no second event arrives while the script deals with the first
OneEvent == Len(events) <= 1

Pending(call) == \E w \in works : w.call = call

\* Every call whose work has run reports to the script - its promise is
\* settled or its callback called - unless it is one that never does: a
\* subscription that succeeded, an unsubscription without a callback.
PromisesKept ==
  alive => \A i \in DOMAIN outcome :
    \/ i \in settled \/ Pending(i)
    \/ script[i].api = "subscribe" /\ outcome[i].ok
    \/ script[i].api = "unsubscribe" /\ ~Is(Arg(script[i].argv, 2), "function")

Names(call, o) == call.this = o \/ Arg(call.argv, 1).n = o

Unsubscribed(o) ==
  \E i \in DOMAIN script :
    /\ i < pc /\ Names(script[i], o) /\ ~Pending(i)
    /\ \/ script[i].api = "drop" /\ binding # "cangjie"
       \/ script[i].api = "unsubscribe" /\ i \in DOMAIN outcome
    /\ binding # "native" /\ (binding = "static" => o \notin listening)
    /\ \A j \in 1..pc-1 :
         script[j].api \in {"subscribe", "subscribeToEvent"} /\ Names(script[j], o) =>
           j < i /\ (j \in DOMAIN outcome => outcome[j].ok)

\* Once an unsubscription has completed, or the subscriber was collected, the
\* script's callback is not called for the events still in the queue of its
\* thread, even when the service refused the unsubscription (a static script
\* goes on hearing events then, and the C interface never takes its callback
\* back).  Only when the subscription that it ends had
\* succeeded: a refused subscription leaves its callback behind and no entry
\* in the map by which it would be forgotten.
SilentAfterUnsubscribe ==
  [][Sequential => \A e \in heard' \ heard : ~Unsubscribed(events[e].sub)]_sbVars

\* the script has asked to unsubscribe o, dropped it, or created it once more
Leaving(o) ==
  \E i \in 1..pc-1 : Names(script[i], o) /\
    \/ script[i].api \in {"unsubscribe", "drop"}
    \/ script[i].api = "createSubscriber" /\ \E j \in 1..i-1 : script[j].api = "createSubscriber"

\* An ordered event whose result was taken over for the script reaches the
\* script's callback: the listener will not answer it any more, so nobody
\* would, and the service would wait for its timeout.  (A static script takes
\* over an event that comes while it unsubscribes, too, and the binding for
\* Cangjie one whose parameters it finds it cannot convert.)
HeldIsHeard ==
  Sequential /\ alive /\ scriptQueue = <<>> /\ receiving = <<>> =>
    \A o \in DOMAIN instances :
      \/ instances[o] = 0 \/ instances[o] \in heard
      \/ binding = "static" /\ Leaving(o)
      \/ ~ParseParameters(events[instances[o]].parameters)

\* The other way round: an ordered event the script was called with and has
\* not answered is the one its calls work on, until the next event or an
\* unsubscription, so that the script can answer it.  (Not one that comes
\* while a static script's subscription is under way: the map may get
\* the empty result of the subscriber after that of the event.)
HeardIsHeld ==
  Sequential /\ alive /\ receiving = <<>> /\ heard # {} =>
    LET e == Len(events)
        o == events[e].sub
    IN  \/ e \notin heard \/ ~events[e].ordered \/ events[e].finished
        \/ Leaving(o)
        \/ binding = "static" /\ events[e].early
        \/ GetAsyncResult(o) = e

\* An ordered event is answered by the script or by the listener, never by
\* both, and by a script that waits for its calls only once.
AnsweredOnce ==
  \A a, b \in answers : a.event = b.event => a.by = b.by /\ (Sequential => a = b)

Getters == {"getCode", "getData", "getAbort", "getCodeSync", "getDataSync", "getAbortSync"}
Viewed(api, e) ==
  CASE api \in {"getCode", "getCodeSync"} -> view[e].code
    [] api \in {"getData", "getDataSync"} -> view[e].data
    [] OTHER -> view[e].abort

\* What a script that waits for its calls has set on an ordered event is what
\* it reads back and what its answer carries to the service, as long as no
\* other event arrives (the calls name the subscriber, not the event).
ReadsOwnWrites ==
  [][Sequential /\ OneEvent =>
       /\ \A a \in answers' \ answers :
            a.by = "script" => view[a.event] = [code |-> a.code, data |-> a.data, abort |-> a.abort]
       /\ \A i \in DOMAIN outcome' \ DOMAIN outcome :
            script[i].api \in Getters /\ outcome'[i].on # 0 /\ events[outcome'[i].on].ordered =>
              outcome'[i].out = Viewed(script[i].api, outcome'[i].on)]_sbVars

Given(d, name) == IF name \in DOMAIN d.props THEN d.props[name].n ELSE 0
GivenSeq(d, name) ==
  IF name \notin DOMAIN d.props \/ ~Is(d.props[name], "array") THEN <<>>
  ELSE LET given == SelectSeq(d.props[name].elems, LAMBDA v : ~Is(v, "null"))
       IN  [i \in DOMAIN given |-> given[i].n]
Fits(n, size) == n < size
Asked(d) ==
  [bundleName |-> Given(d, "bundleName"), data |-> Given(d, "data"), code |-> Given(d, "code"),
   permissions |-> GivenSeq(d, "subscriberPermissions"), ordered |-> Given(d, "isOrdered") = 1,
   sticky |-> Given(d, "isSticky") = 1,
   params |-> IF "parameters" \in DOMAIN d.props /\ Is(d.props.parameters, "array") THEN d.props.parameters.elems
              ELSE Given(d, "parameters")]
DataArgument(argv) == {argv[i] : i \in {j \in 2..Len(argv) : Is(argv[j], "object")}}

\* A publication reaches the client library with the event, the user and the
\* data the script gave, whatever other calls were under way, as long as its
\* strings fit into the buffers they are copied to.  (The parameters of a
\* static script's publishAsUser do not: the want is copied too early.)
PublishedAsAsked ==
  \A p \in published : script[p.call].api \in {"publish", "publishAsUser"} =>
    LET argv == script[p.call].argv
        api == script[p.call].api
        lost == IF binding = "static" /\ api = "publishAsUser" THEN {"params"} ELSE {}
    IN  /\ Fits(argv[1].n, STR_MAX_SIZE - 1) => p.event = argv[1].n
        /\ p.userId = IF api = "publish" THEN -1 ELSE argv[2].n
        /\ \A d \in DataArgument(argv) :
             /\ Fits(Given(d, "bundleName"), STR_MAX_SIZE - 1)
             /\ Fits(Given(d, "data"), STR_DATA_MAX_SIZE)
             /\ \A i \in DOMAIN GivenSeq(d, "subscriberPermissions") :
                  Fits(GivenSeq(d, "subscriberPermissions")[i], STR_MAX_SIZE - 1)
             => \A f \in DOMAIN Asked(d) \ lost : p.info[f] = Asked(d)[f]

=============================================================================
