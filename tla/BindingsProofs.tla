---------------------------- MODULE BindingsProofs ----------------------------
(***************************************************************************)
(* What holds of the bindings for any scripts, any subscribers and any     *)
(* events: an ordered event is answered by the script or by the listener,  *)
(* by a script that waits for its calls only once; and a call whose work   *)
(* has run reports to the script.                                          *)
(*                                                                         *)
(* The argument.  A result is in one place: with the subscriber it was     *)
(* delivered to (result_), from where the listener answers it, or taken    *)
(* over for the script.  What the map holds, what a finish works on and    *)
(* what the script has answered was taken over, and stays so.  The calls   *)
(* of the five bindings are many, but with regard to results and works     *)
(* each of their steps is one of the few kinds defined here.               *)
(***************************************************************************)
EXTENDS Bindings, SequenceTheorems, TLAPS

-----------------------------------------------------------------------------
(* The invariant *)

\* The members of a result that decide who answers it.
EventsOK ==
  /\ events \in Seq({events[e] : e \in DOMAIN events})
  /\ \A e \in 1..Len(events) : {"ordered", "finished"} \subseteq DOMAIN events[e]

TypesOK ==
  /\ binding \in Binding /\ script \in SCRIPTS[binding] /\ pc \in Nat \ {0}
  /\ EventsOK
  /\ listening \subseteq Object
  /\ result_ \in [Object -> 0..Len(events)]
  /\ receiving = <<>> \/ receiving \in Object \X {"arrived", "taken", "received"}

ByListener(e) == \E a \in answers : a.event = e /\ a.by = "listener"

\* An event the listener has not answered and will not answer.
Taken(e) ==
  /\ e \in 1..Len(events)
  /\ \A o \in Object : result_[o] # e
  /\ ~ByListener(e)

\* A result is with one subscriber, that of the event being received with the
\* one it came to; the listener of a static script never answers.
ResultsOK ==
  /\ \A o, p \in Object : result_[o] = result_[p] => o = p \/ result_[o] = 0
  /\ receiving # <<>> =>
       /\ Len(events) > 0 /\ result_[receiving[1]] \in {0, Len(events)}
       /\ ~ByListener(Len(events))
       /\ binding = "static" /\ receiving[2] # "arrived" => ~IsOrderedCommonEvent(receiving[1])

HeldOK == \A o \in DOMAIN instances : instances[o] = 0 \/ Taken(instances[o])

AnswersOK ==
  \A a \in answers :
    /\ a.event \in 1..Len(events) /\ events[a.event].finished
    /\ a.by \in {"script", "listener"}
    /\ a.by = "script" => Taken(a.event)
    /\ a.by = "listener" => binding # "static"

\* A work belongs to one of the calls made.
WorksOK ==
  /\ \A w \in works :
       /\ w = [call |-> w.call, api |-> w.api, sub |-> w.sub, arg |-> w.arg, at |-> w.at]
       /\ w.call \in 1..pc - 1 /\ w.api = script[w.call].api
       /\ w.api \in SubscribeCalls => w.sub \in Object
       /\ w.arg.settle = "none" => w.api = "unsubscribe" /\ ~Is(Arg(script[w.call].argv, 2), "function")
  /\ \A v, w \in works : v.call = w.call => v = w

\* One that has found the event unfinished is about to answer it, and in a
\* script that waits for its calls it is the only one.
FinishingOK ==
  /\ \A w \in works : w.at = "finishing" =>
       /\ w.call \in DOMAIN outcome /\ Taken(outcome[w.call].on)
       /\ Sequential => ~events[outcome[w.call].on].finished
  /\ Sequential => \A v, w \in works : v = w

BindInv ==
  /\ TypesOK
  /\ ResultsOK
  /\ HeldOK
  /\ AnswersOK
  /\ WorksOK
  /\ FinishingOK
  /\ AnsweredOnce
  /\ PromisesKept

-----------------------------------------------------------------------------
(* The kinds of steps *)

\* Nothing changes in who is to answer which event, or did.
SameResults ==
  /\ EventsOK' /\ Len(events') = Len(events)
  /\ \A e \in 1..Len(events) :
       events'[e].ordered = events[e].ordered /\ events'[e].finished = events[e].finished
HeldLess ==
  \A o \in DOMAIN instances' :
    instances'[o] = 0 \/ (o \in DOMAIN instances /\ instances'[o] = instances[o])
Quiet == SameResults /\ HeldLess /\ UNCHANGED <<binding, script, result_, answers>>

\* Only the outcome of call i is written.
Recorded(i) ==
  /\ DOMAIN outcome' = DOMAIN outcome \cup {i}
  /\ \A j \in DOMAIN outcome \ {i} : outcome'[j] = outcome[j]

NewWork(w) ==
  /\ w = [call |-> pc, api |-> script[pc].api, sub |-> w.sub, arg |-> w.arg, at |-> "queued"]
  /\ w.api \in SubscribeCalls => w.sub \in Object
  /\ w.arg.settle = "none" => w.api = "unsubscribe" /\ ~Is(Arg(script[pc].argv, 2), "function")

\* The script makes its next call: it is refused, answered at once, or queues a work.
Made ==
  /\ alive /\ pc \in 1..Len(script) /\ (script[pc].await => works = {})
  /\ pc' = pc + 1
  /\ Quiet /\ UNCHANGED <<receiving, alive>> /\ listening' \subseteq listening
  /\ works \subseteq works' /\ \A v, w \in works' \ works : NewWork(w) /\ v = w
  /\ \/ UNCHANGED <<outcome, settled>>
     \/ Recorded(pc) /\ settled' = settled \cup {pc}

\* A work takes a step that decides nothing about an event.
Ran(w, at) ==
  /\ w \in works /\ works' = (works \ {w}) \cup {[w EXCEPT !.at = at]}
  /\ Quiet /\ UNCHANGED <<pc, settled, receiving, alive>>
  /\ UNCHANGED outcome \/ Recorded(w.call)
  /\ listening' \subseteq listening \cup (IF w.api \in SubscribeCalls THEN {w.sub} ELSE {})

\* A work has found the event its subscriber holds unfinished, ...
Tested(w) ==
  /\ w \in works /\ works' = (works \ {w}) \cup {[w EXCEPT !.at = "finishing"]}
  /\ Quiet /\ UNCHANGED <<pc, settled, receiving, alive, listening>>
  /\ Recorded(w.call)
  /\ w.sub \in DOMAIN instances /\ instances[w.sub] # 0
  /\ outcome'[w.call].on = instances[w.sub] /\ ~events[instances[w.sub]].finished

\* ... and answers it.
Answered(e, by) ==
  /\ EventsOK' /\ Len(events') = Len(events)
  /\ \A i \in 1..Len(events) :
       events'[i].ordered = events[i].ordered /\ (events'[i].finished <=> (i = e \/ events[i].finished))
  /\ \E a : a.event = e /\ a.by = by /\ answers' = answers \cup {a}
Sent(w) ==
  /\ w \in works /\ works' = (works \ {w}) \cup {[w EXCEPT !.at = "executed"]}
  /\ w.at = "finishing" /\ Answered(outcome[w.call].on, "script")
  /\ HeldLess
  /\ UNCHANGED <<binding, script, pc, outcome, settled, result_, receiving, alive, listening>>

\* A work is completed.
Done(w) ==
  /\ alive /\ w \in works /\ works' = works \ {w}
  /\ Quiet /\ UNCHANGED <<pc, outcome, receiving, alive, listening>>
  /\ \/ settled' = settled \cup {w.call}
     \/ settled' = settled /\ (w.arg.settle = "none" \/ (w.api = "subscribe" /\ outcome[w.call].ok))

\* The result of o is taken over for the script.
GoneOver(o) ==
  /\ \A i \in DOMAIN instances' :
       (i = o /\ instances'[i] = result_[o]) \/ (i \in DOMAIN instances /\ instances'[i] = instances[i])
  /\ result_' = [result_ EXCEPT ![o] = 0]
  /\ UNCHANGED <<binding, script, pc, outcome, settled, alive, listening, events, answers>>

\* A static script's subscription enters the map.
Entered(w) ==
  /\ binding = "static" /\ w \in works /\ w.api \in SubscribeCalls
  /\ works' = (works \ {w}) \cup {[w EXCEPT !.at = "executed"]}
  /\ GoneOver(w.sub) /\ UNCHANGED receiving

\* The listener's thread takes an ordered event over, ...
TookOver ==
  /\ receiving # <<>> /\ receiving[2] = "arrived" /\ receiving' = <<receiving[1], "taken">>
  /\ GoneOver(receiving[1]) /\ UNCHANGED works

\* ... or goes on without that.
WentOn ==
  /\ receiving # <<>> /\ receiving[2] \in {"arrived", "taken"}
  /\ receiving' \in {<<receiving[1], "taken">>, <<receiving[1], "received">>}
  /\ binding = "static" /\ receiving[2] = "arrived" => ~IsOrderedCommonEvent(receiving[1])
  /\ Quiet /\ UNCHANGED <<pc, works, outcome, settled, alive, listening>>

\* The environment of the script ends.
Ended ==
  /\ alive' = FALSE /\ works' = {} /\ listening' \subseteq listening /\ receiving' \in {receiving, <<>>}
  /\ Quiet /\ UNCHANGED <<pc, outcome, settled>>

Elsewhere ==
  UNCHANGED <<binding, script, pc, works, outcome, settled, instances, listening, events, result_, receiving,
              answers, alive>>

WorkAt == {"executed", "subscribed", "unsubscribed", "callback"}
Step ==
  \/ Made \/ TookOver \/ WentOn \/ Ended \/ Elsewhere
  \/ \E w \in works :
       \/ Tested(w) \/ Sent(w) \/ Done(w) \/ Entered(w)
       \/ \E at \in WorkAt : Ran(w, at)
  \/ Deliver \/ EndReceive

-----------------------------------------------------------------------------
(* Events and results *)

\* Unchanged events are as they were.
LEMMA Unchanged == EventsOK /\ UNCHANGED events => SameResults
BY DEF SameResults, EventsOK

\* A function on an interval is a sequence.
LEMMA IntervalIsSeq ==
  ASSUME NEW f, NEW n \in Nat, f \in [1..n -> {f[i] : i \in DOMAIN f}]
  PROVE  f \in Seq({f[i] : i \in DOMAIN f}) /\ Len(f) = n
<1>1. f \in Seq({f[i] : i \in DOMAIN f})
  BY SeqDef
<1>2. DOMAIN f = 1..Len(f) /\ DOMAIN f = 1..n /\ Len(f) \in Nat
  BY <1>1, LenProperties
<1> QED  BY <1>1, <1>2

\* An answer marks the event.
LEMMA AnswerMarks ==
  ASSUME EventsOK, NEW e, NEW by, NEW call, Assign(e, [finished |-> TRUE]), Answer(e, by, call)
  PROVE  Answered(e, by)
<1>1. events' = [events EXCEPT ![e] = Over([finished |-> TRUE], events[e])]
  BY DEF Assign
<1>2. \A f : /\ DOMAIN Over([finished |-> TRUE], f) = {"finished"} \cup DOMAIN f
             /\ \A x \in DOMAIN f \ {"finished"} : Over([finished |-> TRUE], f)[x] = f[x]
             /\ Over([finished |-> TRUE], f).finished = TRUE
  BY DEF Over
<1>3. Len(events) \in Nat /\ DOMAIN events = 1..Len(events)
  BY LenProperties DEF EventsOK
<1>4. events' \in [1..Len(events) -> {events'[i] : i \in DOMAIN events'}]
  BY <1>1, <1>3
<1>5. events' \in Seq({events'[i] : i \in DOMAIN events'}) /\ Len(events') = Len(events)
  BY <1>3, <1>4, IntervalIsSeq
<1>6. ASSUME NEW i \in 1..Len(events)
      PROVE  /\ {"ordered", "finished"} \subseteq DOMAIN events'[i]
             /\ events'[i].ordered = events[i].ordered
             /\ events'[i].finished <=> (i = e \/ events[i].finished)
  <2>1. events'[i] = IF i = e THEN Over([finished |-> TRUE], events[i]) ELSE events[i]
    BY <1>1, <1>3
  <2>2. {"ordered", "finished"} \subseteq DOMAIN events[i]
    BY DEF EventsOK
  <2> QED  BY <1>2, <2>1, <2>2
<1>7. \E a : a.event = e /\ a.by = by /\ answers' = answers \cup {a}
  BY DEF Answer
<1> QED  BY <1>5, <1>6, <1>7 DEF Answered, EventsOK

-----------------------------------------------------------------------------
(* The kinds of steps keep the invariant *)

\* A step that decides nothing about an event leaves alone what is known of results.
LEMMA QuietKeeps ==
  ASSUME BindInv, Quiet
  PROVE  /\ \A e : Taken(e) => Taken(e)'
         /\ \A e : ByListener(e)' <=> ByListener(e)
         /\ \A o \in Object : IsOrderedCommonEvent(o)' <=> IsOrderedCommonEvent(o)
         /\ result_' \in [Object -> 0..Len(events')]
         /\ HeldOK' /\ AnswersOK' /\ AnsweredOnce'
<1>1. \A e : ByListener(e)' <=> ByListener(e)
  BY DEF ByListener, Quiet
<1>2. \A e : Taken(e) => Taken(e)'
  BY <1>1 DEF Taken, Quiet, SameResults
<1>3. result_ \in [Object -> 0..Len(events)] /\ Len(events) \in Nat
  BY LenProperties DEF BindInv, TypesOK, EventsOK
<1>4. \A o \in Object : IsOrderedCommonEvent(o)' <=> IsOrderedCommonEvent(o)
  BY <1>3 DEF IsOrderedCommonEvent, Quiet, SameResults
<1>5. HeldOK'
  BY <1>2 DEF BindInv, HeldOK, Quiet, HeldLess
<1>6. AnswersOK'
  BY <1>2 DEF BindInv, AnswersOK, Quiet, SameResults
<1>7. AnsweredOnce'
  BY DEF BindInv, AnsweredOnce, Sequential, Quiet
<1> QED  BY <1>1, <1>2, <1>3, <1>4, <1>5, <1>6, <1>7 DEF Quiet, SameResults

\* Nor does it move a result, as long as nothing new is being received.
LEMMA QuietReceives ==
  ASSUME BindInv, Quiet, receiving' \in {receiving, <<>>}
  PROVE  ResultsOK'
<1>1. receiving # <<>> => receiving[1] \in Object
  BY DEF BindInv, TypesOK
<1> QED  BY <1>1, QuietKeeps DEF BindInv, ResultsOK, Quiet, SameResults

\* A work that moves on is still the one of its call.
LEMMA MovedKeeps ==
  ASSUME BindInv, NEW w \in works, NEW at, works' = (works \ {w}) \cup {[w EXCEPT !.at = at]},
         UNCHANGED <<script, pc>>
  PROVE  /\ WorksOK'
         /\ \A v \in works' : (v.at = at /\ v.call = w.call) \/ (v \in works /\ v.call # w.call)
         /\ \A i : Pending(i) => Pending(i)'
         /\ Pending(w.call)'
         /\ Sequential => \A u, v \in works' : u = v
<1> DEFINE m == [w EXCEPT !.at = at]
<1>1. m = [call |-> w.call, api |-> w.api, sub |-> w.sub, arg |-> w.arg, at |-> at]
  BY DEF BindInv, WorksOK
<1>2. m.call = w.call /\ m.api = w.api /\ m.sub = w.sub /\ m.arg = w.arg /\ m.at = at
  BY <1>1
<1>3. m = [call |-> m.call, api |-> m.api, sub |-> m.sub, arg |-> m.arg, at |-> m.at]
  BY <1>1, <1>2
<1>4. \A v \in works' : v = m \/ (v \in works /\ v # w)
  OBVIOUS
<1>5. m \in works' /\ \A v \in works : v # w => v \in works'
  OBVIOUS
<1> HIDE DEF m
<1>6. \A v \in works : v # w => v.call # w.call
  BY DEF BindInv, WorksOK
<1>7. WorksOK'
  BY <1>2, <1>3, <1>4, <1>6 DEF BindInv, WorksOK
<1>8. \A v \in works' : (v.at = at /\ v.call = w.call) \/ (v \in works /\ v.call # w.call)
  BY <1>2, <1>4, <1>6
<1>9. \A i : Pending(i) => Pending(i)'
  BY <1>2, <1>5 DEF Pending
<1>10. Pending(w.call)'
  BY <1>2, <1>5 DEF Pending
<1>11. Sequential => \A u, v \in works' : u = v
  BY <1>4 DEF BindInv, FinishingOK
<1> QED  BY <1>7, <1>8, <1>9, <1>10, <1>11

\* What the works are about to answer, when nothing changes in who is to answer it.
LEMMA QuietFinishing ==
  ASSUME BindInv, Quiet,
         NEW i, UNCHANGED outcome \/ Recorded(i),
         \A v \in works' : v.at = "finishing" => v \in works /\ v.call # i,
         Sequential => \A u, v \in works' : u = v
  PROVE  FinishingOK'
<1>1. Sequential' <=> Sequential
  BY DEF Sequential, Quiet
<1>2. ASSUME NEW w \in works', w.at = "finishing"
      PROVE  /\ w.call \in DOMAIN outcome' /\ Taken(outcome[w.call].on)'
             /\ Sequential => ~events'[outcome'[w.call].on].finished
  <2>1. w \in works /\ w.call \in DOMAIN outcome /\ Taken(outcome[w.call].on)
        /\ (Sequential => ~events[outcome[w.call].on].finished)
    BY <1>2 DEF BindInv, FinishingOK
  <2>2. w.call \in DOMAIN outcome' /\ outcome'[w.call] = outcome[w.call]
    BY <1>2, <2>1 DEF Recorded
  <2>3. events'[outcome[w.call].on].finished = events[outcome[w.call].on].finished
    BY <2>1 DEF Taken, Quiet, SameResults
  <2> QED  BY <2>1, <2>2, <2>3, QuietKeeps
<1> QED  BY <1>1, <1>2 DEF FinishingOK

\* Promises are kept when the outcome of one call changes and that call is pending or settled.
LEMMA StillKept ==
  ASSUME BindInv, UNCHANGED script, alive' => alive, NEW i,
         UNCHANGED outcome \/ (Recorded(i) /\ (i \in settled' \/ Pending(i)')),
         settled \subseteq settled', \A j : Pending(j) => Pending(j)'
  PROVE  PromisesKept'
BY DEF BindInv, PromisesKept, Recorded

\* The script makes its next call.
LEMMA MadeKeeps ==
  ASSUME BindInv, Made
  PROVE  BindInv'
<1>1. Quiet /\ pc \in Nat \ {0} /\ pc' = pc + 1 /\ UNCHANGED <<receiving, alive, script, binding>>
  BY DEF Made, Quiet, BindInv, TypesOK
<1>2. TypesOK'
  BY <1>1, QuietKeeps DEF Made, Quiet, SameResults, BindInv, TypesOK
<1>3. \A w \in works : w.call \in 1..pc - 1
  BY DEF BindInv, WorksOK
<1>4. \A w \in works' \ works :
        /\ w = [call |-> w.call, api |-> w.api, sub |-> w.sub, arg |-> w.arg, at |-> w.at]
        /\ w.call = pc /\ w.api = script[pc].api /\ w.at = "queued"
        /\ w.api \in SubscribeCalls => w.sub \in Object
        /\ w.arg.settle = "none" => w.api = "unsubscribe" /\ ~Is(Arg(script[pc].argv, 2), "function")
  BY DEF Made, NewWork
<1>5. \A v, w \in works' \ works : v = w
  BY DEF Made
<1>6. WorksOK'
  <2>1. \A w \in works' :
          /\ w = [call |-> w.call, api |-> w.api, sub |-> w.sub, arg |-> w.arg, at |-> w.at]
          /\ w.call \in 1..pc /\ w.api = script[w.call].api
          /\ w.api \in SubscribeCalls => w.sub \in Object
          /\ w.arg.settle = "none" => w.api = "unsubscribe" /\ ~Is(Arg(script[w.call].argv, 2), "function")
    BY <1>1, <1>3, <1>4 DEF BindInv, WorksOK
  <2>2. \A v, w \in works' : v.call = w.call => v = w
    BY <1>1, <1>3, <1>4, <1>5 DEF BindInv, WorksOK
  <2>3. 1..pc = 1..pc' - 1
    BY <1>1
  <2> QED  BY <1>1, <2>1, <2>2, <2>3 DEF WorksOK
<1>7. Sequential => \A v, w \in works' : v = w
  <2>1. Sequential => works = {}
    BY DEF Sequential, Made
  <2> QED  BY <1>5, <2>1
<1>8. \A v \in works' : v.at = "finishing" => v \in works /\ v.call # pc
  BY <1>1, <1>3, <1>4
<1>9. FinishingOK'
  BY <1>1, <1>7, <1>8, QuietFinishing DEF Made
<1>10. PromisesKept'
  <2>1. \A j : Pending(j) => Pending(j)'
    BY DEF Pending, Made
  <2> QED  BY <1>1, <2>1, StillKept DEF Made
<1> QED  BY <1>1, <1>2, <1>6, <1>9, <1>10, QuietKeeps, QuietReceives DEF BindInv

\* A work runs.
LEMMA RanKeeps ==
  ASSUME BindInv, NEW w, NEW at \in WorkAt, Ran(w, at)
  PROVE  BindInv'
<1>1. w \in works /\ Quiet /\ UNCHANGED <<binding, script, pc, settled, receiving, alive>>
  BY DEF Ran, Quiet
<1>2. /\ WorksOK'
      /\ \A v \in works' : (v.at = at /\ v.call = w.call) \/ (v \in works /\ v.call # w.call)
      /\ \A i : Pending(i) => Pending(i)'
      /\ Pending(w.call)'
      /\ Sequential => \A u, v \in works' : u = v
  BY <1>1, MovedKeeps DEF Ran
<1>3. at # "finishing"
  BY DEF WorkAt
<1>4. FinishingOK'
  BY <1>1, <1>2, <1>3, QuietFinishing DEF Ran
<1>5. PromisesKept'
  BY <1>1, <1>2, StillKept DEF Ran
<1>6. w.api \in SubscribeCalls => w.sub \in Object
  BY <1>1 DEF BindInv, WorksOK
<1>7. TypesOK'
  BY <1>1, <1>6, QuietKeeps DEF Ran, Quiet, SameResults, BindInv, TypesOK
<1> QED  BY <1>1, <1>2, <1>4, <1>5, <1>7, QuietKeeps, QuietReceives DEF BindInv

\* A work finds the event unfinished.
LEMMA TestedKeeps ==
  ASSUME BindInv, NEW w, Tested(w)
  PROVE  BindInv'
<1>1. w \in works /\ Quiet /\ UNCHANGED <<binding, script, pc, settled, receiving, alive, listening>>
  BY DEF Tested, Quiet
<1>2. /\ WorksOK'
      /\ \A v \in works' : (v.at = "finishing" /\ v.call = w.call) \/ (v \in works /\ v.call # w.call)
      /\ \A i : Pending(i) => Pending(i)'
      /\ Pending(w.call)'
      /\ Sequential => \A u, v \in works' : u = v
  BY <1>1, MovedKeeps DEF Tested
<1>3. Taken(instances[w.sub]) /\ outcome'[w.call].on = instances[w.sub] /\ w.call \in DOMAIN outcome'
  BY DEF Tested, BindInv, HeldOK, Recorded
<1>4. FinishingOK'
  <2>1. Sequential' <=> Sequential
    BY <1>1 DEF Sequential
  <2>2. ASSUME NEW v \in works', v.at = "finishing"
        PROVE  /\ v.call \in DOMAIN outcome' /\ Taken(outcome[v.call].on)'
               /\ Sequential => ~events'[outcome'[v.call].on].finished
    <3>1. CASE v.call = w.call
      <4>1. ~events'[instances[w.sub]].finished
        BY <1>1, <1>3 DEF Tested, Taken, Quiet, SameResults
      <4> QED  BY <1>1, <1>3, <3>1, <4>1, QuietKeeps
    <3>2. CASE v.call # w.call
      <4>1. v \in works /\ v.call \in DOMAIN outcome /\ Taken(outcome[v.call].on)
            /\ (Sequential => ~events[outcome[v.call].on].finished)
        BY <1>2, <2>2, <3>2 DEF BindInv, FinishingOK
      <4>2. v.call \in DOMAIN outcome' /\ outcome'[v.call] = outcome[v.call]
        BY <3>2, <4>1 DEF Tested, Recorded
      <4>3. events'[outcome[v.call].on].finished = events[outcome[v.call].on].finished
        BY <1>1, <4>1 DEF Taken, Quiet, SameResults
      <4> QED  BY <1>1, <4>1, <4>2, <4>3, QuietKeeps
    <3> QED  BY <3>1, <3>2
  <2> QED  BY <1>2, <2>1, <2>2 DEF FinishingOK
<1>5. PromisesKept'
  BY <1>1, <1>2, StillKept DEF Tested
<1>6. TypesOK'
  BY <1>1, QuietKeeps DEF Quiet, SameResults, BindInv, TypesOK
<1> QED  BY <1>1, <1>2, <1>4, <1>5, <1>6, QuietKeeps, QuietReceives DEF BindInv

\* A work is completed.
LEMMA DoneKeeps ==
  ASSUME BindInv, NEW w, Done(w)
  PROVE  BindInv'
<1>1. w \in works /\ Quiet /\ UNCHANGED <<binding, script, pc, outcome, receiving, alive, listening>>
  BY DEF Done, Quiet
<1>2. works' = works \ {w}
  BY DEF Done
<1>3. WorksOK'
  BY <1>1, <1>2 DEF BindInv, WorksOK
<1>4. FinishingOK'
  <2>1. \A v \in works' : v.at = "finishing" => v \in works /\ v.call # w.call
    BY <1>1, <1>2 DEF BindInv, WorksOK
  <2>2. Sequential => \A u, v \in works' : u = v
    BY <1>2 DEF BindInv, FinishingOK
  <2> QED  BY <1>1, <2>1, <2>2, QuietFinishing
<1>5. PromisesKept'
  <2>1. \A i : Pending(i) => i = w.call \/ Pending(i)'
    BY <1>2 DEF Pending
  <2>2. \/ w.call \in settled'
        \/ script[w.call].api = "subscribe" /\ outcome[w.call].ok
        \/ script[w.call].api = "unsubscribe" /\ ~Is(Arg(script[w.call].argv, 2), "function")
    BY <1>1 DEF Done, BindInv, WorksOK
  <2>3. settled \subseteq settled'
    BY DEF Done
  <2> QED  BY <1>1, <2>1, <2>2, <2>3 DEF BindInv, PromisesKept
<1>6. TypesOK'
  BY <1>1, QuietKeeps DEF Quiet, SameResults, BindInv, TypesOK
<1> QED  BY <1>1, <1>3, <1>4, <1>5, <1>6, QuietKeeps, QuietReceives DEF BindInv

\* The environment ends.
LEMMA EndedKeeps ==
  ASSUME BindInv, Ended
  PROVE  BindInv'
<1>1. Quiet /\ UNCHANGED <<binding, script, pc, outcome, settled>>
  BY DEF Ended, Quiet
<1>2. WorksOK' /\ FinishingOK' /\ PromisesKept'
  BY DEF Ended, WorksOK, FinishingOK, PromisesKept
<1>3. TypesOK'
  BY <1>1, QuietKeeps DEF Ended, Quiet, SameResults, BindInv, TypesOK
<1> QED  BY <1>1, <1>2, <1>3, QuietKeeps, QuietReceives DEF Ended, BindInv

\* The listener goes on without taking the event over.
LEMMA WentOnKeeps ==
  ASSUME BindInv, WentOn
  PROVE  BindInv'
<1>1. Quiet /\ UNCHANGED <<binding, script, pc, works, outcome, settled, alive, listening>>
  BY DEF WentOn, Quiet
<1>2. receiving # <<>> /\ receiving[1] \in Object
      /\ receiving' # <<>> /\ receiving'[1] = receiving[1] /\ receiving'[2] \in {"taken", "received"}
  BY DEF WentOn, BindInv, TypesOK
<1>3. ResultsOK'
  <2>1. binding = "static" => ~IsOrderedCommonEvent(receiving[1])
    BY <1>2 DEF WentOn, BindInv, ResultsOK
  <2> QED  BY <1>1, <1>2, <2>1, QuietKeeps DEF BindInv, ResultsOK, Quiet, SameResults
<1>4. WorksOK' /\ PromisesKept'
  BY <1>1 DEF BindInv, WorksOK, PromisesKept, Pending
<1>5. FinishingOK'
  <2>1. \A v \in works' : v.at = "finishing" => v \in works /\ v.call # 0
    BY <1>1 DEF BindInv, WorksOK
  <2>2. Sequential => \A u, v \in works' : u = v
    BY <1>1 DEF BindInv, FinishingOK
  <2> QED  BY <1>1, <2>1, <2>2, QuietFinishing
<1>6. TypesOK'
  <2>1. receiving' \in Object \X {"arrived", "taken", "received"}
    BY <1>2 DEF WentOn
  <2> QED  BY <1>1, <2>1, QuietKeeps DEF Quiet, SameResults, BindInv, TypesOK
<1> QED  BY <1>1, <1>3, <1>4, <1>5, <1>6, QuietKeeps DEF BindInv

\* A result is taken over that the listener has not answered.
LEMMA GoneOverKeeps ==
  ASSUME BindInv, NEW o \in Object, GoneOver(o), result_[o] = 0 \/ ~ByListener(result_[o])
  PROVE  /\ \A e : Taken(e) => Taken(e)'
         /\ \A p \in Object : IsOrderedCommonEvent(p)' => IsOrderedCommonEvent(p)
         /\ ~IsOrderedCommonEvent(o)'
         /\ \A p \in Object : result_'[p] \in {0, result_[p]}
         /\ result_' \in [Object -> 0..Len(events')]
         /\ HeldOK' /\ AnswersOK' /\ AnsweredOnce'
<1>1. result_ \in [Object -> 0..Len(events)] /\ Len(events) \in Nat
  BY LenProperties DEF BindInv, TypesOK, EventsOK
<1>2. /\ \A p \in Object : result_'[p] = IF p = o THEN 0 ELSE result_[p]
      /\ result_' \in [Object -> 0..Len(events')]
      /\ UNCHANGED <<binding, script, events, answers>>
  BY <1>1 DEF GoneOver
<1>3. \A e : ByListener(e)' <=> ByListener(e)
  BY <1>2 DEF ByListener
<1>4. \A e : Taken(e) => Taken(e)'
  BY <1>1, <1>2, <1>3 DEF Taken
<1>5. \A e : e = result_[o] /\ e # 0 => Taken(e)'
  <2>1. \A p \in Object : result_[p] = result_[o] => p = o \/ result_[o] = 0
    BY DEF BindInv, ResultsOK
  <2> QED  BY <1>1, <1>2, <1>3, <2>1 DEF Taken
<1>6. HeldOK'
  <2>1. \A i \in DOMAIN instances' :
          instances'[i] = result_[o] \/ (i \in DOMAIN instances /\ instances'[i] = instances[i])
    BY DEF GoneOver
  <2> QED  BY <1>4, <1>5, <2>1 DEF BindInv, HeldOK
<1>7. AnswersOK'
  BY <1>2, <1>4 DEF BindInv, AnswersOK
<1>8. AnsweredOnce'
  BY <1>2 DEF BindInv, AnsweredOnce, Sequential
<1>9. /\ \A p \in Object : IsOrderedCommonEvent(p)' => IsOrderedCommonEvent(p)
      /\ ~IsOrderedCommonEvent(o)'
  BY <1>2 DEF IsOrderedCommonEvent
<1> QED  BY <1>2, <1>4, <1>6, <1>7, <1>8, <1>9

\* The listener's thread takes an event over.
LEMMA TookOverKeeps ==
  ASSUME BindInv, TookOver
  PROVE  BindInv'
<1>1. PICK o \in Object :
         /\ receiving # <<>> /\ receiving[1] = o /\ receiving' = <<o, "taken">> /\ GoneOver(o)
         /\ UNCHANGED <<binding, script, pc, works, outcome, settled, alive, listening, events, answers>>
  BY DEF TookOver, GoneOver, BindInv, TypesOK
<1>2. Len(events) > 0 /\ result_[o] \in {0, Len(events)} /\ ~ByListener(Len(events))
  BY <1>1 DEF BindInv, ResultsOK
<1>3. receiving' # <<>> /\ receiving'[1] = o /\ receiving'[2] = "taken"
      /\ receiving' \in Object \X {"arrived", "taken", "received"}
  BY <1>1
<1>4. /\ \A e : Taken(e) => Taken(e)'
      /\ ~IsOrderedCommonEvent(o)'
      /\ \A p \in Object : result_'[p] \in {0, result_[p]}
      /\ result_' \in [Object -> 0..Len(events')]
      /\ HeldOK' /\ AnswersOK' /\ AnsweredOnce'
  BY <1>1, <1>2, GoneOverKeeps
<1>5. ResultsOK'
  <2>1. ~ByListener(Len(events))'
    BY <1>1, <1>2 DEF ByListener
  <2> QED  BY <1>1, <1>2, <1>3, <1>4, <2>1 DEF BindInv, ResultsOK
<1>6. WorksOK' /\ PromisesKept'
  BY <1>1 DEF BindInv, WorksOK, PromisesKept, Pending
<1>7. FinishingOK'
  BY <1>1, <1>4 DEF BindInv, FinishingOK, Sequential
<1>8. TypesOK'
  BY <1>1, <1>3, <1>4 DEF BindInv, TypesOK, EventsOK
<1> QED  BY <1>4, <1>5, <1>6, <1>7, <1>8 DEF BindInv

\* The subscription of a static script enters the map.
LEMMA EnteredKeeps ==
  ASSUME BindInv, NEW w, Entered(w)
  PROVE  BindInv'
<1>1. /\ w \in works /\ w.sub \in Object /\ binding = "static" /\ GoneOver(w.sub)
      /\ works' = (works \ {w}) \cup {[w EXCEPT !.at = "executed"]}
      /\ UNCHANGED <<binding, script, pc, outcome, settled, alive, listening, events, answers, receiving>>
  BY DEF Entered, GoneOver, BindInv, WorksOK
<1>2. \A e : ~ByListener(e)
  BY <1>1 DEF BindInv, AnswersOK, ByListener
<1>3. /\ \A e : Taken(e) => Taken(e)'
      /\ \A p \in Object : IsOrderedCommonEvent(p)' => IsOrderedCommonEvent(p)
      /\ \A p \in Object : result_'[p] \in {0, result_[p]}
      /\ result_' \in [Object -> 0..Len(events')]
      /\ HeldOK' /\ AnswersOK' /\ AnsweredOnce'
  BY <1>1, <1>2, GoneOverKeeps
<1>4. /\ WorksOK'
      /\ \A v \in works' : (v.at = "executed" /\ v.call = w.call) \/ (v \in works /\ v.call # w.call)
      /\ \A i : Pending(i) => Pending(i)'
      /\ Sequential => \A u, v \in works' : u = v
  BY <1>1, MovedKeeps
<1>5. ResultsOK'
  <2>1. \A e : ~ByListener(e)'
    BY <1>1, <1>2 DEF ByListener
  <2>2. receiving # <<>> => receiving[1] \in Object
    BY DEF BindInv, TypesOK
  <2> QED  BY <1>1, <1>3, <2>1, <2>2 DEF BindInv, ResultsOK
<1>6. PromisesKept'
  BY <1>1, <1>4 DEF BindInv, PromisesKept
<1>7. FinishingOK'
  BY <1>1, <1>3, <1>4 DEF BindInv, FinishingOK, Sequential
<1>8. TypesOK'
  BY <1>1, <1>3 DEF BindInv, TypesOK, EventsOK
<1> QED  BY <1>3, <1>4, <1>5, <1>6, <1>7, <1>8 DEF BindInv

\* An answer by the script.
LEMMA SentKeeps ==
  ASSUME BindInv, NEW w, Sent(w)
  PROVE  BindInv'
<1>1. PICK e : e = outcome[w.call].on
  OBVIOUS
<1>2. /\ w \in works /\ w.at = "finishing" /\ works' = (works \ {w}) \cup {[w EXCEPT !.at = "executed"]}
      /\ Answered(e, "script") /\ HeldLess
      /\ UNCHANGED <<binding, script, pc, outcome, settled, result_, receiving, alive, listening>>
  BY <1>1 DEF Sent
<1>3. Taken(e) /\ (Sequential => ~events[e].finished)
  BY <1>1, <1>2 DEF BindInv, FinishingOK
<1>4. PICK a : a.event = e /\ a.by = "script" /\ answers' = answers \cup {a}
  BY <1>2 DEF Answered
<1>5. /\ EventsOK' /\ Len(events') = Len(events) /\ Len(events) \in Nat
      /\ \A i \in 1..Len(events) :
           events'[i].ordered = events[i].ordered /\ (events'[i].finished <=> (i = e \/ events[i].finished))
  BY <1>2, LenProperties DEF Answered, BindInv, TypesOK, EventsOK
<1>6. \A i : ByListener(i)' <=> ByListener(i)
  BY <1>4 DEF ByListener
<1>7. \A i : Taken(i) => Taken(i)'
  BY <1>2, <1>5, <1>6 DEF Taken
<1>8. HeldOK'
  BY <1>2, <1>7 DEF BindInv, HeldOK, HeldLess
<1>9. AnswersOK'
  <2>1. ASSUME NEW b \in answers'
        PROVE  /\ b.event \in 1..Len(events') /\ events'[b.event].finished
               /\ b.by \in {"script", "listener"}
               /\ b.by = "script" => Taken(b.event)'
               /\ b.by = "listener" => binding' # "static"
    <3>1. CASE b = a
      BY <1>3, <1>4, <1>5, <1>7, <3>1 DEF Taken
    <3>2. CASE b # a
      BY <1>2, <1>4, <1>5, <1>7, <2>1, <3>2 DEF BindInv, AnswersOK
    <3> QED  BY <3>1, <3>2
  <2> QED  BY <2>1 DEF AnswersOK
<1>10. AnsweredOnce'
  <2>1. Sequential' <=> Sequential
    BY <1>2 DEF Sequential
  <2>2. \A b \in answers : b.event = e => b.by = "script" /\ ~Sequential
    BY <1>3, <1>5 DEF BindInv, AnswersOK, Taken, ByListener
  <2>3. ASSUME NEW b \in answers', NEW c \in answers', b.event = c.event
        PROVE  b.by = c.by /\ (Sequential => b = c)
    BY <1>4, <2>2, <2>3 DEF BindInv, AnsweredOnce
  <2> QED  BY <2>1, <2>3 DEF AnsweredOnce
<1>11. ResultsOK'
  <2>1. receiving # <<>> => receiving[1] \in Object
    BY DEF BindInv, TypesOK
  <2>2. \A o \in Object : IsOrderedCommonEvent(o)' <=> IsOrderedCommonEvent(o)
    BY <1>2, <1>5 DEF IsOrderedCommonEvent, BindInv, TypesOK
  <2> QED  BY <1>2, <1>5, <1>6, <2>1, <2>2 DEF BindInv, ResultsOK
<1>12. /\ WorksOK'
       /\ \A v \in works' : (v.at = "executed" /\ v.call = w.call) \/ (v \in works /\ v.call # w.call)
       /\ \A i : Pending(i) => Pending(i)'
       /\ Sequential => \A u, v \in works' : u = v
  BY <1>2, MovedKeeps
<1>13. FinishingOK'
  <2>1. Sequential => \A v \in works' : v.at = "executed"
    BY <1>2, <1>12 DEF BindInv, FinishingOK
  <2>2. \A v \in works' : v.at = "finishing" => v.call \in DOMAIN outcome /\ Taken(outcome[v.call].on)'
    BY <1>2, <1>7, <1>12 DEF BindInv, FinishingOK
  <2> QED  BY <1>2, <1>12, <2>1, <2>2 DEF FinishingOK, Sequential
<1>14. PromisesKept'
  BY <1>2, <1>12 DEF BindInv, PromisesKept
<1>15. TypesOK'
  BY <1>2, <1>5 DEF BindInv, TypesOK
<1> QED  BY <1>8, <1>9, <1>10, <1>11, <1>12, <1>13, <1>14, <1>15 DEF BindInv

\* An answer by the listener, or none.
LEMMA EndReceiveKeeps ==
  ASSUME BindInv, EndReceive
  PROVE  BindInv'
<1>1. PICK o, e :
        /\ o = receiving[1] /\ e = result_[o]
        /\ receiving # <<>> /\ receiving[2] = "received" /\ receiving' = <<>>
        /\ IF IsOrderedCommonEvent(o) /\ ~events[e].finished
           THEN Assign(e, [finished |-> TRUE]) /\ Answer(e, "listener", 0)
           ELSE UNCHANGED <<events, answers>>
        /\ UNCHANGED <<binding, script, pc, works, outcome, settled, alive, instances, listening, result_>>
  BY DEF EndReceive, runtime, objectVars
<1>2. o \in Object /\ e \in 0..Len(events) /\ Len(events) \in Nat
  BY <1>1, LenProperties DEF BindInv, TypesOK, EventsOK
<1>3. CASE UNCHANGED <<events, answers>>
  <2>1. Quiet
    BY <1>1, <1>3, Unchanged DEF Quiet, HeldLess, BindInv, TypesOK
  <2>2. WorksOK' /\ PromisesKept'
    BY <1>1 DEF BindInv, WorksOK, PromisesKept, Pending
  <2>3. FinishingOK'
    <3>1. \A v \in works' : v.at = "finishing" => v \in works /\ v.call # 0
      BY <1>1 DEF BindInv, WorksOK
    <3>2. Sequential => \A u, v \in works' : u = v
      BY <1>1 DEF BindInv, FinishingOK
    <3> QED  BY <1>1, <2>1, <3>1, <3>2, QuietFinishing
  <2>4. TypesOK'
    BY <1>1, <1>3 DEF BindInv, TypesOK, EventsOK
  <2> QED  BY <1>1, <2>1, <2>2, <2>3, <2>4, QuietKeeps, QuietReceives DEF BindInv
<1>4. CASE ~UNCHANGED <<events, answers>>
  <2>1. IsOrderedCommonEvent(o) /\ ~events[e].finished /\ Answered(e, "listener")
    BY <1>1, <1>4, AnswerMarks DEF BindInv, TypesOK
  <2>2. e \in 1..Len(events) /\ binding # "static"
    BY <1>1, <1>2, <2>1 DEF IsOrderedCommonEvent, BindInv, ResultsOK
  <2>3. PICK a : a.event = e /\ a.by = "listener" /\ answers' = answers \cup {a}
    BY <2>1 DEF Answered
  <2>4. /\ EventsOK' /\ Len(events') = Len(events)
        /\ \A i \in 1..Len(events) :
             events'[i].ordered = events[i].ordered /\ (events'[i].finished <=> (i = e \/ events[i].finished))
    BY <2>1 DEF Answered
  <2>5. \A i : ByListener(i)' <=> (i = e \/ ByListener(i))
    BY <2>3 DEF ByListener
  <2>6. ~Taken(e)
    BY <1>1, <1>2 DEF Taken
  <2>7. \A i : Taken(i) => Taken(i)'
    BY <1>1, <2>4, <2>5, <2>6 DEF Taken
  <2>8. HeldOK'
    BY <1>1, <2>7 DEF BindInv, HeldOK
  <2>9. AnswersOK'
    <3>1. ASSUME NEW b \in answers'
          PROVE  /\ b.event \in 1..Len(events') /\ events'[b.event].finished
                 /\ b.by \in {"script", "listener"}
                 /\ b.by = "script" => Taken(b.event)'
                 /\ b.by = "listener" => binding' # "static"
      <4>1. CASE b = a
        BY <1>1, <2>2, <2>3, <2>4, <4>1
      <4>2. CASE b # a
        BY <1>1, <2>3, <2>4, <2>7, <3>1, <4>2 DEF BindInv, AnswersOK
      <4> QED  BY <4>1, <4>2
    <3> QED  BY <3>1 DEF AnswersOK
  <2>10. AnsweredOnce'
    <3>1. Sequential' <=> Sequential
      BY <1>1 DEF Sequential
    <3>2. \A b \in answers : b.event # e
      BY <2>1, <2>6 DEF BindInv, AnswersOK
    <3>3. ASSUME NEW b \in answers', NEW c \in answers', b.event = c.event
          PROVE  b.by = c.by /\ (Sequential => b = c)
      BY <2>3, <3>2, <3>3 DEF BindInv, AnsweredOnce
    <3> QED  BY <3>1, <3>3 DEF AnsweredOnce
  <2>11. ResultsOK'
    BY <1>1 DEF BindInv, ResultsOK
  <2>12. WorksOK' /\ PromisesKept'
    BY <1>1 DEF BindInv, WorksOK, PromisesKept, Pending
  <2>13. FinishingOK'
    <3>1. ASSUME NEW v \in works, v.at = "finishing"
          PROVE  /\ v.call \in DOMAIN outcome /\ Taken(outcome[v.call].on)'
                 /\ Sequential => ~events'[outcome[v.call].on].finished
      <4>1. /\ v.call \in DOMAIN outcome /\ Taken(outcome[v.call].on)
            /\ Sequential => ~events[outcome[v.call].on].finished
        BY <3>1 DEF BindInv, FinishingOK
      <4>2. outcome[v.call].on # e /\ outcome[v.call].on \in 1..Len(events)
        BY <2>6, <4>1 DEF Taken
      <4>3. Taken(outcome[v.call].on)'
        BY <1>1, <2>7, <4>1
      <4> QED  BY <2>4, <4>1, <4>2, <4>3
    <3> QED  BY <1>1, <3>1 DEF BindInv, FinishingOK, Sequential
  <2>14. TypesOK'
    BY <1>1, <2>4 DEF BindInv, TypesOK
  <2> QED  BY <2>8, <2>9, <2>10, <2>11, <2>12, <2>13, <2>14 DEF BindInv
<1> QED  BY <1>3, <1>4

\* A new event arrives with a result of its own.
LEMMA DeliverKeeps ==
  ASSUME BindInv, Deliver
  PROVE  BindInv'
<1>1. PICK o, x :
        /\ o \in listening /\ {"ordered", "finished"} \subseteq DOMAIN x
        /\ events' = Append(events, x) /\ receiving' = <<o, "arrived">>
        /\ result_' = [result_ EXCEPT ![o] = Len(events) + 1]
        /\ UNCHANGED <<binding, script, pc, works, outcome, settled, alive, instances, listening, answers>>
  BY DEF Deliver, runtime, objectVars
<1>2. /\ Len(events) \in Nat /\ events \in Seq({events[i] : i \in DOMAIN events})
      /\ o \in Object /\ result_ \in [Object -> 0..Len(events)]
  BY <1>1, LenProperties DEF BindInv, TypesOK, EventsOK
<1>3. Len(events') = Len(events) + 1 /\ \A i \in 1..Len(events) : events'[i] = events[i]
  BY <1>1, <1>2, AppendProperties, LenProperties
<1>4. EventsOK'
  <2> DEFINE S == {events[i] : i \in DOMAIN events} \cup {x}
  <2>1. events \in Seq(S) /\ x \in S
    BY <1>2, SeqDef
  <2>2. events' \in Seq(S) /\ events'[Len(events) + 1] = x
    BY <1>1, <2>1, AppendProperties
  <2>3. DOMAIN events' = 1..Len(events) + 1 /\ events' = [i \in DOMAIN events' |-> events'[i]]
    BY <1>3, <2>2, SeqDef, LenProperties
  <2>4. events' \in [1..Len(events) + 1 -> {events'[i] : i \in DOMAIN events'}]
    BY <2>3
  <2>5. events' \in Seq({events'[i] : i \in DOMAIN events'})
    BY <1>2, <2>4, IntervalIsSeq
  <2>6. \A i \in 1..Len(events') : {"ordered", "finished"} \subseteq DOMAIN events'[i]
    BY <1>1, <1>2, <1>3, <2>2 DEF EventsOK, BindInv, TypesOK
  <2> QED  BY <2>5, <2>6 DEF EventsOK
<1>5. /\ result_' \in [Object -> 0..Len(events')]
      /\ \A p \in Object : result_'[p] = IF p = o THEN Len(events) + 1 ELSE result_[p]
  BY <1>1, <1>2, <1>3
<1>6. \A e : ByListener(e)' <=> ByListener(e)
  BY <1>1 DEF ByListener
<1>7. \A e : Taken(e) => Taken(e)'
  BY <1>2, <1>3, <1>5, <1>6 DEF Taken
<1>8. TypesOK'
  BY <1>1, <1>2, <1>4, <1>5 DEF BindInv, TypesOK
<1>9. ResultsOK'
  <2>1. ~ByListener(Len(events))'
    BY <1>1, <1>2, <1>3 DEF ByListener, BindInv, AnswersOK
  <2>2. \A p, q \in Object : result_'[p] = result_'[q] => p = q \/ result_'[p] = 0
    BY <1>2, <1>5 DEF BindInv, ResultsOK
  <2> QED  BY <1>1, <1>2, <1>3, <1>5, <2>1, <2>2 DEF ResultsOK
<1>10. HeldOK'
  BY <1>1, <1>7 DEF BindInv, HeldOK
<1>11. AnswersOK'
  BY <1>1, <1>2, <1>3, <1>7 DEF BindInv, AnswersOK
<1>12. WorksOK' /\ PromisesKept' /\ AnsweredOnce'
  BY <1>1 DEF BindInv, WorksOK, PromisesKept, Pending, AnsweredOnce, Sequential
<1>13. FinishingOK'
  BY <1>1, <1>3, <1>7 DEF BindInv, FinishingOK, Sequential, Taken
<1> QED  BY <1>8, <1>9, <1>10, <1>11, <1>12, <1>13 DEF BindInv

\* A step that is none of this model's.
LEMMA ElsewhereKeeps == BindInv /\ Elsewhere => BindInv'
BY DEF Elsewhere, BindInv, TypesOK, EventsOK, ResultsOK, HeldOK, AnswersOK, WorksOK, FinishingOK, AnsweredOnce,
   PromisesKept, Taken, ByListener, IsOrderedCommonEvent, Sequential, Pending
-----------------------------------------------------------------------------
(* The calls the bindings are built from, as kinds of steps *)

\* The script is about to make such a call.
Calling(api) ==
  alive /\ pc \in 1..Len(script) /\ script[pc].api = api /\ (script[pc].await => works = {})

\* No result changes hands, no verdict on an event is changed.
Kept ==
  /\ HeldLess
  /\ listening' \subseteq listening
  /\ UNCHANGED <<result_, receiving, answers>>
NoVerdict(m) == {"ordered", "finished"} \cap DOMAIN m = {}
Assigned == UNCHANGED events \/ \E e, m : NoVerdict(m) /\ Assign(e, m)

\* A call is refused or answered at once, ...
Replied(api) ==
  /\ Calling(api) /\ Kept /\ Assigned
  /\ Refuse \/ \E ok, out, e : Return(ok, out, e)

\* ... or refused or queued; ...
Reporting(parsed) == \A p \in parsed : p.settle # "none"
IsQueued(api, parsed, sub) ==
  /\ Submit(script[pc], sub, parsed)
  /\ parsed.settle = "none" => api = "unsubscribe" /\ ~Is(Arg(script[pc].argv, 2), "function")
  /\ api \in SubscribeCalls => sub \in Object
Invoked(api) ==
  /\ Calling(api) /\ Kept /\ UNCHANGED events
  /\ \/ Refuse
     \/ \E parsed, sub :
          /\ Submit(script[pc], sub, parsed)
          /\ parsed.settle = "none" => api = "unsubscribe" /\ ~Is(Arg(script[pc].argv, 2), "function")
          /\ api \in SubscribeCalls => sub \in Object

\* ... its work runs, ...
Worked ==
  /\ Assigned /\ HeldLess /\ UNCHANGED <<result_, receiving, answers>>
  /\ \E w \in works : \E ok, out :
       /\ Execute(w, ok, out)
       /\ listening' \subseteq listening \cup (IF w.api \in SubscribeCalls THEN {w.sub} ELSE {})

\* ... and is completed.
Completed ==
  /\ Kept /\ UNCHANGED <<events, listening>>
  /\ \E w \in works : Settle(w) \/ (Forget(w) /\ w.api = "subscribe" /\ outcome[w.call].ok)

\* An assignment of members other than these two leaves them alone.
LEMMA AssignKeeps ==
  ASSUME EventsOK, NEW e, NEW m, NoVerdict(m), Assign(e, m)
  PROVE  SameResults
<1>1. events' = [events EXCEPT ![e] = Over(m, events[e])]
  BY DEF Assign
<1>2. \A f : /\ DOMAIN Over(m, f) = DOMAIN m \cup DOMAIN f
             /\ \A x \in DOMAIN f \ DOMAIN m : Over(m, f)[x] = f[x]
  BY DEF Over
<1>3. Len(events) \in Nat /\ DOMAIN events = 1..Len(events)
  BY LenProperties DEF EventsOK
<1>4. events' \in [1..Len(events) -> {events'[i] : i \in DOMAIN events'}]
  BY <1>1, <1>3
<1>5. events' \in Seq({events'[i] : i \in DOMAIN events'}) /\ Len(events') = Len(events)
  BY <1>3, <1>4, IntervalIsSeq
<1>6. ASSUME NEW i \in 1..Len(events)
      PROVE  /\ {"ordered", "finished"} \subseteq DOMAIN events'[i]
             /\ events'[i].ordered = events[i].ordered /\ events'[i].finished = events[i].finished
  <2>1. {"ordered", "finished"} \subseteq DOMAIN events[i] \ DOMAIN m \/ i # e
    BY DEF EventsOK, NoVerdict
  <2>2. events'[i] = IF i = e THEN Over(m, events[i]) ELSE events[i]
    BY <1>1, <1>3
  <2>3. {"ordered", "finished"} \subseteq DOMAIN events[i]
    BY DEF EventsOK
  <2> QED  BY <1>2, <2>1, <2>2, <2>3
<1> QED  BY <1>5, <1>6 DEF SameResults, EventsOK

\* An assignment of such members, or none, changes no verdict on an event.
LEMMA AssignedKeeps == EventsOK /\ Assigned => SameResults
BY AssignKeeps, Unchanged DEF Assigned

\* An outcome is recorded for one call.
LEMMA OutcomeRecords ==
  \A i, ok, out, on : Outcome(i, ok, out, on) => Recorded(i) /\ outcome'[i].on = on
BY DEF Outcome, Over, Entry, Recorded

\* A call that is queued, refused or answered.
LEMMA InvokedIsMade ==
  ASSUME EventsOK, NEW api, Invoked(api)
  PROVE  Step
<1>1. SameResults
  BY Unchanged DEF Invoked
<1>2. CASE Refuse
  BY <1>1, <1>2 DEF Refuse, runtime, Invoked, Kept, Calling, Made, Quiet, Step
<1>3. CASE ~Refuse
  <2>1. PICK parsed, sub : IsQueued(api, parsed, sub)
    BY <1>3 DEF Invoked, IsQueued
  <2>2. \A w \in works' \ works :
          w = [call |-> pc, api |-> script[pc].api, sub |-> sub, arg |-> parsed, at |-> "queued"]
    BY <2>1 DEF Submit, IsQueued
  <2>3. \A w \in works' \ works : NewWork(w)
    BY <2>1, <2>2 DEF NewWork, IsQueued, Invoked, Calling
  <2>4. Made
    BY <1>1, <2>1, <2>2, <2>3 DEF IsQueued, Submit, Invoked, Kept, Calling, Made, Quiet
  <2> QED  BY <2>4 DEF Step
<1> QED  BY <1>2, <1>3

\* A call that is refused or answered at once is a call made.
LEMMA RepliedIsMade ==
  ASSUME EventsOK, NEW api, Replied(api)
  PROVE  Step
<1>1. SameResults
  BY AssignedKeeps DEF Replied
<1>2. CASE Refuse
  BY <1>1, <1>2 DEF Refuse, runtime, Replied, Kept, Calling, Made, Quiet, Step
<1>3. CASE ~Refuse
  <2>1. PICK ok, out, e : Return(ok, out, e)
    BY <1>3 DEF Replied
  <2>2. Made
    BY <1>1, <2>1, OutcomeRecords DEF Return, Replied, Kept, Calling, Made, Quiet
  <2> QED  BY <2>2 DEF Step
<1> QED  BY <1>2, <1>3

\* A work that runs to its end.
LEMMA ExecuteIsRan ==
  ASSUME NEW w \in works, NEW ok, NEW out, Execute(w, ok, out),
         SameResults, HeldLess, UNCHANGED <<result_, receiving, answers>>,
         listening' \subseteq listening \cup (IF w.api \in SubscribeCalls THEN {w.sub} ELSE {})
  PROVE  Step
<1>1. Recorded(w.call)
  BY OutcomeRecords DEF Execute
<1>2. Ran(w, "executed")
  BY <1>1 DEF Execute, Moved, Ran, Quiet
<1> QED  BY <1>2 DEF Step, WorkAt

\* The work of such a call is one that runs.
LEMMA WorkedIsRan == EventsOK /\ Worked => Step
BY AssignedKeeps, ExecuteIsRan DEF Worked

\* A work that is completed.
LEMMA CompletedIsDone ==
  ASSUME EventsOK, Completed
  PROVE  Step
<1>1. PICK w \in works : Settle(w) \/ (Forget(w) /\ w.api = "subscribe" /\ outcome[w.call].ok)
  BY DEF Completed
<1>2. SameResults
  BY Unchanged DEF Completed
<1>3. Done(w)
  BY <1>1, <1>2 DEF Settle, Forget, Completed, Kept, Done, Quiet
<1> QED  BY <1>3 DEF Step

\* The two steps of a finish.
LEMMA TestIsStep ==
  ASSUME EventsOK, NEW api, TestFinished(api)
  PROVE  Step
<1>1. PICK w \in works :
        /\ UNCHANGED <<objectVars, eventVars>>
        /\ \/ /\ GetAsyncResult(w.sub) # 0 /\ ~events[GetAsyncResult(w.sub)].finished
              /\ works' = Moved(w, "finishing") /\ Outcome(w.call, TRUE, 0, GetAsyncResult(w.sub))
              /\ UNCHANGED <<binding, script, pc, settled, alive>>
           \/ \E ok : Execute(w, ok, 0)
  BY DEF TestFinished, Queued
<1>2. SameResults /\ HeldLess
  BY <1>1, Unchanged DEF eventVars, objectVars, HeldLess
<1>3. CASE \E ok : Execute(w, ok, 0)
  BY <1>1, <1>2, <1>3, ExecuteIsRan DEF eventVars, objectVars
<1>4. CASE ~ \E ok : Execute(w, ok, 0)
  <2>1. Recorded(w.call) /\ outcome'[w.call].on = GetAsyncResult(w.sub)
    BY <1>1, <1>4, OutcomeRecords
  <2>2. w.sub \in DOMAIN instances /\ GetAsyncResult(w.sub) = instances[w.sub]
    BY <1>1, <1>4 DEF GetAsyncResult
  <2>3. Tested(w)
    BY <1>1, <1>2, <1>4, <2>1, <2>2 DEF Tested, Quiet, Moved, eventVars, objectVars
  <2> QED  BY <2>3 DEF Step
<1> QED  BY <1>3, <1>4

\* The second step of a finish is an answer of the script.
LEMMA SendIsStep ==
  ASSUME EventsOK, NEW api, SendFinish(api)
  PROVE  Step
<1>1. PICK w \in works :
        /\ w.at = "finishing" /\ Assign(outcome[w.call].on, [finished |-> TRUE])
        /\ Answer(outcome[w.call].on, "script", w.call) /\ works' = Moved(w, "executed")
        /\ UNCHANGED <<binding, script, pc, outcome, settled, alive, objectVars, result_, receiving>>
  BY DEF SendFinish
<1>2. Answered(outcome[w.call].on, "script")
  BY <1>1, AnswerMarks
<1>3. Sent(w)
  BY <1>1, <1>2 DEF Sent, Moved, objectVars, HeldLess
<1> QED  BY <1>3 DEF Step

\* What a call and its work do, altogether.
Shape(api) ==
  Invoked(api) \/ Replied(api) \/ Worked \/ Completed \/ TestFinished(api) \/ SendFinish(api)

\* Each of it is one of the kinds of steps.
LEMMA ShapeIsStep ==
  ASSUME TypesOK, NEW api, Shape(api)
  PROVE  Step
<1>1. EventsOK
  BY DEF TypesOK
<1> QED  BY <1>1, InvokedIsMade, RepliedIsMade, WorkedIsRan, CompletedIsDone, TestIsStep, SendIsStep
         DEF Shape

\* A script that subscribes names a subscriber.
LEMMA SubscriberNamed ==
  ASSUME TypesOK, NEW api \in SubscribeCalls, Calling(api)
  PROVE  NamesSubscriber(binding, script[pc].argv)
<1>1. script \in SCRIPTS[binding] /\ binding \in Binding
  BY DEF TypesOK
<1>2. pc \in DOMAIN script
  BY <1>1, ScriptsAssumption, LenProperties DEF Calling
<1> QED  BY <1>1, <1>2, ScriptsAssumption DEF Calling

\* So such a call names one of the subscribers, unless the language lets it name nothing and it does.
LEMMA ObjectNamed ==
  ASSUME TypesOK, NEW api \in SubscribeCalls, Calling(api),
         \/ binding \in {"static", "cangjie"}
         \/ ~Is(Arg(script[pc].argv, 1), "null")
  PROVE  script[pc].argv[1].n \in Object
BY SubscriberNamed DEF NamesSubscriber, Is, Arg

-----------------------------------------------------------------------------
(* commonEventManager *)

\* What the bindings share is the same in this one as in the others (NapiCommonEvent to OhCommonEvent extend ScriptBinding).
LEMMA NewShares ==
  /\ \A api : \A c \in New!NextCall(api) : TypesOK => c = script[pc] /\ Calling(api)
  /\ New!Refuse => Refuse
  /\ \A f, g : New!Over(f, g) = Over(f, g)
  /\ \A x, v : New!Entry(x, v) = Entry(x, v)
  /\ \A ok, out, e : New!Return(ok, out, e) => Return(ok, out, e)
  /\ \A c, sub, p : New!Submit(c, sub, p) => Submit(c, sub, p)
  /\ \A o : New!GetAsyncResult(o) = GetAsyncResult(o)
  /\ \A i, ok, out, e : New!Outcome(i, ok, out, e) => Outcome(i, ok, out, e)
  /\ \A w, ok, out : New!Execute(w, ok, out) => Execute(w, ok, out)
  /\ \A w : New!Settle(w) => Settle(w)
  /\ \A w : New!Forget(w) => Forget(w)
  /\ \A e, m : New!Assign(e, m) => Assign(e, m)
  /\ \A api : New!Complete(api) => Completed
  /\ \A api : New!TestFinished(api) => TestFinished(api)
  /\ \A api : New!SendFinish(api) => SendFinish(api)
<1>1. New!Refuse => Refuse
  BY DEF New!Refuse, Refuse, New!runtime, runtime
<1>2. \A f, g : New!Over(f, g) = Over(f, g)
  BY DEF New!Over, Over
<1>3. \A x, v : New!Entry(x, v) = Entry(x, v)
  BY DEF New!Entry, Entry
<1>4. \A i, ok, out, e : New!Outcome(i, ok, out, e) => Outcome(i, ok, out, e)
  BY <1>2, <1>3 DEF New!Outcome, Outcome
<1>5. \A ok, out, e : New!Return(ok, out, e) => Return(ok, out, e)
  BY <1>4 DEF New!Return, Return
<1>6. \A c, sub, p : New!Submit(c, sub, p) => Submit(c, sub, p)
  BY DEF New!Submit, Submit
<1>7. \A o : New!GetAsyncResult(o) = GetAsyncResult(o)
  BY DEF New!GetAsyncResult, GetAsyncResult
<1>8. \A w, ok, out : New!Execute(w, ok, out) => Execute(w, ok, out)
  BY <1>4, <1>7 DEF New!Execute, Execute, New!Moved, Moved
<1>9. \A w : New!Settle(w) => Settle(w)
  BY DEF New!Settle, Settle
<1>10. \A w : New!Forget(w) => Forget(w)
  BY DEF New!Forget, Forget
<1>11. \A e, m : New!Assign(e, m) => Assign(e, m)
  BY <1>2 DEF New!Assign, Assign
<1>12. \A api : New!Complete(api) => Completed
  BY <1>9 DEF New!Complete, New!Executed, Completed, Kept, HeldLess, New!objectVars, New!eventVars
<1>13. \A api : New!TestFinished(api) => TestFinished(api)
  BY <1>4, <1>7, <1>8 DEF New!TestFinished, TestFinished, New!Queued, Queued, New!Moved, Moved,
     New!CheckSynchronous, CheckSynchronous, New!Reported, Reported, New!objectVars, objectVars,
     New!eventVars, eventVars
<1>14. \A api : New!SendFinish(api) => SendFinish(api)
  BY <1>11 DEF New!SendFinish, SendFinish, New!Answer, Answer, New!Moved, Moved,
     New!objectVars, objectVars, New!eventVars, eventVars
<1>15. \A api : \A c \in New!NextCall(api) : TypesOK => c = script[pc] /\ Calling(api)
  BY ScriptsAssumption, LenProperties DEF New!NextCall, Calling, TypesOK
<1> QED  BY <1>1, <1>2, <1>3, <1>4, <1>5, <1>6, <1>7, <1>8, <1>9, <1>10, <1>11, <1>12, <1>13, <1>14, <1>15

\* All calls but an unsubscription report to the script.
LEMMA NewParses ==
  /\ \A argv : Reporting(New!ParseParametersByGetSubscribeInfo(argv))
  /\ \A argv : Reporting(New!ParseParametersByIsOrderedCommonEvent(argv))
  /\ \A argv : Reporting(New!ParseParametersByIsStickyCommonEvent(argv))
  /\ \A argv : Reporting(New!ParseParametersByGetCode(argv))
  /\ \A argv : Reporting(New!ParseParametersByGetData(argv))
  /\ \A argv : Reporting(New!ParseParametersByClearAbort(argv))
  /\ \A argv : Reporting(New!ParseParametersByAbort(argv))
  /\ \A argv : Reporting(New!ParseParametersByGetAbort(argv))
  /\ \A argv : Reporting(New!ParseParametersByFinish(argv))
  /\ \A argv : Reporting(New!ParseParametersBySetCode(argv))
  /\ \A argv : Reporting(New!ParseParametersBySetData(argv))
  /\ \A argv : Reporting(New!ParseParametersBySetCodeAndData(argv))
  /\ \A argv : Reporting(New!ParseParametersByCreateSubscriber(argv))
  /\ \A argv : Reporting(New!ParseParametersByRemoveSticky(argv))
  /\ \A argv : Reporting(New!ParseParametersByPublish(argv))
  /\ \A argv : Reporting(New!ParseParametersByPublishAsUser(argv))
<1>1. \A argv, i : \A p \in New!OptionalCallback(argv, i) : DOMAIN p = {"settle"} /\ p.settle # "none"
  BY DEF New!OptionalCallback
<1>2. \A f, g : DOMAIN f = {"settle"} => New!Over(f, g).settle = f.settle
  BY DEF New!Over
<1>3. /\ \A argv : Reporting(New!ParseParametersByGetSubscribeInfo(argv))
      /\ \A argv : Reporting(New!ParseParametersByIsOrderedCommonEvent(argv))
      /\ \A argv : Reporting(New!ParseParametersByIsStickyCommonEvent(argv))
      /\ \A argv : Reporting(New!ParseParametersByGetCode(argv))
      /\ \A argv : Reporting(New!ParseParametersByGetData(argv))
      /\ \A argv : Reporting(New!ParseParametersByClearAbort(argv))
      /\ \A argv : Reporting(New!ParseParametersByAbort(argv))
      /\ \A argv : Reporting(New!ParseParametersByGetAbort(argv))
      /\ \A argv : Reporting(New!ParseParametersByFinish(argv))
  BY <1>1 DEF Reporting, New!ParseParametersByGetSubscribeInfo,
     New!ParseParametersByIsOrderedCommonEvent, New!ParseParametersByIsStickyCommonEvent,
     New!ParseParametersByGetCode, New!ParseParametersByGetData, New!ParseParametersByClearAbort,
     New!ParseParametersByAbort, New!ParseParametersByGetAbort, New!ParseParametersByFinish
<1>4. \A argv : Reporting(New!ParseParametersBySetCode(argv))
  BY <1>1, <1>2 DEF Reporting, New!ParseParametersBySetCode
<1>5. \A argv : Reporting(New!ParseParametersBySetData(argv))
  BY <1>1, <1>2 DEF Reporting, New!ParseParametersBySetData
<1>6. \A argv : Reporting(New!ParseParametersBySetCodeAndData(argv))
  BY <1>1, <1>2 DEF Reporting, New!ParseParametersBySetCodeAndData
<1>7. \A argv : Reporting(New!ParseParametersByCreateSubscriber(argv))
  BY DEF Reporting, New!ParseParametersByCreateSubscriber
<1>8. \A argv : Reporting(New!ParseParametersByRemoveSticky(argv))
  BY DEF Reporting, New!ParseParametersByRemoveSticky
<1>9. \A argv : Reporting(New!ParseParametersByPublish(argv))
  BY DEF Reporting, New!ParseParametersByPublish
<1>10. \A argv : Reporting(New!ParseParametersByPublishAsUser(argv))
  BY DEF Reporting, New!ParseParametersByPublishAsUser
<1> QED  BY <1>3, <1>4, <1>5, <1>6, <1>7, <1>8, <1>9, <1>10

\* The calls on the result of the event held.
LEMMA NewResultCalls ==
  ASSUME TypesOK,
         New!SetCode \/ New!SetData \/ New!SetCodeAndData \/ New!Abort \/ New!ClearAbort
         \/ New!FinishCommonEvent \/ New!GetCode \/ New!GetData \/ New!GetAbort \/ New!IsOrdered
         \/ New!IsSticky \/ New!GetSubscribeInfo
  PROVE  Step
<1>1. CASE New!SetCode
  <2>1. New!Invoke("setCode", New!ParseParametersBySetCode, New!Code) => Invoked("setCode")
    BY NewShares, NewParses DEF New!Invoke, New!Accepted, Invoked, New!objectVars, New!eventVars,
       Kept, HeldLess, SubscribeCalls, Reporting
  <2>2. New!Write("setCode", New!Code) => Worked
    BY NewShares DEF New!Write, New!Queued, New!Code, New!objectVars, New!eventVars, HeldLess,
       Worked, Assigned, NoVerdict
  <2> QED  BY <1>1, <2>1, <2>2, NewShares, ShapeIsStep DEF New!SetCode, New!Setter, Shape
<1>2. CASE New!SetData
  <2>1. New!Invoke("setData", New!ParseParametersBySetData, New!DataOf) => Invoked("setData")
    BY NewShares, NewParses DEF New!Invoke, New!Accepted, Invoked, New!objectVars, New!eventVars,
       Kept, HeldLess, SubscribeCalls, Reporting
  <2>2. New!Write("setData", New!DataOf) => Worked
    BY NewShares DEF New!Write, New!Queued, New!DataOf, New!objectVars, New!eventVars, HeldLess,
       Worked, Assigned, NoVerdict
  <2> QED  BY <1>2, <2>1, <2>2, NewShares, ShapeIsStep DEF New!SetData, New!Setter, Shape
<1>3. CASE New!SetCodeAndData
  <2>1. New!Invoke("setCodeAndData", New!ParseParametersBySetCodeAndData, New!CodeAndData) =>
          Invoked("setCodeAndData")
    BY NewShares, NewParses DEF New!Invoke, New!Accepted, Invoked, New!objectVars, New!eventVars,
       Kept, HeldLess, SubscribeCalls, Reporting
  <2>2. New!Write("setCodeAndData", New!CodeAndData) => Worked
    BY NewShares DEF New!Write, New!Queued, New!CodeAndData, New!objectVars, New!eventVars,
       HeldLess, Worked, Assigned, NoVerdict
  <2> QED  BY <1>3, <2>1, <2>2, NewShares, ShapeIsStep DEF New!SetCodeAndData, New!Setter, Shape
<1>4. CASE New!Abort
  <2>1. New!Invoke("abort", New!ParseParametersByAbort, New!Aborted) => Invoked("abort")
    BY NewShares, NewParses DEF New!Invoke, New!Accepted, Invoked, New!objectVars, New!eventVars,
       Kept, HeldLess, SubscribeCalls, Reporting
  <2>2. New!Write("abort", New!Aborted) => Worked
    BY NewShares DEF New!Write, New!Queued, New!Aborted, New!objectVars, New!eventVars, HeldLess,
       Worked, Assigned, NoVerdict
  <2> QED  BY <1>4, <2>1, <2>2, NewShares, ShapeIsStep DEF New!Abort, New!Setter, Shape
<1>5. CASE New!ClearAbort
  <2>1. New!Invoke("clearAbort", New!ParseParametersByClearAbort, New!NotAborted) =>
          Invoked("clearAbort")
    BY NewShares, NewParses DEF New!Invoke, New!Accepted, Invoked, New!objectVars, New!eventVars,
       Kept, HeldLess, SubscribeCalls, Reporting
  <2>2. New!Write("clearAbort", New!NotAborted) => Worked
    BY NewShares DEF New!Write, New!Queued, New!NotAborted, New!objectVars, New!eventVars,
       HeldLess, Worked, Assigned, NoVerdict
  <2> QED  BY <1>5, <2>1, <2>2, NewShares, ShapeIsStep DEF New!ClearAbort, New!Setter, Shape
<1>6. CASE New!FinishCommonEvent
  <2>1. New!Invoke("finish", New!ParseParametersByFinish, New!NoMembers) => Invoked("finish")
    BY NewShares, NewParses DEF New!Invoke, New!Accepted, Invoked, New!objectVars, New!eventVars,
       Kept, HeldLess, SubscribeCalls, Reporting
  <2> QED  BY <1>6, <2>1, NewShares, ShapeIsStep DEF New!FinishCommonEvent, New!Finisher, Shape
<1>7. CASE New!GetCode
  <2>1. New!Invoke("getCode", New!ParseParametersByGetCode, New!NoMembers) => Invoked("getCode")
    BY NewShares, NewParses DEF New!Invoke, New!Accepted, Invoked, New!objectVars, New!eventVars,
       Kept, HeldLess, SubscribeCalls, Reporting
  <2>2. New!Read("getCode", New!ResultCode) => Worked
    BY NewShares DEF New!Read, New!Queued, New!objectVars, New!eventVars, HeldLess, Worked,
       Assigned
  <2> QED  BY <1>7, <2>1, <2>2, NewShares, ShapeIsStep DEF New!GetCode, New!Getter, Shape
<1>8. CASE New!GetData
  <2>1. New!Invoke("getData", New!ParseParametersByGetData, New!NoMembers) => Invoked("getData")
    BY NewShares, NewParses DEF New!Invoke, New!Accepted, Invoked, New!objectVars, New!eventVars,
       Kept, HeldLess, SubscribeCalls, Reporting
  <2>2. New!Read("getData", New!ResultData) => Worked
    BY NewShares DEF New!Read, New!Queued, New!objectVars, New!eventVars, HeldLess, Worked,
       Assigned
  <2> QED  BY <1>8, <2>1, <2>2, NewShares, ShapeIsStep DEF New!GetData, New!Getter, Shape
<1>9. CASE New!GetAbort
  <2>1. New!Invoke("getAbort", New!ParseParametersByGetAbort, New!NoMembers) => Invoked("getAbort")
    BY NewShares, NewParses DEF New!Invoke, New!Accepted, Invoked, New!objectVars, New!eventVars,
       Kept, HeldLess, SubscribeCalls, Reporting
  <2>2. New!Read("getAbort", New!ResultAbort) => Worked
    BY NewShares DEF New!Read, New!Queued, New!objectVars, New!eventVars, HeldLess, Worked,
       Assigned
  <2> QED  BY <1>9, <2>1, <2>2, NewShares, ShapeIsStep DEF New!GetAbort, New!Getter, Shape
<1>10. CASE New!IsOrdered
  <2>1. New!Invoke("isOrdered", New!ParseParametersByIsOrderedCommonEvent, New!NoMembers) =>
          Invoked("isOrdered")
    BY NewShares, NewParses DEF New!Invoke, New!Accepted, Invoked, New!objectVars, New!eventVars,
       Kept, HeldLess, SubscribeCalls, Reporting
  <2>2. New!Read("isOrdered", New!ResultOrdered) => Worked
    BY NewShares DEF New!Read, New!Queued, New!objectVars, New!eventVars, HeldLess, Worked,
       Assigned
  <2> QED  BY <1>10, <2>1, <2>2, NewShares, ShapeIsStep DEF New!IsOrdered, New!Getter, Shape
<1>11. CASE New!IsSticky
  <2>1. New!Invoke("isSticky", New!ParseParametersByIsStickyCommonEvent, New!NoMembers) =>
          Invoked("isSticky")
    BY NewShares, NewParses DEF New!Invoke, New!Accepted, Invoked, New!objectVars, New!eventVars,
       Kept, HeldLess, SubscribeCalls, Reporting
  <2>2. New!Read("isSticky", New!ResultSticky) => Worked
    BY NewShares DEF New!Read, New!Queued, New!objectVars, New!eventVars, HeldLess, Worked,
       Assigned
  <2> QED  BY <1>11, <2>1, <2>2, NewShares, ShapeIsStep DEF New!IsSticky, New!Getter, Shape
<1>12. CASE New!GetSubscribeInfo
  <2>1. New!Invoke("getSubscribeInfo", New!ParseParametersByGetSubscribeInfo, New!NoMembers) =>
          Invoked("getSubscribeInfo")
    BY NewShares, NewParses DEF New!Invoke, New!Accepted, Invoked, New!objectVars, New!eventVars,
       Kept, HeldLess, SubscribeCalls, Reporting
  <2>2. New!Read("getSubscribeInfo", New!SubscribeInfoOf) => Worked
    BY NewShares DEF New!Read, New!Queued, New!objectVars, New!eventVars, HeldLess, Worked,
       Assigned
  <2> QED  BY <1>12, <2>1, <2>2, NewShares, ShapeIsStep DEF New!GetSubscribeInfo, New!Getter, Shape
<1> QED  BY <1>1, <1>2, <1>3, <1>4, <1>5, <1>6, <1>7, <1>8, <1>9, <1>10, <1>11, <1>12

\* The requests to the library.
LEMMA NewRequests ==
  ASSUME TypesOK,
         New!Publish \/ New!PublishAsUser \/ New!RemoveStickyCommonEvent
         \/ New!OnSetStaticSubscriberState
  PROVE  Step
<1>1. CASE New!Publish
  <2>1. Invoked("publish") \/ Worked \/ Completed
    BY <1>1, NewShares, NewParses DEF New!Publish, New!Request, New!Queued, Invoked, Worked,
       Assigned, New!objectVars, New!eventVars, Kept, HeldLess, SubscribeCalls, Reporting
  <2> QED  BY <1>1, <2>1, ShapeIsStep DEF Shape
<1>2. CASE New!PublishAsUser
  <2>1. Invoked("publishAsUser") \/ Worked \/ Completed
    BY <1>2, NewShares, NewParses DEF New!PublishAsUser, New!Request, New!Queued, Invoked, Worked,
       Assigned, New!objectVars, New!eventVars, Kept, HeldLess, SubscribeCalls, Reporting
  <2> QED  BY <1>2, <2>1, ShapeIsStep DEF Shape
<1>3. CASE New!RemoveStickyCommonEvent
  <2>1. Invoked("removeSticky") \/ Worked \/ Completed
    BY <1>3, NewShares, NewParses DEF New!RemoveStickyCommonEvent, New!Request, New!Queued,
       Invoked, Worked, Assigned, New!objectVars, New!eventVars, Kept, HeldLess, SubscribeCalls,
       Reporting
  <2> QED  BY <1>3, <2>1, ShapeIsStep DEF Shape
<1>4. CASE New!OnSetStaticSubscriberState
  <2>1. \A argv : \A p \in New!ParseSetStaticSubscriberStateParam(argv) : \A m :
          New!Over(p, m).settle # "none"
    BY DEF New!Over, New!ParseSetStaticSubscriberStateParam
  <2>2. New!SetStaticSubscriberStateCall => Invoked("setStaticSubscriberState")
    BY <2>1, NewShares DEF New!SetStaticSubscriberStateCall, Invoked, New!objectVars,
       New!eventVars, Kept, HeldLess, SubscribeCalls
  <2>3. ~New!SetStaticSubscriberStateCall => Completed
    BY <1>4, NewShares DEF New!OnSetStaticSubscriberState, New!Queued, Completed, New!objectVars,
       New!eventVars, Kept, HeldLess
  <2> QED  BY <1>4, <2>1, <2>2, <2>3, ShapeIsStep DEF Shape
<1> QED  BY <1>1, <1>2, <1>3, <1>4

\* The calls that run at once.
LEMMA NewSyncCalls ==
  ASSUME TypesOK,
         New!GetCodeSync \/ New!GetDataSync \/ New!GetAbortCommonEventSync
         \/ New!IsOrderedCommonEventSync \/ New!IsStickyCommonEventSync
         \/ New!GetSubscribeInfoSync \/ New!SetCodeSync \/ New!SetDataSync
         \/ New!SetCodeAndDataSync \/ New!AbortCommonEventSync \/ New!ClearAbortCommonEventSync
  PROVE  Step
<1>1. CASE New!GetCodeSync
  <2>1. Replied("getCodeSync")
    BY <1>1, NewShares DEF New!GetCodeSync, New!ReadSync, Replied, Assigned, New!objectVars,
       New!eventVars, Kept, HeldLess
  <2> QED  BY <1>1, <2>1, ShapeIsStep DEF Shape
<1>2. CASE New!GetDataSync
  <2>1. Replied("getDataSync")
    BY <1>2, NewShares DEF New!GetDataSync, New!ReadSync, Replied, Assigned, New!objectVars,
       New!eventVars, Kept, HeldLess
  <2> QED  BY <1>2, <2>1, ShapeIsStep DEF Shape
<1>3. CASE New!GetAbortCommonEventSync
  <2>1. Replied("getAbortSync")
    BY <1>3, NewShares DEF New!GetAbortCommonEventSync, New!ReadSync, Replied, Assigned,
       New!objectVars, New!eventVars, Kept, HeldLess
  <2> QED  BY <1>3, <2>1, ShapeIsStep DEF Shape
<1>4. CASE New!IsOrderedCommonEventSync
  <2>1. Replied("isOrderedSync")
    BY <1>4, NewShares DEF New!IsOrderedCommonEventSync, New!ReadSync, Replied, Assigned,
       New!objectVars, New!eventVars, Kept, HeldLess
  <2> QED  BY <1>4, <2>1, ShapeIsStep DEF Shape
<1>5. CASE New!IsStickyCommonEventSync
  <2>1. Replied("isStickySync")
    BY <1>5, NewShares DEF New!IsStickyCommonEventSync, New!ReadSync, Replied, Assigned,
       New!objectVars, New!eventVars, Kept, HeldLess
  <2> QED  BY <1>5, <2>1, ShapeIsStep DEF Shape
<1>6. CASE New!GetSubscribeInfoSync
  <2>1. Replied("getSubscribeInfoSync")
    BY <1>6, NewShares DEF New!GetSubscribeInfoSync, New!ReadSync, Replied, Assigned,
       New!objectVars, New!eventVars, Kept, HeldLess
  <2> QED  BY <1>6, <2>1, ShapeIsStep DEF Shape
<1>7. CASE New!SetCodeSync
  <2>1. Replied("setCodeSync")
    BY <1>7, NewShares DEF New!SetCodeSync, New!WriteSync, New!WriteSyncAs, Replied, Assigned,
       NoVerdict, New!objectVars, New!eventVars, Kept, HeldLess
  <2> QED  BY <1>7, <2>1, ShapeIsStep DEF Shape
<1>8. CASE New!SetDataSync
  <2>1. Replied("setDataSync")
    BY <1>8, NewShares DEF New!SetDataSync, New!WriteSync, New!WriteSyncAs, Replied, Assigned,
       NoVerdict, New!objectVars, New!eventVars, Kept, HeldLess
  <2> QED  BY <1>8, <2>1, ShapeIsStep DEF Shape
<1>9. CASE New!SetCodeAndDataSync
  <2>1. Replied("setCodeAndDataSync")
    BY <1>9, NewShares DEF New!SetCodeAndDataSync, New!WriteSync, New!WriteSyncAs, Replied,
       Assigned, NoVerdict, New!objectVars, New!eventVars, Kept, HeldLess
  <2> QED  BY <1>9, <2>1, ShapeIsStep DEF Shape
<1>10. CASE New!AbortCommonEventSync
  <2>1. Replied("abortSync")
    BY <1>10, NewShares DEF New!AbortCommonEventSync, New!WriteSync, New!WriteSyncAs, New!Aborted,
       Replied, Assigned, NoVerdict, New!objectVars, New!eventVars, Kept, HeldLess
  <2> QED  BY <1>10, <2>1, ShapeIsStep DEF Shape
<1>11. CASE New!ClearAbortCommonEventSync
  <2>1. Replied("clearAbortSync")
    BY <1>11, NewShares DEF New!ClearAbortCommonEventSync, New!WriteSync, New!WriteSyncAs,
       New!NotAborted, Replied, Assigned, NoVerdict, New!objectVars, New!eventVars, Kept, HeldLess
  <2> QED  BY <1>11, <2>1, ShapeIsStep DEF Shape
<1> QED  BY <1>1, <1>2, <1>3, <1>4, <1>5, <1>6, <1>7, <1>8, <1>9, <1>10, <1>11

\* Subscribers are created, subscribed and forgotten.
LEMMA NewSubscribers ==
  ASSUME TypesOK,
         New!CreateSubscriber \/ New!CreateSubscriberSync \/ New!Subscribe
         \/ New!SubscribeToEvent \/ New!Unsubscribe \/ New!Finalize
  PROVE  Step
<1>1. CASE New!CreateSubscriber
  <2>1. New!CreateSubscriberCall => Invoked("createSubscriber")
    BY NewShares, NewParses DEF New!CreateSubscriberCall, Invoked, Reporting, New!objectVars,
       New!eventVars, Kept, HeldLess, SubscribeCalls
  <2>2. ~New!CreateSubscriberCall => Worked \/ Completed
    BY <1>1, NewShares DEF New!CreateSubscriber, New!Read, New!Queued, New!Executed,
       New!CommonEventSubscriberConstructor, New!CreateSubscriberInstance, Worked, Assigned,
       Completed, New!objectVars, New!eventVars, Kept, HeldLess
  <2> QED  BY <1>1, <2>1, <2>2, ShapeIsStep DEF Shape
<1>2. CASE New!CreateSubscriberSync
  <2>1. Replied("createSubscriberSync")
    BY <1>2, NewShares DEF New!CreateSubscriberSync, New!CommonEventSubscriberConstructor,
       Replied, Assigned, New!objectVars, New!eventVars, Kept, HeldLess
  <2> QED  BY <1>2, <2>1, ShapeIsStep DEF Shape
<1>3. CASE New!Subscribe
  <2>1. Calling("subscribe") =>
          \A p \in New!ParseParametersBySubscribe(script[pc].argv) :
            p.sub \in Object /\ p = [settle |-> "callback", sub |-> p.sub]
    BY ObjectNamed DEF New!ParseParametersBySubscribe, New!Is, New!Arg, Is, Arg, SubscribeCalls
  <2>2. New!SubscribeCall => Invoked("subscribe")
    BY <2>1, NewShares DEF New!SubscribeCall, Invoked, New!objectVars, New!eventVars, Kept,
       HeldLess, SubscribeCalls
  <2>3. ~New!SubscribeCall => Worked \/ Completed
    BY <1>3, NewShares DEF New!Subscribe, New!Queued, New!Executed, New!SubscriberInserted,
       New!Over, New!Entry, New!AsyncExecuteCallbackSubscribe, New!AsyncCompleteCallbackSubscribe,
       Worked, Assigned, Completed, New!objectVars, New!eventVars, Kept, HeldLess, SubscribeCalls
  <2> QED  BY <1>3, <2>1, <2>2, <2>3, ShapeIsStep DEF Shape
<1>4. CASE New!SubscribeToEvent
  <2>1. Calling("subscribeToEvent") =>
          \A p \in New!ParseParametersBySubscribe(script[pc].argv) :
            p.sub \in Object /\ p = [settle |-> "callback", sub |-> p.sub]
    BY ObjectNamed DEF New!ParseParametersBySubscribe, New!Is, New!Arg, Is, Arg, SubscribeCalls
  <2>2. Calling("subscribeToEvent") =>
          \A p \in New!ParseParametersBySubscribe(script[pc].argv) :
            p.sub \in Object /\ [p EXCEPT !.settle = "promise"].settle # "none"
    BY <2>1
  <2>3. New!SubscribeToEventCall => Invoked("subscribeToEvent")
    BY <2>2, NewShares DEF New!SubscribeToEventCall, Invoked, New!objectVars, New!eventVars, Kept,
       HeldLess, SubscribeCalls
  <2>4. ~New!SubscribeToEventCall => Worked \/ Completed
    BY <1>4, NewShares DEF New!SubscribeToEvent, New!Queued, New!Executed, New!SubscriberInserted,
       New!Over, New!Entry, New!AsyncExecuteCallbackSubscribe,
       New!AsyncCompleteCallbackSubscribeToEvent, Worked, Assigned, Completed, New!objectVars,
       New!eventVars, Kept, HeldLess, SubscribeCalls
  <2> QED  BY <1>4, <2>1, <2>2, <2>3, <2>4, ShapeIsStep DEF Shape
<1>5. CASE New!Unsubscribe
  <2>1. \A argv : \A p \in New!ParseParametersByUnsubscribe(argv) : p.settle = "none" =>
          ~Is(Arg(argv, 2), "function")
    BY DEF New!ParseParametersByUnsubscribe, New!Is, New!Arg, Is, Arg, Undefined, New!Undefined
  <2>2. New!UnsubscribeCall => Invoked("unsubscribe")
    BY <2>1, NewShares DEF New!UnsubscribeCall, Invoked, New!objectVars, New!eventVars, Kept,
       HeldLess, SubscribeCalls
  <2>3. ~New!UnsubscribeCall => Worked \/ Completed
    BY <1>5, NewShares DEF New!Unsubscribe, New!Queued, New!Executed, New!NapiDeleteSubscribe,
       Worked, Assigned, Completed, New!objectVars, New!eventVars, Kept, HeldLess, SubscribeCalls
  <2> QED  BY <1>5, <2>1, <2>2, <2>3, ShapeIsStep DEF Shape
<1>6. CASE New!Finalize
  <2>1. Replied("drop")
    BY <1>6, NewShares DEF New!Finalize, New!NapiDeleteSubscribe, Refuse, runtime, New!runtime,
       Replied, Assigned, New!objectVars, New!eventVars, Kept, HeldLess
  <2> QED  BY <1>6, <2>1, ShapeIsStep DEF Shape
<1> QED  BY <1>1, <1>2, <1>3, <1>4, <1>5, <1>6

\* An event is received.
LEMMA NewReceives ==
  ASSUME TypesOK, binding = "new",
         New!TakeResult \/ New!OnReceiveEvent \/ New!ThreadSafeCallback
  PROVE  Step
<1>1. CASE New!TakeResult
  <2>1. UNCHANGED <<events, instances>> => SameResults /\ HeldLess
    BY Unchanged DEF TypesOK, HeldLess
  <2>2. TookOver \/ WentOn
    BY <1>1, <2>1 DEF New!TakeResult, New!IsOrderedCommonEvent, New!GoAsyncCommonEvent,
       IsOrderedCommonEvent, New!runtime, TookOver, GoneOver, WentOn, Quiet
  <2> QED  BY <1>1, <2>1, <2>2 DEF Step
<1>2. CASE New!OnReceiveEvent
  <2>1. SameResults /\ HeldLess
    BY <1>2, Unchanged DEF New!OnReceiveEvent, TypesOK, HeldLess, New!objectVars, New!eventVars
  <2>2. WentOn
    BY <1>2, <2>1 DEF New!OnReceiveEvent, New!objectVars, New!eventVars, New!runtime, WentOn,
       Quiet
  <2> QED  BY <1>2, <2>1, <2>2 DEF Step
<1>3. CASE New!ThreadSafeCallback
  BY <1>3 DEF New!ThreadSafeCallback, New!objectVars, New!eventVars, New!runtime, Elsewhere, Step
<1> QED  BY <1>1, <1>2, <1>3

\* Every step of the binding is of one of the kinds.
LEMMA NewIsStep == TypesOK /\ binding = "new" /\ New!NewNext => Step
BY NewResultCalls, NewRequests, NewSyncCalls, NewSubscribers, NewReceives DEF New!NewNext

-----------------------------------------------------------------------------
(* commonEvent *)

\* What the bindings share is the same in this one as in the others (NapiCommonEvent to OhCommonEvent extend ScriptBinding).
LEMMA LegacyShares ==
  /\ \A api : \A c \in Legacy!NextCall(api) : TypesOK => c = script[pc] /\ Calling(api)
  /\ Legacy!Refuse => Refuse
  /\ \A f, g : Legacy!Over(f, g) = Over(f, g)
  /\ \A x, v : Legacy!Entry(x, v) = Entry(x, v)
  /\ \A ok, out, e : Legacy!Return(ok, out, e) => Return(ok, out, e)
  /\ \A c, sub, p : Legacy!Submit(c, sub, p) => Submit(c, sub, p)
  /\ \A o : Legacy!GetAsyncResult(o) = GetAsyncResult(o)
  /\ \A i, ok, out, e : Legacy!Outcome(i, ok, out, e) => Outcome(i, ok, out, e)
  /\ \A w, ok, out : Legacy!Execute(w, ok, out) => Execute(w, ok, out)
  /\ \A w : Legacy!Settle(w) => Settle(w)
  /\ \A w : Legacy!Forget(w) => Forget(w)
  /\ \A e, m : Legacy!Assign(e, m) => Assign(e, m)
  /\ \A api : Legacy!Complete(api) => Completed
  /\ \A api : Legacy!TestFinished(api) => TestFinished(api)
  /\ \A api : Legacy!SendFinish(api) => SendFinish(api)
<1>1. Legacy!Refuse => Refuse
  BY DEF Legacy!Refuse, Refuse, Legacy!runtime, runtime
<1>2. \A f, g : Legacy!Over(f, g) = Over(f, g)
  BY DEF Legacy!Over, Over
<1>3. \A x, v : Legacy!Entry(x, v) = Entry(x, v)
  BY DEF Legacy!Entry, Entry
<1>4. \A i, ok, out, e : Legacy!Outcome(i, ok, out, e) => Outcome(i, ok, out, e)
  BY <1>2, <1>3 DEF Legacy!Outcome, Outcome
<1>5. \A ok, out, e : Legacy!Return(ok, out, e) => Return(ok, out, e)
  BY <1>4 DEF Legacy!Return, Return
<1>6. \A c, sub, p : Legacy!Submit(c, sub, p) => Submit(c, sub, p)
  BY DEF Legacy!Submit, Submit
<1>7. \A o : Legacy!GetAsyncResult(o) = GetAsyncResult(o)
  BY DEF Legacy!GetAsyncResult, GetAsyncResult
<1>8. \A w, ok, out : Legacy!Execute(w, ok, out) => Execute(w, ok, out)
  BY <1>4, <1>7 DEF Legacy!Execute, Execute, Legacy!Moved, Moved
<1>9. \A w : Legacy!Settle(w) => Settle(w)
  BY DEF Legacy!Settle, Settle
<1>10. \A w : Legacy!Forget(w) => Forget(w)
  BY DEF Legacy!Forget, Forget
<1>11. \A e, m : Legacy!Assign(e, m) => Assign(e, m)
  BY <1>2 DEF Legacy!Assign, Assign
<1>12. \A api : Legacy!Complete(api) => Completed
  BY <1>9 DEF Legacy!Complete, Legacy!Executed, Completed, Kept, HeldLess, Legacy!objectVars, Legacy!eventVars
<1>13. \A api : Legacy!TestFinished(api) => TestFinished(api)
  BY <1>4, <1>7, <1>8 DEF Legacy!TestFinished, TestFinished, Legacy!Queued, Queued, Legacy!Moved, Moved,
     Legacy!CheckSynchronous, CheckSynchronous, Legacy!Reported, Reported, Legacy!objectVars, objectVars,
     Legacy!eventVars, eventVars
<1>14. \A api : Legacy!SendFinish(api) => SendFinish(api)
  BY <1>11 DEF Legacy!SendFinish, SendFinish, Legacy!Answer, Answer, Legacy!Moved, Moved,
     Legacy!objectVars, objectVars, Legacy!eventVars, eventVars
<1>15. \A api : \A c \in Legacy!NextCall(api) : TypesOK => c = script[pc] /\ Calling(api)
  BY ScriptsAssumption, LenProperties DEF Legacy!NextCall, Calling, TypesOK
<1> QED  BY <1>1, <1>2, <1>3, <1>4, <1>5, <1>6, <1>7, <1>8, <1>9, <1>10, <1>11, <1>12, <1>13, <1>14, <1>15

\* All calls but an unsubscription report to the script.
LEMMA LegacyParses ==
  /\ \A argv : Reporting(Legacy!ParseParametersByGetSubscribeInfo(argv))
  /\ \A argv : Reporting(Legacy!ParseParametersByIsOrderedCommonEvent(argv))
  /\ \A argv : Reporting(Legacy!ParseParametersByIsStickyCommonEvent(argv))
  /\ \A argv : Reporting(Legacy!ParseParametersByGetCode(argv))
  /\ \A argv : Reporting(Legacy!ParseParametersByGetData(argv))
  /\ \A argv : Reporting(Legacy!ParseParametersByClearAbort(argv))
  /\ \A argv : Reporting(Legacy!ParseParametersByAbort(argv))
  /\ \A argv : Reporting(Legacy!ParseParametersByGetAbort(argv))
  /\ \A argv : Reporting(Legacy!ParseParametersByFinish(argv))
  /\ \A argv : Reporting(Legacy!ParseParametersBySetCode(argv))
  /\ \A argv : Reporting(Legacy!ParseParametersBySetData(argv))
  /\ \A argv : Reporting(Legacy!ParseParametersBySetCodeAndData(argv))
  /\ \A argv : Reporting(Legacy!ParseParametersByCreateSubscriber(argv))
  /\ \A argv : Reporting(Legacy!ParseParametersByPublish(argv))
  /\ \A argv : Reporting(Legacy!ParseParametersByPublishAsUser(argv))
<1>1. \A argv, i : \A p \in Legacy!OptionalCallback(argv, i) : DOMAIN p = {"settle"} /\ p.settle # "none"
  BY DEF Legacy!OptionalCallback
<1>2. \A f, g : DOMAIN f = {"settle"} => Legacy!Over(f, g).settle = f.settle
  BY DEF Legacy!Over
<1>3. /\ \A argv : Reporting(Legacy!ParseParametersByGetSubscribeInfo(argv))
      /\ \A argv : Reporting(Legacy!ParseParametersByIsOrderedCommonEvent(argv))
      /\ \A argv : Reporting(Legacy!ParseParametersByIsStickyCommonEvent(argv))
      /\ \A argv : Reporting(Legacy!ParseParametersByGetCode(argv))
      /\ \A argv : Reporting(Legacy!ParseParametersByGetData(argv))
      /\ \A argv : Reporting(Legacy!ParseParametersByClearAbort(argv))
      /\ \A argv : Reporting(Legacy!ParseParametersByAbort(argv))
      /\ \A argv : Reporting(Legacy!ParseParametersByGetAbort(argv))
      /\ \A argv : Reporting(Legacy!ParseParametersByFinish(argv))
  BY <1>1 DEF Reporting, Legacy!ParseParametersByGetSubscribeInfo,
     Legacy!ParseParametersByIsOrderedCommonEvent, Legacy!ParseParametersByIsStickyCommonEvent,
     Legacy!ParseParametersByGetCode, Legacy!ParseParametersByGetData,
     Legacy!ParseParametersByClearAbort, Legacy!ParseParametersByAbort,
     Legacy!ParseParametersByGetAbort, Legacy!ParseParametersByFinish
<1>4. \A argv : Reporting(Legacy!ParseParametersBySetCode(argv))
  BY <1>1, <1>2 DEF Reporting, Legacy!ParseParametersBySetCode
<1>5. \A argv : Reporting(Legacy!ParseParametersBySetData(argv))
  BY <1>1, <1>2 DEF Reporting, Legacy!ParseParametersBySetData
<1>6. \A argv : Reporting(Legacy!ParseParametersBySetCodeAndData(argv))
  BY <1>1, <1>2 DEF Reporting, Legacy!ParseParametersBySetCodeAndData
<1>7. \A argv : Reporting(Legacy!ParseParametersByCreateSubscriber(argv))
  BY DEF Reporting, Legacy!ParseParametersByCreateSubscriber
<1>8. \A argv : Reporting(Legacy!ParseParametersByPublish(argv))
  BY DEF Reporting, Legacy!ParseParametersByPublish
<1>9. \A argv : Reporting(Legacy!ParseParametersByPublishAsUser(argv))
  BY DEF Reporting, Legacy!ParseParametersByPublishAsUser
<1> QED  BY <1>3, <1>4, <1>5, <1>6, <1>7, <1>8, <1>9

\* The calls on the result of the event held.
LEMMA LegacyResultCalls ==
  ASSUME TypesOK,
         Legacy!SetCode \/ Legacy!SetData \/ Legacy!SetCodeAndData \/ Legacy!Abort
         \/ Legacy!ClearAbort \/ Legacy!FinishCommonEvent \/ Legacy!GetCode \/ Legacy!GetData
         \/ Legacy!GetAbort \/ Legacy!IsOrdered \/ Legacy!IsSticky \/ Legacy!GetSubscribeInfo
  PROVE  Step
<1>1. CASE Legacy!SetCode
  <2>1. Legacy!Invoke("setCode", Legacy!ParseParametersBySetCode, Legacy!Code) => Invoked("setCode")
    BY LegacyShares, LegacyParses DEF Legacy!Invoke, Legacy!Accepted, Invoked, Legacy!objectVars,
       Legacy!eventVars, Kept, HeldLess, SubscribeCalls, Reporting
  <2>2. Legacy!Write("setCode", Legacy!Code) => Worked
    BY LegacyShares DEF Legacy!Write, Legacy!Queued, Legacy!Code, Legacy!objectVars,
       Legacy!eventVars, HeldLess, Worked, Assigned, NoVerdict
  <2> QED  BY <1>1, <2>1, <2>2, LegacyShares, ShapeIsStep DEF Legacy!SetCode, Legacy!Setter, Shape
<1>2. CASE Legacy!SetData
  <2>1. Legacy!Invoke("setData", Legacy!ParseParametersBySetData, Legacy!DataOf) =>
          Invoked("setData")
    BY LegacyShares, LegacyParses DEF Legacy!Invoke, Legacy!Accepted, Invoked, Legacy!objectVars,
       Legacy!eventVars, Kept, HeldLess, SubscribeCalls, Reporting
  <2>2. Legacy!Write("setData", Legacy!DataOf) => Worked
    BY LegacyShares DEF Legacy!Write, Legacy!Queued, Legacy!DataOf, Legacy!objectVars,
       Legacy!eventVars, HeldLess, Worked, Assigned, NoVerdict
  <2> QED  BY <1>2, <2>1, <2>2, LegacyShares, ShapeIsStep DEF Legacy!SetData, Legacy!Setter, Shape
<1>3. CASE Legacy!SetCodeAndData
  <2>1. Legacy!Invoke("setCodeAndData", Legacy!ParseParametersBySetCodeAndData, Legacy!CodeAndData) =>
          Invoked("setCodeAndData")
    BY LegacyShares, LegacyParses DEF Legacy!Invoke, Legacy!Accepted, Invoked, Legacy!objectVars,
       Legacy!eventVars, Kept, HeldLess, SubscribeCalls, Reporting
  <2>2. Legacy!Write("setCodeAndData", Legacy!CodeAndData) => Worked
    BY LegacyShares DEF Legacy!Write, Legacy!Queued, Legacy!CodeAndData, Legacy!objectVars,
       Legacy!eventVars, HeldLess, Worked, Assigned, NoVerdict
  <2> QED  BY <1>3, <2>1, <2>2, LegacyShares, ShapeIsStep DEF Legacy!SetCodeAndData, Legacy!Setter, Shape
<1>4. CASE Legacy!Abort
  <2>1. Legacy!Invoke("abort", Legacy!ParseParametersByAbort, Legacy!Aborted) => Invoked("abort")
    BY LegacyShares, LegacyParses DEF Legacy!Invoke, Legacy!Accepted, Invoked, Legacy!objectVars,
       Legacy!eventVars, Kept, HeldLess, SubscribeCalls, Reporting
  <2>2. Legacy!Write("abort", Legacy!Aborted) => Worked
    BY LegacyShares DEF Legacy!Write, Legacy!Queued, Legacy!Aborted, Legacy!objectVars,
       Legacy!eventVars, HeldLess, Worked, Assigned, NoVerdict
  <2> QED  BY <1>4, <2>1, <2>2, LegacyShares, ShapeIsStep DEF Legacy!Abort, Legacy!Setter, Shape
<1>5. CASE Legacy!ClearAbort
  <2>1. Legacy!Invoke("clearAbort", Legacy!ParseParametersByClearAbort, Legacy!NotAborted) =>
          Invoked("clearAbort")
    BY LegacyShares, LegacyParses DEF Legacy!Invoke, Legacy!Accepted, Invoked, Legacy!objectVars,
       Legacy!eventVars, Kept, HeldLess, SubscribeCalls, Reporting
  <2>2. Legacy!Write("clearAbort", Legacy!NotAborted) => Worked
    BY LegacyShares DEF Legacy!Write, Legacy!Queued, Legacy!NotAborted, Legacy!objectVars,
       Legacy!eventVars, HeldLess, Worked, Assigned, NoVerdict
  <2> QED  BY <1>5, <2>1, <2>2, LegacyShares, ShapeIsStep DEF Legacy!ClearAbort, Legacy!Setter, Shape
<1>6. CASE Legacy!FinishCommonEvent
  <2>1. Legacy!Invoke("finish", Legacy!ParseParametersByFinish, Legacy!NoMembers) =>
          Invoked("finish")
    BY LegacyShares, LegacyParses DEF Legacy!Invoke, Legacy!Accepted, Invoked, Legacy!objectVars,
       Legacy!eventVars, Kept, HeldLess, SubscribeCalls, Reporting
  <2> QED  BY <1>6, <2>1, LegacyShares, ShapeIsStep DEF Legacy!FinishCommonEvent, Legacy!Finisher, Shape
<1>7. CASE Legacy!GetCode
  <2>1. Legacy!Invoke("getCode", Legacy!ParseParametersByGetCode, Legacy!NoMembers) =>
          Invoked("getCode")
    BY LegacyShares, LegacyParses DEF Legacy!Invoke, Legacy!Accepted, Invoked, Legacy!objectVars,
       Legacy!eventVars, Kept, HeldLess, SubscribeCalls, Reporting
  <2>2. Legacy!Read("getCode", Legacy!ResultCode) => Worked
    BY LegacyShares DEF Legacy!Read, Legacy!Queued, Legacy!objectVars, Legacy!eventVars, HeldLess,
       Worked, Assigned
  <2> QED  BY <1>7, <2>1, <2>2, LegacyShares, ShapeIsStep DEF Legacy!GetCode, Legacy!Getter, Shape
<1>8. CASE Legacy!GetData
  <2>1. Legacy!Invoke("getData", Legacy!ParseParametersByGetData, Legacy!NoMembers) =>
          Invoked("getData")
    BY LegacyShares, LegacyParses DEF Legacy!Invoke, Legacy!Accepted, Invoked, Legacy!objectVars,
       Legacy!eventVars, Kept, HeldLess, SubscribeCalls, Reporting
  <2>2. Legacy!Read("getData", Legacy!ResultData) => Worked
    BY LegacyShares DEF Legacy!Read, Legacy!Queued, Legacy!objectVars, Legacy!eventVars, HeldLess,
       Worked, Assigned
  <2> QED  BY <1>8, <2>1, <2>2, LegacyShares, ShapeIsStep DEF Legacy!GetData, Legacy!Getter, Shape
<1>9. CASE Legacy!GetAbort
  <2>1. Legacy!Invoke("getAbort", Legacy!ParseParametersByGetAbort, Legacy!NoMembers) =>
          Invoked("getAbort")
    BY LegacyShares, LegacyParses DEF Legacy!Invoke, Legacy!Accepted, Invoked, Legacy!objectVars,
       Legacy!eventVars, Kept, HeldLess, SubscribeCalls, Reporting
  <2>2. Legacy!Read("getAbort", Legacy!ResultAbort) => Worked
    BY LegacyShares DEF Legacy!Read, Legacy!Queued, Legacy!objectVars, Legacy!eventVars, HeldLess,
       Worked, Assigned
  <2> QED  BY <1>9, <2>1, <2>2, LegacyShares, ShapeIsStep DEF Legacy!GetAbort, Legacy!Getter, Shape
<1>10. CASE Legacy!IsOrdered
  <2>1. Legacy!Invoke("isOrdered", Legacy!ParseParametersByIsOrderedCommonEvent, Legacy!NoMembers) =>
          Invoked("isOrdered")
    BY LegacyShares, LegacyParses DEF Legacy!Invoke, Legacy!Accepted, Invoked, Legacy!objectVars,
       Legacy!eventVars, Kept, HeldLess, SubscribeCalls, Reporting
  <2>2. Legacy!Read("isOrdered", Legacy!ResultOrdered) => Worked
    BY LegacyShares DEF Legacy!Read, Legacy!Queued, Legacy!objectVars, Legacy!eventVars, HeldLess,
       Worked, Assigned
  <2> QED  BY <1>10, <2>1, <2>2, LegacyShares, ShapeIsStep DEF Legacy!IsOrdered, Legacy!Getter, Shape
<1>11. CASE Legacy!IsSticky
  <2>1. Legacy!Invoke("isSticky", Legacy!ParseParametersByIsStickyCommonEvent, Legacy!NoMembers) =>
          Invoked("isSticky")
    BY LegacyShares, LegacyParses DEF Legacy!Invoke, Legacy!Accepted, Invoked, Legacy!objectVars,
       Legacy!eventVars, Kept, HeldLess, SubscribeCalls, Reporting
  <2>2. Legacy!Read("isSticky", Legacy!ResultSticky) => Worked
    BY LegacyShares DEF Legacy!Read, Legacy!Queued, Legacy!objectVars, Legacy!eventVars, HeldLess,
       Worked, Assigned
  <2> QED  BY <1>11, <2>1, <2>2, LegacyShares, ShapeIsStep DEF Legacy!IsSticky, Legacy!Getter, Shape
<1>12. CASE Legacy!GetSubscribeInfo
  <2>1. Legacy!Invoke("getSubscribeInfo", Legacy!ParseParametersByGetSubscribeInfo, Legacy!NoMembers) =>
          Invoked("getSubscribeInfo")
    BY LegacyShares, LegacyParses DEF Legacy!Invoke, Legacy!Accepted, Invoked, Legacy!objectVars,
       Legacy!eventVars, Kept, HeldLess, SubscribeCalls, Reporting
  <2>2. Legacy!Read("getSubscribeInfo", Legacy!SubscribeInfoOf) => Worked
    BY LegacyShares DEF Legacy!Read, Legacy!Queued, Legacy!objectVars, Legacy!eventVars, HeldLess,
       Worked, Assigned
  <2> QED  BY <1>12, <2>1, <2>2, LegacyShares, ShapeIsStep DEF Legacy!GetSubscribeInfo, Legacy!Getter,
     Shape
<1> QED  BY <1>1, <1>2, <1>3, <1>4, <1>5, <1>6, <1>7, <1>8, <1>9, <1>10, <1>11, <1>12

\* The requests to the library.
LEMMA LegacyRequests ==
  ASSUME TypesOK,
         Legacy!Publish \/ Legacy!PublishAsUser
  PROVE  Step
<1>1. CASE Legacy!Publish
  <2>1. Invoked("publish") \/ Worked \/ Completed
    BY <1>1, LegacyShares, LegacyParses DEF Legacy!Publish, Legacy!Request, Legacy!Queued,
       Invoked, Worked, Assigned, Legacy!objectVars, Legacy!eventVars, Kept, HeldLess,
       SubscribeCalls, Reporting
  <2> QED  BY <1>1, <2>1, ShapeIsStep DEF Shape
<1>2. CASE Legacy!PublishAsUser
  <2>1. Invoked("publishAsUser") \/ Worked \/ Completed
    BY <1>2, LegacyShares, LegacyParses DEF Legacy!PublishAsUser, Legacy!Request, Legacy!Queued,
       Invoked, Worked, Assigned, Legacy!objectVars, Legacy!eventVars, Kept, HeldLess,
       SubscribeCalls, Reporting
  <2> QED  BY <1>2, <2>1, ShapeIsStep DEF Shape
<1> QED  BY <1>1, <1>2

\* Subscribers are created, subscribed and forgotten.
LEMMA LegacySubscribers ==
  ASSUME TypesOK,
         Legacy!CreateSubscriber \/ Legacy!Subscribe \/ Legacy!Unsubscribe \/ Legacy!Finalize
  PROVE  Step
<1>1. CASE Legacy!CreateSubscriber
  <2>1. Legacy!CreateSubscriberCall => Invoked("createSubscriber")
    BY LegacyShares, LegacyParses DEF Legacy!CreateSubscriberCall, Invoked, Reporting,
       Legacy!objectVars, Legacy!eventVars, Kept, HeldLess, SubscribeCalls
  <2>2. ~Legacy!CreateSubscriberCall => Worked \/ Completed
    BY <1>1, LegacyShares DEF Legacy!CreateSubscriber, Legacy!Read, Legacy!Queued,
       Legacy!Executed, Legacy!CommonEventSubscriberConstructor, Worked, Assigned, Completed,
       Legacy!objectVars, Legacy!eventVars, Kept, HeldLess
  <2> QED  BY <1>1, <2>1, <2>2, ShapeIsStep DEF Shape
<1>2. CASE Legacy!Subscribe
  <2>1. Calling("subscribe") =>
          \A p \in Legacy!ParseParametersBySubscribe(script[pc].argv) :
            p.sub \in Object /\ p = [settle |-> "callback", sub |-> p.sub]
    BY ObjectNamed DEF Legacy!ParseParametersBySubscribe, Legacy!Is, Legacy!Arg, Is, Arg,
       SubscribeCalls
  <2>2. Legacy!SubscribeCall => Invoked("subscribe")
    BY <2>1, LegacyShares DEF Legacy!SubscribeCall, Invoked, Legacy!objectVars, Legacy!eventVars,
       Kept, HeldLess, SubscribeCalls
  <2>3. ~Legacy!SubscribeCall => Worked \/ Completed
    BY <1>2, LegacyShares DEF Legacy!Subscribe, Legacy!Queued, Legacy!Executed,
       Legacy!SubscriberInserted, Legacy!Over, Legacy!Entry, Worked, Assigned, Completed,
       Legacy!objectVars, Legacy!eventVars, Kept, HeldLess, SubscribeCalls
  <2> QED  BY <1>2, <2>1, <2>2, <2>3, ShapeIsStep DEF Shape
<1>3. CASE Legacy!Unsubscribe
  <2>1. \A argv : \A p \in Legacy!ParseParametersByUnsubscribe(argv) : p.settle = "none" =>
          ~Is(Arg(argv, 2), "function")
    BY DEF Legacy!ParseParametersByUnsubscribe, Legacy!Is, Legacy!Arg, Is, Arg, Undefined,
       Legacy!Undefined
  <2>2. Legacy!UnsubscribeCall => Invoked("unsubscribe")
    BY <2>1, LegacyShares DEF Legacy!UnsubscribeCall, Invoked, Legacy!objectVars,
       Legacy!eventVars, Kept, HeldLess, SubscribeCalls
  <2>3. ~Legacy!UnsubscribeCall => Worked \/ Completed
    BY <1>3, LegacyShares DEF Legacy!Unsubscribe, Legacy!Queued, Legacy!Executed,
       Legacy!NapiDeleteSubscribe, Worked, Assigned, Completed, Legacy!objectVars,
       Legacy!eventVars, Kept, HeldLess, SubscribeCalls
  <2> QED  BY <1>3, <2>1, <2>2, <2>3, ShapeIsStep DEF Shape
<1>4. CASE Legacy!Finalize
  <2>1. Replied("drop")
    BY <1>4, LegacyShares DEF Legacy!Finalize, Legacy!NapiDeleteSubscribe, Refuse, runtime,
       Legacy!runtime, Replied, Assigned, Legacy!objectVars, Legacy!eventVars, Kept, HeldLess
  <2> QED  BY <1>4, <2>1, ShapeIsStep DEF Shape
<1> QED  BY <1>1, <1>2, <1>3, <1>4

\* An event is received.
LEMMA LegacyReceives ==
  ASSUME TypesOK, binding = "legacy",
         Legacy!TakeResult \/ Legacy!OnReceiveEvent \/ Legacy!ThreadSafeCallback
  PROVE  Step
<1>1. CASE Legacy!TakeResult
  <2>1. UNCHANGED <<events, instances>> => SameResults /\ HeldLess
    BY Unchanged DEF TypesOK, HeldLess
  <2>2. TookOver \/ WentOn
    BY <1>1, <2>1 DEF Legacy!TakeResult, Legacy!IsOrderedCommonEvent, Legacy!GoAsyncCommonEvent,
       IsOrderedCommonEvent, Legacy!runtime, TookOver, GoneOver, WentOn, Quiet
  <2> QED  BY <1>1, <2>1, <2>2 DEF Step
<1>2. CASE Legacy!OnReceiveEvent
  <2>1. SameResults /\ HeldLess
    BY <1>2, Unchanged DEF Legacy!OnReceiveEvent, TypesOK, HeldLess, Legacy!objectVars,
       Legacy!eventVars
  <2>2. WentOn
    BY <1>2, <2>1 DEF Legacy!OnReceiveEvent, Legacy!objectVars, Legacy!eventVars, Legacy!runtime,
       WentOn, Quiet
  <2> QED  BY <1>2, <2>1, <2>2 DEF Step
<1>3. CASE Legacy!ThreadSafeCallback
  BY <1>3 DEF Legacy!ThreadSafeCallback, Legacy!objectVars, Legacy!eventVars, Legacy!runtime,
     Elsewhere, Step
<1> QED  BY <1>1, <1>2, <1>3

\* Every step of the binding is of one of the kinds.
LEMMA LegacyIsStep == TypesOK /\ binding = "legacy" /\ Legacy!LegacyNext => Step
BY LegacyResultCalls, LegacyRequests, LegacySubscribers, LegacyReceives DEF Legacy!LegacyNext

-----------------------------------------------------------------------------
(* The binding for static scripts *)

\* What the bindings share is the same in this one as in the others (NapiCommonEvent to OhCommonEvent extend ScriptBinding).
LEMMA StaticShares ==
  /\ \A api : \A c \in Static!NextCall(api) : TypesOK => c = script[pc] /\ Calling(api)
  /\ Static!Refuse => Refuse
  /\ \A f, g : Static!Over(f, g) = Over(f, g)
  /\ \A x, v : Static!Entry(x, v) = Entry(x, v)
  /\ \A ok, out, e : Static!Return(ok, out, e) => Return(ok, out, e)
  /\ \A c, sub, p : Static!Submit(c, sub, p) => Submit(c, sub, p)
  /\ \A o : Static!GetAsyncResult(o) = GetAsyncResult(o)
  /\ \A i, ok, out, e : Static!Outcome(i, ok, out, e) => Outcome(i, ok, out, e)
  /\ \A w, ok, out : Static!Execute(w, ok, out) => Execute(w, ok, out)
  /\ \A w : Static!Settle(w) => Settle(w)
  /\ \A w : Static!Forget(w) => Forget(w)
  /\ \A e, m : Static!Assign(e, m) => Assign(e, m)
  /\ \A api : Static!Complete(api) => Completed
  /\ \A api : Static!TestFinished(api) => TestFinished(api)
  /\ \A api : Static!SendFinish(api) => SendFinish(api)
<1>1. Static!Refuse => Refuse
  BY DEF Static!Refuse, Refuse, Static!runtime, runtime
<1>2. \A f, g : Static!Over(f, g) = Over(f, g)
  BY DEF Static!Over, Over
<1>3. \A x, v : Static!Entry(x, v) = Entry(x, v)
  BY DEF Static!Entry, Entry
<1>4. \A i, ok, out, e : Static!Outcome(i, ok, out, e) => Outcome(i, ok, out, e)
  BY <1>2, <1>3 DEF Static!Outcome, Outcome
<1>5. \A ok, out, e : Static!Return(ok, out, e) => Return(ok, out, e)
  BY <1>4 DEF Static!Return, Return
<1>6. \A c, sub, p : Static!Submit(c, sub, p) => Submit(c, sub, p)
  BY DEF Static!Submit, Submit
<1>7. \A o : Static!GetAsyncResult(o) = GetAsyncResult(o)
  BY DEF Static!GetAsyncResult, GetAsyncResult
<1>8. \A w, ok, out : Static!Execute(w, ok, out) => Execute(w, ok, out)
  BY <1>4, <1>7 DEF Static!Execute, Execute, Static!Moved, Moved
<1>9. \A w : Static!Settle(w) => Settle(w)
  BY DEF Static!Settle, Settle
<1>10. \A w : Static!Forget(w) => Forget(w)
  BY DEF Static!Forget, Forget
<1>11. \A e, m : Static!Assign(e, m) => Assign(e, m)
  BY <1>2 DEF Static!Assign, Assign
<1>12. \A api : Static!Complete(api) => Completed
  BY <1>9 DEF Static!Complete, Static!Executed, Completed, Kept, HeldLess, Static!objectVars, Static!eventVars
<1>13. \A api : Static!TestFinished(api) => TestFinished(api)
  BY <1>4, <1>7, <1>8 DEF Static!TestFinished, TestFinished, Static!Queued, Queued, Static!Moved, Moved,
     Static!CheckSynchronous, CheckSynchronous, Static!Reported, Reported, Static!objectVars, objectVars,
     Static!eventVars, eventVars
<1>14. \A api : Static!SendFinish(api) => SendFinish(api)
  BY <1>11 DEF Static!SendFinish, SendFinish, Static!Answer, Answer, Static!Moved, Moved,
     Static!objectVars, objectVars, Static!eventVars, eventVars
<1>15. \A api : \A c \in Static!NextCall(api) : TypesOK => c = script[pc] /\ Calling(api)
  BY ScriptsAssumption, LenProperties DEF Static!NextCall, Calling, TypesOK
<1> QED  BY <1>1, <1>2, <1>3, <1>4, <1>5, <1>6, <1>7, <1>8, <1>9, <1>10, <1>11, <1>12, <1>13, <1>14, <1>15

\* The calls on the result of the event held.
LEMMA StaticResultCalls ==
  ASSUME TypesOK,
         Static!setCode \/ Static!setData \/ Static!setCodeAndData \/ Static!abortCommonEvent
         \/ Static!clearAbortCommonEvent \/ Static!finishCommonEvent \/ Static!getCode
         \/ Static!getData \/ Static!getAbortCommonEvent \/ Static!isOrderedCommonEvent
         \/ Static!isStickyCommonEvent \/ Static!getSubscribeInfo
  PROVE  Step
<1>1. CASE Static!setCode
  <2>1. Static!Invoke("setCode", Static!CodeGiven, Static!Code) => Invoked("setCode")
    BY StaticShares DEF Static!Invoke, Static!Accepted, Invoked, Static!objectVars,
       Static!eventVars, Kept, HeldLess, SubscribeCalls, Static!CodeGiven,
       Static!CallbackOrPromise, Static!Over
  <2>2. Static!Write("setCode", Static!Code) => Worked
    BY StaticShares DEF Static!Write, Static!Queued, Static!Code, Static!objectVars,
       Static!eventVars, HeldLess, Worked, Assigned, NoVerdict
  <2> QED  BY <1>1, <2>1, <2>2, StaticShares, ShapeIsStep DEF Static!setCode, Static!Setter, Shape
<1>2. CASE Static!setData
  <2>1. Static!Invoke("setData", Static!DataGiven, Static!DataOf) => Invoked("setData")
    BY StaticShares DEF Static!Invoke, Static!Accepted, Invoked, Static!objectVars,
       Static!eventVars, Kept, HeldLess, SubscribeCalls, Static!DataGiven,
       Static!CallbackOrPromise, Static!Over
  <2>2. Static!Write("setData", Static!DataOf) => Worked
    BY StaticShares DEF Static!Write, Static!Queued, Static!DataOf, Static!objectVars,
       Static!eventVars, HeldLess, Worked, Assigned, NoVerdict
  <2> QED  BY <1>2, <2>1, <2>2, StaticShares, ShapeIsStep DEF Static!setData, Static!Setter, Shape
<1>3. CASE Static!setCodeAndData
  <2>1. Static!Invoke("setCodeAndData", Static!CodeAndDataGiven, Static!CodeAndData) =>
          Invoked("setCodeAndData")
    BY StaticShares DEF Static!Invoke, Static!Accepted, Invoked, Static!objectVars,
       Static!eventVars, Kept, HeldLess, SubscribeCalls, Static!CodeAndDataGiven,
       Static!CallbackOrPromise, Static!Over
  <2>2. Static!Write("setCodeAndData", Static!CastCodeAndData) => Worked
    BY StaticShares DEF Static!Write, Static!Queued, Static!CodeAndData, Static!CastCodeAndData,
       Static!objectVars, Static!eventVars, HeldLess, Worked, Assigned, NoVerdict
  <2> QED  BY <1>3, <2>1, <2>2, StaticShares, ShapeIsStep DEF Static!setCodeAndData, Static!Setter, Shape
<1>4. CASE Static!abortCommonEvent
  <2>1. Static!Invoke("abort", Static!Answerer, Static!Aborted) => Invoked("abort")
    BY StaticShares DEF Static!Invoke, Static!Accepted, Invoked, Static!objectVars,
       Static!eventVars, Kept, HeldLess, SubscribeCalls, Static!Answerer, Static!CallbackOrPromise
  <2>2. Static!Write("abort", Static!Aborted) => Worked
    BY StaticShares DEF Static!Write, Static!Queued, Static!Aborted, Static!objectVars,
       Static!eventVars, HeldLess, Worked, Assigned, NoVerdict
  <2> QED  BY <1>4, <2>1, <2>2, StaticShares, ShapeIsStep DEF Static!abortCommonEvent, Static!Setter, Shape
<1>5. CASE Static!clearAbortCommonEvent
  <2>1. Static!Invoke("clearAbort", Static!Answerer, Static!NotAborted) => Invoked("clearAbort")
    BY StaticShares DEF Static!Invoke, Static!Accepted, Invoked, Static!objectVars,
       Static!eventVars, Kept, HeldLess, SubscribeCalls, Static!Answerer, Static!CallbackOrPromise
  <2>2. Static!Write("clearAbort", Static!NotAborted) => Worked
    BY StaticShares DEF Static!Write, Static!Queued, Static!NotAborted, Static!objectVars,
       Static!eventVars, HeldLess, Worked, Assigned, NoVerdict
  <2> QED  BY <1>5, <2>1, <2>2, StaticShares, ShapeIsStep DEF Static!clearAbortCommonEvent, Static!Setter,
     Shape
<1>6. CASE Static!finishCommonEvent
  <2>1. Static!Invoke("finish", Static!Answerer, Static!NoMembers) => Invoked("finish")
    BY StaticShares DEF Static!Invoke, Static!Accepted, Invoked, Static!objectVars,
       Static!eventVars, Kept, HeldLess, SubscribeCalls, Static!Answerer, Static!CallbackOrPromise
  <2> QED  BY <1>6, <2>1, StaticShares, ShapeIsStep DEF Static!finishCommonEvent, Static!Finisher, Shape
<1>7. CASE Static!getCode
  <2>1. Static!Invoke("getCode", Static!Answerer, Static!NoMembers) => Invoked("getCode")
    BY StaticShares DEF Static!Invoke, Static!Accepted, Invoked, Static!objectVars,
       Static!eventVars, Kept, HeldLess, SubscribeCalls, Static!Answerer, Static!CallbackOrPromise
  <2>2. Static!Read("getCode", Static!ResultCode) => Worked
    BY StaticShares DEF Static!Read, Static!Queued, Static!objectVars, Static!eventVars, HeldLess,
       Worked, Assigned
  <2> QED  BY <1>7, <2>1, <2>2, StaticShares, ShapeIsStep DEF Static!getCode, Static!Getter, Shape
<1>8. CASE Static!getData
  <2>1. Static!Invoke("getData", Static!Answerer, Static!NoMembers) => Invoked("getData")
    BY StaticShares DEF Static!Invoke, Static!Accepted, Invoked, Static!objectVars,
       Static!eventVars, Kept, HeldLess, SubscribeCalls, Static!Answerer, Static!CallbackOrPromise
  <2>2. Static!Read("getData", Static!ResultData) => Worked
    BY StaticShares DEF Static!Read, Static!Queued, Static!objectVars, Static!eventVars, HeldLess,
       Worked, Assigned
  <2> QED  BY <1>8, <2>1, <2>2, StaticShares, ShapeIsStep DEF Static!getData, Static!Getter, Shape
<1>9. CASE Static!getAbortCommonEvent
  <2>1. Static!Invoke("getAbort", Static!Answerer, Static!NoMembers) => Invoked("getAbort")
    BY StaticShares DEF Static!Invoke, Static!Accepted, Invoked, Static!objectVars,
       Static!eventVars, Kept, HeldLess, SubscribeCalls, Static!Answerer, Static!CallbackOrPromise
  <2>2. Static!Read("getAbort", Static!ResultAbort) => Worked
    BY StaticShares DEF Static!Read, Static!Queued, Static!objectVars, Static!eventVars, HeldLess,
       Worked, Assigned
  <2> QED  BY <1>9, <2>1, <2>2, StaticShares, ShapeIsStep DEF Static!getAbortCommonEvent, Static!Getter,
     Shape
<1>10. CASE Static!isOrderedCommonEvent
  <2>1. Static!Invoke("isOrdered", Static!Answerer, Static!NoMembers) => Invoked("isOrdered")
    BY StaticShares DEF Static!Invoke, Static!Accepted, Invoked, Static!objectVars,
       Static!eventVars, Kept, HeldLess, SubscribeCalls, Static!Answerer, Static!CallbackOrPromise
  <2>2. Static!Read("isOrdered", Static!HeldOrdered) => Worked
    BY StaticShares DEF Static!Read, Static!Queued, Static!objectVars, Static!eventVars, HeldLess,
       Worked, Assigned
  <2> QED  BY <1>10, <2>1, <2>2, StaticShares, ShapeIsStep DEF Static!isOrderedCommonEvent, Static!Getter,
     Shape
<1>11. CASE Static!isStickyCommonEvent
  <2>1. Static!Invoke("isSticky", Static!Answerer, Static!NoMembers) => Invoked("isSticky")
    BY StaticShares DEF Static!Invoke, Static!Accepted, Invoked, Static!objectVars,
       Static!eventVars, Kept, HeldLess, SubscribeCalls, Static!Answerer, Static!CallbackOrPromise
  <2>2. Static!Read("isSticky", Static!HeldSticky) => Worked
    BY StaticShares DEF Static!Read, Static!Queued, Static!objectVars, Static!eventVars, HeldLess,
       Worked, Assigned
  <2> QED  BY <1>11, <2>1, <2>2, StaticShares, ShapeIsStep DEF Static!isStickyCommonEvent, Static!Getter,
     Shape
<1>12. CASE Static!getSubscribeInfo
  <2>1. Static!Invoke("getSubscribeInfo", Static!Answerer, Static!NoMembers) =>
          Invoked("getSubscribeInfo")
    BY StaticShares DEF Static!Invoke, Static!Accepted, Invoked, Static!objectVars,
       Static!eventVars, Kept, HeldLess, SubscribeCalls, Static!Answerer, Static!CallbackOrPromise
  <2>2. Static!Read("getSubscribeInfo", Static!SubscribeInfoOf) => Worked
    BY StaticShares DEF Static!Read, Static!Queued, Static!objectVars, Static!eventVars, HeldLess,
       Worked, Assigned
  <2> QED  BY <1>12, <2>1, <2>2, StaticShares, ShapeIsStep DEF Static!getSubscribeInfo, Static!Getter,
     Shape
<1> QED  BY <1>1, <1>2, <1>3, <1>4, <1>5, <1>6, <1>7, <1>8, <1>9, <1>10, <1>11, <1>12

\* The requests to the library.
LEMMA StaticRequests ==
  ASSUME TypesOK,
         Static!publish \/ Static!publishAsUser \/ Static!removeStickyCommonEventExecute
         \/ Static!setStaticSubscriberState
  PROVE  Step
<1>1. CASE Static!publish
  <2>1. \A argv : Reporting(Static!PublicationGiven(argv))
    BY DEF Reporting, Static!PublicationGiven
  <2>2. Invoked("publish") \/ Worked \/ Completed
    BY <1>1, StaticShares, <2>1 DEF Static!publish, Static!Request, Static!Queued, Invoked,
       Worked, Assigned, Static!objectVars, Static!eventVars, Kept, HeldLess, SubscribeCalls,
       Reporting
  <2> QED  BY <1>1, <2>1, <2>2, ShapeIsStep DEF Shape
<1>2. CASE Static!publishAsUser
  <2>1. \A argv : Reporting(Static!PublicationAsUserGiven(argv))
    BY DEF Reporting, Static!PublicationAsUserGiven
  <2>2. Invoked("publishAsUser") \/ Worked \/ Completed
    BY <1>2, StaticShares, <2>1 DEF Static!publishAsUser, Static!Request, Static!Queued, Invoked,
       Worked, Assigned, Static!objectVars, Static!eventVars, Kept, HeldLess, SubscribeCalls,
       Reporting
  <2> QED  BY <1>2, <2>1, <2>2, ShapeIsStep DEF Shape
<1>3. CASE Static!removeStickyCommonEventExecute
  <2>1. \A argv : Reporting(Static!StickyGiven(argv))
    BY DEF Reporting, Static!StickyGiven, Static!CallbackOrPromise, Static!Over
  <2>2. Invoked("removeSticky") \/ Worked \/ Completed
    BY <1>3, StaticShares, <2>1 DEF Static!removeStickyCommonEventExecute, Static!Request,
       Static!Queued, Invoked, Worked, Assigned, Static!objectVars, Static!eventVars, Kept,
       HeldLess, SubscribeCalls, Reporting
  <2> QED  BY <1>3, <2>1, <2>2, ShapeIsStep DEF Shape
<1>4. CASE Static!setStaticSubscriberState
  <2>1. \A argv : Reporting(Static!StateGiven(argv))
    BY DEF Reporting, Static!StateGiven, Static!CallbackOrPromise, Static!Over,
       Static!setStaticSubscriberStateExecute, Static!setStaticSubscriberStateWithEventsExecute
  <2>2. Invoked("setStaticSubscriberState") \/ Worked \/ Completed
    BY <1>4, StaticShares, <2>1 DEF Static!setStaticSubscriberState, Static!Request,
       Static!Queued, Invoked, Worked, Assigned, Static!objectVars, Static!eventVars, Kept,
       HeldLess, SubscribeCalls, Reporting
  <2> QED  BY <1>4, <2>1, <2>2, ShapeIsStep DEF Shape
<1> QED  BY <1>1, <1>2, <1>3, <1>4

\* The calls that run at once.
LEMMA StaticSyncCalls ==
  ASSUME TypesOK,
         Static!SyncCalls
  PROVE  Step
<1>1. CASE Static!SyncCalls
  <2>1. \E api : Replied(api)
    BY <1>1, StaticShares DEF Static!SyncCalls, Static!ReadSync, Static!WriteSync,
       Static!WriteSyncAs, Static!Aborted, Static!NotAborted, Replied, Assigned, NoVerdict,
       Static!objectVars, Static!eventVars, Kept, HeldLess
  <2> QED  BY <1>1, <2>1, ShapeIsStep DEF Shape
<1> QED  BY <1>1

\* The steps of a subscription: the call, the library's answer, the entry of the map.
LEMMA StaticSubscribeWork ==
  ASSUME TypesOK, binding = "static", NEW api \in SubscribeCalls, Static!SubscribeWork(api)
  PROVE  Step
<1>1. CASE \E c \in Static!NextCall(api) :
             /\ Static!Submit(c, c.argv[1].n, [settle |-> IF api = "subscribe" THEN "callback" ELSE "promise",
                                              sub |-> c.argv[1].n])
             /\ UNCHANGED <<Static!objectVars, Static!eventVars, published, view>>
  <2>1. Invoked(api)
    BY <1>1, StaticShares, ObjectNamed DEF Invoked, Static!objectVars, Static!eventVars, Kept, HeldLess
  <2> QED  BY <2>1, ShapeIsStep DEF Shape
<1>2. ASSUME NEW w \in works, w.api = api, Static!SendSubscription(w)
      PROVE  Step
  <2>1. SameResults /\ HeldLess
    BY <1>2, Unchanged DEF TypesOK, Static!SendSubscription, Static!eventVars, HeldLess
  <2>2. PICK ok \in BOOLEAN :
          /\ listening' = IF ok THEN listening \cup {w.sub} ELSE listening
          /\ IF ok THEN /\ works' = Static!Moved(w, "subscribed") /\ Static!Outcome(w.call, TRUE, 0, 0)
                        /\ UNCHANGED <<binding, script, pc, settled, alive>>
             ELSE Static!Execute(w, FALSE, 0)
          /\ UNCHANGED <<result_, receiving, answers, events>>
    BY <1>2 DEF Static!SendSubscription, Static!eventVars
  <2>3. CASE ok
    <3>1. \A yes : Static!Outcome(w.call, yes, 0, 0) => Recorded(w.call)
      BY StaticShares, OutcomeRecords
    <3>2. Recorded(w.call)
      BY <2>2, <2>3, <3>1
    <3>3. Ran(w, "subscribed")
      BY <1>2, <2>1, <2>2, <2>3, <3>2 DEF Static!Moved, Ran, Quiet
    <3> QED  BY <3>3 DEF Step, WorkAt
  <2>4. CASE ~ok
    <3>1. Worked
      BY <1>2, <2>1, <2>2, <2>4, StaticShares DEF Worked, Assigned
    <3> QED  BY <3>1, ShapeIsStep DEF Shape
  <2> QED  BY <2>3, <2>4
<1>3. ASSUME NEW w \in works, w.api = api, Static!EnterMap(w)
      PROVE  Step
  <2>1. Entered(w)
    BY <1>3 DEF Static!EnterMap, Static!Over, Static!Entry, Static!OwnResult, Static!GoAsyncCommonEvent,
       Static!Moved, Entered, GoneOver
  <2> QED  BY <2>1 DEF Step
<1> QED  BY <1>1, <1>2, <1>3 DEF Static!SubscribeWork, Static!Queued

\* Subscribers are created, subscribed and forgotten.
LEMMA StaticSubscribers ==
  ASSUME TypesOK, binding = "static",
         Static!createSubscriberExecute \/ Static!createSubscriberSync \/ Static!subscribeExecute
         \/ Static!subscribeToEventExecute \/ Static!unsubscribeExecute \/ Static!clean
  PROVE  Step
<1>1. CASE Static!createSubscriberExecute
  <2>1. \A argv, m : Static!Over(Static!CallbackOrPromise(argv, 2), m).settle # "none"
    BY DEF Static!Over, Static!CallbackOrPromise
  <2>2. Static!createSubscriberCall => Invoked("createSubscriber")
    BY <2>1, StaticShares DEF Static!createSubscriberCall, Invoked, Static!objectVars,
       Static!eventVars, Kept, HeldLess, SubscribeCalls
  <2>3. ~Static!createSubscriberCall => Worked \/ Completed
    BY <1>1, StaticShares DEF Static!createSubscriberExecute, Static!Queued,
       Static!CreateSubscriberRef, Worked, Assigned, Static!objectVars, Static!eventVars, Kept,
       HeldLess
  <2> QED  BY <1>1, <2>1, <2>2, <2>3, ShapeIsStep DEF Shape
<1>2. CASE Static!createSubscriberSync
  <2>1. Replied("createSubscriberSync")
    BY <1>2, StaticShares DEF Static!createSubscriberSync, Static!CreateSubscriberRef, Replied,
       Assigned, Static!objectVars, Static!eventVars, Kept, HeldLess
  <2> QED  BY <1>2, <2>1, ShapeIsStep DEF Shape
<1>3. CASE Static!subscribeExecute
  <2>1. Static!SubscribeWork("subscribe") => Step
    BY StaticShares, StaticSubscribeWork DEF SubscribeCalls
  <2>2. ~Static!SubscribeWork("subscribe") => Completed
    BY <1>3, StaticShares DEF Static!subscribeExecute, Static!Executed, Completed,
       Static!objectVars, Static!eventVars, Kept, HeldLess
  <2> QED  BY <1>3, <2>1, <2>2, ShapeIsStep DEF Shape
<1>4. CASE Static!subscribeToEventExecute
  <2>1. Static!SubscribeWork("subscribeToEvent") => Step
    BY StaticSubscribeWork DEF SubscribeCalls
  <2> QED  BY <1>4, <2>1, StaticShares, ShapeIsStep DEF Shape, Static!subscribeToEventExecute
<1>5. CASE Static!unsubscribeExecute
  <2>1. Static!unsubscribeCall => Invoked("unsubscribe")
    BY StaticShares DEF Static!unsubscribeCall, Static!Is, Static!Arg, Static!Undefined, Is, Arg,
       Undefined, Invoked, Static!objectVars, Static!eventVars, Kept, HeldLess, SubscribeCalls
  <2>2. ~Static!unsubscribeCall => Worked \/ Completed
    BY <1>5, StaticShares DEF Static!unsubscribeExecute, Static!Queued,
       Static!UnsubscribeAndRemoveInstance, Worked, Assigned, SubscribeCalls, Static!objectVars,
       Static!eventVars, Kept, HeldLess
  <2> QED  BY <1>5, <2>1, <2>2, ShapeIsStep DEF Shape
<1>6. CASE Static!clean
  <2>1. Replied("drop")
    BY <1>6, StaticShares DEF Static!clean, Static!UnsubscribeAndRemoveInstance, Refuse, runtime,
       Static!runtime, Replied, Assigned, Static!objectVars, Static!eventVars, Kept, HeldLess
  <2> QED  BY <1>6, <2>1, ShapeIsStep DEF Shape
<1> QED  BY <1>1, <1>2, <1>3, <1>4, <1>5, <1>6

\* An event is received.
LEMMA StaticReceives ==
  ASSUME TypesOK, binding = "static",
         Static!TakeResult \/ Static!OnReceiveEvent
  PROVE  Step
<1>1. CASE Static!TakeResult
  <2>1. UNCHANGED <<events, instances>> => SameResults /\ HeldLess
    BY Unchanged DEF TypesOK, HeldLess
  <2>2. TookOver \/ WentOn
    BY <1>1, <2>1 DEF Static!TakeResult, Static!IsOrderedCommonEvent, Static!GoAsyncCommonEvent,
       Static!Over, Static!Entry, IsOrderedCommonEvent, Static!runtime, TookOver, GoneOver,
       WentOn, Quiet
  <2> QED  BY <1>1, <2>1, <2>2 DEF Step
<1>2. CASE Static!OnReceiveEvent
  <2>1. SameResults /\ HeldLess
    BY <1>2, Unchanged DEF Static!OnReceiveEvent, TypesOK, HeldLess, Static!objectVars,
       Static!eventVars
  <2>2. WentOn
    BY <1>2, <2>1 DEF Static!OnReceiveEvent, Static!objectVars, Static!eventVars, Static!runtime,
       WentOn, Quiet
  <2> QED  BY <1>2, <2>1, <2>2 DEF Step
<1> QED  BY <1>1, <1>2

\* Every step of the binding is of one of the kinds.
LEMMA StaticIsStep == TypesOK /\ binding = "static" /\ Static!StaticNext => Step
BY StaticResultCalls, StaticRequests, StaticSyncCalls, StaticSubscribers, StaticReceives DEF
   Static!StaticNext

-----------------------------------------------------------------------------
(* The binding for Cangjie *)

\* What the bindings share is the same in this one as in the others (NapiCommonEvent to OhCommonEvent extend ScriptBinding).
LEMMA CangjieShares ==
  /\ \A api : \A c \in Cangjie!NextCall(api) : TypesOK => c = script[pc] /\ Calling(api)
  /\ Cangjie!Refuse => Refuse
  /\ \A f, g : Cangjie!Over(f, g) = Over(f, g)
  /\ \A x, v : Cangjie!Entry(x, v) = Entry(x, v)
  /\ \A ok, out, e : Cangjie!Return(ok, out, e) => Return(ok, out, e)
  /\ \A c, sub, p : Cangjie!Submit(c, sub, p) => Submit(c, sub, p)
  /\ \A o : Cangjie!GetAsyncResult(o) = GetAsyncResult(o)
  /\ \A i, ok, out, e : Cangjie!Outcome(i, ok, out, e) => Outcome(i, ok, out, e)
  /\ \A w, ok, out : Cangjie!Execute(w, ok, out) => Execute(w, ok, out)
  /\ \A w : Cangjie!Settle(w) => Settle(w)
  /\ \A w : Cangjie!Forget(w) => Forget(w)
  /\ \A e, m : Cangjie!Assign(e, m) => Assign(e, m)
  /\ \A api : Cangjie!Complete(api) => Completed
  /\ \A api : Cangjie!TestFinished(api) => TestFinished(api)
  /\ \A api : Cangjie!SendFinish(api) => SendFinish(api)
<1>1. Cangjie!Refuse => Refuse
  BY DEF Cangjie!Refuse, Refuse, Cangjie!runtime, runtime
<1>2. \A f, g : Cangjie!Over(f, g) = Over(f, g)
  BY DEF Cangjie!Over, Over
<1>3. \A x, v : Cangjie!Entry(x, v) = Entry(x, v)
  BY DEF Cangjie!Entry, Entry
<1>4. \A i, ok, out, e : Cangjie!Outcome(i, ok, out, e) => Outcome(i, ok, out, e)
  BY <1>2, <1>3 DEF Cangjie!Outcome, Outcome
<1>5. \A ok, out, e : Cangjie!Return(ok, out, e) => Return(ok, out, e)
  BY <1>4 DEF Cangjie!Return, Return
<1>6. \A c, sub, p : Cangjie!Submit(c, sub, p) => Submit(c, sub, p)
  BY DEF Cangjie!Submit, Submit
<1>7. \A o : Cangjie!GetAsyncResult(o) = GetAsyncResult(o)
  BY DEF Cangjie!GetAsyncResult, GetAsyncResult
<1>8. \A w, ok, out : Cangjie!Execute(w, ok, out) => Execute(w, ok, out)
  BY <1>4, <1>7 DEF Cangjie!Execute, Execute, Cangjie!Moved, Moved
<1>9. \A w : Cangjie!Settle(w) => Settle(w)
  BY DEF Cangjie!Settle, Settle
<1>10. \A w : Cangjie!Forget(w) => Forget(w)
  BY DEF Cangjie!Forget, Forget
<1>11. \A e, m : Cangjie!Assign(e, m) => Assign(e, m)
  BY <1>2 DEF Cangjie!Assign, Assign
<1>12. \A api : Cangjie!Complete(api) => Completed
  BY <1>9 DEF Cangjie!Complete, Cangjie!Executed, Completed, Kept, HeldLess, Cangjie!objectVars, Cangjie!eventVars
<1>13. \A api : Cangjie!TestFinished(api) => TestFinished(api)
  BY <1>4, <1>7, <1>8 DEF Cangjie!TestFinished, TestFinished, Cangjie!Queued, Queued, Cangjie!Moved, Moved,
     Cangjie!CheckSynchronous, CheckSynchronous, Cangjie!Reported, Reported, Cangjie!objectVars, objectVars,
     Cangjie!eventVars, eventVars
<1>14. \A api : Cangjie!SendFinish(api) => SendFinish(api)
  BY <1>11 DEF Cangjie!SendFinish, SendFinish, Cangjie!Answer, Answer, Cangjie!Moved, Moved,
     Cangjie!objectVars, objectVars, Cangjie!eventVars, eventVars
<1>15. \A api : \A c \in Cangjie!NextCall(api) : TypesOK => c = script[pc] /\ Calling(api)
  BY ScriptsAssumption, LenProperties DEF Cangjie!NextCall, Calling, TypesOK
<1> QED  BY <1>1, <1>2, <1>3, <1>4, <1>5, <1>6, <1>7, <1>8, <1>9, <1>10, <1>11, <1>12, <1>13, <1>14, <1>15

\* The calls on the result of the event held.
LEMMA CangjieResultCalls ==
  ASSUME TypesOK,
         Cangjie!SetCode \/ Cangjie!SetData \/ Cangjie!SetCodeAndData \/ Cangjie!AbortCommonEvent
         \/ Cangjie!ClearAbortCommonEvent \/ Cangjie!FinishCommonEvent \/ Cangjie!GetCode
         \/ Cangjie!GetData \/ Cangjie!GetAbortCommonEvent \/ Cangjie!IsOrderedCommonEvent_
         \/ Cangjie!IsStickyCommonEvent \/ Cangjie!GetSubscribeInfo
  PROVE  Step
<1>1. CASE Cangjie!SetCode
  <2>1. Cangjie!Invoke("setCode", Cangjie!CodeGiven, Cangjie!Code) => Invoked("setCode")
    BY CangjieShares DEF Cangjie!Invoke, Cangjie!Accepted, Invoked, Cangjie!objectVars,
       Cangjie!eventVars, Kept, HeldLess, SubscribeCalls, Cangjie!CodeGiven
  <2>2. Cangjie!Write("setCode", Cangjie!Code) => Worked
    BY CangjieShares DEF Cangjie!Write, Cangjie!Queued, Cangjie!Code, Cangjie!objectVars,
       Cangjie!eventVars, HeldLess, Worked, Assigned, NoVerdict
  <2> QED  BY <1>1, <2>1, <2>2, CangjieShares, ShapeIsStep DEF Cangjie!SetCode, Cangjie!Setter, Shape
<1>2. CASE Cangjie!SetData
  <2>1. Cangjie!Invoke("setData", Cangjie!DataGiven, Cangjie!DataOf) => Invoked("setData")
    BY CangjieShares DEF Cangjie!Invoke, Cangjie!Accepted, Invoked, Cangjie!objectVars,
       Cangjie!eventVars, Kept, HeldLess, SubscribeCalls, Cangjie!DataGiven
  <2>2. Cangjie!Write("setData", Cangjie!DataOf) => Worked
    BY CangjieShares DEF Cangjie!Write, Cangjie!Queued, Cangjie!DataOf, Cangjie!objectVars,
       Cangjie!eventVars, HeldLess, Worked, Assigned, NoVerdict
  <2> QED  BY <1>2, <2>1, <2>2, CangjieShares, ShapeIsStep DEF Cangjie!SetData, Cangjie!Setter, Shape
<1>3. CASE Cangjie!SetCodeAndData
  <2>1. Cangjie!Invoke("setCodeAndData", Cangjie!BothGiven, Cangjie!CodeAndData) =>
          Invoked("setCodeAndData")
    BY CangjieShares DEF Cangjie!Invoke, Cangjie!Accepted, Invoked, Cangjie!objectVars,
       Cangjie!eventVars, Kept, HeldLess, SubscribeCalls, Cangjie!BothGiven
  <2>2. Cangjie!Write("setCodeAndData", Cangjie!CodeAndData) => Worked
    BY CangjieShares DEF Cangjie!Write, Cangjie!Queued, Cangjie!CodeAndData, Cangjie!objectVars,
       Cangjie!eventVars, HeldLess, Worked, Assigned, NoVerdict
  <2> QED  BY <1>3, <2>1, <2>2, CangjieShares, ShapeIsStep DEF Cangjie!SetCodeAndData, Cangjie!Setter,
     Shape
<1>4. CASE Cangjie!AbortCommonEvent
  <2>1. Cangjie!Invoke("abort", Cangjie!Plain, Cangjie!Aborted) => Invoked("abort")
    BY CangjieShares DEF Cangjie!Invoke, Cangjie!Accepted, Invoked, Cangjie!objectVars,
       Cangjie!eventVars, Kept, HeldLess, SubscribeCalls, Cangjie!Plain
  <2>2. Cangjie!Write("abort", Cangjie!Aborted) => Worked
    BY CangjieShares DEF Cangjie!Write, Cangjie!Queued, Cangjie!Aborted, Cangjie!objectVars,
       Cangjie!eventVars, HeldLess, Worked, Assigned, NoVerdict
  <2> QED  BY <1>4, <2>1, <2>2, CangjieShares, ShapeIsStep DEF Cangjie!AbortCommonEvent, Cangjie!Setter,
     Shape
<1>5. CASE Cangjie!ClearAbortCommonEvent
  <2>1. Cangjie!Invoke("clearAbort", Cangjie!Plain, Cangjie!NotAborted) => Invoked("clearAbort")
    BY CangjieShares DEF Cangjie!Invoke, Cangjie!Accepted, Invoked, Cangjie!objectVars,
       Cangjie!eventVars, Kept, HeldLess, SubscribeCalls, Cangjie!Plain
  <2>2. Cangjie!Write("clearAbort", Cangjie!NotAborted) => Worked
    BY CangjieShares DEF Cangjie!Write, Cangjie!Queued, Cangjie!NotAborted, Cangjie!objectVars,
       Cangjie!eventVars, HeldLess, Worked, Assigned, NoVerdict
  <2> QED  BY <1>5, <2>1, <2>2, CangjieShares, ShapeIsStep DEF Cangjie!ClearAbortCommonEvent,
     Cangjie!Setter, Shape
<1>6. CASE Cangjie!FinishCommonEvent
  <2>1. Cangjie!Invoke("finish", Cangjie!Plain, Cangjie!NoMembers) => Invoked("finish")
    BY CangjieShares DEF Cangjie!Invoke, Cangjie!Accepted, Invoked, Cangjie!objectVars,
       Cangjie!eventVars, Kept, HeldLess, SubscribeCalls, Cangjie!Plain
  <2> QED  BY <1>6, <2>1, CangjieShares, ShapeIsStep DEF Cangjie!FinishCommonEvent, Cangjie!Finisher, Shape
<1>7. CASE Cangjie!GetCode
  <2>1. Cangjie!Invoke("getCode", Cangjie!Plain, Cangjie!NoMembers) => Invoked("getCode")
    BY CangjieShares DEF Cangjie!Invoke, Cangjie!Accepted, Invoked, Cangjie!objectVars,
       Cangjie!eventVars, Kept, HeldLess, SubscribeCalls, Cangjie!Plain
  <2>2. Cangjie!Read("getCode", Cangjie!ResultCode) => Worked
    BY CangjieShares DEF Cangjie!Read, Cangjie!Queued, Cangjie!objectVars, Cangjie!eventVars,
       HeldLess, Worked, Assigned
  <2> QED  BY <1>7, <2>1, <2>2, CangjieShares, ShapeIsStep DEF Cangjie!GetCode, Cangjie!Getter, Shape
<1>8. CASE Cangjie!GetData
  <2>1. Cangjie!Invoke("getData", Cangjie!Plain, Cangjie!NoMembers) => Invoked("getData")
    BY CangjieShares DEF Cangjie!Invoke, Cangjie!Accepted, Invoked, Cangjie!objectVars,
       Cangjie!eventVars, Kept, HeldLess, SubscribeCalls, Cangjie!Plain
  <2>2. Cangjie!Read("getData", Cangjie!ResultData) => Worked
    BY CangjieShares DEF Cangjie!Read, Cangjie!Queued, Cangjie!objectVars, Cangjie!eventVars,
       HeldLess, Worked, Assigned
  <2> QED  BY <1>8, <2>1, <2>2, CangjieShares, ShapeIsStep DEF Cangjie!GetData, Cangjie!Getter, Shape
<1>9. CASE Cangjie!GetAbortCommonEvent
  <2>1. Cangjie!Invoke("getAbort", Cangjie!Plain, Cangjie!NoMembers) => Invoked("getAbort")
    BY CangjieShares DEF Cangjie!Invoke, Cangjie!Accepted, Invoked, Cangjie!objectVars,
       Cangjie!eventVars, Kept, HeldLess, SubscribeCalls, Cangjie!Plain
  <2>2. Cangjie!Read("getAbort", Cangjie!ResultAbort) => Worked
    BY CangjieShares DEF Cangjie!Read, Cangjie!Queued, Cangjie!objectVars, Cangjie!eventVars,
       HeldLess, Worked, Assigned
  <2> QED  BY <1>9, <2>1, <2>2, CangjieShares, ShapeIsStep DEF Cangjie!GetAbortCommonEvent, Cangjie!Getter,
     Shape
<1>10. CASE Cangjie!IsOrderedCommonEvent_
  <2>1. Cangjie!Invoke("isOrdered", Cangjie!Plain, Cangjie!NoMembers) => Invoked("isOrdered")
    BY CangjieShares DEF Cangjie!Invoke, Cangjie!Accepted, Invoked, Cangjie!objectVars,
       Cangjie!eventVars, Kept, HeldLess, SubscribeCalls, Cangjie!Plain
  <2>2. Cangjie!Read("isOrdered", Cangjie!ResultOrdered) => Worked
    BY CangjieShares DEF Cangjie!Read, Cangjie!Queued, Cangjie!objectVars, Cangjie!eventVars,
       HeldLess, Worked, Assigned
  <2> QED  BY <1>10, <2>1, <2>2, CangjieShares, ShapeIsStep DEF Cangjie!IsOrderedCommonEvent_,
     Cangjie!Getter, Shape
<1>11. CASE Cangjie!IsStickyCommonEvent
  <2>1. Cangjie!Invoke("isSticky", Cangjie!Plain, Cangjie!NoMembers) => Invoked("isSticky")
    BY CangjieShares DEF Cangjie!Invoke, Cangjie!Accepted, Invoked, Cangjie!objectVars,
       Cangjie!eventVars, Kept, HeldLess, SubscribeCalls, Cangjie!Plain
  <2>2. Cangjie!Read("isSticky", Cangjie!ResultSticky) => Worked
    BY CangjieShares DEF Cangjie!Read, Cangjie!Queued, Cangjie!objectVars, Cangjie!eventVars,
       HeldLess, Worked, Assigned
  <2> QED  BY <1>11, <2>1, <2>2, CangjieShares, ShapeIsStep DEF Cangjie!IsStickyCommonEvent,
     Cangjie!Getter, Shape
<1>12. CASE Cangjie!GetSubscribeInfo
  <2>1. Cangjie!Invoke("getSubscribeInfo", Cangjie!Plain, Cangjie!NoMembers) =>
          Invoked("getSubscribeInfo")
    BY CangjieShares DEF Cangjie!Invoke, Cangjie!Accepted, Invoked, Cangjie!objectVars,
       Cangjie!eventVars, Kept, HeldLess, SubscribeCalls, Cangjie!Plain
  <2>2. Cangjie!Read("getSubscribeInfo", Cangjie!GetSubscribeInfoId) => Worked
    BY CangjieShares DEF Cangjie!Read, Cangjie!Queued, Cangjie!objectVars, Cangjie!eventVars,
       HeldLess, Worked, Assigned
  <2> QED  BY <1>12, <2>1, <2>2, CangjieShares, ShapeIsStep DEF Cangjie!GetSubscribeInfo, Cangjie!Getter,
     Shape
<1> QED  BY <1>1, <1>2, <1>3, <1>4, <1>5, <1>6, <1>7, <1>8, <1>9, <1>10, <1>11, <1>12

\* The requests to the library.
LEMMA CangjieRequests ==
  ASSUME TypesOK,
         Cangjie!CJ_PublishEvent \/ Cangjie!RemoveStickyCommonEvent
         \/ Cangjie!SetStaticSubscriberState
  PROVE  Step
<1>1. CASE Cangjie!CJ_PublishEvent
  <2>1. \A argv : Reporting(Cangjie!PublicationGiven(argv))
    BY DEF Reporting, Cangjie!PublicationGiven, Cangjie!PublishEvent, Cangjie!PublishEventWithData
  <2>2. Invoked("publishAsUser") \/ Worked \/ Completed
    BY <1>1, CangjieShares, <2>1 DEF Cangjie!CJ_PublishEvent, Cangjie!Request, Cangjie!Queued,
       Invoked, Worked, Assigned, Cangjie!objectVars, Cangjie!eventVars, Kept, HeldLess,
       SubscribeCalls, Reporting
  <2> QED  BY <1>1, <2>1, <2>2, ShapeIsStep DEF Shape
<1>2. CASE Cangjie!RemoveStickyCommonEvent
  <2>1. \A argv : Reporting(Cangjie!StickyGiven(argv))
    BY DEF Reporting, Cangjie!StickyGiven
  <2>2. Invoked("removeSticky") \/ Worked \/ Completed
    BY <1>2, CangjieShares, <2>1 DEF Cangjie!RemoveStickyCommonEvent, Cangjie!Request,
       Cangjie!Queued, Invoked, Worked, Assigned, Cangjie!objectVars, Cangjie!eventVars, Kept,
       HeldLess, SubscribeCalls, Reporting
  <2> QED  BY <1>2, <2>1, <2>2, ShapeIsStep DEF Shape
<1>3. CASE Cangjie!SetStaticSubscriberState
  <2>1. \A argv : Reporting(Cangjie!StateGiven(argv))
    BY DEF Reporting, Cangjie!StateGiven
  <2>2. Invoked("setStaticSubscriberState") \/ Worked \/ Completed
    BY <1>3, CangjieShares, <2>1 DEF Cangjie!SetStaticSubscriberState, Cangjie!Request,
       Cangjie!Queued, Invoked, Worked, Assigned, Cangjie!objectVars, Cangjie!eventVars, Kept,
       HeldLess, SubscribeCalls, Reporting
  <2> QED  BY <1>3, <2>1, <2>2, ShapeIsStep DEF Shape
<1> QED  BY <1>1, <1>2, <1>3

\* Subscribers are created, subscribed and forgotten.
LEMMA CangjieSubscribers ==
  ASSUME TypesOK, binding = "cangjie",
         Cangjie!CreateSubscriber \/ Cangjie!CreateSubscriberFromContents
         \/ Cangjie!ReleaseSubscribeManager \/ Cangjie!Subscribe \/ Cangjie!SetCallback
         \/ Cangjie!SetSubscribeInfo \/ Cangjie!Unsubscribe \/ Cangjie!DeleteSubscribe
  PROVE  Step
<1>1. CASE Cangjie!CreateSubscriber
  <2>1. Replied("createSubscriber")
    BY <1>1, CangjieShares DEF Cangjie!CreateSubscriber, Cangjie!TakeCallbackBack,
       Cangjie!RemoveEntry, Replied, Assigned, Cangjie!objectVars, Cangjie!eventVars, Kept,
       HeldLess
  <2> QED  BY <1>1, <2>1, ShapeIsStep DEF Shape
<1>2. CASE Cangjie!CreateSubscriberFromContents
  <2>1. Replied("createSubscriberSync")
    BY <1>2, CangjieShares DEF Cangjie!CreateSubscriberFromContents, Replied, Assigned,
       Cangjie!objectVars, Cangjie!eventVars, Kept, HeldLess
  <2> QED  BY <1>2, <2>1, ShapeIsStep DEF Shape
<1>3. CASE Cangjie!ReleaseSubscribeManager
  <2>1. Replied("drop")
    BY <1>3, CangjieShares DEF Cangjie!ReleaseSubscribeManager, Replied, Assigned,
       Cangjie!objectVars, Cangjie!eventVars, Kept, HeldLess
  <2> QED  BY <1>3, <2>1, ShapeIsStep DEF Shape
<1>4. CASE Cangjie!Subscribe
  <2>1. Cangjie!CallOn("subscribe") => Invoked("subscribe")
    BY CangjieShares, ObjectNamed DEF Cangjie!CallOn, Invoked, SubscribeCalls, Cangjie!objectVars,
       Cangjie!eventVars, Kept, HeldLess
  <2>2. UNCHANGED <<events, instances>> => SameResults /\ HeldLess
    BY Unchanged DEF TypesOK, HeldLess
  <2>3. \/ Cangjie!CallOn("subscribe") \/ Completed
         \/ \E w \in works : Ran(w, "subscribed") \/ Ran(w, "executed")
    BY <1>4, <2>2, CangjieShares, OutcomeRecords DEF Cangjie!Subscribe, Cangjie!Queued,
       Cangjie!eventVars, Cangjie!Moved, Ran, Quiet, SubscribeCalls
  <2> QED  BY <1>4, <2>1, <2>2, <2>3, ShapeIsStep DEF Shape, Step, WorkAt
<1>5. CASE Cangjie!SetCallback
  <2>1. SameResults /\ HeldLess
    BY <1>5, Unchanged DEF Cangjie!SetCallback, Cangjie!StepOf, Cangjie!eventVars, TypesOK,
       HeldLess
  <2>2. \E w \in works : Ran(w, "callback")
    BY <1>5, <2>1 DEF Cangjie!SetCallback, Cangjie!StepOf, Cangjie!At, Cangjie!eventVars,
       Cangjie!Moved, Ran, Quiet
  <2> QED  BY <1>5, <2>1, <2>2 DEF Step, WorkAt
<1>6. CASE Cangjie!SetSubscribeInfo
  <2>1. SameResults /\ HeldLess
    BY <1>6, CangjieShares, Unchanged DEF Cangjie!SetSubscribeInfo, Cangjie!StepOf,
       Cangjie!eventVars, Cangjie!SubscriberInserted, Cangjie!Over, Cangjie!Entry, TypesOK,
       HeldLess
  <2>2. \E w \in works : Ran(w, "executed")
    BY <1>6, <2>1 DEF Cangjie!SetSubscribeInfo, Cangjie!StepOf, Cangjie!At, Cangjie!eventVars,
       Cangjie!Moved, Ran, Quiet
  <2> QED  BY <1>6, <2>1, <2>2 DEF Step, WorkAt
<1>7. CASE Cangjie!Unsubscribe
  <2>1. Cangjie!CallOn("unsubscribe") => Invoked("unsubscribe")
    BY CangjieShares DEF Cangjie!CallOn, Invoked, SubscribeCalls, Cangjie!objectVars,
       Cangjie!eventVars, Kept, HeldLess
  <2>2. UNCHANGED <<events, instances>> => SameResults /\ HeldLess
    BY Unchanged DEF TypesOK, HeldLess
  <2>3. \/ Cangjie!CallOn("unsubscribe") \/ Completed
         \/ \E w \in works : Ran(w, "unsubscribed")
    BY <1>7, <2>2, CangjieShares, OutcomeRecords DEF Cangjie!Unsubscribe, Cangjie!Queued,
       Cangjie!eventVars, Cangjie!Moved, Ran, Quiet, SubscribeCalls
  <2> QED  BY <1>7, <2>1, <2>2, <2>3, ShapeIsStep DEF Shape, Step, WorkAt
<1>8. CASE Cangjie!DeleteSubscribe
  <2>1. SameResults /\ HeldLess
    BY <1>8, Unchanged DEF Cangjie!DeleteSubscribe, Cangjie!StepOf, Cangjie!eventVars,
       Cangjie!RemoveEntry, TypesOK, HeldLess
  <2>2. \E w \in works : Ran(w, "executed")
    BY <1>8, <2>1 DEF Cangjie!DeleteSubscribe, Cangjie!StepOf, Cangjie!At, Cangjie!eventVars,
       Cangjie!Moved, Ran, Quiet
  <2> QED  BY <1>8, <2>1, <2>2 DEF Step, WorkAt
<1> QED  BY <1>1, <1>2, <1>3, <1>4, <1>5, <1>6, <1>7, <1>8

\* An event is received.
LEMMA CangjieReceives ==
  ASSUME TypesOK, binding = "cangjie",
         Cangjie!SetPublishResult \/ Cangjie!OnReceiveEvent \/ Cangjie!CallOfEmptyCallback
  PROVE  Step
<1>1. CASE Cangjie!SetPublishResult
  <2>1. UNCHANGED <<events, instances>> => SameResults /\ HeldLess
    BY Unchanged DEF TypesOK, HeldLess
  <2>2. TookOver \/ WentOn
    BY <1>1, <2>1 DEF Cangjie!SetPublishResult, Cangjie!IsOrderedCommonEvent,
       Cangjie!GoAsyncCommonEvent, IsOrderedCommonEvent, Cangjie!runtime, TookOver, GoneOver,
       WentOn, Quiet
  <2> QED  BY <1>1, <2>1, <2>2 DEF Step
<1>2. CASE Cangjie!OnReceiveEvent
  <2>1. SameResults /\ HeldLess
    BY <1>2, Unchanged DEF Cangjie!OnReceiveEvent, TypesOK, HeldLess, Cangjie!objectVars,
       Cangjie!eventVars
  <2>2. WentOn
    BY <1>2, <2>1 DEF Cangjie!OnReceiveEvent, Cangjie!objectVars, Cangjie!eventVars,
       Cangjie!runtime, WentOn, Quiet
  <2> QED  BY <1>2, <2>1, <2>2 DEF Step
<1>3. CASE Cangjie!CallOfEmptyCallback
  <2>1. SameResults /\ HeldLess
    BY <1>3, Unchanged DEF Cangjie!CallOfEmptyCallback, TypesOK, HeldLess
  <2>2. Ended
    BY <1>3, <2>1 DEF Cangjie!CallOfEmptyCallback, Ended, Quiet
  <2> QED  BY <1>3, <2>1, <2>2 DEF Step
<1> QED  BY <1>1, <1>2, <1>3

\* Every step of the binding is of one of the kinds.
LEMMA CangjieIsStep == TypesOK /\ binding = "cangjie" /\ Cangjie!CangjieNext => Step
BY CangjieResultCalls, CangjieRequests, CangjieSubscribers, CangjieReceives DEF
   Cangjie!CangjieNext

-----------------------------------------------------------------------------
(* The C interface *)

\* What the bindings share is the same in this one as in the others (NapiCommonEvent to OhCommonEvent extend ScriptBinding).
LEMMA NativeShares ==
  /\ \A api : \A c \in Native!NextCall(api) : TypesOK => c = script[pc] /\ Calling(api)
  /\ Native!Refuse => Refuse
  /\ \A f, g : Native!Over(f, g) = Over(f, g)
  /\ \A x, v : Native!Entry(x, v) = Entry(x, v)
  /\ \A ok, out, e : Native!Return(ok, out, e) => Return(ok, out, e)
  /\ \A c, sub, p : Native!Submit(c, sub, p) => Submit(c, sub, p)
  /\ \A o : Native!GetAsyncResult(o) = GetAsyncResult(o)
  /\ \A i, ok, out, e : Native!Outcome(i, ok, out, e) => Outcome(i, ok, out, e)
  /\ \A w, ok, out : Native!Execute(w, ok, out) => Execute(w, ok, out)
  /\ \A w : Native!Settle(w) => Settle(w)
  /\ \A w : Native!Forget(w) => Forget(w)
  /\ \A e, m : Native!Assign(e, m) => Assign(e, m)
  /\ \A api : Native!Complete(api) => Completed
  /\ \A api : Native!TestFinished(api) => TestFinished(api)
  /\ \A api : Native!SendFinish(api) => SendFinish(api)
<1>1. Native!Refuse => Refuse
  BY DEF Native!Refuse, Refuse, Native!runtime, runtime
<1>2. \A f, g : Native!Over(f, g) = Over(f, g)
  BY DEF Native!Over, Over
<1>3. \A x, v : Native!Entry(x, v) = Entry(x, v)
  BY DEF Native!Entry, Entry
<1>4. \A i, ok, out, e : Native!Outcome(i, ok, out, e) => Outcome(i, ok, out, e)
  BY <1>2, <1>3 DEF Native!Outcome, Outcome
<1>5. \A ok, out, e : Native!Return(ok, out, e) => Return(ok, out, e)
  BY <1>4 DEF Native!Return, Return
<1>6. \A c, sub, p : Native!Submit(c, sub, p) => Submit(c, sub, p)
  BY DEF Native!Submit, Submit
<1>7. \A o : Native!GetAsyncResult(o) = GetAsyncResult(o)
  BY DEF Native!GetAsyncResult, GetAsyncResult
<1>8. \A w, ok, out : Native!Execute(w, ok, out) => Execute(w, ok, out)
  BY <1>4, <1>7 DEF Native!Execute, Execute, Native!Moved, Moved
<1>9. \A w : Native!Settle(w) => Settle(w)
  BY DEF Native!Settle, Settle
<1>10. \A w : Native!Forget(w) => Forget(w)
  BY DEF Native!Forget, Forget
<1>11. \A e, m : Native!Assign(e, m) => Assign(e, m)
  BY <1>2 DEF Native!Assign, Assign
<1>12. \A api : Native!Complete(api) => Completed
  BY <1>9 DEF Native!Complete, Native!Executed, Completed, Kept, HeldLess, Native!objectVars, Native!eventVars
<1>13. \A api : Native!TestFinished(api) => TestFinished(api)
  BY <1>4, <1>7, <1>8 DEF Native!TestFinished, TestFinished, Native!Queued, Queued, Native!Moved, Moved,
     Native!CheckSynchronous, CheckSynchronous, Native!Reported, Reported, Native!objectVars, objectVars,
     Native!eventVars, eventVars
<1>14. \A api : Native!SendFinish(api) => SendFinish(api)
  BY <1>11 DEF Native!SendFinish, SendFinish, Native!Answer, Answer, Native!Moved, Moved,
     Native!objectVars, objectVars, Native!eventVars, eventVars
<1>15. \A api : \A c \in Native!NextCall(api) : TypesOK => c = script[pc] /\ Calling(api)
  BY ScriptsAssumption, LenProperties DEF Native!NextCall, Calling, TypesOK
<1> QED  BY <1>1, <1>2, <1>3, <1>4, <1>5, <1>6, <1>7, <1>8, <1>9, <1>10, <1>11, <1>12, <1>13, <1>14, <1>15

\* The calls on the result of the event held.
LEMMA NativeResultCalls ==
  ASSUME TypesOK,
         Native!OH_CommonEvent_SetCodeToSubscriber \/ Native!OH_CommonEvent_SetDataToSubscriber
         \/ Native!OH_CommonEvent_AbortCommonEvent \/ Native!OH_CommonEvent_ClearAbortCommonEvent
         \/ Native!OH_CommonEvent_FinishCommonEvent
         \/ Native!OH_CommonEvent_GetCodeFromSubscriber
         \/ Native!OH_CommonEvent_GetDataFromSubscriber
         \/ Native!OH_CommonEvent_GetAbortCommonEvent
         \/ Native!OH_CommonEvent_IsOrderedCommonEvent
  PROVE  Step
<1>1. CASE Native!OH_CommonEvent_SetCodeToSubscriber
  <2>1. Native!Invoke("setCode", Native!CodeGiven, Native!Code) => Invoked("setCode")
    BY NativeShares DEF Native!Invoke, Native!Accepted, Invoked, Native!objectVars,
       Native!eventVars, Kept, HeldLess, SubscribeCalls, Native!CodeGiven
  <2>2. Native!Write("setCode", Native!Code) => Worked
    BY NativeShares DEF Native!Write, Native!Queued, Native!Code, Native!objectVars,
       Native!eventVars, HeldLess, Worked, Assigned, NoVerdict
  <2> QED  BY <1>1, <2>1, <2>2, NativeShares, ShapeIsStep DEF Native!OH_CommonEvent_SetCodeToSubscriber,
     Native!Setter, Shape
<1>2. CASE Native!OH_CommonEvent_SetDataToSubscriber
  <2>1. Native!Invoke("setData", Native!DataGiven, Native!DataOf) => Invoked("setData")
    BY NativeShares DEF Native!Invoke, Native!Accepted, Invoked, Native!objectVars,
       Native!eventVars, Kept, HeldLess, SubscribeCalls, Native!DataGiven
  <2>2. Native!Write("setData", Native!DataOf) => Worked
    BY NativeShares DEF Native!Write, Native!Queued, Native!DataOf, Native!objectVars,
       Native!eventVars, HeldLess, Worked, Assigned, NoVerdict
  <2> QED  BY <1>2, <2>1, <2>2, NativeShares, ShapeIsStep DEF Native!OH_CommonEvent_SetDataToSubscriber,
     Native!Setter, Shape
<1>3. CASE Native!OH_CommonEvent_AbortCommonEvent
  <2>1. Native!Invoke("abort", Native!Plain, Native!Aborted) => Invoked("abort")
    BY NativeShares DEF Native!Invoke, Native!Accepted, Invoked, Native!objectVars,
       Native!eventVars, Kept, HeldLess, SubscribeCalls, Native!Plain
  <2>2. Native!Write("abort", Native!Aborted) => Worked
    BY NativeShares DEF Native!Write, Native!Queued, Native!Aborted, Native!objectVars,
       Native!eventVars, HeldLess, Worked, Assigned, NoVerdict
  <2> QED  BY <1>3, <2>1, <2>2, NativeShares, ShapeIsStep DEF Native!OH_CommonEvent_AbortCommonEvent,
     Native!Setter, Shape
<1>4. CASE Native!OH_CommonEvent_ClearAbortCommonEvent
  <2>1. Native!Invoke("clearAbort", Native!Plain, Native!NotAborted) => Invoked("clearAbort")
    BY NativeShares DEF Native!Invoke, Native!Accepted, Invoked, Native!objectVars,
       Native!eventVars, Kept, HeldLess, SubscribeCalls, Native!Plain
  <2>2. Native!Write("clearAbort", Native!NotAborted) => Worked
    BY NativeShares DEF Native!Write, Native!Queued, Native!NotAborted, Native!objectVars,
       Native!eventVars, HeldLess, Worked, Assigned, NoVerdict
  <2> QED  BY <1>4, <2>1, <2>2, NativeShares, ShapeIsStep DEF Native!OH_CommonEvent_ClearAbortCommonEvent,
     Native!Setter, Shape
<1>5. CASE Native!OH_CommonEvent_FinishCommonEvent
  <2>1. Native!Invoke("finish", Native!Plain, Native!NoMembers) => Invoked("finish")
    BY NativeShares DEF Native!Invoke, Native!Accepted, Invoked, Native!objectVars,
       Native!eventVars, Kept, HeldLess, SubscribeCalls, Native!Plain
  <2> QED  BY <1>5, <2>1, NativeShares, ShapeIsStep DEF Native!OH_CommonEvent_FinishCommonEvent,
     Native!Finisher, Shape
<1>6. CASE Native!OH_CommonEvent_GetCodeFromSubscriber
  <2>1. Native!Invoke("getCode", Native!Plain, Native!NoMembers) => Invoked("getCode")
    BY NativeShares DEF Native!Invoke, Native!Accepted, Invoked, Native!objectVars,
       Native!eventVars, Kept, HeldLess, SubscribeCalls, Native!Plain
  <2>2. Native!Read("getCode", Native!ResultCode) => Worked
    BY NativeShares DEF Native!Read, Native!Queued, Native!objectVars, Native!eventVars, HeldLess,
       Worked, Assigned
  <2> QED  BY <1>6, <2>1, <2>2, NativeShares, ShapeIsStep DEF Native!OH_CommonEvent_GetCodeFromSubscriber,
     Native!Getter, Shape
<1>7. CASE Native!OH_CommonEvent_GetDataFromSubscriber
  <2>1. Native!Invoke("getData", Native!Plain, Native!NoMembers) => Invoked("getData")
    BY NativeShares DEF Native!Invoke, Native!Accepted, Invoked, Native!objectVars,
       Native!eventVars, Kept, HeldLess, SubscribeCalls, Native!Plain
  <2>2. Native!Read("getData", Native!ResultData) => Worked
    BY NativeShares DEF Native!Read, Native!Queued, Native!objectVars, Native!eventVars, HeldLess,
       Worked, Assigned
  <2> QED  BY <1>7, <2>1, <2>2, NativeShares, ShapeIsStep DEF Native!OH_CommonEvent_GetDataFromSubscriber,
     Native!Getter, Shape
<1>8. CASE Native!OH_CommonEvent_GetAbortCommonEvent
  <2>1. Native!Invoke("getAbort", Native!Plain, Native!NoMembers) => Invoked("getAbort")
    BY NativeShares DEF Native!Invoke, Native!Accepted, Invoked, Native!objectVars,
       Native!eventVars, Kept, HeldLess, SubscribeCalls, Native!Plain
  <2>2. Native!Read("getAbort", Native!ResultAbort) => Worked
    BY NativeShares DEF Native!Read, Native!Queued, Native!objectVars, Native!eventVars, HeldLess,
       Worked, Assigned
  <2> QED  BY <1>8, <2>1, <2>2, NativeShares, ShapeIsStep DEF Native!OH_CommonEvent_GetAbortCommonEvent,
     Native!Getter, Shape
<1>9. CASE Native!OH_CommonEvent_IsOrderedCommonEvent
  <2>1. Native!Invoke("isOrdered", Native!Plain, Native!NoMembers) => Invoked("isOrdered")
    BY NativeShares DEF Native!Invoke, Native!Accepted, Invoked, Native!objectVars,
       Native!eventVars, Kept, HeldLess, SubscribeCalls, Native!Plain
  <2>2. Native!Read("isOrdered", Native!ResultOrdered) => Worked
    BY NativeShares DEF Native!Read, Native!Queued, Native!objectVars, Native!eventVars, HeldLess,
       Worked, Assigned
  <2> QED  BY <1>9, <2>1, <2>2, NativeShares, ShapeIsStep DEF Native!OH_CommonEvent_IsOrderedCommonEvent,
     Native!Getter, Shape
<1> QED  BY <1>1, <1>2, <1>3, <1>4, <1>5, <1>6, <1>7, <1>8, <1>9

\* The requests to the library.
LEMMA NativeRequests ==
  ASSUME TypesOK,
         Native!OH_CommonEvent_Publish
  PROVE  Step
<1>1. CASE Native!OH_CommonEvent_Publish
  <2>1. Invoked("publish") \/ Worked \/ Completed
    BY <1>1, NativeShares DEF Native!OH_CommonEvent_Publish, Native!Request, Native!Queued,
       Invoked, Worked, Assigned, Native!objectVars, Native!eventVars, Kept, HeldLess,
       SubscribeCalls
  <2> QED  BY <1>1, <2>1, ShapeIsStep DEF Shape
<1> QED  BY <1>1

\* Subscribers are created, subscribed and forgotten.
LEMMA NativeSubscribers ==
  ASSUME TypesOK,
         Native!CreateSubscriber \/ Native!DestroySubscriber \/ Native!Subscribe
         \/ Native!UnSubscribe
  PROVE  Step
<1>1. CASE Native!CreateSubscriber
  <2>1. Replied("createSubscriber")
    BY <1>1, NativeShares DEF Native!CreateSubscriber, Replied, Assigned, Native!objectVars,
       Native!eventVars, Kept, HeldLess
  <2> QED  BY <1>1, <2>1, ShapeIsStep DEF Shape
<1>2. CASE Native!DestroySubscriber
  <2>1. Replied("drop")
    BY <1>2, NativeShares DEF Native!DestroySubscriber, Replied, Assigned, Native!objectVars,
       Native!eventVars, Kept, HeldLess
  <2> QED  BY <1>2, <2>1, ShapeIsStep DEF Shape
<1>3. CASE Native!Subscribe
  <2>1. Native!SubscribeCall => Invoked("subscribe")
    BY NativeShares, ObjectNamed DEF Native!SubscribeCall, Native!CallOn, Native!Is, Native!Arg,
       Native!Undefined, Is, Arg, Undefined, Invoked, SubscribeCalls, Native!objectVars,
       Native!eventVars, Kept, HeldLess
  <2>2. UNCHANGED events => SameResults
    BY Unchanged DEF TypesOK
  <2>3. \A w, ok : Native!Outcome(w.call, ok, 0, 0) => Recorded(w.call)
    BY NativeShares, OutcomeRecords
  <2>4. Native!Complete("subscribe") => Completed
    BY NativeShares
  <2>5. ~Native!SubscribeCall =>
          Completed \/ \E w \in works : Ran(w, "subscribed") \/ Ran(w, "executed")
    BY <1>3, <2>2, <2>3, <2>4 DEF Native!Subscribe, Native!Queued, Native!eventVars, Native!Moved,
       Native!SubscriberInserted, Native!Over, Native!Entry, Ran, Quiet, HeldLess, SubscribeCalls
  <2> QED  BY <1>3, <2>1, <2>2, <2>3, <2>4, <2>5, ShapeIsStep DEF Shape, Step, WorkAt
<1>4. CASE Native!UnSubscribe
  <2>1. Native!UnSubscribeCall => Invoked("unsubscribe")
    BY NativeShares, ObjectNamed DEF Native!UnSubscribeCall, Native!CallOn, Native!Is, Native!Arg,
       Native!Undefined, Is, Arg, Undefined, Invoked, SubscribeCalls, Native!objectVars,
       Native!eventVars, Kept, HeldLess
  <2>2. UNCHANGED events => SameResults
    BY Unchanged DEF TypesOK
  <2>3. \A w, ok : Native!Outcome(w.call, ok, 0, 0) => Recorded(w.call)
    BY NativeShares, OutcomeRecords
  <2>4. Native!Complete("unsubscribe") => Completed
    BY NativeShares
  <2>5. ~Native!UnSubscribeCall =>
          Completed \/ \E w \in works : Ran(w, "unsubscribed") \/ Ran(w, "executed")
    BY <1>4, <2>2, <2>3, <2>4 DEF Native!UnSubscribe, Native!Queued, Native!eventVars,
       Native!Moved, Native!SubscriberInserted, Native!Over, Native!Entry, Ran, Quiet, HeldLess,
       SubscribeCalls
  <2> QED  BY <1>4, <2>1, <2>2, <2>3, <2>4, <2>5, ShapeIsStep DEF Shape, Step, WorkAt
<1> QED  BY <1>1, <1>2, <1>3, <1>4

\* An event is received.
LEMMA NativeReceives ==
  ASSUME TypesOK, binding = "native",
         Native!SetAsyncResult \/ Native!OnReceiveEvent
  PROVE  Step
<1>1. CASE Native!SetAsyncResult
  <2>1. UNCHANGED <<events, instances>> => SameResults /\ HeldLess
    BY Unchanged DEF TypesOK, HeldLess
  <2>2. TookOver \/ WentOn
    BY <1>1, <2>1 DEF Native!SetAsyncResult, Native!IsOrderedCommonEvent,
       Native!GoAsyncCommonEvent, IsOrderedCommonEvent, Native!runtime, TookOver, GoneOver,
       WentOn, Quiet
  <2> QED  BY <1>1, <2>1, <2>2 DEF Step
<1>2. CASE Native!OnReceiveEvent
  <2>1. SameResults /\ HeldLess
    BY <1>2, Unchanged DEF Native!OnReceiveEvent, TypesOK, HeldLess, Native!objectVars,
       Native!eventVars
  <2>2. WentOn
    BY <1>2, <2>1 DEF Native!OnReceiveEvent, Native!objectVars, Native!eventVars, Native!runtime,
       WentOn, Quiet
  <2> QED  BY <1>2, <2>1, <2>2 DEF Step
<1> QED  BY <1>1, <1>2

\* Every step of the binding is of one of the kinds.
LEMMA NativeIsStep == TypesOK /\ binding = "native" /\ Native!NativeNext => Step
BY NativeResultCalls, NativeRequests, NativeSubscribers, NativeReceives DEF Native!NativeNext

-----------------------------------------------------------------------------
(* The theorems *)

\* The invariant holds at first.
LEMMA InitBindInv == Init => BindInv
<1> SUFFICES ASSUME Init
             PROVE  BindInv
  OBVIOUS
<1>1. /\ pc = 1 /\ works = {} /\ outcome = <<>> /\ instances = <<>> /\ listening = {} /\ events = <<>>
      /\ result_ = [o \in Object |-> 0] /\ receiving = <<>> /\ answers = {}
      /\ binding \in Binding /\ script \in SCRIPTS[binding]
  BY DEF Init, SBInit
<1>2. EventsOK /\ Len(events) = 0
  BY <1>1 DEF EventsOK
<1>3. TypesOK
  BY <1>1, <1>2 DEF TypesOK
<1>4. ResultsOK /\ HeldOK /\ AnswersOK /\ WorksOK /\ FinishingOK /\ AnsweredOnce /\ PromisesKept
  BY <1>1 DEF ResultsOK, HeldOK, AnswersOK, WorksOK, FinishingOK, AnsweredOnce, PromisesKept
<1> QED  BY <1>3, <1>4 DEF BindInv

\* Every step is of one of the kinds.
LEMMA NextIsStep == TypesOK /\ Next => Step
<1> SUFFICES ASSUME TypesOK, Next
             PROVE  Step
  OBVIOUS
<1>1. CASE EnvExit
  <2>1. SameResults /\ HeldLess
    BY <1>1, Unchanged DEF EnvExit, TypesOK, HeldLess
  <2>2. Ended
    BY <1>1, <2>1 DEF EnvExit, Ended, Quiet
  <2> QED  BY <2>2 DEF Step
<1>2. CASE Deliver \/ EndReceive
  BY <1>2 DEF Step
<1> QED  BY <1>1, <1>2, NewIsStep, LegacyIsStep, StaticIsStep, CangjieIsStep, NativeIsStep DEF Next

\* Every kind keeps the invariant.
LEMMA StepKeeps == BindInv /\ Step => BindInv'
BY MadeKeeps, RanKeeps, TestedKeeps, SentKeeps, DoneKeeps, EnteredKeeps, TookOverKeeps, WentOnKeeps, EndedKeeps,
   ElsewhereKeeps, DeliverKeeps, EndReceiveKeeps DEF Step

\* The invariant of the bindings, whatever scripts run: results, works and answers fit together as
\* TypesOK, ResultsOK, HeldOK, AnswersOK, WorksOK and FinishingOK say.
THEOREM BindingsInvariance == Spec => []BindInv
<1>1. BindInv /\ [Next]_sbVars => BindInv'
  <2>1. BindInv /\ Next => BindInv'
    BY NextIsStep, StepKeeps DEF BindInv
  <2>2. BindInv /\ UNCHANGED sbVars => BindInv'
    BY ElsewhereKeeps DEF sbVars, Elsewhere
  <2> QED  BY <2>1, <2>2
<1> QED  BY <1>1, InitBindInv, PTL DEF Spec

\* An ordered event is answered by the script or by the listener, never by both, and by a script
\* that waits for its calls only once (FinishCommonEvent, GoAsyncCommonEvent, the listener after
\* OnReceiveEvent), in every binding and for any scripts, subscribers and events.
THEOREM AnsweredOnceHolds == Spec => []AnsweredOnce
<1>1. BindInv => AnsweredOnce
  BY DEF BindInv
<1> QED  BY <1>1, BindingsInvariance, PTL

\* Every call whose work has run reports to the script, or is one that never does (the completions
\* of the bindings), in every binding and for any scripts.
THEOREM PromisesKeptHolds == Spec => []PromisesKept
<1>1. BindInv => PromisesKept
  BY DEF BindInv
<1> QED  BY <1>1, BindingsInvariance, PTL

=============================================================================
