------------------------ MODULE StaticConnectionProofs ------------------------
(***************************************************************************)
(* Proofs about StaticConnection, for any number of extensions, events and *)
(* connections and any delay.  ConnectionInv is inductive and implies that *)
(* a connection delivers in order of arrival.  DroppingOK is inductive on   *)
(* top of it and follows a disconnection through its steps: what waits in  *)
(* a live connection is not lost, and an extension that was connected at   *)
(* the test is not cut while it has something to do or within the delay of *)
(* its last event, whatever callback or task runs in between.              *)
(***************************************************************************)
EXTENDS StaticConnection, TLAPS, SequenceTheorems, FiniteSetTheorems

(***************************************************************************)
(* The inductive invariant                                                 *)
(***************************************************************************)

Conns == 1..Len(created)
Latest == Len(actionOf)     \* the number of the latest event

Timer == [conn : Conns, action : Action \cup {NoAction}, event : Nat, left : 0..Delay]

ConnectionsTyped ==
  /\ actionOf \in Seq(Action) /\ created \in Seq(Key)
  /\ subscriberConnection \in [Key -> {0} \cup Conns]
  /\ \A k \in Key : subscriberConnection[k] # 0 => created[subscriberConnection[k]] = k
  /\ extension \in [Conns -> {"connecting", "up", "failed", "dead"}]
  /\ proxy \in SUBSET Conns
  /\ events \in [Conns -> Seq(Nat)] /\ notifyQueue \in [Conns -> Seq(Nat)]
  /\ action \in [Conns -> [Action -> Nat]]
  /\ calling \in [Conns -> Nat]
  /\ idle \in [Conns -> 0..Delay]
  /\ timers \in SUBSET Timer
  /\ delivered \in Seq(Nat \X Conns)

\* The events a connection is through with, as far as anybody remembers them.
EndedOf(c) ==
  {delivered[i][1] : i \in {j \in DOMAIN delivered : delivered[j][2] = c}}
  \cup {t.event : t \in {u \in timers : u.conn = c}}

Increasing(s) == \A i, j \in DOMAIN s : i < j => s[i] < s[j]

\* The events of a connection stand in line in the order of their arrival: the
\* ended ones, the one being notified, the submitted ones, the cached ones.
InLine(ended, current, queue, cached, n) ==
  /\ current \in 0..n
  /\ Increasing(queue) /\ Increasing(cached)
  /\ \A e \in ended : e \in 0..n /\ (current # 0 => e < current)
  /\ \A i \in DOMAIN queue : queue[i] \in 1..n /\ current < queue[i] /\ \A e \in ended : e < queue[i]
  /\ \A i \in DOMAIN cached :
       /\ cached[i] \in 1..n /\ current < cached[i]
       /\ \A e \in ended : e < cached[i]
       /\ \A j \in DOMAIN queue : queue[j] < cached[i]

AllInLine ==
  \A c \in Conns : InLine(EndedOf(c), calling[c], notifyQueue[c], events[c], Latest)

\* A proxy is there only after the connection, and then nothing is cached.
ProxiesOK ==
  \A c \in Conns :
    /\ c \in proxy => events[c] = <<>> /\ extension[c] \in {"up", "dead"}
    /\ calling[c] # Free \/ notifyQueue[c] # <<>> => extension[c] \in {"up", "dead"}

\* A delayed disconnection is the one of the connect, or that of one event.
TimersOK ==
  /\ \A t \in timers : IF t.action = NoAction THEN t.event = 0
                       ELSE t.event \in 1..Latest /\ actionOf[t.event] = t.action
  /\ \A t, u \in timers : t.conn = u.conn /\ t.event = u.event => t = u

\* Event e is notified, submitted, or waits for its delayed disconnection.
IsPending(c, e) ==
  \/ calling[c] = e
  \/ \E i \in DOMAIN notifyQueue[c] : notifyQueue[c][i] = e
  \/ \E t \in timers : t.conn = c /\ t.action # NoAction /\ t.event = e

\* The events of name x for which action_ of c still has an entry.
Pending(c, x) == {e \in 1..Latest : actionOf[e] = x /\ IsPending(c, e)}

PendingCounted ==
  \A c \in Conns, x \in Action : Cardinality(Pending(c, x)) <= action[c][x]

\* The delayed disconnection of the last event outlasts the delay.
IdleIsTimed ==
  \A c \in Conns : idle[c] < Delay =>
    \E t \in timers : t.conn = c /\ t.action # NoAction /\ t.left = Delay - idle[c]

ConnectionInv ==
  /\ ConnectionsTyped
  /\ AllInLine
  /\ ProxiesOK
  /\ TimersOK
  /\ PendingCounted
  /\ IdleIsTimed
  /\ DeliveredInOrder

\* The disconnection under way is that of a cached connection.
DroppingTyped ==
  /\ \/ dropping = Unlocked
     \/ dropping.conn \in Cached /\ dropping.at \in {"test", "clear", "erase"}
  /\ dropping \in [conn : {0} \cup Conns, at : {"none", "test", "clear", "erase"}, connected : BOOLEAN]

\* Connection c is used by nobody, and has not been for the delay.
Unused(c) == notifyQueue[c] = <<>> /\ calling[c] = Free /\ idle[c] = Delay

\* What was connected and unused at the test stays so until the erase.
StillUnused ==
  \A c \in Conns : dropping.conn = c /\ dropping.at \in {"clear", "erase"} /\ dropping.connected =>
    /\ extension[c] \in {"up", "dead"}
    /\ extension[c] = "up" => Unused(c)

\* A task finds the proxy as long as its extension lives.
QueueHasProxy ==
  \A c \in Conns : c \in Cached /\ notifyQueue[c] # <<>> /\ extension[c] = "up" =>
    c \in proxy \/ CutLate(c)

DroppingOK == DroppingTyped /\ StillUnused /\ QueueHasProxy

(***************************************************************************)
(* Sequences                                                               *)
(***************************************************************************)

\* Of two places in a sequence that grows by one, only the later can be new.
LEMMA LastOrBefore ==
  ASSUME NEW n \in Nat, NEW i \in 1..(n + 1), NEW j \in 1..(n + 1), i < j
  PROVE  i \in 1..n /\ (j \in 1..n \/ j = n + 1)
OBVIOUS

\* What the queue operations do, index by index.
LEMMA AppendAt ==
  ASSUME NEW s \in Seq(Nat), NEW x \in Nat
  PROVE  /\ Append(s, x) \in Seq(Nat)
         /\ DOMAIN s = 1..Len(s) /\ Len(s) \in Nat
         /\ DOMAIN Append(s, x) = 1..(Len(s) + 1)
         /\ \A i \in 1..Len(s) : s[i] \in Nat /\ Append(s, x)[i] = s[i]
         /\ Append(s, x)[Len(s) + 1] = x
BY AppendProperties, LenProperties, ElementOfSeq

\* What is in a sequence after an append.
LEMMA InAppend ==
  ASSUME NEW s \in Seq(Nat), NEW x \in Nat, NEW i \in DOMAIN Append(s, x)
  PROVE  Append(s, x)[i] = x \/ \E j \in DOMAIN s : Append(s, x)[i] = s[j]
<1>1. CASE i = Len(s) + 1
  BY <1>1, AppendAt
<1>2. CASE i \in 1..Len(s)
  BY <1>2, AppendAt
<1> QED
  BY <1>1, <1>2, AppendAt

\* One entry of a table of counts grows.
LEMMA CountOne ==
  ASSUME NEW S, NEW A, NEW f \in [S -> [A -> Nat]], NEW g, NEW c \in S, NEW a \in A,
         g = [f EXCEPT ![c][a] = @ + 1]
  PROVE  /\ g \in [S -> [A -> Nat]]
         /\ \A d \in S, x \in A : g[d][x] = IF d = c /\ x = a THEN f[d][x] + 1 ELSE f[d][x]
<1>1. g = [f EXCEPT ![c] = [f[c] EXCEPT ![a] = f[c][a] + 1]]
  OBVIOUS
<1>2. f[c] \in [A -> Nat] /\ f[c][a] + 1 \in Nat
  OBVIOUS
<1>3. [f[c] EXCEPT ![a] = f[c][a] + 1] \in [A -> Nat]
  BY <1>2
<1> QED
  BY <1>1, <1>2, <1>3

\* The same for the removal of the first entry.
LEMMA TailAt ==
  ASSUME NEW s \in Seq(Nat), s # <<>>
  PROVE  /\ Tail(s) \in Seq(Nat)
         /\ Head(s) = s[1] /\ s[1] \in Nat
         /\ Len(s) \in Nat \ {0}
         /\ DOMAIN s = 1..Len(s)
         /\ DOMAIN Tail(s) = 1..(Len(s) - 1)
         /\ \A i \in 1..(Len(s) - 1) : Tail(s)[i] = s[i + 1]
<1>1. /\ Len(s) \in Nat /\ Len(s) # 0 /\ DOMAIN s = 1..Len(s)
  BY LenProperties, EmptySeq
<1>2. Tail(s) \in Seq(Nat) /\ Len(Tail(s)) = Len(s) - 1 /\ \A i \in 1..(Len(s) - 1) : Tail(s)[i] = s[i + 1]
  BY HeadTailProperties
<1>3. DOMAIN Tail(s) = 1..(Len(s) - 1)
  BY <1>2, LenProperties
<1>4. Head(s) = s[1] /\ s[1] \in Nat
  BY <1>1, ElementOfSeq
<1> QED
  BY <1>1, <1>2, <1>3, <1>4

\* The same for the concatenation.
LEMMA ConcatAt ==
  ASSUME NEW s \in Seq(Nat), NEW t \in Seq(Nat)
  PROVE  /\ s \o t \in Seq(Nat)
         /\ DOMAIN s = 1..Len(s) /\ Len(s) \in Nat
         /\ DOMAIN t = 1..Len(t) /\ Len(t) \in Nat
         /\ DOMAIN (s \o t) = 1..(Len(s) + Len(t))
         /\ \A i \in 1..Len(s) : (s \o t)[i] = s[i]
         /\ \A i \in 1..Len(t) : (s \o t)[Len(s) + i] = t[i]
BY ConcatProperties, LenProperties

\* What is in a concatenation.
LEMMA InConcat ==
  ASSUME NEW s \in Seq(Nat), NEW t \in Seq(Nat), NEW k \in DOMAIN (s \o t)
  PROVE  \/ \E i \in DOMAIN s : s[i] = (s \o t)[k]
         \/ \E i \in DOMAIN t : t[i] = (s \o t)[k]
<1>0. /\ DOMAIN s = 1..Len(s) /\ Len(s) \in Nat /\ DOMAIN t = 1..Len(t) /\ Len(t) \in Nat
      /\ k \in 1..(Len(s) + Len(t))
  BY ConcatAt
<1>1. CASE k \in 1..Len(s)
  BY <1>0, <1>1, ConcatAt
<1>2. CASE k \notin 1..Len(s)
  <2>1. k - Len(s) \in 1..Len(t) /\ Len(s) + (k - Len(s)) = k
    BY <1>0, <1>2
  <2>2. (s \o t)[Len(s) + (k - Len(s))] = t[k - Len(s)]
    BY <2>1, ConcatAt
  <2> QED
    BY <2>1, <2>2, <1>0
<1> QED
  BY <1>1, <1>2

\* Nothing is in the empty sequence.
LEMMA EmptyAt == <<>> \in Seq(Nat) /\ DOMAIN <<>> = {}
<1>1. <<>> \in Seq(Nat) /\ Len(<<>>) = 0
  BY EmptySeq
<1> QED
  BY <1>1, LenProperties

(***************************************************************************)
(* The line of a connection                                                *)
(***************************************************************************)

\* The latest event is submitted to a connection that caches nothing.
LEMMA LineSubmit ==
  ASSUME NEW n \in Nat, NEW ended, NEW current \in Nat,
         NEW queue \in Seq(Nat), InLine(ended, current, queue, <<>>, n)
  PROVE  InLine(ended, current, Append(queue, n + 1), <<>>, n + 1)
<1> DEFINE q == Append(queue, n + 1)
<1>1. /\ DOMAIN queue = 1..Len(queue) /\ Len(queue) \in Nat
      /\ DOMAIN q = 1..(Len(queue) + 1)
      /\ \A i \in 1..Len(queue) : queue[i] \in Nat /\ q[i] = queue[i]
      /\ q[Len(queue) + 1] = n + 1
  BY AppendAt
<1> HIDE DEF q
<1>2. /\ current \in 0..n /\ Increasing(<<>>)
      /\ \A i, j \in 1..Len(queue) : i < j => queue[i] < queue[j]
      /\ \A e \in ended : e \in 0..n /\ (current # 0 => e < current)
      /\ \A i \in 1..Len(queue) : queue[i] \in 1..n /\ current < queue[i] /\ \A e \in ended : e < queue[i]
  BY <1>1 DEF InLine, Increasing
<1>3. Increasing(q)
  <2> SUFFICES ASSUME NEW i \in 1..(Len(queue) + 1), NEW j \in 1..(Len(queue) + 1), i < j
               PROVE  q[i] < q[j]
    BY <1>1 DEF Increasing
  <2>0. Len(queue) \in Nat
    BY <1>1
  <2>1. i \in 1..Len(queue) /\ (j \in 1..Len(queue) \/ j = Len(queue) + 1)
    BY <2>0, LastOrBefore
  <2>2. CASE j \in 1..Len(queue)
    BY <2>1, <2>2, <1>1, <1>2
  <2>3. CASE j = Len(queue) + 1
    BY <2>1, <2>3, <1>1, <1>2
  <2> QED
    BY <2>1, <2>2, <2>3
<1>4. \A i \in DOMAIN q : q[i] \in 1..(n + 1) /\ current < q[i] /\ \A e \in ended : e < q[i]
  <2> SUFFICES ASSUME NEW i \in 1..(Len(queue) + 1)
               PROVE  q[i] \in 1..(n + 1) /\ current < q[i] /\ \A e \in ended : e < q[i]
    BY <1>1
  <2>1. CASE i \in 1..Len(queue)
    BY <2>1, <1>1, <1>2
  <2>2. CASE i = Len(queue) + 1
    BY <2>2, <1>1, <1>2
  <2> QED
    BY <2>1, <2>2, <1>1
<1>5. \A e \in ended : e \in 0..(n + 1) /\ (current # 0 => e < current)
  BY <1>2
<1> QED
  BY <1>2, <1>3, <1>4, <1>5, EmptyAt DEF InLine, q

\* The latest event is cached.
LEMMA LineCache ==
  ASSUME NEW n \in Nat, NEW ended, NEW current \in Nat,
         NEW queue \in Seq(Nat), NEW cached \in Seq(Nat),
         InLine(ended, current, queue, cached, n)
  PROVE  InLine(ended, current, queue, Append(cached, n + 1), n + 1)
<1> DEFINE q == Append(cached, n + 1)
<1>1. /\ DOMAIN cached = 1..Len(cached) /\ Len(cached) \in Nat
      /\ DOMAIN q = 1..(Len(cached) + 1)
      /\ \A i \in 1..Len(cached) : cached[i] \in Nat /\ q[i] = cached[i]
      /\ q[Len(cached) + 1] = n + 1
  BY AppendAt
<1> HIDE DEF q
<1>2. /\ current \in 0..n /\ Increasing(queue)
      /\ \A i, j \in 1..Len(cached) : i < j => cached[i] < cached[j]
      /\ \A e \in ended : e \in 0..n /\ (current # 0 => e < current)
      /\ \A i \in DOMAIN queue : queue[i] \in 1..n /\ current < queue[i] /\ \A e \in ended : e < queue[i]
      /\ \A i \in 1..Len(cached) : /\ cached[i] \in 1..n /\ current < cached[i]
                                   /\ \A e \in ended : e < cached[i]
                                   /\ \A j \in DOMAIN queue : queue[j] < cached[i]
  BY <1>1 DEF InLine, Increasing
<1>3. Increasing(q)
  <2> SUFFICES ASSUME NEW i \in 1..(Len(cached) + 1), NEW j \in 1..(Len(cached) + 1), i < j
               PROVE  q[i] < q[j]
    BY <1>1 DEF Increasing
  <2>0. Len(cached) \in Nat
    BY <1>1
  <2>1. i \in 1..Len(cached) /\ (j \in 1..Len(cached) \/ j = Len(cached) + 1)
    BY <2>0, LastOrBefore
  <2> QED
    BY <2>1, <1>1, <1>2
<1>4. \A i \in DOMAIN q : /\ q[i] \in 1..(n + 1) /\ current < q[i]
                          /\ \A e \in ended : e < q[i]
                          /\ \A j \in DOMAIN queue : queue[j] < q[i]
  <2> SUFFICES ASSUME NEW i \in 1..(Len(cached) + 1)
               PROVE  /\ q[i] \in 1..(n + 1) /\ current < q[i]
                      /\ \A e \in ended : e < q[i]
                      /\ \A j \in DOMAIN queue : queue[j] < q[i]
    BY <1>1
  <2>1. CASE i \in 1..Len(cached)
    BY <2>1, <1>1, <1>2
  <2>2. CASE i = Len(cached) + 1
    BY <2>2, <1>1, <1>2
  <2> QED
    BY <2>1, <2>2, <1>1
<1>5. /\ \A e \in ended : e \in 0..(n + 1) /\ (current # 0 => e < current)
      /\ \A i \in DOMAIN queue : queue[i] \in 1..(n + 1) /\ current < queue[i] /\ \A e \in ended : e < queue[i]
  BY <1>2
<1> QED
  BY <1>2, <1>3, <1>4, <1>5 DEF InLine, q

\* An event arrives for another connection.
LEMMA LineGrow ==
  ASSUME NEW n \in Nat, NEW ended, NEW current \in Nat, NEW queue, NEW cached,
         InLine(ended, current, queue, cached, n)
  PROVE  InLine(ended, current, queue, cached, n + 1)
BY DEF InLine

\* The cached events are submitted, in their order.
LEMMA LineConnect ==
  ASSUME NEW n \in Nat, NEW ended, NEW current \in Nat,
         NEW queue \in Seq(Nat), NEW cached \in Seq(Nat),
         InLine(ended, current, queue, cached, n)
  PROVE  InLine(ended, current, queue \o cached, <<>>, n)
<1> DEFINE q == queue \o cached
<1>1. /\ DOMAIN queue = 1..Len(queue) /\ Len(queue) \in Nat
      /\ DOMAIN cached = 1..Len(cached) /\ Len(cached) \in Nat
      /\ DOMAIN q = 1..(Len(queue) + Len(cached))
      /\ \A i \in 1..Len(queue) : q[i] = queue[i]
      /\ \A i \in 1..Len(cached) : q[Len(queue) + i] = cached[i]
  BY ConcatAt
<1> HIDE DEF q
<1>2. /\ current \in 0..n
      /\ \A i, j \in 1..Len(queue) : i < j => queue[i] < queue[j]
      /\ \A i, j \in 1..Len(cached) : i < j => cached[i] < cached[j]
      /\ \A e \in ended : e \in 0..n /\ (current # 0 => e < current)
      /\ \A i \in 1..Len(queue) : queue[i] \in 1..n /\ current < queue[i] /\ \A e \in ended : e < queue[i]
      /\ \A i \in 1..Len(cached) : /\ cached[i] \in 1..n /\ current < cached[i]
                                   /\ \A e \in ended : e < cached[i]
                                   /\ \A j \in 1..Len(queue) : queue[j] < cached[i]
  BY <1>1 DEF InLine, Increasing
<1>3. \A i \in DOMAIN q : \/ i \in 1..Len(queue) /\ q[i] = queue[i]
                          \/ /\ i - Len(queue) \in 1..Len(cached)
                             /\ q[i] = cached[i - Len(queue)]
  <2> SUFFICES ASSUME NEW i \in 1..(Len(queue) + Len(cached)), i \notin 1..Len(queue)
               PROVE  /\ i - Len(queue) \in 1..Len(cached)
                      /\ q[i] = cached[i - Len(queue)]
    BY <1>1
  <2>1. i - Len(queue) \in 1..Len(cached)
    BY <1>1
  <2>2. q[Len(queue) + (i - Len(queue))] = cached[i - Len(queue)]
    BY <2>1, <1>1
  <2>3. Len(queue) + (i - Len(queue)) = i
    BY <1>1
  <2> QED
    BY <2>1, <2>2, <2>3
<1>4. Increasing(q)
  <2> SUFFICES ASSUME NEW i \in DOMAIN q, NEW j \in DOMAIN q, i < j
               PROVE  q[i] < q[j]
    BY DEF Increasing
  <2>1. i \in Nat /\ j \in Nat
    BY <1>1
  <2>2. CASE i \in 1..Len(queue) /\ q[i] = queue[i]
    BY <2>1, <2>2, <1>1, <1>2, <1>3
  <2>3. CASE i - Len(queue) \in 1..Len(cached) /\ q[i] = cached[i - Len(queue)]
    <3>1. j - Len(queue) \in 1..Len(cached) /\ q[j] = cached[j - Len(queue)]
      BY <2>1, <2>3, <1>1, <1>3
    <3>2. i - Len(queue) < j - Len(queue)
      BY <2>1, <1>1
    <3> QED
      BY <3>1, <3>2, <2>3, <1>2
  <2> QED
    BY <2>2, <2>3, <1>3
<1>5. \A i \in DOMAIN q : q[i] \in 1..n /\ current < q[i] /\ \A e \in ended : e < q[i]
  BY <1>2, <1>3
<1>6. Increasing(<<>>)
  BY EmptyAt DEF Increasing
<1> QED
  BY <1>2, <1>4, <1>5, <1>6, EmptyAt DEF InLine, q

\* The cached events are dropped.
LEMMA LineClear ==
  ASSUME NEW n \in Nat, NEW ended, NEW current \in Nat, NEW queue, NEW cached,
         InLine(ended, current, queue, cached, n)
  PROVE  InLine(ended, current, queue, <<>>, n)
BY EmptyAt DEF InLine, Increasing

\* The first submitted event is taken up, or skipped.
LEMMA LineStart ==
  ASSUME NEW n \in Nat, NEW ended, NEW queue \in Seq(Nat), NEW cached,
         InLine(ended, 0, queue, cached, n), queue # <<>>
  PROVE  /\ InLine(ended, Head(queue), Tail(queue), cached, n)
         /\ InLine(ended, 0, Tail(queue), cached, n)
         /\ Head(queue) \in 1..n
<1> DEFINE q == Tail(queue)
           h == Head(queue)
<1>1. /\ h = queue[1]
      /\ Len(queue) \in Nat \ {0}
      /\ DOMAIN queue = 1..Len(queue)
      /\ DOMAIN q = 1..(Len(queue) - 1)
      /\ \A i \in 1..(Len(queue) - 1) : q[i] = queue[i + 1]
  BY TailAt
<1> HIDE DEF q, h
<1>2. /\ Increasing(cached)
      /\ \A i, j \in 1..Len(queue) : i < j => queue[i] < queue[j]
      /\ \A e \in ended : e \in 0..n
      /\ \A i \in 1..Len(queue) : queue[i] \in 1..n /\ \A e \in ended : e < queue[i]
      /\ \A i \in DOMAIN cached : /\ cached[i] \in 1..n
                                  /\ \A e \in ended : e < cached[i]
                                  /\ \A j \in 1..Len(queue) : queue[j] < cached[i]
  BY <1>1 DEF InLine, Increasing
<1>3. h \in 1..n /\ (\A e \in ended : e < h) /\ \A i \in DOMAIN cached : h < cached[i]
  BY <1>1, <1>2
<1>4. Increasing(q)
  <2> SUFFICES ASSUME NEW i \in 1..(Len(queue) - 1), NEW j \in 1..(Len(queue) - 1), i < j
               PROVE  q[i] < q[j]
    BY <1>1 DEF Increasing
  <2>1. /\ i + 1 \in 1..Len(queue) /\ j + 1 \in 1..Len(queue) /\ i + 1 < j + 1
        /\ q[i] = queue[i + 1] /\ q[j] = queue[j + 1]
    BY <1>1
  <2> QED
    BY <2>1, <1>2
<1>5. \A i \in DOMAIN q : /\ q[i] \in 1..n /\ h < q[i] /\ 0 < q[i]
                          /\ \A e \in ended : e < q[i]
                          /\ \A j \in DOMAIN cached : q[i] < cached[j]
  <2> SUFFICES ASSUME NEW i \in 1..(Len(queue) - 1)
               PROVE  /\ q[i] \in 1..n /\ h < q[i] /\ 0 < q[i]
                      /\ \A e \in ended : e < q[i]
                      /\ \A j \in DOMAIN cached : q[i] < cached[j]
    BY <1>1
  <2>1. i + 1 \in 1..Len(queue) /\ 1 \in 1..Len(queue) /\ 1 < i + 1 /\ q[i] = queue[i + 1]
    BY <1>1
  <2> QED
    BY <2>1, <1>1, <1>2
<1> QED
  BY <1>2, <1>3, <1>4, <1>5 DEF InLine, q, h

\* The event that was being notified is through.
LEMMA LineEnd ==
  ASSUME NEW n \in Nat, NEW ended, NEW current \in Nat, NEW queue, NEW cached,
         InLine(ended, current, queue, cached, n)
  PROVE  InLine(ended \cup {current}, 0, queue, cached, n)
BY DEF InLine

\* Some ended events are forgotten.
LEMMA LineLess ==
  ASSUME NEW n \in Nat, NEW ended, NEW less, NEW current \in Nat, NEW queue, NEW cached,
         InLine(ended, current, queue, cached, n), less \subseteq ended
  PROVE  InLine(less, current, queue, cached, n)
BY DEF InLine

(***************************************************************************)
(* Counting                                                                *)
(***************************************************************************)

\* A part of a finite set, with one more element or one less.
LEMMA CardStep ==
  ASSUME NEW S, IsFiniteSet(S), NEW T, NEW e
  PROVE  /\ Cardinality(S) \in Nat
         /\ T \subseteq S => Cardinality(T) <= Cardinality(S)
         /\ T \subseteq S \cup {e} => Cardinality(T) <= Cardinality(S) + 1
         /\ T \subseteq S \ {e} /\ e \in S => /\ Cardinality(S) # 0
                                              /\ Cardinality(T) <= Cardinality(S) - 1
<1>1. Cardinality(S) \in Nat
  BY FS_CardinalityType
<1>2. /\ IsFiniteSet(S \cup {e}) /\ Cardinality(S \cup {e}) \in Nat
      /\ Cardinality(S \cup {e}) <= Cardinality(S) + 1
  BY <1>1, FS_AddElement
<1>3. /\ IsFiniteSet(S \ {e})
      /\ e \in S => Cardinality(S \ {e}) = Cardinality(S) - 1
  BY FS_RemoveElement
<1>4. ASSUME NEW U, IsFiniteSet(U), T \subseteq U
      PROVE  Cardinality(T) <= Cardinality(U) /\ Cardinality(T) \in Nat
  BY <1>4, FS_Subset, FS_CardinalityType
<1>5. e \in S => Cardinality(S) # 0
  BY FS_EmptySet
<1>6. T \subseteq S \cup {e} => Cardinality(T) <= Cardinality(S) + 1
  BY <1>1, <1>2, <1>4
<1> QED
  BY <1>1, <1>3, <1>4, <1>5, <1>6

\* A set with at most the values of a sequence at some of its places.
LEMMA CardImage ==
  ASSUME NEW S, IsFiniteSet(S), NEW T, NEW s \in Seq(Nat), NEW I \in SUBSET (DOMAIN s),
         T \subseteq S \cup {s[i] : i \in I}
  PROVE  /\ Cardinality(T) <= Cardinality(S) + Cardinality(I)
         /\ Cardinality(I) \in Nat
<1> DEFINE U == {s[i] : i \in I}
           f == [i \in I |-> s[i]]
<1>1. IsFiniteSet(I)
  <2>1. DOMAIN s = 1..Len(s) /\ Len(s) \in Int
    BY LenProperties
  <2>2. IsFiniteSet(DOMAIN s)
    BY <2>1, FS_Interval
  <2> QED
    BY <2>2, FS_Subset
<1>2. f \in Surjection(I, U)
  BY DEF Surjection
<1>3. IsFiniteSet(U) /\ Cardinality(U) <= Cardinality(I)
  <2> HIDE DEF f, U
  <2> QED
    BY <1>1, <1>2, FS_Surjection
<1> HIDE DEF U
<1>4. /\ Cardinality(U) \in Nat /\ Cardinality(I) \in Nat /\ Cardinality(S) \in Nat
      /\ IsFiniteSet(S \cup U)
      /\ Cardinality(S \cup U) = Cardinality(S) + Cardinality(U) - Cardinality(S \cap U)
  BY <1>1, <1>3, FS_CardinalityType, FS_Union
<1>5. Cardinality(S \cap U) \in Nat
  <2>1. (S \cap U) \in SUBSET S
    OBVIOUS
  <2> QED
    BY <2>1, FS_Subset, FS_CardinalityType
<1>6. T \in SUBSET (S \cup U)
  BY DEF U
<1>7. Cardinality(T) <= Cardinality(S \cup U) /\ Cardinality(T) \in Nat
  BY <1>4, <1>6, FS_Subset, FS_CardinalityType
<1> QED
  BY <1>3, <1>4, <1>5, <1>7

\* The pending events of a name are finitely many.
LEMMA PendingFinite ==
  ASSUME ConnectionsTyped, NEW c, NEW x
  PROVE  IsFiniteSet(Pending(c, x))
<1>1. Latest \in Nat /\ 1 \in Int /\ Latest \in Int
  BY LenProperties DEF ConnectionsTyped, Latest
<1>2. IsFiniteSet(1..Latest)
  BY <1>1, FS_Interval
<1>3. Pending(c, x) \in SUBSET (1..Latest)
  BY DEF Pending
<1> QED
  BY <1>2, <1>3, FS_Subset

\* The count stays right when no event of the name becomes pending and no
\* entry is removed.
LEMMA PendingKept ==
  ASSUME ConnectionsTyped, PendingCounted, NEW c \in Conns, NEW x \in Action,
         NEW T, T \subseteq Pending(c, x), NEW n \in Nat, action[c][x] <= n
  PROVE  Cardinality(T) <= n
<1>1. /\ Cardinality(T) <= Cardinality(Pending(c, x))
      /\ Cardinality(Pending(c, x)) \in Nat
  BY PendingFinite, CardStep
<1>2. Cardinality(T) \in Nat
  BY PendingFinite, FS_Subset, FS_CardinalityType
<1>3. Cardinality(Pending(c, x)) <= action[c][x] /\ action[c][x] \in Nat
  BY DEF PendingCounted, ConnectionsTyped
<1> QED
  BY <1>1, <1>2, <1>3

\* Only events that have arrived are pending.
LEMMA PendingArrived ==
  ASSUME ConnectionsTyped, AllInLine, TimersOK, NEW c \in Conns,
         NEW e \in Nat \ {0}, IsPending(c, e)
  PROVE  e \in 1..Latest
<1>1. Latest \in Nat
  BY LenProperties DEF ConnectionsTyped, Latest
<1>2. /\ calling[c] \in 0..Latest
      /\ \A i \in DOMAIN notifyQueue[c] : notifyQueue[c][i] \in 1..Latest
  BY DEF AllInLine, InLine
<1>3. \A t \in timers : t.action # NoAction => t.event \in 1..Latest
  BY DEF TimersOK
<1> QED
  BY <1>1, <1>2, <1>3 DEF IsPending

\* A step in which no event becomes pending in a connection.
LEMMA PendingShrinks ==
  ASSUME ConnectionsTyped, AllInLine, TimersOK, NEW c \in Conns, NEW x \in Action,
         NEW a \in Action, actionOf' = actionOf \/ actionOf' = Append(actionOf, a),
         \A e \in Nat \ {0} : IsPending(c, e)' => IsPending(c, e)
  PROVE  Pending(c, x)' \subseteq Pending(c, x)
<1>1. Latest \in Nat /\ actionOf \in Seq(Action)
  BY LenProperties DEF ConnectionsTyped, Latest
<1>2. \A e \in 1..Latest : actionOf'[e] = actionOf[e]
  BY <1>1, AppendProperties DEF Latest
<1>3. Latest' \in Nat
  BY <1>1, AppendProperties, LenProperties DEF Latest
<1> SUFFICES ASSUME NEW e \in Pending(c, x)'
             PROVE  e \in Pending(c, x)
  OBVIOUS
<1>4. e \in 1..Latest' /\ actionOf'[e] = x /\ IsPending(c, e)'
  BY DEF Pending
<1>5. IsPending(c, e)
  BY <1>3, <1>4
<1>6. e \in 1..Latest
  BY <1>3, <1>4, <1>5, PendingArrived
<1> QED
  BY <1>2, <1>4, <1>5, <1>6 DEF Pending

\* The ended events are those of the log and of the delayed disconnections.
LEMMA EndedFrame ==
  ASSUME UNCHANGED <<delivered, timers>>
  PROVE  \A c : EndedOf(c)' = EndedOf(c)
BY DEF EndedOf

(***************************************************************************)
(* Every action preserves the invariant                                    *)
(***************************************************************************)

\* NotifyEvent to a cached connection submits or caches the latest event.
LEMMA ConnectCachedStep ==
  ASSUME ConnectionInv, NEW k \in Key, NEW a \in Action, ConnectCached(k, a)
  PROVE  ConnectionInv'
<1> USE DEF Free
<1> DEFINE c == subscriberConnection[k]
           e == Latest + 1
<1>0. ConnectionsTyped /\ AllInLine /\ ProxiesOK /\ TimersOK /\ PendingCounted /\ IdleIsTimed
  BY DEF ConnectionInv
<1>1. /\ Latest \in Nat /\ Len(created) \in Nat /\ c \in Conns
      /\ actionOf' \in Seq(Action) /\ Latest' = e
      /\ \A i \in 1..Latest : actionOf'[i] = actionOf[i]
      /\ actionOf'[e] = a
  BY <1>0, LenProperties, AppendProperties DEF ConnectCached, ConnectionsTyped, Latest, Conns
<1>2. /\ UNCHANGED <<idle, created, subscriberConnection, extension, proxy, calling, timers, delivered>>
      /\ Conns' = Conns /\ Cached' = Cached
  BY DEF ConnectCached, Conns, Cached
<1>3. \/ /\ c \in proxy
         /\ action' = [action EXCEPT ![c][a] = @ + 1]
         /\ notifyQueue' = [notifyQueue EXCEPT ![c] = Append(@, e)]
         /\ events' = events
      \/ /\ c \notin proxy
         /\ events' = [events EXCEPT ![c] = Append(@, e)]
         /\ action' = action /\ notifyQueue' = notifyQueue
  BY DEF ConnectCached, CacheEvent, Latest
<1> HIDE DEF c
<1>4. /\ action \in [Conns -> [Action -> Nat]]
      /\ notifyQueue \in [Conns -> Seq(Nat)] /\ events \in [Conns -> Seq(Nat)]
      /\ calling \in [Conns -> Nat]
  BY <1>0 DEF ConnectionsTyped
<1>5. /\ e \in Nat
      /\ Append(notifyQueue[c], e) \in Seq(Nat) /\ Append(events[c], e) \in Seq(Nat)
  BY <1>1, <1>4, AppendAt
<1> HIDE DEF e
<1>6. ConnectionsTyped'
  <2>1. /\ action' \in [Conns -> [Action -> Nat]]
        /\ notifyQueue' \in [Conns -> Seq(Nat)] /\ events' \in [Conns -> Seq(Nat)]
    <3>1. CASE c \in proxy
      <4>1. action' = [action EXCEPT ![c][a] = @ + 1]
        BY <3>1, <1>3
      <4>2. action' \in [Conns -> [Action -> Nat]]
        BY <4>1, <1>1, <1>4, CountOne
      <4> QED
        BY <4>2, <3>1, <1>1, <1>3, <1>4, <1>5
    <3>2. CASE c \notin proxy
      BY <3>2, <1>1, <1>3, <1>4, <1>5
    <3> QED
      BY <3>1, <3>2
  <2> QED
    BY <2>1, <1>0, <1>1, <1>2 DEF ConnectionsTyped, Timer
<1>7. AllInLine'
  <2> SUFFICES ASSUME NEW d \in Conns
               PROVE  InLine(EndedOf(d), calling'[d], notifyQueue'[d], events'[d], e)
    BY <1>1, <1>2, EndedFrame DEF AllInLine
  <2>1. InLine(EndedOf(d), calling[d], notifyQueue[d], events[d], Latest)
    BY <1>0 DEF AllInLine
  <2>2. calling'[d] = calling[d] /\ calling[d] \in Nat
    BY <1>2, <1>4
  <2>3. CASE d # c
    <3>1. notifyQueue'[d] = notifyQueue[d] /\ events'[d] = events[d]
      BY <2>3, <1>3, <1>4
    <3> QED
      BY <3>1, <2>1, <2>2, <1>1, LineGrow DEF e
  <2>4. CASE d = c /\ c \in proxy
    <3>1. notifyQueue'[d] = Append(notifyQueue[d], e) /\ events'[d] = events[d] /\ events[d] = <<>>
      BY <2>4, <1>0, <1>3, <1>4 DEF ProxiesOK
    <3> QED
      BY <3>1, <2>1, <2>2, <1>1, <1>4, LineSubmit DEF e
  <2>5. CASE d = c /\ c \notin proxy
    <3>1. notifyQueue'[d] = notifyQueue[d] /\ events'[d] = Append(events[d], e)
      BY <2>5, <1>3, <1>4
    <3> QED
      BY <3>1, <2>1, <2>2, <1>1, <1>4, LineCache DEF e
  <2> QED
    BY <2>3, <2>4, <2>5
<1>8. ProxiesOK'
  BY <1>0, <1>2, <1>3, <1>4 DEF ProxiesOK
<1>9. TimersOK'
  BY <1>0, <1>1, <1>2 DEF TimersOK, e
<1>10. PendingCounted'
  <2> SUFFICES ASSUME NEW d \in Conns, NEW x \in Action
               PROVE  Cardinality(Pending(d, x)') <= action'[d][x]
    BY <1>2 DEF PendingCounted
  <2>1. CASE d = c /\ c \in proxy /\ x = a
    <3>1. action'[d][x] = action[d][x] + 1 /\ action[d][x] \in Nat
      BY <2>1, <1>3, <1>4
    <3>2. notifyQueue'[d] = Append(notifyQueue[d], e)
      BY <2>1, <1>3, <1>4
    <3>3. Pending(d, x)' \subseteq Pending(d, x) \cup {e}
      <4> SUFFICES ASSUME NEW f \in Pending(d, x)', f # e
                   PROVE  f \in Pending(d, x)
        OBVIOUS
      <4>1. f \in 1..Latest /\ actionOf[f] = x /\ IsPending(d, f)'
        BY <1>1 DEF Pending, e
      <4>2. IsPending(d, f)
        <5>1. ASSUME NEW i \in DOMAIN notifyQueue'[d], notifyQueue'[d][i] = f
              PROVE  \E j \in DOMAIN notifyQueue[d] : notifyQueue[d][j] = f
          <6>1. notifyQueue[d] \in Seq(Nat) /\ e \in Nat
            BY <1>4, <1>5
          <6>2. i \in DOMAIN Append(notifyQueue[d], e) /\ Append(notifyQueue[d], e)[i] = f
            BY <5>1, <3>2
          <6>3. \/ Append(notifyQueue[d], e)[i] = e
               \/ \E j \in DOMAIN notifyQueue[d] : Append(notifyQueue[d], e)[i] = notifyQueue[d][j]
            BY <6>1, <6>2, InAppend, Zenon
          <6> QED
            BY <6>2, <6>3
        <5> QED
          BY <5>1, <4>1, <1>2 DEF IsPending
      <4> QED
        BY <4>1, <4>2 DEF Pending
    <3>4. /\ Cardinality(Pending(d, x)') <= Cardinality(Pending(d, x)) + 1
          /\ Cardinality(Pending(d, x)) \in Nat
      BY <3>3, <1>0, PendingFinite, CardStep
    <3>5. Cardinality(Pending(d, x)) <= action[d][x]
      BY <1>0 DEF PendingCounted
    <3>6. Cardinality(Pending(d, x)') \in Nat
      <4>1. IsFiniteSet(Pending(d, x)')
        BY <3>3, <1>0, PendingFinite, FS_AddElement, FS_Subset
      <4> QED
        BY <4>1, FS_CardinalityType
    <3> QED
      BY <3>1, <3>4, <3>5, <3>6
  <2>2. CASE ~(d = c /\ c \in proxy /\ x = a)
    <3>1. action'[d][x] = action[d][x] /\ action[d][x] \in Nat
      <4>1. CASE c \notin proxy
        BY <4>1, <1>3, <1>4
      <4>2. CASE c \in proxy
        <5>1. action' = [action EXCEPT ![c][a] = @ + 1]
          BY <4>2, <1>3
        <5>2. CASE d # c
          BY <5>1, <5>2, <1>4
        <5>3. CASE d = c
          <6>1. action'[c] = [action[c] EXCEPT ![a] = action[c][a] + 1] /\ action[c] \in [Action -> Nat]
            BY <5>1, <1>1, <1>4
          <6> QED
            BY <6>1, <5>3, <4>2, <2>2
        <5> QED
          BY <5>2, <5>3
      <4> QED
        BY <4>1, <4>2
    <3>2. Pending(d, x)' \subseteq Pending(d, x)
      <4>1. CASE d = c /\ c \in proxy
        <5>1. x # a
          BY <4>1, <2>2
        <5>2. notifyQueue'[d] = Append(notifyQueue[d], e)
          BY <4>1, <1>3, <1>4
        <5> SUFFICES ASSUME NEW f \in Pending(d, x)'
                     PROVE  f \in Pending(d, x)
          OBVIOUS
        <5>3. f \in 1..Latest /\ actionOf[f] = x /\ IsPending(d, f)'
          BY <5>1, <1>1 DEF Pending, e
        <5>4. IsPending(d, f)
          <6>0. f # e
            BY <5>3, <1>1 DEF e
          <6>1. ASSUME NEW i \in DOMAIN notifyQueue'[d], notifyQueue'[d][i] = f
                PROVE  \E j \in DOMAIN notifyQueue[d] : notifyQueue[d][j] = f
            <7>1. notifyQueue[d] \in Seq(Nat) /\ e \in Nat
              BY <1>4, <1>5
            <7>2. i \in DOMAIN Append(notifyQueue[d], e) /\ Append(notifyQueue[d], e)[i] = f
              BY <6>1, <5>2
            <7>3. \/ Append(notifyQueue[d], e)[i] = e
                 \/ \E j \in DOMAIN notifyQueue[d] : Append(notifyQueue[d], e)[i] = notifyQueue[d][j]
              BY <7>1, <7>2, InAppend, Zenon
            <7> QED
              BY <7>2, <7>3, <6>0
          <6> QED
            BY <6>1, <5>3, <1>2 DEF IsPending
        <5> QED
          BY <5>3, <5>4 DEF Pending
      <4>2. CASE ~(d = c /\ c \in proxy)
        <5>1. notifyQueue'[d] = notifyQueue[d]
          BY <4>2, <1>3, <1>4
        <5>2. \A f \in Nat \ {0} : IsPending(d, f)' => IsPending(d, f)
          BY <5>1, <1>2 DEF IsPending
        <5>3. actionOf' = Append(actionOf, a)
          BY DEF ConnectCached
        <5> QED
          BY <5>2, <5>3, <1>0, PendingShrinks
      <4> QED
        BY <4>1, <4>2
    <3> QED
      BY <3>1, <3>2, <1>0, PendingKept
  <2> QED
    BY <2>1, <2>2
<1>11. IdleIsTimed'
  BY <1>0, <1>2 DEF IdleIsTimed
<1>12. DeliveredInOrder'
  BY <1>2 DEF ConnectionInv, DeliveredInOrder
<1> QED
  BY <1>6, <1>7, <1>8, <1>9, <1>10, <1>11, <1>12 DEF ConnectionInv

\* A new connection object comes with the delayed disconnection of the connect.
LEMMA ConnectNewStep ==
  ASSUME ConnectionInv, NEW k \in Key, NEW a \in Action, ConnectNew(k, a),
         NEW n \in Nat, n = Len(created), NEW c \in Nat, c = n + 1,
         NEW e \in Nat, e = Latest + 1
  PROVE  ConnectionInv'
<1> USE DEF Free
<1> DEFINE new == [conn |-> c, action |-> NoAction, event |-> 0, left |-> Delay]
<1>0. ConnectionsTyped /\ AllInLine /\ ProxiesOK /\ TimersOK /\ PendingCounted /\ IdleIsTimed
  BY DEF ConnectionInv
<1>1. /\ Latest \in Nat /\ Len(created) \in Nat /\ created \in Seq(Key)
      /\ actionOf' \in Seq(Action) /\ Latest' = e
      /\ \A i \in 1..Latest : actionOf'[i] = actionOf[i]
  BY <1>0, LenProperties, AppendProperties DEF ConnectNew, ConnectionsTyped, Latest
<1>2. /\ created' \in Seq(Key) /\ Len(created') = c
      /\ \A i \in Conns : created'[i] = created[i]
      /\ created'[c] = k
  BY <1>1, AppendProperties DEF ConnectNew, Conns
<1>3. Conns' = Conns \cup {c} /\ c \notin Conns /\ c \in Nat \ {0} /\ Conns' = 1..c
  BY <1>1, <1>2 DEF Conns
<1>4. /\ UNCHANGED <<proxy, delivered>>
      /\ timers' = timers \cup {new}
      /\ subscriberConnection' = [subscriberConnection EXCEPT ![k] = c]
      /\ subscriberConnection[k] = 0
      /\ actionOf' = Append(actionOf, a)
  BY DEF ConnectNew, DisconnectServiceAbilityDelay
<1>typ. Conns = 1..n
  BY DEF Conns
<1>5. /\ extension' \in [Conns' -> {"connecting", "up", "failed", "dead"}]
      /\ \A d \in Conns : extension'[d] = extension[d]
  <2>1. extension' = Append(extension, "connecting")
    BY DEF ConnectNew, Latest
  <2>2. extension \in Seq({"connecting", "up", "failed", "dead"}) /\ Len(extension) = n
    <3>1. extension \in [1..n -> {"connecting", "up", "failed", "dead"}]
      BY <1>0 DEF ConnectionsTyped, Conns
    <3>2. extension \in Seq({"connecting", "up", "failed", "dead"})
      BY <3>1
    <3> QED
      BY <3>1, <3>2, LenProperties
  <2>3. "connecting" \in {"connecting", "up", "failed", "dead"}
    OBVIOUS
  <2>4. /\ extension' \in Seq({"connecting", "up", "failed", "dead"}) /\ Len(extension') = n + 1
        /\ \A d \in 1..n : extension'[d] = extension[d]
        /\ extension'[n + 1] = "connecting"
    BY <2>1, <2>2, <2>3, AppendProperties
  <2>5. extension' \in [1..(n + 1) -> {"connecting", "up", "failed", "dead"}]
    BY <2>4, LenProperties
  <2> QED
    BY <2>4, <2>5, <1>3, <1>typ
<1>6. /\ events' \in [Conns' -> Seq(Nat)] /\ events'[c] = <<e>>
      /\ \A d \in Conns : events'[d] = events[d]
  <2>1. events' = Append(events, <<e>>)
    BY DEF ConnectNew, Latest
  <2>2. events \in Seq(Seq(Nat)) /\ Len(events) = n
    <3>1. events \in [1..n -> Seq(Nat)]
      BY <1>0 DEF ConnectionsTyped, Conns
    <3>2. events \in Seq(Seq(Nat))
      BY <3>1
    <3> QED
      BY <3>1, <3>2, LenProperties
  <2>3. <<e>> \in Seq(Nat)
    OBVIOUS
  <2>4. /\ events' \in Seq(Seq(Nat)) /\ Len(events') = n + 1
        /\ \A d \in 1..n : events'[d] = events[d]
        /\ events'[n + 1] = <<e>>
    BY <2>1, <2>2, <2>3, AppendProperties
  <2>5. events' \in [1..(n + 1) -> Seq(Nat)]
    BY <2>4, LenProperties
  <2> QED
    BY <2>4, <2>5, <1>3, <1>typ
<1>7. /\ action' \in [Conns' -> [Action -> Nat]] /\ action'[c] = [x \in Action |-> 0]
      /\ \A d \in Conns : action'[d] = action[d]
  <2>1. action' = Append(action, [x \in Action |-> 0])
    BY DEF ConnectNew, Latest
  <2>2. action \in Seq([Action -> Nat]) /\ Len(action) = n
    <3>1. action \in [1..n -> [Action -> Nat]]
      BY <1>0 DEF ConnectionsTyped, Conns
    <3>2. action \in Seq([Action -> Nat])
      BY <3>1
    <3> QED
      BY <3>1, <3>2, LenProperties
  <2>3. [x \in Action |-> 0] \in [Action -> Nat]
    OBVIOUS
  <2>4. /\ action' \in Seq([Action -> Nat]) /\ Len(action') = n + 1
        /\ \A d \in 1..n : action'[d] = action[d]
        /\ action'[n + 1] = [x \in Action |-> 0]
    BY <2>1, <2>2, <2>3, AppendProperties
  <2>5. action' \in [1..(n + 1) -> [Action -> Nat]]
    BY <2>4, LenProperties
  <2> QED
    BY <2>4, <2>5, <1>3, <1>typ
<1>8. /\ notifyQueue' \in [Conns' -> Seq(Nat)] /\ notifyQueue'[c] = <<>>
      /\ \A d \in Conns : notifyQueue'[d] = notifyQueue[d]
  <2>1. notifyQueue' = Append(notifyQueue, <<>>)
    BY DEF ConnectNew, Latest
  <2>2. notifyQueue \in Seq(Seq(Nat)) /\ Len(notifyQueue) = n
    <3>1. notifyQueue \in [1..n -> Seq(Nat)]
      BY <1>0 DEF ConnectionsTyped, Conns
    <3>2. notifyQueue \in Seq(Seq(Nat))
      BY <3>1
    <3> QED
      BY <3>1, <3>2, LenProperties
  <2>3. <<>> \in Seq(Nat)
    BY EmptyAt
  <2>4. /\ notifyQueue' \in Seq(Seq(Nat)) /\ Len(notifyQueue') = n + 1
        /\ \A d \in 1..n : notifyQueue'[d] = notifyQueue[d]
        /\ notifyQueue'[n + 1] = <<>>
    BY <2>1, <2>2, <2>3, AppendProperties
  <2>5. notifyQueue' \in [1..(n + 1) -> Seq(Nat)]
    BY <2>4, LenProperties
  <2> QED
    BY <2>4, <2>5, <1>3, <1>typ
<1>9. /\ calling' \in [Conns' -> Nat] /\ calling'[c] = 0
      /\ \A d \in Conns : calling'[d] = calling[d]
  <2>1. calling' = Append(calling, 0)
    BY DEF ConnectNew, Latest
  <2>2. calling \in Seq(Nat) /\ Len(calling) = n
    <3>1. calling \in [1..n -> Nat]
      BY <1>0 DEF ConnectionsTyped, Conns
    <3>2. calling \in Seq(Nat)
      BY <3>1
    <3> QED
      BY <3>1, <3>2, LenProperties
  <2>3. 0 \in Nat
    OBVIOUS
  <2>4. /\ calling' \in Seq(Nat) /\ Len(calling') = n + 1
        /\ \A d \in 1..n : calling'[d] = calling[d]
        /\ calling'[n + 1] = 0
    BY <2>1, <2>2, <2>3, AppendProperties
  <2>5. calling' \in [1..(n + 1) -> Nat]
    BY <2>4, LenProperties
  <2> QED
    BY <2>4, <2>5, <1>3, <1>typ
<1>10. /\ idle' \in [Conns' -> 0..Delay] /\ idle'[c] = Delay
      /\ \A d \in Conns : idle'[d] = idle[d]
  <2>1. idle' = Append(idle, Delay)
    BY DEF ConnectNew, Latest
  <2>2. idle \in Seq(0..Delay) /\ Len(idle) = n
    <3>1. idle \in [1..n -> 0..Delay]
      BY <1>0 DEF ConnectionsTyped, Conns
    <3>2. idle \in Seq(0..Delay)
      <4> DEFINE R == 0..Delay
      <4>1. idle \in [1..n -> R]
        BY <3>1
      <4> HIDE DEF R
      <4>2. idle \in Seq(R)
        BY <4>1
      <4> QED
        BY <4>2 DEF R
    <3> QED
      BY <3>1, <3>2, LenProperties
  <2>3. Delay \in 0..Delay
    BY StaticConnectionAssumption
  <2>4. /\ idle' \in Seq(0..Delay) /\ Len(idle') = n + 1
        /\ \A d \in 1..n : idle'[d] = idle[d]
        /\ idle'[n + 1] = Delay
    BY <2>1, <2>2, <2>3, AppendProperties
  <2>5. idle' \in [1..(n + 1) -> 0..Delay]
    BY <2>4, LenProperties
  <2> QED
    BY <2>4, <2>5, <1>3, <1>typ
<1>11. /\ \A t \in timers : t.conn \in Conns
       /\ new.conn = c /\ new.action = NoAction /\ new.event = 0 /\ new.left = Delay
       /\ new \in [conn : Conns', action : Action \cup {NoAction}, event : Nat, left : 0..Delay]
  BY <1>0, <1>3, StaticConnectionAssumption DEF ConnectionsTyped, Timer
<1> HIDE DEF new
<1>12. ConnectionsTyped'
  <2>1. /\ subscriberConnection' \in [Key -> {0} \cup Conns']
        /\ \A j \in Key : subscriberConnection'[j] # 0 => created'[subscriberConnection'[j]] = j
    BY <1>0, <1>2, <1>3, <1>4 DEF ConnectionsTyped
  <2>2. proxy' \in SUBSET Conns'
    BY <1>0, <1>3, <1>4 DEF ConnectionsTyped
  <2>3. timers' \in SUBSET Timer'
    BY <1>0, <1>3, <1>4, <1>11 DEF ConnectionsTyped, Timer
  <2>4. delivered' \in Seq(Nat \X Conns')
    <3>1. delivered \in Seq(Nat \X Conns) /\ (Nat \X Conns) \subseteq (Nat \X Conns')
      BY <1>0, <1>3 DEF ConnectionsTyped
    <3>2. delivered \in [1..Len(delivered) -> Nat \X Conns] /\ Len(delivered) \in Nat
      BY <3>1, LenProperties
    <3>3. delivered \in [1..Len(delivered) -> Nat \X Conns']
      BY <3>1, <3>2
    <3> QED
      BY <3>2, <3>3, <1>4
  <2> QED
    BY <2>1, <2>2, <2>3, <2>4, <1>1, <1>2, <1>5, <1>6, <1>7, <1>8, <1>9, <1>10 DEF ConnectionsTyped
<1>13. /\ \A d \in Conns : EndedOf(d)' = EndedOf(d)
       /\ EndedOf(c)' = {0}
  <2>1. \A i \in DOMAIN delivered : delivered[i][2] \in Conns
    <3>1. delivered \in [1..Len(delivered) -> Nat \X Conns]
      BY <1>0, LenProperties DEF ConnectionsTyped
    <3> QED
      BY <3>1
  <2>2. {i \in DOMAIN delivered : delivered[i][2] = c} = {}
    BY <2>1, <1>3
  <2>3. \A d \in Conns : {u \in timers' : u.conn = d} = {u \in timers : u.conn = d}
    BY <1>3, <1>4, <1>11
  <2>4. {u \in timers' : u.conn = c} = {new}
    BY <1>3, <1>4, <1>11
  <2> QED
    BY <2>2, <2>3, <2>4, <1>4, <1>11 DEF EndedOf
<1>14. AllInLine'
  <2>1. ASSUME NEW d \in Conns
        PROVE  InLine(EndedOf(d)', calling'[d], notifyQueue'[d], events'[d], Latest')
    <3>1. InLine(EndedOf(d), calling[d], notifyQueue[d], events[d], Latest)
      BY <1>0 DEF AllInLine
    <3>2. calling[d] \in Nat
      BY <1>0 DEF ConnectionsTyped
    <3> QED
      BY <3>1, <3>2, <1>1, <1>6, <1>8, <1>9, <1>13, LineGrow
  <2>2. InLine(EndedOf(c)', calling'[c], notifyQueue'[c], events'[c], Latest')
    <3>1. InLine({0}, 0, <<>>, <<e>>, e)
      BY <1>1, EmptyAt DEF InLine, Increasing
    <3> QED
      BY <3>1, <1>1, <1>6, <1>8, <1>9, <1>13
  <2> QED
    BY <2>1, <2>2, <1>3 DEF AllInLine
<1>15. ProxiesOK'
  <2>1. \A d \in Conns : d \in Cached' => d \in Cached
    BY <1>0, <1>3, <1>4 DEF Cached, ConnectionsTyped
  <2>2. c \notin proxy
    BY <1>0, <1>3 DEF ConnectionsTyped
  <2> QED
    BY <2>1, <2>2, <1>0, <1>3, <1>4, <1>5, <1>6, <1>8, <1>9 DEF ProxiesOK
<1>16. TimersOK'
  <2>1. ASSUME NEW t \in timers'
        PROVE  IF t.action = NoAction THEN t.event = 0
               ELSE t.event \in 1..Latest' /\ actionOf'[t.event] = t.action
    <3>1. CASE t = new
      BY <3>1, <1>11
    <3>2. CASE t \in timers
      BY <3>2, <1>0, <1>1 DEF TimersOK
    <3> QED
      BY <3>1, <3>2, <1>4
  <2>2. \A t, u \in timers' : t.conn = u.conn /\ t.event = u.event => t = u
    BY <1>0, <1>3, <1>4, <1>11 DEF TimersOK
  <2> QED
    BY <2>1, <2>2 DEF TimersOK
<1>17. PendingCounted'
  <2>1. ASSUME NEW d \in Conns, NEW x \in Action
        PROVE  Cardinality(Pending(d, x)') <= action'[d][x]
    <3>1. \A f \in Nat \ {0} : IsPending(d, f)' => IsPending(d, f)
      BY <1>3, <1>4, <1>8, <1>9, <1>11 DEF IsPending
    <3>2. Pending(d, x)' \subseteq Pending(d, x)
      BY <3>1, <1>0, <1>4, PendingShrinks
    <3>3. action'[d][x] = action[d][x] /\ action[d][x] \in Nat
      BY <1>0, <1>7 DEF ConnectionsTyped
    <3> QED
      BY <3>2, <3>3, <1>0, PendingKept
  <2>2. ASSUME NEW x \in Action
        PROVE  Cardinality(Pending(c, x)') <= action'[c][x]
    <3>1. \A f \in Nat \ {0} : ~IsPending(c, f)'
      BY <1>3, <1>4, <1>8, <1>9, <1>11, EmptyAt DEF IsPending
    <3>2. Pending(c, x)' = {}
      BY <3>1, <1>1 DEF Pending
    <3>3. Cardinality({}) = 0
      BY FS_EmptySet
    <3>4. action'[c][x] = 0
      BY <1>7
    <3>5. Cardinality(Pending(c, x)') = 0
      BY <3>2, <3>3, Zenon
    <3> QED
      BY <3>4, <3>5
  <2> QED
    BY <2>1, <2>2, <1>3 DEF PendingCounted
<1>18. IdleIsTimed'
  <2>1. ASSUME NEW d \in Conns', idle'[d] < Delay
        PROVE  \E t \in timers' : t.conn = d /\ t.action # NoAction /\ t.left = Delay - idle'[d]
    <3>1. d \in Conns /\ idle[d] < Delay /\ idle'[d] = idle[d]
      BY <2>1, <1>3, <1>10, StaticConnectionAssumption
    <3> QED
      BY <3>1, <1>0, <1>4 DEF IdleIsTimed
  <2> QED
    BY <2>1 DEF IdleIsTimed
<1>19. DeliveredInOrder'
  BY <1>4 DEF ConnectionInv, DeliveredInOrder
<1> QED
  BY <1>12, <1>14, <1>15, <1>16, <1>17, <1>18, <1>19 DEF ConnectionInv

\* A removal takes one entry of a name, if there is one, and no other.
LEMMA RemoveEventFacts ==
  ASSUME NEW count \in [Action -> Nat], NEW a \in Action \cup {NoAction}
  PROVE  /\ RemoveEvent(count, a) \in [Action -> Nat]
         /\ \A x \in Action : x # a => RemoveEvent(count, a)[x] = count[x]
         /\ a \in Action /\ count[a] # 0 => RemoveEvent(count, a)[a] = count[a] - 1
<1>1. \A x \in Action : RemoveEvent(count, a)[x] \in Nat
  BY DEF RemoveEvent
<1>2. RemoveEvent(count, a) \in [Action -> Nat]
  BY <1>1 DEF RemoveEvent
<1> QED
  BY <1>2 DEF RemoveEvent

\* A delayed disconnection removes the entry of its event, which was pending
\* on its account alone.
LEMMA DisconnectAbilityStep ==
  ASSUME ConnectionInv, NEW t \in timers, DisconnectAbility(t)
  PROVE  ConnectionInv'
<1> USE DEF Free
<1> DEFINE c == t.conn
           count == RemoveEvent(action[c], t.action)
<1>0. ConnectionsTyped /\ AllInLine /\ ProxiesOK /\ TimersOK /\ PendingCounted /\ IdleIsTimed
  BY DEF ConnectionInv
<1>1. /\ c \in Conns /\ t.action \in Action \cup {NoAction} /\ t.left = 0
      /\ timers' = timers \ {t}
      /\ UNCHANGED <<idle, actionOf, created, subscriberConnection, extension, proxy, events,
                     notifyQueue, calling, delivered>>
      /\ Conns' = Conns /\ Latest' = Latest
  BY <1>0 DEF DisconnectAbility, ConnectionsTyped, Timer, Conns, Latest
<1>2. \/ UNCHANGED action
      \/ calling[c] = 0 /\ action' = [action EXCEPT ![c] = count]
  BY DEF DisconnectAbility
<1>3. /\ action[c] \in [Action -> Nat] /\ action \in [Conns -> [Action -> Nat]]
      /\ count \in [Action -> Nat]
      /\ \A x \in Action : x # t.action => count[x] = action[c][x]
      /\ t.action \in Action /\ action[c][t.action] # 0 => count[t.action] = action[c][t.action] - 1
  BY <1>0, <1>1, RemoveEventFacts DEF ConnectionsTyped
<1> HIDE DEF c, count
<1>5. ConnectionsTyped'
  <2>1. action' \in [Conns -> [Action -> Nat]]
    BY <1>1, <1>2, <1>3
  <2>2. timers' \in SUBSET Timer'
    BY <1>0, <1>1 DEF ConnectionsTyped, Timer
  <2> QED
    BY <2>1, <2>2, <1>0, <1>1 DEF ConnectionsTyped
<1>6. AllInLine'
  <2> SUFFICES ASSUME NEW d \in Conns
               PROVE  InLine(EndedOf(d)', calling[d], notifyQueue[d], events[d], Latest)
    BY <1>1 DEF AllInLine
  <2>1. InLine(EndedOf(d), calling[d], notifyQueue[d], events[d], Latest)
    BY <1>0 DEF AllInLine
  <2>2. EndedOf(d)' \subseteq EndedOf(d)
    BY <1>1 DEF EndedOf
  <2>3. Latest \in Nat /\ calling[d] \in Nat
    BY <1>0, LenProperties DEF ConnectionsTyped, Latest
  <2> QED
    BY <2>1, <2>2, <2>3, LineLess
<1>7. ProxiesOK'
  BY <1>0, <1>1 DEF ProxiesOK
<1>8. TimersOK'
  BY <1>0, <1>1 DEF TimersOK
<1>9. PendingCounted'
  <2> SUFFICES ASSUME NEW d \in Conns, NEW x \in Action
               PROVE  Cardinality(Pending(d, x)') <= action'[d][x]
    BY <1>1 DEF PendingCounted
  <2>1. \A f \in Nat \ {0} : IsPending(d, f)' => IsPending(d, f)
    BY <1>1 DEF IsPending
  <2>2. Pending(d, x)' \subseteq Pending(d, x)
    <3>1. actionOf' = actionOf
      BY <1>1
    <3> QED
      BY <3>1, <2>1, <1>0, PendingShrinks
  <2>3. CASE action'[d][x] = action[d][x]
    <3>1. action[d][x] \in Nat
      BY <1>3
    <3> QED
      BY <3>1, <2>2, <2>3, <1>0, PendingKept
  <2>4. CASE action'[d][x] # action[d][x]
    <3>1. d = c /\ x = t.action /\ action'[d] = count /\ t.action \in Action
      BY <2>4, <1>1, <1>2, <1>3
    <3>2. t.event \in 1..Latest /\ actionOf[t.event] = x
      BY <3>1, <1>0, StaticConnectionAssumption DEF TimersOK
    <3>3. t.event \in Pending(d, x)
      BY <3>1, <3>2, StaticConnectionAssumption DEF Pending, IsPending, c
    <3>4. t.event \notin Pending(d, x)'
      <4>1. ~IsPending(d, t.event)'
        <5>1. InLine(EndedOf(c), calling[c], notifyQueue[c], events[c], Latest)
          BY <1>0, <1>1 DEF AllInLine
        <5>2. t.event \in EndedOf(c)
          BY DEF EndedOf, c
        <5>3. Latest \in Nat
          BY <1>0, LenProperties DEF ConnectionsTyped, Latest
        <5>4. /\ calling[c] # 0 => t.event < calling[c]
              /\ \A i \in DOMAIN notifyQueue[c] : t.event < notifyQueue[c][i]
          BY <5>1, <5>2 DEF InLine
        <5>5. /\ calling[c] # t.event
              /\ \A i \in DOMAIN notifyQueue[c] : notifyQueue[c][i] # t.event
          BY <5>3, <5>4, <3>2
        <5>6. \A u \in timers' : ~(u.conn = c /\ u.event = t.event)
          BY <1>0, <1>1 DEF TimersOK, c
        <5> QED
          BY <5>5, <5>6, <3>1, <1>1 DEF IsPending
      <4> QED
        BY <4>1 DEF Pending
    <3>5. Pending(d, x)' \subseteq Pending(d, x) \ {t.event}
      BY <2>2, <3>4
    <3>6. /\ Cardinality(Pending(d, x)) \in Nat \ {0}
          /\ Cardinality(Pending(d, x)') <= Cardinality(Pending(d, x)) - 1
      BY <3>3, <3>5, <1>0, PendingFinite, CardStep
    <3>7. Cardinality(Pending(d, x)) <= action[d][x] /\ action[d][x] \in Nat
      BY <1>0, <1>3 DEF PendingCounted
    <3>8. action'[d][x] = action[d][x] - 1
      BY <3>1, <3>6, <3>7, <1>3
    <3>9. Cardinality(Pending(d, x)') \in Nat
      <4>1. IsFiniteSet(Pending(d, x)')
        BY <2>2, <1>0, PendingFinite, FS_Subset
      <4> QED
        BY <4>1, FS_CardinalityType
    <3> QED
      BY <3>6, <3>7, <3>8, <3>9
  <2> QED
    BY <2>3, <2>4
<1>10. IdleIsTimed'
  <2> SUFFICES ASSUME NEW d \in Conns, idle[d] < Delay
               PROVE  \E u \in timers' : u.conn = d /\ u.action # NoAction /\ u.left = Delay - idle[d]
    BY <1>1 DEF IdleIsTimed
  <2>1. PICK u \in timers : u.conn = d /\ u.action # NoAction /\ u.left = Delay - idle[d]
    BY <1>0 DEF IdleIsTimed
  <2>2. u.left # 0
    BY <2>1, <1>0, StaticConnectionAssumption DEF ConnectionsTyped
  <2> QED
    BY <2>1, <2>2, <1>1
<1>11. DeliveredInOrder'
  BY <1>1 DEF ConnectionInv, DeliveredInOrder
<1> QED
  BY <1>5, <1>6, <1>7, <1>8, <1>9, <1>10, <1>11 DEF ConnectionInv

\* The steps in which no event arrives or ends and no time passes.
LEMMA QuietFrame ==
  ASSUME ConnectionInv, UNCHANGED <<idle, actionOf, created, timers, delivered>>
  PROVE  /\ TimersOK' /\ IdleIsTimed' /\ DeliveredInOrder'
         /\ Conns' = Conns /\ Latest' = Latest
         /\ \A d : EndedOf(d)' = EndedOf(d)
<1>1. Conns' = Conns /\ Latest' = Latest
  BY DEF Conns, Latest
<1>2. TimersOK' /\ IdleIsTimed' /\ DeliveredInOrder'
  BY <1>1 DEF ConnectionInv, TimersOK, IdleIsTimed, DeliveredInOrder
<1> QED
  BY <1>1, <1>2, EndedFrame

\* The cached events become notifications and entries of action_.
LEMMA OnAbilityConnectDoneStep ==
  ASSUME ConnectionInv, NEW c \in Conns, OnAbilityConnectDone(c)
  PROVE  ConnectionInv'
<1> USE DEF Free
<1> DEFINE at(x) == {i \in DOMAIN events[c] : actionOf[events[c][i]] = x}
<1>0. ConnectionsTyped /\ AllInLine /\ ProxiesOK /\ TimersOK /\ PendingCounted /\ IdleIsTimed
  BY DEF ConnectionInv
<1>1. UNCHANGED <<idle, actionOf, created, subscriberConnection, calling, timers, delivered>>
  BY DEF OnAbilityConnectDone
<1>2. /\ TimersOK' /\ IdleIsTimed' /\ DeliveredInOrder' /\ Conns' = Conns /\ Latest' = Latest
      /\ \A d : EndedOf(d)' = EndedOf(d)
  BY <1>1, QuietFrame
<1>3. /\ extension' = [extension EXCEPT ![c] = "up"]
      /\ proxy' = proxy \cup {c}
      /\ notifyQueue' = [notifyQueue EXCEPT ![c] = notifyQueue[c] \o events[c]]
      /\ action' = [action EXCEPT ![c] = Counted(action[c], events[c])]
      /\ events' = [events EXCEPT ![c] = <<>>]
  BY DEF OnAbilityConnectDone, NotifyCached
<1>4. /\ action \in [Conns -> [Action -> Nat]] /\ notifyQueue \in [Conns -> Seq(Nat)]
      /\ events \in [Conns -> Seq(Nat)] /\ calling \in [Conns -> Nat]
      /\ extension \in [Conns -> {"connecting", "up", "failed", "dead"}]
  BY <1>0 DEF ConnectionsTyped
<1>5. notifyQueue[c] \o events[c] \in Seq(Nat) /\ <<>> \in Seq(Nat)
  BY <1>4, ConcatAt, EmptyAt
<1>6. \A x \in Action : Cardinality(at(x)) \in Nat
  <2> SUFFICES ASSUME NEW x \in Action
               PROVE  Cardinality(at(x)) \in Nat
    OBVIOUS
  <2>1. at(x) \in SUBSET (DOMAIN events[c]) /\ {} \subseteq {} \cup {events[c][i] : i \in at(x)}
    OBVIOUS
  <2> HIDE DEF at
  <2> QED
    BY <2>1, <1>4, FS_EmptySet, CardImage
<1>7. /\ action' \in [Conns -> [Action -> Nat]]
      /\ \A x \in Action : action'[c][x] = action[c][x] + Cardinality(at(x))
      /\ \A d \in Conns : d # c => action'[d] = action[d]
  <2>1. \A x \in Action : Counted(action[c], events[c])[x] = action[c][x] + Cardinality(at(x))
    BY DEF Counted
  <2>2. \A x \in Action : action[c][x] + Cardinality(at(x)) \in Nat
    <3> HIDE DEF at
    <3> QED
      BY <1>4, <1>6
  <2>3. Counted(action[c], events[c]) \in [Action -> Nat]
    <3>1. Counted(action[c], events[c]) = [x \in Action |-> Counted(action[c], events[c])[x]]
      BY DEF Counted
    <3> QED
      BY <3>1, <2>1, <2>2
  <2> QED
    BY <2>1, <2>3, <1>3, <1>4
<1>8. /\ notifyQueue'[c] = notifyQueue[c] \o events[c] /\ events'[c] = <<>>
      /\ notifyQueue' \in [Conns -> Seq(Nat)] /\ events' \in [Conns -> Seq(Nat)]
      /\ \A d \in Conns : d # c => notifyQueue'[d] = notifyQueue[d] /\ events'[d] = events[d]
  BY <1>3, <1>4, <1>5
<1> HIDE DEF at
<1>9. ConnectionsTyped'
  <2>1. extension' \in [Conns -> {"connecting", "up", "failed", "dead"}]
    BY <1>3, <1>4
  <2>2. proxy' \in SUBSET Conns
    BY <1>0, <1>3 DEF ConnectionsTyped
  <2> QED
    BY <2>1, <2>2, <1>0, <1>1, <1>2, <1>7, <1>8 DEF ConnectionsTyped, Timer
<1>10. AllInLine'
  <2> SUFFICES ASSUME NEW d \in Conns
               PROVE  InLine(EndedOf(d), calling[d], notifyQueue'[d], events'[d], Latest)
    BY <1>1, <1>2 DEF AllInLine
  <2>1. InLine(EndedOf(d), calling[d], notifyQueue[d], events[d], Latest)
    BY <1>0 DEF AllInLine
  <2>2. Latest \in Nat /\ calling[d] \in Nat
    BY <1>0, LenProperties DEF ConnectionsTyped, Latest
  <2>3. CASE d = c
    BY <2>1, <2>2, <2>3, <1>4, <1>8, LineConnect
  <2>4. CASE d # c
    BY <2>1, <2>4, <1>8
  <2> QED
    BY <2>3, <2>4
<1>11. ProxiesOK'
  <2>1. Cached' = Cached
    BY <1>1 DEF Cached
  <2>2. \A d \in Conns : d # c => /\ extension'[d] = extension[d]
                                  /\ (d \in proxy' <=> d \in proxy)
    BY <1>3, <1>4
  <2>3. extension'[c] = "up" /\ c \in proxy'
    BY <1>3, <1>4
  <2> QED
    BY <2>1, <2>2, <2>3, <1>0, <1>1, <1>2, <1>8 DEF ProxiesOK
<1>12. PendingCounted'
  <2> SUFFICES ASSUME NEW d \in Conns, NEW x \in Action
               PROVE  Cardinality(Pending(d, x)') <= action'[d][x]
    BY <1>2 DEF PendingCounted
  <2>1. CASE d # c
    <3>1. \A f \in Nat \ {0} : IsPending(d, f)' => IsPending(d, f)
      BY <2>1, <1>1, <1>8 DEF IsPending
    <3>2. actionOf' = actionOf /\ action'[d][x] = action[d][x] /\ action[d][x] \in Nat
      BY <2>1, <1>1, <1>4, <1>7
    <3>3. Pending(d, x)' \subseteq Pending(d, x)
      BY <3>1, <3>2, <1>0, PendingShrinks
    <3> QED
      BY <3>2, <3>3, <1>0, PendingKept
  <2>2. CASE d = c
    <3>1. Pending(c, x)' \subseteq Pending(c, x) \cup {events[c][i] : i \in at(x)}
      <4> SUFFICES ASSUME NEW f \in Pending(c, x)'
                   PROVE  f \in Pending(c, x) \/ \E i \in at(x) : f = events[c][i]
        OBVIOUS
      <4>1. f \in 1..Latest /\ actionOf[f] = x /\ IsPending(c, f)'
        BY <1>1, <1>2 DEF Pending
      <4>2. ASSUME NEW j \in DOMAIN notifyQueue'[c], notifyQueue'[c][j] = f
            PROVE  \/ \E i \in DOMAIN notifyQueue[c] : notifyQueue[c][i] = f
                   \/ \E i \in DOMAIN events[c] : events[c][i] = f
        <5>1. notifyQueue[c] \in Seq(Nat) /\ events[c] \in Seq(Nat)
          BY <1>4
        <5>2. j \in DOMAIN (notifyQueue[c] \o events[c]) /\ (notifyQueue[c] \o events[c])[j] = f
          BY <4>2, <1>8
        <5>3. \/ \E i \in DOMAIN notifyQueue[c] : notifyQueue[c][i] = (notifyQueue[c] \o events[c])[j]
              \/ \E i \in DOMAIN events[c] : events[c][i] = (notifyQueue[c] \o events[c])[j]
          BY <5>1, <5>2, InConcat, Zenon
        <5> QED
          BY <5>2, <5>3
      <4>3. IsPending(c, f) \/ \E i \in DOMAIN events[c] : events[c][i] = f
        BY <4>1, <4>2, <1>1 DEF IsPending
      <4> QED
        BY <4>1, <4>3 DEF Pending, at
    <3>2. /\ at(x) \in SUBSET (DOMAIN events[c]) /\ IsFiniteSet(Pending(c, x))
          /\ Cardinality(Pending(c, x)) \in Nat
      BY <1>0, PendingFinite, FS_CardinalityType DEF at
    <3>3. Cardinality(Pending(c, x)') <= Cardinality(Pending(c, x)) + Cardinality(at(x))
      BY <3>1, <3>2, <1>4, CardImage
    <3>4. Cardinality(Pending(c, x)) <= action[c][x] /\ action[c][x] \in Nat
      BY <1>0, <1>4 DEF PendingCounted
    <3>5. Cardinality(Pending(c, x)') \in Nat
      <4>1. Pending(c, x)' \in SUBSET (1..Latest)
        BY <1>2 DEF Pending
      <4>2. IsFiniteSet(1..Latest)
        BY <1>0, LenProperties, FS_Interval DEF ConnectionsTyped, Latest
      <4> QED
        BY <4>1, <4>2, FS_Subset, FS_CardinalityType
    <3>6. action'[c][x] = action[c][x] + Cardinality(at(x)) /\ Cardinality(at(x)) \in Nat
      BY <1>6, <1>7
    <3> QED
      BY <3>2, <3>3, <3>4, <3>5, <3>6, <2>2
  <2> QED
    BY <2>1, <2>2
<1> QED
  BY <1>2, <1>9, <1>10, <1>11, <1>12 DEF ConnectionInv

\* A refused connection drops what it cached.
LEMMA OnAbilityConnectFailedStep ==
  ASSUME ConnectionInv, NEW c \in Conns, OnAbilityConnectFailed(c)
  PROVE  ConnectionInv'
<1> USE DEF Free
<1>0. ConnectionsTyped /\ AllInLine /\ ProxiesOK /\ TimersOK /\ PendingCounted /\ IdleIsTimed
  BY DEF ConnectionInv
<1>1. UNCHANGED <<idle, actionOf, created, subscriberConnection, proxy, action, notifyQueue, calling,
                  timers, delivered>>
  BY DEF OnAbilityConnectFailed
<1>2. /\ TimersOK' /\ IdleIsTimed' /\ DeliveredInOrder' /\ Conns' = Conns /\ Latest' = Latest
      /\ \A d : EndedOf(d)' = EndedOf(d)
  BY <1>1, QuietFrame
<1>3. /\ extension \in [Conns -> {"connecting", "up", "failed", "dead"}]
      /\ events \in [Conns -> Seq(Nat)] /\ <<>> \in Seq(Nat)
      /\ extension[c] = "connecting"
      /\ extension' = [extension EXCEPT ![c] = "failed"]
      /\ events' = [events EXCEPT ![c] = <<>>]
  BY <1>0, EmptyAt DEF OnAbilityConnectFailed, ConnectionsTyped
<1>4. ConnectionsTyped'
  <2>1. extension' \in [Conns -> {"connecting", "up", "failed", "dead"}] /\ events' \in [Conns -> Seq(Nat)]
    BY <1>3
  <2> QED
    BY <2>1, <1>0, <1>1, <1>2 DEF ConnectionsTyped, Timer
<1>5. AllInLine'
  <2> SUFFICES ASSUME NEW d \in Conns
               PROVE  InLine(EndedOf(d), calling[d], notifyQueue[d], events'[d], Latest)
    BY <1>1, <1>2 DEF AllInLine
  <2>1. InLine(EndedOf(d), calling[d], notifyQueue[d], events[d], Latest)
    BY <1>0 DEF AllInLine
  <2>2. Latest \in Nat /\ calling[d] \in Nat
    BY <1>0, LenProperties DEF ConnectionsTyped, Latest
  <2>3. events'[d] = events[d] \/ events'[d] = <<>>
    BY <1>3
  <2> QED
    BY <2>1, <2>2, <2>3, LineClear
<1>6. ProxiesOK'
  <2>1. Cached' = Cached
    BY <1>1 DEF Cached
  <2>2. \A d \in Conns : d # c => extension'[d] = extension[d] /\ events'[d] = events[d]
    BY <1>3
  <2>3. c \notin proxy /\ calling[c] = 0 /\ notifyQueue[c] = <<>>
    BY <1>0, <1>3 DEF ProxiesOK
  <2> QED
    BY <2>1, <2>2, <2>3, <1>0, <1>1, <1>2 DEF ProxiesOK
<1>7. PendingCounted'
  BY <1>0, <1>1, <1>2 DEF PendingCounted, Pending, IsPending
<1> QED
  BY <1>2, <1>4, <1>5, <1>6, <1>7 DEF ConnectionInv

\* The death of an extension changes nothing here.
LEMMA ExtensionDiesStep ==
  ASSUME ConnectionInv, NEW c \in Conns, ExtensionDies(c)
  PROVE  ConnectionInv'
<1>0. ConnectionsTyped /\ AllInLine /\ ProxiesOK /\ TimersOK /\ PendingCounted /\ IdleIsTimed
  BY DEF ConnectionInv
<1>1. UNCHANGED <<idle, actionOf, created, subscriberConnection, proxy, events, action, notifyQueue,
                  calling, timers, delivered>>
  BY DEF ExtensionDies
<1>2. /\ TimersOK' /\ IdleIsTimed' /\ DeliveredInOrder' /\ Conns' = Conns /\ Latest' = Latest
      /\ \A d : EndedOf(d)' = EndedOf(d)
  BY <1>1, QuietFrame
<1>3. /\ extension \in [Conns -> {"connecting", "up", "failed", "dead"}]
      /\ extension' = [extension EXCEPT ![c] = "dead"]
  BY <1>0 DEF ExtensionDies, ConnectionsTyped
<1>4. ConnectionsTyped'
  BY <1>0, <1>1, <1>2, <1>3 DEF ConnectionsTyped, Timer
<1>5. AllInLine'
  BY <1>0, <1>1, <1>2 DEF AllInLine
<1>6. ProxiesOK'
  <2>1. Cached' = Cached
    BY <1>1 DEF Cached
  <2> QED
    BY <2>1, <1>0, <1>1, <1>2, <1>3 DEF ProxiesOK
<1>7. PendingCounted'
  BY <1>0, <1>1, <1>2 DEF PendingCounted, Pending, IsPending
<1> QED
  BY <1>2, <1>4, <1>5, <1>6, <1>7 DEF ConnectionInv

\* The steps of a disconnection between its test and its end, and its start by
\* the death recipient.
LEMMA DroppingStep ==
  ASSUME ConnectionInv,
         TestAction \/ Clear \/ Erase \/ \E c \in Conns : RemoveConnection(c)
  PROVE  ConnectionInv'
<1>0. ConnectionsTyped /\ AllInLine /\ ProxiesOK /\ TimersOK /\ PendingCounted /\ IdleIsTimed
  BY DEF ConnectionInv
<1>1. UNCHANGED <<idle, actionOf, created, extension, events, action, notifyQueue, calling, timers,
                  delivered>>
  BY DEF TestAction, Clear, Erase, RemoveConnection
<1>2. /\ TimersOK' /\ IdleIsTimed' /\ DeliveredInOrder' /\ Conns' = Conns /\ Latest' = Latest
      /\ \A d : EndedOf(d)' = EndedOf(d)
  BY <1>1, QuietFrame
<1>3. /\ proxy' \subseteq proxy
      /\ \A k \in Key : subscriberConnection'[k] \in {0, subscriberConnection[k]}
      /\ subscriberConnection' \in [Key -> {0} \cup Conns]
  <2>1. CASE UNCHANGED subscriberConnection
    BY <2>1, <1>0 DEF TestAction, Clear, Erase, RemoveConnection, ConnectionsTyped
  <2>2. CASE Erase
    BY <2>2, <1>0 DEF Erase, ConnectionsTyped
  <2> QED
    BY <2>1, <2>2 DEF TestAction, Clear, RemoveConnection
<1>4. ConnectionsTyped'
  BY <1>0, <1>1, <1>2, <1>3 DEF ConnectionsTyped, Timer
<1>5. AllInLine'
  BY <1>0, <1>1, <1>2 DEF AllInLine
<1>6. ProxiesOK'
  BY <1>0, <1>1, <1>2, <1>3 DEF ProxiesOK
<1>7. PendingCounted'
  BY <1>0, <1>1, <1>2 DEF PendingCounted, Pending, IsPending
<1> QED
  BY <1>2, <1>4, <1>5, <1>6, <1>7 DEF ConnectionInv

\* The notification task takes the first submitted event, or skips it.
LEMMA StartNotifyStep ==
  ASSUME ConnectionInv, NEW c \in Conns, StartNotify(c)
  PROVE  ConnectionInv'
<1> USE DEF Free
<1>0. ConnectionsTyped /\ AllInLine /\ ProxiesOK /\ TimersOK /\ PendingCounted /\ IdleIsTimed
  BY DEF ConnectionInv
<1>1. UNCHANGED <<idle, actionOf, created, subscriberConnection, extension, proxy, events, action,
                  timers, delivered>>
  BY DEF StartNotify
<1>2. /\ TimersOK' /\ IdleIsTimed' /\ DeliveredInOrder' /\ Conns' = Conns /\ Latest' = Latest
      /\ \A d : EndedOf(d)' = EndedOf(d)
  BY <1>1, QuietFrame
<1>3. /\ notifyQueue \in [Conns -> Seq(Nat)] /\ calling \in [Conns -> Nat]
      /\ action \in [Conns -> [Action -> Nat]]
      /\ notifyQueue[c] # <<>> /\ calling[c] = 0
      /\ notifyQueue' = [notifyQueue EXCEPT ![c] = Tail(notifyQueue[c])]
      /\ calling' = [calling EXCEPT ![c] = IF c \in proxy THEN Head(notifyQueue[c]) ELSE 0]
  BY <1>0 DEF StartNotify, ConnectionsTyped
<1>4. Tail(notifyQueue[c]) \in Seq(Nat) /\ Head(notifyQueue[c]) \in Nat
  BY <1>3, TailAt
<1>5. /\ notifyQueue' \in [Conns -> Seq(Nat)] /\ calling' \in [Conns -> Nat]
      /\ notifyQueue'[c] = Tail(notifyQueue[c])
      /\ calling'[c] = IF c \in proxy THEN Head(notifyQueue[c]) ELSE 0
      /\ \A d \in Conns : d # c => notifyQueue'[d] = notifyQueue[d] /\ calling'[d] = calling[d]
  BY <1>3, <1>4
<1>6. ConnectionsTyped'
  BY <1>0, <1>1, <1>2, <1>5 DEF ConnectionsTyped, Timer
<1>7. AllInLine'
  <2> SUFFICES ASSUME NEW d \in Conns
               PROVE  InLine(EndedOf(d), calling'[d], notifyQueue'[d], events[d], Latest)
    BY <1>1, <1>2 DEF AllInLine
  <2>1. InLine(EndedOf(d), calling[d], notifyQueue[d], events[d], Latest)
    BY <1>0 DEF AllInLine
  <2>2. Latest \in Nat
    BY <1>0, LenProperties DEF ConnectionsTyped, Latest
  <2>3. CASE d # c
    BY <2>1, <2>3, <1>5
  <2>4. CASE d = c
    <3>1. /\ InLine(EndedOf(c), Head(notifyQueue[c]), Tail(notifyQueue[c]), events[c], Latest)
          /\ InLine(EndedOf(c), 0, Tail(notifyQueue[c]), events[c], Latest)
      BY <2>1, <2>2, <2>4, <1>3, LineStart
    <3> QED
      BY <3>1, <2>4, <1>5
  <2> QED
    BY <2>3, <2>4
<1>8. ProxiesOK'
  <2>1. Cached' = Cached
    BY <1>1 DEF Cached
  <2> QED
    BY <2>1, <1>0, <1>1, <1>2, <1>3, <1>5 DEF ProxiesOK
<1>9. PendingCounted'
  <2> SUFFICES ASSUME NEW d \in Conns, NEW x \in Action
               PROVE  Cardinality(Pending(d, x)') <= action'[d][x]
    BY <1>2 DEF PendingCounted
  <2>1. \A f \in Nat \ {0} : IsPending(d, f)' => IsPending(d, f)
    <3> SUFFICES ASSUME NEW f \in Nat \ {0}, IsPending(d, f)'
                 PROVE  IsPending(d, f)
      OBVIOUS
    <3>1. CASE d # c
      BY <3>1, <1>1, <1>5 DEF IsPending
    <3>2. CASE d = c
      <4>1. ASSUME NEW i \in DOMAIN notifyQueue'[c], notifyQueue'[c][i] = f
            PROVE  \E j \in DOMAIN notifyQueue[c] : notifyQueue[c][j] = f
        <5>1. notifyQueue[c] \in Seq(Nat)
          BY <1>3
        <5>2. i \in 1..(Len(notifyQueue[c]) - 1) /\ Len(notifyQueue[c]) \in Nat \ {0}
          BY <5>1, <1>3, <1>5, TailAt
        <5>3. i + 1 \in DOMAIN notifyQueue[c] /\ notifyQueue[c][i + 1] = f
          BY <5>1, <5>2, <4>1, <1>3, <1>5, TailAt
        <5> QED
          BY <5>3
      <4>2. calling'[c] = f => \E j \in DOMAIN notifyQueue[c] : notifyQueue[c][j] = f
        <5>1. /\ notifyQueue[c] \in Seq(Nat) /\ 1 \in DOMAIN notifyQueue[c]
              /\ Head(notifyQueue[c]) = notifyQueue[c][1]
          BY <1>3, TailAt
        <5> QED
          BY <5>1, <1>5
      <4> QED
        BY <4>1, <4>2, <3>2, <1>1 DEF IsPending
    <3> QED
      BY <3>1, <3>2
  <2>2. actionOf' = actionOf /\ action'[d][x] = action[d][x] /\ action[d][x] \in Nat
    BY <1>1, <1>3
  <2>3. Pending(d, x)' \subseteq Pending(d, x)
    BY <2>1, <2>2, <1>0, PendingShrinks
  <2> QED
    BY <2>2, <2>3, <1>0, PendingKept
<1> QED
  BY <1>2, <1>6, <1>7, <1>8, <1>9 DEF ConnectionInv

\* A notification ends and its delayed disconnection starts.
LEMMA EndNotifyStep ==
  ASSUME ConnectionInv, NEW c \in Conns, EndNotify(c), NEW e \in Nat, e = calling[c]
  PROVE  ConnectionInv'
<1> USE DEF Free
<1> DEFINE a == actionOf[e]
           new == [conn |-> c, action |-> a, event |-> e, left |-> Delay]
<1>0. ConnectionsTyped /\ AllInLine /\ ProxiesOK /\ TimersOK /\ PendingCounted /\ IdleIsTimed
  BY DEF ConnectionInv
<1>1. /\ e # 0
      /\ calling' = [calling EXCEPT ![c] = 0]
      /\ delivered' = delivered \/ delivered' = Append(delivered, <<e, c>>)
      /\ idle' = [idle EXCEPT ![c] = 0]
      /\ timers' = timers \cup {new}
      /\ UNCHANGED <<actionOf, created, subscriberConnection, extension, proxy, events, action,
                     notifyQueue>>
      /\ Conns' = Conns /\ Latest' = Latest
  BY DEF EndNotify, DisconnectServiceAbilityDelay, Conns, Latest
<1>2. /\ Latest \in Nat /\ actionOf \in Seq(Action)
      /\ InLine(EndedOf(c), e, notifyQueue[c], events[c], Latest)
  BY <1>0, LenProperties DEF ConnectionsTyped, Latest, AllInLine
<1>3. e \in 1..Latest /\ \A f \in EndedOf(c) : f < e
  BY <1>1, <1>2 DEF InLine
<1>4. a \in Action /\ a # NoAction
  BY <1>2, <1>3, ElementOfSeq, StaticConnectionAssumption DEF Latest
<1>5. /\ new \in Timer /\ new.conn = c /\ new.action = a /\ new.event = e /\ new.left = Delay
  BY <1>4, StaticConnectionAssumption DEF Timer
<1> HIDE DEF new
<1>6. /\ calling \in [Conns -> Nat] /\ idle \in [Conns -> 0..Delay] /\ 0 \in 0..Delay
      /\ delivered \in Seq(Nat \X Conns) /\ <<e, c>> \in Nat \X Conns
      /\ action \in [Conns -> [Action -> Nat]]
  BY <1>0, StaticConnectionAssumption DEF ConnectionsTyped
<1>7. /\ Len(delivered) \in Nat /\ DOMAIN delivered = 1..Len(delivered)
      /\ delivered' = Append(delivered, <<e, c>>) =>
           /\ delivered' \in Seq(Nat \X Conns)
           /\ DOMAIN delivered' = 1..(Len(delivered) + 1)
           /\ delivered'[Len(delivered) + 1] = <<e, c>>
           /\ \A i \in 1..Len(delivered) : delivered'[i] = delivered[i]
  <2>1. Len(delivered) \in Nat /\ DOMAIN delivered = 1..Len(delivered)
    BY <1>6, LenProperties
  <2>2. ASSUME delivered' = Append(delivered, <<e, c>>)
        PROVE  /\ delivered' \in Seq(Nat \X Conns) /\ Len(delivered') = Len(delivered) + 1
               /\ delivered'[Len(delivered) + 1] = <<e, c>>
               /\ \A i \in 1..Len(delivered) : delivered'[i] = delivered[i]
    BY <2>2, <1>6, AppendProperties
  <2>3. ASSUME delivered' = Append(delivered, <<e, c>>)
        PROVE  DOMAIN delivered' = 1..(Len(delivered) + 1)
    BY <2>2, <2>3, LenProperties
  <2> QED
    BY <2>1, <2>2, <2>3
<1>8. delivered' \in Seq(Nat \X Conns)
  BY <1>1, <1>6, <1>7
<1>9. ConnectionsTyped'
  <2>1. calling' \in [Conns -> Nat] /\ idle' \in [Conns -> 0..Delay]
    BY <1>1, <1>6
  <2>2. timers' \in SUBSET Timer
    BY <1>0, <1>1, <1>5 DEF ConnectionsTyped
  <2> QED
    BY <2>1, <2>2, <1>0, <1>1, <1>8 DEF ConnectionsTyped, Timer
<1>10. \A d \in Conns : EndedOf(d)' \subseteq EndedOf(d) \cup (IF d = c THEN {e} ELSE {})
  <2> SUFFICES ASSUME NEW d \in Conns, NEW f \in EndedOf(d)'
               PROVE  f \in EndedOf(d) \/ (d = c /\ f = e)
    OBVIOUS
  <2>1. \/ \E i \in DOMAIN delivered' : delivered'[i][2] = d /\ f = delivered'[i][1]
        \/ \E u \in timers' : u.conn = d /\ f = u.event
    BY DEF EndedOf
  <2>2. ASSUME NEW u \in timers', u.conn = d, f = u.event
        PROVE  f \in EndedOf(d) \/ (d = c /\ f = e)
    BY <2>2, <1>1, <1>5 DEF EndedOf
  <2>3. ASSUME NEW i \in DOMAIN delivered', delivered'[i][2] = d, f = delivered'[i][1]
        PROVE  f \in EndedOf(d) \/ (d = c /\ f = e)
    <3>1. CASE delivered' = delivered
      BY <3>1, <2>3 DEF EndedOf
    <3>2. CASE delivered' = Append(delivered, <<e, c>>) /\ i \in 1..Len(delivered)
      <4>1. i \in DOMAIN delivered /\ delivered[i] = delivered'[i]
        BY <3>2, <1>7
      <4> QED
        BY <4>1, <2>3 DEF EndedOf
    <3>3. CASE delivered' = Append(delivered, <<e, c>>) /\ i \notin 1..Len(delivered)
      <4>1. delivered'[i] = <<e, c>>
        BY <3>3, <2>3, <1>7
      <4> QED
        BY <4>1, <2>3
    <3> QED
      BY <3>1, <3>2, <3>3, <1>1
  <2> QED
    BY <2>1, <2>2, <2>3
<1>11. AllInLine'
  <2> SUFFICES ASSUME NEW d \in Conns
               PROVE  InLine(EndedOf(d)', calling'[d], notifyQueue[d], events[d], Latest)
    BY <1>1 DEF AllInLine
  <2>1. InLine(EndedOf(d), calling[d], notifyQueue[d], events[d], Latest) /\ calling[d] \in Nat
    BY <1>0, <1>6 DEF AllInLine
  <2>2. CASE d = c
    <3>1. InLine(EndedOf(c) \cup {e}, 0, notifyQueue[c], events[c], Latest)
      BY <1>2, LineEnd
    <3>2. EndedOf(d)' \subseteq EndedOf(c) \cup {e} /\ calling'[d] = 0
      BY <2>2, <1>1, <1>6, <1>10
    <3>3. InLine(EndedOf(d)', 0, notifyQueue[c], events[c], Latest)
      <4> DEFINE more == EndedOf(c) \cup {e}
                 less == EndedOf(d)'
      <4>1. InLine(more, 0, notifyQueue[c], events[c], Latest) /\ less \subseteq more
        BY <3>1, <3>2
      <4> HIDE DEF more, less
      <4>2. InLine(less, 0, notifyQueue[c], events[c], Latest)
        BY <4>1, <1>2, LineLess
      <4> QED
        BY <4>2 DEF less
    <3> QED
      BY <3>2, <3>3, <2>2
  <2>3. CASE d # c
    <3>1. EndedOf(d)' \subseteq EndedOf(d) /\ calling'[d] = calling[d]
      BY <2>3, <1>1, <1>6, <1>10
    <3> QED
      BY <3>1, <2>1, <1>2, LineLess
  <2> QED
    BY <2>2, <2>3
<1>12. ProxiesOK'
  <2>1. Cached' = Cached
    BY <1>1 DEF Cached
  <2> QED
    BY <2>1, <1>0, <1>1, <1>6 DEF ProxiesOK
<1>13. TimersOK'
  <2>1. \A t \in timers : ~(t.conn = c /\ t.event = e)
    <3> SUFFICES ASSUME NEW t \in timers, t.conn = c, t.event = e
                 PROVE  FALSE
      OBVIOUS
    <3>1. e \in EndedOf(c)
      BY DEF EndedOf
    <3> QED
      BY <3>1, <1>3
  <2>2. \A t, u \in timers' : t.conn = u.conn /\ t.event = u.event => t = u
    BY <2>1, <1>0, <1>1, <1>5 DEF TimersOK
  <2>3. ASSUME NEW t \in timers'
        PROVE  IF t.action = NoAction THEN t.event = 0
               ELSE t.event \in 1..Latest /\ actionOf[t.event] = t.action
    <3>1. CASE t = new
      BY <3>1, <1>3, <1>4, <1>5
    <3>2. CASE t \in timers
      BY <3>2, <1>0 DEF TimersOK
    <3> QED
      BY <3>1, <3>2, <1>1
  <2> QED
    BY <2>2, <2>3, <1>1 DEF TimersOK
<1>14. PendingCounted'
  <2> SUFFICES ASSUME NEW d \in Conns, NEW x \in Action
               PROVE  Cardinality(Pending(d, x)') <= action'[d][x]
    BY <1>1 DEF PendingCounted
  <2>1. \A f \in Nat \ {0} : IsPending(d, f)' => IsPending(d, f)
    BY <1>1, <1>5, <1>6 DEF IsPending
  <2>2. actionOf' = actionOf /\ action'[d][x] = action[d][x] /\ action[d][x] \in Nat
    BY <1>1, <1>6
  <2>3. Pending(d, x)' \subseteq Pending(d, x)
    BY <2>1, <2>2, <1>0, PendingShrinks
  <2> QED
    BY <2>2, <2>3, <1>0, PendingKept
<1>15. IdleIsTimed'
  <2> SUFFICES ASSUME NEW d \in Conns, idle'[d] < Delay
               PROVE  \E t \in timers' : t.conn = d /\ t.action # NoAction /\ t.left = Delay - idle'[d]
    BY <1>1 DEF IdleIsTimed
  <2>1. CASE d = c
    <3>1. idle'[d] = 0 /\ Delay - 0 = Delay
      BY <2>1, <1>1, <1>6, StaticConnectionAssumption
    <3> QED
      BY <3>1, <2>1, <1>1, <1>4, <1>5
  <2>2. CASE d # c
    <3>1. idle'[d] = idle[d]
      BY <2>2, <1>1, <1>6
    <3> QED
      BY <3>1, <1>0, <1>1 DEF IdleIsTimed
  <2> QED
    BY <2>1, <2>2
<1>16. DeliveredInOrder'
  <2>0. DeliveredInOrder
    BY DEF ConnectionInv
  <2>1. CASE delivered' = delivered
    BY <2>0, <2>1 DEF DeliveredInOrder
  <2>2. CASE delivered' = Append(delivered, <<e, c>>)
    <3> SUFFICES ASSUME NEW i \in DOMAIN delivered', NEW j \in DOMAIN delivered',
                        i < j, delivered'[i][2] = delivered'[j][2]
                 PROVE  delivered'[i][1] < delivered'[j][1]
      BY DEF DeliveredInOrder
    <3>1. i \in 1..Len(delivered) /\ delivered'[i] = delivered[i]
      BY <2>2, <1>7
    <3>2. CASE j \in 1..Len(delivered)
      BY <3>1, <3>2, <2>0, <2>2, <1>7 DEF DeliveredInOrder
    <3>3. CASE j = Len(delivered) + 1
      <4>1. delivered'[j][1] = e /\ delivered'[j][2] = c
        BY <3>3, <2>2, <1>7
      <4>2. delivered[i][1] \in EndedOf(c)
        BY <4>1, <3>1, <1>7 DEF EndedOf
      <4> QED
        BY <4>1, <4>2, <3>1, <1>3
    <3> QED
      BY <3>2, <3>3, <2>2, <1>7
  <2> QED
    BY <2>1, <2>2, <1>1
<1> QED
  BY <1>9, <1>11, <1>12, <1>13, <1>14, <1>15, <1>16 DEF ConnectionInv

\* Time passes for the delayed disconnections and for the connections alike.
LEMMA TickStep ==
  ASSUME ConnectionInv, Tick
  PROVE  ConnectionInv'
<1> USE DEF Free
<1> DEFINE later(t) == [t EXCEPT !.left = IF t.left > 0 THEN t.left - 1 ELSE 0]
<1>0. ConnectionsTyped /\ AllInLine /\ ProxiesOK /\ TimersOK /\ PendingCounted /\ IdleIsTimed
  BY DEF ConnectionInv
<1>1. /\ timers' = {later(t) : t \in timers}
      /\ idle' = [c \in Conn |-> IF idle[c] < Delay THEN idle[c] + 1 ELSE Delay]
      /\ UNCHANGED <<actionOf, created, subscriberConnection, extension, proxy, events, action,
                     notifyQueue, calling, delivered>>
      /\ Conns' = Conns /\ Latest' = Latest /\ Cached' = Cached
  BY DEF Tick, Conns, Latest, Cached
<1>2. \A t \in timers : /\ later(t) \in Timer
                        /\ later(t).conn = t.conn /\ later(t).action = t.action
                        /\ later(t).event = t.event
                        /\ t.left > 0 => later(t).left = t.left - 1
  <2> SUFFICES ASSUME NEW t \in timers
               PROVE  /\ later(t) \in Timer
                      /\ later(t).conn = t.conn /\ later(t).action = t.action
                      /\ later(t).event = t.event
                      /\ t.left > 0 => later(t).left = t.left - 1
    OBVIOUS
  <2>1. t \in Timer
    BY <1>0 DEF ConnectionsTyped
  <2>2. (IF t.left > 0 THEN t.left - 1 ELSE 0) \in 0..Delay
    BY <2>1, StaticConnectionAssumption DEF Timer
  <2> QED
    BY <2>1, <2>2 DEF Timer
<1> HIDE DEF later
<1>3. ConnectionsTyped'
  <2>1. timers' \in SUBSET Timer
    BY <1>1, <1>2
  <2>2. idle' \in [Conns -> 0..Delay]
    <3>1. Conn = Conns
      BY <1>0, LenProperties DEF ConnectionsTyped, Conn, Conns
    <3> QED
      BY <3>1, <1>0, <1>1, StaticConnectionAssumption DEF ConnectionsTyped
  <2> QED
    BY <2>1, <2>2, <1>0, <1>1 DEF ConnectionsTyped, Timer
<1>4. AllInLine'
  <2> SUFFICES ASSUME NEW d \in Conns
               PROVE  InLine(EndedOf(d)', calling[d], notifyQueue[d], events[d], Latest)
    BY <1>1 DEF AllInLine
  <2>1. InLine(EndedOf(d), calling[d], notifyQueue[d], events[d], Latest)
    BY <1>0 DEF AllInLine
  <2>2. Latest \in Nat /\ calling[d] \in Nat
    BY <1>0, LenProperties DEF ConnectionsTyped, Latest
  <2>3. EndedOf(d)' \subseteq EndedOf(d)
    BY <1>1, <1>2 DEF EndedOf
  <2> QED
    BY <2>1, <2>2, <2>3, LineLess
<1>5. ProxiesOK'
  BY <1>0, <1>1 DEF ProxiesOK
<1>6. TimersOK'
  <2>1. \A t \in timers' : IF t.action = NoAction THEN t.event = 0
                           ELSE t.event \in 1..Latest /\ actionOf[t.event] = t.action
    BY <1>0, <1>1, <1>2 DEF TimersOK
  <2>2. \A t, u \in timers' : t.conn = u.conn /\ t.event = u.event => t = u
    BY <1>0, <1>1, <1>2 DEF TimersOK
  <2> QED
    BY <2>1, <2>2, <1>1 DEF TimersOK
<1>7. PendingCounted'
  <2> SUFFICES ASSUME NEW d \in Conns, NEW x \in Action
               PROVE  Cardinality(Pending(d, x)') <= action'[d][x]
    BY <1>1 DEF PendingCounted
  <2>1. \A f \in Nat \ {0} : IsPending(d, f)' => IsPending(d, f)
    BY <1>1, <1>2 DEF IsPending
  <2>2. actionOf' = actionOf /\ action'[d][x] = action[d][x] /\ action[d][x] \in Nat
    BY <1>0, <1>1 DEF ConnectionsTyped
  <2>3. Pending(d, x)' \subseteq Pending(d, x)
    BY <2>1, <2>2, <1>0, PendingShrinks
  <2> QED
    BY <2>2, <2>3, <1>0, PendingKept
<1>8. IdleIsTimed'
  <2> SUFFICES ASSUME NEW d \in Conns, idle'[d] < Delay
               PROVE  \E t \in timers' : t.conn = d /\ t.action # NoAction /\ t.left = Delay - idle'[d]
    BY <1>1 DEF IdleIsTimed
  <2>1. Conn = Conns /\ idle[d] \in 0..Delay /\ Delay \in Nat
    BY <1>0, LenProperties, StaticConnectionAssumption DEF ConnectionsTyped, Conn, Conns
  <2>2. idle[d] < Delay /\ idle'[d] = idle[d] + 1
    BY <2>1, <1>1
  <2>3. PICK t \in timers : t.conn = d /\ t.action # NoAction /\ t.left = Delay - idle[d]
    BY <2>2, <1>0 DEF IdleIsTimed
  <2>4. t.left > 0 /\ t.left - 1 = Delay - idle'[d]
    BY <2>1, <2>2, <2>3
  <2>5. later(t) \in timers' /\ later(t).conn = d /\ later(t).action # NoAction /\ later(t).left = Delay - idle'[d]
    BY <2>3, <2>4, <1>1, <1>2
  <2> QED
    BY <2>5
<1>9. DeliveredInOrder'
  BY <1>1 DEF ConnectionInv, DeliveredInOrder
<1> QED
  BY <1>3, <1>4, <1>5, <1>6, <1>7, <1>8, <1>9 DEF ConnectionInv

(***************************************************************************)
(* The theorems                                                            *)
(***************************************************************************)

\* There is nothing yet when the service starts.
LEMMA InitConnection == Init => ConnectionInv
<1> SUFFICES ASSUME Init PROVE ConnectionInv
  OBVIOUS
<1>1. Len(<<>>) = 0 /\ 1..0 = {} /\ DOMAIN <<>> = {}
  BY EmptySeq, EmptyAt
<1>2. Conns = {}
  BY <1>1 DEF Init, Conns
<1>3. <<>> \in Seq(Action) /\ <<>> \in Seq(Key) /\ <<>> \in Seq(Nat \X Conns)
  BY EmptySeq
<1>4. \A S : <<>> \in [{} -> S]
  BY <1>1
<1>5. ConnectionsTyped
  BY <1>2, <1>3, <1>4 DEF Init, ConnectionsTyped
<1>6. AllInLine /\ ProxiesOK /\ PendingCounted /\ IdleIsTimed
  BY <1>2 DEF AllInLine, ProxiesOK, PendingCounted, IdleIsTimed
<1>7. TimersOK /\ DeliveredInOrder
  BY <1>1 DEF Init, TimersOK, DeliveredInOrder
<1> QED
  BY <1>5, <1>6, <1>7 DEF ConnectionInv

\* The connections and the events are numbered from 1.
LEMMA Numbered ==
  ASSUME ConnectionsTyped
  PROVE  /\ Conn = Conns /\ Event = 1..Latest
         /\ Latest \in Nat /\ Len(created) \in Nat
BY LenProperties DEF ConnectionsTyped, Conn, Conns, Event, Latest

\* Every step preserves the invariant.
LEMMA NextConnection ==
  ASSUME ConnectionInv, [Next]_vars
  PROVE  ConnectionInv'
<1>0. ConnectionsTyped /\ Conn = Conns
  BY Numbered DEF ConnectionInv
<1>1. ASSUME NEW k \in Key, NEW a \in Action, ConnectCached(k, a)
      PROVE  ConnectionInv'
  BY <1>1, ConnectCachedStep
<1>2. ASSUME NEW k \in Key, NEW a \in Action, ConnectNew(k, a)
      PROVE  ConnectionInv'
  <2>1. Len(created) \in Nat /\ Len(created) + 1 \in Nat /\ Latest + 1 \in Nat
    BY <1>0, Numbered
  <2> QED
    BY <2>1, <1>2, ConnectNewStep
<1>3. ASSUME NEW t \in timers, DisconnectAbility(t)
      PROVE  ConnectionInv'
  BY <1>3, DisconnectAbilityStep
<1>4. ASSUME NEW c \in Conn, OnAbilityConnectDone(c)
      PROVE  ConnectionInv'
  BY <1>0, <1>4, OnAbilityConnectDoneStep
<1>5. ASSUME NEW c \in Conn, OnAbilityConnectFailed(c)
      PROVE  ConnectionInv'
  BY <1>0, <1>5, OnAbilityConnectFailedStep
<1>6. ASSUME NEW c \in Conn, ExtensionDies(c)
      PROVE  ConnectionInv'
  BY <1>0, <1>6, ExtensionDiesStep
<1>7. ASSUME NEW c \in Conn, RemoveConnection(c)
      PROVE  ConnectionInv'
  BY <1>0, <1>7, DroppingStep
<1>8. ASSUME NEW c \in Conn, StartNotify(c)
      PROVE  ConnectionInv'
  BY <1>0, <1>8, StartNotifyStep
<1>9. ASSUME NEW c \in Conn, EndNotify(c)
      PROVE  ConnectionInv'
  <2>1. c \in Conns /\ calling[c] \in Nat
    BY <1>0 DEF ConnectionsTyped
  <2> QED
    BY <2>1, <1>9, EndNotifyStep
<1>10. CASE Tick
  BY <1>10, TickStep
<1>12. CASE TestAction \/ Clear \/ Erase
  BY <1>12, DroppingStep
<1>11. CASE UNCHANGED vars
  <2>1. UNCHANGED <<idle, actionOf, created, subscriberConnection, extension, proxy, events, action,
                    notifyQueue, calling, timers, delivered>>
    BY <1>11 DEF vars
  <2>2. /\ TimersOK' /\ IdleIsTimed' /\ DeliveredInOrder' /\ Conns' = Conns /\ Latest' = Latest
        /\ \A d : EndedOf(d)' = EndedOf(d)
    BY <2>1, QuietFrame
  <2>3. ConnectionsTyped'
    BY <2>1, <2>2 DEF ConnectionInv, ConnectionsTyped, Timer
  <2>4. AllInLine' /\ ProxiesOK'
    BY <2>1, <2>2 DEF ConnectionInv, AllInLine, ProxiesOK, Cached
  <2>5. PendingCounted'
    BY <2>1, <2>2 DEF ConnectionInv, PendingCounted, Pending, IsPending
  <2> QED
    BY <2>2, <2>3, <2>4, <2>5 DEF ConnectionInv
<1> QED
  BY <1>1, <1>2, <1>3, <1>4, <1>5, <1>6, <1>7, <1>8, <1>9, <1>10, <1>11, <1>12 DEF Next

\* The inductive invariant holds in every reachable state.
THEOREM ConnectionInvariance == Spec => []ConnectionInv
<1>1. Init => ConnectionInv
  BY InitConnection
<1>2. ConnectionInv /\ [Next]_vars => ConnectionInv'
  BY NextConnection
<1> QED
  BY <1>1, <1>2, PTL DEF Spec

\* No event is delivered twice over a connection, and a connection delivers
\* in the order in which the events arrived, whatever is cached before the
\* connect is done and however often the extension dies.
THEOREM DeliveredInOrderHolds == Spec => []DeliveredInOrder
<1>1. ConnectionInv => DeliveredInOrder
  BY DEF ConnectionInv
<1> QED
  BY <1>1, ConnectionInvariance, PTL

(***************************************************************************)
(* A disconnection, step by step                                           *)
(***************************************************************************)

\* A connection whose action_ is empty is used by nobody: there is an entry
\* for each notification that is submitted, under way or recent.
LEMMA EmptyIsUnused ==
  ASSUME ConnectionInv, NEW c \in Conns, IsEmptyAction(action[c])
  PROVE  Unused(c)
<1> USE DEF Free
<1>0. /\ ConnectionsTyped /\ AllInLine /\ IdleIsTimed
      /\ Event = 1..Latest /\ Latest \in Nat
  BY Numbered DEF ConnectionInv
<1>5. ASSUME NEW e \in 1..Latest
      PROVE  ~IsPending(c, e)
  <2>1. PICK x \in Action : x = actionOf[e]
    BY <1>0, ElementOfSeq DEF ConnectionsTyped, Latest
  <2>2. Cardinality(Pending(c, x)) <= 0
    BY DEF ConnectionInv, PendingCounted, IsEmptyAction
  <2>3. IsFiniteSet(Pending(c, x))
    <3>1. Pending(c, x) \in SUBSET (1..Latest) /\ IsFiniteSet(1..Latest)
      BY <1>0, FS_Interval DEF Pending
    <3> QED
      BY <3>1, FS_Subset
  <2>4. Cardinality(Pending(c, x)) \in Nat
    BY <2>3, FS_CardinalityType
  <2>5. Pending(c, x) = {}
    BY <2>2, <2>3, <2>4, FS_EmptySet
  <2> QED
    BY <2>1, <2>5 DEF Pending
<1>6. /\ InLine(EndedOf(c), calling[c], notifyQueue[c], events[c], Latest)
      /\ notifyQueue[c] \in Seq(Nat) /\ idle[c] \in 0..Delay
  BY <1>0 DEF AllInLine, ConnectionsTyped
<1>7. notifyQueue[c] = <<>>
  <2> SUFFICES ASSUME notifyQueue[c] # <<>>
               PROVE  FALSE
    OBVIOUS
  <2>1. 1 \in DOMAIN notifyQueue[c]
    BY <1>6, TailAt
  <2>2. PICK e \in 1..Latest : e = notifyQueue[c][1]
    BY <2>1, <1>6 DEF InLine
  <2> QED
    BY <2>1, <2>2, <1>5 DEF IsPending
<1>8. calling[c] = 0
  BY <1>0, <1>5, <1>6 DEF IsPending, InLine
<1>9. idle[c] = Delay
  <2> SUFFICES ASSUME idle[c] < Delay
               PROVE  FALSE
    BY <1>6, StaticConnectionAssumption
  <2>1. PICK u \in timers : u.conn = c /\ u.action # NoAction /\ u.left = Delay - idle[c]
    BY <1>0 DEF IdleIsTimed
  <2>2. PICK e \in 1..Latest : e = u.event
    BY <2>1 DEF ConnectionInv, TimersOK
  <2> QED
    BY <2>1, <2>2, <1>5 DEF IsPending
<1> QED
  BY <1>7, <1>8, <1>9 DEF Unused

\* What DroppingOK speaks of is the same for the old connections after a connect.
LEMMA ConnectNewFrame ==
  ASSUME ConnectionsTyped, NEW k \in Key, NEW a \in Action, ConnectNew(k, a)
  PROVE  /\ Len(created) \in Nat /\ Conns' = Conns \cup {Len(created) + 1}
         /\ notifyQueue'[Len(created) + 1] = <<>>
         /\ \A c \in Conns : /\ notifyQueue'[c] = notifyQueue[c]
                             /\ extension'[c] = extension[c]
                             /\ c \in Cached' => c \in Cached
<1>1. Len(created) \in Nat
  BY Numbered
<1>2. ASSUME NEW S, NEW f \in [Conns -> S], NEW x \in S
      PROVE  /\ \A c \in Conns : Append(f, x)[c] = f[c]
             /\ Append(f, x)[Len(created) + 1] = x
  <2>1. f \in Seq(S)
    BY <1>1 DEF Conns
  <2>2. Len(f) = Len(created)
    BY <2>1, <1>1, LenProperties DEF Conns
  <2> QED
    BY <2>1, <2>2, <1>1, AppendProperties DEF Conns
<1>3. notifyQueue' = Append(notifyQueue, <<>>) /\ <<>> \in Seq(Nat) /\ notifyQueue \in [Conns -> Seq(Nat)]
  BY EmptyAt DEF ConnectNew, ConnectionsTyped
<1>4. /\ extension' = Append(extension, "connecting")
      /\ extension \in [Conns -> {"connecting", "up", "failed", "dead"}]
  BY DEF ConnectNew, ConnectionsTyped
<1>5. /\ notifyQueue'[Len(created) + 1] = <<>>
      /\ \A c \in Conns : notifyQueue'[c] = notifyQueue[c]
  <2> DEFINE S == Seq(Nat)
  <2>1. notifyQueue \in [Conns -> S] /\ <<>> \in S
    BY <1>3
  <2> HIDE DEF S
  <2>2. /\ \A c \in Conns : Append(notifyQueue, <<>>)[c] = notifyQueue[c]
        /\ Append(notifyQueue, <<>>)[Len(created) + 1] = <<>>
    BY <1>2, <2>1
  <2> QED
    BY <1>3, <2>2
<1>6. \A c \in Conns : extension'[c] = extension[c]
  <2>1. "connecting" \in {"connecting", "up", "failed", "dead"}
    OBVIOUS
  <2> QED
    BY <2>1, <1>2, <1>4
<1>7. Conns' = Conns \cup {Len(created) + 1}
  <2>1. created' = Append(created, k) /\ created \in Seq(Key)
    BY DEF ConnectNew, ConnectionsTyped
  <2>2. Len(created') = Len(created) + 1
    BY <2>1, AppendProperties
  <2> QED
    BY <2>2, <1>1 DEF Conns
<1>8. \A c \in Conns : c \in Cached' => c \in Cached
  BY <1>1 DEF ConnectNew, Cached, Conns, ConnectionsTyped
<1> QED
  BY <1>1, <1>5, <1>6, <1>7, <1>8

\* Every step preserves DroppingOK.
LEMMA NextDropping ==
  ASSUME ConnectionInv, DroppingOK, [Next]_vars
  PROVE  DroppingOK'
<1> USE DEF Free
<1>0. /\ ConnectionsTyped /\ ProxiesOK /\ Conn = Conns /\ Len(created) \in Nat
      /\ DroppingTyped /\ StillUnused /\ QueueHasProxy
      /\ 0 \notin Conns
  BY Numbered DEF ConnectionInv, DroppingOK, Conns
<1>t. /\ notifyQueue \in [Conns -> Seq(Nat)] /\ calling \in [Conns -> Nat]
      /\ extension \in [Conns -> {"connecting", "up", "failed", "dead"}]
      /\ idle \in [Conns -> 0..Delay] /\ proxy \in SUBSET Conns
  BY <1>0 DEF ConnectionsTyped
<1>1. ASSUME NEW k \in Key, NEW a \in Action, ConnectCached(k, a)
      PROVE  DroppingOK'
  <2>1. /\ UNCHANGED <<created, subscriberConnection, extension, proxy, dropping>>
        /\ dropping = Unlocked /\ Conns' = Conns /\ Cached' = Cached
    BY <1>1 DEF ConnectCached, Conns, Cached
  <2>2. \A c \in Conns : notifyQueue'[c] = notifyQueue[c] \/ c \in proxy
    BY <1>1, <1>t DEF ConnectCached
  <2> QED
    BY <2>1, <2>2, <1>0 DEF DroppingOK, DroppingTyped, StillUnused, QueueHasProxy, CutLate, Unlocked,
                            Disconnection
<1>2. ASSUME NEW k \in Key, NEW a \in Action, ConnectNew(k, a)
      PROVE  DroppingOK'
  <2>1. dropping = Unlocked /\ UNCHANGED <<dropping, proxy>>
    BY <1>2 DEF ConnectNew
  <2>2. DroppingTyped' /\ StillUnused'
    BY <2>1, <1>0 DEF DroppingTyped, StillUnused, Unlocked, Disconnection
  <2>3. QueueHasProxy'
    BY <2>1, <1>0, <1>2, ConnectNewFrame DEF QueueHasProxy, CutLate, Unlocked, Disconnection
  <2> QED
    BY <2>2, <2>3 DEF DroppingOK
<1>3. ASSUME NEW t \in timers, DisconnectAbility(t)
      PROVE  DroppingOK'
  <2>1. /\ UNCHANGED <<created, subscriberConnection, extension, proxy, notifyQueue>>
        /\ Conns' = Conns /\ Cached' = Cached /\ dropping = Unlocked
    BY <1>3 DEF DisconnectAbility, Conns, Cached
  <2>2. \/ dropping' = dropping
        \/ dropping' = Disconnection(t.conn, "test", FALSE) /\ t.conn \in Cached /\ t.conn \in Conns
    BY <1>0, <1>3 DEF DisconnectAbility, ConnectionsTyped, Timer
  <2>3. DroppingTyped'
    <3>1. CASE dropping' = dropping
      BY <2>1, <3>1, <1>0 DEF DroppingTyped
    <3>2. CASE dropping' = Disconnection(t.conn, "test", FALSE) /\ t.conn \in Cached /\ t.conn \in Conns
      <4> DEFINE R == [conn : {0} \cup Conns, at : {"none", "test", "clear", "erase"}, connected : BOOLEAN]
      <4>1. dropping' \in R /\ dropping'.conn = t.conn /\ dropping'.at = "test"
        BY <3>2 DEF Disconnection
      <4> QED
        BY <4>1, <3>2, <2>1 DEF DroppingTyped
    <3> QED
      BY <2>2, <3>1, <3>2
  <2>4. dropping.at \notin {"clear", "erase"} /\ dropping'.at \notin {"clear", "erase"}
    BY <2>1, <2>2 DEF Unlocked, Disconnection
  <2>5. StillUnused' /\ QueueHasProxy'
    BY <2>1, <2>4, <1>0 DEF StillUnused, QueueHasProxy, CutLate
  <2> QED
    BY <2>3, <2>5 DEF DroppingOK
<1>4. CASE TestAction
  <2> DEFINE c == dropping.conn
  <2>1. /\ UNCHANGED <<created, subscriberConnection, extension, proxy, notifyQueue, calling, idle>>
        /\ Conns' = Conns /\ Cached' = Cached /\ dropping.at = "test"
    BY <1>4 DEF TestAction, Conns, Cached
  <2>2. c \in Cached /\ c \in Conns
    BY <2>1, <1>0 DEF DroppingTyped, Unlocked, Disconnection, Cached
  <2>3. \/ dropping' = Unlocked
        \/ dropping' = Disconnection(c, "clear", c \in proxy) /\ IsEmptyAction(action[c])
    BY <1>4 DEF TestAction
  <2>4. CASE dropping' = Unlocked
    BY <2>1, <2>4, <1>0 DEF DroppingOK, DroppingTyped, StillUnused, QueueHasProxy, CutLate, Unlocked,
                            Disconnection
  <2>5. CASE dropping' = Disconnection(c, "clear", c \in proxy) /\ IsEmptyAction(action[c])
    <3> HIDE DEF c
    <3>1. Unused(c)
      BY <2>2, <2>5, EmptyIsUnused
    <3>2. c \in proxy => extension[c] \in {"up", "dead"}
      BY <2>2, <1>0 DEF ProxiesOK
    <3>3. DroppingTyped'
      BY <2>1, <2>2, <2>5 DEF DroppingTyped, Disconnection
    <3>4. StillUnused'
      BY <2>1, <2>5, <3>1, <3>2 DEF StillUnused, Unused, Disconnection
    <3>5. QueueHasProxy'
      BY <2>1, <2>5, <1>0 DEF QueueHasProxy, CutLate, Disconnection
    <3> QED
      BY <3>3, <3>4, <3>5 DEF DroppingOK
  <2> QED
    BY <2>3, <2>4, <2>5
<1>5. CASE Clear
  <2>1. /\ UNCHANGED <<created, subscriberConnection, extension, notifyQueue, calling, idle>>
        /\ Conns' = Conns /\ Cached' = Cached /\ dropping.at = "clear"
        /\ proxy' = proxy \ {dropping.conn} /\ dropping' = [dropping EXCEPT !.at = "erase"]
    BY <1>5 DEF Clear, Conns, Cached
  <2>2. /\ dropping'.conn = dropping.conn /\ dropping'.at = "erase"
        /\ dropping'.connected = dropping.connected
        /\ dropping' \in [conn : {0} \cup Conns, at : {"none", "test", "clear", "erase"}, connected : BOOLEAN]
        /\ dropping.conn \in Cached
    BY <2>1, <1>0 DEF DroppingTyped, Unlocked, Disconnection
  <2>3. DroppingTyped'
    BY <2>1, <2>2 DEF DroppingTyped
  <2>4. StillUnused'
    BY <2>1, <2>2, <1>0 DEF StillUnused, Unused
  <2>5. QueueHasProxy'
    BY <2>1, <2>2, <1>0 DEF QueueHasProxy, StillUnused, Unused, CutLate
  <2> QED
    BY <2>3, <2>4, <2>5 DEF DroppingOK
<1>6. CASE Erase
  <2>1. /\ UNCHANGED <<created, extension, proxy, notifyQueue>>
        /\ Conns' = Conns /\ dropping' = Unlocked
    BY <1>6 DEF Erase, Conns
  <2>2. \A c \in Conns : c \in Cached' => c \in Cached /\ c # dropping.conn
    BY <1>0, <1>6 DEF Erase, Cached, ConnectionsTyped
  <2> QED
    BY <2>1, <2>2, <1>0 DEF DroppingOK, DroppingTyped, StillUnused, QueueHasProxy, CutLate, Unlocked,
                            Disconnection
<1>7. ASSUME NEW d \in Conns, OnAbilityConnectDone(d)
      PROVE  DroppingOK'
  <2>1. /\ UNCHANGED <<created, subscriberConnection, dropping, calling, idle>>
        /\ Conns' = Conns /\ Cached' = Cached /\ extension[d] = "connecting"
        /\ proxy' = proxy \cup {d}
    BY <1>7 DEF OnAbilityConnectDone, Conns, Cached
  <2>2. \A c \in Conns : c # d => extension'[c] = extension[c] /\ notifyQueue'[c] = notifyQueue[c]
    BY <1>7, <1>t DEF OnAbilityConnectDone
  <2> QED
    BY <2>1, <2>2, <1>0 DEF DroppingOK, DroppingTyped, StillUnused, Unused, QueueHasProxy, CutLate
<1>8. ASSUME NEW d \in Conns, OnAbilityConnectFailed(d) \/ ExtensionDies(d)
      PROVE  DroppingOK'
  <2>1. /\ UNCHANGED <<created, subscriberConnection, dropping, calling, idle, proxy, notifyQueue>>
        /\ Conns' = Conns /\ Cached' = Cached
        /\ \/ extension'[d] = "failed" /\ extension[d] = "connecting"
           \/ extension'[d] = "dead"
    BY <1>8, <1>t DEF OnAbilityConnectFailed, ExtensionDies, Conns, Cached
  <2>2. \A c \in Conns : c # d => extension'[c] = extension[c]
    BY <1>8, <1>t DEF OnAbilityConnectFailed, ExtensionDies
  <2> QED
    BY <2>1, <2>2, <1>0 DEF DroppingOK, DroppingTyped, StillUnused, Unused, QueueHasProxy, CutLate
<1>9. ASSUME NEW d \in Conns, RemoveConnection(d)
      PROVE  DroppingOK'
  <2>1. /\ UNCHANGED <<created, subscriberConnection, extension, proxy, notifyQueue>>
        /\ Conns' = Conns /\ Cached' = Cached /\ dropping = Unlocked
        /\ d \in Cached /\ extension[d] = "dead" /\ dropping' = Disconnection(d, "clear", TRUE)
    BY <1>9 DEF RemoveConnection, Conns, Cached
  <2> QED
    BY <2>1, <1>0 DEF DroppingOK, DroppingTyped, StillUnused, QueueHasProxy, CutLate, Unlocked,
                      Disconnection
<1>10. ASSUME NEW d \in Conns, StartNotify(d)
       PROVE  DroppingOK'
  <2>1. /\ UNCHANGED <<created, subscriberConnection, extension, proxy, dropping, idle>>
        /\ Conns' = Conns /\ Cached' = Cached /\ notifyQueue[d] # <<>>
    BY <1>10 DEF StartNotify, Conns, Cached
  <2>2. \A c \in Conns : c # d => notifyQueue'[c] = notifyQueue[c] /\ calling'[c] = calling[c]
    BY <1>10, <1>t DEF StartNotify
  <2> QED
    BY <2>1, <2>2, <1>0 DEF DroppingOK, DroppingTyped, StillUnused, Unused, QueueHasProxy, CutLate
<1>11. ASSUME NEW d \in Conns, EndNotify(d)
       PROVE  DroppingOK'
  <2>1. /\ UNCHANGED <<created, subscriberConnection, extension, proxy, dropping, notifyQueue>>
        /\ Conns' = Conns /\ Cached' = Cached /\ calling[d] # 0
    BY <1>11 DEF EndNotify, Conns, Cached
  <2>2. \A c \in Conns : c # d => calling'[c] = calling[c] /\ idle'[c] = idle[c]
    BY <1>11, <1>t DEF EndNotify
  <2> QED
    BY <2>1, <2>2, <1>0 DEF DroppingOK, DroppingTyped, StillUnused, Unused, QueueHasProxy, CutLate
<1>12. CASE Tick
  <2>1. /\ UNCHANGED <<created, subscriberConnection, extension, proxy, dropping, notifyQueue, calling>>
        /\ Conns' = Conns /\ Cached' = Cached
    BY <1>12 DEF Tick, Conns, Cached
  <2>2. \A c \in Conns : idle[c] = Delay => idle'[c] = Delay
    BY <1>0, <1>12, StaticConnectionAssumption DEF Tick
  <2>3. DroppingTyped' /\ QueueHasProxy'
    BY <2>1, <1>0 DEF DroppingTyped, QueueHasProxy, CutLate
  <2>4. StillUnused'
    BY <2>1, <2>2, <1>0 DEF StillUnused, Unused
  <2> QED
    BY <2>3, <2>4 DEF DroppingOK
<1>13. CASE UNCHANGED vars
  BY <1>13, <1>0 DEF vars, DroppingOK, DroppingTyped, StillUnused, Unused, QueueHasProxy, CutLate, Conns,
                     Cached
<1>14. ASSUME NEW d \in Conn, \/ OnAbilityConnectDone(d) \/ OnAbilityConnectFailed(d)
                              \/ ExtensionDies(d) \/ RemoveConnection(d)
                              \/ StartNotify(d) \/ EndNotify(d)
       PROVE  DroppingOK'
  BY <1>14, <1>0, <1>7, <1>8, <1>9, <1>10, <1>11
<1> QED
  BY <1>1, <1>2, <1>3, <1>4, <1>5, <1>6, <1>12, <1>13, <1>14 DEF Next

\* A disconnection goes on as its test left it.
LEMMA DroppingInvariance == Spec => []DroppingOK
<1>1. Init => DroppingOK
  <2> SUFFICES ASSUME Init PROVE DroppingOK
    OBVIOUS
  <2>1. dropping = Unlocked /\ subscriberConnection = [k \in Key |-> 0] /\ Conns = {}
    <3>1. Len(<<>>) = 0
      BY EmptySeq
    <3> QED
      BY <3>1 DEF Init, Conns
  <2> QED
    BY <2>1 DEF DroppingOK, DroppingTyped, StillUnused, QueueHasProxy, Unlocked, Disconnection
<1>2. ConnectionInv /\ DroppingOK /\ [Next]_vars => DroppingOK'
  BY NextDropping
<1> QED
  BY <1>1, <1>2, ConnectionInvariance, PTL DEF Spec

\* The variables keep their types: in particular a queue holds events that
\* have arrived, and a cached connection is that of its key.
THEOREM TypeCorrect == Spec => []TypeOK
<1>1. ASSUME ConnectionInv, DroppingOK
      PROVE  TypeOK
  <2>0. ConnectionsTyped /\ AllInLine
    BY <1>1 DEF ConnectionInv
  <2>1. /\ Conn = Conns /\ Event = 1..Latest /\ Latest \in Nat /\ Len(created) \in Nat
    BY <2>0, Numbered
  <2>2. ASSUME NEW s \in Seq(Nat), \A i \in DOMAIN s : s[i] \in Event
        PROVE  s \in Seq(Event)
    <3>1. DOMAIN s = 1..Len(s) /\ Len(s) \in Nat /\ s \in [1..Len(s) -> Nat]
      BY LenProperties
    <3> QED
      BY <3>1, <2>2
  <2>3. ASSUME NEW c \in Conns
        PROVE  /\ extension[c] \in {"connecting", "up", "failed", "dead"}
               /\ events[c] \in Seq(Event) /\ notifyQueue[c] \in Seq(Event)
               /\ action[c] \in [Action -> Nat]
               /\ calling[c] \in Event \union {Free}
               /\ idle[c] \in 0..Delay
    <3>1. InLine(EndedOf(c), calling[c], notifyQueue[c], events[c], Latest)
      BY <2>0 DEF AllInLine
    <3>2. /\ \A i \in DOMAIN events[c] : events[c][i] \in Event
          /\ \A i \in DOMAIN notifyQueue[c] : notifyQueue[c][i] \in Event
          /\ calling[c] \in Event \union {Free}
      BY <3>1, <2>1 DEF InLine, Free
    <3>3. events[c] \in Seq(Nat) /\ notifyQueue[c] \in Seq(Nat)
      BY <2>0 DEF ConnectionsTyped
    <3>4. events[c] \in Seq(Event) /\ notifyQueue[c] \in Seq(Event)
      BY <3>2, <3>3, <2>2
    <3> QED
      BY <3>2, <3>4, <2>0 DEF ConnectionsTyped
  <2>4. \A t \in timers : t.conn \in Conn /\ t.action \in Action \union {NoAction} /\ t.left \in 0..Delay
    BY <2>0, <2>1 DEF ConnectionsTyped, Timer
  <2>5. subscriberConnection \in [Key -> 0..Len(created)]
    <3>1. {0} \cup Conns = 0..Len(created)
      BY <2>1 DEF Conns
    <3> QED
      BY <3>1, <2>0 DEF ConnectionsTyped
  <2>6. \/ dropping = Unlocked
        \/ dropping.conn \in Cached /\ dropping.at \in {"test", "clear", "erase"}
    BY <1>1 DEF DroppingOK, DroppingTyped
  <2> QED
    BY <2>0, <2>1, <2>3, <2>4, <2>5, <2>6 DEF TypeOK, ConnectionsTyped
<1> QED
  BY <1>1, ConnectionInvariance, DroppingInvariance, PTL

\* AbilityManagerHelper does not cut a live extension that was connected at
\* the test of action_ while a notification is submitted or under way, nor
\* before the delay has passed since the last one ended: action_ has an entry
\* for each of them, and nobody submits one while mutex_ is held.
THEOREM NotCutEarlyHolds == Spec => NotCutEarly
<1>1. ASSUME ConnectionInv, DroppingOK, [Next]_vars, NEW c \in Conn,
             c \in proxy, c \notin proxy', extension[c] = "up", dropping.connected
      PROVE  notifyQueue[c] = <<>> /\ calling[c] = Free /\ idle[c] = Delay
  <2>1. Conn = Conns
    BY <1>1, Numbered DEF ConnectionInv
  <2>2. ASSUME NEW k \in Key, NEW a \in Action, ConnectCached(k, a) \/ ConnectNew(k, a)
        PROVE  FALSE
    BY <1>1, <2>2 DEF ConnectCached, ConnectNew
  <2>3. ASSUME NEW d \in Conn, \/ OnAbilityConnectDone(d) \/ OnAbilityConnectFailed(d)
                               \/ ExtensionDies(d) \/ RemoveConnection(d)
                               \/ StartNotify(d) \/ EndNotify(d)
        PROVE  FALSE
    BY <1>1, <2>3 DEF OnAbilityConnectDone, OnAbilityConnectFailed, ExtensionDies, RemoveConnection,
                      StartNotify, EndNotify
  <2>4. ~(\E t \in timers : DisconnectAbility(t)) /\ ~TestAction /\ ~Erase /\ ~Tick /\ ~UNCHANGED vars
    BY <1>1 DEF DisconnectAbility, TestAction, Erase, Tick, vars
  <2>5. Clear
    BY <1>1, <2>2, <2>3, <2>4 DEF Next
  <2> QED
    BY <1>1, <2>1, <2>5 DEF Clear, DroppingOK, StillUnused, Unused
<1>2. ConnectionInv /\ DroppingOK /\ [Next]_vars =>
        [\A c \in Conn :
           /\ c \in proxy /\ c \notin proxy' /\ extension[c] = "up"
           /\ dropping.connected
           => notifyQueue[c] = <<>> /\ calling[c] = Free /\ idle[c] = Delay]_vars
  BY <1>1
<1> QED
  BY <1>2, ConnectionInvariance, DroppingInvariance, PTL DEF Spec, NotCutEarly

\* The steps of WaitingIsKept.
LEMMA WaitingIsKeptStep ==
  ASSUME ConnectionInv, DroppingOK, [Next]_vars, NEW c \in Conn, NEW e \in Event,
         (\E i \in DOMAIN events[c] : events[c][i] = e) \/ InQueue(c, e),
         c \in Cached', extension'[c] \in {"connecting", "up"}, ~CutLate(c)
  PROVE  (\E i \in DOMAIN events'[c] : events'[c][i] = e) \/ InQueue(c, e)' \/ Delivered(e)'
<1> USE DEF Free
<1> DEFINE Kept == (\E i \in DOMAIN events'[c] : events'[c][i] = e) \/ InQueue(c, e)' \/ Delivered(e)'
<1>0. /\ ConnectionsTyped /\ ProxiesOK
      /\ Conn = Conns /\ Event = 1..Latest /\ Latest \in Nat /\ Len(created) \in Nat
  BY Numbered DEF ConnectionInv
<1>1. /\ events \in [Conns -> Seq(Nat)] /\ notifyQueue \in [Conns -> Seq(Nat)]
      /\ calling \in [Conns -> Nat] /\ c \in Conns /\ e \in Nat \ {0}
      /\ extension \in [Conns -> {"connecting", "up", "failed", "dead"}]
  BY <1>0 DEF ConnectionsTyped
<1>2. ASSUME events'[c] = events[c], notifyQueue'[c] = notifyQueue[c], calling'[c] = calling[c]
      PROVE  Kept
  BY <1>2 DEF InQueue
<1>3. ASSUME NEW k \in Key, NEW a \in Action, ConnectCached(k, a)
      PROVE  Kept
  <2> DEFINE n == Latest + 1
             d == subscriberConnection[k]
  <2>1. /\ calling' = calling /\ n \in Nat
        /\ \/ events' = events /\ notifyQueue' = [notifyQueue EXCEPT ![d] = Append(notifyQueue[d], n)]
           \/ notifyQueue' = notifyQueue /\ events' = [events EXCEPT ![d] = Append(events[d], n)]
    BY <1>0, <1>3 DEF ConnectCached, CacheEvent, Latest
  <2> HIDE DEF n, d
  <2>2. /\ events'[c] = events[c] \/ events'[c] = Append(events[c], n)
        /\ notifyQueue'[c] = notifyQueue[c] \/ notifyQueue'[c] = Append(notifyQueue[c], n)
    BY <2>1, <1>1
  <2>3. ASSUME NEW s \in Seq(Nat), NEW r, r = s \/ r = Append(s, n)
        PROVE  \A i \in DOMAIN s : i \in DOMAIN r /\ r[i] = s[i]
    <3>1. CASE r = s
      BY <3>1
    <3>2. CASE r = Append(s, n)
      <4>1. /\ DOMAIN s = 1..Len(s) /\ Len(s) \in Nat
            /\ DOMAIN r = 1..(Len(s) + 1)
            /\ \A i \in 1..Len(s) : r[i] = s[i]
        BY <3>2, <2>1, AppendAt
      <4> QED
        BY <4>1
    <3> QED
      BY <3>1, <3>2, <2>3
  <2>4. \A i \in DOMAIN events[c] : i \in DOMAIN events'[c] /\ events'[c][i] = events[c][i]
    BY <2>2, <2>3, <1>1
  <2>5. \A i \in DOMAIN notifyQueue[c] : i \in DOMAIN notifyQueue'[c] /\ notifyQueue'[c][i] = notifyQueue[c][i]
    BY <2>2, <2>3, <1>1
  <2> QED
    BY <2>1, <2>4, <2>5 DEF InQueue
<1>4. ASSUME NEW k \in Key, NEW a \in Action, ConnectNew(k, a)
      PROVE  Kept
  <2>1. ASSUME NEW S, NEW f \in [Conns -> S], NEW x \in S
        PROVE  Append(f, x)[c] = f[c]
    <3>1. f \in Seq(S) /\ Conns = 1..Len(created)
      BY <1>0 DEF Conns
    <3>2. Len(f) = Len(created)
      BY <3>1, <1>0, LenProperties
    <3> QED
      BY <3>1, <3>2, <1>1, AppendProperties
  <2>2. events' = Append(events, <<Latest + 1>>) /\ <<Latest + 1>> \in Seq(Nat)
    BY <1>0, <1>4 DEF ConnectNew, Latest
  <2>3. notifyQueue' = Append(notifyQueue, <<>>) /\ <<>> \in Seq(Nat)
    BY <1>4, EmptyAt DEF ConnectNew
  <2>4. calling' = Append(calling, 0)
    BY <1>4 DEF ConnectNew
  <2>5. events'[c] = events[c]
    BY <2>1, <2>2, <1>1
  <2>6. notifyQueue'[c] = notifyQueue[c]
    BY <2>1, <2>3, <1>1
  <2>7. calling'[c] = calling[c]
    BY <2>1, <2>4, <1>1
  <2> QED
    BY <2>5, <2>6, <2>7, <1>2
<1>5. ASSUME NEW t \in timers, DisconnectAbility(t)
      PROVE  Kept
  BY <1>2, <1>5 DEF DisconnectAbility
<1>6. ASSUME NEW d \in Conns, OnAbilityConnectDone(d)
      PROVE  Kept
  <2>1. CASE d # c
    BY <2>1, <1>1, <1>2, <1>6 DEF OnAbilityConnectDone
  <2>2. CASE d = c
    <3>1. notifyQueue'[c] = notifyQueue[c] \o events[c] /\ calling'[c] = calling[c]
      BY <2>2, <1>1, <1>6 DEF OnAbilityConnectDone, NotifyCached
    <3>2. /\ notifyQueue[c] \in Seq(Nat) /\ events[c] \in Seq(Nat)
      BY <1>1
    <3>3. /\ \A i \in DOMAIN notifyQueue[c] : i \in DOMAIN notifyQueue'[c] /\ notifyQueue'[c][i] = notifyQueue[c][i]
          /\ \A i \in DOMAIN events[c] : /\ Len(notifyQueue[c]) + i \in DOMAIN notifyQueue'[c]
                                         /\ notifyQueue'[c][Len(notifyQueue[c]) + i] = events[c][i]
      <4> DEFINE q == notifyQueue[c]
                 r == events[c]
      <4>1. q \in Seq(Nat) /\ r \in Seq(Nat)
        BY <3>2
      <4> HIDE DEF q, r
      <4>2. /\ \A i \in DOMAIN q : i \in DOMAIN (q \o r) /\ (q \o r)[i] = q[i]
            /\ \A i \in DOMAIN r : Len(q) + i \in DOMAIN (q \o r) /\ (q \o r)[Len(q) + i] = r[i]
        BY <4>1, ConcatAt
      <4> QED
        BY <4>2, <3>1 DEF q, r
    <3> QED
      BY <3>1, <3>3 DEF InQueue
  <2> QED
    BY <2>1, <2>2
<1>7. ASSUME NEW d \in Conns, OnAbilityConnectFailed(d)
      PROVE  Kept
  <2>1. d # c
    BY <1>1, <1>7 DEF OnAbilityConnectFailed
  <2> QED
    BY <2>1, <1>1, <1>2, <1>7 DEF OnAbilityConnectFailed
<1>8. ASSUME NEW d \in Conns, ExtensionDies(d) \/ RemoveConnection(d)
      PROVE  Kept
  BY <1>2, <1>8 DEF ExtensionDies, RemoveConnection
<1>9. ASSUME NEW d \in Conns, StartNotify(d)
      PROVE  Kept
  <2>1. CASE d # c
    BY <2>1, <1>1, <1>2, <1>9 DEF StartNotify
  <2>2. CASE d = c
    <3>1. /\ notifyQueue[c] # <<>> /\ calling[c] = 0 /\ events' = events
          /\ notifyQueue'[c] = Tail(notifyQueue[c])
          /\ calling'[c] = IF c \in proxy THEN Head(notifyQueue[c]) ELSE 0
          /\ c \in Cached /\ extension'[c] = extension[c]
      BY <2>2, <1>1, <1>9 DEF StartNotify, Cached
    <3>2. c \in proxy
      <4>1. extension[c] \in {"up", "dead"}
        BY <3>1, <1>0, <1>1 DEF ProxiesOK
      <4> QED
        BY <4>1, <3>1, <1>1 DEF DroppingOK, QueueHasProxy
    <3>3. /\ Len(notifyQueue[c]) \in Nat /\ DOMAIN notifyQueue[c] = 1..Len(notifyQueue[c])
          /\ DOMAIN notifyQueue'[c] = 1..(Len(notifyQueue[c]) - 1)
          /\ \A i \in 1..(Len(notifyQueue[c]) - 1) : notifyQueue'[c][i] = notifyQueue[c][i + 1]
          /\ calling'[c] = notifyQueue[c][1]
      BY <3>1, <3>2, <1>1, TailAt
    <3>4. ASSUME NEW i \in DOMAIN notifyQueue[c], i # 1
          PROVE  i - 1 \in DOMAIN notifyQueue'[c] /\ notifyQueue'[c][i - 1] = notifyQueue[c][i]
      <4>1. i - 1 \in 1..(Len(notifyQueue[c]) - 1) /\ (i - 1) + 1 = i
        BY <3>3, <3>4
      <4> QED
        BY <4>1, <3>3
    <3>5. ASSUME NEW i \in DOMAIN notifyQueue[c], notifyQueue[c][i] = e
          PROVE  InQueue(c, e)'
      <4>1. CASE i = 1
        BY <4>1, <3>3, <3>5 DEF InQueue
      <4>2. CASE i # 1
        BY <4>2, <3>4, <3>5 DEF InQueue
      <4> QED
        BY <4>1, <4>2
    <3>6. calling[c] # e
      BY <3>1, <1>1
    <3> QED
      BY <3>1, <3>5, <3>6 DEF InQueue
  <2> QED
    BY <2>1, <2>2
<1>10. ASSUME NEW d \in Conns, EndNotify(d)
       PROVE  Kept
  <2>1. events' = events /\ notifyQueue' = notifyQueue /\ extension' = extension
    BY <1>10 DEF EndNotify
  <2>2. CASE d # c \/ calling[c] # e
    <3>1. calling'[c] = calling[c] \/ calling[c] # e
      BY <2>2, <1>1, <1>10 DEF EndNotify
    <3> QED
      BY <3>1, <2>1 DEF InQueue
  <2>3. CASE d = c /\ calling[c] = e
    <3>1. extension[c] = "up"
      BY <2>1, <2>3, <1>0, <1>1 DEF ProxiesOK
    <3>2. delivered' = Append(delivered, <<e, c>>)
      BY <3>1, <2>3, <1>10 DEF EndNotify
    <3>3. delivered \in Seq(Nat \X Conns) /\ <<e, c>> \in Nat \X Conns
      BY <1>0, <1>1 DEF ConnectionsTyped
    <3>4. /\ delivered' \in Seq(Nat \X Conns) /\ Len(delivered') = Len(delivered) + 1
          /\ delivered'[Len(delivered) + 1] = <<e, c>>
      BY <3>2, <3>3, AppendProperties
    <3>5. Len(delivered) + 1 \in DOMAIN delivered'
      BY <3>3, <3>4, LenProperties
    <3>6. PICK i \in DOMAIN delivered' : delivered'[i] = <<e, c>>
      BY <3>4, <3>5
    <3> QED
      BY <3>6 DEF Delivered
  <2> QED
    BY <2>2, <2>3
<1>11. ASSUME Tick
       PROVE  Kept
  BY <1>2, <1>11 DEF Tick
<1>14. ASSUME TestAction \/ Clear \/ Erase
       PROVE  Kept
  BY <1>2, <1>14 DEF TestAction, Clear, Erase
<1>12. ASSUME UNCHANGED vars
       PROVE  Kept
  BY <1>2, <1>12 DEF vars
<1> HIDE DEF Kept
<1>13. Kept
  <2>1. ASSUME NEW d \in Conn, \/ OnAbilityConnectDone(d) \/ OnAbilityConnectFailed(d)
                               \/ ExtensionDies(d) \/ RemoveConnection(d)
                               \/ StartNotify(d) \/ EndNotify(d)
        PROVE  Kept
    BY <2>1, <1>0, <1>6, <1>7, <1>8, <1>9, <1>10
  <2>2. ASSUME NEW k \in Key, NEW a \in Action, ConnectCached(k, a) \/ ConnectNew(k, a)
        PROVE  Kept
    BY <2>2, <1>3, <1>4
  <2> QED
    BY <2>1, <2>2, <1>5, <1>11, <1>12, <1>14 DEF Next
<1> QED
  BY <1>13 DEF Kept

\* What waits in a cached connection whose extension is connecting or alive
\* stays there until it is delivered: no step of the helper, of the ability
\* manager or of the notification task loses it, unless the connect was done
\* after the test of the disconnection under way.
THEOREM WaitingIsKeptHolds == Spec => WaitingIsKept
<1>1. ConnectionInv /\ DroppingOK /\ [Next]_vars =>
        [\A c \in Conn, e \in Event :
           /\ (\E i \in DOMAIN events[c] : events[c][i] = e) \/ InQueue(c, e)
           /\ c \in Cached' /\ extension'[c] \in {"connecting", "up"} /\ ~CutLate(c)
           => (\E i \in DOMAIN events'[c] : events'[c][i] = e) \/ InQueue(c, e)' \/ Delivered(e)']_vars
  BY WaitingIsKeptStep
<1> QED
  BY <1>1, ConnectionInvariance, DroppingInvariance, PTL DEF Spec, WaitingIsKept
=============================================================================
