-------------------------- MODULE PublicationProofs --------------------------
(***************************************************************************)
(* Proofs about Publication, for any callers, requests, accounts, flood    *)
(* limit and permissions.  PublicationInv is inductive: it relates the     *)
(* flood window to the log of publications, the service queue to the       *)
(* states of the publications in it, and a subscriber record to the        *)
(* request it comes from.                                                  *)
(***************************************************************************)
EXTENDS Publication, TLAPS, SequenceTheorems, FiniteSetTheorems, WellFoundedInduction

(***************************************************************************)
(* The inductive invariant                                                 *)
(***************************************************************************)

Attempt == [caller : Caller, request : PublishRequest, time : 0..MaxTime,
            state : {"flooded", "queued", "refused", "published"}]

PublishTaskOf == [kind : {"publish"}, event : Nat]
SubscribeTaskOf == [kind : {"subscribe"}, listener : Listener, request : SubscribeRequest]
UnsubscribeTaskOf == [kind : {"unsubscribe"}, listener : Listener]
Task == PublishTaskOf \cup SubscribeTaskOf \cup UnsubscribeTaskOf

\* The record SubscribeTask makes of a request.
SubscriberOf(l, r) ==
  [caller |-> Owner[l], from |-> ComeFrom(Owner[l], FALSE), info |-> r.info,
   userId |-> ResolvedUserId(Owner[l], FALSE, r.userId)]

Subscriber == {SubscriberOf(l, r) : l \in Listener, r \in SubscribeRequest}

StateTyped ==
  /\ now \in 0..MaxTime
  /\ attempts \in Seq(Attempt)
  /\ floodAttackAppStatistics \in [Uids -> Seq(0..now)]
  /\ srvQueue \in Seq(Task)
  /\ stickyEvents \in [Actions -> Nat]
  /\ subscribers \in [Listener -> {None} \cup Subscriber]
  /\ toStatic \in SUBSET DOMAIN attempts
  /\ deliveries \in SUBSET [event : DOMAIN attempts, listener : Listener, replay : BOOLEAN]

\* A subscriber record was made for its listener, of a request that was allowed.
SubscribersEntitled ==
  \A l \in Listener : subscribers[l] # None =>
    \E r \in SubscribeRequest : SubscribeAllowed(l, r) /\ subscribers[l] = SubscriberOf(l, r)

\* The publications in the service queue are the undecided ones, in their
\* order, and whatever is published came before them.
QueueInOrder ==
  /\ \A i \in DOMAIN srvQueue : srvQueue[i].kind = "publish" =>
       /\ srvQueue[i].event \in DOMAIN attempts
       /\ attempts[srvQueue[i].event].state = "queued"
       /\ \A n \in DOMAIN attempts : attempts[n].state = "published" => n < srvQueue[i].event
  /\ \A i, j \in DOMAIN srvQueue :
       i < j /\ srvQueue[i].kind = "publish" /\ srvQueue[j].kind = "publish"
         => srvQueue[i].event < srvQueue[j].event

\* The table holds publications of the event it holds them for.
StickyOfAction ==
  \A action \in Actions :
    LET i == stickyEvents[action]
    IN i # 0 => i \in DOMAIN attempts /\ attempts[i].request.want.action = action

\* The publications of the application of publication i, from i on.
Since(i) == {k \in i..Len(attempts) : attempts[k].caller.uid = attempts[i].caller.uid}

\* At time t a window w takes account of a publication with `rank' publications
\* of its application from it on: a recent one is in it, and one that is in it is
\* there with its time.
Counted(w, rank, time, t) ==
  /\ t - time <= FloodInterval => rank <= Len(w)
  /\ rank <= Len(w) => w[Len(w) + 1 - rank] = time

WindowKept ==
  \A i \in DOMAIN attempts :
    Counted(floodAttackAppStatistics[attempts[i].caller.uid], Cardinality(Since(i)),
            attempts[i].time, now)

PublicationInv ==
  /\ StateTyped
  /\ SubscribersEntitled
  /\ QueueInOrder
  /\ StickyOfAction
  /\ WindowKept
  /\ FloodBound
  /\ UserIsolation
  /\ StickyNewest
  /\ StickyReachesAll

(***************************************************************************)
(* Sets of numbers and sequences                                           *)
(***************************************************************************)

\* Min finds the least element of a set of natural numbers.
LEMMA LeastNatural ==
  ASSUME NEW T \in SUBSET Nat, T # {}
  PROVE  Min(T) \in T /\ \A y \in T : Min(T) <= y
<1>1. PICK x \in T : \A y \in T : ~(<<y, x>> \in OpToRel(<, Nat))
  BY NatLessThanWellFounded, WFMin, Zenon
<1>2. \A y \in T : x <= y
  <2> SUFFICES ASSUME NEW y \in T, y < x
               PROVE  FALSE
    OBVIOUS
  <2>1. <<y, x>> \in OpToRel(<, Nat)
    BY DEF OpToRel
  <2> QED
    BY <2>1, <1>1
<1> QED
  BY <1>2 DEF Min

\* What an append to the log does, index by index.
LEMMA AppendAttempt ==
  ASSUME NEW s \in Seq(Attempt), NEW x \in Attempt
  PROVE  /\ Append(s, x) \in Seq(Attempt)
         /\ Len(s) \in Nat /\ DOMAIN s = 1..Len(s)
         /\ Len(Append(s, x)) = Len(s) + 1 /\ DOMAIN Append(s, x) = 1..(Len(s) + 1)
         /\ \A i \in 1..Len(s) : Append(s, x)[i] = s[i]
         /\ Append(s, x)[Len(s) + 1] = x
BY AppendProperties, LenProperties

\* The same for the service queue.
LEMMA AppendTask ==
  ASSUME NEW s \in Seq(Task), NEW x \in Task
  PROVE  /\ Append(s, x) \in Seq(Task)
         /\ Len(s) \in Nat /\ DOMAIN s = 1..Len(s)
         /\ DOMAIN Append(s, x) = 1..(Len(s) + 1)
         /\ \A i \in 1..Len(s) : Append(s, x)[i] = s[i]
         /\ Append(s, x)[Len(s) + 1] = x
BY AppendProperties, LenProperties

\* The same for the removal of the first task.
LEMMA TailTask ==
  ASSUME NEW s \in Seq(Task), s # <<>>
  PROVE  /\ Tail(s) \in Seq(Task)
         /\ Len(s) \in Nat \ {0} /\ DOMAIN s = 1..Len(s)
         /\ Head(s) = s[1] /\ s[1] \in Task
         /\ DOMAIN Tail(s) = 1..(Len(s) - 1)
         /\ \A i \in 1..(Len(s) - 1) : Tail(s)[i] = s[i + 1]
<1>1. Len(s) \in Nat /\ Len(s) # 0 /\ DOMAIN s = 1..Len(s)
  BY LenProperties, EmptySeq
<1>2. /\ Tail(s) \in Seq(Task) /\ Len(Tail(s)) = Len(s) - 1
      /\ \A i \in 1..(Len(s) - 1) : Tail(s)[i] = s[i + 1]
  BY HeadTailProperties
<1>3. DOMAIN Tail(s) = 1..(Len(s) - 1)
  BY <1>2, LenProperties
<1>4. Head(s) = s[1] /\ s[1] \in Task
  BY <1>1, ElementOfSeq
<1> QED
  BY <1>1, <1>2, <1>3, <1>4

\* The log after decision d on publication n.
Decided(s, n, d) == [s EXCEPT ![n].state = d]

\* Log t is s but for the state of publication n, which is d.
DiffersInState(s, t, n, d) ==
  /\ t \in Seq(Attempt)
  /\ Len(t) = Len(s) /\ DOMAIN t = DOMAIN s
  /\ \A i \in DOMAIN s :
       /\ t[i].caller = s[i].caller /\ t[i].request = s[i].request
       /\ t[i].time = s[i].time
       /\ i # n => t[i].state = s[i].state
  /\ t[n].state = d

\* What a decision changes in the log.
LEMMA DecideAttempt ==
  ASSUME NEW s \in Seq(Attempt), NEW n \in DOMAIN s, NEW d \in {"refused", "published"}
  PROVE  DiffersInState(s, Decided(s, n, d), n, d)
<1> DEFINE t == Decided(s, n, d)
<1> DEFINE x == [s[n] EXCEPT !.state = d]
<1>0. DOMAIN s = 1..Len(s) /\ Len(s) \in Nat /\ \A i \in DOMAIN s : s[i] \in Attempt
  BY LenProperties, ElementOfSeq
<1>1. s[n] \in Attempt
  BY <1>0
<1>2. /\ x \in Attempt
      /\ x.caller = s[n].caller /\ x.request = s[n].request
      /\ x.time = s[n].time /\ x.state = d
  BY <1>1 DEF Attempt
<1>3. t = [s EXCEPT ![n] = x]
  BY DEF Decided
<1> HIDE DEF x, t
<1>4. t \in Seq(Attempt) /\ Len(t) = Len(s)
  BY <1>2, <1>0, <1>3, ExceptSeq
<1>5. DOMAIN t = DOMAIN s /\ \A i \in DOMAIN s : t[i] = IF i = n THEN x ELSE s[i]
  BY <1>0, <1>3
<1>6. \A i \in DOMAIN s :
         /\ t[i].caller = s[i].caller /\ t[i].request = s[i].request
         /\ t[i].time = s[i].time
         /\ i # n => t[i].state = s[i].state
  BY <1>5, <1>2
<1>7. t[n].state = d
  BY <1>5, <1>2
<1> QED
  BY <1>5, <1>6, <1>4, <1>7 DEF DiffersInState, t

(***************************************************************************)
(* The flood window                                                        *)
(***************************************************************************)

\* DropExpired cuts off a front part of the window, and nothing in it is recent.
LEMMA DropExpiredCuts ==
  ASSUME NEW m \in Nat, NEW w \in Seq(0..m)
  PROVE  \E k \in 0..Len(w) :
           /\ DropExpired(w, m) \in Seq(0..m)
           /\ Len(DropExpired(w, m)) = Len(w) - k
           /\ \A q \in 1..(Len(w) - k) : DropExpired(w, m)[q] = w[q + k]
           /\ \A p \in 1..Len(w) : m - w[p] <= FloodInterval => k < p
<1> DEFINE S == 0..m
           kept == {i \in DOMAIN w : m - w[i] <= FloodInterval}
<1>0. /\ w \in Seq(S) /\ Len(w) \in Nat /\ DOMAIN w = 1..Len(w)
      /\ \A i \in 1..Len(w) : w[i] \in S
  BY LenProperties, ElementOfSeq
<1>1. CASE kept = {}
  <2>1. DropExpired(w, m) = <<>>
    BY <1>1 DEF DropExpired
  <2> HIDE DEF S
  <2>2. <<>> \in Seq(S) /\ Len(<<>>) = 0
    BY EmptySeq
  <2>3. \A p \in 1..Len(w) : ~(m - w[p] <= FloodInterval)
    BY <1>0, <1>1
  <2> WITNESS Len(w) \in 0..Len(w)
  <2> QED
    BY <1>0, <2>1, <2>2, <2>3 DEF S
<1>2. CASE kept # {}
  <2> DEFINE a == Min(kept)
  <2>1. kept \in SUBSET Nat
    BY <1>0
  <2>2. a \in kept /\ \A y \in kept : a <= y
    BY <2>1, <1>2, LeastNatural
  <2>3. DropExpired(w, m) = SubSeq(w, a, Len(w))
    BY <1>2 DEF DropExpired
  <2>4. a \in 1..Len(w) /\ \A p \in 1..Len(w) : m - w[p] <= FloodInterval => a <= p
    BY <2>2, <1>0
  <2> HIDE DEF a, kept, S
  <2>5. \A i \in a..Len(w) : w[i] \in S
    BY <1>0, <2>4
  <2>6. /\ SubSeq(w, a, Len(w)) \in Seq(S)
        /\ Len(SubSeq(w, a, Len(w))) = IF a <= Len(w) THEN Len(w) - a + 1 ELSE 0
        /\ \A i \in 1..(Len(w) - a + 1) : SubSeq(w, a, Len(w))[i] = w[a + i - 1]
    <3>1. a \in Int /\ Len(w) \in Int
      BY <1>0, <2>4
    <3> QED
      BY <3>1, <2>5, SubSeqProperties
  <2>7. Len(w) - (a - 1) = Len(w) - a + 1 /\ a - 1 \in 0..Len(w) /\ a <= Len(w)
    BY <2>4, <1>0
  <2>8. \A q \in 1..(Len(w) - (a - 1)) : SubSeq(w, a, Len(w))[q] = w[q + (a - 1)]
    BY <2>4, <2>6, <2>7, <1>0
  <2>9. \A p \in 1..Len(w) : m - w[p] <= FloodInterval => a - 1 < p
    BY <2>4
  <2> QED
    BY <2>3, <2>6, <2>7, <2>8, <2>9 DEF S
<1> QED
  BY <1>1, <1>2

\* The number of publications of an application from one of them on.
LEMMA RankIsNat ==
  ASSUME StateTyped, NEW i \in DOMAIN attempts
  PROVE  IsFiniteSet(Since(i)) /\ Cardinality(Since(i)) \in Nat
<1>1. Len(attempts) \in Nat /\ i \in Nat
  BY LenProperties DEF StateTyped
<1>2. IsFiniteSet(i..Len(attempts))
  BY <1>1, FS_Interval
<1>3. Since(i) \in SUBSET (i..Len(attempts))
  BY DEF Since
<1> QED
  BY <1>2, <1>3, FS_Subset, FS_CardinalityType

\* In all but PublishCommonEvent the log keeps its length, and a publication
\* keeps its caller, its request and its time.
SameLog ==
  /\ Len(attempts') = Len(attempts) /\ DOMAIN attempts' = DOMAIN attempts
  /\ \A i \in DOMAIN attempts :
       /\ attempts'[i].caller = attempts[i].caller
       /\ attempts'[i].request = attempts[i].request
       /\ attempts'[i].time = attempts[i].time
       /\ attempts[i].state = "flooded" => attempts'[i].state = "flooded"

\* What a publication adds: the log is longer by it, the window is cut and has

\* its time at the end, and it passes only if the window has room.
LEMMA PublishFacts ==
  ASSUME StateTyped, NEW c \in Caller, NEW r \in PublishRequest, PublishCommonEvent(c, r),
         NEW n \in Nat, n = Len(attempts)
  PROVE  /\ c.uid \in Uids
         /\ attempts' \in Seq(Attempt)
         /\ Len(attempts') = n + 1 /\ DOMAIN attempts' = 1..(n + 1) /\ DOMAIN attempts = 1..n
         /\ \A i \in 1..n : attempts[i] \in Attempt /\ attempts'[i] = attempts[i]
         /\ attempts'[n + 1].caller = c /\ attempts'[n + 1].time = now
         /\ attempts'[n + 1].request = r /\ attempts'[n + 1].state \in {"flooded", "queued"}
         /\ (attempts'[n + 1].state = "flooded") <=> CheckIsFloodAttack(c.uid)
         /\ now' = now
<1> DEFINE x == [caller |-> c, request |-> r, time |-> now,
                 state |-> IF CheckIsFloodAttack(c.uid) THEN "flooded" ELSE "queued"]
<1>1. attempts' = Append(attempts, x) /\ now' = now
  BY DEF PublishCommonEvent
<1>2. x \in Attempt
  BY DEF Attempt, StateTyped
<1>3. /\ x.caller = c /\ x.time = now /\ x.request = r /\ x.state \in {"flooded", "queued"}
      /\ (x.state = "flooded") <=> CheckIsFloodAttack(c.uid)
  OBVIOUS
<1> HIDE DEF x
<1>4. attempts \in Seq(Attempt)
  BY DEF StateTyped
<1>5. \A i \in 1..n : attempts[i] \in Attempt
  BY <1>4, ElementOfSeq
<1> QED
  BY <1>1, <1>2, <1>3, <1>4, <1>5, AppendAttempt DEF Uids

\* Window v is w without its first k entries, none of them recent at time t, and
\* with t at the end.
CutAt(w, v, k, t) ==
  /\ Len(w) \in Nat
  /\ Len(v) = Len(w) - k + 1
  /\ \A q \in 1..(Len(w) - k) : v[q] = w[q + k]
  /\ v[Len(w) - k + 1] = t
  /\ \A p \in 1..Len(w) : t - w[p] <= FloodInterval => k < p

\* How far the window of the publisher is cut, and what it is then.
LEMMA PublishWindow ==
  ASSUME StateTyped, NEW c \in Caller, NEW r \in PublishRequest, PublishCommonEvent(c, r),
         NEW w \in Seq(0..now), w = floodAttackAppStatistics[c.uid]
  PROVE  /\ floodAttackAppStatistics' \in [Uids -> Seq(0..now)]
         /\ \A u \in Uids \ {c.uid} : floodAttackAppStatistics'[u] = floodAttackAppStatistics[u]
         /\ \E k \in 0..Len(w) :
              /\ CutAt(w, floodAttackAppStatistics'[c.uid], k, now)
              /\ ~CheckIsFloodAttack(c.uid) => Len(w) - k + 1 <= FloodMax
<1> DEFINE S == 0..now
           d == DropExpired(w, now)
<1>0. c.uid \in Uids /\ now \in Nat
  BY DEF Uids, StateTyped
<1>1. floodAttackAppStatistics' = [floodAttackAppStatistics EXCEPT ![c.uid] = Append(d, now)]
  BY DEF PublishCommonEvent
<1>2. CheckIsFloodAttack(c.uid) <=> Len(d) + 1 > FloodMax
  BY DEF CheckIsFloodAttack
<1>3. PICK k \in 0..Len(w) :
         /\ d \in Seq(S)
         /\ Len(d) = Len(w) - k
         /\ \A q \in 1..(Len(w) - k) : d[q] = w[q + k]
         /\ \A p \in 1..Len(w) : now - w[p] <= FloodInterval => k < p
  BY <1>0, DropExpiredCuts
<1>4. now \in S /\ floodAttackAppStatistics \in [Uids -> Seq(S)]
  BY <1>0 DEF StateTyped
<1>5. Len(w) \in Nat
  BY LenProperties
<1> HIDE DEF S, d
<1>6. /\ Append(d, now) \in Seq(S)
      /\ Len(Append(d, now)) = Len(d) + 1
      /\ \A q \in 1..Len(d) : Append(d, now)[q] = d[q]
      /\ Append(d, now)[Len(d) + 1] = now
  BY <1>3, <1>4, AppendProperties
<1>7. /\ floodAttackAppStatistics' \in [Uids -> Seq(S)]
      /\ floodAttackAppStatistics'[c.uid] = Append(d, now)
      /\ \A u \in Uids \ {c.uid} : floodAttackAppStatistics'[u] = floodAttackAppStatistics[u]
  BY <1>0, <1>1, <1>4, <1>6
<1>8. ~CheckIsFloodAttack(c.uid) => Len(w) - k + 1 <= FloodMax
  BY <1>2, <1>3, <1>5, PublicationAssumption
<1>9. CutAt(w, floodAttackAppStatistics'[c.uid], k, now)
  <2> DEFINE v == Append(d, now)
  <2>1. Len(d) = Len(w) - k /\ Len(v) = Len(d) + 1 /\ v[Len(d) + 1] = now
    BY <1>3, <1>6
  <2>2. /\ \A q \in 1..Len(d) : v[q] = d[q]
        /\ \A q \in 1..(Len(w) - k) : d[q] = w[q + k]
    BY <1>3, <1>6
  <2> HIDE DEF v
  <2>3. Len(v) = Len(w) - k + 1 /\ v[Len(w) - k + 1] = now
    BY <2>1
  <2>4. \A q \in 1..(Len(w) - k) : v[q] = w[q + k]
    BY <2>1, <2>2
  <2>5. CutAt(w, v, k, now)
    BY <1>3, <1>5, <2>3, <2>4 DEF CutAt
  <2> QED
    BY <2>5, <1>7 DEF v
<1> QED
  BY <1>7, <1>8, <1>9 DEF S

\* From a publication on there is at least that one.
LEMMA RankIsPositive ==
  ASSUME StateTyped, NEW i \in DOMAIN attempts
  PROVE  Cardinality(Since(i)) \in Nat \ {0}
<1>1. DOMAIN attempts = 1..Len(attempts) /\ Len(attempts) \in Nat
  BY LenProperties DEF StateTyped
<1>2. i \in Since(i)
  BY <1>1 DEF Since
<1> QED
  BY <1>2, RankIsNat, FS_EmptySet

\* A publication counts for those of its application, and for no other.
LEMMA PublishRank ==
  ASSUME StateTyped, NEW c \in Caller, NEW r \in PublishRequest, PublishCommonEvent(c, r),
         NEW n \in Nat, n = Len(attempts)
  PROVE  /\ \A i \in 1..n : Cardinality(Since(i)') =
              IF attempts[i].caller.uid = c.uid THEN Cardinality(Since(i)) + 1
              ELSE Cardinality(Since(i))
         /\ Cardinality(Since(n + 1)') = 1
<1>1. /\ Len(attempts') = n + 1 /\ DOMAIN attempts' = 1..(n + 1) /\ DOMAIN attempts = 1..n
      /\ \A i \in 1..n : attempts'[i] = attempts[i]
      /\ attempts'[n + 1].caller = c
  BY PublishFacts
<1>2. ASSUME NEW i \in 1..n, attempts[i].caller.uid = c.uid
      PROVE  Cardinality(Since(i)') = Cardinality(Since(i)) + 1
  <2>1. Since(i)' = Since(i) \cup {n + 1}
    BY <1>1, <1>2 DEF Since
  <2>2. n + 1 \notin Since(i)
    BY DEF Since
  <2>3. IsFiniteSet(Since(i))
    BY <1>1, RankIsNat
  <2> QED
    BY <2>1, <2>2, <2>3, FS_AddElement
<1>3. ASSUME NEW i \in 1..n, attempts[i].caller.uid # c.uid
      PROVE  Cardinality(Since(i)') = Cardinality(Since(i))
  <2>1. Since(i)' = Since(i)
    BY <1>1, <1>3 DEF Since
  <2> QED
    BY <2>1
<1>4. Since(n + 1)' = {n + 1}
  BY <1>1 DEF Since
<1> QED
  BY <1>2, <1>3, <1>4, FS_Singleton

\* The cut window with one more time counts what the window counted.
LEMMA CountedCut ==
  ASSUME NEW m \in Nat, NEW w, NEW v, NEW k \in Nat, NEW rank \in Nat \ {0}, NEW time \in Nat,
         Len(w) \in Nat, k <= Len(w), Len(v) = Len(w) - k + 1,
         \A q \in 1..(Len(w) - k) : v[q] = w[q + k],
         \A p \in 1..Len(w) : m - w[p] <= FloodInterval => k < p,
         Counted(w, rank, time, m)
  PROVE  Counted(v, rank + 1, time, m)
<1>1. ASSUME m - time <= FloodInterval
      PROVE  rank + 1 <= Len(v)
  <2>1. rank <= Len(w) /\ w[Len(w) + 1 - rank] = time /\ Len(w) + 1 - rank \in 1..Len(w)
    BY <1>1 DEF Counted
  <2>2. k < Len(w) + 1 - rank
    BY <2>1, <1>1
  <2> QED
    BY <2>2
<1>2. ASSUME rank + 1 <= Len(v)
      PROVE  v[Len(v) + 1 - (rank + 1)] = time
  <2>1. rank <= Len(w) /\ w[Len(w) + 1 - rank] = time
    BY <1>2 DEF Counted
  <2>2. /\ Len(v) + 1 - (rank + 1) \in 1..(Len(w) - k)
        /\ Len(v) + 1 - (rank + 1) + k = Len(w) + 1 - rank
    BY <1>2
  <2> QED
    BY <2>1, <2>2
<1> QED
  BY <1>1, <1>2 DEF Counted

\* PublishCommonEvent keeps the window in step with the log.
LEMMA PublishKeepsWindow ==
  ASSUME StateTyped, WindowKept, NEW c \in Caller, NEW r \in PublishRequest,
         PublishCommonEvent(c, r),
         NEW n \in Nat, n = Len(attempts),
         NEW w \in Seq(0..now), w = floodAttackAppStatistics[c.uid]
  PROVE  WindowKept'
<1>0. now \in Nat /\ c.uid \in Uids
  BY DEF StateTyped, Uids
<1>1. /\ DOMAIN attempts' = 1..(n + 1) /\ DOMAIN attempts = 1..n
      /\ \A i \in 1..n : attempts[i] \in Attempt /\ attempts'[i] = attempts[i]
      /\ attempts'[n + 1].caller = c /\ attempts'[n + 1].time = now
      /\ now' = now
  BY PublishFacts
<1>2. /\ \A i \in 1..n : Cardinality(Since(i)') =
              IF attempts[i].caller.uid = c.uid THEN Cardinality(Since(i)) + 1
              ELSE Cardinality(Since(i))
      /\ Cardinality(Since(n + 1)') = 1
  BY PublishRank
<1>3. PICK k \in 0..Len(w) :
         /\ CutAt(w, floodAttackAppStatistics'[c.uid], k, now)
         /\ ~CheckIsFloodAttack(c.uid) => Len(w) - k + 1 <= FloodMax
  BY PublishWindow
<1>4. \A u \in Uids \ {c.uid} : floodAttackAppStatistics'[u] = floodAttackAppStatistics[u]
  BY PublishWindow
<1>5. \A i \in 1..n : /\ Cardinality(Since(i)) \in Nat \ {0}
                      /\ attempts[i].time \in Nat /\ attempts[i].caller.uid \in Uids
                      /\ Counted(floodAttackAppStatistics[attempts[i].caller.uid],
                                 Cardinality(Since(i)), attempts[i].time, now)
  <2> SUFFICES ASSUME NEW i \in 1..n
               PROVE  /\ attempts[i].time \in Nat /\ attempts[i].caller.uid \in Uids
                      /\ Cardinality(Since(i)) \in Nat \ {0}
    BY <1>1 DEF WindowKept
  <2>1. attempts[i] \in Attempt
    BY <1>1
  <2> QED
    BY <2>1, <1>1, RankIsPositive, PublicationAssumption DEF Attempt, Uids
<1> SUFFICES ASSUME NEW i \in 1..(n + 1)
             PROVE  Counted(floodAttackAppStatistics'[attempts'[i].caller.uid],
                            Cardinality(Since(i)'), attempts'[i].time, now)
  BY <1>1 DEF WindowKept
<1>6. CASE i \in 1..n /\ attempts[i].caller.uid = c.uid
  <2>1. Counted(w, Cardinality(Since(i)), attempts[i].time, now)
    BY <1>5, <1>6
  <2>2. Counted(floodAttackAppStatistics'[c.uid], Cardinality(Since(i)) + 1, attempts[i].time, now)
    <3> DEFINE rank == Cardinality(Since(i))
               time == attempts[i].time
               v == floodAttackAppStatistics'[c.uid]
               m == now
    <3>1. m \in Nat /\ rank \in Nat \ {0} /\ time \in Nat /\ k \in Nat /\ k <= Len(w)
      BY <1>0, <1>3, <1>5, <1>6 DEF CutAt
    <3>2. /\ Len(w) \in Nat
          /\ Len(v) = Len(w) - k + 1
          /\ \A q \in 1..(Len(w) - k) : v[q] = w[q + k]
          /\ \A p \in 1..Len(w) : m - w[p] <= FloodInterval => k < p
          /\ Counted(w, rank, time, m)
      BY <1>3, <2>1 DEF CutAt
    <3> HIDE DEF rank, time, v, m
    <3>3. Counted(v, rank + 1, time, m)
      BY <3>1, <3>2, CountedCut
    <3> QED
      BY <3>3 DEF rank, time, v, m
  <2>3. Cardinality(Since(i)') = Cardinality(Since(i)) + 1 /\ attempts'[i] = attempts[i]
    BY <1>1, <1>2, <1>6
  <2> QED
    BY <2>2, <2>3, <1>6
<1>7. CASE i \in 1..n /\ attempts[i].caller.uid # c.uid
  <2>1. Cardinality(Since(i)') = Cardinality(Since(i)) /\ attempts'[i] = attempts[i]
    BY <1>1, <1>2, <1>7
  <2>2. floodAttackAppStatistics'[attempts[i].caller.uid] =
          floodAttackAppStatistics[attempts[i].caller.uid]
    BY <1>4, <1>5, <1>7
  <2> QED
    BY <2>1, <2>2, <1>5, <1>7
<1>8. CASE i = n + 1
  <2>1. /\ Cardinality(Since(i)') = 1 /\ attempts'[i].time = now /\ attempts'[i].caller = c
    BY <1>1, <1>2, <1>8
  <2>2. Counted(floodAttackAppStatistics'[c.uid], 1, now, now)
    <3> DEFINE v == floodAttackAppStatistics'[c.uid]
    <3>1. /\ Len(w) \in Nat /\ k \in 0..Len(w)
          /\ Len(v) = Len(w) - k + 1 /\ v[Len(w) - k + 1] = now
      BY <1>3 DEF CutAt
    <3> HIDE DEF v
    <3>2. Len(v) \in Nat /\ 1 <= Len(v) /\ v[Len(v)] = now
      BY <3>1
    <3>3. Counted(v, 1, now, now)
      BY <3>2 DEF Counted
    <3> QED
      BY <3>3 DEF v
  <2> QED
    BY <2>1, <2>2
<1> QED
  BY <1>0, <1>6, <1>7, <1>8

\* The new publication passes only if the one FloodMax before it is not recent:
\* a recent one would be in the window, and the window too long.
LEMMA PublishKeepsBound ==
  ASSUME StateTyped, WindowKept, WindowKept', FloodBound,
         NEW c \in Caller, NEW r \in PublishRequest, PublishCommonEvent(c, r),
         NEW n \in Nat, n = Len(attempts),
         NEW w \in Seq(0..now), w = floodAttackAppStatistics[c.uid]
  PROVE  FloodBound'
<1>1. /\ Len(attempts') = n + 1 /\ DOMAIN attempts' = 1..(n + 1) /\ DOMAIN attempts = 1..n
      /\ \A i \in 1..n : attempts[i] \in Attempt /\ attempts'[i] = attempts[i]
      /\ attempts'[n + 1].caller = c /\ attempts'[n + 1].time = now
      /\ (attempts'[n + 1].state = "flooded") <=> CheckIsFloodAttack(c.uid)
      /\ now' = now
  BY PublishFacts
<1>2. PICK k \in 0..Len(w) :
         /\ CutAt(w, floodAttackAppStatistics'[c.uid], k, now)
         /\ ~CheckIsFloodAttack(c.uid) => Len(w) - k + 1 <= FloodMax
  BY PublishWindow
<1> SUFFICES ASSUME NEW i \in 1..(n + 1), NEW j \in 1..(n + 1), i < j,
                    attempts'[i].caller.uid = attempts'[j].caller.uid,
                    Cardinality({m \in i..j : attempts'[m].caller.uid = attempts'[i].caller.uid})
                      > FloodMax,
                    attempts'[j].state # "flooded"
             PROVE  attempts'[j].time - attempts'[i].time > FloodInterval
  BY <1>1 DEF FloodBound
<1>3. i \in 1..n
  OBVIOUS
<1>4. CASE j \in 1..n
  <2>1. {m \in i..j : attempts'[m].caller.uid = attempts'[i].caller.uid}
          = {m \in i..j : attempts[m].caller.uid = attempts[i].caller.uid}
    BY <1>1, <1>3, <1>4
  <2> QED
    BY <1>1, <1>3, <1>4, <2>1 DEF FloodBound
<1>5. CASE j = n + 1
  <2>1. Since(i)' = {m \in i..j : attempts'[m].caller.uid = attempts'[i].caller.uid}
    BY <1>1, <1>5 DEF Since
  <2>2. Counted(floodAttackAppStatistics'[c.uid], Cardinality(Since(i)'), attempts'[i].time, now)
    BY <1>1, <1>5 DEF WindowKept
  <2>3. Len(floodAttackAppStatistics'[c.uid]) \in Nat
        /\ Len(floodAttackAppStatistics'[c.uid]) <= FloodMax
    BY <1>1, <1>2, <1>5 DEF CutAt
  <2>4. Cardinality(Since(i)') \in Nat
    <3>1. attempts[i].caller.uid = c.uid
      BY <1>1, <1>3, <1>5
    <3>2. Cardinality(Since(i)) \in Nat
      BY <1>1, <1>3, RankIsNat
    <3> QED
      BY <3>1, <3>2, <1>3, PublishRank
  <2>5. attempts'[i].time \in Nat /\ now \in Nat
    BY <1>1, <1>3, PublicationAssumption DEF Attempt, StateTyped
  <2>6. ~(now - attempts'[i].time <= FloodInterval)
    <3> DEFINE rank == Cardinality(Since(i)')
               len == Len(floodAttackAppStatistics'[c.uid])
    <3>1. now - attempts'[i].time <= FloodInterval => rank <= len
      BY <2>2 DEF Counted
    <3>2. rank > FloodMax
      BY <2>1
    <3>3. rank \in Nat /\ len \in Nat /\ len <= FloodMax
      BY <2>3, <2>4
    <3> HIDE DEF rank, len
    <3> QED
      BY <3>1, <3>2, <3>3, PublicationAssumption
  <2> QED
    BY <1>1, <1>5, <2>5, <2>6, PublicationAssumption
<1> QED
  BY <1>4, <1>5

\* The clock and the decisions keep the window in step with the log.
LEMMA SameLogKeepsWindow ==
  ASSUME StateTyped, WindowKept, SameLog, now' \in Nat, now' >= now,
         floodAttackAppStatistics' = floodAttackAppStatistics
  PROVE  WindowKept'
<1>1. /\ Len(attempts) \in Nat /\ DOMAIN attempts = 1..Len(attempts)
      /\ \A i \in DOMAIN attempts : attempts[i] \in Attempt
  BY LenProperties, ElementOfSeq DEF StateTyped
<1>2. DOMAIN attempts' = DOMAIN attempts
  BY DEF SameLog
<1> SUFFICES ASSUME NEW i \in DOMAIN attempts
             PROVE  Counted(floodAttackAppStatistics'[attempts'[i].caller.uid],
                            Cardinality(Since(i)'), attempts'[i].time, now')
  BY <1>2 DEF WindowKept
<1>3. Since(i)' = Since(i)
  BY <1>1 DEF Since, SameLog
<1>4. Counted(floodAttackAppStatistics[attempts[i].caller.uid],
              Cardinality(Since(i)), attempts[i].time, now)
  BY DEF WindowKept
<1>5. attempts'[i].caller = attempts[i].caller /\ attempts'[i].time = attempts[i].time
  BY DEF SameLog
<1>6. attempts[i].time \in Nat /\ now \in Nat
  BY <1>1, PublicationAssumption DEF StateTyped, Attempt
<1>7. now' - attempts[i].time <= FloodInterval => now - attempts[i].time <= FloodInterval
  BY <1>6, PublicationAssumption
<1> QED
  BY <1>3, <1>4, <1>5, <1>7 DEF Counted

\* ... and the bound.
LEMMA SameLogKeepsBound ==
  ASSUME StateTyped, FloodBound, SameLog
  PROVE  FloodBound'
<1>1. Len(attempts) \in Nat /\ DOMAIN attempts = 1..Len(attempts)
  BY LenProperties DEF StateTyped
<1>2. DOMAIN attempts' = DOMAIN attempts
  BY DEF SameLog
<1> SUFFICES ASSUME NEW i \in DOMAIN attempts, NEW j \in DOMAIN attempts, i < j,
                    attempts'[i].caller.uid = attempts'[j].caller.uid,
                    Cardinality({m \in i..j : attempts'[m].caller.uid = attempts'[i].caller.uid})
                      > FloodMax,
                    attempts'[j].state # "flooded"
             PROVE  attempts'[j].time - attempts'[i].time > FloodInterval
  BY <1>2 DEF FloodBound
<1>3. {m \in i..j : attempts'[m].caller.uid = attempts'[i].caller.uid}
        = {m \in i..j : attempts[m].caller.uid = attempts[i].caller.uid}
  BY <1>1 DEF SameLog
<1> QED
  BY <1>3 DEF SameLog, FloodBound
(***************************************************************************)
(* Users                                                                   *)
(***************************************************************************)

\* Who is privileged, in terms of the caller: CheckSaPermission makes no difference.
LEMMA PrivilegedIs ==
  ASSUME NEW c, NEW isProxy
  PROVE  Privileged(ComeFrom(c, isProxy)) <=> ~Ordinary(c) /\ ~isProxy
BY DEF Privileged, ComeFrom, Ordinary

\* What Matches says about the users of an event and of an ordinary subscriber.
LEMMA MatchedByUser ==
  ASSUME NEW l \in Listener, NEW r \in SubscribeRequest, NEW a \in Attempt,
         Ordinary(Owner[l]), Matches(SubscriberOf(l, r), EventRecord(a))
  PROVE  CheckSubscriberByUserId(Owner[l].account, Privileged(ComeFrom(a.caller, a.request.isProxy)),
           ResolvedUserId(a.caller, a.request.isProxy, a.request.userId))
<1> DEFINE s == SubscriberOf(l, r)
           e == EventRecord(a)
<1>1. s.userId = Owner[l].account
  BY PrivilegedIs DEF SubscriberOf, ResolvedUserId
<1>2. e.from = ComeFrom(a.caller, a.request.isProxy)
      /\ e.userId = ResolvedUserId(a.caller, a.request.isProxy, a.request.userId)
  BY DEF EventRecord
<1>3. CheckSubscriberByUserId(s.userId,
        (e.from.isSystemApp \/ e.from.isCemShell \/ e.from.isSubsystem) /\ ~e.from.isProxy, e.userId)
  BY DEF Matches
<1> HIDE DEF s, e
<1> QED
  BY <1>1, <1>2, <1>3 DEF CheckSubscriberByUserId, Privileged

\* An ordinary application that matches a publication that is allowed runs in an

\* account the publication is meant for.
LEMMA MatchedIsMeant ==
  ASSUME NEW l \in Listener, NEW r \in SubscribeRequest, NEW a \in Attempt,
         Ordinary(Owner[l]), PublishAllowed(a), Matches(SubscriberOf(l, r), EventRecord(a))
  PROVE  Owner[l].account \in Audience(a)
<1> DEFINE c == a.caller
           u == a.request.userId
           asSystem == ~Ordinary(c) /\ ~a.request.isProxy
           x == Owner[l].account
           y == ResolvedUserId(c, a.request.isProxy, u)
<1>1. x \in Users /\ x \in Nat /\ c.account \in Nat /\ u \in Int /\ Users \subseteq Nat
  BY PublicationAssumption DEF Attempt
<1>2. UserIdAllowed(c, a.request.isProxy, u)
  BY DEF PublishAllowed
<1>3. u >= UNDEFINED_USER /\ (asSystem \/ u = UNDEFINED_USER)
  BY <1>2, PrivilegedIs DEF UserIdAllowed
<1>4. CheckSubscriberByUserId(x, Privileged(ComeFrom(c, a.request.isProxy)), y)
  BY MatchedByUser
<1>5. x = ALL_USER \/ x = y \/ (asSystem /\ (y \in {UNDEFINED_USER, ALL_USER} \/ x \in SystemUsers))
  BY <1>4, PrivilegedIs DEF CheckSubscriberByUserId
<1>6. CASE ~asSystem
  <2>1. y = c.account
    BY <1>6, PrivilegedIs DEF ResolvedUserId
  <2>2. u = UNDEFINED_USER /\ x = c.account
    BY <1>1, <1>3, <1>5, <1>6, <2>1 DEF ALL_USER
  <2> QED
    BY <2>2, <1>6 DEF Audience, UNDEFINED_USER, ALL_USER
<1>7. CASE asSystem
  <2>1. y = SystemUserId(c, ComeFrom(c, a.request.isProxy), u)
    BY <1>7, PrivilegedIs DEF ResolvedUserId
  <2>2. ComeFrom(c, a.request.isProxy).isSubsystem = c.native
    BY DEF ComeFrom
  <2>3. CASE x \in SystemUsers
    BY <2>3, <1>7 DEF Audience
  <2>4. CASE u >= 0 /\ x \notin SystemUsers
    <3>1. y = u
      BY <2>1, <2>4, <1>1 DEF SystemUserId, CURRENT_USER, UNDEFINED_USER
    <3>2. x = u
      BY <3>1, <1>1, <1>5, <2>4 DEF ALL_USER, UNDEFINED_USER
    <3> QED
      BY <3>2, <2>4, <1>1 DEF Audience, UNDEFINED_USER, ALL_USER
  <2>5. CASE u = ALL_USER
    BY <1>1, <2>5, <1>7 DEF Audience, ALL_USER
  <2>6. CASE u = CURRENT_USER /\ x \notin SystemUsers
    <3>1. y = c.account
      BY <2>1, <2>6 DEF SystemUserId, CURRENT_USER, UNDEFINED_USER
    <3>2. x = c.account
      BY <3>1, <1>1, <1>5, <2>6 DEF ALL_USER, UNDEFINED_USER
    <3> QED
      BY <3>2, <2>6 DEF Audience, CURRENT_USER, UNDEFINED_USER, ALL_USER
  <2>7. CASE u = UNDEFINED_USER /\ (c.native \/ c.account \in SystemUsers)
    BY <1>1, <2>7, <1>7 DEF Audience, UNDEFINED_USER, ALL_USER
  <2>8. CASE u = UNDEFINED_USER /\ ~(c.native \/ c.account \in SystemUsers) /\ x \notin SystemUsers
    <3>1. y = c.account
      BY <2>1, <2>2, <2>8 DEF SystemUserId, UNDEFINED_USER, CURRENT_USER
    <3>2. x = c.account
      BY <3>1, <1>1, <1>5, <2>8 DEF ALL_USER, UNDEFINED_USER
    <3> QED
      BY <3>2, <2>8 DEF Audience, UNDEFINED_USER, ALL_USER
  <2>9. u >= 0 \/ u = ALL_USER \/ u = CURRENT_USER \/ u = UNDEFINED_USER
    BY <1>1, <1>3 DEF ALL_USER, CURRENT_USER, UNDEFINED_USER
  <2> QED
    BY <2>3, <2>4, <2>5, <2>6, <2>7, <2>8, <2>9
<1> QED
  BY <1>6, <1>7
(***************************************************************************)
(* What depends on the caller and the request of a publication only        *)
(***************************************************************************)

\* In every step a publication of the log keeps its caller and its request.
LogKept ==
  \A i \in DOMAIN attempts :
    /\ i \in DOMAIN attempts'
    /\ attempts'[i].caller = attempts[i].caller /\ attempts'[i].request = attempts[i].request

\* The decision on a publication changes neither its record nor its audience.
LEMMA SameRecord ==
  ASSUME NEW a, NEW b, a.caller = b.caller, a.request = b.request
  PROVE  EventRecord(a) = EventRecord(b) /\ Audience(a) = Audience(b)
BY DEF EventRecord, Audience

\* The table of sticky events while it does not change.
LEMMA StickyFrame ==
  ASSUME StickyOfAction, LogKept, stickyEvents' = stickyEvents
  PROVE  StickyOfAction'
BY DEF StickyOfAction, LogKept

\* What is delivered stays delivered to whom it is meant for.
LEMMA IsolationFrame ==
  ASSUME StateTyped, UserIsolation, LogKept, deliveries' = deliveries
  PROVE  UserIsolation'
<1> SUFFICES ASSUME NEW d \in deliveries, ~d.replay, Ordinary(Owner[d.listener])
             PROVE  Owner[d.listener].account \in Audience(attempts'[d.event])
  BY DEF UserIsolation, Audience
<1>1. d.event \in DOMAIN attempts
  BY DEF StateTyped
<1>2. attempts'[d.event].caller = attempts[d.event].caller
      /\ attempts'[d.event].request = attempts[d.event].request
  BY <1>1 DEF LogKept
<1>3. Audience(attempts'[d.event]) = Audience(attempts[d.event])
  BY <1>2, SameRecord
<1> QED
  BY <1>3 DEF UserIsolation

\* One subscriber and one kept event that do not change.
LEMMA ReachedFrame ==
  ASSUME StickyOfAction, StickyReachesAll, LogKept, deliveries \subseteq deliveries',
         NEW l \in Listener, NEW action \in Actions,
         subscribers'[l] = subscribers[l], stickyEvents'[action] = stickyEvents[action],
         stickyEvents'[action] # 0, subscribers'[l] # None,
         Matches(subscribers'[l], EventRecord(attempts'[stickyEvents'[action]])),
         EventRecord(attempts'[stickyEvents'[action]]).info.bundleName
           \in {"", subscribers'[l].caller.bundleName}
  PROVE  \E d \in deliveries' : d.event = stickyEvents'[action] /\ d.listener = l
<1> DEFINE i == stickyEvents[action]
<1>1. i \in DOMAIN attempts
  BY DEF StickyOfAction
<1>2. attempts'[i].caller = attempts[i].caller /\ attempts'[i].request = attempts[i].request
  BY <1>1 DEF LogKept
<1>3. EventRecord(attempts'[i]) = EventRecord(attempts[i])
  BY <1>2, SameRecord
<1>4. Matches(subscribers[l], EventRecord(attempts[i]))
  BY <1>3
<1>5. EventRecord(attempts[i]).info.bundleName \in {"", subscribers[l].caller.bundleName}
  BY <1>3
<1>6. \E d \in deliveries : d.event = i /\ d.listener = l
  BY <1>4, <1>5 DEF StickyReachesAll
<1> QED
  BY <1>6

\* The obligation of StickyReachesAll after a step.
LEMMA ReachedAll ==
  ASSUME ASSUME NEW l \in Listener, NEW action \in Actions,
                stickyEvents'[action] # 0, subscribers'[l] # None,
                Matches(subscribers'[l], EventRecord(attempts'[stickyEvents'[action]])),
                EventRecord(attempts'[stickyEvents'[action]]).info.bundleName
                  \in {"", subscribers'[l].caller.bundleName}
         PROVE  \E d \in deliveries' : d.event = stickyEvents'[action] /\ d.listener = l
  PROVE  StickyReachesAll'
BY Zenon DEF StickyReachesAll, EventRecord

\* StickyReachesAll while only the log and the deliveries change.
LEMMA ReachesFrame ==
  ASSUME StickyOfAction, StickyReachesAll, LogKept, deliveries \subseteq deliveries',
         subscribers' = subscribers, stickyEvents' = stickyEvents
  PROVE  StickyReachesAll'
<1> SUFFICES ASSUME NEW l \in Listener, NEW action \in Actions,
                stickyEvents'[action] # 0, subscribers'[l] # None,
                Matches(subscribers'[l], EventRecord(attempts'[stickyEvents'[action]])),
                EventRecord(attempts'[stickyEvents'[action]]).info.bundleName
                  \in {"", subscribers'[l].caller.bundleName}
         PROVE  \E d \in deliveries' : d.event = stickyEvents'[action] /\ d.listener = l
  BY ReachedAll
<1> QED
  BY ReachedFrame

(***************************************************************************)
(* The service queue                                                       *)
(***************************************************************************)

\* The three kinds of tasks.
LEMMA TaskKinds ==
  ASSUME NEW x \in Task
  PROVE  /\ x.kind \in {"publish", "subscribe", "unsubscribe"}
         /\ x.kind = "publish" => x.event \in Nat
         /\ x.kind = "subscribe" => x.listener \in Listener /\ x.request \in SubscribeRequest
         /\ x.kind = "unsubscribe" => x.listener \in Listener
BY DEF Task, PublishTaskOf, SubscribeTaskOf, UnsubscribeTaskOf

\* A task that is no publication is queued.
LEMMA QueueOther ==
  ASSUME StateTyped, QueueInOrder, NEW x \in Task, x.kind # "publish",
         attempts' = attempts, srvQueue' = Append(srvQueue, x)
  PROVE  QueueInOrder'
<1> DEFINE n == Len(srvQueue)
<1>1. /\ n \in Nat /\ DOMAIN srvQueue = 1..n /\ DOMAIN srvQueue' = 1..(n + 1)
      /\ \A i \in 1..n : srvQueue'[i] = srvQueue[i]
      /\ srvQueue'[n + 1] = x
  BY AppendTask DEF StateTyped
<1> HIDE DEF n
<1>2. \A i \in 1..(n + 1) : srvQueue'[i].kind = "publish" => i \in 1..n
  BY <1>1
<1> QED
  BY <1>1, <1>2 DEF QueueInOrder

\* The first task leaves the queue, and nothing is decided.
LEMMA QueueLeave ==
  ASSUME StateTyped, QueueInOrder, srvQueue # <<>>,
         attempts' = attempts, srvQueue' = Tail(srvQueue)
  PROVE  QueueInOrder'
<1> DEFINE n == Len(srvQueue)
<1>1. /\ n \in Nat \ {0} /\ DOMAIN srvQueue = 1..n /\ DOMAIN srvQueue' = 1..(n - 1)
      /\ \A i \in 1..(n - 1) : srvQueue'[i] = srvQueue[i + 1]
  BY TailTask DEF StateTyped
<1> HIDE DEF n
<1>2. \A i \in 1..(n - 1) : i + 1 \in 1..n
  BY <1>1
<1>3. \A i, j \in 1..(n - 1) : i < j => i + 1 < j + 1
  OBVIOUS
<1> QED
  BY <1>1, <1>2, <1>3 DEF QueueInOrder

\* A publication is queued, or refused as an attack.
LEMMA QueuePublish ==
  ASSUME StateTyped, QueueInOrder, NEW c \in Caller, NEW r \in PublishRequest,
         PublishCommonEvent(c, r), NEW n \in Nat, n = Len(attempts)
  PROVE  srvQueue' \in Seq(Task) /\ QueueInOrder'
<1>1. /\ DOMAIN attempts' = 1..(n + 1) /\ DOMAIN attempts = 1..n
      /\ \A i \in 1..n : attempts'[i] = attempts[i]
      /\ attempts'[n + 1].state \in {"flooded", "queued"}
      /\ (attempts'[n + 1].state = "flooded") <=> CheckIsFloodAttack(c.uid)
  BY PublishFacts
<1>2. srvQueue \in Seq(Task)
  BY DEF StateTyped
<1>3. CASE CheckIsFloodAttack(c.uid)
  <2>1. srvQueue' = srvQueue
    BY <1>3 DEF PublishCommonEvent
  <2>2. attempts'[n + 1].state # "published"
    BY <1>1
  <2> QED
    BY <1>1, <1>2, <2>1, <2>2 DEF QueueInOrder
<1>4. CASE ~CheckIsFloodAttack(c.uid)
  <2> DEFINE x == [kind |-> "publish", event |-> n + 1]
             m == Len(srvQueue)
  <2>1. srvQueue' = Append(srvQueue, x)
    BY <1>4 DEF PublishCommonEvent
  <2>2. x \in Task /\ x.kind = "publish" /\ x.event = n + 1
    BY DEF Task, PublishTaskOf
  <2> HIDE DEF x
  <2>3. /\ srvQueue' \in Seq(Task)
        /\ m \in Nat /\ DOMAIN srvQueue = 1..m /\ DOMAIN srvQueue' = 1..(m + 1)
        /\ \A i \in 1..m : srvQueue'[i] = srvQueue[i]
        /\ srvQueue'[m + 1] = x
    BY <1>2, <2>1, <2>2, AppendTask
  <2> HIDE DEF m
  <2>4. ASSUME NEW i \in 1..(m + 1), srvQueue'[i].kind = "publish"
        PROVE  /\ srvQueue'[i].event \in DOMAIN attempts'
               /\ attempts'[srvQueue'[i].event].state = "queued"
               /\ \A k \in DOMAIN attempts' :
                    attempts'[k].state = "published" => k < srvQueue'[i].event
    <3>1. CASE i \in 1..m
      <4>1. /\ srvQueue[i].event \in 1..n /\ attempts[srvQueue[i].event].state = "queued"
            /\ \A k \in 1..n : attempts[k].state = "published" => k < srvQueue[i].event
        BY <1>1, <2>3, <2>4, <3>1 DEF QueueInOrder
      <4> QED
        BY <4>1, <1>1, <2>3, <3>1
    <3>2. CASE i = m + 1
      BY <1>1, <1>4, <2>2, <2>3, <3>2
    <3> QED
      BY <2>3, <3>1, <3>2
  <2>5. ASSUME NEW i \in 1..(m + 1), NEW j \in 1..(m + 1), i < j,
               srvQueue'[i].kind = "publish", srvQueue'[j].kind = "publish"
        PROVE  srvQueue'[i].event < srvQueue'[j].event
    <3>1. i \in 1..m /\ srvQueue'[i] = srvQueue[i]
      BY <2>3, <2>5
    <3>2. srvQueue[i].event \in 1..n
      BY <1>1, <2>3, <2>5, <3>1 DEF QueueInOrder
    <3>3. CASE j \in 1..m
      BY <2>3, <2>5, <3>1, <3>3 DEF QueueInOrder
    <3>4. CASE j = m + 1
      BY <2>2, <2>3, <3>1, <3>2, <3>4
    <3> QED
      BY <2>3, <3>3, <3>4
  <2> QED
    BY <2>3, <2>4, <2>5 DEF QueueInOrder
<1> QED
  BY <1>3, <1>4
(***************************************************************************)
(* The decision on a publication                                           *)
(***************************************************************************)

\* PublishTask accepts publication n.
Accepted(n) ==
  LET e == EventRecord(attempts[n])
  IN /\ PublishAllowed(attempts[n])
     /\ e.info.sticky => MayPublishSticky(e.caller, e.from)

\* Those PublishTask hands publication n to.
Receivers(n) ==
  {l \in Listener : subscribers[l] # None /\ Matches(subscribers[l], EventRecord(attempts[n]))}

\* What PublishTask does, with names for its parts.
LEMMA DecisionFacts ==
  ASSUME StateTyped, QueueInOrder, PublishTask, NEW n, n = Head(srvQueue).event
  PROVE  /\ srvQueue # <<>> /\ n \in DOMAIN attempts /\ attempts[n].state = "queued"
         /\ Head(srvQueue) = srvQueue[1] /\ srvQueue[1].kind = "publish"
         /\ toStatic' \in {toStatic, toStatic \cup {n}}
         /\ stickyEvents' = IF Accepted(n) /\ EventRecord(attempts[n]).info.sticky
                            THEN [stickyEvents EXCEPT ![EventRecord(attempts[n]).want.action] = n]
                            ELSE stickyEvents
         /\ attempts' = [attempts EXCEPT ![n].state =
                           IF Accepted(n) THEN "published" ELSE "refused"]
         /\ deliveries' = IF Accepted(n)
              THEN deliveries \cup
                     {[event |-> n, listener |-> l, replay |-> FALSE] : l \in Receivers(n)}
              ELSE deliveries
         /\ srvQueue' = Tail(srvQueue)
         /\ now' = now /\ floodAttackAppStatistics' = floodAttackAppStatistics
         /\ subscribers' = subscribers /\ subscribes' = subscribes
<1>1. srvQueue # <<>> /\ Head(srvQueue).kind = "publish" /\ srvQueue \in Seq(Task)
  BY DEF PublishTask, HeadTask, StateTyped
<1>2. Head(srvQueue) = srvQueue[1] /\ DOMAIN srvQueue = 1..Len(srvQueue) /\ Len(srvQueue) \in Nat \ {0}
  BY <1>1, TailTask
<1>3. n \in DOMAIN attempts /\ attempts[n].state = "queued"
  BY <1>1, <1>2 DEF QueueInOrder
<1>4. /\ toStatic' \in {toStatic, toStatic \cup {n}}
      /\ stickyEvents' = IF Accepted(n) /\ EventRecord(attempts[n]).info.sticky
                         THEN [stickyEvents EXCEPT ![EventRecord(attempts[n]).want.action] = n]
                         ELSE stickyEvents
      /\ srvQueue' = Tail(srvQueue)
      /\ now' = now /\ floodAttackAppStatistics' = floodAttackAppStatistics
      /\ subscribers' = subscribers /\ subscribes' = subscribes
  BY DEF PublishTask, Accepted, UpdateStickyEvent
<1>5. attempts' = [attempts EXCEPT ![n].state = IF Accepted(n) THEN "published" ELSE "refused"]
  BY DEF PublishTask, Accepted
<1>6. deliveries' = IF Accepted(n)
        THEN deliveries \cup
               {[event |-> n, listener |-> l, replay |-> FALSE] : l \in Receivers(n)}
        ELSE deliveries
  BY DEF PublishTask, Accepted, Receivers
<1> QED
  BY <1>1, <1>2, <1>3, <1>4, <1>5, <1>6

\* The log after the decision.
LEMMA DecisionLog ==
  ASSUME StateTyped, QueueInOrder, PublishTask, NEW n, n = Head(srvQueue).event
  PROVE  /\ attempts' \in Seq(Attempt) /\ SameLog /\ LogKept
         /\ \A i \in DOMAIN attempts : attempts'[i].state =
              IF i = n THEN (IF Accepted(n) THEN "published" ELSE "refused") ELSE attempts[i].state
<1> DEFINE d == IF Accepted(n) THEN "published" ELSE "refused"
<1>1. n \in DOMAIN attempts /\ attempts[n].state = "queued" /\ attempts' = [attempts EXCEPT ![n].state = d]
  BY DecisionFacts
<1>2. d \in {"refused", "published"} /\ attempts \in Seq(Attempt)
  BY DEF StateTyped
<1> HIDE DEF d
<1>3. n \in DOMAIN attempts /\ attempts' = Decided(attempts, n, d)
  BY <1>1 DEF Decided
<1>4. /\ attempts' \in Seq(Attempt)
      /\ Len(attempts') = Len(attempts) /\ DOMAIN attempts' = DOMAIN attempts
      /\ \A i \in DOMAIN attempts :
           /\ attempts'[i].caller = attempts[i].caller /\ attempts'[i].request = attempts[i].request
           /\ attempts'[i].time = attempts[i].time
           /\ i # n => attempts'[i].state = attempts[i].state
      /\ attempts'[n].state = d
  <2>1. DiffersInState(attempts, attempts', n, d)
    BY <1>2, <1>3, DecideAttempt
  <2> QED
    BY <2>1 DEF DiffersInState
<1>5. \A i \in DOMAIN attempts : attempts[i].state = "flooded" => attempts'[i].state = "flooded"
  BY <1>1, <1>4
<1>6. SameLog
  BY <1>4, <1>5 DEF SameLog
<1>7. LogKept
  BY <1>4 DEF LogKept
<1> QED
  BY <1>4, <1>6, <1>7 DEF d

\* The rest of the queue after the decision.
LEMMA DecisionQueue ==
  ASSUME StateTyped, QueueInOrder, PublishTask, NEW n, n = Head(srvQueue).event
  PROVE  srvQueue' \in Seq(Task) /\ QueueInOrder'
<1> DEFINE m == Len(srvQueue)
<1>1. /\ srvQueue # <<>> /\ srvQueue' = Tail(srvQueue) /\ srvQueue \in Seq(Task)
      /\ srvQueue[1].kind = "publish" /\ srvQueue[1].event = n /\ n \in DOMAIN attempts
  BY DecisionFacts DEF StateTyped
<1>2. /\ srvQueue' \in Seq(Task) /\ m \in Nat \ {0}
      /\ DOMAIN srvQueue = 1..m /\ DOMAIN srvQueue' = 1..(m - 1)
      /\ \A i \in 1..(m - 1) : srvQueue'[i] = srvQueue[i + 1]
  BY <1>1, TailTask
<1>3. /\ DOMAIN attempts' = DOMAIN attempts
      /\ \A i \in DOMAIN attempts : i # n => attempts'[i].state = attempts[i].state
  BY DecisionLog DEF SameLog
<1> HIDE DEF m
<1>4. ASSUME NEW i \in 1..(m - 1), srvQueue'[i].kind = "publish"
      PROVE  /\ srvQueue'[i].event \in DOMAIN attempts'
             /\ attempts'[srvQueue'[i].event].state = "queued"
             /\ \A k \in DOMAIN attempts' :
                  attempts'[k].state = "published" => k < srvQueue'[i].event
  <2>1. i + 1 \in 1..m /\ 1 \in 1..m /\ 1 < i + 1 /\ srvQueue'[i] = srvQueue[i + 1]
    BY <1>2
  <2>2. n < srvQueue[i + 1].event
    BY <1>1, <1>2, <1>4, <2>1 DEF QueueInOrder
  <2>3. /\ srvQueue[i + 1].event \in DOMAIN attempts
        /\ attempts[srvQueue[i + 1].event].state = "queued"
        /\ \A k \in DOMAIN attempts : attempts[k].state = "published" => k < srvQueue[i + 1].event
    BY <1>2, <1>4, <2>1 DEF QueueInOrder
  <2>4. DOMAIN attempts \subseteq Nat
    BY LenProperties DEF StateTyped
  <2>5. srvQueue[i + 1].event # n
    BY <1>1, <2>2, <2>3, <2>4
  <2> QED
    BY <1>3, <2>1, <2>2, <2>3, <2>5
<1>5. ASSUME NEW i \in 1..(m - 1), NEW j \in 1..(m - 1), i < j,
             srvQueue'[i].kind = "publish", srvQueue'[j].kind = "publish"
      PROVE  srvQueue'[i].event < srvQueue'[j].event
  <2>1. i + 1 \in 1..m /\ j + 1 \in 1..m /\ i + 1 < j + 1
    BY <1>2, <1>5
  <2> QED
    BY <1>2, <1>5, <2>1 DEF QueueInOrder
<1> QED
  BY <1>2, <1>4, <1>5 DEF QueueInOrder

\* The table of sticky events after the decision: the new event is in it if it is

\* sticky and accepted, and replaces only events with its name.
LEMMA DecisionSticky ==
  ASSUME StateTyped, QueueInOrder, StickyOfAction, StickyNewest, PublishTask,
         NEW n, n = Head(srvQueue).event
  PROVE  stickyEvents' \in [Actions -> Nat] /\ StickyOfAction' /\ StickyNewest'
<1> DEFINE x == attempts[n].request.want.action
<1>1. /\ n \in DOMAIN attempts /\ attempts[n].state = "queued"
      /\ srvQueue[1].kind = "publish" /\ srvQueue[1].event = n /\ 1 \in DOMAIN srvQueue
  <2>1. srvQueue # <<>> /\ srvQueue \in Seq(Task)
    BY DecisionFacts DEF StateTyped
  <2>2. 1 \in DOMAIN srvQueue
    BY <2>1, TailTask
  <2> QED
    BY <2>2, DecisionFacts
<1>2. /\ DOMAIN attempts' = DOMAIN attempts
      /\ \A i \in DOMAIN attempts :
           /\ attempts'[i].request = attempts[i].request
           /\ attempts'[i].state =
              IF i = n THEN (IF Accepted(n) THEN "published" ELSE "refused") ELSE attempts[i].state
  BY DecisionLog DEF SameLog
<1>3. x \in Actions /\ n \in Nat \ {0} /\ DOMAIN attempts \subseteq Nat
  <2>1. attempts[n] \in Attempt /\ DOMAIN attempts = 1..Len(attempts) /\ Len(attempts) \in Nat
    BY <1>1, ElementOfSeq, LenProperties DEF StateTyped
  <2> QED
    BY <2>1, <1>1 DEF Actions, Attempt
<1>4. /\ EventRecord(attempts[n]).want.action = x
      /\ EventRecord(attempts[n]).info = attempts[n].request.info
  BY DEF EventRecord
<1>5. stickyEvents' = IF Accepted(n) /\ attempts[n].request.info.sticky
                      THEN [stickyEvents EXCEPT ![x] = n] ELSE stickyEvents
  BY <1>4, DecisionFacts
<1>6. stickyEvents \in [Actions -> Nat]
  BY DEF StateTyped
<1>7. \A k \in DOMAIN attempts : attempts[k].state = "published" => k < n
  BY <1>1 DEF QueueInOrder
<1> HIDE DEF x
<1>8. ASSUME NEW action \in Actions, stickyEvents'[action] # 0
      PROVE  LET i == stickyEvents'[action]
             IN /\ i \in DOMAIN attempts'
                /\ attempts'[i].request.want.action = action
                /\ attempts'[i].state = "published"
                /\ \A j \in DOMAIN attempts' :
                     j > i /\ attempts'[j].request.info.sticky
                       /\ attempts'[j].request.want.action = action
                       => attempts'[j].state # "published"
  <2>1. CASE Accepted(n) /\ attempts[n].request.info.sticky /\ action = x
    <3>1. stickyEvents'[action] = n
      BY <1>3, <1>5, <1>6, <2>1
    <3>2. attempts[n].request.want.action = action
      BY <2>1 DEF x
    <3>3. \A j \in DOMAIN attempts : j > n => attempts'[j].state # "published"
      BY <1>2, <1>3, <1>7
    <3> QED
      BY <1>1, <1>2, <2>1, <3>1, <3>2, <3>3
  <2>2. CASE ~(Accepted(n) /\ attempts[n].request.info.sticky /\ action = x)
    <3> DEFINE i == stickyEvents[action]
    <3>1. stickyEvents'[action] = i
      BY <1>3, <1>5, <1>6, <2>2
    <3>2. i # 0
      BY <3>1, <1>8
    <3>3. i \in DOMAIN attempts /\ attempts[i].request.want.action = action
      BY <3>2 DEF StickyOfAction
    <3>4. /\ attempts[i].state = "published"
          /\ \A j \in DOMAIN attempts :
               j > i /\ attempts[j].request.info.sticky
                 /\ attempts[j].request.want.action = action
                 => attempts[j].state # "published"
      BY <3>2 DEF StickyNewest
    <3> HIDE DEF i
    <3>5. attempts'[i].state = "published" /\ attempts'[i].request = attempts[i].request
      BY <1>1, <1>2, <3>3, <3>4
    <3>6. ASSUME NEW j \in DOMAIN attempts, j > i, attempts[j].request.info.sticky,
                 attempts[j].request.want.action = action
          PROVE  attempts'[j].state # "published"
      <4>1. CASE j = n
        <5>1. ~Accepted(n)
          BY <2>2, <3>6, <4>1 DEF x
        <5> QED
          BY <5>1, <4>1, <1>2
      <4>2. CASE j # n
        BY <1>2, <3>4, <3>6, <4>2
      <4> QED
        BY <4>1, <4>2
    <3> QED
      BY <1>2, <3>1, <3>3, <3>5, <3>6
  <2> QED
    BY <2>1, <2>2
<1>9. stickyEvents' \in [Actions -> Nat]
  BY <1>3, <1>5, <1>6
<1> QED
  BY <1>8, <1>9 DEF StickyOfAction, StickyNewest

\* Whom the decision hands the event to.
LEMMA DecisionIsolates ==
  ASSUME StateTyped, SubscribersEntitled, QueueInOrder, UserIsolation, PublishTask,
         NEW n, n = Head(srvQueue).event
  PROVE  UserIsolation'
<1>1. n \in DOMAIN attempts /\ attempts[n] \in Attempt
  <2>1. n \in DOMAIN attempts
    BY DecisionFacts
  <2> QED
    BY <2>1, ElementOfSeq, LenProperties DEF StateTyped
<1>2. /\ deliveries' = IF Accepted(n)
           THEN deliveries \cup
                  {[event |-> n, listener |-> l, replay |-> FALSE] : l \in Receivers(n)}
           ELSE deliveries
  BY DecisionFacts
<1>3. LogKept
  BY DecisionLog
<1> SUFFICES ASSUME NEW d \in deliveries', ~d.replay, Ordinary(Owner[d.listener])
             PROVE  Owner[d.listener].account \in Audience(attempts'[d.event])
  BY DEF UserIsolation, Audience
<1>4. CASE d \in deliveries
  <2>1. d.event \in DOMAIN attempts
    BY <1>4 DEF StateTyped
  <2>2. Audience(attempts'[d.event]) = Audience(attempts[d.event])
    BY <2>1, <1>3, SameRecord DEF LogKept
  <2> QED
    BY <1>4, <2>2 DEF UserIsolation
<1>5. CASE d \notin deliveries
  <2>1. Accepted(n) /\ d.event = n /\ d.listener \in Receivers(n)
    BY <1>2, <1>5
  <2> DEFINE l == d.listener
  <2>2. /\ l \in Listener /\ subscribers[l] # None
        /\ Matches(subscribers[l], EventRecord(attempts[n]))
    BY <2>1 DEF Receivers
  <2>3. PICK r \in SubscribeRequest : subscribers[l] = SubscriberOf(l, r)
    BY <2>2 DEF SubscribersEntitled
  <2>4. PublishAllowed(attempts[n])
    BY <2>1 DEF Accepted
  <2>5. Owner[l].account \in Audience(attempts[n])
    BY <1>1, <2>2, <2>3, <2>4, MatchedIsMeant
  <2>6. Audience(attempts'[n]) = Audience(attempts[n])
    BY <1>1, <1>3, SameRecord DEF LogKept
  <2> QED
    BY <2>1, <2>5, <2>6
<1> QED
  BY <1>4, <1>5

\* A sticky event that is accepted is handed to the subscribers that match it.
LEMMA DecisionReaches ==
  ASSUME StateTyped, QueueInOrder, StickyOfAction, StickyReachesAll, PublishTask,
         NEW n, n = Head(srvQueue).event
  PROVE  StickyReachesAll'
<1> DEFINE x == EventRecord(attempts[n]).want.action
           sticky == Accepted(n) /\ EventRecord(attempts[n]).info.sticky
<1>1. n \in DOMAIN attempts
  BY DecisionFacts
<1>2. LogKept
  BY DecisionLog
<1>3. /\ stickyEvents' = IF sticky THEN [stickyEvents EXCEPT ![x] = n] ELSE stickyEvents
      /\ deliveries' = IF Accepted(n)
           THEN deliveries \cup
                  {[event |-> n, listener |-> l, replay |-> FALSE] : l \in Receivers(n)}
           ELSE deliveries
      /\ subscribers' = subscribers
  BY DecisionFacts
<1>4. stickyEvents \in [Actions -> Nat] /\ deliveries \subseteq deliveries'
  BY <1>3 DEF StateTyped
<1> HIDE DEF x, sticky
<1> SUFFICES ASSUME NEW l \in Listener, NEW action \in Actions,
                stickyEvents'[action] # 0, subscribers'[l] # None,
                Matches(subscribers'[l], EventRecord(attempts'[stickyEvents'[action]])),
                EventRecord(attempts'[stickyEvents'[action]]).info.bundleName
                  \in {"", subscribers'[l].caller.bundleName}
         PROVE  \E d \in deliveries' : d.event = stickyEvents'[action] /\ d.listener = l
  BY ReachedAll
<1>5. CASE sticky /\ action = x
  <2>1. stickyEvents'[action] = n
    BY <1>3, <1>4, <1>5
  <2>2. EventRecord(attempts'[n]) = EventRecord(attempts[n])
    BY <1>1, <1>2, SameRecord DEF LogKept
  <2>3. Matches(subscribers[l], EventRecord(attempts[n]))
    BY <1>3, <2>1, <2>2
  <2>4. l \in Receivers(n)
    BY <1>3, <2>3 DEF Receivers
  <2>5. Accepted(n)
    BY <1>5 DEF sticky
  <2>6. [event |-> n, listener |-> l, replay |-> FALSE] \in deliveries'
    BY <1>3, <2>4, <2>5
  <2> QED
    BY <2>1, <2>6
<1>6. CASE ~(sticky /\ action = x)
  <2>1. stickyEvents'[action] = stickyEvents[action] /\ subscribers'[l] = subscribers[l]
    BY <1>3, <1>4, <1>6
  <2> QED
    BY <1>2, <1>4, <2>1, ReachedFrame
<1> QED
  BY <1>5, <1>6

(***************************************************************************)
(* Subscriptions                                                           *)
(***************************************************************************)

\* What SubscribeTask does when the request is allowed, with names for its parts.
LEMMA SubscribeFacts ==
  ASSUME StateTyped, SubscribeTask
  PROVE  /\ srvQueue # <<>> /\ srvQueue' = Tail(srvQueue)
         /\ now' = now /\ attempts' = attempts /\ stickyEvents' = stickyEvents
         /\ floodAttackAppStatistics' = floodAttackAppStatistics
         /\ subscribes' = subscribes /\ toStatic' = toStatic
         /\ \/ subscribers' = subscribers /\ deliveries' = deliveries
            \/ \E l \in Listener, r \in SubscribeRequest :
                 /\ SubscribeAllowed(l, r)
                 /\ subscribers' = [subscribers EXCEPT ![l] = SubscriberOf(l, r)]
                 /\ deliveries' = deliveries \cup
                      {[event |-> n, listener |-> l, replay |-> TRUE] :
                         n \in ReplayedTo(Owner[l], r.info)}
<1> DEFINE l == Head(srvQueue).listener
           r == Head(srvQueue).request
<1>1. srvQueue # <<>> /\ Head(srvQueue).kind = "subscribe" /\ srvQueue \in Seq(Task)
  BY DEF SubscribeTask, HeadTask, StateTyped
<1>2. Head(srvQueue) \in Task
  BY <1>1, TailTask
<1>3. l \in Listener /\ r \in SubscribeRequest
  BY <1>1, <1>2, TaskKinds
<1>4. /\ srvQueue' = Tail(srvQueue)
      /\ now' = now /\ attempts' = attempts /\ stickyEvents' = stickyEvents
      /\ floodAttackAppStatistics' = floodAttackAppStatistics
      /\ subscribes' = subscribes /\ toStatic' = toStatic
  BY DEF SubscribeTask
<1>5. \/ subscribers' = subscribers /\ deliveries' = deliveries
      \/ /\ SubscribeAllowed(l, r)
         /\ subscribers' = [subscribers EXCEPT ![l] = SubscriberOf(l, r)]
         /\ deliveries' = deliveries \cup
              {[event |-> n, listener |-> l, replay |-> TRUE] : n \in ReplayedTo(Owner[l], r.info)}
  BY DEF SubscribeTask, SubscriberOf
<1> HIDE DEF l, r
<1> QED
  BY <1>1, <1>3, <1>4, <1>5

\* The kept events that are replayed are in the log.
LEMMA ReplayedIsLogged ==
  ASSUME StickyOfAction, NEW c, NEW info, NEW n \in ReplayedTo(c, info)
  PROVE  n \in DOMAIN attempts
BY DEF ReplayedTo, FindStickyEvents, StickyOfAction

\* A new subscriber is handed the kept events it is entitled to.
LEMMA SubscribeReaches ==
  ASSUME StateTyped, StickyOfAction, StickyReachesAll,
         NEW l \in Listener, NEW r \in SubscribeRequest,
         subscribers' = [subscribers EXCEPT ![l] = SubscriberOf(l, r)],
         deliveries' = deliveries \cup
           {[event |-> n, listener |-> l, replay |-> TRUE] : n \in ReplayedTo(Owner[l], r.info)},
         attempts' = attempts, stickyEvents' = stickyEvents
  PROVE  StickyReachesAll'
<1>1. LogKept /\ deliveries \subseteq deliveries'
  BY DEF LogKept
<1>2. subscribers \in [Listener -> {None} \cup Subscriber]
  BY DEF StateTyped
<1>3. /\ subscribers'[l] = SubscriberOf(l, r)
      /\ \A m \in Listener : m # l => subscribers'[m] = subscribers[m]
  BY <1>2
<1> SUFFICES ASSUME NEW m \in Listener, NEW action \in Actions,
                stickyEvents'[action] # 0, subscribers'[m] # None,
                Matches(subscribers'[m], EventRecord(attempts'[stickyEvents'[action]])),
                EventRecord(attempts'[stickyEvents'[action]]).info.bundleName
                  \in {"", subscribers'[m].caller.bundleName}
         PROVE  \E d \in deliveries' : d.event = stickyEvents'[action] /\ d.listener = m
  BY ReachedAll
<1>4. CASE m = l
  <2> DEFINE i == stickyEvents[action]
             e == EventRecord(attempts[i])
  <2>1. i # 0 /\ i \in DOMAIN attempts /\ attempts[i].request.want.action = action
    BY DEF StickyOfAction
  <2>2. e.want.action = action /\ e.info = attempts[i].request.info
    BY <2>1 DEF EventRecord
  <2>3. Matches(SubscriberOf(l, r), e)
    BY <1>3, <1>4
  <2>4. SubscriberOf(l, r).info = r.info /\ SubscriberOf(l, r).caller = Owner[l]
    BY DEF SubscriberOf
  <2>5. action \in r.info.events
    BY <2>2, <2>3, <2>4 DEF Matches, Match
  <2>6. e.info.bundleName \in {"", Owner[l].bundleName}
    BY <1>3, <1>4, <2>4
  <2>7. i \in ReplayedTo(Owner[l], r.info)
    BY <2>1, <2>2, <2>5, <2>6 DEF ReplayedTo, FindStickyEvents
  <2>8. [event |-> i, listener |-> l, replay |-> TRUE] \in deliveries'
    BY <2>7
  <2> QED
    BY <2>8, <1>4
<1>5. CASE m # l
  <2>1. subscribers'[m] = subscribers[m] /\ stickyEvents'[action] = stickyEvents[action]
    BY <1>3, <1>5
  <2> QED
    BY <1>1, <2>1, ReachedFrame
<1> QED
  BY <1>4, <1>5
(***************************************************************************)
(* The invariant, action by action                                         *)
(***************************************************************************)

\* Initially nothing is logged, queued, kept or handed over.
LEMMA PublicationInit ==
  ASSUME Init
  PROVE  PublicationInv
<1>1. /\ attempts = <<>> /\ srvQueue = <<>> /\ stickyEvents = [a \in Actions |-> 0]
      /\ subscribers = [l \in Listener |-> None] /\ deliveries = {} /\ toStatic = {} /\ now = 0
      /\ floodAttackAppStatistics = [u \in Uids |-> <<>>]
  BY DEF Init
<1>2. \A S : <<>> \in Seq(S)
  BY EmptySeq
<1>3. DOMAIN <<>> = {}
  BY EmptySeq, LenProperties
<1>4. StateTyped
  <2>1. now \in 0..MaxTime
    BY <1>1, PublicationAssumption
  <2>2. attempts \in Seq(Attempt) /\ srvQueue \in Seq(Task)
    BY <1>1, <1>2
  <2>3. floodAttackAppStatistics \in [Uids -> Seq(0..now)]
    <3> DEFINE S == 0..now
    <3> HIDE DEF S
    <3>1. floodAttackAppStatistics \in [Uids -> Seq(S)]
      BY <1>1, <1>2
    <3> QED
      BY <3>1 DEF S
  <2>4. stickyEvents \in [Actions -> Nat] /\ subscribers \in [Listener -> {None} \cup Subscriber]
    BY <1>1
  <2> QED
    BY <1>1, <2>1, <2>2, <2>3, <2>4 DEF StateTyped
<1>5. SubscribersEntitled /\ StickyOfAction /\ StickyNewest /\ StickyReachesAll
  BY <1>1 DEF SubscribersEntitled, StickyOfAction, StickyNewest, StickyReachesAll
<1>6. QueueInOrder /\ WindowKept /\ FloodBound /\ UserIsolation
  BY <1>1, <1>3 DEF QueueInOrder, WindowKept, FloodBound, UserIsolation
<1> QED
  BY <1>4, <1>5, <1>6 DEF PublicationInv

\* PublishCommonEvent
LEMMA PublishKeeps ==
  ASSUME PublicationInv, NEW c \in Caller, NEW r \in PublishRequest, PublishCommonEvent(c, r)
  PROVE  PublicationInv'
<1> USE DEF PublicationInv
<1>1. PICK n \in Nat : n = Len(attempts)
  BY LenProperties DEF StateTyped
<1>2. PICK w \in Seq(0..now) : w = floodAttackAppStatistics[c.uid]
  BY DEF StateTyped, Uids
<1>3. /\ attempts' \in Seq(Attempt) /\ DOMAIN attempts' = 1..(n + 1) /\ DOMAIN attempts = 1..n
      /\ \A i \in 1..n : attempts'[i] = attempts[i]
      /\ attempts'[n + 1].state \in {"flooded", "queued"} /\ now' = now
  BY <1>1, PublishFacts
<1>4. /\ stickyEvents' = stickyEvents /\ subscribers' = subscribers /\ toStatic' = toStatic
      /\ deliveries' = deliveries
  BY DEF PublishCommonEvent
<1>5. LogKept
  BY <1>1, <1>3 DEF LogKept
<1>6. srvQueue' \in Seq(Task) /\ QueueInOrder'
  BY <1>1, QueuePublish
<1>7. floodAttackAppStatistics' \in [Uids -> Seq(0..now)]
  BY <1>2, PublishWindow
<1>8. StateTyped'
  <2>1. toStatic' \in SUBSET DOMAIN attempts'
    BY <1>1, <1>3, <1>4 DEF StateTyped
  <2>2. deliveries' \in SUBSET [event : DOMAIN attempts', listener : Listener, replay : BOOLEAN]
    BY <1>1, <1>3, <1>4 DEF StateTyped
  <2>3. /\ now' \in 0..MaxTime /\ stickyEvents' \in [Actions -> Nat]
        /\ subscribers' \in [Listener -> {None} \cup Subscriber]
        /\ floodAttackAppStatistics' \in [Uids -> Seq(0..now')]
    BY <1>3, <1>4, <1>7 DEF StateTyped
  <2> QED
    BY <1>3, <1>6, <2>1, <2>2, <2>3 DEF StateTyped
<1>9. SubscribersEntitled'
  BY <1>4 DEF SubscribersEntitled, SubscribeAllowed
<1>10. StickyOfAction'
  BY <1>4, <1>5, StickyFrame
<1>11. WindowKept'
  BY <1>1, <1>2, PublishKeepsWindow
<1>12. FloodBound'
  BY <1>1, <1>2, <1>11, PublishKeepsBound
<1>13. UserIsolation'
  BY <1>4, <1>5, IsolationFrame
<1>14. StickyNewest'
  <2> SUFFICES ASSUME NEW action \in Actions, stickyEvents[action] # 0
               PROVE  LET i == stickyEvents[action]
                      IN /\ attempts'[i].state = "published"
                         /\ \A j \in DOMAIN attempts' :
                              j > i /\ attempts'[j].request.info.sticky
                                /\ attempts'[j].request.want.action = action
                                => attempts'[j].state # "published"
    BY <1>4 DEF StickyNewest
  <2>1. stickyEvents[action] \in 1..n
    BY <1>1, <1>3 DEF StickyOfAction
  <2>2. \A j \in DOMAIN attempts' : j \in 1..n \/ j = n + 1
    BY <1>1, <1>3
  <2>3. attempts'[n + 1].state # "published"
    BY <1>3
  <2> QED
    BY <1>3, <2>1, <2>2, <2>3 DEF StickyNewest
<1>15. StickyReachesAll'
  BY <1>4, <1>5, ReachesFrame
<1> QED
  BY <1>6, <1>8, <1>9, <1>10, <1>11, <1>12, <1>13, <1>14, <1>15

\* The parts that only look at the log and the clock, while the log stays.
LEMMA LogFrame ==
  ASSUME PublicationInv, attempts' = attempts, now' = now,
         floodAttackAppStatistics' = floodAttackAppStatistics
  PROVE  WindowKept' /\ FloodBound' /\ LogKept
<1>1. SameLog
  BY DEF SameLog
<1>2. now \in Nat
  BY PublicationAssumption DEF PublicationInv, StateTyped
<1>3. WindowKept' /\ FloodBound'
  BY <1>1, <1>2, SameLogKeepsWindow, SameLogKeepsBound DEF PublicationInv
<1>4. LogKept
  BY DEF LogKept
<1> QED
  BY <1>3, <1>4

\* The parts that look at the log, the queue and the tables, while those stay.
LEMMA TablesFrame ==
  ASSUME PublicationInv, UNCHANGED <<attempts, srvQueue, stickyEvents, subscribers>>
  PROVE  SubscribersEntitled' /\ QueueInOrder' /\ StickyOfAction' /\ StickyNewest'
<1>1. SubscribersEntitled'
  BY DEF PublicationInv, SubscribersEntitled, SubscribeAllowed
<1>2. QueueInOrder'
  BY DEF PublicationInv, QueueInOrder
<1>3. StickyOfAction'
  BY DEF PublicationInv, StickyOfAction
<1>4. StickyNewest'
  BY DEF PublicationInv, StickyNewest
<1> QED
  BY <1>1, <1>2, <1>3, <1>4

\* A request enters the queue: SubscribeCommonEvent and UnsubscribeCommonEvent.
LEMMA RequestKeeps ==
  ASSUME PublicationInv, NEW x \in Task, x.kind # "publish", srvQueue' = Append(srvQueue, x),
         UNCHANGED <<now, attempts, floodAttackAppStatistics, stickyEvents, subscribers,
                     toStatic, deliveries>>
  PROVE  PublicationInv'
<1> USE DEF PublicationInv
<1>1. WindowKept' /\ FloodBound' /\ LogKept
  BY LogFrame
<1>2. QueueInOrder'
  BY QueueOther
<1>3. srvQueue' \in Seq(Task)
  BY AppendTask DEF StateTyped
<1>4. StateTyped'
  BY <1>3 DEF StateTyped
<1>5. SubscribersEntitled'
  BY DEF SubscribersEntitled, SubscribeAllowed
<1>6. StickyOfAction' /\ UserIsolation' /\ StickyReachesAll'
  BY <1>1, StickyFrame, IsolationFrame, ReachesFrame
<1>7. StickyNewest'
  BY DEF StickyNewest
<1> QED
  BY <1>1, <1>2, <1>4, <1>5, <1>6, <1>7

\* RemoveStickyCommonEvent
LEMMA RemoveKeeps ==
  ASSUME PublicationInv, NEW c \in Caller, NEW a \in Actions, RemoveStickyCommonEvent(c, a)
  PROVE  PublicationInv'
<1> USE DEF PublicationInv
<1>1. /\ stickyEvents' = [stickyEvents EXCEPT ![a] = 0]
      /\ UNCHANGED <<now, attempts, floodAttackAppStatistics, srvQueue, subscribers,
                     toStatic, deliveries>>
  BY DEF RemoveStickyCommonEvent
<1>2. WindowKept' /\ FloodBound' /\ LogKept
  BY <1>1, LogFrame
<1>3. StateTyped'
  BY <1>1 DEF StateTyped
<1>4. SubscribersEntitled' /\ QueueInOrder'
  BY <1>1 DEF SubscribersEntitled, SubscribeAllowed, QueueInOrder
<1>5. \A x \in Actions : stickyEvents'[x] # 0 => stickyEvents'[x] = stickyEvents[x]
  BY <1>1 DEF StateTyped
<1>6. StickyOfAction' /\ StickyNewest'
  BY <1>1, <1>5 DEF StickyOfAction, StickyNewest
<1>7. UserIsolation'
  BY <1>1, <1>2, IsolationFrame
<1>8. StickyReachesAll'
  <2> SUFFICES ASSUME NEW l \in Listener, NEW action \in Actions,
                stickyEvents'[action] # 0, subscribers'[l] # None,
                Matches(subscribers'[l], EventRecord(attempts'[stickyEvents'[action]])),
                EventRecord(attempts'[stickyEvents'[action]]).info.bundleName
                  \in {"", subscribers'[l].caller.bundleName}
         PROVE  \E d \in deliveries' : d.event = stickyEvents'[action] /\ d.listener = l
    BY ReachedAll
  <2>1. /\ stickyEvents'[action] = stickyEvents[action] /\ subscribers'[l] = subscribers[l]
        /\ deliveries \subseteq deliveries'
    BY <1>1, <1>5
  <2> QED
    BY <1>2, <2>1, ReachedFrame
<1> QED
  BY <1>2, <1>3, <1>4, <1>6, <1>7, <1>8

\* PublishTask
LEMMA DecideKeeps ==
  ASSUME PublicationInv, PublishTask
  PROVE  PublicationInv'
<1> USE DEF PublicationInv
<1>1. PICK n \in {Head(srvQueue).event} : n = Head(srvQueue).event
  OBVIOUS
<1>2. /\ n \in DOMAIN attempts /\ toStatic' \in {toStatic, toStatic \cup {n}}
      /\ deliveries' = IF Accepted(n)
           THEN deliveries \cup
                  {[event |-> n, listener |-> l, replay |-> FALSE] : l \in Receivers(n)}
           ELSE deliveries
      /\ now' = now /\ floodAttackAppStatistics' = floodAttackAppStatistics
      /\ subscribers' = subscribers
  BY <1>1, DecisionFacts
<1>3. attempts' \in Seq(Attempt) /\ SameLog /\ LogKept
  BY <1>1, DecisionLog
<1>4. srvQueue' \in Seq(Task) /\ QueueInOrder'
  BY <1>1, DecisionQueue
<1>5. stickyEvents' \in [Actions -> Nat] /\ StickyOfAction' /\ StickyNewest'
  BY <1>1, DecisionSticky
<1>6. StateTyped'
  <2>1. DOMAIN attempts' = DOMAIN attempts
    BY <1>3 DEF SameLog
  <2>2. toStatic' \in SUBSET DOMAIN attempts'
    BY <1>2, <2>1 DEF StateTyped
  <2>3. deliveries' \in SUBSET [event : DOMAIN attempts', listener : Listener, replay : BOOLEAN]
    <3> SUFFICES ASSUME NEW d \in deliveries'
                 PROVE  d \in [event : DOMAIN attempts, listener : Listener, replay : BOOLEAN]
      BY <2>1
    <3>1. CASE d \in deliveries
      BY <3>1 DEF StateTyped
    <3>2. CASE d \notin deliveries
      <4>1. PICK l \in Receivers(n) : d = [event |-> n, listener |-> l, replay |-> FALSE]
        BY <1>2, <3>2
      <4>2. l \in Listener
        BY DEF Receivers
      <4> QED
        BY <1>2, <4>1, <4>2
    <3> QED
      BY <3>1, <3>2
  <2> QED
    BY <1>2, <1>3, <1>4, <1>5, <2>2, <2>3 DEF StateTyped
<1>7. SubscribersEntitled'
  BY <1>2 DEF SubscribersEntitled, SubscribeAllowed
<1>8. WindowKept' /\ FloodBound'
  <2>1. now \in Nat
    BY PublicationAssumption DEF StateTyped
  <2> QED
    BY <1>2, <1>3, <2>1, SameLogKeepsWindow, SameLogKeepsBound
<1>9. UserIsolation' /\ StickyReachesAll'
  BY <1>1, DecisionIsolates, DecisionReaches
<1> QED
  BY <1>4, <1>5, <1>6, <1>7, <1>8, <1>9

\* SubscribeTask
LEMMA SubscribeKeeps ==
  ASSUME PublicationInv, SubscribeTask
  PROVE  PublicationInv'
<1> USE DEF PublicationInv
<1>1. /\ srvQueue # <<>> /\ srvQueue' = Tail(srvQueue)
      /\ now' = now /\ attempts' = attempts /\ stickyEvents' = stickyEvents
      /\ floodAttackAppStatistics' = floodAttackAppStatistics /\ toStatic' = toStatic
  BY SubscribeFacts
<1>2. WindowKept' /\ FloodBound' /\ LogKept
  BY <1>1, LogFrame
<1>3. srvQueue' \in Seq(Task) /\ QueueInOrder'
  BY <1>1, QueueLeave, TailTask DEF StateTyped
<1>4. StickyOfAction' /\ StickyNewest'
  BY <1>1 DEF StickyOfAction, StickyNewest
<1>5. CASE subscribers' = subscribers /\ deliveries' = deliveries
  <2>1. StateTyped'
    BY <1>1, <1>3, <1>5 DEF StateTyped
  <2>2. SubscribersEntitled'
    BY <1>5 DEF SubscribersEntitled, SubscribeAllowed
  <2>3. UserIsolation' /\ StickyReachesAll'
    BY <1>1, <1>2, <1>5, IsolationFrame, ReachesFrame
  <2> QED
    BY <1>2, <1>3, <1>4, <2>1, <2>2, <2>3
<1>6. CASE \E l \in Listener, r \in SubscribeRequest :
             /\ SubscribeAllowed(l, r)
             /\ subscribers' = [subscribers EXCEPT ![l] = SubscriberOf(l, r)]
             /\ deliveries' = deliveries \cup
                  {[event |-> n, listener |-> l, replay |-> TRUE] :
                     n \in ReplayedTo(Owner[l], r.info)}
  <2>0. PICK l \in Listener, r \in SubscribeRequest :
          /\ SubscribeAllowed(l, r)
          /\ subscribers' = [subscribers EXCEPT ![l] = SubscriberOf(l, r)]
          /\ deliveries' = deliveries \cup
               {[event |-> n, listener |-> l, replay |-> TRUE] :
                  n \in ReplayedTo(Owner[l], r.info)}
    BY <1>6
  <2>1. deliveries' \in SUBSET [event : DOMAIN attempts', listener : Listener, replay : BOOLEAN]
    <3> SUFFICES ASSUME NEW d \in deliveries'
                 PROVE  d \in [event : DOMAIN attempts, listener : Listener, replay : BOOLEAN]
      BY <1>1
    <3>1. CASE d \in deliveries
      BY <3>1 DEF StateTyped
    <3>2. CASE d \notin deliveries
      <4>1. PICK n \in ReplayedTo(Owner[l], r.info) :
              d = [event |-> n, listener |-> l, replay |-> TRUE]
        BY <2>0, <3>2
      <4>2. n \in DOMAIN attempts
        BY ReplayedIsLogged
      <4> QED
        BY <4>1, <4>2
    <3> QED
      BY <3>1, <3>2
  <2>2. SubscriberOf(l, r) \in Subscriber
    BY DEF Subscriber
  <2>3. subscribers' \in [Listener -> {None} \cup Subscriber]
    BY <2>0, <2>2 DEF StateTyped
  <2>4. StateTyped'
    BY <1>1, <1>3, <2>1, <2>3 DEF StateTyped
  <2>5. SubscribersEntitled'
    <3>1. subscribers \in [Listener -> {None} \cup Subscriber]
      BY DEF StateTyped
    <3> QED
      BY <2>0, <3>1 DEF SubscribersEntitled, SubscribeAllowed
  <2>6. StickyReachesAll'
    BY <1>1, <2>0, SubscribeReaches
  <2>7. UserIsolation'
    <3> SUFFICES ASSUME NEW d \in deliveries', ~d.replay, Ordinary(Owner[d.listener])
                 PROVE  Owner[d.listener].account \in Audience(attempts'[d.event])
      BY DEF UserIsolation, Audience
    <3>1. d \in deliveries
      BY <2>0
    <3> QED
      BY <1>1, <3>1 DEF UserIsolation
  <2> QED
    BY <1>2, <1>3, <1>4, <2>4, <2>5, <2>6, <2>7
<1> QED
  BY <1>5, <1>6, SubscribeFacts

\* UnsubscribeTask
LEMMA UnsubscribeKeeps ==
  ASSUME PublicationInv, UnsubscribeTask
  PROVE  PublicationInv'
<1> USE DEF PublicationInv
<1>1. /\ srvQueue # <<>> /\ srvQueue' = Tail(srvQueue)
      /\ Head(srvQueue).kind = "unsubscribe"
      /\ subscribers' = [subscribers EXCEPT ![Head(srvQueue).listener] = None]
      /\ now' = now /\ attempts' = attempts /\ stickyEvents' = stickyEvents
      /\ floodAttackAppStatistics' = floodAttackAppStatistics /\ toStatic' = toStatic
      /\ deliveries' = deliveries
  BY DEF UnsubscribeTask, HeadTask
<1>2. WindowKept' /\ FloodBound' /\ LogKept
  BY <1>1, LogFrame
<1>3. srvQueue' \in Seq(Task) /\ QueueInOrder'
  BY <1>1, QueueLeave, TailTask DEF StateTyped
<1>4. StickyOfAction' /\ StickyNewest'
  BY <1>1 DEF StickyOfAction, StickyNewest
<1>5. /\ subscribers' \in [Listener -> {None} \cup Subscriber]
      /\ \A l \in Listener : subscribers'[l] # None => subscribers'[l] = subscribers[l]
  BY <1>1 DEF StateTyped
<1>6. StateTyped'
  BY <1>1, <1>3, <1>5 DEF StateTyped
<1>7. SubscribersEntitled'
  BY <1>5 DEF SubscribersEntitled, SubscribeAllowed
<1>8. UserIsolation'
  BY <1>1, <1>2, IsolationFrame
<1>9. StickyReachesAll'
  <2> SUFFICES ASSUME NEW l \in Listener, NEW action \in Actions,
                stickyEvents'[action] # 0, subscribers'[l] # None,
                Matches(subscribers'[l], EventRecord(attempts'[stickyEvents'[action]])),
                EventRecord(attempts'[stickyEvents'[action]]).info.bundleName
                  \in {"", subscribers'[l].caller.bundleName}
         PROVE  \E d \in deliveries' : d.event = stickyEvents'[action] /\ d.listener = l
    BY ReachedAll
  <2>1. /\ stickyEvents'[action] = stickyEvents[action] /\ subscribers'[l] = subscribers[l]
        /\ deliveries \subseteq deliveries'
    BY <1>1, <1>5
  <2> QED
    BY <1>2, <2>1, ReachedFrame
<1> QED
  BY <1>2, <1>3, <1>4, <1>6, <1>7, <1>8, <1>9

\* Tick
LEMMA TickKeeps ==
  ASSUME PublicationInv, Tick
  PROVE  PublicationInv'
<1> USE DEF PublicationInv
<1>1. /\ now' = now + 1 /\ now < MaxTime
      /\ UNCHANGED <<attempts, floodAttackAppStatistics, srvQueue, stickyEvents, subscribers,
                     toStatic, deliveries>>
  BY DEF Tick
<1>2. now \in Nat /\ now' \in 0..MaxTime
  BY <1>1, PublicationAssumption DEF StateTyped
<1>3. SameLog /\ LogKept
  BY <1>1 DEF SameLog, LogKept
<1>4. WindowKept' /\ FloodBound'
  BY <1>1, <1>2, <1>3, SameLogKeepsWindow, SameLogKeepsBound
<1>5. floodAttackAppStatistics' \in [Uids -> Seq(0..now')]
  <2> SUFFICES ASSUME NEW u \in Uids
               PROVE  floodAttackAppStatistics[u] \in Seq(0..now')
    BY <1>1 DEF StateTyped
  <2> DEFINE w == floodAttackAppStatistics[u]
             S == 0..now'
  <2>1. w \in Seq(0..now)
    BY DEF StateTyped
  <2>2. Len(w) \in Nat /\ w \in [1..Len(w) -> 0..now]
    BY <2>1, LenProperties
  <2>3. \A i \in 1..Len(w) : w[i] \in S
    BY <1>1, <1>2, <2>2
  <2> HIDE DEF w, S
  <2>4. w \in [1..Len(w) -> S]
    BY <2>2, <2>3
  <2>5. w \in Seq(S)
    BY <2>2, <2>4
  <2> QED
    BY <2>5 DEF w, S
<1>6. StateTyped'
  BY <1>1, <1>2, <1>5 DEF StateTyped
<1>7. SubscribersEntitled' /\ QueueInOrder' /\ StickyOfAction' /\ StickyNewest'
  BY <1>1, TablesFrame
<1>8. UserIsolation' /\ StickyReachesAll'
  BY <1>1, <1>3, IsolationFrame, ReachesFrame
<1> QED
  BY <1>4, <1>6, <1>7, <1>8

\* Every step keeps the invariant.
LEMMA PublicationStep ==
  ASSUME PublicationInv, [Next]_vars
  PROVE  PublicationInv'
<1>1. ASSUME NEW c \in Caller, NEW r \in PublishRequest, PublishCommonEvent(c, r)
      PROVE  PublicationInv'
  BY <1>1, PublishKeeps
<1>2. ASSUME NEW l \in Listener, NEW r \in SubscribeRequest, SubscribeCommonEvent(l, r)
      PROVE  PublicationInv'
  <2> DEFINE x == [kind |-> "subscribe", listener |-> l, request |-> r]
  <2>1. x \in Task /\ x.kind # "publish"
    BY DEF Task, SubscribeTaskOf
  <2>2. /\ srvQueue' = Append(srvQueue, x)
        /\ UNCHANGED <<now, attempts, floodAttackAppStatistics, stickyEvents, subscribers,
                       toStatic, deliveries>>
    BY <1>2 DEF SubscribeCommonEvent
  <2> HIDE DEF x
  <2> QED
    BY <2>1, <2>2, RequestKeeps
<1>3. ASSUME NEW l \in Listener, UnsubscribeCommonEvent(l)
      PROVE  PublicationInv'
  <2> DEFINE x == [kind |-> "unsubscribe", listener |-> l]
  <2>1. x \in Task /\ x.kind # "publish"
    BY DEF Task, UnsubscribeTaskOf
  <2>2. /\ srvQueue' = Append(srvQueue, x)
        /\ UNCHANGED <<now, attempts, floodAttackAppStatistics, stickyEvents, subscribers,
                       toStatic, deliveries>>
    BY <1>3 DEF UnsubscribeCommonEvent
  <2> HIDE DEF x
  <2> QED
    BY <2>1, <2>2, RequestKeeps
<1>4. ASSUME NEW c \in Caller, NEW a \in Actions, RemoveStickyCommonEvent(c, a)
      PROVE  PublicationInv'
  BY <1>4, RemoveKeeps
<1>5. CASE PublishTask
  BY <1>5, DecideKeeps
<1>6. CASE SubscribeTask
  BY <1>6, SubscribeKeeps
<1>7. CASE UnsubscribeTask
  BY <1>7, UnsubscribeKeeps
<1>8. CASE Tick
  BY <1>8, TickKeeps
<1>9. CASE UNCHANGED vars
  <2>1. UNCHANGED <<now, attempts, floodAttackAppStatistics, srvQueue, stickyEvents, subscribers,
                    toStatic, deliveries>>
    BY <1>9 DEF vars
  <2>2. WindowKept' /\ FloodBound' /\ LogKept
    BY <2>1, LogFrame
  <2>3. SubscribersEntitled' /\ QueueInOrder' /\ StickyOfAction' /\ StickyNewest'
    BY <2>1, TablesFrame
  <2>5. StateTyped'
    BY <2>1 DEF PublicationInv, StateTyped
  <2>4. UserIsolation' /\ StickyReachesAll'
    BY <2>1, <2>2, IsolationFrame, ReachesFrame DEF PublicationInv
  <2> QED
    BY <2>2, <2>3, <2>4, <2>5 DEF PublicationInv
<1> QED
  BY <1>1, <1>2, <1>3, <1>4, <1>5, <1>6, <1>7, <1>8, <1>9 DEF Next

(***************************************************************************)
(* The theorems                                                            *)
(***************************************************************************)

\* The invariant holds in every reachable state: the flood window is in step with
\* the log, and the queue with what is decided (PublishManager, InnerCommonEventManager).
THEOREM PublicationInvariance == Spec => []PublicationInv
<1>1. Init => PublicationInv
  BY PublicationInit
<1>2. PublicationInv /\ [Next]_vars => PublicationInv'
  BY PublicationStep
<1> QED
  BY <1>1, <1>2, PTL DEF Spec

\* Type correctness of the service's state.
THEOREM TypeCorrect == Spec => []TypeOK
<1>1. PublicationInv => TypeOK
  <2> SUFFICES ASSUME PublicationInv PROVE TypeOK
    OBVIOUS
  <2>1. StateTyped /\ StickyOfAction /\ SubscribersEntitled
    BY DEF PublicationInv
  <2>2. /\ Len(attempts) \in Nat /\ DOMAIN attempts = 1..Len(attempts)
        /\ \A i \in DOMAIN attempts : attempts[i] \in Attempt
    BY <2>1, LenProperties, ElementOfSeq DEF StateTyped
  <2>3. \A u \in Uids : \A i \in DOMAIN floodAttackAppStatistics[u] :
          floodAttackAppStatistics[u][i] \in 0..now
    <3> SUFFICES ASSUME NEW u \in Uids
                 PROVE  \A i \in DOMAIN floodAttackAppStatistics[u] :
                          floodAttackAppStatistics[u][i] \in 0..now
      OBVIOUS
    <3>1. floodAttackAppStatistics[u] \in Seq(0..now)
      BY <2>1 DEF StateTyped
    <3> QED
      BY <3>1, LenProperties, ElementOfSeq
  <2>4. \A i \in DOMAIN srvQueue : srvQueue[i].kind \in {"publish", "subscribe", "unsubscribe"}
    <3>1. \A i \in DOMAIN srvQueue : srvQueue[i] \in Task
      BY <2>1, LenProperties, ElementOfSeq DEF StateTyped
    <3> QED
      BY <3>1, TaskKinds
  <2>5. stickyEvents \in [Actions -> 0..Len(attempts)]
    <3>1. \A a \in Actions : stickyEvents[a] \in 0..Len(attempts)
      BY <2>1, <2>2 DEF StickyOfAction
    <3>2. stickyEvents \in [Actions -> Nat]
      BY <2>1 DEF StateTyped
    <3> QED
      BY <3>1, <3>2
  <2>6. \A l \in Listener : subscribers[l] = None \/ subscribers[l].info.events # {}
    <3> SUFFICES ASSUME NEW l \in Listener, subscribers[l] # None
                 PROVE  subscribers[l].info.events # {}
      OBVIOUS
    <3>1. PICK r \in SubscribeRequest :
            SubscribeAllowed(l, r) /\ subscribers[l] = SubscriberOf(l, r)
      BY <2>1 DEF SubscribersEntitled
    <3>2. r.info.events # {}
      BY <3>1 DEF SubscribeAllowed
    <3>3. SubscriberOf(l, r).info = r.info
      BY DEF SubscriberOf
    <3> QED
      BY <3>1, <3>2, <3>3
  <2>7. /\ now \in 0..MaxTime /\ toStatic \subseteq DOMAIN attempts
        /\ deliveries \subseteq [event : DOMAIN attempts, listener : Listener, replay : BOOLEAN]
    BY <2>1 DEF StateTyped
  <2>8. \A i \in DOMAIN attempts :
          attempts[i] \in [caller : Caller, request : PublishRequest, time : 0..MaxTime,
                           state : {"flooded", "queued", "refused", "published"}]
    BY <2>2 DEF Attempt
  <2> QED
    BY <2>3, <2>4, <2>5, <2>6, <2>7, <2>8, Zenon DEF TypeOK
<1> QED
  BY <1>1, PublicationInvariance, PTL

\* CheckIsFloodAttack lets no application publish more than FloodMax events within
\* FloodInterval, refused ones counted, however publications and ticks interleave.
THEOREM FloodBoundHolds == Spec => []FloodBound
<1>1. PublicationInv => FloodBound
  BY DEF PublicationInv
<1> QED
  BY <1>1, PublicationInvariance, PTL

\* A live event reaches an ordinary application only in an account it is meant for.
THEOREM UserIsolationHolds == Spec => []UserIsolation
<1>1. PublicationInv => UserIsolation
  BY DEF PublicationInv
<1> QED
  BY <1>1, PublicationInvariance, PTL

\* The sticky event kept for a name is the latest accepted one.
THEOREM StickyNewestHolds == Spec => []StickyNewest
<1>1. PublicationInv => StickyNewest
  BY DEF PublicationInv
<1> QED
  BY <1>1, PublicationInvariance, PTL

\* Whoever is subscribed and entitled has been handed the sticky event that is kept.
THEOREM StickyReachesAllHolds == Spec => []StickyReachesAll
<1>1. PublicationInv => StickyReachesAll
  BY DEF PublicationInv
<1> QED
  BY <1>1, PublicationInvariance, PTL

=============================================================================
