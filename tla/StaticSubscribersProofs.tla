----------------------- MODULE StaticSubscribersProofs -----------------------
(***************************************************************************)
(* What holds of the static subscribers for any bundles, profiles, events, *)
(* publications and stores of earlier versions, and however many requests, *)
(* package events, failures and crashes come in between: what was switched *)
(* off with ERR_OK is stored and silent, a removed bundle is forgotten,    *)
(* and whoever is started is entitled.                                     *)
(*                                                                         *)
(* The argument.  What was acknowledged is in disableEvents_ as well as in *)
(* the store: saving writes all of the memory, the initialisation adds to  *)
(* it what it lacks, and only a request of the bundle itself takes an      *)
(* event out of it.  What is to be started, at once or by a boot task,     *)
(* passed the checks when it was chosen.  The initialisation starts from   *)
(* no valid subscribers and takes those of the bundles that are installed; *)
(* a bundle that is removed later has a package event on its way, or is    *)
(* known to have been missed.                                              *)
(***************************************************************************)
EXTENDS StaticSubscribers, TLAPS

\* An event is in the allow list of a bundle once for each time the list was
\* read, and only if it is allowed.
AllowListOK ==
  /\ \A k \in Key, e \in Event :
       staticSubscribers[k][e]
         + (IF task.at = "allow" /\ <<k, e>> \in task.todo THEN 1 ELSE 0) <= tasks
  /\ \A k \in Key, e \in Event : staticSubscribers[k][e] > 0 => e \in App[k].allowed
  /\ task.at = "allow" => \A x \in task.todo : x[2] \in App[x[1]].allowed

\* An entry of the valid subscribers was read from the profile of its bundle.
Declared(s) ==
  /\ s.event \in App[s.key].allowed
  /\ \E i \in DOMAIN App[s.key].profile :
       LET entry == App[s.key].profile[i]
       IN /\ entry # Bad /\ entry.name = App[s.key].name /\ s.event \in entry.events
          /\ s.permission = entry.permission

ValidOK ==
  /\ \A s \in validSubscribers : Declared(s)
  /\ task.at \in {"allow", "query", "extensions"} => validSubscribers = {}
  /\ task.at \in {"serve", "connect"} => \A s \in task.todo : s.event = task.p.event

\* What StartedIsEntitled asks of one start.
MayStart(p, k) ==
  /\ App[k].user > 99 => p.userId \in {ALL_USER, App[k].user}
  /\ p.event \in App[k].allowed /\ DeclaredFor(k, p)

\* What is to be started, at once or by a boot task, may be.
StartOK ==
  /\ \A k \in Key : Chosen(k) => MayStart(task.p, k)
  /\ \A i \in DOMAIN delayed : \A k \in delayed[i].keys : MayStart(delayed[i].p, k)

\* An acknowledged request is in memory too, and the store has the current form.
AckedOK ==
  /\ acked # {} => updated
  /\ \A a \in acked : a[2] \in Disabled(a[1])
  /\ AckedIsStored

\* A request that is being saved is still in memory.
RequestOK ==
  request.at = "save" /\ ~request.enable => request.events \subseteq Disabled(request.key)

StaticInv ==
  /\ TypeOK
  /\ AllowListOK
  /\ ValidOK
  /\ StartOK
  /\ AckedOK
  /\ RequestOK
  /\ RemovedIsForgotten

(***************************************************************************)
(* Partial functions and bags                                              *)
(***************************************************************************)

Bag == [Event -> Nat]
MemoryOK(m) == DOMAIN m \subseteq Key /\ \A k \in DOMAIN m : m[k] \in Bag
StoreOK(f) == DOMAIN f \subseteq StoreKey /\ \A sk \in DOMAIN f : f[sk] \in StoredValue

\* emplace and erase keep the types of the memory and of the store.
LEMMA EmplaceOK ==
  ASSUME NEW f, NEW g
  PROVE  /\ MemoryOK(f) /\ MemoryOK(g) => MemoryOK(Emplace(f, g))
         /\ StoreOK(f) /\ StoreOK(g) => StoreOK(Emplace(f, g))
<1>1. \A x \in DOMAIN Emplace(f, g) : \/ x \in DOMAIN f /\ Emplace(f, g)[x] = f[x]
                                      \/ x \in DOMAIN g /\ Emplace(f, g)[x] = g[x]
  BY DEF Emplace
<1>2. DOMAIN Emplace(f, g) = DOMAIN f \cup DOMAIN g
  BY DEF Emplace
<1>3. MemoryOK(f) /\ MemoryOK(g) => MemoryOK(Emplace(f, g))
  BY <1>1, <1>2 DEF MemoryOK
<1>4. StoreOK(f) /\ StoreOK(g) => StoreOK(Emplace(f, g))
  BY <1>1, <1>2 DEF StoreOK
<1> QED  BY <1>3, <1>4

\* What is left of a well-typed memory or store without some keys is well typed.
LEMMA WithoutOK ==
  ASSUME NEW f, NEW S
  PROVE  /\ MemoryOK(f) => MemoryOK(Without(f, S))
         /\ StoreOK(f) => StoreOK(Without(f, S))
<1>1. DOMAIN Without(f, S) = DOMAIN f \ S /\ \A x \in DOMAIN f \ S : Without(f, S)[x] = f[x]
  BY DEF Without
<1>2. MemoryOK(f) => MemoryOK(Without(f, S))
  BY <1>1 DEF MemoryOK
<1>3. StoreOK(f) => StoreOK(Without(f, S))
  BY <1>1 DEF StoreOK
<1> QED  BY <1>2, <1>3

(***************************************************************************)
(* The store                                                               *)
(***************************************************************************)

\* The memory as it is written: an entry of the current form per bundle.
LEMMA StoredFormIs ==
  ASSUME NEW mem, MemoryOK(mem)
  PROVE  /\ StoreOK(StoredForm(mem))
         /\ DOMAIN StoredForm(mem) = {<<"user", k>> : k \in DOMAIN mem}
         /\ \A k \in DOMAIN mem : StoredForm(mem)[<<"user", k>>].events = mem[k]
<1>1. DOMAIN StoredForm(mem) = {<<"user", k>> : k \in DOMAIN mem}
  BY DEF StoredForm
<1>2. ASSUME NEW k \in DOMAIN mem
      PROVE  /\ StoredForm(mem)[<<"user", k>>] = [default |-> FALSE, events |-> mem[k]]
             /\ [default |-> FALSE, events |-> mem[k]] \in StoredValue
             /\ <<"user", k>> \in StoreKey
  <2>1. <<"user", k>> \in {<<"user", x>> : x \in DOMAIN mem}
    OBVIOUS
  <2>2. <<"user", k>>[2] = k
    OBVIOUS
  <2>3. StoredForm(mem)[<<"user", k>>] = [default |-> FALSE, events |-> mem[k]]
    BY <2>1, <2>2 DEF StoredForm, ConvertEventsToValue
  <2>4. k \in Key /\ mem[k] \in Bag
    BY DEF MemoryOK
  <2> QED  BY <2>3, <2>4 DEF StoredValue, Bag, StoreKey
<1>3. ASSUME NEW sk \in DOMAIN StoredForm(mem)
      PROVE  sk \in StoreKey /\ StoredForm(mem)[sk] \in StoredValue
  <2>1. PICK k \in DOMAIN mem : sk = <<"user", k>>
    BY <1>1
  <2> QED  BY <1>2, <2>1
<1>4. StoreOK(StoredForm(mem))
  BY <1>3 DEF StoreOK
<1>5. ASSUME NEW k \in DOMAIN mem
      PROVE  StoredForm(mem)[<<"user", k>>].events = mem[k]
  <2>1. StoredForm(mem)[<<"user", k>>] = [default |-> FALSE, events |-> mem[k]]
    BY <1>2
  <2> QED  BY <2>1
<1> QED  BY <1>1, <1>4, <1>5

\* Keys are brought to the current form, and to none when they have it.
LEMMA ReadKeyIs ==
  ASSUME updated \in BOOLEAN, NEW sk \in StoreKey
  PROVE  ReadKey(sk) \in StoreKey /\ (updated => ReadKey(sk) = sk)
BY DEF ReadKey, GetValidKey, StoreKey

\* QueryStaticSubscriberStateData returns keys and bags.
LEMMA QueryIs ==
  ASSUME updated \in BOOLEAN, StoreOK(store), NEW q \in QueryResults
  PROVE  /\ q.read \subseteq DOMAIN store /\ q.legacy \subseteq StoreKey
         /\ DOMAIN q.data \subseteq StoreKey /\ \A nk \in DOMAIN q.data : q.data[nk] \in Bag
<1> DEFINE Data(read) == [nk \in {ReadKey(sk) : sk \in {x \in read : store[x] # Legacy}} |->
                            store[CHOOSE sk \in read : ReadKey(sk) = nk].events]
<1>1. PICK read \in SUBSET DOMAIN store :
         q = [ok |-> Malformed = {},
              legacy |-> {ReadKey(sk) : sk \in {x \in read : store[x] = Legacy}},
              data |-> Data(read), read |-> read]
  BY DEF QueryResults
<1>2. \A sk \in read : sk \in StoreKey /\ ReadKey(sk) \in StoreKey /\ store[sk] \in StoredValue
  BY ReadKeyIs DEF StoreOK
<1>3. q.read = read /\ q.legacy \subseteq StoreKey /\ q.data = Data(read)
  BY <1>1, <1>2
<1>4. DOMAIN Data(read) \subseteq StoreKey
  BY <1>2
<1>5. ASSUME NEW nk \in DOMAIN Data(read)
      PROVE  Data(read)[nk] \in Bag
  <2>1. \E sk \in read : ReadKey(sk) = nk
    OBVIOUS
  <2>2. PICK sk \in read : sk = CHOOSE x \in read : ReadKey(x) = nk
    BY <2>1
  <2>3. Data(read)[nk] = store[sk].events
    BY <2>2
  <2> QED  BY <1>2, <2>3 DEF StoredValue, Bag
<1> QED  BY <1>3, <1>4, <1>5

\* Migration renames entries and adds none; a migrated store stays as it is.
LEMMA MigratedIs ==
  ASSUME updated \in BOOLEAN, StoreOK(store), NEW read \in SUBSET DOMAIN store
  PROVE  StoreOK(Migrated(read)) /\ (updated => Migrated(read) = store)
<1>1. CASE updated \/ read = {}
  BY <1>1 DEF Migrated
<1>2. CASE ~(updated \/ read = {})
  <2> DEFINE Value(nk) == IF \E sk \in read : ReadKey(sk) = nk
                          THEN store[CHOOSE sk \in read : ReadKey(sk) = nk]
                          ELSE store[nk]
             D == (DOMAIN store \ read) \cup {ReadKey(sk) : sk \in read}
  <2>1. Migrated(read) = [nk \in D |-> Value(nk)]
    BY <1>2 DEF Migrated
  <2>2. \A sk \in read : sk \in DOMAIN store /\ sk \in StoreKey /\ ReadKey(sk) \in StoreKey
    BY ReadKeyIs DEF StoreOK
  <2>3. D \subseteq StoreKey
    BY <2>2 DEF StoreOK
  <2>4. ASSUME NEW nk \in D
        PROVE  Value(nk) \in StoredValue
    <3>1. CASE \E sk \in read : ReadKey(sk) = nk
      <4>1. PICK sk \in read : sk = CHOOSE x \in read : ReadKey(x) = nk
        BY <3>1
      <4>2. Value(nk) = store[sk]
        BY <3>1, <4>1
      <4> QED  BY <2>2, <4>2 DEF StoreOK
    <3>2. CASE ~ \E sk \in read : ReadKey(sk) = nk
      BY <3>2 DEF StoreOK
    <3> QED  BY <3>1, <3>2
  <2> HIDE DEF D, Value
  <2>5. DOMAIN Migrated(read) = D /\ \A nk \in D : Migrated(read)[nk] = Value(nk)
    BY <2>1
  <2> QED  BY <1>2, <2>3, <2>4, <2>5 DEF StoreOK
<1> QED  BY <1>1, <1>2

\* What is read of the store becomes memory.
LEMMA UserKeysOK ==
  ASSUME NEW f, DOMAIN f \subseteq StoreKey, \A nk \in DOMAIN f : f[nk] \in Bag
  PROVE  MemoryOK(UserKeys(f))
<1> DEFINE D == {sk[2] : sk \in {x \in DOMAIN f : x[1] = "user"}}
<1>1. ASSUME NEW k \in D
      PROVE  k \in Key /\ <<"user", k>> \in DOMAIN f
  <2>1. PICK sk \in DOMAIN f : sk[1] = "user" /\ k = sk[2]
    OBVIOUS
  <2>2. sk \in StoreKey
    OBVIOUS
  <2> QED  BY <2>1, <2>2 DEF StoreKey
<1>2. DOMAIN UserKeys(f) = D /\ \A k \in D : UserKeys(f)[k] = f[<<"user", k>>]
  BY DEF UserKeys
<1> HIDE DEF D
<1> QED  BY <1>1, <1>2 DEF MemoryOK

\* A store that has all of the memory.
HasMemory(f, mem) ==
  \A k \in DOMAIN mem : <<"user", k>> \in DOMAIN f /\ f[<<"user", k>>].events = mem[k]

\* Saving ends with all of the memory in the store, whatever was there.
LEMMA SavedIs ==
  ASSUME NEW base, StoreOK(base), NEW q, NEW mem, MemoryOK(mem)
  PROVE  StoreOK(Saved(base, q, mem)) /\ HasMemory(Saved(base, q, mem), mem)
<1> DEFINE f == StoredForm(mem)
           g == Without(base, DOMAIN q.data)
<1>1. StoreOK(f) /\ DOMAIN f = {<<"user", k>> : k \in DOMAIN mem}
      /\ \A k \in DOMAIN mem : f[<<"user", k>>].events = mem[k]
  BY StoredFormIs
<1>2. StoreOK(g)
  BY WithoutOK
<1>3. Saved(base, q, mem) = Emplace(f, g)
  BY DEF Saved
<1> HIDE DEF f, g
<1>4. StoreOK(Emplace(f, g))
  BY <1>1, <1>2, EmplaceOK
<1>5. DOMAIN f \subseteq DOMAIN Emplace(f, g) /\ \A x \in DOMAIN f : Emplace(f, g)[x] = f[x]
  BY DEF Emplace
<1>6. ASSUME NEW k \in DOMAIN mem
      PROVE  <<"user", k>> \in DOMAIN Emplace(f, g) /\ Emplace(f, g)[<<"user", k>>].events = mem[k]
  <2>1. <<"user", k>> \in DOMAIN f
    BY <1>1
  <2> QED  BY <1>1, <1>5, <2>1
<1> QED  BY <1>3, <1>4, <1>6 DEF HasMemory

\* What a saving that is cut short leaves is a store, too.
LEMMA SavedPartlyOK ==
  ASSUME NEW base, StoreOK(base), NEW q, NEW mem, MemoryOK(mem), NEW f \in SavedPartly(base, q, mem)
  PROVE  StoreOK(f)
<1>1. CASE \E gone \in SUBSET DOMAIN q.data : f = Without(base, gone)
  BY <1>1, WithoutOK
<1>2. CASE \E put \in SUBSET DOMAIN StoredForm(mem) :
             f = Emplace([sk \in put |-> StoredForm(mem)[sk]], Without(base, DOMAIN q.data))
  <2>1. PICK put \in SUBSET DOMAIN StoredForm(mem) :
             f = Emplace([sk \in put |-> StoredForm(mem)[sk]], Without(base, DOMAIN q.data))
    BY <1>2
  <2>2. StoreOK([sk \in put |-> StoredForm(mem)[sk]])
    BY StoredFormIs DEF StoreOK
  <2> QED  BY <2>1, <2>2, WithoutOK, EmplaceOK
<1> QED  BY <1>1, <1>2 DEF SavedPartly

\* The parts of the type invariant that a store operation needs.
StoreTypeOK ==
  /\ updated \in BOOLEAN /\ StoreOK(store) /\ MemoryOK(disableEvents)
  /\ faults \in 0..MaxFaults

\* What UpdateStaticSubscriberState leaves; with ERR_OK all of the memory.
LEMMA UpdateIs ==
  ASSUME StoreTypeOK, NEW mem, MemoryOK(mem), NEW ok \in BOOLEAN,
         UpdateStaticSubscriberState(mem, ok)
  PROVE  /\ updated' \in BOOLEAN /\ StoreOK(store)' /\ faults' \in 0..MaxFaults
         /\ updated => updated'
         /\ ok => updated' /\ HasMemory(store', mem)
<1>1. \A q \in QueryResults : q.read \in SUBSET DOMAIN store /\ StoreOK(Migrated(q.read))
  BY QueryIs, MigratedIs DEF StoreTypeOK
<1>2. CASE /\ ok /\ Malformed = {} /\ faults' = faults /\ updated' = TRUE
           /\ \E q \in QueryResults : store' = Saved(Migrated(q.read), q, mem)
  <2>1. PICK q \in QueryResults : store' = Saved(Migrated(q.read), q, mem)
    BY <1>2
  <2>2. StoreOK(store')
    BY <1>1, <2>1, SavedIs
  <2>3. HasMemory(store', mem)
    BY <1>1, <2>1, SavedIs
  <2> QED  BY <1>2, <2>2, <2>3 DEF StoreTypeOK, StoreOK
<1>3. CASE /\ ~ok /\ Malformed # {} /\ faults' = faults /\ updated' = TRUE
           /\ \E q \in QueryResults : store' = Migrated(q.read)
  <2>1. StoreOK(store')
    BY <1>1, <1>3
  <2> QED  BY <1>3, <2>1 DEF StoreTypeOK, StoreOK
<1>4. CASE ~ok /\ faults < MaxFaults /\ faults' = faults + 1 /\ UNCHANGED <<store, updated>>
  BY <1>4, StaticSubscribersAssumption DEF StoreTypeOK, StoreOK
<1>5. CASE /\ ~ok /\ faults < MaxFaults /\ faults' = faults + 1
           /\ updated' = TRUE
           /\ \E q \in QueryResults : store' \in SavedPartly(Migrated(q.read), q, mem)
  <2>1. StoreOK(store')
    BY <1>1, <1>5, SavedPartlyOK
  <2> QED  BY <1>5, <2>1, StaticSubscribersAssumption DEF StoreTypeOK, StoreOK
<1> QED  BY <1>2, <1>3, <1>4, <1>5 DEF UpdateStaticSubscriberState

(***************************************************************************)
(* Tasks and package events                                                *)
(***************************************************************************)

\* What a task has at each of its steps.
TaskShape(t, V) ==
  /\ t.at \in {"idle", "allow", "query", "extensions", "legacy", "update", "serve", "connect"}
  /\ t.at # "idle" => t.p \in Publication
  /\ t.at = "allow" => /\ t = [at |-> "allow", p |-> t.p, todo |-> t.todo]
                       /\ t.todo \subseteq Key \X Event
  /\ t.at \in {"extensions", "legacy"} => /\ t = [at |-> t.at, p |-> t.p, legacy |-> t.legacy]
                                          /\ t.legacy \subseteq StoreKey
  /\ t.at = "serve" => /\ t = [at |-> "serve", p |-> t.p, todo |-> t.todo, boot |-> t.boot]
                       /\ t.todo \subseteq V /\ t.boot \subseteq Key
  /\ t.at = "connect" => /\ t = [at |-> "connect", p |-> t.p, todo |-> t.todo, key |-> t.key]
                         /\ t.todo \subseteq V /\ t.key \in Key

\* The steps of a task tell its parts.
LEMMA TaskIs ==
  ASSUME NEW V, NEW t \in Task(V)
  PROVE  TaskShape(t, V)
<1>1. CASE t = NoTask
  BY <1>1 DEF NoTask, TaskShape
<1>2. CASE t \in [at : {"allow"}, p : Publication, todo : SUBSET (Key \X Event)]
  BY <1>2 DEF TaskShape
<1>3. CASE t \in [at : {"query", "update"}, p : Publication]
  BY <1>3 DEF TaskShape
<1>4. CASE t \in [at : {"extensions", "legacy"}, p : Publication, legacy : SUBSET StoreKey]
  BY <1>4 DEF TaskShape
<1>5. CASE t \in [at : {"serve"}, p : Publication, todo : SUBSET V, boot : SUBSET Key]
  BY <1>5 DEF TaskShape
<1>6. CASE t \in [at : {"connect"}, p : Publication, todo : SUBSET V, key : Key]
  BY <1>6 DEF TaskShape
<1> QED  BY <1>1, <1>2, <1>3, <1>4, <1>5, <1>6 DEF Task

\* ... and parts make a task.
LEMMA TaskMade ==
  ASSUME NEW V, NEW p \in Publication
  PROVE  /\ NoTask \in Task(V)
         /\ \A S \in SUBSET (Key \X Event) : [at |-> "allow", p |-> p, todo |-> S] \in Task(V)
         /\ [at |-> "query", p |-> p] \in Task(V) /\ [at |-> "update", p |-> p] \in Task(V)
         /\ \A S \in SUBSET StoreKey : /\ [at |-> "extensions", p |-> p, legacy |-> S] \in Task(V)
                                       /\ [at |-> "legacy", p |-> p, legacy |-> S] \in Task(V)
         /\ \A S \in SUBSET V, B \in SUBSET Key :
              [at |-> "serve", p |-> p, todo |-> S, boot |-> B] \in Task(V)
         /\ \A S \in SUBSET V, k \in Key :
              [at |-> "connect", p |-> p, todo |-> S, key |-> k] \in Task(V)
BY DEF Task

\* The package events.
Notice == {PACKAGE_ADDED, PACKAGE_CHANGED, PACKAGE_REMOVED} \X Key

\* A package event that is appended is in the queue, with those before it.
LEMMA NoticesAppend ==
  ASSUME NEW n \in Seq(Notice), NEW x \in Notice
  PROVE  /\ Append(n, x) \in Seq(Notice)
         /\ x \in ToSet(Append(n, x)) /\ ToSet(n) \subseteq ToSet(Append(n, x))
<1>1. /\ Append(n, x) \in Seq(Notice) /\ Len(Append(n, x)) = Len(n) + 1
      /\ Append(n, x)[Len(n) + 1] = x
      /\ \A i \in 1..Len(n) : Append(n, x)[i] = n[i]
  OBVIOUS
<1>2. Len(n) \in Nat /\ DOMAIN n = 1..Len(n) /\ DOMAIN Append(n, x) = 1..(Len(n) + 1)
  BY <1>1
<1>3. Len(n) + 1 \in DOMAIN Append(n, x)
  BY <1>2
<1>4. \A i \in DOMAIN n : i \in DOMAIN Append(n, x)
  BY <1>2
<1>5. x \in ToSet(Append(n, x))
  BY <1>1, <1>3 DEF ToSet
<1>6. ToSet(n) \subseteq ToSet(Append(n, x))
  BY <1>1, <1>2, <1>4 DEF ToSet
<1> QED  BY <1>1, <1>5, <1>6

\* What is taken from the queue is its head.
LEMMA NoticesTail ==
  ASSUME NEW n \in Seq(Notice), n # <<>>
  PROVE  /\ Tail(n) \in Seq(Notice) /\ Head(n) \in Notice
         /\ \A y \in ToSet(n) : y = Head(n) \/ y \in ToSet(Tail(n))
<1>1. Len(n) \in Nat \ {0} /\ DOMAIN n = 1..Len(n)
  OBVIOUS
<1>2. /\ Tail(n) \in Seq(Notice) /\ Len(Tail(n)) = Len(n) - 1
      /\ \A i \in 1..(Len(n) - 1) : Tail(n)[i] = n[i + 1]
  BY <1>1
<1>3. Head(n) = n[1] /\ n[1] \in Notice
  BY <1>1
<1>4. ASSUME NEW i \in DOMAIN n, i # 1
      PROVE  n[i] \in ToSet(Tail(n))
  <2>1. i - 1 \in 1..(Len(n) - 1) /\ DOMAIN Tail(n) = 1..(Len(n) - 1)
    BY <1>1, <1>2, <1>4
  <2>2. Tail(n)[i - 1] = n[i]
    BY <1>1, <1>2, <2>1
  <2> QED  BY <2>1, <2>2 DEF ToSet
<1>5. \A y \in ToSet(n) : y = Head(n) \/ y \in ToSet(Tail(n))
  BY <1>3, <1>4 DEF ToSet
<1> QED  BY <1>2, <1>3, <1>5

(***************************************************************************)
(* The profiles                                                            *)
(***************************************************************************)

\* What ParseEvents takes from the profile of a bundle is declared there.
LEMMA ParseIs ==
  ASSUME AllowListOK, NEW k \in Key, NEW s \in ParseEvents(k)
  PROVE  s.key = k /\ s.event \in Event /\ Declared(s)
<1> DEFINE profile == App[k].profile
           good == {i \in DOMAIN profile : profile[i] # Bad /\ profile[i].name = App[k].name
                                             /\ profile[i].permission # Bad}
<1>1. PICK i \in good, e \in Event :
        /\ e \in profile[i].events /\ staticSubscribers[k][e] > 0
        /\ s = [event |-> e, key |-> k, permission |-> profile[i].permission,
                filter |-> ParseFilterObject(profile[i].filters, e)]
  <2> DEFINE declares(j, e) == e \in profile[j].events /\ staticSubscribers[k][e] > 0
             first(j, e) == declares(j, e) /\ \A m \in good : declares(m, e) => j <= m
             Entry(x) == [event |-> x[2], key |-> k, permission |-> profile[x[1]].permission,
                          filter |-> ParseFilterObject(profile[x[1]].filters, x[2])]
  <2>1. ParseEvents(k) = {Entry(x) : x \in {y \in good \X Event : first(y[1], y[2])}}
    BY DEF ParseEvents
  <2>2. PICK x \in good \X Event : first(x[1], x[2]) /\ s = Entry(x)
    <3> HIDE DEF Entry, first, good
    <3> QED  BY <2>1
  <2>3. x[1] \in good /\ x[2] \in Event
    BY <2>2
  <2> HIDE DEF good
  <2> QED  BY <2>2, <2>3
<1>2. s.key = k /\ s.event = e /\ s.permission = profile[i].permission
  BY <1>1
<1>3. e \in App[k].allowed
  BY <1>1 DEF AllowListOK
<1>4. i \in DOMAIN profile /\ profile[i] # Bad /\ profile[i].name = App[k].name
  BY <1>1
<1>5. Declared(s)
  BY <1>1, <1>2, <1>3, <1>4 DEF Declared
<1> QED  BY <1>1, <1>2, <1>5

(***************************************************************************)
(* The memory                                                              *)
(***************************************************************************)

\* The events off for a bundle in a memory m: Disabled, of any memory.
Off(m, k) == IF k \in DOMAIN m THEN InBag(m[k]) ELSE {}

\* emplace takes no event out of the memory.
LEMMA EmplaceKeeps ==
  ASSUME NEW m, NEW g, NEW k
  PROVE  Off(m, k) \subseteq Off(Emplace(m, g), k)
<1>1. CASE k \in DOMAIN m
  <2>1. k \in DOMAIN Emplace(m, g) /\ Emplace(m, g)[k] = m[k]
    BY <1>1 DEF Emplace
  <2> QED  BY <1>1, <2>1 DEF Off
<1>2. CASE k \notin DOMAIN m
  BY <1>2 DEF Off
<1> QED  BY <1>1, <1>2

\* Forgetting one bundle leaves the others.
LEMMA WithoutKeeps ==
  ASSUME NEW m, NEW k, NEW x, x # k
  PROVE  Off(Without(m, {k}), x) = Off(m, x)
<1>1. /\ x \in DOMAIN Without(m, {k}) <=> x \in DOMAIN m
      /\ x \in DOMAIN m => Without(m, {k})[x] = m[x]
  BY DEF Without
<1> QED  BY <1>1 DEF Off

\* What a request does to the memory: nothing to other bundles; what it names
\* is off, or what it does not name stays off.
RequestDone(k, bag, enable) ==
  /\ MemoryOK(ChangedEvents(k, bag, enable))
  /\ \A x : x # k => Off(ChangedEvents(k, bag, enable), x) = Off(disableEvents, x)
  /\ ~enable => Off(disableEvents, k) \cup InBag(bag) \subseteq Off(ChangedEvents(k, bag, enable), k)
  /\ enable => Off(disableEvents, k) \ InBag(bag) \subseteq Off(ChangedEvents(k, bag, enable), k)

\* That is what UpdateDisableEvents does to a well-typed memory.
LEMMA ChangedIs ==
  ASSUME MemoryOK(disableEvents), NEW k \in Key, NEW bag \in Bag, NEW enable \in BOOLEAN
  PROVE  RequestDone(k, bag, enable)
<1> DEFINE m == ChangedEvents(k, bag, enable)
<1>1. CASE k \notin DOMAIN disableEvents /\ enable
  <2>1. m = disableEvents
    BY <1>1 DEF ChangedEvents
  <2> HIDE DEF m
  <2>2. Off(disableEvents, k) \ InBag(bag) \subseteq Off(m, k)
    BY <2>1
  <2>3. RequestDone(k, bag, enable) <=>
          /\ MemoryOK(m) /\ \A x : x # k => Off(m, x) = Off(disableEvents, x)
          /\ ~enable => Off(disableEvents, k) \cup InBag(bag) \subseteq Off(m, k)
          /\ enable => Off(disableEvents, k) \ InBag(bag) \subseteq Off(m, k)
    BY DEF RequestDone, m
  <2> QED  BY <1>1, <2>1, <2>2, <2>3
<1>2. CASE k \notin DOMAIN disableEvents /\ ~enable
  <2> DEFINE g == [x \in {k} |-> bag]
  <2>1. m = Emplace(disableEvents, g)
    BY <1>2 DEF ChangedEvents
  <2>2. MemoryOK(g) /\ DOMAIN g = {k} /\ g[k] = bag
    BY DEF MemoryOK
  <2> HIDE DEF g
  <2>3. /\ k \in DOMAIN m /\ m[k] = bag
        /\ \A x : x # k => (x \in DOMAIN m <=> x \in DOMAIN disableEvents)
        /\ \A x \in DOMAIN disableEvents : m[x] = disableEvents[x]
    BY <1>2, <2>1, <2>2 DEF Emplace
  <2>4. MemoryOK(m)
    BY <2>1, <2>2, EmplaceOK
  <2> HIDE DEF m
  <2>5. Off(disableEvents, k) = {} /\ Off(m, k) = InBag(bag)
    BY <1>2, <2>3 DEF Off
  <2>6. \A x : x # k => Off(m, x) = Off(disableEvents, x)
    BY <2>3 DEF Off
  <2> QED  BY <1>2, <2>4, <2>5, <2>6 DEF RequestDone, m
<1>3. CASE k \in DOMAIN disableEvents
  <2> DEFINE old == disableEvents[k]
             new == [e \in Event |->
                       IF enable THEN IF old[e] > bag[e] THEN old[e] - bag[e] ELSE 0
                       ELSE IF old[e] = 0 /\ bag[e] > 0 THEN 1 ELSE old[e]]
  <2>1. m = IF InBag(new) = {} THEN Without(disableEvents, {k})
            ELSE [disableEvents EXCEPT ![k] = new]
    BY <1>3 DEF ChangedEvents
  <2>2. old \in Bag /\ \A e \in Event : old[e] \in Nat /\ bag[e] \in Nat
    BY <1>3 DEF MemoryOK, Bag
  <2>3. new \in Bag
    BY <2>2 DEF Bag
  <2>4. ~enable => InBag(old) \cup InBag(bag) \subseteq InBag(new)
    BY <2>2 DEF InBag
  <2>5. enable => InBag(old) \ InBag(bag) \subseteq InBag(new)
    BY <2>2 DEF InBag
  <2>6. Off(disableEvents, k) = InBag(old)
    BY <1>3 DEF Off
  <2> HIDE DEF new, old, m
  <2>7. CASE InBag(new) = {}
    <3>1. m = Without(disableEvents, {k})
      BY <2>1, <2>7
    <3>2. MemoryOK(m)
      BY <3>1, WithoutOK
    <3>3. \A x : x # k => Off(m, x) = Off(disableEvents, x)
      BY <3>1, WithoutKeeps
    <3> QED  BY <2>4, <2>5, <2>6, <2>7, <3>2, <3>3 DEF RequestDone, m
  <2>8. CASE InBag(new) # {}
    <3>1. m = [disableEvents EXCEPT ![k] = new]
      BY <2>1, <2>8
    <3>2. /\ DOMAIN m = DOMAIN disableEvents /\ m[k] = new
          /\ \A x \in DOMAIN disableEvents : x # k => m[x] = disableEvents[x]
      BY <1>3, <3>1
    <3>3. MemoryOK(m)
      BY <2>3, <3>2 DEF MemoryOK
    <3>4. Off(m, k) = InBag(new)
      BY <1>3, <3>2 DEF Off
    <3>5. \A x : x # k => Off(m, x) = Off(disableEvents, x)
      BY <3>2 DEF Off
    <3> QED  BY <2>4, <2>5, <2>6, <3>3, <3>4, <3>5 DEF RequestDone, m
  <2> QED  BY <2>7, <2>8
<1> QED  BY <1>1, <1>2, <1>3

(***************************************************************************)
(* Initially, and the service queue's steps                                *)
(***************************************************************************)

\* The parts of the type invariant that the store's operations need.
LEMMA StoreTyped ==
  ASSUME TypeOK
  PROVE  StoreTypeOK /\ TaskShape(task, validSubscribers)
BY TaskIs DEF TypeOK, StoreTypeOK, StoreOK, MemoryOK, Bag

\* The service starts with what an earlier version has stored.
LEMMA InitHolds == Init => StaticInv
<1> SUFFICES ASSUME Init PROVE StaticInv
  OBVIOUS
<1> USE DEF Init
<1>1. DOMAIN disableEvents = {} /\ task.at = "idle" /\ request.at = "none" /\ task = NoTask
  BY DEF NoTask, NoRequest
<1>2. \A k \in Key, e \in Event : staticSubscribers[k][e] = 0
  BY DEF NoEvents
<1>3. TypeOK
  <2>1. staticSubscribers \in [Key -> [Event -> 0..MaxTasks]]
    BY StaticSubscribersAssumption DEF NoEvents
  <2>2. DOMAIN store \subseteq StoreKey /\ \A sk \in DOMAIN store : store[sk] \in StoredValue
    <3>1. \A sk \in DOMAIN store : sk \in {"uid"} \X Key /\ store[sk] \in StoredValue
      BY StaticSubscribersAssumption
    <3>2. {"uid"} \X Key \subseteq StoreKey
      BY DEF StoreKey
    <3> QED  BY <3>1, <3>2
  <2>3. task \in Task(validSubscribers)
    BY DEF Task
  <2>4. tasks \in 0..MaxTasks /\ requests \in 0..MaxRequests /\ faults \in 0..MaxFaults
    BY StaticSubscribersAssumption
  <2>5. notices \in Seq({PACKAGE_ADDED, PACKAGE_CHANGED, PACKAGE_REMOVED} \X Key)
    OBVIOUS
  <2>6. delayed \in Seq([p : Publication, keys : SUBSET Key])
    OBVIOUS
  <2> QED  BY <1>1, <2>1, <2>2, <2>3, <2>4, <2>5, <2>6 DEF TypeOK
<1>4. AllowListOK
  BY <1>1, <1>2 DEF AllowListOK
<1>5. ValidOK /\ StartOK /\ AckedOK /\ RequestOK /\ RemovedIsForgotten
  BY <1>1 DEF ValidOK, StartOK, Chosen, AckedOK, AckedIsStored, RequestOK, RemovedIsForgotten
<1> QED  BY <1>3, <1>4, <1>5 DEF StaticInv

\* What is known of the allow list depends on it and on the service's tasks.
LEMMA AllowListStays ==
  ASSUME AllowListOK, UNCHANGED <<staticSubscribers, task, tasks>>  PROVE AllowListOK'
BY DEF AllowListOK

\* What is known of the valid subscribers depends on them and on where the service's task is.
LEMMA ValidStays ==
  ASSUME ValidOK, UNCHANGED <<validSubscribers, task>>  PROVE ValidOK'
BY DEF ValidOK

\* What is known of the starts to come depends on the task and the boot tasks ...
LEMMA StartStays ==
  ASSUME StartOK, UNCHANGED <<task, delayed>>  PROVE StartOK'
BY DEF StartOK, Chosen

\* ... and a task that has chosen no extension adds none.
LEMMA StartNone ==
  ASSUME StartOK, delayed' = delayed,
         task'.at \notin {"serve", "connect"} \/ (task'.at = "serve" /\ task'.boot = {})
  PROVE  StartOK'
<1>1. \A k : ~Chosen(k)'
  BY DEF Chosen
<1> QED  BY <1>1 DEF StartOK

\* What is known of the acknowledged requests depends on them, on the memory and on the store.
LEMMA AckedStays ==
  ASSUME AckedOK, UNCHANGED <<acked, updated, disableEvents, store>>  PROVE AckedOK'
BY DEF AckedOK, AckedIsStored, Disabled

\* What is known of the request being dealt with depends on it and on the memory.
LEMMA RequestStays ==
  ASSUME RequestOK, UNCHANGED <<request, disableEvents>>  PROVE RequestOK'
BY DEF RequestOK, Disabled

\* What is known of removed bundles depends on the installed ones, their notices, the valid
\* subscribers, the task and the removals missed.
LEMMA RemovedStays ==
  ASSUME RemovedIsForgotten, UNCHANGED <<installed, notices, validSubscribers, task, missed>>
  PROVE  RemovedIsForgotten'
BY DEF RemovedIsForgotten

\* A bundle comes, goes or changes: who goes leaves a package event.
LEMMA BundleManagerKeeps ==
  ASSUME StaticInv, NEW k \in Key, BundleManager(k)
  PROVE  StaticInv'
<1> DEFINE rest == <<staticSubscribers, validSubscribers, disableEvents, hasInit, store, updated,
                     task, request, acked, delayed, missed, tasks, requests, faults>>
<1>1. UNCHANGED rest
  BY DEF BundleManager
<1>2. PICK x \in Notice : /\ notices' = Append(notices, x)
                          /\ installed' \subseteq Key
                          /\ \/ installed \subseteq installed'
                             \/ installed' = installed \ {k} /\ x = <<PACKAGE_REMOVED, k>>
  BY DEF BundleManager, Notice, StaticInv, TypeOK
<1>3. notices \in Seq(Notice)
  BY DEF StaticInv, TypeOK, Notice
<1>4. notices' \in Seq(Notice) /\ x \in ToSet(notices)' /\ ToSet(notices) \subseteq ToSet(notices)'
  BY <1>2, <1>3, NoticesAppend
<1>5. TypeOK'
  BY <1>1, <1>2, <1>4 DEF StaticInv, TypeOK, Notice
<1>6. RemovedIsForgotten'
  <2> SUFFICES ASSUME NEW s \in validSubscribers, App[s.key].user \in ActiveUser,
                      s.key \notin installed', s.key \notin missed,
                      ~(task.at \notin {"idle", "serve", "connect"} /\ task.p.event = PACKAGE_REMOVED
                          /\ task.p.about = s.key)
               PROVE  <<PACKAGE_REMOVED, s.key>> \in ToSet(notices)'
    BY <1>1 DEF RemovedIsForgotten
  <2>1. CASE s.key \in installed
    BY <1>2, <1>4, <2>1
  <2>2. CASE s.key \notin installed
    BY <1>4, <2>2 DEF StaticInv, RemovedIsForgotten
  <2> QED  BY <2>1, <2>2
<1> QED  BY <1>1, <1>5, <1>6, AllowListStays, ValidStays, StartStays, AckedStays, RequestStays DEF StaticInv

\* A publication begins: it takes its package event off the queue, and
\* either starts the initialisation or goes on with what there is.
LEMMA PublishKeeps ==
  ASSUME StaticInv, NEW p \in Publication, PublishCommonEvent(p)
  PROVE  StaticInv'
<1> DEFINE init == ~hasInit \/ p.event = USER_FOREGROUND
           todo == {x \in installed \X Event : x[2] \in App[x[1]].allowed}
<1>1. /\ task.at = "idle" /\ tasks < MaxTasks /\ tasks' = tasks + 1
      /\ UNCHANGED <<installed, staticSubscribers, disableEvents, hasInit, store, updated,
                     request, acked, delayed, requests>>
      /\ IF init THEN validSubscribers' = {} /\ missed' = {}
         ELSE UNCHANGED <<validSubscribers, missed>>
  BY DEF PublishCommonEvent
<1>2. \/ ~init /\ faults' = faults /\ task' = [at |-> "update", p |-> p]
      \/ init /\ faults < MaxFaults /\ faults' = faults + 1 /\ task' = NoTask
      \/ init /\ faults' = faults /\ task' = [at |-> "allow", p |-> p, todo |-> todo]
  BY DEF PublishCommonEvent, Fails, StaticInv, TypeOK
<1>3. todo \subseteq Key \X Event /\ \A x \in todo : x[2] \in App[x[1]].allowed
  BY DEF StaticInv, TypeOK
<1>4. \/ notices' = notices
      \/ notices # <<>> /\ Head(notices) = <<p.event, p.about>> /\ notices' = Tail(notices)
  BY DEF PublishCommonEvent
<1>5. notices \in Seq(Notice)
  BY DEF StaticInv, TypeOK, Notice
<1>6. /\ notices' \in Seq(Notice)
      /\ \A y \in ToSet(notices) : y = <<p.event, p.about>> \/ y \in ToSet(notices)'
  BY <1>4, <1>5, NoticesTail
<1> HIDE DEF init, todo
<1>7. TypeOK'
  <2>1. task' \in Task(validSubscribers')
    BY <1>2, <1>3, TaskMade
  <2>2. tasks' \in 0..MaxTasks /\ faults' \in 0..MaxFaults
    BY <1>1, <1>2, StaticSubscribersAssumption DEF StaticInv, TypeOK
  <2>3. validSubscribers' \subseteq validSubscribers /\ missed' \subseteq Key
    BY <1>1 DEF StaticInv, TypeOK
  <2> QED  BY <1>1, <1>6, <2>1, <2>2, <2>3 DEF StaticInv, TypeOK, Notice
<1>8. AllowListOK'
  <2>1. \A k \in Key, e \in Event : staticSubscribers[k][e] \in 0..MaxTasks
    BY DEF StaticInv, TypeOK
  <2>2. \A k \in Key, e \in Event : staticSubscribers[k][e] <= tasks
    BY <1>1, <2>1 DEF StaticInv, AllowListOK
  <2>3. tasks \in Nat
    BY DEF StaticInv, TypeOK
  <2>4. task'.at = "allow" => \A x \in task'.todo : x[2] \in App[x[1]].allowed
    BY <1>2, <1>3 DEF NoTask
  <2>5. ASSUME NEW k \in Key, NEW e \in Event
        PROVE  staticSubscribers'[k][e]
                 + (IF task'.at = "allow" /\ <<k, e>> \in task'.todo THEN 1 ELSE 0) <= tasks'
    BY <1>1, <2>1, <2>2, <2>3
  <2> QED  BY <1>1, <2>4, <2>5 DEF StaticInv, AllowListOK
<1>9. ValidOK'
  BY <1>1, <1>2 DEF StaticInv, ValidOK, NoTask
<1>10. RemovedIsForgotten'
  <2> SUFFICES ASSUME NEW s \in validSubscribers', App[s.key].user \in ActiveUser,
                      s.key \notin installed', <<PACKAGE_REMOVED, s.key>> \notin ToSet(notices)',
                      s.key \notin missed'
               PROVE  task'.at = "update" /\ task'.p.event = PACKAGE_REMOVED /\ task'.p.about = s.key
    BY DEF RemovedIsForgotten
  <2>1. ~init /\ s \in validSubscribers /\ s.key \notin missed
    BY <1>1
  <2>2. <<PACKAGE_REMOVED, s.key>> \in ToSet(notices)
    BY <1>1, <2>1 DEF StaticInv, RemovedIsForgotten
  <2>3. <<PACKAGE_REMOVED, s.key>> = <<p.event, p.about>>
    BY <1>6, <2>2
  <2> QED  BY <1>2, <2>1, <2>3
<1>11. StartOK'
  <2>1. task'.at \notin {"serve", "connect"}
    BY <1>2 DEF NoTask
  <2> QED  BY <1>1, <2>1, StartNone DEF StaticInv
<1> QED  BY <1>1, <1>7, <1>8, <1>9, <1>10, <1>11, AckedStays, RequestStays DEF StaticInv

\* One event of the allow list: it had not been counted for this task; or
\* those of a bundle that is passed over.
LEMMA AllowKeeps ==
  ASSUME StaticInv, InitAllowList
  PROVE  StaticInv'
<1>1. /\ task.at = "allow"
      /\ UNCHANGED <<installed, notices, validSubscribers, disableEvents, hasInit, store, updated,
                     request, acked, delayed, missed, tasks, requests>>
      /\ faults' = faults \/ (faults < MaxFaults /\ faults' = faults + 1)
  BY DEF InitAllowList, Fails
<1>2. /\ task = [at |-> "allow", p |-> task.p, todo |-> task.todo]
      /\ task.p \in Publication /\ task.todo \subseteq Key \X Event
  BY <1>1, StoreTyped DEF StaticInv, TaskShape
<1>3. \/ task' = [at |-> "query", p |-> task.p] /\ UNCHANGED staticSubscribers
      \/ \E x \in task.todo :
           /\ task' = [at |-> "allow", p |-> task.p, todo |-> task.todo \ {x}]
           /\ staticSubscribers' = [staticSubscribers EXCEPT ![x[1]][x[2]] = @ + 1]
      \/ /\ \E S \in SUBSET task.todo : task' = [at |-> "allow", p |-> task.p, todo |-> S]
         /\ UNCHANGED staticSubscribers
  <2>1. ASSUME NEW k \in Key, NEW pushes, task' = [task EXCEPT !.todo = @ \ pushes]
        PROVE  \E S \in SUBSET task.todo : task' = [at |-> "allow", p |-> task.p, todo |-> S]
    <3>1. PICK S : S = task.todo \ pushes
      OBVIOUS
    <3>2. task' = [task EXCEPT !.todo = S]
      BY <2>1, <3>1
    <3>3. [task EXCEPT !.todo = S] = [at |-> "allow", p |-> task.p, todo |-> S]
      BY <1>2
    <3> QED  BY <3>1, <3>2, <3>3
  <2> QED  BY <1>2, <2>1 DEF InitAllowList
<1>4. validSubscribers = {} /\ tasks \in 0..MaxTasks
      /\ staticSubscribers \in [Key -> [Event -> 0..MaxTasks]]
  BY <1>1 DEF StaticInv, ValidOK, TypeOK
<1>5. task'.at \in {"allow", "query"} /\ task' \in Task(validSubscribers')
  <2>1. task'.at \in {"allow", "query"}
    <3>1. \/ task' = [at |-> "query", p |-> task.p]
          \/ \E S : task' = [at |-> "allow", p |-> task.p, todo |-> S]
      BY <1>3, Zenon
    <3> QED  BY <3>1
  <2>2. \A S \in SUBSET (Key \X Event) :
          [at |-> "allow", p |-> task.p, todo |-> S] \in Task(validSubscribers')
    BY <1>2 DEF Task
  <2>3. [at |-> "query", p |-> task.p] \in Task(validSubscribers')
    BY <1>2 DEF Task
  <2>4. /\ \A x \in task.todo : task.todo \ {x} \in SUBSET (Key \X Event)
        /\ SUBSET task.todo \subseteq SUBSET (Key \X Event)
    BY <1>2
  <2> QED  BY <1>3, <2>1, <2>2, <2>3, <2>4
<1>6. staticSubscribers' \in [Key -> [Event -> 0..MaxTasks]] /\ AllowListOK'
  <2>1. CASE task' = [at |-> "query", p |-> task.p] /\ UNCHANGED staticSubscribers
    <3>1. \A k \in Key, e \in Event : staticSubscribers[k][e] <= tasks
      <4> TAKE k \in Key, e \in Event
      <4>1. staticSubscribers[k][e] \in 0..MaxTasks
        BY <1>4
      <4>2. staticSubscribers[k][e]
              + (IF task.at = "allow" /\ <<k, e>> \in task.todo THEN 1 ELSE 0) <= tasks
        BY DEF StaticInv, AllowListOK
      <4> QED  BY <1>4, <4>1, <4>2
    <3>2. \A k \in Key, e \in Event : staticSubscribers[k][e] + 0 = staticSubscribers[k][e]
      BY <1>4
    <3> QED  BY <1>1, <1>4, <2>1, <3>1, <3>2 DEF StaticInv, AllowListOK
  <2>2. ASSUME NEW x \in task.todo,
               task' = [at |-> "allow", p |-> task.p, todo |-> task.todo \ {x}],
               staticSubscribers' = [staticSubscribers EXCEPT ![x[1]][x[2]] = @ + 1]
        PROVE  staticSubscribers' \in [Key -> [Event -> 0..MaxTasks]] /\ AllowListOK'
    <3>1. x = <<x[1], x[2]>> /\ x[1] \in Key /\ x[2] \in Event /\ x[2] \in App[x[1]].allowed
      BY <1>1, <1>2 DEF StaticInv, AllowListOK
    <3>2. staticSubscribers[x[1]][x[2]] \in 0..MaxTasks /\ staticSubscribers[x[1]][x[2]] + 1 <= tasks
      BY <1>1, <1>4, <3>1 DEF StaticInv, AllowListOK
    <3>3. staticSubscribers[x[1]][x[2]] + 1 \in 0..MaxTasks
      BY <1>4, <3>2, StaticSubscribersAssumption
    <3>4. staticSubscribers' \in [Key -> [Event -> 0..MaxTasks]]
      BY <1>4, <2>2, <3>1, <3>3
    <3>5. \A k \in Key, e \in Event :
            staticSubscribers'[k][e] = IF <<k, e>> = x THEN staticSubscribers[k][e] + 1
                                       ELSE staticSubscribers[k][e]
      BY <1>4, <2>2, <3>1
    <3>6. ASSUME NEW k \in Key, NEW e \in Event
          PROVE  staticSubscribers'[k][e]
                   + (IF task'.at = "allow" /\ <<k, e>> \in task'.todo THEN 1 ELSE 0) <= tasks'
      <4>1. staticSubscribers[k][e] \in 0..MaxTasks
        BY <1>4
      <4>2. staticSubscribers[k][e] + (IF <<k, e>> \in task.todo THEN 1 ELSE 0) <= tasks
        BY <1>1 DEF StaticInv, AllowListOK
      <4>3. task'.at = "allow" /\ task'.todo = task.todo \ {x} /\ tasks' = tasks
        BY <1>1, <2>2
      <4>4. CASE <<k, e>> = x
        BY <1>4, <3>2, <3>5, <4>1, <4>3, <4>4
      <4>5. CASE <<k, e>> # x
        BY <1>4, <3>5, <4>1, <4>2, <4>3, <4>5
      <4> QED  BY <4>4, <4>5
    <3>7. \A k \in Key, e \in Event : staticSubscribers'[k][e] > 0 => e \in App[k].allowed
      <4> TAKE k \in Key, e \in Event
      <4>1. CASE <<k, e>> = x
        BY <3>1, <4>1
      <4>2. CASE <<k, e>> # x
        BY <3>5, <4>2 DEF StaticInv, AllowListOK
      <4> QED  BY <4>1, <4>2
    <3>8. task'.at = "allow" => \A y \in task'.todo : y[2] \in App[y[1]].allowed
      BY <1>1, <2>2 DEF StaticInv, AllowListOK
    <3> QED  BY <3>4, <3>6, <3>7, <3>8 DEF AllowListOK
  <2>3. ASSUME NEW S \in SUBSET task.todo, UNCHANGED staticSubscribers,
               task' = [at |-> "allow", p |-> task.p, todo |-> S]
        PROVE  staticSubscribers' \in [Key -> [Event -> 0..MaxTasks]] /\ AllowListOK'
    <3>1. task'.at = "allow" /\ task'.todo = S
      BY <2>3
    <3>2. ASSUME NEW k \in Key, NEW e \in Event
          PROVE  staticSubscribers[k][e] + (IF <<k, e>> \in S THEN 1 ELSE 0) <= tasks
      <4>1. staticSubscribers[k][e] \in 0..MaxTasks
        BY <1>4
      <4>2. staticSubscribers[k][e] + (IF <<k, e>> \in task.todo THEN 1 ELSE 0) <= tasks
        BY <1>1 DEF StaticInv, AllowListOK
      <4> QED  BY <1>4, <4>1, <4>2
    <3>3. \A y \in S : y[2] \in App[y[1]].allowed
      BY <1>1 DEF StaticInv, AllowListOK
    <3> QED  BY <1>1, <1>4, <2>3, <3>1, <3>2, <3>3 DEF StaticInv, AllowListOK
  <2> QED  BY <1>3, <2>1, <2>2, <2>3
<1>7. TypeOK'
  <2>1. faults' \in 0..MaxFaults
    BY <1>1, StaticSubscribersAssumption DEF StaticInv, TypeOK
  <2> QED  BY <1>1, <1>5, <1>6, <2>1 DEF StaticInv, TypeOK
<1>8. ValidOK' /\ StartOK' /\ RemovedIsForgotten'
  BY <1>1, <1>4, <1>5, StartNone DEF StaticInv, ValidOK, RemovedIsForgotten
<1> QED  BY <1>1, <1>6, <1>7, <1>8, AckedStays, RequestStays DEF StaticInv

\* Disabled, by the memory before and after a step.
LEMMA DisabledIs == \A k : /\ Disabled(k) = Off(disableEvents, k)
                           /\ Disabled(k)' = Off(disableEvents', k)
BY DEF Disabled, Off

\* The initialisation reads the store into memory: it adds, and rewrites
\* only keys of an earlier version, of which nothing was acknowledged.
LEMMA QueryKeeps ==
  ASSUME StaticInv, QueryIntoMemory
  PROVE  StaticInv'
<1>1. /\ task.at = "query"
      /\ UNCHANGED <<installed, notices, staticSubscribers, validSubscribers, hasInit, request,
                     acked, delayed, missed, tasks, requests>>
  BY DEF QueryIntoMemory
<1>2. /\ StoreTypeOK /\ task.p \in Publication
  BY <1>1, StoreTyped DEF StaticInv, TaskShape
<1>3. validSubscribers = {}
  BY <1>1 DEF StaticInv, ValidOK
<1>4. \E S \in SUBSET StoreKey :
        /\ task' = [at |-> "extensions", p |-> task.p, legacy |-> S]
        /\ MemoryOK(disableEvents') /\ StoreOK(store') /\ updated' \in BOOLEAN
        /\ faults' \in 0..MaxFaults
        /\ disableEvents' = disableEvents \/ \E g : disableEvents' = Emplace(disableEvents, g)
        /\ updated => updated' /\ store' = store
  <2>1. CASE /\ faults < MaxFaults /\ faults' = faults + 1
             /\ task' = [at |-> "extensions", p |-> task.p, legacy |-> {}]
             /\ UNCHANGED <<disableEvents, store, updated>>
    <3>1. MemoryOK(disableEvents') /\ StoreOK(store') /\ updated' \in BOOLEAN
      BY <1>2, <2>1 DEF StoreTypeOK
    <3>2. faults' \in 0..MaxFaults
      BY <1>2, <2>1, StaticSubscribersAssumption DEF StoreTypeOK
    <3> QED  BY <2>1, <3>1, <3>2
  <2>2. CASE \E q \in QueryResults :
               /\ disableEvents' = Emplace(disableEvents, UserKeys(q.data))
               /\ store' = Migrated(q.read)
               /\ updated' = (updated \/ store # <<>>)
               /\ task' = [at |-> "extensions", p |-> task.p, legacy |-> q.legacy]
               /\ faults' = faults
    <3>1. PICK q \in QueryResults :
               /\ disableEvents' = Emplace(disableEvents, UserKeys(q.data))
               /\ store' = Migrated(q.read)
               /\ updated' = (updated \/ store # <<>>)
               /\ task' = [at |-> "extensions", p |-> task.p, legacy |-> q.legacy]
               /\ faults' = faults
      BY <2>2
    <3>2. /\ q.read \subseteq DOMAIN store /\ q.legacy \subseteq StoreKey
          /\ DOMAIN q.data \subseteq StoreKey /\ \A nk \in DOMAIN q.data : q.data[nk] \in Bag
      BY <1>2, QueryIs DEF StoreTypeOK
    <3>3. MemoryOK(UserKeys(q.data))
      BY <3>2, UserKeysOK
    <3>4. MemoryOK(disableEvents')
      BY <1>2, <3>1, <3>3, EmplaceOK DEF StoreTypeOK
    <3>5. StoreOK(store') /\ (updated => store' = store)
      BY <1>2, <3>1, <3>2, MigratedIs DEF StoreTypeOK
    <3>6. updated' \in BOOLEAN /\ (updated => updated') /\ faults' \in 0..MaxFaults
      BY <1>2, <3>1 DEF StoreTypeOK
    <3> QED  BY <3>1, <3>2, <3>4, <3>5, <3>6
  <2> QED  BY <2>1, <2>2 DEF QueryIntoMemory, Fails
<1>5. PICK S \in SUBSET StoreKey :
        /\ task' = [at |-> "extensions", p |-> task.p, legacy |-> S]
        /\ MemoryOK(disableEvents') /\ StoreOK(store') /\ updated' \in BOOLEAN
        /\ faults' \in 0..MaxFaults
        /\ disableEvents' = disableEvents \/ \E g : disableEvents' = Emplace(disableEvents, g)
        /\ updated => updated' /\ store' = store
  BY <1>4
<1>6. task'.at = "extensions" /\ task' \in Task(validSubscribers')
  BY <1>2, <1>5 DEF Task
<1>7. \A k : Disabled(k) \subseteq Disabled(k)'
  <2>1. \A k : Off(disableEvents, k) \subseteq Off(disableEvents', k)
    BY <1>5, EmplaceKeeps
  <2> QED  BY <2>1, DisabledIs
<1>8. TypeOK'
  BY <1>1, <1>5, <1>6 DEF StaticInv, TypeOK, MemoryOK, StoreOK, Bag
<1>9. AllowListOK'
  <2>1. \A k \in Key, e \in Event : staticSubscribers[k][e] \in 0..MaxTasks
    BY DEF StaticInv, TypeOK
  <2> QED  BY <1>1, <1>6, <2>1 DEF StaticInv, AllowListOK
<1>10. ValidOK' /\ StartOK' /\ RemovedIsForgotten'
  BY <1>1, <1>3, <1>6, StartNone DEF StaticInv, ValidOK, RemovedIsForgotten
<1>11. AckedOK'
  BY <1>1, <1>5, <1>7 DEF StaticInv, AckedOK, AckedIsStored
<1>12. RequestOK'
  <2>1. request' = request
    BY <1>1
  <2> QED  BY <1>7, <2>1 DEF StaticInv, RequestOK
<1> QED  BY <1>8, <1>9, <1>10, <1>11, <1>12 DEF StaticInv

\* The extensions of the bundles that are installed become subscribers.
LEMMA ExtensionsKeep ==
  ASSUME StaticInv, QueryExtensionInfos
  PROVE  StaticInv'
<1>1. /\ task.at = "extensions"
      /\ UNCHANGED <<installed, notices, staticSubscribers, disableEvents, store, updated, request,
                     acked, delayed, missed, tasks, requests>>
  BY DEF QueryExtensionInfos
<1>2. /\ task = [at |-> "extensions", p |-> task.p, legacy |-> task.legacy]
      /\ task.p \in Publication /\ task.legacy \in SUBSET StoreKey /\ faults \in 0..MaxFaults
  BY <1>1, StoreTyped DEF StaticInv, TaskShape, StoreTypeOK
<1>3. validSubscribers = {}
  BY <1>1 DEF StaticInv, ValidOK
<1>4. \/ /\ faults < MaxFaults /\ faults' = faults + 1 /\ task' = NoTask
         /\ UNCHANGED <<validSubscribers, hasInit>>
      \/ /\ faults' = faults \/ (faults < MaxFaults /\ faults' = faults + 1)
         /\ \E K \in SUBSET installed : validSubscribers' = AddSubscribers(K)
         /\ \/ hasInit' = TRUE /\ task' = [at |-> "update", p |-> task.p]
            \/ hasInit' = hasInit /\ task' = [at |-> "legacy", p |-> task.p, legacy |-> task.legacy]
  <2>1. ASSUME ~(Fails /\ task' = NoTask /\ UNCHANGED <<validSubscribers, hasInit>>)
        PROVE  /\ faults' = faults \/ (faults < MaxFaults /\ faults' = faults + 1)
               /\ \E K \in SUBSET installed : validSubscribers' = AddSubscribers(K)
               /\ \/ hasInit' = TRUE /\ task' = [at |-> "update", p |-> task.p]
                  \/ hasInit' = hasInit /\ task' = [task EXCEPT !.at = "legacy"]
    <3>1. installed \in SUBSET installed /\ \A k \in installed : installed \ {k} \in SUBSET installed
      OBVIOUS
    <3>2. \E K \in SUBSET installed : validSubscribers' = AddSubscribers(K)
      BY <2>1, <3>1, Zenon DEF QueryExtensionInfos
    <3>3. \/ hasInit' = TRUE /\ task' = [at |-> "update", p |-> task.p]
          \/ hasInit' = hasInit /\ task' = [task EXCEPT !.at = "legacy"]
      BY <2>1, Zenon DEF QueryExtensionInfos
    <3>4. faults' = faults \/ (faults < MaxFaults /\ faults' = faults + 1)
      BY <2>1, Zenon DEF QueryExtensionInfos, Fails
    <3> QED  BY <3>2, <3>3, <3>4
  <2>2. [task EXCEPT !.at = "legacy"] = [at |-> "legacy", p |-> task.p, legacy |-> task.legacy]
    BY <1>2
  <2> QED  BY <2>1, <2>2, Zenon DEF Fails
<1>5. task'.at \in {"idle", "update", "legacy"} /\ task' \in Task(validSubscribers')
  BY <1>2, <1>4 DEF Task, NoTask
<1>6. \A s \in validSubscribers' : /\ s.key \in installed /\ s.key \in Key /\ s.event \in Event
                                   /\ Declared(s)
  <2> SUFFICES ASSUME NEW K \in SUBSET installed, NEW s \in AddSubscribers(K)
               PROVE  s.key \in installed /\ s.key \in Key /\ s.event \in Event /\ Declared(s)
    BY <1>3, <1>4
  <2>1. PICK k \in K : s \in ParseEvents(k)
    BY DEF AddSubscribers
  <2>2. k \in Key
    BY DEF StaticInv, TypeOK
  <2> QED  BY <2>1, <2>2, ParseIs DEF StaticInv
<1>7. TypeOK'
  <2>1. faults' \in 0..MaxFaults
    BY <1>2, <1>4, StaticSubscribersAssumption
  <2>2. hasInit \in BOOLEAN
    BY DEF StaticInv, TypeOK
  <2>3. hasInit' \in BOOLEAN
    BY <1>4, <2>2, Zenon
  <2> QED  BY <1>1, <1>5, <1>6, <2>1, <2>3 DEF StaticInv, TypeOK
<1>8. AllowListOK'
  <2>1. \A k \in Key, e \in Event : staticSubscribers[k][e] \in 0..MaxTasks
    BY DEF StaticInv, TypeOK
  <2> QED  BY <1>1, <1>5, <2>1 DEF StaticInv, AllowListOK
<1>9. ValidOK' /\ StartOK' /\ RemovedIsForgotten'
  BY <1>1, <1>3, <1>5, <1>6, StartNone DEF StaticInv, ValidOK, RemovedIsForgotten
<1> QED  BY <1>1, <1>7, <1>8, <1>9, AckedStays, RequestStays DEF StaticInv

\* The legacy values become lists; what was acknowledged counts no more.
LEMMA LegacyKeeps ==
  ASSUME StaticInv, ConvertLegacy
  PROVE  StaticInv'
<1>1. /\ task.at = "legacy" /\ request = NoRequest /\ disableEvents' = LegacyEvents
      /\ hasInit' = TRUE /\ acked' = {} /\ task' = [at |-> "update", p |-> task.p]
      /\ UNCHANGED <<installed, notices, staticSubscribers, validSubscribers, request, delayed,
                     missed, tasks, requests>>
  BY DEF ConvertLegacy
<1>2. StoreTypeOK /\ task.p \in Publication
  BY <1>1, StoreTyped DEF StaticInv, TaskShape
<1>3. MemoryOK(LegacyEvents)
  <2>1. \A k \in Key : staticSubscribers[k] \in Bag
    BY DEF StaticInv, TypeOK, Bag
  <2> QED  BY <2>1 DEF LegacyEvents, MemoryOK
<1>4. updated' \in BOOLEAN /\ StoreOK(store') /\ faults' \in 0..MaxFaults
  <2>1. PICK ok \in BOOLEAN : UpdateStaticSubscriberState(LegacyEvents, ok)
    BY DEF ConvertLegacy
  <2> DEFINE mem == LegacyEvents
  <2>2. UpdateStaticSubscriberState(mem, ok) /\ MemoryOK(mem)
    BY <1>3, <2>1
  <2> HIDE DEF mem
  <2> QED  BY <1>2, <2>2, UpdateIs
<1>5. task'.at = "update" /\ task' \in Task(validSubscribers')
  BY <1>1, <1>2 DEF Task
<1>6. TypeOK'
  BY <1>1, <1>3, <1>4, <1>5 DEF StaticInv, TypeOK, MemoryOK, StoreOK, Bag
<1>7. AllowListOK'
  <2>1. \A k \in Key, e \in Event : staticSubscribers[k][e] \in 0..MaxTasks
    BY DEF StaticInv, TypeOK
  <2> QED  BY <1>1, <1>5, <2>1 DEF StaticInv, AllowListOK
<1>8. ValidOK' /\ StartOK'
  BY <1>1, <1>5, StartNone DEF StaticInv, ValidOK
<1>9. RemovedIsForgotten'
  <2>1. task'.p = task.p
    BY <1>1
  <2> QED  BY <1>1, <1>5, <2>1 DEF StaticInv, RemovedIsForgotten
<1>10. AckedOK' /\ RequestOK'
  BY <1>1 DEF AckedOK, AckedIsStored, RequestOK, NoRequest
<1> QED  BY <1>6, <1>7, <1>8, <1>9, <1>10 DEF StaticInv

\* A package event is applied: what is removed is dropped from the valid
\* subscribers, the memory and the store; what is added is installed.
LEMMA UpdateKeeps ==
  ASSUME StaticInv, UpdateSubscriber
  PROVE  StaticInv'
<1> DEFINE event == task.p.event
           k == task.p.about
           applies == k # None /\ App[k].user \in ActiveUser
           remove == applies /\ event \in {PACKAGE_REMOVED, PACKAGE_CHANGED}
           add == applies /\ event \in {PACKAGE_ADDED, PACKAGE_CHANGED}
           kept == IF remove THEN RemoveValid(validSubscribers, k) ELSE validSubscribers
           new == IF add THEN {s \in AddSubscriberWithBundleName(k) :
                                 \A v \in kept : <<v.key, v.event>> # <<s.key, s.event>>} ELSE {}
           Missed == /\ k # None /\ Fails
                     /\ missed' = IF event = PACKAGE_REMOVED THEN missed \cup {k} ELSE missed
                     /\ UNCHANGED <<validSubscribers, disableEvents, store, acked>>
<1>1. /\ task.at = "update" /\ request = NoRequest
      /\ UNCHANGED <<installed, notices, staticSubscribers, hasInit, updated, request, delayed,
                     tasks, requests>>
      /\ task' = [at |-> "serve", p |-> task.p, boot |-> {},
                  todo |-> {s \in validSubscribers' : s.event = event}]
  BY DEF UpdateSubscriber
<1>2. ASSUME ~Missed
      PROVE  /\ IF remove THEN RemoveSubscriberWithBundleName(k)
                ELSE UNCHANGED <<disableEvents, store, faults, acked>>
             /\ missed' = IF remove THEN missed \ {k} ELSE missed
             /\ validSubscribers' = kept \/ validSubscribers' = kept \cup new
  BY <1>2 DEF UpdateSubscriber
<1>3. StoreTypeOK /\ task.p \in Publication
  BY <1>1, StoreTyped DEF StaticInv, TaskShape
<1>4. applies => k \in Key
  BY <1>3, StaticSubscribersAssumption
<1>5. kept \subseteq validSubscribers /\ (remove => \A s \in kept : s.key # k)
  BY DEF RemoveValid
<1>6. ASSUME NEW s \in new
      PROVE  s.key \in installed /\ s.key \in Key /\ s.event \in Event /\ Declared(s)
  <2>1. applies /\ s \in AddSubscriberWithBundleName(k)
    BY <1>6
  <2>2. k \in installed /\ s \in ParseEvents(k)
    BY <2>1 DEF AddSubscriberWithBundleName
  <2>3. k \in Key
    BY <1>4, <2>1
  <2> HIDE DEF k
  <2> QED  BY <2>2, <2>3, ParseIs DEF StaticInv
<1>7. task' = [at |-> "serve", p |-> task.p, boot |-> {},
               todo |-> {s \in validSubscribers' : s.event = task.p.event}]
  BY <1>1
<1>8. task'.at = "serve" /\ task'.p = task.p /\ task'.boot = {} /\ task' \in Task(validSubscribers')
  BY <1>3, <1>7 DEF Task
<1>9. applies = (task.p.about # None /\ App[task.p.about].user \in ActiveUser)
  OBVIOUS
<1>10. remove = (applies /\ task.p.event \in {PACKAGE_REMOVED, PACKAGE_CHANGED})
  OBVIOUS
<1>11. Missed <=> /\ task.p.about # None /\ faults < MaxFaults /\ faults' = faults + 1
                  /\ missed' = IF task.p.event = PACKAGE_REMOVED THEN missed \cup {task.p.about}
                               ELSE missed
                  /\ UNCHANGED <<validSubscribers, disableEvents, store, acked>>
  BY DEF Fails
<1> HIDE DEF add, kept, new, remove, applies, Missed
<1>12. AllowListOK'
  <2>1. \A x \in Key, e \in Event : staticSubscribers[x][e] \in 0..MaxTasks
    BY DEF StaticInv, TypeOK
  <2> QED  BY <1>1, <1>8, <2>1 DEF StaticInv, AllowListOK
<1>13. StartOK' /\ RequestOK'
  BY <1>1, <1>8, StartNone DEF StaticInv, RequestOK, NoRequest
<1>14. CASE Missed
  <2> HIDE DEF k
  <2>1. /\ faults' \in 0..MaxFaults
        /\ missed \subseteq missed' /\ missed' \subseteq missed \cup {task.p.about}
        /\ task.p.event = PACKAGE_REMOVED => task.p.about \in missed'
        /\ UNCHANGED <<validSubscribers, disableEvents, store, acked>>
    BY <1>3, <1>11, <1>14, StaticSubscribersAssumption DEF StoreTypeOK
  <2>2. task.p.about \in Key
    BY <1>3, <1>11, <1>14, StaticSubscribersAssumption
  <2>3. TypeOK'
    BY <1>1, <1>8, <2>1, <2>2 DEF StaticInv, TypeOK
  <2>4. ValidOK'
    BY <1>7, <1>8, <2>1 DEF StaticInv, ValidOK
  <2>5. AckedOK'
    BY <1>1, <2>1, AckedStays DEF StaticInv
  <2>6. RemovedIsForgotten'
    BY <1>1, <1>8, <2>1 DEF StaticInv, RemovedIsForgotten
  <2> QED  BY <1>12, <1>13, <2>3, <2>4, <2>5, <2>6 DEF StaticInv
<1>15. CASE ~Missed
  <2>1. ASSUME remove
        PROVE  /\ MemoryOK(disableEvents') /\ StoreOK(store') /\ faults' \in 0..MaxFaults
               /\ acked' = {a \in acked : a[1] # k} /\ disableEvents' = Without(disableEvents, {k})
               /\ store' = store \/ store' = Without(store, {<<"user", k>>})
    <3> HIDE DEF k
    <3>1. RemoveSubscriberWithBundleName(k)
      BY <1>2, <1>15, <2>1
    <3>2. /\ disableEvents' = Without(disableEvents, {k}) /\ acked' = {a \in acked : a[1] # k}
          /\ store' = store \/ store' = Without(store, {<<"user", k>>})
          /\ faults' = faults \/ (faults < MaxFaults /\ faults' = faults + 1)
      BY <3>1 DEF RemoveSubscriberWithBundleName, Fails
    <3>3. MemoryOK(disableEvents') /\ StoreOK(store')
      BY <1>3, <3>2, WithoutOK DEF StoreTypeOK
    <3>4. faults' \in 0..MaxFaults
      BY <1>3, <3>2, StaticSubscribersAssumption DEF StoreTypeOK
    <3> QED  BY <3>2, <3>3, <3>4
  <2>2. ASSUME ~remove
        PROVE  UNCHANGED <<disableEvents, store, faults, acked>>
    BY <1>2, <1>15, <2>2
  <2>3. /\ validSubscribers' \subseteq kept \cup new
        /\ missed' = IF remove THEN missed \ {k} ELSE missed
    BY <1>2, <1>15
  <2>4. TypeOK'
    <3>1. MemoryOK(disableEvents') /\ StoreOK(store') /\ faults' \in 0..MaxFaults /\ acked' \subseteq acked
      BY <1>3, <2>1, <2>2 DEF StoreTypeOK
    <3>2. \A s \in validSubscribers' : s.event \in Event /\ s.key \in Key
      BY <1>5, <1>6, <2>3 DEF StaticInv, TypeOK
    <3>3. missed' \subseteq Key
      BY <2>3 DEF StaticInv, TypeOK
    <3> QED  BY <1>1, <1>8, <3>1, <3>2, <3>3 DEF StaticInv, TypeOK, MemoryOK, StoreOK, Bag
  <2>5. ValidOK'
    <3>1. \A s \in validSubscribers' : Declared(s)
      BY <1>5, <1>6, <2>3 DEF StaticInv, ValidOK
    <3>2. \A s \in task'.todo : s.event = task'.p.event
      BY <1>7
    <3> QED  BY <1>8, <3>1, <3>2 DEF ValidOK
  <2>6. AckedOK'
    <3>1. CASE remove
      <4> HIDE DEF k
      <4>1. \A x : x # k => Disabled(x)' = Disabled(x)
        <5>1. \A x : x # k => Off(disableEvents', x) = Off(disableEvents, x)
          <6>1. disableEvents' = Without(disableEvents, {k})
            BY <2>1, <3>1
          <6>2. \A x : x # k => Off(Without(disableEvents, {k}), x) = Off(disableEvents, x)
            BY WithoutKeeps
          <6> QED  BY <6>1, <6>2
        <5> QED  BY <5>1, DisabledIs
      <4>2. acked' \subseteq acked /\ \A a \in acked' : a[1] # k
        BY <2>1, <3>1
      <4>3. ASSUME NEW a \in acked'
            PROVE  LET sk == <<"user", a[1]>>
                   IN sk \in DOMAIN store' /\ a[2] \in InBag(store'[sk].events)
        <5> DEFINE sk == <<"user", a[1]>>
        <5>1. sk \in DOMAIN store /\ a[2] \in InBag(store[sk].events)
          BY <4>2 DEF StaticInv, AckedOK, AckedIsStored
        <5>2. sk # <<"user", k>>
          BY <4>2
        <5> HIDE DEF sk
        <5>3. sk \in DOMAIN store' /\ store'[sk] = store[sk]
          BY <2>1, <3>1, <5>1, <5>2 DEF Without
        <5> QED  BY <5>1, <5>3 DEF sk
      <4>4. \A a \in acked' : a[2] \in Disabled(a[1])'
        BY <4>1, <4>2 DEF StaticInv, AckedOK
      <4>5. acked' # {} => updated'
        BY <1>1, <4>2 DEF StaticInv, AckedOK
      <4>6. AckedIsStored'
        BY <4>3 DEF AckedIsStored
      <4> QED  BY <4>4, <4>5, <4>6 DEF AckedOK
    <3>2. CASE ~remove
      BY <1>1, <2>2, <3>2, AckedStays DEF StaticInv
    <3> QED  BY <3>1, <3>2
  <2>7. RemovedIsForgotten'
    <3> SUFFICES ASSUME NEW s \in validSubscribers', App[s.key].user \in ActiveUser,
                        s.key \notin installed, s.key \notin missed'
                 PROVE  <<PACKAGE_REMOVED, s.key>> \in ToSet(notices)
      BY <1>1 DEF RemovedIsForgotten
    <3>1. s \in kept /\ s \in validSubscribers
      BY <1>5, <1>6, <2>3
    <3>2. s.key \notin missed
      BY <1>5, <2>3, <3>1
    <3>3. CASE task.p.event = PACKAGE_REMOVED /\ task.p.about = s.key
      <4>1. s.key \in Key
        BY <3>1 DEF StaticInv, TypeOK
      <4>2. applies
        BY <1>9, <3>3, <4>1, StaticSubscribersAssumption
      <4>3. remove
        BY <1>10, <3>3, <4>2
      <4> QED  BY <1>5, <3>1, <3>3, <4>3
    <3>4. CASE ~(task.p.event = PACKAGE_REMOVED /\ task.p.about = s.key)
      BY <3>1, <3>2, <3>4 DEF StaticInv, RemovedIsForgotten
    <3> QED  BY <3>3, <3>4
  <2> QED  BY <1>12, <1>13, <2>4, <2>5, <2>6, <2>7 DEF StaticInv
<1> QED  BY <1>14, <1>15

\* One subscriber of the loop: at most its extension is chosen, if the event is
\* not off for it and it is entitled.
LEMMA CheckIs ==
  ASSUME StaticInv, NEW s, Check(s)
  PROVE  /\ task.at = "serve" /\ task.p \in Publication /\ task.todo \subseteq validSubscribers
         /\ s \in validSubscribers /\ s.key \in Key /\ Declared(s) /\ s.event = task.p.event
         /\ task' \in Task(validSubscribers)
         /\ task'.at \in {"serve", "connect"} /\ task'.p = task.p /\ task'.todo \subseteq task.todo
         /\ \A k : Chosen(k)' => \/ Chosen(k)
                                 \/ /\ k = s.key /\ Entitled(s, task.p)
                                    /\ s.event \notin Disabled(s.key)
<1>1. task.at = "serve" /\ s \in task.todo
  BY DEF Check
<1>2. /\ task = [at |-> "serve", p |-> task.p, todo |-> task.todo, boot |-> task.boot]
      /\ task.p \in Publication /\ task.todo \subseteq validSubscribers /\ task.boot \subseteq Key
  BY <1>1, StoreTyped DEF StaticInv, TaskShape
<1> DEFINE rest == [at |-> "serve", p |-> task.p, todo |-> task.todo \ {s}, boot |-> task.boot]
           chosen == [at |-> "serve", p |-> task.p, todo |-> task.todo \ {s},
                      boot |-> task.boot \cup {s.key}]
           next == [at |-> "connect", p |-> task.p, todo |-> task.todo \ {s}, key |-> s.key]
           passes == s.event \notin Disabled(s.key) /\ Entitled(s, task.p)
<1>3. \/ task' = rest
      \/ passes /\ (task' = chosen \/ task' = next)
  <2>1. [task EXCEPT !.todo = @ \ {s}] = rest
    BY <1>2
  <2>2. [rest EXCEPT !.boot = @ \cup {s.key}] = chosen /\ rest.todo = task.todo \ {s}
    OBVIOUS
  <2> HIDE DEF rest, chosen
  <2> QED  BY <2>1, <2>2 DEF Check
<1>4. s \in validSubscribers /\ s.key \in Key /\ Declared(s) /\ s.event = task.p.event
  BY <1>1, <1>2 DEF StaticInv, TypeOK, ValidOK
<1>5. /\ task'.at \in {"serve", "connect"} /\ task'.p = task.p /\ task'.todo \subseteq task.todo
      /\ \A k : Chosen(k)' => Chosen(k) \/ (k = s.key /\ passes)
  <2> HIDE DEF passes
  <2>1. CASE task' = rest
    BY <1>1, <2>1 DEF Chosen
  <2>2. CASE passes /\ task' = chosen
    BY <1>1, <2>2 DEF Chosen
  <2>3. CASE passes /\ task' = next
    BY <1>1, <2>3 DEF Chosen
  <2> QED  BY <1>3, <2>1, <2>2, <2>3
<1>6. task' \in Task(validSubscribers)
  <2>1. /\ task.todo \ {s} \in SUBSET validSubscribers /\ task.boot \in SUBSET Key
        /\ task.boot \cup {s.key} \in SUBSET Key
    BY <1>2, <1>4
  <2> QED  BY <1>2, <1>3, <1>4, <2>1, TaskMade
<1> QED  BY <1>1, <1>2, <1>4, <1>5, <1>6

\* If it is chosen, it may be started.
LEMMA CheckKeeps ==
  ASSUME StaticInv, NEW s, Check(s)
  PROVE  StaticInv'
<1>1. /\ request = NoRequest
      /\ UNCHANGED <<installed, notices, staticSubscribers, validSubscribers, disableEvents, hasInit,
                     store, updated, request, acked, delayed, missed, tasks, requests, faults>>
  BY DEF Check
<1>2. /\ task.at = "serve" /\ s.key \in Key /\ Declared(s) /\ s.event = task.p.event
      /\ task' \in Task(validSubscribers)
      /\ task'.at \in {"serve", "connect"} /\ task'.p = task.p /\ task'.todo \subseteq task.todo
      /\ \A k : Chosen(k)' => Chosen(k) \/ (k = s.key /\ Entitled(s, task.p))
  BY CheckIs
<1>3. TypeOK'
  BY <1>1, <1>2 DEF StaticInv, TypeOK
<1>4. AllowListOK'
  BY <1>1, <1>2 DEF StaticInv, AllowListOK
<1>5. ValidOK'
  BY <1>1, <1>2 DEF StaticInv, ValidOK
<1>6. StartOK'
  <2>1. ASSUME Entitled(s, task.p)
        PROVE  MayStart(task.p, s.key)
    <3>1. App[s.key].user > 99 => task.p.userId \in {ALL_USER, App[s.key].user}
      BY <2>1 DEF Entitled, UserMatched
    <3>2. VerifyPublisherPermission(task.p, s.permission)
      BY <2>1 DEF Entitled
    <3>3. DeclaredFor(s.key, task.p)
      BY <1>2, <3>2 DEF Declared, DeclaredFor
    <3>4. task.p.event \in App[s.key].allowed
      BY <1>2 DEF Declared
    <3> QED  BY <3>1, <3>3, <3>4 DEF MayStart
  <2>2. \A k \in Key : Chosen(k)' => MayStart(task.p, k)
    BY <1>2, <2>1 DEF StaticInv, StartOK
  <2> QED  BY <1>1, <1>2, <2>2 DEF StaticInv, StartOK
<1>7. RemovedIsForgotten'
  BY <1>1, <1>2 DEF StaticInv, RemovedIsForgotten
<1> QED  BY <1>1, <1>3, <1>4, <1>5, <1>6, <1>7, AckedStays, RequestStays DEF StaticInv

\* The extension is started, and the loop goes on.
LEMMA ConnectKeeps ==
  ASSUME StaticInv, Connect
  PROVE  StaticInv'
<1>1. /\ task.at = "connect"
      /\ task' = [at |-> "serve", p |-> task.p, boot |-> {}, todo |-> task.todo]
      /\ UNCHANGED <<installed, notices, staticSubscribers, validSubscribers, disableEvents, hasInit,
                     store, updated, request, acked, delayed, missed, tasks, requests, faults>>
  BY DEF Connect
<1>2. task.p \in Publication /\ task.todo \subseteq validSubscribers
  BY <1>1, StoreTyped DEF StaticInv, TaskShape
<1>3. /\ task'.at = "serve" /\ task'.p = task.p /\ task'.todo = task.todo /\ task'.boot = {}
      /\ task' \in Task(validSubscribers')
  BY <1>1, <1>2 DEF Task
<1>4. TypeOK'
  BY <1>1, <1>3 DEF StaticInv, TypeOK
<1>5. AllowListOK' /\ ValidOK' /\ RemovedIsForgotten'
  BY <1>1, <1>3 DEF StaticInv, AllowListOK, ValidOK, RemovedIsForgotten
<1>6. StartOK'
  BY <1>1, <1>3, StartNone DEF StaticInv
<1> QED  BY <1>1, <1>4, <1>5, <1>6, AckedStays, RequestStays DEF StaticInv

\* The boot tasks.
BootTask == [p : Publication, keys : SUBSET Key]

\* A boot task that is submitted comes last.
LEMMA DelayedAppend ==
  ASSUME NEW d \in Seq(BootTask), NEW b \in BootTask
  PROVE  /\ Append(d, b) \in Seq(BootTask)
         /\ \A i \in DOMAIN Append(d, b) :
              Append(d, b)[i] = b \/ (i \in DOMAIN d /\ Append(d, b)[i] = d[i])
<1>1. /\ Append(d, b) \in Seq(BootTask) /\ Len(Append(d, b)) = Len(d) + 1
      /\ Append(d, b)[Len(d) + 1] = b
      /\ \A i \in 1..Len(d) : Append(d, b)[i] = d[i]
  OBVIOUS
<1>2. Len(d) \in Nat /\ DOMAIN d = 1..Len(d) /\ DOMAIN Append(d, b) = 1..(Len(d) + 1)
  BY <1>1
<1>3. \A i \in 1..(Len(d) + 1) : i = Len(d) + 1 \/ i \in 1..Len(d)
  BY <1>2
<1> QED  BY <1>1, <1>2, <1>3

\* The loop ends; the starts put aside are left to a task of their own.
LEMMA EndKeeps ==
  ASSUME StaticInv, EndPublish
  PROVE  StaticInv'
<1>1. /\ task.at = "serve" /\ task' = NoTask
      /\ delayed' = IF task.boot = {} THEN delayed
                    ELSE Append(delayed, [p |-> task.p, keys |-> task.boot])
      /\ UNCHANGED <<installed, notices, staticSubscribers, validSubscribers, disableEvents, hasInit,
                     store, updated, request, acked, missed, tasks, requests, faults>>
  BY DEF EndPublish
<1>2. task'.at = "idle" /\ task' \in Task(validSubscribers')
  BY <1>1 DEF NoTask, Task
<1> DEFINE b == [p |-> task.p, keys |-> task.boot]
<1>3. b \in BootTask /\ delayed \in Seq(BootTask)
  BY <1>1, StoreTyped DEF StaticInv, TypeOK, TaskShape, BootTask
<1>4. /\ delayed' \in Seq(BootTask)
      /\ \A i \in DOMAIN delayed' : delayed'[i] = b \/ (i \in DOMAIN delayed /\ delayed'[i] = delayed[i])
  <2>1. delayed' = delayed \/ delayed' = Append(delayed, b)
    BY <1>1
  <2> HIDE DEF b
  <2> QED  BY <1>3, <2>1, DelayedAppend
<1>5. TypeOK'
  BY <1>1, <1>2, <1>4 DEF StaticInv, TypeOK, BootTask
<1>6. AllowListOK'
  BY <1>1, <1>2 DEF StaticInv, AllowListOK
<1>7. ValidOK' /\ RemovedIsForgotten'
  BY <1>1, <1>2 DEF StaticInv, ValidOK, RemovedIsForgotten
<1>8. StartOK'
  <2>1. \A k : ~Chosen(k)'
    BY <1>2 DEF Chosen
  <2>2. ASSUME NEW i \in DOMAIN delayed', NEW k \in delayed'[i].keys
        PROVE  MayStart(delayed'[i].p, k)
    <3>1. CASE delayed'[i] = b
      <4>1. delayed'[i].p = task.p /\ k \in task.boot /\ k \in Key
        BY <1>3, <3>1 DEF BootTask
      <4>2. Chosen(k)
        BY <1>1, <4>1 DEF Chosen
      <4> QED  BY <4>1, <4>2 DEF StaticInv, StartOK
    <3>2. CASE i \in DOMAIN delayed /\ delayed'[i] = delayed[i]
      BY <3>2 DEF StaticInv, StartOK
    <3> QED  BY <1>4, <3>1, <3>2
  <2> QED  BY <2>1, <2>2 DEF StartOK
<1> QED  BY <1>1, <1>5, <1>6, <1>7, <1>8, AckedStays, RequestStays DEF StaticInv

\* One delayed start: the boot tasks only lose.
LEMMA DelayedKeeps ==
  ASSUME StaticInv, NEW k \in Key, DelayedConnect(k)
  PROVE  StaticInv'
<1>1. /\ delayed # <<>>
      /\ delayed' = IF Head(delayed).keys = {k} THEN Tail(delayed)
                    ELSE [delayed EXCEPT ![1].keys = @ \ {k}]
      /\ UNCHANGED <<installed, notices, staticSubscribers, validSubscribers, disableEvents, hasInit,
                     store, updated, task, request, acked, missed, tasks, requests, faults>>
  BY DEF DelayedConnect
<1>2. delayed \in Seq(BootTask) /\ Len(delayed) \in Nat \ {0} /\ DOMAIN delayed = 1..Len(delayed)
  BY <1>1 DEF StaticInv, TypeOK, BootTask
<1>3. /\ delayed' \in Seq(BootTask)
      /\ \A i \in DOMAIN delayed' : \E j \in DOMAIN delayed :
           delayed'[i].p = delayed[j].p /\ delayed'[i].keys \subseteq delayed[j].keys
  <2>1. CASE delayed' = Tail(delayed)
    <3>1. /\ Tail(delayed) \in Seq(BootTask) /\ Len(Tail(delayed)) = Len(delayed) - 1
          /\ \A i \in 1..(Len(delayed) - 1) : Tail(delayed)[i] = delayed[i + 1]
      BY <1>2
    <3>2. \A i \in 1..(Len(delayed) - 1) : i + 1 \in DOMAIN delayed
      BY <1>2
    <3>3. DOMAIN Tail(delayed) = 1..(Len(delayed) - 1)
      BY <3>1
    <3> QED  BY <2>1, <3>1, <3>2, <3>3
  <2>2. CASE delayed' = [delayed EXCEPT ![1].keys = @ \ {k}]
    <3> DEFINE b == [delayed[1] EXCEPT !.keys = @ \ {k}]
    <3>1. delayed[1] \in BootTask /\ 1 \in DOMAIN delayed
      BY <1>2
    <3>2. b \in BootTask /\ b.p = delayed[1].p /\ b.keys \subseteq delayed[1].keys
      BY <3>1 DEF BootTask
    <3>3. delayed' = [delayed EXCEPT ![1] = b]
      BY <2>2
    <3> HIDE DEF b
    <3>4. /\ DOMAIN delayed' = DOMAIN delayed /\ delayed'[1] = b
          /\ \A i \in DOMAIN delayed : i # 1 => delayed'[i] = delayed[i]
      BY <3>1, <3>3
    <3>5. delayed' \in Seq(BootTask)
      BY <1>2, <3>2, <3>3
    <3> QED  BY <3>1, <3>2, <3>4, <3>5
  <2> QED  BY <1>1, <2>1, <2>2
<1>4. TypeOK'
  BY <1>1, <1>3 DEF StaticInv, TypeOK, BootTask
<1>5. StartOK'
  <2>1. \A x \in Key : Chosen(x)' => Chosen(x)
    BY <1>1 DEF Chosen
  <2> QED  BY <1>1, <1>3, <2>1 DEF StaticInv, StartOK
<1> QED  BY <1>1, <1>4, <1>5, AllowListStays, ValidStays, AckedStays, RequestStays, RemovedStays
         DEF StaticInv

(***************************************************************************)
(* Requests, and the death of the service                                  *)
(***************************************************************************)

\* A request changes the memory of its own bundle only, and forgets what was
\* acknowledged of the events it switches on.
LEMMA RequestKeeps ==
  ASSUME StaticInv, NEW k \in Key, NEW bag \in Bag, NEW enable \in BOOLEAN,
         UpdateDisableEvents(k, bag, enable)
  PROVE  StaticInv'
<1>1. /\ requests < MaxRequests /\ requests' = requests + 1
      /\ disableEvents' = ChangedEvents(k, bag, enable)
      /\ request' = [at |-> "save", key |-> k, events |-> InBag(bag), enable |-> enable]
      /\ acked' = IF enable THEN {a \in acked : a[1] # k \/ a[2] \notin InBag(bag)} ELSE acked
      /\ UNCHANGED <<installed, notices, staticSubscribers, validSubscribers, hasInit, task, delayed,
                     missed, tasks, store, updated, faults>>
  BY DEF UpdateDisableEvents, queueVars
<1>2. RequestDone(k, bag, enable)
  BY StoreTyped, ChangedIs DEF StaticInv, StoreTypeOK
<1>3. /\ MemoryOK(disableEvents')
      /\ \A x : x # k => Off(disableEvents', x) = Off(disableEvents, x)
      /\ ~enable => Off(disableEvents, k) \cup InBag(bag) \subseteq Off(disableEvents', k)
      /\ enable => Off(disableEvents, k) \ InBag(bag) \subseteq Off(disableEvents', k)
  BY <1>1, <1>2 DEF RequestDone
<1>4. /\ \A x : x # k => Disabled(x)' = Disabled(x)
      /\ ~enable => Disabled(k) \cup InBag(bag) \subseteq Disabled(k)'
      /\ enable => Disabled(k) \ InBag(bag) \subseteq Disabled(k)'
  BY <1>3, DisabledIs
<1>5. TypeOK'
  <2>1. requests' \in 0..MaxRequests
    BY <1>1, StaticSubscribersAssumption DEF StaticInv, TypeOK
  <2>2. request' \in Request
    BY <1>1 DEF Request, InBag
  <2>3. acked' \subseteq acked
    BY <1>1
  <2> QED  BY <1>1, <1>3, <2>1, <2>2, <2>3 DEF StaticInv, TypeOK, MemoryOK, Bag
<1>6. AckedOK'
  <2>1. acked' \subseteq acked /\ \A a \in acked' : enable => a[1] # k \/ a[2] \notin InBag(bag)
    BY <1>1
  <2>2. ASSUME NEW a \in acked'
        PROVE  a[2] \in Disabled(a[1])'
    <3>1. a[2] \in Disabled(a[1])
      BY <2>1 DEF StaticInv, AckedOK
    <3>2. CASE a[1] # k
      BY <1>4, <3>1, <3>2
    <3>3. CASE a[1] = k
      <4>1. a[2] \in Disabled(k)
        BY <3>1, <3>3
      <4>2. a[2] \in Disabled(k)'
        BY <1>4, <2>1, <3>3, <4>1
      <4>3. Disabled(a[1])' = Disabled(k)'
        BY <3>3 DEF Disabled
      <4> QED  BY <4>2, <4>3
    <3> QED  BY <3>2, <3>3
  <2>3. AckedIsStored'
    BY <1>1, <2>1 DEF StaticInv, AckedOK, AckedIsStored
  <2>4. acked' # {} => updated'
    BY <1>1, <2>1 DEF StaticInv, AckedOK
  <2> QED  BY <2>2, <2>3, <2>4 DEF AckedOK
<1>7. RequestOK'
  <2>1. request'.key = k /\ request'.events = InBag(bag) /\ request'.enable = enable
    BY <1>1
  <2>2. ~enable => InBag(bag) \subseteq Disabled(k)'
    BY <1>4
  <2>3. Disabled(request.key)' = Disabled(k)'
    BY <2>1 DEF Disabled
  <2> QED  BY <2>1, <2>2, <2>3 DEF RequestOK
<1> QED  BY <1>1, <1>5, <1>6, <1>7, AllowListStays, ValidStays, StartStays, RemovedStays DEF StaticInv

\* A store that has the memory has what is off.
LEMMA MemoryIsStored ==
  ASSUME NEW f, NEW m, HasMemory(f, m), NEW k, NEW e \in Off(m, k)
  PROVE  <<"user", k>> \in DOMAIN f /\ e \in InBag(f[<<"user", k>>].events)
<1>1. k \in DOMAIN m /\ e \in InBag(m[k])
  BY DEF Off
<1>2. <<"user", k>> \in DOMAIN f /\ f[<<"user", k>>].events = m[k]
  BY <1>1 DEF HasMemory
<1> QED  BY <1>1, <1>2

\* Saving: with ERR_OK everything in memory is stored; with an error what was
\* acknowledged stays so only if the store is as it was.
LEMMA SaveKeeps ==
  ASSUME StaticInv, Save
  PROVE  StaticInv'
<1>1. /\ request.at = "save" /\ request' = NoRequest
      /\ UNCHANGED <<installed, notices, staticSubscribers, validSubscribers, hasInit, task, delayed,
                     missed, tasks, disableEvents, requests>>
  BY DEF Save, queueVars
<1>2. StoreTypeOK /\ MemoryOK(disableEvents)
  BY StoreTyped DEF StaticInv, StoreTypeOK
<1>3. request \in Request
  BY <1>1 DEF StaticInv, TypeOK, NoRequest
<1>4. \A k : Disabled(k)' = Disabled(k)
  BY <1>1 DEF Disabled
<1>5. /\ updated' \in BOOLEAN /\ StoreOK(store') /\ faults' \in 0..MaxFaults
      /\ acked' \subseteq Key \X Event /\ AckedOK'
  <2>1. CASE /\ UpdateStaticSubscriberState(disableEvents, TRUE)
             /\ acked' = IF request.enable THEN acked
                         ELSE acked \cup ({request.key} \X request.events)
    <3> DEFINE mem == disableEvents
    <3>1. UpdateStaticSubscriberState(mem, TRUE) /\ MemoryOK(mem)
      BY <1>2, <2>1
    <3> HIDE DEF mem
    <3>2. /\ updated' \in BOOLEAN /\ StoreOK(store') /\ faults' \in 0..MaxFaults
          /\ updated' /\ HasMemory(store', mem)
      BY <1>2, <3>1, UpdateIs
    <3>3. HasMemory(store', disableEvents)
      BY <3>2 DEF mem
    <3>4. request.key \in Key /\ request.events \subseteq Event /\ request.enable \in BOOLEAN
      BY <1>3 DEF Request
    <3>5. acked' \subseteq Key \X Event
      BY <2>1, <3>4 DEF StaticInv, TypeOK
    <3>6. ASSUME NEW a \in acked'
          PROVE  a[2] \in Disabled(a[1])
      <4>1. CASE a \in acked
        BY <4>1 DEF StaticInv, AckedOK
      <4>2. CASE a \notin acked
        <5>1. ~request.enable /\ a \in {request.key} \X request.events
          BY <2>1, <4>2
        <5>2. a[1] = request.key /\ a[2] \in request.events
          BY <5>1
        <5>3. request.events \subseteq Disabled(request.key)
          BY <1>1, <5>1 DEF StaticInv, RequestOK
        <5> QED  BY <5>2, <5>3
      <4> QED  BY <4>1, <4>2
    <3>7. \A a \in acked' : a[2] \in Disabled(a[1])'
      BY <1>4, <3>6
    <3>8. AckedIsStored'
      <4> SUFFICES ASSUME NEW a \in acked'
                   PROVE  <<"user", a[1]>> \in DOMAIN store'
                          /\ a[2] \in InBag(store'[<<"user", a[1]>>].events)
        BY DEF AckedIsStored
      <4>1. a[2] \in Off(disableEvents, a[1])
        BY <3>6, DisabledIs
      <4> QED  BY <3>3, <4>1, MemoryIsStored
    <3> QED  BY <3>2, <3>5, <3>7, <3>8 DEF AckedOK
  <2>2. CASE /\ UpdateStaticSubscriberState(disableEvents, FALSE)
             /\ acked' = IF store' = Migrated(DOMAIN store) THEN acked ELSE {}
    <3> DEFINE mem == disableEvents
    <3>1. UpdateStaticSubscriberState(mem, FALSE) /\ MemoryOK(mem)
      BY <1>2, <2>2
    <3> HIDE DEF mem
    <3>2. /\ updated' \in BOOLEAN /\ StoreOK(store') /\ faults' \in 0..MaxFaults
          /\ updated => updated'
      BY <1>2, <3>1, UpdateIs
    <3>3. updated => Migrated(DOMAIN store) = store
      BY <1>2, MigratedIs DEF StoreTypeOK
    <3>4. acked' # {} => acked' = acked /\ updated /\ store' = store
      BY <2>2, <3>3 DEF StaticInv, AckedOK
    <3>5. acked' \subseteq Key \X Event
      BY <2>2 DEF StaticInv, TypeOK
    <3>6. AckedOK'
      BY <1>4, <3>2, <3>4 DEF StaticInv, AckedOK, AckedIsStored
    <3> QED  BY <3>2, <3>5, <3>6
  <2> QED  BY <2>1, <2>2 DEF Save
<1>6. TypeOK'
  BY <1>1, <1>5 DEF StaticInv, TypeOK, StoreOK
<1>7. RequestOK'
  BY <1>1 DEF RequestOK, NoRequest
<1> QED  BY <1>1, <1>5, <1>6, <1>7, AllowListStays, ValidStays, StartStays, RemovedStays DEF StaticInv

\* The service dies: what it leaves in the store is well formed, and memory
\* and acknowledgements start afresh.
LEMMA CrashKeeps ==
  ASSUME StaticInv, Crash
  PROVE  StaticInv'
<1>1. /\ faults < MaxFaults /\ faults' = faults + 1 /\ store' \in LeftBehind
      /\ updated' = (updated \/ (store' # store /\ request.at = "save"))
      /\ staticSubscribers' = [k \in Key |-> NoEvents]
      /\ validSubscribers' = {} /\ disableEvents' = <<>> /\ hasInit' = FALSE
      /\ task' = NoTask /\ request' = NoRequest /\ acked' = {} /\ delayed' = <<>> /\ missed' = {}
      /\ UNCHANGED <<installed, notices, tasks, requests>>
  BY DEF Crash, Fails
<1>2. StoreTypeOK
  BY StoreTyped DEF StaticInv
<1>3. StoreOK(store')
  <2>1. \A q \in QueryResults : q.read \in SUBSET DOMAIN store /\ StoreOK(Migrated(q.read))
    BY <1>2, QueryIs, MigratedIs DEF StoreTypeOK
  <2>2. CASE store' = store
    BY <1>2, <2>2 DEF StoreTypeOK
  <2>3. CASE \E q \in QueryResults : store' \in MigratedPartly(q.read)
    <3>1. PICK q \in QueryResults : store' \in {store, Without(store, q.read), Migrated(q.read)}
      BY <2>3 DEF MigratedPartly
    <3> QED  BY <1>2, <2>1, <3>1, WithoutOK DEF StoreTypeOK
  <2>4. CASE \E q \in QueryResults : store' \in SavedPartly(Migrated(q.read), q, disableEvents)
    BY <1>2, <2>1, <2>4, SavedPartlyOK DEF StoreTypeOK
  <2>5. CASE \E q \in QueryResults : store' \in SavedPartly(store, q, LegacyEvents)
    <3>1. \A k \in Key : staticSubscribers[k] \in Bag
      BY DEF StaticInv, TypeOK, Bag
    <3>2. MemoryOK(LegacyEvents)
      BY <3>1 DEF LegacyEvents, MemoryOK
    <3> QED  BY <1>2, <2>5, <3>2, SavedPartlyOK DEF StoreTypeOK
  <2> QED  BY <1>1, <2>2, <2>3, <2>4, <2>5 DEF LeftBehind
<1>4. DOMAIN disableEvents' = {} /\ task'.at = "idle" /\ request'.at = "none"
  BY <1>1 DEF NoTask, NoRequest
<1>5. \A k \in Key, e \in Event : staticSubscribers'[k][e] = 0
  BY <1>1 DEF NoEvents
<1>6. TypeOK'
  <2>1. staticSubscribers' \in [Key -> [Event -> 0..MaxTasks]]
    BY <1>1, StaticSubscribersAssumption DEF NoEvents
  <2>2. updated' \in BOOLEAN
    BY <1>1, <1>2 DEF StoreTypeOK
  <2>3. task' \in Task(validSubscribers')
    BY <1>1 DEF Task
  <2>4. faults' \in 0..MaxFaults
    BY <1>1, <1>2, StaticSubscribersAssumption DEF StoreTypeOK
  <2>5. delayed' \in Seq([p : Publication, keys : SUBSET Key])
    BY <1>1
  <2> QED  BY <1>1, <1>3, <1>4, <2>1, <2>2, <2>3, <2>4, <2>5 DEF StaticInv, TypeOK, StoreOK
<1>7. AllowListOK'
  <2>1. tasks' \in Nat
    BY <1>1 DEF StaticInv, TypeOK
  <2> QED  BY <1>4, <1>5, <2>1 DEF AllowListOK
<1>8. ValidOK' /\ StartOK' /\ AckedOK' /\ RequestOK' /\ RemovedIsForgotten'
  BY <1>1, <1>4 DEF ValidOK, StartOK, Chosen, AckedOK, AckedIsStored, RequestOK, RemovedIsForgotten
<1> QED  BY <1>6, <1>7, <1>8 DEF StaticInv

(***************************************************************************)
(* The theorems                                                            *)
(***************************************************************************)

\* The two requests name bags of events.
LEMMA RequestsKeep ==
  ASSUME StaticInv, NEW k \in Key, NEW enable \in BOOLEAN,
         \/ \E events \in SUBSET Event : SetStaticSubscriberStateByEvents(k, events, enable)
         \/ SetStaticSubscriberState(k, enable)
  PROVE  StaticInv'
<1>1. ASSUME NEW events \in SUBSET Event, SetStaticSubscriberStateByEvents(k, events, enable)
      PROVE  StaticInv'
  <2> DEFINE bag == [e \in Event |-> IF e \in events THEN 1 ELSE 0]
  <2>1. bag \in Bag
    BY DEF Bag
  <2>2. UpdateDisableEvents(k, bag, enable)
    BY <1>1 DEF SetStaticSubscriberStateByEvents
  <2> HIDE DEF bag
  <2> QED  BY <2>1, <2>2, RequestKeeps
<1>2. ASSUME SetStaticSubscriberState(k, enable)
      PROVE  StaticInv'
  <2>1. PICK bag : bag = staticSubscribers[k]
    OBVIOUS
  <2>2. bag \in Bag
    BY <2>1 DEF Bag, StaticInv, TypeOK
  <2>3. UpdateDisableEvents(k, bag, enable)
    BY <1>2, <2>1 DEF SetStaticSubscriberState
  <2> QED  BY <2>2, <2>3, RequestKeeps
<1> QED  BY <1>1, <1>2

\* Every step keeps the invariant.
LEMMA StepKeeps == StaticInv /\ [Next]_vars => StaticInv'
<1> SUFFICES ASSUME StaticInv, [Next]_vars  PROVE StaticInv'
  OBVIOUS
<1>1. ASSUME NEW k \in Key, BundleManager(k)  PROVE StaticInv'
  BY <1>1, BundleManagerKeeps
<1>2. ASSUME NEW p \in Publication, PublishCommonEvent(p)  PROVE StaticInv'
  BY <1>2, PublishKeeps
<1>3. ASSUME InitAllowList \/ QueryIntoMemory \/ QueryExtensionInfos \/ ConvertLegacy
             \/ UpdateSubscriber \/ Connect \/ EndPublish
      PROVE  StaticInv'
  BY <1>3, AllowKeeps, QueryKeeps, ExtensionsKeep, LegacyKeeps, UpdateKeeps, ConnectKeeps, EndKeeps
<1>4. ASSUME NEW s \in task.todo, Check(s)  PROVE StaticInv'
  BY <1>4, CheckKeeps
<1>5. ASSUME NEW k \in Key, NEW enable \in BOOLEAN,
             \/ \E events \in SUBSET Event : SetStaticSubscriberStateByEvents(k, events, enable)
             \/ SetStaticSubscriberState(k, enable)
      PROVE  StaticInv'
  BY <1>5, RequestsKeep
<1>6. CASE Save
  BY <1>6, SaveKeeps
<1>7. CASE Crash
  BY <1>7, CrashKeeps
<1>8. CASE UNCHANGED vars
  <2>1. TypeOK'
    BY <1>8 DEF StaticInv, TypeOK, vars
  <2> QED  BY <1>8, <2>1, AllowListStays, ValidStays, StartStays, AckedStays, RequestStays, RemovedStays
           DEF StaticInv, vars
<1>9. ASSUME NEW k \in Key, DelayedConnect(k)  PROVE StaticInv'
  BY <1>9, DelayedKeeps
<1> QED  BY <1>1, <1>2, <1>3, <1>4, <1>5, <1>6, <1>7, <1>8, <1>9 DEF Next

\* The inductive invariant: the allow list, the valid subscribers, the memory
\* and the store fit each other in every reachable state.
THEOREM StaticInvariance == Spec => []StaticInv
BY InitHolds, StepKeeps, PTL DEF Spec

\* Types: in particular neither the migration of an earlier version's store nor
\* a crash in the middle of a write leaves anything but bags of events and
\* legacy values under the keys of known bundles.
THEOREM StaticTypeCorrect == Spec => []TypeOK
<1>1. StaticInv => TypeOK
  BY DEF StaticInv
<1> QED  BY <1>1, StaticInvariance, PTL

\* What SetStaticSubscriberState acknowledged with ERR_OK is in the store.
THEOREM AckedIsStoredHolds == Spec => []AckedIsStored
<1>1. StaticInv => AckedIsStored
  BY DEF StaticInv, AckedOK
<1> QED  BY <1>1, StaticInvariance, PTL

\* A bundle whose removal was handled is no valid subscriber any more, except
\* after a removal whose account look-ups failed, until the next initialisation
\* or package event of that bundle.
THEOREM RemovedIsForgottenHolds == Spec => []RemovedIsForgotten
<1>1. StaticInv => RemovedIsForgotten
  BY DEF StaticInv
<1> QED  BY <1>1, StaticInvariance, PTL

\* What is to be started is chosen by the task or left to a boot task.
LEMMA StartIsEntitled == StartOK => StartedIsEntitled
<1> SUFFICES ASSUME StartOK, NEW x \in ToStart
             PROVE  MayStart(x.p, x.key)
  BY DEF StartedIsEntitled, MayStart
<1>1. CASE \E k \in Key : Chosen(k) /\ x = [p |-> task.p, key |-> k]
  BY <1>1 DEF StartOK
<1>2. CASE \E i \in DOMAIN delayed : \E k \in delayed[i].keys : x = [p |-> delayed[i].p, key |-> k]
  BY <1>2 DEF StartOK
<1> QED  BY <1>1, <1>2 DEF ToStart

\* Who is started, at once or after the delay of a boot, is allowed the event,
\* has declared it, requires no permission that the publisher lacks, and is of
\* the account the event is for.
THEOREM StartedIsEntitledHolds == Spec => []StartedIsEntitled
<1>1. StaticInv => StartedIsEntitled
  BY StartIsEntitled DEF StaticInv
<1> QED  BY <1>1, StaticInvariance, PTL

\* Only the loop over the subscribers chooses one, and it passes over what is
\* off.
LEMMA StepIsSilent ==
  ASSUME StaticInv, [Next]_vars, NEW k \in Key, Chosen(k)', ~Chosen(k)
  PROVE  <<k, task.p.event>> \notin acked
<1>1. CASE task.at = "serve" /\ \E s \in task.todo : Check(s)
  <2>1. PICK s \in task.todo : Check(s)
    BY <1>1
  <2>2. k = s.key /\ s.event \notin Disabled(s.key) /\ s.event = task.p.event
    BY <2>1, CheckIs
  <2> QED  BY <2>2 DEF StaticInv, AckedOK
<1>2. CASE ~(task.at = "serve" /\ \E s \in task.todo : Check(s))
  <2>1. Chosen(k)' => Chosen(k)
    <3>1. ASSUME task' = task  PROVE Chosen(k)' => Chosen(k)
      BY <3>1 DEF Chosen
    <3>2. ASSUME task'.at \notin {"serve", "connect"} \/ (task'.at = "serve" /\ task'.boot = {})
          PROVE  ~Chosen(k)'
      BY <3>2 DEF Chosen
    <3>3. ASSUME NEW x \in Key, NEW enable \in BOOLEAN,
                 \/ \E events \in SUBSET Event : SetStaticSubscriberStateByEvents(x, events, enable)
                 \/ SetStaticSubscriberState(x, enable)
          PROVE  task' = task
      BY <3>3 DEF SetStaticSubscriberStateByEvents, SetStaticSubscriberState, UpdateDisableEvents,
                  queueVars
    <3>4. ASSUME NEW x \in Key, BundleManager(x) \/ DelayedConnect(x)  PROVE task' = task
      BY <3>4 DEF BundleManager, DelayedConnect
    <3>5. ASSUME NEW p \in Publication, PublishCommonEvent(p)
          PROVE  task'.at \notin {"serve", "connect"}
      BY <3>5 DEF PublishCommonEvent, NoTask
    <3>6. ASSUME InitAllowList  PROVE task'.at \notin {"serve", "connect"}
      <4>1. task.at = "allow" /\ task = [at |-> "allow", p |-> task.p, todo |-> task.todo]
        BY <3>6, StoreTyped DEF InitAllowList, StaticInv, TaskShape
      <4>2. \/ task' = [at |-> "query", p |-> task.p]
            \/ \E S : task' = [task EXCEPT !.todo = S]
        BY <3>6 DEF InitAllowList
      <4>3. \A S : [task EXCEPT !.todo = S] = [at |-> "allow", p |-> task.p, todo |-> S]
        BY <4>1
      <4>4. \/ task' = [at |-> "query", p |-> task.p]
            \/ \E S : task' = [at |-> "allow", p |-> task.p, todo |-> S]
        BY <4>2, <4>3
      <4> QED  BY <4>4
    <3>7. ASSUME QueryExtensionInfos  PROVE task'.at \notin {"serve", "connect"}
      <4>1. /\ task.at = "extensions"
            /\ task = [at |-> "extensions", p |-> task.p, legacy |-> task.legacy]
        BY <3>7, StoreTyped DEF QueryExtensionInfos, StaticInv, TaskShape
      <4>2. \/ task' = NoTask \/ task' = [at |-> "update", p |-> task.p]
            \/ task' = [task EXCEPT !.at = "legacy"]
        BY <3>7, Zenon DEF QueryExtensionInfos
      <4>3. [task EXCEPT !.at = "legacy"] = [at |-> "legacy", p |-> task.p, legacy |-> task.legacy]
        BY <4>1
      <4>4. \/ task' = NoTask \/ task' = [at |-> "update", p |-> task.p]
            \/ task' = [at |-> "legacy", p |-> task.p, legacy |-> task.legacy]
        BY <4>2, <4>3, Zenon
      <4> QED  BY <4>4 DEF NoTask
    <3>8. ASSUME ConvertLegacy \/ EndPublish \/ Crash
          PROVE  task'.at \notin {"serve", "connect"}
      <4>1. task' = NoTask \/ task' = [at |-> "update", p |-> task.p]
        BY <3>8, Zenon DEF ConvertLegacy, EndPublish, Crash
      <4> QED  BY <4>1 DEF NoTask
    <3>9. ASSUME UpdateSubscriber \/ Connect
          PROVE  task'.at = "serve" /\ task'.boot = {}
      BY <3>9 DEF UpdateSubscriber, Connect
    <3>10. ASSUME Save \/ UNCHANGED vars  PROVE task' = task
      BY <3>10 DEF Save, queueVars, vars
    <3>11. ASSUME QueryIntoMemory  PROVE task'.at \notin {"serve", "connect"}
      <4>1. \E L : task' = [at |-> "extensions", p |-> task.p, legacy |-> L]
        BY <3>11, Zenon DEF QueryIntoMemory
      <4> QED  BY <4>1
    <3> QED  BY <1>2, <3>1, <3>2, <3>3, <3>4, <3>5, <3>6, <3>7, <3>8, <3>9, <3>10, <3>11 DEF Next
  <2> QED  BY <2>1
<1> QED  BY <1>1, <1>2

\* An event that a bundle has switched off with ERR_OK does not get it chosen
\* any more, even in a publication that began before the request.
THEOREM DisabledIsSilentHolds == Spec => DisabledIsSilent
<1>1. StaticInv /\ [Next]_vars
        => [\A k \in Key : Chosen(k)' /\ ~Chosen(k) => <<k, task.p.event>> \notin acked]_vars
  BY StepIsSilent
<1> QED  BY <1>1, StaticInvariance, PTL DEF Spec, DisabledIsSilent

=============================================================================
