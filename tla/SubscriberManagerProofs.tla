----------------------- MODULE SubscriberManagerProofs -----------------------
(***************************************************************************)
(* Proofs about SubscriberManager, for any listeners, processes, events,   *)
(* limit and number of records: IndInv is inductive, and with it the       *)
(* tables agree with each other whatever the service queue and the binder  *)
(* thread do between the locked sections of the other.                     *)
(***************************************************************************)
EXTENDS SubscriberManager, TLAPS, FiniteSetTheorems

\* The parts of the invariant that are about the tables alone.
TablesAgree == OneRecordPerListener /\ IndexComplete /\ OrphansAreDead /\ CountsMatch

\* Any set of subscribers is finite.
LEMMA FiniteSubscribers ==
    ASSUME NEW S, S \subseteq Record PROVE IsFiniteSet(S)
<1>1. IsFiniteSet(1..MaxRecords)
  BY BoundAssumption, FS_Interval
<1> QED
  BY <1>1, FS_Subset DEF Record

\* The service starts with empty tables.
LEMMA InitIndInv == Init => IndInv
<1> SUFFICES ASSUME Init PROVE IndInv
  OBVIOUS
<1> USE BoundAssumption, ListenerAssumption DEF Init, Record
<1>1. TypeOK
  <2>1. /\ commonEventListener \in [Record -> Listener \cup {None}]
        /\ events \in [Record -> SUBSET Event]
        /\ eventSubscribers \in [Event -> SUBSET Record]
        /\ hasCompacted \in BOOLEAN
    BY Zenon
  <2>2. subscriberCounts \in [Process -> Int] /\ created \in 0..MaxRecords
    OBVIOUS
  <2> QED
    BY <2>1, <2>2 DEF TypeOK
<1>2. CreatedOnly /\ LookupHolds /\ WatchIsKept /\ LiveAreWatched
  BY DEF CreatedOnly, LookupHolds, WatchIsKept, LiveAreWatched
<1>3. OneRecordPerListener /\ IndexComplete /\ OrphansAreDead
  BY DEF OneRecordPerListener, IndexComplete, OrphansAreDead
<1>4. CountsMatch
  <2>1. \A p \in Process : Owned(p) = {}
    BY DEF Owned
  <2> QED
    BY <2>1, FS_EmptySet DEF CountsMatch
<1> QED
  BY <1>1, <1>2, <1>3, <1>4 DEF IndInv

(***************************************************************************)
(* The two changes of the tables that several actions make                 *)
(***************************************************************************)

\* InsertSubscriberRecordLocked: the listener has no record yet, so the new
\* one is its only one; it is in the index and in the count of its process.
LEMMA InsertedRecord ==
    ASSUME IndInv, spc = "insert", created < MaxRecords,
           InsertSubscriberRecordLocked, ServiceDone,
           alive' \subseteq alive, UNCHANGED <<deathRecipient, obituary, dying>>
    PROVE  IndInv'
<1> DEFINE n == created + 1
<1> USE BoundAssumption, ListenerAssumption, ProcessAssumption, NoneAssumption
    DEF IndInv, InsertSubscriberRecordLocked, ServiceDone
<1>1. /\ n \in Record /\ n \notin subscribers /\ caller \in Listener
      /\ \A ev \in Event : n \notin eventSubscribers[ev]
  BY DEF TypeOK, CreatedOnly, Record
<1>2. TypeOK'
  BY <1>1 DEF TypeOK, Record
<1>3. /\ commonEventListener'[n] = caller /\ events'[n] = wanted
      /\ \A r \in Record : r # n => /\ commonEventListener'[r] = commonEventListener[r]
                                    /\ events'[r] = events[r]
  BY <1>1 DEF TypeOK
<1>4. CreatedOnly' /\ LookupHolds'
  BY <1>1, <1>3 DEF TypeOK, CreatedOnly, LookupHolds, Record
<1>5. OneRecordPerListener'
  BY <1>1, <1>3 DEF OneRecordPerListener, LookupHolds, RecordsOf, TypeOK
<1>6. IndexComplete'
  BY <1>1, <1>3 DEF IndexComplete, TypeOK
<1>7. OrphansAreDead'
  BY <1>1, <1>3 DEF OrphansAreDead, TypeOK
<1>8. CountsMatch'
  <2> SUFFICES ASSUME NEW p \in Process
               PROVE  subscriberCounts'[p] = Cardinality(Owned(p)')
    BY DEF CountsMatch
  <2>1. /\ Owned(p)' = IF p = Pid[caller] THEN Owned(p) \cup {n} ELSE Owned(p)
        /\ n \notin Owned(p)
    BY <1>1, <1>3 DEF Owned, TypeOK
  <2>2. Cardinality(Owned(p) \cup {n}) = Cardinality(Owned(p)) + 1
    BY <2>1, FS_AddElement, FiniteSubscribers DEF Owned, TypeOK
  <2>3. Pid[caller] \in Process
    BY <1>1
  <2> QED
    BY <2>1, <2>2, <2>3 DEF CountsMatch, TypeOK
<1>9. WatchIsKept' /\ LiveAreWatched'
  BY <1>1, <1>3 DEF WatchIsKept, LiveAreWatched, TypeOK
<1> QED
  BY <1>2, <1>4, <1>5, <1>6, <1>7, <1>8, <1>9

\* RemoveSubscriberRecordLocked: the record of the listener, if there is one,
\* leaves subscribers_, the index and the count of its process.
LEMMA RemovedRecord ==
    ASSUME IndInv, NEW l \in Listener, RemoveSubscriberRecordLocked(l), obituary' = obituary
    PROVE  /\ TablesAgree'
           /\ subscribers' = {r \in subscribers : commonEventListener[r] # l}
           /\ subscribers' \in SUBSET Record
           /\ eventSubscribers' \in [Event -> SUBSET Record]
           /\ \A ev \in Event : eventSubscribers'[ev] \subseteq eventSubscribers[ev]
           /\ subscriberCounts' \in [Process -> Int]
<1> USE BoundAssumption, ListenerAssumption, ProcessAssumption, NoneAssumption
    DEF IndInv, RemoveSubscriberRecordLocked, recordVars
<1>1. subscribers' = {r \in subscribers : commonEventListener[r] # l}
  BY DEF SubscribersRemoved, RecordsOf
<1>2. /\ eventSubscribers' \in [Event -> SUBSET Record]
      /\ \A ev \in Event : eventSubscribers'[ev] = IndexRemoved(l, ev)
  BY DEF TypeOK, IndexRemoved
<1>3. \A ev \in Event : IndexRemoved(l, ev) \subseteq eventSubscribers[ev]
  BY DEF IndexRemoved
<1>4. OneRecordPerListener'
  BY <1>1 DEF OneRecordPerListener, TypeOK
<1>5. IndexComplete'
  BY <1>1, <1>2 DEF IndexComplete, TypeOK, IndexRemoved
<1>6. OrphansAreDead'
  BY <1>1, <1>2 DEF OrphansAreDead, IndexComplete, TypeOK, IndexRemoved, RecordsOf
<1>7. CountsMatch' /\ subscriberCounts' \in [Process -> Int]
  <2>1. CASE RecordsOf(l) = {}
    <3>1. subscribers' = subscribers
      BY <2>1, <1>1 DEF RecordsOf
    <3>2. Cardinality(RecordsOf(l)) = 0
      BY <2>1, FS_EmptySet
    <3>3. subscriberCounts' = subscriberCounts
      BY <3>2 DEF CountRemoved, TypeOK
    <3> QED
      BY <3>1, <3>3 DEF CountsMatch, Owned, TypeOK
  <2>2. CASE RecordsOf(l) # {}
    <3>1. PICK r \in subscribers : commonEventListener[r] = l
      BY <2>2 DEF RecordsOf
    <3>2. RecordsOf(l) = {r}
      BY <3>1 DEF RecordsOf, OneRecordPerListener
    <3>3. Cardinality(RecordsOf(l)) = 1
      BY <3>2, FS_Singleton
    <3>4. \A p \in Process : Owned(p)' = IF p = Pid[l] THEN Owned(p) \ {r} ELSE Owned(p)
      BY <1>1, <3>1, <3>2 DEF Owned, RecordsOf, TypeOK
    <3>5. Cardinality(Owned(Pid[l]) \ {r}) = Cardinality(Owned(Pid[l])) - 1
      BY <3>1, FS_RemoveElement, FiniteSubscribers DEF Owned, TypeOK
    <3>6. /\ Pid[l] \in Process
          /\ subscriberCounts' = [subscriberCounts EXCEPT ![Pid[l]] = @ - 1]
      BY <3>3 DEF CountRemoved
    <3>7. subscriberCounts' \in [Process -> Int]
      BY <3>6 DEF TypeOK
    <3>8. ASSUME NEW p \in Process PROVE subscriberCounts'[p] = Cardinality(Owned(p)')
      <4>1. CASE p = Pid[l]
        BY <4>1, <3>4, <3>5, <3>6 DEF CountsMatch, TypeOK
      <4>2. CASE p # Pid[l]
        BY <4>2, <3>4, <3>6 DEF CountsMatch, TypeOK
      <4> QED
        BY <4>1, <4>2
    <3> QED
      BY <3>7, <3>8 DEF CountsMatch
  <2> QED
    BY <2>1, <2>2
<1> QED
  BY <1>1, <1>2, <1>3, <1>4, <1>5, <1>6, <1>7 DEF TablesAgree, TypeOK

(***************************************************************************)
(* Every action preserves the invariant                                    *)
(***************************************************************************)

\* The tables stay in agreement when they and the obituaries do not change.
LEMMA TablesUnchanged ==
    ASSUME IndInv, UNCHANGED <<recordVars, tableVars>>, obituary \subseteq obituary'
    PROVE  TablesAgree'
<1> USE DEF IndInv, recordVars, tableVars
<1>1. OneRecordPerListener' /\ IndexComplete' /\ OrphansAreDead'
  BY DEF OneRecordPerListener, IndexComplete, OrphansAreDead
<1>2. CountsMatch'
  BY DEF CountsMatch, Owned
<1> QED
  BY <1>1, <1>2 DEF TablesAgree

\* The lookup sends a listener to its record or to the insertion.
LEMMA InsertSubscriberStep ==
    ASSUME IndInv, NEW l \in Listener, NEW evs \in SUBSET Event, InsertSubscriber(l, evs)
    PROVE  IndInv'
<1> USE ListenerAssumption, NoneAssumption
    DEF IndInv, InsertSubscriber, recordVars, tableVars, binderVars
<1>1. TablesAgree'
  BY TablesUnchanged
<1>2. CASE RecordsOf(l) = {}
  <2>1. record' = None /\ spc' = "watch"
    BY <1>2 DEF AfterLookup
  <2> QED
    BY <1>1, <1>2, <2>1 DEF TablesAgree, TypeOK, CreatedOnly, LookupHolds, WatchIsKept,
       LiveAreWatched, RecordsOf
<1>3. CASE RecordsOf(l) # {}
  <2>1. record' \in RecordsOf(l)
    BY <1>3
  <2>2. record' # None /\ spc' = "update"
    BY <2>1 DEF AfterLookup, RecordsOf, TypeOK
  <2> QED
    BY <1>1, <2>1, <2>2 DEF TablesAgree, TypeOK, CreatedOnly, LookupHolds, WatchIsKept,
       LiveAreWatched, RecordsOf
<1> QED
  BY <1>2, <1>3

\* A live listener has had no obituary, so it gets its death recipient.
LEMMA AddDeathRecipientStep ==
    ASSUME IndInv, AddDeathRecipient PROVE IndInv'
<1> USE DEF IndInv, AddDeathRecipient, Watched, recordVars, tableVars
<1>1. TablesAgree'
  BY TablesUnchanged
<1> QED
  BY <1>1, ListenerAssumption DEF TablesAgree, TypeOK, CreatedOnly, LookupHolds, WatchIsKept,
     LiveAreWatched, RecordsOf

\* A subscriber turned away at the limit leaves no trace in the tables.
LEMMA RejectRecordStep ==
    ASSUME IndInv, RejectRecord PROVE IndInv'
<1> USE DEF IndInv, RejectRecord, ServiceDone, recordVars, tableVars, binderVars
<1>1. TablesAgree'
  BY TablesUnchanged
<1> QED
  BY <1>1, ListenerAssumption DEF TablesAgree, TypeOK, CreatedOnly, LookupHolds, WatchIsKept,
     LiveAreWatched, RecordsOf

\* An update moves its record to the new events; a record that was removed in
\* the meantime belongs to a dead listener.
LEMMA UpdateStep ==
    ASSUME IndInv, UpdateSubscriberRecordLocked PROVE IndInv'
<1> USE ListenerAssumption, NoneAssumption
    DEF IndInv, UpdateSubscriberRecordLocked, ServiceDone, binderVars
<1>1. record \in Record /\ caller \in Listener
  BY DEF TypeOK, CreatedOnly, Record
<1>2. /\ eventSubscribers' \in [Event -> SUBSET Record]
      /\ \A ev \in Event : eventSubscribers'[ev] = UpdateEvent(ev)
  BY <1>1 DEF UpdateEvent, TypeOK
<1>3. /\ events' \in [Record -> SUBSET Event] /\ events'[record] = wanted
      /\ \A r \in Record : r # record => events'[r] = events[r]
  BY <1>1 DEF TypeOK
<1>4. TypeOK'
  BY <1>2, <1>3 DEF TypeOK
<1>5. CreatedOnly'
  BY <1>2 DEF CreatedOnly, UpdateEvent, TypeOK
<1>6. LookupHolds' /\ WatchIsKept' /\ LiveAreWatched' /\ OneRecordPerListener'
  BY DEF LookupHolds, WatchIsKept, LiveAreWatched, OneRecordPerListener
<1>7. IndexComplete'
  BY <1>1, <1>2, <1>3 DEF IndexComplete, UpdateEvent, TypeOK
<1>8. OrphansAreDead'
  BY <1>1, <1>2 DEF OrphansAreDead, UpdateEvent, LookupHolds, TypeOK
<1>9. CountsMatch'
  BY DEF CountsMatch, Owned
<1> QED
  BY <1>4, <1>5, <1>6, <1>7, <1>8, <1>9

\* The recipient is withdrawn; until the removal the listener is the caller.
LEMMA UnsubscribeStep ==
    ASSUME IndInv, NEW l \in Listener, UnsubscribeCommonEvent(l) PROVE IndInv'
<1> USE DEF IndInv, UnsubscribeCommonEvent, recordVars, tableVars
<1>1. TablesAgree'
  BY TablesUnchanged
<1> QED
  BY <1>1, ListenerAssumption DEF TablesAgree, TypeOK, CreatedOnly, LookupHolds, WatchIsKept,
     LiveAreWatched, RecordsOf

\* The removal by the service.
LEMMA RemoveSubscriberStep ==
    ASSUME IndInv, RemoveSubscriber PROVE IndInv'
<1> USE ListenerAssumption DEF IndInv, RemoveSubscriber, ServiceDone, binderVars
<1>1. caller \in Listener
  BY DEF TypeOK
<1>2. /\ TablesAgree'
      /\ subscribers' = {r \in subscribers : commonEventListener[r] # caller}
      /\ subscribers' \in SUBSET Record
      /\ eventSubscribers' \in [Event -> SUBSET Record]
      /\ \A ev \in Event : eventSubscribers'[ev] \subseteq eventSubscribers[ev]
      /\ subscriberCounts' \in [Process -> Int]
  BY <1>1, RemovedRecord
<1>3. UNCHANGED <<recordVars, hasCompacted>>
  BY DEF RemoveSubscriberRecordLocked
<1>4. TypeOK' /\ CreatedOnly'
  BY <1>2, <1>3 DEF TypeOK, CreatedOnly, recordVars
<1>5. LookupHolds' /\ WatchIsKept' /\ LiveAreWatched'
  BY <1>2, <1>3 DEF LookupHolds, WatchIsKept, LiveAreWatched, recordVars
<1> QED
  BY <1>2, <1>4, <1>5 DEF TablesAgree

\* The removal by the binder thread, at any point of a task of the service.
LEMMA OnRemoteDiedStep ==
    ASSUME IndInv, NEW l \in Listener, OnRemoteDied(l) PROVE IndInv'
<1> USE DEF IndInv, OnRemoteDied, serviceVars
<1>1. l \in obituary
  BY DEF TypeOK
<1>2. /\ TablesAgree'
      /\ subscribers' = {r \in subscribers : commonEventListener[r] # l}
      /\ subscribers' \in SUBSET Record
      /\ eventSubscribers' \in [Event -> SUBSET Record]
      /\ \A ev \in Event : eventSubscribers'[ev] \subseteq eventSubscribers[ev]
      /\ subscriberCounts' \in [Process -> Int]
  BY RemovedRecord
<1>3. UNCHANGED <<recordVars, hasCompacted>>
  BY DEF RemoveSubscriberRecordLocked
<1>4. TypeOK' /\ CreatedOnly'
  BY <1>2, <1>3 DEF TypeOK, CreatedOnly, recordVars
<1>5. LookupHolds' /\ WatchIsKept' /\ LiveAreWatched'
  BY <1>1, <1>2, <1>3 DEF LookupHolds, WatchIsKept, LiveAreWatched, recordVars, RecordsOf
<1> QED
  BY <1>2, <1>4, <1>5 DEF TablesAgree

\* The compaction rebuilds the index and the counts from subscribers_.
LEMMA CompactStep ==
    ASSUME IndInv, CompactSubscriberDataStructures PROVE IndInv'
<1> USE BoundAssumption
    DEF IndInv, CompactSubscriberDataStructures, recordVars, serviceVars, binderVars
<1>1. TypeOK'
  <2>1. \A p \in Process : Cardinality(Owned(p)) \in Int
    BY FS_CardinalityType, FiniteSubscribers DEF Owned, TypeOK
  <2>2. subscriberCounts' \in [Process -> Int]
    BY <2>1 DEF Owned
  <2> QED
    BY <2>2 DEF TypeOK
<1>2. CreatedOnly' /\ LookupHolds' /\ WatchIsKept' /\ LiveAreWatched'
  BY DEF CreatedOnly, LookupHolds, WatchIsKept, LiveAreWatched, RecordsOf
<1>3. OneRecordPerListener' /\ IndexComplete' /\ OrphansAreDead'
  BY DEF OneRecordPerListener, IndexComplete, OrphansAreDead
<1>4. CountsMatch'
  BY DEF CountsMatch, Owned
<1> QED
  BY <1>1, <1>2, <1>3, <1>4

\* Processes die, and binder reports it.
LEMMA EnvironmentStep ==
    ASSUME IndInv,
           (\E p \in Process : Die(p)) \/ (\E l \in Listener : SendObituary(l))
    PROVE  IndInv'
<1> USE DEF IndInv
<1>1. CASE \E p \in Process : Die(p)
  <2>1. TablesAgree'
    BY <1>1, TablesUnchanged DEF Die
  <2> QED
    BY <1>1, <2>1 DEF Die, recordVars, tableVars, serviceVars, TablesAgree, TypeOK, CreatedOnly,
       LookupHolds, WatchIsKept, LiveAreWatched, RecordsOf
<1>2. CASE \E l \in Listener : SendObituary(l)
  <2>1. TablesAgree'
    BY <1>2, TablesUnchanged DEF SendObituary
  <2> QED
    BY <1>2, <2>1 DEF SendObituary, recordVars, tableVars, serviceVars, TablesAgree, TypeOK,
       CreatedOnly, LookupHolds, WatchIsKept, LiveAreWatched, RecordsOf
<1> QED
  BY <1>1, <1>2

\* Every step of the specification preserves the invariant.
LEMMA IndInvStep == IndInv /\ [Next]_vars => IndInv'
<1> SUFFICES ASSUME IndInv, [Next]_vars PROVE IndInv'
  OBVIOUS
<1>1. CASE ServiceRequest
  BY <1>1, InsertSubscriberStep, UnsubscribeStep, CompactStep DEF ServiceRequest
<1>2. CASE ServiceStep
  <2>1. CASE InsertRecord
    BY <2>1, InsertedRecord DEF InsertRecord, binderVars
  <2>2. CASE \E killedPid \in Process, killResult \in BOOLEAN : InsertAndKill(killedPid, killResult)
    <3>1. PICK killedPid \in Process, killResult \in BOOLEAN : InsertAndKill(killedPid, killResult)
      BY <2>2
    <3>2. alive' \subseteq alive
      BY <3>1 DEF InsertAndKill
    <3> QED
      BY <3>1, <3>2, InsertedRecord DEF InsertAndKill
  <2> QED
    BY <1>2, <2>1, <2>2, AddDeathRecipientStep, RejectRecordStep, UpdateStep, RemoveSubscriberStep
       DEF ServiceStep
<1>3. CASE BinderStep
  BY <1>3, OnRemoteDiedStep, EnvironmentStep DEF BinderStep
<1>4. CASE \E p \in Process : Die(p)
  BY <1>4, EnvironmentStep
<1>5. CASE UNCHANGED vars
  <2> USE <1>5 DEF IndInv, vars, recordVars, tableVars, serviceVars, binderVars
  <2>1. TablesAgree'
    BY TablesUnchanged
  <2> QED
    BY <2>1 DEF TablesAgree, TypeOK, CreatedOnly, LookupHolds, WatchIsKept, LiveAreWatched, RecordsOf
<1> QED
  BY <1>1, <1>2, <1>3, <1>4, <1>5 DEF Next

(***************************************************************************)
(* The theorems                                                            *)
(***************************************************************************)

\* The tables are always in a state of the inductive invariant.
THEOREM Invariance == Spec => []IndInv
BY InitIndInv, IndInvStep, PTL DEF Spec

\* Every variable has its type.
THEOREM TypeCorrect == Spec => []TypeOK
<1>1. IndInv => TypeOK
  BY DEF IndInv
<1> QED
  BY <1>1, Invariance, PTL

\* A listener never has two records in subscribers_, although InsertSubscriber
\* releases mutex_ between its lookup and its insertion.
THEOREM OneRecordHolds == Spec => []OneRecordPerListener
<1>1. IndInv => OneRecordPerListener
  BY DEF IndInv
<1> QED
  BY <1>1, Invariance, PTL

\* The index eventSubscribers_ has every record under exactly its events.
THEOREM IndexCompleteHolds == Spec => []IndexComplete
<1>1. IndInv => IndexComplete
  BY DEF IndInv
<1> QED
  BY <1>1, Invariance, PTL

\* An index entry without a subscriber is that of a dead listener, left by an
\* update that OnRemoteDied has overtaken.
THEOREM OrphansAreDeadHolds == Spec => []OrphansAreDead
<1>1. IndInv => OrphansAreDead
  BY DEF IndInv
<1> QED
  BY <1>1, Invariance, PTL

\* subscriberCounts_, from which the process to kill is chosen, is exact.
THEOREM CountsMatchHolds == Spec => []CountsMatch
<1>1. IndInv => CountsMatch
  BY DEF IndInv
<1> QED
  BY <1>1, Invariance, PTL

\* A subscriber of a live process has a death recipient.
THEOREM LiveAreWatchedHolds == Spec => []LiveAreWatched
<1>1. IndInv => LiveAreWatched
  BY DEF IndInv
<1> QED
  BY <1>1, Invariance, PTL

\* What a step may do to the processes: only InsertAndKill ends a task of the
\* service and a process, and it picks one with the most records.
LEMMA KillStep ==
    ASSUME IndInv, [Next]_vars, spc = "insert", spc' = "idle", NEW p \in alive \ alive'
    PROVE  /\ Owned(p) # {}
           /\ \A q \in Process : Cardinality(Owned(q)) <= Cardinality(Owned(p))
<1> USE BoundAssumption, ProcessAssumption DEF IndInv
<1>1. PICK killedPid \in Process, killResult \in BOOLEAN : InsertAndKill(killedPid, killResult)
  BY DEF Next, ServiceRequest, ServiceStep, BinderStep, InsertSubscriber, UnsubscribeCommonEvent,
     CompactSubscriberDataStructures, AddDeathRecipient, InsertRecord, RejectRecord,
     UpdateSubscriberRecordLocked, RemoveSubscriber, SendObituary, OnRemoteDied, Die, vars,
     binderVars, serviceVars
<1>2. p = killedPid
  BY <1>1 DEF InsertAndKill
<1>3. \A q \in Process : subscriberCounts[q] <= subscriberCounts[p]
  BY <1>1, <1>2 DEF InsertAndKill, TopSubscriberCounts
<1>4. \A q \in Process : Cardinality(Owned(q)) <= Cardinality(Owned(p))
  BY <1>1, <1>2, <1>3 DEF CountsMatch
<1>5. Owned(p) # {}
  <2>1. PICK r \in subscribers : TRUE
    <3>1. Cardinality(subscribers) = MaxSubscriberNum
      BY <1>1 DEF InsertAndKill
    <3> QED
      BY <3>1, FS_EmptySet
  <2> DEFINE q == Pid[commonEventListener[r]]
  <2>2. q \in Process /\ r \in Owned(q)
    BY <2>1 DEF CreatedOnly, Owned
  <2>3. \A S : S \subseteq Record => IsFiniteSet(S) /\ Cardinality(S) \in Nat
    BY FiniteSubscribers, FS_CardinalityType
  <2>4. Owned(p) \subseteq Record /\ Owned(q) \subseteq Record
    BY DEF Owned, TypeOK
  <2>5. Cardinality(Owned(q)) # 0
    BY <2>2, <2>3, <2>4, FS_EmptySet
  <2>6. Cardinality(Owned(p)) # 0
    BY <1>4, <2>2, <2>3, <2>4, <2>5
  <2> QED
    BY <2>6, FS_EmptySet
<1> QED
  BY <1>4, <1>5

\* The process that is killed at the limit is one with the most subscribers.
THEOREM KillsLargestHolds == Spec => KillsLargest
<1>1. IndInv /\ [Next]_vars =>
        [spc = "insert" => \A p \in alive \ alive' :
            spc' = "idle" =>
                /\ Owned(p) # {}
                /\ \A q \in Process : Cardinality(Owned(q)) <= Cardinality(Owned(p))]_vars
  BY KillStep
<1> QED
  BY <1>1, Invariance, PTL DEF Spec, KillsLargest

=============================================================================
