------------------------ MODULE BrokerBindingProofs ------------------------
(***************************************************************************)
(* Theorems about BrokerBinding, for every value of its constants: types,  *)
(* freedom from panics, tracking, kept classes, and what Ready means.      *)
(*                                                                         *)
(* The inductive invariant is Inv: TypeOK with PastFilter and MeshKnown.   *)
(* Behind all of it is OwnersKept: within one life of the process an entry *)
(* of the caches, once there, keeps its owner.                             *)
(***************************************************************************)
EXTENDS BrokerBindingTypeProofs

---------------------------------------------------------------------------
(* What the code relies on                                                  *)

\* The environment touches nothing inside the process but what its watches
\* have yet to deliver.
LEMMA EnvironmentFrame ==
    ASSUME Environment
    PROVE  UNCHANGED <<copies, events, caches, tracker, queue, job, panicked, restarts>>
BY DEF Environment, CreateBroker, ReadyBroker, DeleteBroker, CreateTrigger, ReadyTrigger,
       DeleteTrigger, CreateKMesh, DeleteKMesh, CreateBinding, UpdateBinding, DeleteBinding,
       BrokerChanged, Changed, work

\* An owner is for the life of the process: no step but a restart takes a
\* class or a broker from the binding that has it (brokerbinding.go 166-172).
LEMMA OwnersKept ==
    ASSUME TypeOK, PastFilter, [Next]_vars, ~Restart
    PROVE  /\ \A c \in Class : trackedBrokers[c].owner # None =>
                 trackedBrokers'[c].owner = trackedBrokers[c].owner
           /\ \A k \in Broker : trackedTriggers[k].owner # None =>
                 trackedTriggers'[k].owner = trackedTriggers[k].owner
<1> DEFINE Kept == /\ \A c \in Class : trackedBrokers[c].owner # None =>
                         trackedBrokers'[c].owner = trackedBrokers[c].owner
                   /\ \A k \in Broker : trackedTriggers[k].owner # None =>
                         trackedTriggers'[k].owner = trackedTriggers[k].owner
<1>1. CASE UNCHANGED caches
  BY <1>1 DEF caches
<1>2. CASE HandleBroker
  <2>1. \A c \in Class : trackedBrokers[c] \in BrokerEntry
    BY DEF TypeOK, CacheType
  <2>2. trackedTriggers' = trackedTriggers
    BY <1>2 DEF HandleBroker
  <2>3. QED
    BY <1>2, <2>1, <2>2 DEF HandleBroker, TypeOK, CacheType, BrokerEntry
<1>3. CASE HandleTrigger
  <2>1. \A k \in Broker : trackedTriggers[k] \in TriggerEntry
    BY DEF TypeOK, CacheType
  <2>2. trackedBrokers' = trackedBrokers
    BY <1>3 DEF HandleTrigger
  <2>3. QED
    BY <1>3, <2>1, <2>2 DEF HandleTrigger, TypeOK, CacheType, TriggerEntry
<1>4. ASSUME NEW b \in Binding, ReconcileIngresses(b) PROVE Kept
  BY <1>4 DEF ReconcileIngresses, Reconciled
<1>5. ASSUME NEW b \in Binding, CacheClasses(b) PROVE Kept
  BY <1>5 DEF CacheClasses
<1>6. CASE UNCHANGED vars
  BY <1>6 DEF vars, process, caches
<1>7. CASE Environment
  BY <1>7, <1>1, EnvironmentFrame
<1>8. CASE Informers
  BY <1>8, <1>1, <1>2, <1>3 DEF Informers, SyncBroker, SyncTrigger, SyncKMesh, SyncBinding,
     InitKMesh, Changed, FilterBroker, FilterTrigger, DuckEvent
<1>9. CASE Resync
  BY <1>9, <1>1 DEF Resync
<1>10. ASSUME NEW b \in Binding, Start(b) \/ Work(b) PROVE Kept
  BY <1>10, <1>1, <1>4, <1>5 DEF Work, Start, GetKMesh, ReadClasses, Patch, UpdateStatus
<1>11. QED
  BY <1>6, <1>7, <1>8, <1>9, <1>10 DEF Next

\* An event past the filter finds its entry: owners are never taken away, and
\* a restart forgets the event with the entry.
LEMMA NextPastFilter == TypeOK /\ PastFilter /\ [Next]_vars => PastFilter'
<1> SUFFICES ASSUME TypeOK, PastFilter, [Next]_vars PROVE PastFilter'
  OBVIOUS
<1>1. CASE Restart
  BY <1>1 DEF Restart, PastFilter
<1>2. CASE FilterBroker
  BY <1>2 DEF FilterBroker, PastFilter, caches
<1>3. CASE FilterTrigger
  BY <1>3 DEF FilterTrigger, PastFilter, caches
<1>4. CASE ~Restart /\ brokerEvent' \in {brokerEvent, None} /\ triggerEvent' \in {triggerEvent, None}
  <2>1. brokerEvent # None => brokerEvent.class \in Class
    BY DEF PastFilter, TypeOK, EventType, Opt, BrokerEvent
  <2>2. triggerEvent # None => triggerEvent.broker \in Broker
    BY DEF TypeOK, EventType, Opt, TriggerEvent
  <2>3. QED
    BY <1>4, <2>1, <2>2, OwnersKept DEF PastFilter
<1>5. CASE UNCHANGED events
  <2>1. CASE Restart
    BY <2>1, <1>1
  <2>2. CASE ~Restart
    BY <2>2, <1>4, <1>5 DEF events
  <2>3. QED
    BY <2>1, <2>2
<1>6. CASE Environment
  BY <1>6, <1>5, EnvironmentFrame
<1>7. CASE Informers
  <2>1. CASE HandleBroker \/ HandleTrigger
    <3>1. ~Restart
      BY <2>1, BoundsAssumption DEF HandleBroker, HandleTrigger, Restart, TypeOK, CountType
    <3>2. QED
      BY <2>1, <3>1, <1>4 DEF HandleBroker, HandleTrigger
  <2>2. CASE \E k \in Broker : SyncBroker(k)
    BY <2>2, <1>1, <1>4 DEF SyncBroker
  <2>3. CASE \E t \in Trigger : SyncTrigger(t)
    BY <2>3, <1>1, <1>4 DEF SyncTrigger
  <2>4. QED
    BY <1>7, <1>2, <1>3, <1>5, <2>1, <2>2, <2>3
       DEF Informers, SyncKMesh, SyncBinding, InitKMesh, Changed, DuckEvent
<1>8. CASE Resync
  BY <1>8, <1>1, <1>4 DEF Resync
<1>9. ASSUME NEW b \in Binding, Start(b) \/ Work(b) PROVE PastFilter'
  BY <1>9, <1>5 DEF Start, Work, Step, GetKMesh, CacheClasses, ReconcileIngresses, ReadClasses,
                    Patch, UpdateStatus
<1>10. CASE UNCHANGED vars
  BY <1>10, <1>5 DEF vars, process
<1>11. QED
  BY <1>1, <1>6, <1>7, <1>8, <1>9, <1>10 DEF Next

\* Jobs change in three ways: not at all, by a step of their worker, or by a
\* restart.
LEMMA JobFrame ==
    ASSUME [Next]_vars
    PROVE  \/ job' = job
           \/ \E b \in Binding : Start(b) \/ Work(b)
           \/ Restart
<1>1. CASE Environment
  BY <1>1, EnvironmentFrame
<1>2. CASE Informers
  BY <1>2 DEF Informers, SyncBroker, SyncTrigger, SyncKMesh, SyncBinding, InitKMesh, Changed,
              FilterBroker, FilterTrigger, HandleBroker, HandleTrigger, DuckEvent, work
<1>3. CASE Resync
  BY <1>3 DEF Resync
<1>4. CASE UNCHANGED vars
  BY <1>4 DEF vars, process, work
<1>5. QED
  BY <1>1, <1>2, <1>3, <1>4 DEF Next

\* Only GetKMesh lets a worker on, and only with a mesh.
LEMMA NextMeshKnown == TypeOK /\ MeshKnown /\ [Next]_vars => MeshKnown'
<1> SUFFICES ASSUME TypeOK, MeshKnown, [Next]_vars PROVE MeshKnown'
  OBVIOUS
<1>1. CASE job' = job
  BY <1>1 DEF MeshKnown
<1>2. CASE Restart
  BY <1>2 DEF Restart, MeshKnown, Idle
<1>3. ASSUME NEW b \in Binding, Start(b) \/ Work(b) PROVE MeshKnown'
  <2>1. ASSUME NEW j, Step(b, j), j.pc \notin {"idle", "getKMesh"} => j.spec.kmesh # None
        PROVE  MeshKnown'
    BY <2>1 DEF Step, MeshKnown, TypeOK, WorkType
  <2>2. CASE Start(b)
    BY <2>1, <2>2 DEF Start, Idle
  <2>3. CASE GetKMesh(b)
    BY <2>1, <2>3 DEF GetKMesh
  <2>4. CASE CacheClasses(b)
    BY <2>1, <2>4 DEF CacheClasses, MeshKnown
  <2>5. CASE ReconcileIngresses(b)
    BY <2>1, <2>5 DEF ReconcileIngresses, MeshKnown
  <2>6. CASE ReadClasses(b)
    BY <2>1, <2>6 DEF ReadClasses, MeshKnown
  <2>7. CASE Patch(b)
    BY <2>1, <2>7 DEF Patch, MeshKnown
  <2>8. CASE UpdateStatus(b)
    BY <2>1, <2>8 DEF UpdateStatus, Idle
  <2>9. QED
    BY <1>3, <2>2, <2>3, <2>4, <2>5, <2>6, <2>7, <2>8 DEF Work
<1>4. QED
  BY <1>1, <1>2, <1>3, JobFrame

---------------------------------------------------------------------------
(* Theorems: types and panics                                               *)

Inv == TypeOK /\ PastFilter /\ MeshKnown

\* The inductive invariant.
LEMMA InvInvariant == Spec => []Inv
<1>1. Init => Inv
  BY InitType DEF Init, Inv, PastFilter, MeshKnown, Idle
<1>2. Inv /\ [Next]_vars => Inv'
  BY NextType, NextPastFilter, NextMeshKnown DEF Inv
<1>3. QED
  BY <1>1, <1>2, PTL DEF Spec

\* Every variable keeps its type: in particular no handler follows an entry
\* with a nil owner into the queue or the tracker (controller.go 101-103).
THEOREM TypeCorrect == Spec => []TypeOK
<1>1. Inv => TypeOK
  BY DEF Inv
<1>2. QED
  BY <1>1, InvInvariant, PTL

\* If every BrokerBinding names its KMesh, nothing panics: the write of a
\* handler to a map entry checked earlier, without the lock, always finds the
\* entry (controller.go 101, 128, 151, 170).
THEOREM PanicFree ==
    ASSUME \A s \in Spec0 : s.kmesh # None
    PROVE  Spec => []NoPanic
<1>1. Init => NoPanic
  BY DEF Init, NoPanic
<1>2. Inv /\ NoPanic /\ [Next]_vars => NoPanic'
  <2> SUFFICES ASSUME Inv, NoPanic, [Next]_vars PROVE NoPanic'
    OBVIOUS
  <2>1. CASE HandleBroker
    BY <2>1 DEF HandleBroker, Inv, PastFilter, NoPanic
  <2>2. CASE HandleTrigger
    BY <2>2 DEF HandleTrigger, Inv, PastFilter, NoPanic
  <2>3. ASSUME NEW b \in Binding, GetKMesh(b) PROVE NoPanic'
    <3>1. job[b].spec \in Spec0
      BY <2>3, JobShape DEF GetKMesh, Inv
    <3>2. QED
      BY <2>3, <3>1 DEF GetKMesh, NoPanic
  <2>4. CASE UNCHANGED panicked
    BY <2>4 DEF NoPanic
  <2>5. CASE Restart
    BY <2>5 DEF Restart, NoPanic
  <2>6. CASE Environment
    BY <2>6, <2>4, EnvironmentFrame
  <2>7. CASE Informers
    BY <2>7, <2>1, <2>2, <2>4 DEF Informers, SyncBroker, SyncTrigger, SyncKMesh, SyncBinding,
       InitKMesh, Changed, FilterBroker, FilterTrigger, DuckEvent
  <2>8. CASE Resync
    BY <2>8, <2>4 DEF Resync
  <2>9. ASSUME NEW b \in Binding, Start(b) \/ Work(b) PROVE NoPanic'
    BY <2>9, <2>3, <2>4 DEF Work, Start, CacheClasses, ReconcileIngresses, ReadClasses,
       Patch, UpdateStatus
  <2>10. CASE UNCHANGED vars
    BY <2>10, <2>4 DEF vars, process
  <2>11. QED
    BY <2>5, <2>6, <2>7, <2>8, <2>9, <2>10 DEF Next
<1>3. QED
  BY <1>1, <1>2, InvInvariant, PTL DEF Spec

---------------------------------------------------------------------------
(* Theorems: tracking, classes and what Ready means                         *)

\* A broker in the cache wakes the binding that owns its class.
THEOREM RefsStayTracked == Spec => []RefsTracked
<1>1. Init => RefsTracked
  BY DEF Init, RefsTracked, NoBrokers, NoEntry
<1>2. Inv /\ RefsTracked /\ [Next]_vars => RefsTracked'
  <2> SUFFICES ASSUME Inv, RefsTracked, [Next]_vars PROVE RefsTracked'
    OBVIOUS
  <2> USE DEF Inv
  <2>1. CASE UNCHANGED <<trackedBrokers, tracker>>
    BY <2>1 DEF RefsTracked
  <2>2. CASE HandleBroker
    <3> DEFINE k == brokerEvent.name
               d == brokerEvent.class
    <3>1. d \in Class /\ trackedBrokers[d].owner # None
      BY <2>2 DEF HandleBroker, PastFilter, TypeOK, EventType, Opt, BrokerEvent
    <3>2. /\ tracker' = tracker \cup {<<k, trackedBrokers[d].owner>>}
          /\ trackedBrokers' = [trackedBrokers EXCEPT
                                   ![d].refs = @ \cup {<<k, brokerEvent.uid>>}]
      BY <2>2, <3>1 DEF HandleBroker, Track
    <3>3. ASSUME NEW c \in Class
          PROVE  /\ trackedBrokers'[c].owner = trackedBrokers[c].owner
                 /\ c # d => trackedBrokers'[c].refs = trackedBrokers[c].refs
                 /\ c = d => trackedBrokers'[c].refs =
                                trackedBrokers[c].refs \cup {<<k, brokerEvent.uid>>}
      <4>1. trackedBrokers[c] \in BrokerEntry
        BY DEF TypeOK, CacheType
      <4>2. QED
        BY <3>2, <4>1 DEF TypeOK, CacheType, BrokerEntry
    <3>4. ASSUME NEW c \in Class, NEW ref \in trackedBrokers'[c].refs
          PROVE  <<ref[1], trackedBrokers'[c].owner>> \in tracker'
      <4>1. CASE ref \in trackedBrokers[c].refs
        BY <3>2, <3>3, <4>1 DEF RefsTracked
      <4>2. CASE c = d /\ ref = <<k, brokerEvent.uid>>
        BY <3>2, <3>3, <4>2
      <4>3. QED
        BY <3>3, <3>4, <4>1, <4>2
    <3>5. QED
      BY <3>4 DEF RefsTracked
  <2>3. ASSUME NEW b \in Binding, ReconcileIngresses(b) PROVE RefsTracked'
    <3>1. tracker' = tracker
      BY <2>3 DEF ReconcileIngresses, Step
    <3>2. ASSUME NEW c \in Class, NEW ref \in trackedBrokers'[c].refs
          PROVE  ref \in trackedBrokers[c].refs
      BY <2>3, <3>2 DEF ReconcileIngresses, Reconciled
    <3>3. ASSUME NEW c \in Class, NEW ref \in trackedBrokers[c].refs
          PROVE  trackedBrokers[c].owner # None
      <4>1. <<ref[1], trackedBrokers[c].owner>> \in tracker
        BY DEF RefsTracked
      <4>2. trackedBrokers[c].owner \in Binding
        BY <4>1 DEF TypeOK, WorkType
      <4>3. QED
        BY <4>2, NamesAssumption
    <3>4. ASSUME NEW c \in Class, trackedBrokers[c].owner # None
          PROVE  trackedBrokers'[c].owner = trackedBrokers[c].owner
      BY <2>3, <3>4 DEF ReconcileIngresses, Reconciled
    <3>5. QED
      BY <3>1, <3>2, <3>3, <3>4 DEF RefsTracked
  <2>4. CASE Restart
    BY <2>4 DEF Restart, RefsTracked, NoBrokers, NoEntry
  <2>5. CASE Environment
    BY <2>5, <2>1, EnvironmentFrame DEF caches
  <2>6. CASE Informers
    BY <2>6, <2>1, <2>2 DEF Informers, SyncBroker, SyncTrigger, SyncKMesh, SyncBinding,
       InitKMesh, Changed, FilterBroker, FilterTrigger, HandleTrigger, DuckEvent, caches, work
  <2>7. CASE Resync
    BY <2>7, <2>1 DEF Resync, caches
  <2>8. ASSUME NEW b \in Binding, Start(b) \/ Work(b) PROVE RefsTracked'
    BY <2>8, <2>1, <2>3 DEF Work, Start, Step, GetKMesh, CacheClasses, ReadClasses, Patch,
       UpdateStatus, caches
  <2>9. CASE UNCHANGED vars
    BY <2>9, <2>1 DEF vars, process, caches, work
  <2>10. QED
    BY <2>4, <2>5, <2>6, <2>7, <2>8, <2>9 DEF Next
<1>3. QED
  BY <1>1, <1>2, InvInvariant, PTL DEF Spec

\* Nothing is lost when classes are merged.
LEMMA MergedContains ==
    ASSUME NEW cached \in Seq(Class), NEW classes \in Seq(Class)
    PROVE  ToSet(cached) \cup ToSet(classes) \subseteq ToSet(MergedClasses(cached, classes))
<1>1. ToSet(cached) \cup ToSet(classes) \in SUBSET Class
  BY DEF ToSet
<1>2. cached = <<>> => ToSet(cached) = {}
  BY DEF ToSet
<1>3. QED
  BY <1>1, <1>2, ListOfAssumption DEF MergedClasses

\* The classes cached for a mesh only grow, for the life of the process.
LEMMA CacheGrows ==
    ASSUME TypeOK, MeshKnown, [Next]_vars, ~Restart
    PROVE  \A key \in KMesh \X Uid : ToSet(kmeshCache[key]) \subseteq ToSet(kmeshCache'[key])
<1>1. CASE kmeshCache' = kmeshCache
  BY <1>1
<1>2. ASSUME NEW b \in Binding, CacheClasses(b)
      PROVE  \A key \in KMesh \X Uid : ToSet(kmeshCache[key]) \subseteq ToSet(kmeshCache'[key])
  <2> DEFINE mine == <<job[b].spec.kmesh, job[b].base.uid>>
  <2>1. mine \in KMesh \X Uid
    BY <1>2, JobKey DEF CacheClasses
  <2>2. job[b].spec.classes \in Seq(Class) /\ kmeshCache[mine] \in Seq(Class)
    BY <1>2, <2>1, JobShape, InputsAssumption DEF CacheClasses, BindingSpec, TypeOK, CacheType
  <2>3. kmeshCache' = [kmeshCache EXCEPT ![mine] =
                          MergedClasses(kmeshCache[mine], job[b].spec.classes)]
    BY <1>2 DEF CacheClasses
  <2> HIDE DEF mine
  <2>4. QED
    BY <2>1, <2>2, <2>3, MergedContains DEF TypeOK, CacheType
<1>3. CASE Environment
  BY <1>3, <1>1, EnvironmentFrame DEF caches
<1>4. CASE Informers
  BY <1>4, <1>1 DEF Informers, SyncBroker, SyncTrigger, SyncKMesh, SyncBinding, InitKMesh,
     Changed, FilterBroker, FilterTrigger, HandleBroker, HandleTrigger, DuckEvent, caches
<1>5. CASE Resync
  BY <1>5, <1>1 DEF Resync, caches
<1>6. ASSUME NEW b \in Binding, Start(b) \/ Work(b)
      PROVE  \A key \in KMesh \X Uid : ToSet(kmeshCache[key]) \subseteq ToSet(kmeshCache'[key])
  BY <1>6, <1>1, <1>2 DEF Work, Start, GetKMesh, ReconcileIngresses, ReadClasses, Patch,
     UpdateStatus, caches
<1>7. CASE UNCHANGED vars
  BY <1>7, <1>1 DEF vars, process, caches
<1>8. QED
  BY <1>3, <1>4, <1>5, <1>6, <1>7 DEF Next

\* ClassesKept of one binding.
Kept(b) ==
    LET j == job[b]
    IN  /\ j.pc \in {"ingresses", "classes"} =>
               ToSet(j.spec.classes) \subseteq ToSet(kmeshCache[<<j.spec.kmesh, j.base.uid>>])
        /\ j.pc = "patch" => ToSet(j.spec.classes) \subseteq ToSet(j.after.classes)

\* A worker's own classes: CacheClasses puts them there, and between its two
\* later reads the others only add.
LEMMA NextClassesKept == Inv /\ ClassesKept /\ [Next]_vars => ClassesKept'
<1> SUFFICES ASSUME Inv, ClassesKept, [Next]_vars PROVE ClassesKept'
  OBVIOUS
<1> USE DEF Inv
<1>1. CASE Restart
  BY <1>1 DEF Restart, ClassesKept, Idle
<1>2. ASSUME NEW b \in Binding, ~Restart, job'[b] = job[b] PROVE Kept(b)'
  <2> DEFINE key == <<job[b].spec.kmesh, job[b].base.uid>>
  <2>1. Kept(b)
    BY DEF ClassesKept, Kept
  <2>2. job[b].pc \in {"ingresses", "classes"} =>
           ToSet(kmeshCache[key]) \subseteq ToSet(kmeshCache'[key])
    <3>1. job[b].pc \in {"ingresses", "classes"} => key \in KMesh \X Uid
      BY JobKey
    <3>2. QED
      BY <1>2, <3>1, CacheGrows
  <2>3. QED
    BY <1>2, <2>1, <2>2 DEF Kept
<1>3. ASSUME NEW b \in Binding, Start(b) \/ Work(b), ~Restart PROVE Kept(b)'
  <2> DEFINE key == <<job[b].spec.kmesh, job[b].base.uid>>
  <2>1. ASSUME NEW j, Step(b, j) PROVE job'[b] = j
    BY <2>1 DEF Step, TypeOK, WorkType
  <2>2. Kept(b)
    BY DEF ClassesKept, Kept
  <2>3. CASE Start(b)
    BY <2>1, <2>3 DEF Start, Idle, Kept
  <2>4. CASE GetKMesh(b)
    BY <2>1, <2>4 DEF GetKMesh, Kept
  <2>5. CASE CacheClasses(b)
    <3>1. key \in KMesh \X Uid
      BY <2>5, JobKey DEF CacheClasses
    <3>2. job[b].spec.classes \in Seq(Class) /\ kmeshCache[key] \in Seq(Class)
      BY <2>5, <3>1, JobShape, InputsAssumption DEF CacheClasses, BindingSpec, TypeOK, CacheType
    <3>3. kmeshCache'[key] = MergedClasses(kmeshCache[key], job[b].spec.classes)
      <4> HIDE DEF key
      <4>1. kmeshCache' = [kmeshCache EXCEPT ![key] =
                              MergedClasses(kmeshCache[key], job[b].spec.classes)]
        BY <2>5 DEF CacheClasses, key
      <4>2. QED
        BY <3>1, <4>1 DEF TypeOK, CacheType
    <3>4. /\ job'[b].pc = "ingresses" /\ job'[b].spec = job[b].spec
          /\ job'[b].base = job[b].base
      BY <2>1, <2>5 DEF CacheClasses
    <3>5. ToSet(job[b].spec.classes) \subseteq ToSet(kmeshCache'[key])
      BY <3>2, <3>3, MergedContains
    <3>6. QED
      BY <3>4, <3>5 DEF Kept
  <2>6. CASE ReconcileIngresses(b)
    <3>1. kmeshCache' = kmeshCache
      BY <2>6 DEF ReconcileIngresses
    <3>2. /\ job'[b].pc = "classes" /\ job'[b].spec = job[b].spec
          /\ job'[b].base = job[b].base
      BY <2>1, <2>6 DEF ReconcileIngresses
    <3>3. QED
      BY <2>2, <2>6, <3>1, <3>2 DEF ReconcileIngresses, Kept
  <2>7. CASE ReadClasses(b)
    <3>1. /\ job'[b].pc = "patch" /\ job'[b].spec = job[b].spec
          /\ job'[b].after.classes = kmeshCache[key]
      BY <2>1, <2>7 DEF ReadClasses
    <3>2. QED
      BY <2>2, <2>7, <3>1 DEF ReadClasses, Kept
  <2>8. CASE Patch(b)
    <3>1. \E r : Step(b, [pc |-> "status", spec |-> job[b].spec, seen |-> job[b].seen,
                          ready |-> r])
      BY <2>8 DEF Patch
    <3>2. job'[b].pc = "status"
      BY <2>1, <3>1
    <3>3. QED
      BY <3>2 DEF Kept
  <2>9. CASE UpdateStatus(b)
    BY <2>1, <2>9 DEF UpdateStatus, Idle, Kept
  <2>10. QED
    BY <1>3, <2>3, <2>4, <2>5, <2>6, <2>7, <2>8, <2>9 DEF Work
<1>4. ASSUME NEW b \in Binding, Start(b) \/ Work(b), ~Restart, NEW d \in Binding, d # b
      PROVE  Kept(d)'
  <2>1. \E j : Step(b, j)
    BY <1>4 DEF Work, Start, GetKMesh, CacheClasses, ReconcileIngresses, ReadClasses, Patch,
       UpdateStatus
  <2>2. job'[d] = job[d]
    BY <1>4, <2>1 DEF Step, TypeOK, WorkType
  <2>3. QED
    BY <1>2, <1>4, <2>2
<1>5. ~Restart => \A b \in Binding : Kept(b)'
  BY <1>2, <1>3, <1>4, JobFrame
<1>6. QED
  BY <1>1, <1>5 DEF ClassesKept, Kept

\* The classes a worker has merged are still there when it reads the cache
\* again without the lock, and are in the status it patches.
THEOREM ClassesStayKept == Spec => []ClassesKept
<1>1. Init => ClassesKept
  BY DEF Init, ClassesKept, Idle
<1>2. QED
  BY <1>1, NextClassesKept, InvInvariant, PTL DEF Spec

\* ReadyMeansFollowed along the path of a worker: the classes are followed
\* from the end of reconcileIngresses on.
Followed(classes) == \A c \in ToSet(classes) : trackedBrokers[c].owner # None

PastIngresses(b) ==
    \/ job[b].pc \in {"classes", "patch"}
    \/ job[b].pc = "status" /\ job[b].ready = "Ready"

JobFollowed(b) == PastIngresses(b) => Followed(job[b].spec.classes)

\* A lister is behind only as long as it has something to see, and so is the
\* copy a worker started from, unless its key has been added again.
ListerCurrent(b) == bindings[b] # bindingLister[b] => b \in unseen

JobCurrent(b) ==
    job[b] # Idle =>
        b \in unseen \cup queue \/ bindings[b] = None \/ bindings[b].status = job[b].seen

StatusFollowed(b) ==
    bindings[b] # None /\ bindings[b].status.ready = "Ready" =>
        /\ bindings[b].status.observed \in Spec0
        /\ \/ Followed(bindings[b].status.observed.classes)
           \/ restarts > 0 /\ Waiting(b)

FollowInv ==
    \A b \in Binding :
        JobFollowed(b) /\ ListerCurrent(b) /\ JobCurrent(b) /\ StatusFollowed(b)

\* What is followed stays followed until a restart.
LEMMA FollowedKept ==
    ASSUME Inv, [Next]_vars, ~Restart, NEW s \in Spec0, Followed(s.classes)
    PROVE  Followed(s.classes)'
<1>1. ToSet(s.classes) \subseteq Class
  BY InputsAssumption DEF BindingSpec, ToSet
<1>2. QED
  BY <1>1, OwnersKept DEF Followed, Inv

\* The classes of a worker's spec are followed from the end of
\* reconcileIngresses on.
LEMMA NextJobFollowed ==
    ASSUME Inv, ClassesKept, \A b \in Binding : JobFollowed(b), [Next]_vars, ~Restart
    PROVE  \A b \in Binding : JobFollowed(b)'
<1> USE DEF Inv
<1>1. ~Restart
  OBVIOUS
<1>2. ASSUME NEW b \in Binding PROVE JobFollowed(b)
  OBVIOUS
<1>3. ASSUME NEW b \in Binding, job'[b] = job[b] PROVE JobFollowed(b)'
  <2>1. job[b].pc \in {"classes", "patch", "status"} => job[b].spec \in Spec0
    BY JobShape
  <2>2. QED
    BY <1>1, <1>2, <1>3, <2>1, FollowedKept DEF JobFollowed, PastIngresses
<1>4. ASSUME NEW b \in Binding, Start(b) \/ Work(b) PROVE JobFollowed(b)'
  <2>1. ASSUME NEW j, Step(b, j) PROVE job'[b] = j
    BY <2>1 DEF Step, TypeOK, WorkType
  <2>2. CASE Start(b)
    BY <2>1, <2>2 DEF Start, Idle, JobFollowed, PastIngresses
  <2>3. CASE GetKMesh(b)
    <3> DEFINE m == job[b].spec.kmesh
    <3>1. CASE m = None
      <4>1. job'[b] = job[b]
        BY <2>1, <2>3, <3>1 DEF GetKMesh
      <4>2. QED
        BY <1>3, <4>1
    <3>2. CASE m # None /\ kmeshLister[m] = None
      <4>1. job'[b].pc = "status" /\ job'[b].ready = "NoKMesh"
        BY <2>1, <2>3, <3>2 DEF GetKMesh
      <4>2. QED
        BY <4>1 DEF JobFollowed, PastIngresses
    <3>3. CASE m # None /\ kmeshLister[m] # None
      <4>1. job'[b].pc = "cacheClasses"
        BY <2>1, <2>3, <3>3 DEF GetKMesh
      <4>2. QED
        BY <4>1 DEF JobFollowed, PastIngresses
    <3>4. QED
      BY <3>1, <3>2, <3>3
  <2>4. CASE CacheClasses(b)
    BY <2>1, <2>4 DEF CacheClasses, JobFollowed, PastIngresses
  <2>5. CASE ReconcileIngresses(b)
    <3> DEFINE classes == kmeshCache[<<job[b].spec.kmesh, job[b].base.uid>>]
    <3>1. ToSet(job[b].spec.classes) \subseteq ToSet(classes)
      BY <2>5 DEF ReconcileIngresses, ClassesKept
    <3>2. ToSet(job[b].spec.classes) \subseteq Class
      <4>1. job[b].spec \in BindingSpec
        BY <2>5, JobShape, InputsAssumption DEF ReconcileIngresses
      <4>2. QED
        BY <4>1 DEF BindingSpec, ToSet
    <3>3. ASSUME NEW c \in Class, c \in ToSet(classes) PROVE trackedBrokers'[c].owner # None
      BY <2>5, <3>3, NamesAssumption DEF ReconcileIngresses, Reconciled
    <3>4. job'[b].spec = job[b].spec
      BY <2>1, <2>5 DEF ReconcileIngresses
    <3>5. QED
      BY <3>1, <3>2, <3>3, <3>4 DEF JobFollowed, PastIngresses, Followed
  <2>6. CASE ReadClasses(b)
    <3>1. job'[b].spec = job[b].spec /\ job'[b].pc = "patch" /\ job[b].pc = "classes"
      BY <2>1, <2>6 DEF ReadClasses
    <3>2. job[b].spec \in Spec0
      BY <3>1, JobShape
    <3>3. QED
      BY <1>1, <1>2, <3>1, <3>2, FollowedKept DEF JobFollowed, PastIngresses
  <2>7. CASE Patch(b)
    <3>1. \E r : Step(b, [pc |-> "status", spec |-> job[b].spec, seen |-> job[b].seen,
                          ready |-> r])
      BY <2>7 DEF Patch
    <3>2. job'[b].spec = job[b].spec /\ job'[b].pc = "status"
      BY <2>1, <3>1
    <3>3. job[b].pc = "patch"
      BY <2>7 DEF Patch
    <3>4. job[b].spec \in Spec0 /\ Followed(job[b].spec.classes)
      BY <1>2, <3>3, JobShape DEF JobFollowed, PastIngresses
    <3>5. Followed(job[b].spec.classes)'
      BY <1>1, <3>2, <3>4, FollowedKept DEF Followed
    <3>6. QED
      BY <3>5 DEF JobFollowed, PastIngresses
  <2>8. CASE UpdateStatus(b)
    BY <2>1, <2>8 DEF UpdateStatus, Idle, JobFollowed, PastIngresses
  <2>9. QED
    BY <1>4, <2>2, <2>3, <2>4, <2>5, <2>6, <2>7, <2>8 DEF Work
<1>5. ASSUME NEW b \in Binding PROVE JobFollowed(b)'
  <2>1. CASE job' = job
    BY <1>3, <2>1
  <2>2. ASSUME NEW d \in Binding, Start(d) \/ Work(d), d # b PROVE job'[b] = job[b]
    <3>1. \E j : Step(d, j)
      BY <2>2 DEF Work, Start, GetKMesh, CacheClasses, ReconcileIngresses, ReadClasses, Patch,
         UpdateStatus
    <3>2. QED
      BY <2>2, <3>1 DEF Step, TypeOK, WorkType
  <2>3. QED
    BY <1>1, <1>3, <1>4, <2>1, <2>2, JobFrame
<1>6. QED
  BY <1>5

\* What a step does to one binding: its worker goes on, its informer delivers,
\* nothing, or a change its informer has yet to see.
Untouched(b) ==
    /\ job'[b] = job[b] /\ bindings'[b] = bindings[b] /\ bindingLister'[b] = bindingLister[b]
    /\ b \in queue => b \in queue'
    /\ b \in unseen => b \in unseen'

Rewritten(b) ==
    /\ job'[b] = job[b] /\ bindingLister'[b] = bindingLister[b] /\ b \in unseen'
    /\ \/ bindings'[b] = None
       \/ bindings'[b].status.ready # "Ready"
       \/ bindings[b] # None /\ bindings'[b].status = bindings[b].status

LEMMA BindingFrame ==
    ASSUME Inv, [Next]_vars, ~Restart, NEW b \in Binding
    PROVE  /\ restarts' = restarts
           /\ \/ Start(b) \/ Work(b) \/ SyncBinding(b)
              \/ Untouched(b)
              \/ Rewritten(b)
<1> DEFINE Goal == /\ restarts' = restarts
                   /\ \/ Start(b) \/ Work(b) \/ SyncBinding(b)
                      \/ Untouched(b)
                      \/ Rewritten(b)
<1> USE DEF Inv
<1>1. b \notin Broker /\ b \notin Trigger /\ b \notin KMesh
  BY NamesAssumption
<1>2. CASE Environment
  <2>1. UNCHANGED <<copies, queue, job, restarts>>
    BY <1>2, EnvironmentFrame
  <2>2. UNCHANGED <<bindingLister, queue, job, restarts>>
    BY <2>1 DEF copies
  <2>3. CASE bindings' = bindings /\ \E x : Announce(x)
    BY <2>2, <2>3 DEF Announce, Untouched
  <2>4. ASSUME NEW d \in Binding, NEW s \in Spec0, CreateBinding(d, s) PROVE Goal
    <3>1. b = d => bindings'[b] = NewBinding(s)
      BY <2>4 DEF CreateBinding, TypeOK, ClusterType
    <3>2. b # d => bindings'[b] = bindings[b]
      BY <2>4 DEF CreateBinding, TypeOK, ClusterType
    <3>3. unseen' = unseen \cup {d}
      BY <2>4 DEF CreateBinding, Changed, Announce
    <3>4. QED
      BY <2>2, <3>1, <3>2, <3>3 DEF NewBinding, Untouched, Rewritten
  <2>5. ASSUME NEW d \in Binding, NEW s \in Spec0, UpdateBinding(d, s) PROVE Goal
    <3>1. b = d => bindings[b] # None /\ bindings'[b].status = bindings[b].status
      BY <2>5 DEF UpdateBinding, TypeOK, ClusterType, Opt, BindingObj
    <3>2. b # d => bindings'[b] = bindings[b]
      BY <2>5 DEF UpdateBinding, TypeOK, ClusterType
    <3>3. unseen' = unseen \cup {d}
      BY <2>5 DEF UpdateBinding, Changed, Announce
    <3>4. QED
      BY <2>2, <3>1, <3>2, <3>3 DEF Untouched, Rewritten
  <2>6. ASSUME NEW d \in Binding, DeleteBinding(d) PROVE Goal
    <3>1. b = d => bindings'[b] = None
      BY <2>6 DEF DeleteBinding, TypeOK, ClusterType
    <3>2. b # d => bindings'[b] = bindings[b]
      BY <2>6 DEF DeleteBinding, TypeOK, ClusterType
    <3>3. unseen' = unseen \cup {d}
      BY <2>6 DEF DeleteBinding, Changed, Announce
    <3>4. QED
      BY <2>2, <3>1, <3>2, <3>3 DEF Untouched, Rewritten
  <2>7. QED
    BY <1>2, <2>3, <2>4, <2>5, <2>6 DEF Environment, CreateBroker, ReadyBroker, DeleteBroker,
       CreateTrigger, ReadyTrigger, DeleteTrigger, CreateKMesh, DeleteKMesh, BrokerChanged,
       Changed
<1>3. CASE Informers
  <2>1. ASSUME NEW d \in Binding, SyncBinding(d), d # b PROVE Goal
    <3>1. bindingLister'[b] = bindingLister[b]
      BY <2>1 DEF SyncBinding, TypeOK, ListerType
    <3>2. QED
      BY <2>1, <3>1 DEF SyncBinding, cluster, Untouched
  <2>2. ASSUME NEW d \in Binding, SyncBinding(d) PROVE Goal
    BY <2>1, <2>2 DEF SyncBinding
  <2>3. ASSUME NEW m \in KMesh, InitKMesh(m) PROVE Goal
    BY <2>3 DEF InitKMesh, Changed, Announce, copies, work, Untouched
  <2>4. ASSUME NEW m \in KMesh, SyncKMesh(m) PROVE Goal
    BY <1>1, <2>4 DEF SyncKMesh, cluster, work, Untouched
  <2>5. CASE HandleBroker \/ HandleTrigger
    <3>1. UNCHANGED <<cluster, listers, job, restarts>> /\ queue \subseteq queue'
      BY <2>5 DEF HandleBroker, HandleTrigger, Track
    <3>2. QED
      BY <3>1 DEF cluster, listers, Untouched
  <2>6. CASE FilterBroker \/ FilterTrigger \/ \E k \in Broker : DuckEvent(k)
    <3>1. UNCHANGED <<cluster, listers, job, restarts>> /\ queue \subseteq queue'
      BY <2>6 DEF FilterBroker, FilterTrigger, DuckEvent, work
    <3>2. QED
      BY <3>1 DEF cluster, listers, Untouched
  <2>7. CASE \/ \E k \in Broker : SyncBroker(k)
            \/ \E t \in Trigger : SyncTrigger(t)
    BY <1>1, <2>7 DEF SyncBroker, SyncTrigger, cluster, work, Untouched
  <2>8. QED
    BY <1>3, <2>2, <2>3, <2>4, <2>5, <2>6, <2>7 DEF Informers
<1>4. CASE Resync
  BY <1>4 DEF Resync, cluster, listers, Untouched
<1>5. ASSUME NEW d \in Binding, Start(d) \/ Work(d), d # b PROVE Goal
  <2>1. \E j : Step(d, j)
    BY <1>5 DEF Work, Start, GetKMesh, CacheClasses, ReconcileIngresses, ReadClasses, Patch,
       UpdateStatus
  <2>2. job'[b] = job[b] /\ bindingLister' = bindingLister /\ restarts' = restarts
    BY <1>5, <2>1 DEF Step, copies, TypeOK, WorkType
  <2>3. bindings'[b] = bindings[b]
    <3>1. CASE UpdateStatus(d)
      BY <1>5, <3>1 DEF UpdateStatus, TypeOK, ClusterType
    <3>2. QED
      BY <1>5, <3>1 DEF Work, Start, GetKMesh, CacheClasses, ReconcileIngresses, ReadClasses,
         Patch, cluster
  <2>4. unseen \subseteq unseen'
    BY <1>5 DEF Work, Start, GetKMesh, CacheClasses, ReconcileIngresses, ReadClasses, Patch,
       UpdateStatus, Announce
  <2>5. b \in queue => b \in queue'
    BY <1>5 DEF Work, Start, GetKMesh, CacheClasses, ReconcileIngresses, ReadClasses, Patch,
       UpdateStatus
  <2>6. QED
    BY <2>2, <2>3, <2>4, <2>5 DEF Untouched
<1>6. CASE Start(b) \/ Work(b)
  <2>1. \E j : Step(b, j)
    BY <1>6 DEF Work, Start, GetKMesh, CacheClasses, ReconcileIngresses, ReadClasses, Patch,
       UpdateStatus
  <2>2. QED
    BY <1>6, <2>1 DEF Step
<1>7. CASE UNCHANGED vars
  BY <1>7 DEF vars, process, cluster, listers, work, Untouched
<1>8. QED
  BY <1>2, <1>3, <1>4, <1>5, <1>6, <1>7 DEF Next

\* What UpdateStatus does to the object and to the key.
LEMMA UpdateFacts ==
    ASSUME Inv, NEW b \in Binding, UpdateStatus(b)
    PROVE  LET status == [ready |-> job[b].ready, observed |-> job[b].spec]
           IN  \/ /\ bindings'[b].status = status /\ bindings[b] # None
                  /\ bindings'[b] # bindings[b] => b \in unseen'
               \/ /\ bindings'[b] = bindings[b]
                  /\ \/ b \in queue'
                     \/ job[b].ready = "Ready" /\ status = job[b].seen
<1> DEFINE status == [ready |-> job[b].ready, observed |-> job[b].spec]
           write  == StatusDiffers(status, job[b].seen)
<1>1. PICK stored \in BOOLEAN, answered \in BOOLEAN :
         /\ stored => bindings[b] # None
         /\ bindings' = IF stored THEN [bindings EXCEPT ![b].status = status] ELSE bindings
         /\ IF bindings' # bindings THEN Announce(b) ELSE UNCHANGED unseen
         /\ queue' = IF job[b].ready = "Ready" /\ write = stored /\ answered THEN queue
                     ELSE queue \cup {b}
  BY DEF UpdateStatus
<1>2. write \in BOOLEAN /\ (~write => status = job[b].seen)
  BY DEF StatusDiffers
<1> HIDE DEF status, write
<1>3. CASE stored
  <2>1. bindings[b] \in BindingObj
    BY <1>1, <1>3 DEF Inv, TypeOK, ClusterType, Opt
  <2>2. bindings'[b].status = status
    BY <1>1, <1>3, <2>1 DEF Inv, TypeOK, ClusterType, BindingObj
  <2>3. bindings'[b] # bindings[b] => b \in unseen'
    BY <1>1 DEF Announce
  <2>4. QED
    BY <1>1, <1>3, <2>2, <2>3 DEF status
<1>4. CASE ~stored
  <2>1. bindings'[b] = bindings[b]
    BY <1>1, <1>4
  <2>2. b \in queue' \/ (job[b].ready = "Ready" /\ ~write)
    BY <1>1, <1>2, <1>4
  <2>3. QED
    BY <1>2, <2>1, <2>2 DEF status
<1>5. QED
  BY <1>3, <1>4

\* The steps of a worker before its last keep what it started from.
LEMMA EarlierStep ==
    ASSUME Inv, NEW b \in Binding, Work(b), ~UpdateStatus(b)
    PROVE  /\ job[b] # Idle /\ job'[b] # Idle /\ job'[b].seen = job[b].seen
           /\ UNCHANGED <<bindings, bindingLister, queue>>
           /\ unseen \subseteq unseen'
<1>1. ASSUME NEW j, Step(b, j) PROVE job'[b] = j
  BY <1>1 DEF Step, Inv, TypeOK, WorkType
<1>2. job[b].pc # "idle"
  BY DEF Work, GetKMesh, CacheClasses, ReconcileIngresses, ReadClasses, Patch
<1>3. job'[b].seen = job[b].seen /\ job'[b].pc # "idle"
  <2>1. CASE GetKMesh(b)
    <3> DEFINE m == job[b].spec.kmesh
    <3>1. \/ job'[b] = job[b]
          \/ job'[b] = [pc |-> "status", spec |-> job[b].spec, seen |-> job[b].seen,
                        ready |-> "NoKMesh"]
          \/ job'[b] = [pc |-> "cacheClasses", spec |-> job[b].spec, seen |-> job[b].seen,
                        base |-> kmeshLister[m]]
      BY <1>1, <2>1 DEF GetKMesh
    <3>2. QED
      BY <1>2, <3>1
  <2>2. CASE CacheClasses(b)
    BY <1>1, <2>2 DEF CacheClasses
  <2>3. CASE ReconcileIngresses(b)
    BY <1>1, <2>3 DEF ReconcileIngresses
  <2>4. CASE ReadClasses(b)
    BY <1>1, <2>4 DEF ReadClasses
  <2>5. CASE Patch(b)
    <3>1. \E r : Step(b, [pc |-> "status", spec |-> job[b].spec, seen |-> job[b].seen,
                          ready |-> r])
      BY <2>5 DEF Patch
    <3>2. QED
      BY <1>1, <3>1
  <2>6. QED
    BY <2>1, <2>2, <2>3, <2>4, <2>5 DEF Work
<1>4. UNCHANGED <<bindings, queue>> /\ unseen \subseteq unseen'
  BY DEF Work, GetKMesh, CacheClasses, ReconcileIngresses, ReadClasses, Patch, Announce, cluster
<1>5. bindingLister' = bindingLister
  BY DEF Work, GetKMesh, CacheClasses, ReconcileIngresses, ReadClasses, Patch, Step, copies
<1>6. QED
  BY <1>2, <1>3, <1>4, <1>5 DEF Idle

\* What a worker picks up is the lister's copy.
LEMMA StartFacts ==
    ASSUME Inv, NEW b \in Binding, Start(b)
    PROVE  /\ UNCHANGED <<bindings, bindingLister, unseen>>
           /\ \/ bindingLister[b] = None
              \/ /\ job'[b] # Idle
                 /\ job'[b].seen = bindingLister[b].status
<1>1. ASSUME NEW j, Step(b, j) PROVE job'[b] = j
  BY <1>1 DEF Step, Inv, TypeOK, WorkType
<1>2. UNCHANGED <<bindings, bindingLister, unseen>>
  BY DEF Start, Step, copies, cluster
<1>3. CASE bindingLister[b] = None
  BY <1>2, <1>3
<1>4. CASE bindingLister[b] # None
  <2>1. job'[b] = [pc |-> "getKMesh", spec |-> bindingLister[b].spec,
                   seen |-> bindingLister[b].status]
    BY <1>1, <1>4 DEF Start
  <2>2. QED
    BY <1>2, <2>1 DEF Idle
<1>5. QED
  BY <1>3, <1>4

\* In one life of the process: UpdateStatus is the only step that records
\* Ready, and one that leaves an older Ready in place has seen it, or leaves
\* the key in the queue.
LEMMA NextFollowed ==
    ASSUME Inv, ClassesKept, FollowInv, [Next]_vars, ~Restart
    PROVE  FollowInv'
<1>1. \A b \in Binding : JobFollowed(b)'
  BY NextJobFollowed DEF FollowInv
<1>2. ASSUME NEW b \in Binding PROVE ListerCurrent(b)' /\ JobCurrent(b)' /\ StatusFollowed(b)'
  <2>1. JobFollowed(b) /\ ListerCurrent(b) /\ JobCurrent(b) /\ StatusFollowed(b)
    BY DEF FollowInv
  <2>2. restarts' = restarts
    BY BindingFrame
  <2>3. ASSUME bindings'[b] # None => /\ bindings[b] # None
                                      /\ bindings'[b].status = bindings[b].status,
               restarts > 0 /\ Waiting(b) => Waiting(b)'
        PROVE  StatusFollowed(b)'
    BY <2>1, <2>2, <2>3, FollowedKept DEF StatusFollowed
  <2>4. CASE Start(b)
    <3>1. ListerCurrent(b)' /\ JobCurrent(b)'
      BY <2>1, <2>4, StartFacts DEF ListerCurrent, JobCurrent
    <3>2. CASE bindings[b] = None
      BY <2>4, <3>1, <3>2, StartFacts DEF StatusFollowed
    <3>3. CASE bindings[b] # None
      <4>1. Waiting(b)'
        BY <2>1, <2>4, <3>3, StartFacts DEF ListerCurrent, Waiting
      <4>2. QED
        BY <2>3, <2>4, <3>1, <4>1, StartFacts
    <3>4. QED
      BY <3>1, <3>2, <3>3
  <2>5. CASE Work(b) /\ ~UpdateStatus(b)
    BY <2>1, <2>3, <2>5, EarlierStep DEF ListerCurrent, JobCurrent, Waiting
  <2>6. CASE UpdateStatus(b)
    <3> DEFINE status == [ready |-> job[b].ready, observed |-> job[b].spec]
    <3>1. /\ job'[b] = Idle /\ bindingLister' = bindingLister
          /\ queue \subseteq queue' /\ unseen \subseteq unseen'
      BY <2>6 DEF UpdateStatus, Step, copies, Announce, Inv, TypeOK, WorkType
    <3>2. job[b].pc = "status" /\ job[b].spec \in Spec0 /\ job[b] # Idle
      <4>1. job[b].pc = "status"
        BY <2>6 DEF UpdateStatus
      <4>2. job[b].spec \in Spec0
        BY <4>1, JobShape DEF Inv
      <4>3. QED
        BY <4>1, <4>2 DEF Idle
    <3>3. job[b].ready = "Ready" =>
             \A c \in ToSet(job[b].spec.classes) : trackedBrokers'[c].owner # None
      <4>1. ToSet(job[b].spec.classes) \subseteq Class
        BY <3>2, InputsAssumption DEF BindingSpec, ToSet
      <4>2. job[b].ready = "Ready" => Followed(job[b].spec.classes)
        BY <2>1, <3>2 DEF JobFollowed, PastIngresses
      <4>3. QED
        BY <4>1, <4>2, OwnersKept DEF Followed, Inv
    <3>4. CASE /\ bindings'[b].status = status /\ bindings[b] # None
               /\ bindings'[b] # bindings[b] => b \in unseen'
      <4>1. bindings'[b].status.ready = job[b].ready /\ bindings'[b].status.observed = job[b].spec
        BY <3>4
      <4>2. StatusFollowed(b)'
        BY <3>2, <3>3, <4>1 DEF StatusFollowed, Followed
      <4>3. QED
        BY <2>1, <3>1, <3>4, <4>2 DEF ListerCurrent, JobCurrent
    <3>5. CASE bindings'[b] = bindings[b] /\ b \in queue'
      <4>1. Waiting(b)'
        BY <3>5 DEF Waiting
      <4>2. QED
        BY <2>1, <2>3, <3>1, <3>5, <4>1 DEF ListerCurrent, JobCurrent
    <3>6. CASE bindings'[b] = bindings[b] /\ job[b].ready = "Ready" /\ status = job[b].seen
      <4>1. CASE bindings[b] = None
        BY <2>1, <3>1, <3>6, <4>1 DEF ListerCurrent, JobCurrent, StatusFollowed
      <4>2. CASE bindings[b] # None /\ bindings[b].status = job[b].seen
        <5>1. bindings'[b].status.observed = job[b].spec
          BY <3>6, <4>2
        <5>2. StatusFollowed(b)'
          BY <3>2, <3>3, <3>6, <5>1 DEF StatusFollowed, Followed
        <5>3. QED
          BY <2>1, <3>1, <3>6, <5>2 DEF ListerCurrent, JobCurrent
      <4>3. CASE b \in unseen \cup queue
        <5>1. Waiting(b)'
          BY <3>1, <4>3 DEF Waiting
        <5>2. QED
          BY <2>1, <2>3, <3>1, <3>6, <5>1 DEF ListerCurrent, JobCurrent
      <4>4. QED
        BY <2>1, <3>2, <4>1, <4>2, <4>3 DEF JobCurrent
    <3>7. QED
      BY <2>6, <3>4, <3>5, <3>6, UpdateFacts
  <2>7. CASE SyncBinding(b)
    <3>1. /\ bindings' = bindings /\ b \in queue'
          /\ bindingLister'[b] = bindings[b]
      BY <2>7 DEF SyncBinding, cluster, Inv, TypeOK, ListerType
    <3>2. Waiting(b)'
      BY <3>1 DEF Waiting
    <3>3. QED
      BY <2>3, <3>1, <3>2 DEF ListerCurrent, JobCurrent
  <2>8. CASE Untouched(b)
    BY <2>1, <2>3, <2>8 DEF Untouched, ListerCurrent, JobCurrent, Waiting
  <2>9. CASE Rewritten(b)
    <3>1. Waiting(b)'
      BY <2>9 DEF Rewritten, Waiting
    <3>2. ListerCurrent(b)' /\ JobCurrent(b)'
      BY <2>9 DEF Rewritten, ListerCurrent, JobCurrent
    <3>3. StatusFollowed(b)'
      <4>1. CASE bindings'[b] = None \/ bindings'[b].status.ready # "Ready"
        BY <4>1 DEF StatusFollowed
      <4>2. CASE bindings[b] # None /\ bindings'[b].status = bindings[b].status
        BY <2>3, <3>1, <4>2
      <4>3. QED
        BY <2>9, <4>1, <4>2 DEF Rewritten
    <3>4. QED
      BY <3>2, <3>3
  <2>10. QED
    BY <2>4, <2>5, <2>6, <2>7, <2>8, <2>9, BindingFrame
<1>3. QED
  BY <1>1, <1>2 DEF FollowInv

\* A restart leaves every binding waiting: in the queue of the new leader, or
\* not yet in its lister.
LEMMA RestartFollowed == Inv /\ FollowInv /\ Restart => FollowInv'
<1> SUFFICES ASSUME Inv, FollowInv, Restart, NEW b \in Binding
             PROVE  (JobFollowed(b) /\ ListerCurrent(b) /\ JobCurrent(b) /\ StatusFollowed(b))'
  BY DEF FollowInv
<1>1. ListerCurrent(b) /\ StatusFollowed(b)
  BY DEF FollowInv
<1>2. bindings' = bindings /\ job'[b] = Idle
  BY DEF Restart, cluster
<1>3. restarts' > 0
  BY BoundsAssumption DEF Restart, Inv, TypeOK, CountType
<1>4. ListerCurrent(b)'
  BY <1>1, <1>2 DEF Restart, FreshInformers, StandbyInformers, listers, ListerCurrent
<1>5. bindings[b] # None => Waiting(b)'
  <2>1. bindings'[b] = bindingLister'[b] \/ b \in unseen'
    BY <1>4 DEF ListerCurrent
  <2>2. DOMAIN bindingLister' = Binding
    BY DEF Restart, FreshInformers, StandbyInformers, listers, Inv, TypeOK, ClusterType, ListerType
  <2>3. queue' = {x \in DOMAIN bindingLister' : bindingLister'[x] # None}
    BY DEF Restart, Promoted, Existing
  <2>4. QED
    BY <1>2, <2>1, <2>2, <2>3 DEF Waiting
<1>6. JobFollowed(b)' /\ JobCurrent(b)'
  BY <1>2 DEF JobFollowed, PastIngresses, JobCurrent, Idle
<1>7. StatusFollowed(b)'
  BY <1>1, <1>2, <1>3, <1>5 DEF StatusFollowed
<1>8. QED
  BY <1>4, <1>6, <1>7

\* The classes of a binding shown Ready are followed: no event of their brokers
\* is filtered out.  Where that Ready is left over from an earlier process, the
\* present one still has the binding to look at.
THEOREM ReadyStaysFollowed ==
    ASSUME \A b \in Binding : Bindings0[b] # None => Bindings0[b].status.ready # "Ready"
    PROVE  Spec => []ReadyMeansFollowed
<1>1. Init => ClassesKept /\ FollowInv
  BY DEF Init, ClassesKept, FollowInv, JobFollowed, PastIngresses, ListerCurrent, JobCurrent,
         StatusFollowed, Idle
<1>2. FollowInv => ReadyMeansFollowed
  BY DEF FollowInv, StatusFollowed, Followed, ReadyMeansFollowed
<1>3. Inv /\ ClassesKept /\ FollowInv /\ [Next]_vars => FollowInv'
  BY NextFollowed, RestartFollowed
<1>4. QED
  BY <1>1, <1>2, <1>3, NextClassesKept, InvInvariant, PTL DEF Spec
=============================================================================
