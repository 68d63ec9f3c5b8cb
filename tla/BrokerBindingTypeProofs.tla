---------------------- MODULE BrokerBindingTypeProofs ----------------------
(***************************************************************************)
(* Every step of BrokerBinding keeps TypeOK, given the two facts the code  *)
(* relies on without checking them, PastFilter and MeshKnown.  That these  *)
(* are invariants too, and the theorems, are in BrokerBindingProofs.       *)
(***************************************************************************)
EXTENDS BrokerBinding, FiniteSetTheorems, TLAPS

---------------------------------------------------------------------------
(* Sets put in some order                                                   *)

\* The orders of a finite set are sequences over it.
LEMMA OrdersType ==
    ASSUME NEW S, IsFiniteSet(S)
    PROVE  Orders(S) \subseteq Seq(S)
<1>1. Cardinality(S) \in Nat
  BY FS_CardinalityType
<1>2. QED
  BY <1>1 DEF Orders

\* The notifications of a full list of the brokers are finitely many.
LEMMA BrokerAddsType ==
    ASSUME NEW objs \in [Broker -> Opt(BrokerObj)]
    PROVE  Orders(BrokerAdds(objs)) \subseteq Seq(BrokerEvent)
<1> DEFINE S == Existing(objs)
           T == BrokerAdds(objs)
           f == [k \in S |-> [name |-> k, uid |-> objs[k].uid, class |-> objs[k].class]]
<1>1. IsFiniteSet(S)
  BY FS_Subset, NamesAssumption DEF Existing
<1>2. f \in Surjection(S, T)
  BY DEF Surjection, BrokerAdds
<1>3. IsFiniteSet(T)
  BY <1>1, <1>2, FS_Surjection
<1>4. T \subseteq BrokerEvent
  BY DEF BrokerAdds, Existing, Opt, BrokerObj, BrokerEvent
<1>5. QED
  BY <1>3, <1>4, OrdersType

\* So are those of the triggers.
LEMMA TriggerAddsType ==
    ASSUME NEW objs \in [Trigger -> Opt(TriggerObj)]
    PROVE  Orders(TriggerAdds(objs)) \subseteq Seq(TriggerEvent)
<1> DEFINE S == Existing(objs)
           T == TriggerAdds(objs)
           f == [t \in S |-> [name |-> t, uid |-> objs[t].uid, broker |-> objs[t].broker]]
<1>1. IsFiniteSet(S)
  BY FS_Subset, NamesAssumption DEF Existing
<1>2. f \in Surjection(S, T)
  BY DEF Surjection, TriggerAdds
<1>3. IsFiniteSet(T)
  BY <1>1, <1>2, FS_Surjection
<1>4. T \subseteq TriggerEvent
  BY DEF TriggerAdds, Existing, Opt, TriggerObj, TriggerEvent
<1>5. QED
  BY <1>3, <1>4, OrdersType

---------------------------------------------------------------------------
(* Type correctness                                                         *)

\* NewController leaves every variable in its type.
LEMMA InitType == Init => TypeOK
<1> SUFFICES ASSUME Init PROVE TypeOK
  OBVIOUS
<1>1. ClusterType
  BY InputsAssumption, BoundsAssumption DEF Init, ClusterType
<1>2. ListerType
  BY <1>1 DEF Init, ClusterType, ListerType
<1>3. EventType
  BY <1>1, BrokerAddsType, TriggerAddsType DEF Init, ClusterType, EventType, Opt
<1>4. CacheType
  BY DEF Init, CacheType, NoClasses, NoBrokers, NoTriggers, NoEntry, BrokerEntry,
         TriggerEntry, Opt
<1>5. WorkType
  BY <1>1 DEF Init, ClusterType, WorkType, Idle, Job, Existing
<1>6. CountType
  <2>1. changes = 0 /\ restarts = 0 /\ panicked = FALSE
    BY DEF Init
  <2>2. MaxChanges \in Nat /\ MaxRestarts \in Nat
    BY BoundsAssumption
  <2>3. 0 \in 0..MaxChanges /\ 0 \in 0..MaxRestarts
    BY <2>2
  <2>4. QED
    BY <2>1, <2>3 DEF CountType
<1>7. QED
  BY <1>1, <1>2, <1>3, <1>4, <1>5, <1>6 DEF TypeOK

\* What the code relies on without checking it: an event handler finds the
\* entry its filter saw, and a worker past reconcileKMesh's first lines has a
\* mesh.
PastFilter ==
    /\ brokerEvent # None =>
          brokerEvent.class # None /\ trackedBrokers[brokerEvent.class].owner # None
    /\ triggerEvent # None => trackedTriggers[triggerEvent.broker].owner # None

MeshKnown ==
    \A b \in Binding : job[b].pc \notin {"idle", "getKMesh"} => job[b].spec.kmesh # None

\* A change counted is within its bound.
LEMMA ChangeType ==
    ASSUME TypeOK, NEW kind, Change(kind)
    PROVE  changes' \in 0..MaxChanges
BY BoundsAssumption DEF TypeOK, CountType, Change

\* A new object gets a UID within the bound on incarnations.
LEMMA BearType ==
    ASSUME TypeOK, NEW x \in Broker \cup Trigger \cup KMesh, Bear(x)
    PROVE  /\ born' \in [Broker \cup Trigger \cup KMesh -> 0..MaxUid]
           /\ born[x] + 1 \in Uid
BY BoundsAssumption DEF TypeOK, ClusterType, Bear, Uid

\* A change of a broker reaches nothing typed but the announcements of it.
LEMMA BrokerChangedType ==
    ASSUME TypeOK, NEW k \in Broker, BrokerChanged(k),
           changes' \in 0..MaxChanges,
           brokers' \in [Broker -> Opt(BrokerObj)],
           born' \in [Broker \cup Trigger \cup KMesh -> 0..MaxUid]
    PROVE  TypeOK'
<1> USE DEF TypeOK, BrokerChanged
<1>1. ClusterType'
  BY DEF ClusterType
<1>2. ListerType'
  BY DEF ListerType, Announce, copies
<1>3. EventType'
  BY DEF EventType, events
<1>4. CacheType'
  BY DEF CacheType, caches
<1>5. WorkType'
  BY DEF WorkType
<1>6. CountType'
  BY DEF CountType
<1>7. QED
  BY <1>1, <1>2, <1>3, <1>4, <1>5, <1>6

\* Nor does a change of any other object.
LEMMA ChangedType ==
    ASSUME TypeOK, NEW x \in Broker \cup Trigger \cup KMesh \cup Binding, Changed(x),
           changes' \in 0..MaxChanges,
           ClusterType'
    PROVE  TypeOK'
<1> USE DEF TypeOK, Changed
<1>1. ListerType'
  BY DEF ListerType, Announce, copies
<1>2. EventType'
  BY DEF EventType, events
<1>3. CacheType'
  BY DEF CacheType, caches
<1>4. WorkType'
  BY DEF WorkType, work
<1>5. CountType'
  BY DEF CountType
<1>6. QED
  BY <1>1, <1>2, <1>3, <1>4, <1>5

\* Users and eventing controllers write well-typed objects.
LEMMA EnvironmentType == TypeOK /\ Environment => TypeOK'
<1> SUFFICES ASSUME TypeOK, Environment PROVE TypeOK'
  OBVIOUS
<1>1. ASSUME NEW k \in Broker, NEW c \in ClassesOf[k], CreateBroker(k, c) PROVE TypeOK'
  <2>1. [uid |-> born[k] + 1, class |-> c, ready |-> FALSE] \in BrokerObj
    BY <1>1, BearType, InputsAssumption DEF CreateBroker, BrokerObj
  <2>2. brokers' \in [Broker -> Opt(BrokerObj)]
    BY <1>1, <2>1 DEF CreateBroker, TypeOK, ClusterType, Opt
  <2>3. QED
    BY <1>1, <2>2, ChangeType, BearType, BrokerChangedType DEF CreateBroker
<1>2. ASSUME NEW k \in Broker, ReadyBroker(k) PROVE TypeOK'
  <2>1. brokers' \in [Broker -> Opt(BrokerObj)]
    <3>1. brokers[k] \in BrokerObj
      BY <1>2 DEF ReadyBroker, TypeOK, ClusterType, Opt
    <3>2. [brokers[k] EXCEPT !.ready = ~@] \in BrokerObj
      BY <3>1 DEF BrokerObj
    <3>3. QED
      BY <1>2, <3>2 DEF ReadyBroker, TypeOK, ClusterType, Opt
  <2>2. QED
    BY <1>2, <2>1, ChangeType, BrokerChangedType DEF ReadyBroker, TypeOK, ClusterType
<1>3. ASSUME NEW k \in Broker, DeleteBroker(k) PROVE TypeOK'
  <2>1. brokers' \in [Broker -> Opt(BrokerObj)]
    BY <1>3 DEF DeleteBroker, TypeOK, ClusterType, Opt
  <2>2. QED
    BY <1>3, <2>1, ChangeType, BrokerChangedType DEF DeleteBroker, TypeOK, ClusterType
<1>4. ASSUME NEW t \in Trigger, NEW k \in BrokersOf[t], CreateTrigger(t, k) PROVE TypeOK'
  <2>1. [uid |-> born[t] + 1, broker |-> k, ready |-> FALSE] \in TriggerObj
    BY <1>4, BearType, InputsAssumption DEF CreateTrigger, TriggerObj
  <2>2. triggers' \in [Trigger -> Opt(TriggerObj)]
    BY <1>4, <2>1 DEF CreateTrigger, TypeOK, ClusterType, Opt
  <2>3. QED
    BY <1>4, <2>2, ChangeType, BearType, ChangedType DEF CreateTrigger, TypeOK, ClusterType
<1>5. ASSUME NEW t \in Trigger, ReadyTrigger(t) PROVE TypeOK'
  <2>1. triggers' \in [Trigger -> Opt(TriggerObj)]
    <3>1. triggers[t] \in TriggerObj
      BY <1>5 DEF ReadyTrigger, TypeOK, ClusterType, Opt
    <3>2. [triggers[t] EXCEPT !.ready = ~@] \in TriggerObj
      BY <3>1 DEF TriggerObj
    <3>3. QED
      BY <1>5, <3>2 DEF ReadyTrigger, TypeOK, ClusterType, Opt
  <2>2. QED
    BY <1>5, <2>1, ChangeType, ChangedType DEF ReadyTrigger, TypeOK, ClusterType
<1>6. ASSUME NEW t \in Trigger, DeleteTrigger(t) PROVE TypeOK'
  <2>1. triggers' \in [Trigger -> Opt(TriggerObj)]
    BY <1>6 DEF DeleteTrigger, TypeOK, ClusterType, Opt
  <2>2. QED
    BY <1>6, <2>1, ChangeType, ChangedType DEF DeleteTrigger, TypeOK, ClusterType
<1>7. ASSUME NEW m \in KMesh, CreateKMesh(m) PROVE TypeOK'
  <2>1. [uid |-> born[m] + 1, init |-> FALSE, status |-> NoStatus] \in KMeshObj
    BY <1>7, BearType DEF CreateKMesh, KMeshObj, KMeshStatus, NoStatus
  <2>2. kmeshes' \in [KMesh -> Opt(KMeshObj)]
    BY <1>7, <2>1 DEF CreateKMesh, TypeOK, ClusterType, Opt
  <2>3. QED
    BY <1>7, <2>2, ChangeType, BearType, ChangedType DEF CreateKMesh, TypeOK, ClusterType
<1>8. ASSUME NEW m \in KMesh, DeleteKMesh(m) PROVE TypeOK'
  <2>1. kmeshes' \in [KMesh -> Opt(KMeshObj)]
    BY <1>8 DEF DeleteKMesh, TypeOK, ClusterType, Opt
  <2>2. QED
    BY <1>8, <2>1, ChangeType, ChangedType DEF DeleteKMesh, TypeOK, ClusterType
<1>9. ASSUME NEW b \in Binding, NEW s \in Spec0, CreateBinding(b, s) PROVE TypeOK'
  <2>1. NewBinding(s) \in BindingObj
    BY DEF NewBinding, BindingObj, BindingStatus
  <2>2. bindings' \in [Binding -> Opt(BindingObj)]
    BY <1>9, <2>1 DEF CreateBinding, TypeOK, ClusterType, Opt
  <2>3. QED
    BY <1>9, <2>2, ChangeType, ChangedType DEF CreateBinding, TypeOK, ClusterType
<1>10. ASSUME NEW b \in Binding, NEW s \in Spec0, UpdateBinding(b, s) PROVE TypeOK'
  <2>1. bindings' \in [Binding -> Opt(BindingObj)]
    BY <1>10 DEF UpdateBinding, TypeOK, ClusterType, Opt, BindingObj
  <2>2. QED
    BY <1>10, <2>1, ChangeType, ChangedType DEF UpdateBinding, TypeOK, ClusterType
<1>11. ASSUME NEW b \in Binding, DeleteBinding(b) PROVE TypeOK'
  <2>1. bindings' \in [Binding -> Opt(BindingObj)]
    BY <1>11 DEF DeleteBinding, TypeOK, ClusterType, Opt
  <2>2. QED
    BY <1>11, <2>1, ChangeType, ChangedType DEF DeleteBinding, TypeOK, ClusterType
<1>12. QED
  BY <1>1, <1>2, <1>3, <1>4, <1>5, <1>6, <1>7, <1>8, <1>9, <1>10, <1>11 DEF Environment

\* Notifications, filters and handlers: the handlers need PastFilter, or they
\* would index a cache with no class or track a broker for no binding.
LEMMA InformersType == TypeOK /\ PastFilter /\ Informers => TypeOK'
<1> SUFFICES ASSUME TypeOK, PastFilter, Informers PROVE TypeOK'
  OBVIOUS
<1> USE DEF TypeOK
<1>1. ASSUME NEW k \in Broker, SyncBroker(k) PROVE TypeOK'
  <2>1. brokerLister' \in [Broker -> Opt(BrokerObj)]
    BY <1>1 DEF SyncBroker, ClusterType, ListerType
  <2>2. brokerEvents' \in Seq(BrokerEvent)
    <3>1. brokers[k] # None =>
             [name |-> k, uid |-> brokers[k].uid, class |-> brokers[k].class] \in BrokerEvent
      BY DEF ClusterType, Opt, BrokerObj, BrokerEvent
    <3>2. QED
      BY <1>1, <3>1 DEF SyncBroker, EventType
  <2>3. ListerType'
    BY <1>1, <2>1 DEF SyncBroker, ListerType
  <2>4. EventType'
    BY <1>1, <2>2 DEF SyncBroker, EventType
  <2>5. ClusterType' /\ CacheType'
    BY <1>1 DEF SyncBroker, cluster, caches, ClusterType, CacheType
  <2>6. WorkType' /\ CountType'
    BY <1>1 DEF SyncBroker, work, WorkType, CountType
  <2>7. QED
    BY <2>3, <2>4, <2>5, <2>6
<1>2. ASSUME NEW t \in Trigger, SyncTrigger(t) PROVE TypeOK'
  <2>1. triggerLister' \in [Trigger -> Opt(TriggerObj)]
    BY <1>2 DEF SyncTrigger, ClusterType, ListerType
  <2>2. triggerEvents' \in Seq(TriggerEvent)
    <3>1. triggers[t] # None =>
             [name |-> t, uid |-> triggers[t].uid, broker |-> triggers[t].broker]
                \in TriggerEvent
      BY DEF ClusterType, Opt, TriggerObj, TriggerEvent
    <3>2. QED
      BY <1>2, <3>1 DEF SyncTrigger, EventType
  <2>3. ListerType'
    BY <1>2, <2>1 DEF SyncTrigger, ListerType
  <2>4. EventType'
    BY <1>2, <2>2 DEF SyncTrigger, EventType
  <2>5. ClusterType' /\ CacheType'
    BY <1>2 DEF SyncTrigger, cluster, caches, ClusterType, CacheType
  <2>6. WorkType' /\ CountType'
    BY <1>2 DEF SyncTrigger, work, WorkType, CountType
  <2>7. QED
    BY <2>3, <2>4, <2>5, <2>6
<1>3. ASSUME NEW m \in KMesh, SyncKMesh(m) PROVE TypeOK'
  <2>1. ListerType'
    BY <1>3 DEF SyncKMesh, ClusterType, ListerType
  <2>2. ClusterType' /\ EventType' /\ CacheType'
    BY <1>3 DEF SyncKMesh, cluster, events, caches, ClusterType, EventType, CacheType
  <2>3. WorkType' /\ CountType'
    BY <1>3 DEF SyncKMesh, work, WorkType, CountType
  <2>4. QED
    BY <2>1, <2>2, <2>3
<1>4. ASSUME NEW b \in Binding, SyncBinding(b) PROVE TypeOK'
  <2>1. ListerType'
    BY <1>4 DEF SyncBinding, ClusterType, ListerType
  <2>2. ClusterType' /\ EventType' /\ CacheType'
    BY <1>4 DEF SyncBinding, cluster, events, caches, ClusterType, EventType, CacheType
  <2>3. WorkType' /\ CountType'
    BY <1>4 DEF SyncBinding, WorkType, CountType
  <2>4. QED
    BY <2>1, <2>2, <2>3
<1>5. ASSUME NEW m \in KMesh, InitKMesh(m) PROVE TypeOK'
  <2>1. ClusterType'
    BY <1>5 DEF InitKMesh, ClusterType, Opt, KMeshObj
  <2>2. QED
    BY <1>5, <2>1, ChangedType DEF InitKMesh, CountType
<1>6. ASSUME FilterBroker PROVE TypeOK'
  <2>1. brokerEvents \in Seq(BrokerEvent) /\ brokerEvents # <<>>
    BY <1>6 DEF FilterBroker, EventType
  <2>2. Head(brokerEvents) \in BrokerEvent /\ Tail(brokerEvents) \in Seq(BrokerEvent)
    BY <2>1
  <2>3. EventType'
    BY <1>6, <2>2 DEF FilterBroker, EventType, Opt
  <2>4. ClusterType' /\ ListerType' /\ CacheType'
    BY <1>6 DEF FilterBroker, cluster, listers, caches, ClusterType, ListerType, CacheType
  <2>5. WorkType' /\ CountType'
    BY <1>6 DEF FilterBroker, work, WorkType, CountType
  <2>6. QED
    BY <2>3, <2>4, <2>5
<1>7. ASSUME FilterTrigger PROVE TypeOK'
  <2>1. triggerEvents \in Seq(TriggerEvent) /\ triggerEvents # <<>>
    BY <1>7 DEF FilterTrigger, EventType
  <2>2. Head(triggerEvents) \in TriggerEvent /\ Tail(triggerEvents) \in Seq(TriggerEvent)
    BY <2>1
  <2>3. EventType'
    BY <1>7, <2>2 DEF FilterTrigger, EventType, Opt
  <2>4. ClusterType' /\ ListerType' /\ CacheType'
    BY <1>7 DEF FilterTrigger, cluster, listers, caches, ClusterType, ListerType, CacheType
  <2>5. WorkType' /\ CountType'
    BY <1>7 DEF FilterTrigger, work, WorkType, CountType
  <2>6. QED
    BY <2>3, <2>4, <2>5
<1>8. ASSUME HandleBroker PROVE TypeOK'
  <2> DEFINE c == brokerEvent.class
             k == brokerEvent.name
  <2>1. c \in Class /\ k \in Broker /\ brokerEvent.uid \in Uid
    BY <1>8 DEF HandleBroker, EventType, PastFilter, Opt, BrokerEvent
  <2>2. trackedBrokers[c] \in BrokerEntry
    BY <2>1 DEF CacheType
  <2>3. trackedBrokers[c].owner \in Binding
    BY <1>8, <2>2 DEF HandleBroker, PastFilter, BrokerEntry, Opt
  <2>4. [trackedBrokers EXCEPT ![c].refs = @ \cup {<<k, brokerEvent.uid>>}]
           \in [Class -> BrokerEntry]
    <3>1. {<<k, brokerEvent.uid>>} \subseteq Broker \X Uid
      BY <2>1
    <3>2. [trackedBrokers[c] EXCEPT !.refs = @ \cup {<<k, brokerEvent.uid>>}] \in BrokerEntry
      BY <2>2, <3>1 DEF BrokerEntry
    <3>3. QED
      BY <2>1, <3>2 DEF CacheType
  <2>5. CacheType'
    BY <1>8, <2>4 DEF HandleBroker, CacheType
  <2>6. WorkType'
    <3>1. Track(k, trackedBrokers[c].owner)
      BY <1>8, <2>3, NamesAssumption DEF HandleBroker
    <3>2. tracker' \subseteq Broker \X Binding /\ queue' \subseteq Binding
      BY <2>1, <2>3, <3>1 DEF Track, WorkType
    <3>3. duck' \in [started : BOOLEAN, pending : SUBSET Broker]
      BY <3>1 DEF Track, WorkType, ClusterType, Existing
    <3>4. QED
      BY <1>8, <3>2, <3>3 DEF HandleBroker, WorkType
  <2>7. EventType' /\ CountType'
    BY <1>8 DEF HandleBroker, EventType, CountType, Opt
  <2>8. ClusterType' /\ ListerType'
    BY <1>8 DEF HandleBroker, cluster, listers, ClusterType, ListerType
  <2>9. QED
    BY <2>5, <2>6, <2>7, <2>8
<1>9. ASSUME HandleTrigger PROVE TypeOK'
  <2> DEFINE k == triggerEvent.broker
  <2>1. k \in Broker /\ triggerEvent.name \in Trigger /\ triggerEvent.uid \in Uid
    BY <1>9 DEF HandleTrigger, EventType, Opt, TriggerEvent
  <2>2. trackedTriggers[k] \in TriggerEntry
    BY <2>1 DEF CacheType
  <2>3. trackedTriggers[k].owner \in Binding
    BY <1>9, <2>2 DEF HandleTrigger, PastFilter, TriggerEntry, Opt
  <2>4. [trackedTriggers EXCEPT ![k].refs = @ \cup {<<triggerEvent.name, triggerEvent.uid>>}]
           \in [Broker -> TriggerEntry]
    <3>1. {<<triggerEvent.name, triggerEvent.uid>>} \subseteq Trigger \X Uid
      BY <2>1
    <3>2. [trackedTriggers[k] EXCEPT !.refs = @ \cup {<<triggerEvent.name, triggerEvent.uid>>}]
             \in TriggerEntry
      BY <2>2, <3>1 DEF TriggerEntry
    <3>3. QED
      BY <2>1, <3>2 DEF CacheType
  <2>5. CacheType'
    BY <1>9, <2>4 DEF HandleTrigger, CacheType
  <2>6. WorkType'
    BY <1>9, <2>3 DEF HandleTrigger, WorkType
  <2>7. EventType' /\ CountType'
    BY <1>9 DEF HandleTrigger, EventType, CountType, Opt
  <2>8. ClusterType' /\ ListerType'
    BY <1>9 DEF HandleTrigger, cluster, listers, ClusterType, ListerType
  <2>9. QED
    BY <2>5, <2>6, <2>7, <2>8
<1>10. ASSUME NEW k \in Broker, DuckEvent(k) PROVE TypeOK'
  <2>1. WorkType'
    BY <1>10 DEF DuckEvent, WorkType
  <2>2. ClusterType' /\ ListerType' /\ EventType' /\ CacheType' /\ CountType'
    BY <1>10 DEF DuckEvent, cluster, listers, events, caches, ClusterType, ListerType,
                 EventType, CacheType, CountType
  <2>3. QED
    BY <2>1, <2>2
<1>11. QED
  BY <1>1, <1>2, <1>3, <1>4, <1>5, <1>6, <1>7, <1>8, <1>9, <1>10 DEF Informers

\* A resync notifies of objects the listers already had.
LEMMA ResyncType == TypeOK /\ Resync => TypeOK'
<1> SUFFICES ASSUME TypeOK, Resync PROVE TypeOK'
  OBVIOUS
<1> USE DEF TypeOK
<1>1. EventType'
  BY BrokerAddsType, TriggerAddsType DEF Resync, ListerType, EventType
<1>2. WorkType'
  BY DEF Resync, WorkType, ClusterType, ListerType, Existing
<1>3. ClusterType' /\ ListerType' /\ CacheType' /\ CountType'
  BY DEF Resync, cluster, listers, caches, ClusterType, ListerType, CacheType, CountType
<1>4. QED
  BY <1>1, <1>2, <1>3

\* A restart is a start on the cluster there is, or on what a standby has seen
\* of it.
LEMMA RestartType == TypeOK /\ Restart => TypeOK'
<1> SUFFICES ASSUME TypeOK, Restart PROVE TypeOK'
  OBVIOUS
<1> USE DEF TypeOK
<1>1. ClusterType'
  BY DEF Restart, cluster, ClusterType
<1>2. ListerType'
  <2>1. CASE FreshInformers
    BY <2>1 DEF FreshInformers, ClusterType, ListerType
  <2>2. CASE StandbyInformers
    BY <2>2 DEF StandbyInformers, listers, ListerType
  <2>3. QED
    BY <2>1, <2>2 DEF Restart
<1>3. EventType'
  <2>1. <<>> \in Seq(BrokerEvent) /\ <<>> \in Seq(TriggerEvent)
    OBVIOUS
  <2>2. brokerEvents' \in Seq(BrokerEvent) /\ triggerEvents' \in Seq(TriggerEvent)
    <3>1. CASE FreshInformers
      BY <3>1, BrokerAddsType, TriggerAddsType DEF FreshInformers, ClusterType
    <3>2. CASE StandbyInformers
      BY <3>2, <2>1 DEF StandbyInformers
    <3>3. QED
      BY <3>1, <3>2 DEF Restart
  <2>3. QED
    BY <2>2 DEF Restart, EventType, Opt
<1>4. CacheType'
  BY DEF Restart, CacheType, NoClasses, NoBrokers, NoTriggers, NoEntry, BrokerEntry,
         TriggerEntry, Opt
<1>5. WorkType'
  <2>1. queue' \subseteq Binding
    BY <1>2 DEF Restart, ListerType, Promoted, Existing
  <2>2. QED
    BY <2>1 DEF Restart, WorkType, Idle, Job
<1>6. CountType'
  <2>1. restarts \in Nat /\ restarts < MaxRestarts /\ restarts' = restarts + 1
    BY BoundsAssumption DEF Restart, CountType
  <2>2. restarts' \in 0..MaxRestarts
    BY <2>1, BoundsAssumption
  <2>3. QED
    BY <2>2 DEF Restart, CountType
<1>7. QED
  BY <1>1, <1>2, <1>3, <1>4, <1>5, <1>6

\* The fields of a worker's job at each of its steps.
LEMMA JobShape ==
    ASSUME TypeOK, NEW b \in Binding
    PROVE  /\ job[b].pc = "getKMesh" =>
                 job[b].spec \in Spec0 /\ job[b].seen \in BindingStatus
           /\ job[b].pc \in {"cacheClasses", "ingresses"} =>
                 /\ job[b] = [pc |-> job[b].pc, spec |-> job[b].spec,
                              seen |-> job[b].seen, base |-> job[b].base]
                 /\ job[b].spec \in Spec0 /\ job[b].seen \in BindingStatus
                 /\ job[b].base \in KMeshObj
           /\ job[b].pc \in {"classes", "patch"} =>
                 /\ job[b] = [pc |-> job[b].pc, spec |-> job[b].spec, seen |-> job[b].seen,
                              base |-> job[b].base, after |-> job[b].after]
                 /\ job[b].spec \in Spec0 /\ job[b].seen \in BindingStatus
                 /\ job[b].base \in KMeshObj /\ job[b].after \in KMeshStatus
           /\ job[b].pc = "status" =>
                 /\ job[b].spec \in Spec0 /\ job[b].seen \in BindingStatus
                 /\ job[b].ready \in {"Ready", "NoKMesh", "PatchFailed"}
<1>1. job[b] \in Job
  BY DEF TypeOK, WorkType
<1>2. QED
  BY <1>1 DEF Job

\* The key a worker has in kmeshCache, once it has found its mesh.
LEMMA JobKey ==
    ASSUME TypeOK, MeshKnown, NEW b \in Binding,
           job[b].pc \in {"cacheClasses", "ingresses", "classes", "patch"}
    PROVE  <<job[b].spec.kmesh, job[b].base.uid>> \in KMesh \X Uid
<1>1. job[b].spec \in BindingSpec /\ job[b].base \in KMeshObj
  BY JobShape, InputsAssumption
<1>2. job[b].spec.kmesh # None
  BY DEF MeshKnown
<1>3. QED
  BY <1>1, <1>2 DEF BindingSpec, KMeshObj

\* A worker's step keeps the types when what it writes outside its job does.
LEMMA StepType ==
    ASSUME TypeOK, NEW b \in Binding, NEW j \in Job, Step(b, j),
           ClusterType', CacheType', queue' \subseteq Binding, panicked' \in BOOLEAN,
           changes' \in 0..MaxChanges,
           unseen' \subseteq Broker \cup Trigger \cup KMesh \cup Binding
    PROVE  TypeOK'
<1> USE DEF TypeOK, Step
<1>1. ListerType'
  BY DEF ListerType, copies
<1>2. EventType'
  BY DEF EventType, events
<1>3. WorkType'
  BY DEF WorkType
<1>4. CountType'
  BY DEF CountType
<1>5. QED
  BY <1>1, <1>2, <1>3, <1>4

\* Merging the classes of a binding into those cached gives a list of classes.
LEMMA MergedType ==
    ASSUME NEW cached \in Seq(Class), NEW classes \in Seq(Class)
    PROVE  MergedClasses(cached, classes) \in Seq(Class)
<1>1. ToSet(cached) \cup ToSet(classes) \in SUBSET Class
  BY DEF ToSet
<1>2. QED
  BY <1>1, ListOfAssumption DEF MergedClasses

\* The egresses of a broker are names of triggers, in some order.
LEMMA EgressListsType ==
    ASSUME TypeOK, NEW k \in Broker
    PROVE  EgressLists(k) \subseteq Seq(Trigger)
<1> DEFINE R == ReadyTriggers(k)
<1>1. R \subseteq Trigger \X Uid
  BY DEF ReadyTriggers, TypeOK, CacheType, TriggerEntry
<1>2. IsFiniteSet(Trigger \X Uid)
  <2>1. IsFiniteSet(Uid)
    BY FS_Interval, BoundsAssumption DEF Uid
  <2>2. QED
    BY <2>1, FS_Product, NamesAssumption
<1>3. IsFiniteSet(R)
  BY <1>1, <1>2, FS_Subset
<1>4. ASSUME NEW o \in Orders(R) PROVE [i \in DOMAIN o |-> o[i][1]] \in Seq(Trigger)
  <2>1. o \in Seq(Trigger \X Uid)
    BY <1>1, <1>3, OrdersType
  <2>2. QED
    BY <2>1
<1>5. QED
  BY <1>4 DEF EgressLists

\* The ingresses of a pass are ingresses, in some order.
LEMMA IngressListsType ==
    ASSUME TypeOK, NEW classes \in Seq(Class)
    PROVE  IngressLists(classes) \subseteq Seq(Ingress)
<1> DEFINE D == DOMAIN classes
           E == Entries(classes)
           P == (D \X Broker) \X Uid
           f == [p \in P |-> <<p[1][1], p[1][2], p[2]>>]
<1>1. IsFiniteSet(P)
  <2>1. IsFiniteSet(D) /\ IsFiniteSet(Uid)
    BY FS_Interval, BoundsAssumption DEF Uid
  <2>2. QED
    BY <2>1, FS_Product, NamesAssumption
<1>2. IsFiniteSet(D \X Broker \X Uid)
  <2>1. f \in Surjection(P, D \X Broker \X Uid)
    <3>1. f \in [P -> D \X Broker \X Uid]
      OBVIOUS
    <3>2. ASSUME NEW e \in D \X Broker \X Uid PROVE \E p \in P : f[p] = e
      <4>1. <<<<e[1], e[2]>>, e[3]>> \in P
        OBVIOUS
      <4>2. f[<<<<e[1], e[2]>>, e[3]>>] = e
        BY <4>1
      <4>3. QED
        BY <4>1, <4>2
    <3>3. QED
      BY <3>1, <3>2 DEF Surjection
  <2>2. QED
    BY <1>1, <2>1, FS_Surjection
<1>3. E \subseteq D \X Broker \X Uid
  BY DEF Entries
<1>4. Orders(E) \subseteq Seq(E)
  BY <1>2, <1>3, FS_Subset, OrdersType
<1>5. ASSUME NEW o \in Orders(E), NEW egr, \A e \in E : egr[e] \in EgressLists(e[2])
      PROVE  [i \in DOMAIN o |-> [name |-> o[i][2], egresses |-> egr[o[i]]]] \in Seq(Ingress)
  <2>1. o \in Seq(E)
    BY <1>4
  <2>2. ASSUME NEW e \in E PROVE [name |-> e[2], egresses |-> egr[e]] \in Ingress
    <3>1. e[2] \in Broker
      BY <1>3
    <3>2. egr[e] \in Seq(Trigger)
      BY <1>5, <3>1, EgressListsType
    <3>3. QED
      BY <3>1, <3>2 DEF Ingress
  <2>3. QED
    BY <2>1, <2>2
<1>6. QED
  BY <1>5 DEF IngressLists

\* The steps of a worker; they need MeshKnown, or they would read the cache
\* under no mesh.
LEMMA WorkersType ==
    ASSUME TypeOK, MeshKnown, NEW b \in Binding, Start(b) \/ Work(b)
    PROVE  TypeOK'
<1> USE DEF TypeOK
<1>1. CASE Start(b)
  <2> DEFINE j == IF bindingLister[b] = None THEN Idle
                  ELSE [pc |-> "getKMesh", spec |-> bindingLister[b].spec,
                        seen |-> bindingLister[b].status]
  <2>1. j \in Job
    BY DEF ListerType, Opt, BindingObj, Job, Idle
  <2>2. ClusterType' /\ CacheType'
    BY <1>1 DEF Start, cluster, caches, ClusterType, CacheType
  <2>3. QED
    BY <1>1, <2>1, <2>2, StepType DEF Start, WorkType, ListerType, CountType
<1>2. CASE GetKMesh(b)
  <2> DEFINE m == job[b].spec.kmesh
             j == IF m = None THEN job[b]
                  ELSE IF kmeshLister[m] = None
                  THEN [pc |-> "status", spec |-> job[b].spec, seen |-> job[b].seen,
                        ready |-> "NoKMesh"]
                  ELSE [pc |-> "cacheClasses", spec |-> job[b].spec, seen |-> job[b].seen,
                        base |-> kmeshLister[m]]
  <2>1. job[b].spec \in Spec0 /\ job[b].seen \in BindingStatus /\ job[b] \in Job
    BY <1>2, JobShape DEF GetKMesh, WorkType
  <2>2. m \in KMesh \cup {None}
    BY <2>1, InputsAssumption DEF BindingSpec
  <2>3. m # None /\ kmeshLister[m] # None => kmeshLister[m] \in KMeshObj
    BY <2>2 DEF ListerType, Opt
  <2>4. j \in Job
    BY <2>1, <2>3 DEF Job
  <2>5. ClusterType' /\ CacheType' /\ panicked' \in BOOLEAN
    BY <1>2 DEF GetKMesh, cluster, caches, ClusterType, CacheType
  <2>6. QED
    BY <1>2, <2>4, <2>5, StepType DEF GetKMesh, WorkType, ListerType, CountType
<1>3. CASE CacheClasses(b)
  <2> DEFINE key == <<job[b].spec.kmesh, job[b].base.uid>>
             j == [pc |-> "ingresses", spec |-> job[b].spec, seen |-> job[b].seen,
                   base |-> job[b].base]
  <2>1. key \in KMesh \X Uid
    BY <1>3, JobKey DEF CacheClasses
  <2>2. job[b].spec.classes \in Seq(Class)
    BY <1>3, JobShape, InputsAssumption DEF CacheClasses, BindingSpec
  <2>3. MergedClasses(kmeshCache[key], job[b].spec.classes) \in Seq(Class)
    BY <2>1, <2>2, MergedType DEF CacheType
  <2>4. CacheType'
    BY <1>3, <2>3 DEF CacheClasses, CacheType
  <2>5. j \in Job
    BY <1>3, JobShape DEF CacheClasses, Job
  <2>6. ClusterType'
    BY <1>3 DEF CacheClasses, cluster, ClusterType
  <2>7. QED
    BY <1>3, <2>4, <2>5, <2>6, StepType DEF CacheClasses, WorkType, ListerType, CountType
<1>4. CASE ReconcileIngresses(b)
  <2> DEFINE classes == kmeshCache[<<job[b].spec.kmesh, job[b].base.uid>>]
  <2>1. classes \in Seq(Class)
    BY <1>4, JobKey DEF ReconcileIngresses, CacheType
  <2>2. PICK ingresses \in IngressLists(classes) :
            Step(b, [pc |-> "classes", spec |-> job[b].spec, seen |-> job[b].seen,
                     base |-> job[b].base,
                     after |-> [classes |-> <<>>, ingresses |-> ingresses]])
    BY <1>4 DEF ReconcileIngresses
  <2>3. [classes |-> <<>>, ingresses |-> ingresses] \in KMeshStatus
    BY <2>1, <2>2, IngressListsType DEF KMeshStatus
  <2>4. [pc |-> "classes", spec |-> job[b].spec, seen |-> job[b].seen, base |-> job[b].base,
         after |-> [classes |-> <<>>, ingresses |-> ingresses]] \in Job
    BY <1>4, <2>3, JobShape DEF ReconcileIngresses, Job
  <2>5. \A c \in Class : Reconciled(b, trackedBrokers[c], brokerLister) \in BrokerEntry
    BY DEF Reconciled, CacheType, BrokerEntry, Opt
  <2>6. \A k \in Broker : Reconciled(b, trackedTriggers[k], triggerLister) \in TriggerEntry
    BY DEF Reconciled, CacheType, TriggerEntry, Opt
  <2>7. CacheType'
    BY <1>4, <2>5, <2>6 DEF ReconcileIngresses, CacheType
  <2>8. ClusterType'
    BY <1>4 DEF ReconcileIngresses, cluster, ClusterType
  <2>9. QED
    BY <1>4, <2>2, <2>4, <2>7, <2>8, StepType
       DEF ReconcileIngresses, WorkType, ListerType, CountType
<1>5. CASE ReadClasses(b)
  <2> DEFINE classes == kmeshCache[<<job[b].spec.kmesh, job[b].base.uid>>]
             after == [classes |-> classes, ingresses |-> job[b].after.ingresses]
             j == [pc |-> "patch", spec |-> job[b].spec, seen |-> job[b].seen,
                   base |-> job[b].base, after |-> after]
  <2>1. classes \in Seq(Class)
    BY <1>5, JobKey DEF ReadClasses, CacheType
  <2>2. after \in KMeshStatus
    BY <1>5, <2>1, JobShape DEF ReadClasses, KMeshStatus
  <2>3. Step(b, j)
    BY <1>5 DEF ReadClasses
  <2>4. j \in Job
    <3> HIDE DEF after
    <3>1. QED
      BY <1>5, <2>2, JobShape DEF ReadClasses, Job
  <2>5. ClusterType' /\ CacheType'
    BY <1>5 DEF ReadClasses, cluster, caches, ClusterType, CacheType
  <2>6. QED
    BY <1>5, <2>3, <2>4, <2>5, StepType DEF ReadClasses, WorkType, ListerType, CountType
<1>6. CASE Patch(b)
  <2> DEFINE m == job[b].spec.kmesh
             j(ready) == [pc |-> "status", spec |-> job[b].spec, seen |-> job[b].seen,
                          ready |-> ready]
  <2>1. m \in KMesh
    BY <1>6, JobKey DEF Patch
  <2>2. j("Ready") \in Job /\ j("PatchFailed") \in Job
    BY <1>6, JobShape DEF Patch, Job
  <2>3. PICK applied \in {Accepted(b), FALSE}, answered \in BOOLEAN :
           /\ IF answered THEN UNCHANGED changes ELSE Change("loseCall")
           /\ kmeshes' = IF applied THEN [kmeshes EXCEPT ![m].status = Patched(b).val]
                         ELSE kmeshes
           /\ IF kmeshes' # kmeshes THEN Announce(m) ELSE UNCHANGED unseen
           /\ Step(b, j(IF applied /\ answered THEN "Ready" ELSE "PatchFailed"))
    BY <1>6 DEF Patch
  <2>4. \E k \in Job : Step(b, k)
    <3>1. CASE applied /\ answered
      BY <2>2, <2>3, <3>1
    <3>2. CASE ~(applied /\ answered)
      BY <2>2, <2>3, <3>2
    <3>3. QED
      BY <3>1, <3>2
  <2>5. kmeshes' \in [KMesh -> Opt(KMeshObj)]
    <3>1. CASE applied
      <4>1. Accepted(b)
        BY <2>3, <3>1
      <4>2. Patched(b).val \in KMeshStatus
        BY <4>1 DEF Accepted
      <4>3. kmeshes[m] # None
        BY <4>1 DEF Accepted, Patched, Failed
      <4>4. kmeshes[m] \in KMeshObj
        BY <2>1, <4>3 DEF ClusterType, Opt
      <4>5. kmeshes' = [kmeshes EXCEPT ![m].status = Patched(b).val]
        BY <2>3, <3>1
      <4>6. [kmeshes[m] EXCEPT !.status = Patched(b).val] \in KMeshObj
        BY <4>2, <4>4 DEF KMeshObj
      <4>7. QED
        BY <2>1, <4>5, <4>6 DEF ClusterType, Opt
    <3>2. CASE ~applied
      BY <2>3, <3>2 DEF ClusterType
    <3>3. QED
      BY <3>1, <3>2
  <2>6. ClusterType' /\ CacheType'
    BY <1>6, <2>5 DEF Patch, caches, ClusterType, CacheType
  <2>7. unseen' \subseteq Broker \cup Trigger \cup KMesh \cup Binding
    BY <2>1, <2>3 DEF Announce, ListerType
  <2>8. changes' \in 0..MaxChanges
    BY <2>3, ChangeType DEF CountType
  <2>9. QED
    BY <1>6, <2>4, <2>6, <2>7, <2>8, StepType DEF Patch, WorkType, CountType
<1>7. CASE UpdateStatus(b)
  <2> DEFINE status == [ready |-> job[b].ready, observed |-> job[b].spec]
  <2>1. status \in BindingStatus
    BY <1>7, JobShape DEF UpdateStatus, BindingStatus
  <2>2. PICK stored \in BOOLEAN, answered \in BOOLEAN :
           /\ stored => bindings[b] # None
           /\ IF answered THEN UNCHANGED changes ELSE Change("loseCall")
           /\ bindings' = IF stored THEN [bindings EXCEPT ![b].status = status] ELSE bindings
           /\ IF bindings' # bindings THEN Announce(b) ELSE UNCHANGED unseen
           /\ queue' \in {queue, queue \cup {b}}
    BY <1>7 DEF UpdateStatus
  <2>3. bindings' \in [Binding -> Opt(BindingObj)]
    BY <2>1, <2>2 DEF ClusterType, Opt, BindingObj
  <2>4. ClusterType' /\ CacheType'
    BY <1>7, <2>3 DEF UpdateStatus, caches, ClusterType, CacheType
  <2>5. unseen' \subseteq Broker \cup Trigger \cup KMesh \cup Binding
    BY <2>2 DEF Announce, ListerType
  <2>6. queue' \subseteq Binding /\ panicked' \in BOOLEAN
    BY <1>7, <2>2 DEF UpdateStatus, WorkType, CountType
  <2>7. changes' \in 0..MaxChanges
    BY <2>2, ChangeType DEF CountType
  <2>8. Step(b, Idle) /\ Idle \in Job
    BY <1>7 DEF UpdateStatus, Idle, Job
  <2>9. QED
    BY <2>4, <2>5, <2>6, <2>7, <2>8, StepType
<1>8. QED
  BY <1>1, <1>2, <1>3, <1>4, <1>5, <1>6, <1>7 DEF Work

\* Every step keeps the types.
LEMMA NextType == TypeOK /\ PastFilter /\ MeshKnown /\ [Next]_vars => TypeOK'
<1> SUFFICES ASSUME TypeOK, PastFilter, MeshKnown, [Next]_vars PROVE TypeOK'
  OBVIOUS
<1>1. CASE Environment
  BY <1>1, EnvironmentType
<1>2. CASE Informers
  BY <1>2, InformersType
<1>3. CASE Resync
  BY <1>3, ResyncType
<1>4. CASE Restart
  BY <1>4, RestartType
<1>5. ASSUME NEW b \in Binding, Start(b) \/ Work(b) PROVE TypeOK'
  BY <1>5, WorkersType
<1>6. CASE UNCHANGED vars
  BY <1>6 DEF vars, cluster, process, listers, events, caches, work, TypeOK, ClusterType,
              ListerType, EventType, CacheType, WorkType, CountType
<1>7. QED
  BY <1>1, <1>2, <1>3, <1>4, <1>5, <1>6 DEF Next
=============================================================================
