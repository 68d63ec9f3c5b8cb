--------------------------- MODULE BrokerBinding ---------------------------
(***************************************************************************)
(* The brokerbinding controller of K-Mesh: its reconciler, the broker and  *)
(* trigger event handlers that share three caches with it under cacheLock, *)
(* the tracker that wakes it, and the cluster it observes.                 *)
(*                                                                         *)
(* A BrokerBinding registers broker classes in a KMesh.  The controller    *)
(* publishes in KMesh.Status the classes registered, the ready brokers of  *)
(* those classes (ingresses) and, under each, its ready triggers           *)
(* (egresses).                                                             *)
(*                                                                         *)
(* Three views of a broker are kept by three independent watches: the API  *)
(* server's object, the copy in the broker informer's lister (what a       *)
(* reconcile reads), and the resolver's duck informer, whose events wake   *)
(* the binding.  Nothing orders the last two.                              *)
(*                                                                         *)
(* Abstractions.  A name stands for a namespace/name pair and a trigger is *)
(* in the namespace of its broker.  A lister entry lags the API server     *)
(* object by object: reading several entries in one critical section is    *)
(* one step, since each of them may be arbitrarily old anyway.  The        *)
(* changes of an object an informer has yet to see are handled as one: its *)
(* lister goes to the present object at once, with one event (KMeshStatus  *)
(* has the versions of a mesh one by one).  The handler of a lister update *)
(* that only enqueues a key runs with the update.  A rate-limited requeue  *)
(* is an entry of the queue (the delay is the scheduling of Start).        *)
(* Subscribers are URIs, which the resolver does not track.  A throw of    *)
(* the Go runtime on an unlocked map access is an instance of Restart.  A  *)
(* replica that loses its lease stops at once: what one that runs on still *)
(* patches is in KMeshStatus and Replicas, and one that leads again does   *)
(* so with empty caches.                                                   *)
(***************************************************************************)
EXTENDS Integers, Sequences, FiniteSets, JSONPatch

CONSTANTS
    Binding, KMesh, Broker, Trigger,   \* names
    Class,            \* broker classes
    Spec0,            \* the BrokerBinding specs users may write
    ListOf,           \* sets.String.List: a set of classes, sorted
    None,             \* nil, an absent object, an absent annotation
    Threads,          \* workers of the controller (DefaultThreadsPerController)
    \* the cluster the controller starts in
    Brokers0, Triggers0, KMeshes0, Bindings0,
    \* what users and the eventing controllers may do to it, and the network
    Changes,          \* kinds of change, a subset of AllChanges
    ClassesOf,        \* classes a broker of a given name may be created with
    BrokersOf,        \* brokers a trigger of a given name may be created for
    MaxChanges,       \* bound on the number of changes
    MaxUid,           \* bound on the incarnations of one name
    MaxRestarts,      \* bound on the restarts of the controller
    Resyncs           \* when the informers' periodic resync may happen

AllChanges == {"createBroker", "deleteBroker", "readyBroker",
               "createTrigger", "deleteTrigger", "readyTrigger",
               "createKMesh", "deleteKMesh",
               "createBinding", "updateBinding", "deleteBinding",
               "loseCall"}

Uid == 1..MaxUid

\* mesh/v1alpha1 types, cut down to the fields the controller reads or writes.
BindingSpec   == [kmesh : KMesh \cup {None}, classes : Seq(Class) \ {<<>>}]
BindingStatus == [ready : {"none", "Ready", "NoKMesh", "PatchFailed"},
                  observed : Spec0 \cup {None}]
BindingObj    == [spec : Spec0, status : BindingStatus]
Ingress       == [name : Broker, egresses : Seq(Trigger)]
KMeshStatus   == [classes : Seq(Class), ingresses : Seq(Ingress)]
KMeshObj      == [uid : Uid, init : BOOLEAN, status : KMeshStatus]
\* eventing v1 objects
BrokerObj     == [uid : Uid, class : Class \cup {None}, ready : BOOLEAN]
TriggerObj    == [uid : Uid, broker : Broker, ready : BOOLEAN]
\* what the handlers keep of an object they are notified of
BrokerEvent   == [name : Broker, uid : Uid, class : Class \cup {None}]
TriggerEvent  == [name : Trigger, uid : Uid, broker : Broker]

Opt(S) == S \cup {None}

ASSUME BoundsAssumption ==
    /\ Threads \in Nat \ {0} /\ MaxChanges \in Nat
    /\ MaxUid \in Nat \ {0} /\ MaxRestarts \in Nat
    /\ Resyncs \in {"never", "settled", "anytime"} /\ Changes \subseteq AllChanges

ASSUME NamesAssumption ==
    /\ IsFiniteSet(Binding) /\ IsFiniteSet(Broker)
    /\ IsFiniteSet(Trigger) /\ IsFiniteSet(Class)
    /\ Binding \cap (Broker \cup Trigger \cup KMesh) = {}
    /\ Broker \cap (Trigger \cup KMesh) = {} /\ Trigger \cap KMesh = {}
    /\ None \notin Binding \cup KMesh \cup Class
    /\ None \notin BrokerObj \cup TriggerObj \cup KMeshObj \cup BindingObj
    /\ None \notin BrokerEvent \cup TriggerEvent

ASSUME InputsAssumption ==
    /\ Spec0 \subseteq BindingSpec
    /\ ClassesOf \in [Broker -> SUBSET (Class \cup {None})]
    /\ BrokersOf \in [Trigger -> SUBSET Broker]
    /\ Brokers0 \in [Broker -> Opt(BrokerObj)]
    /\ Triggers0 \in [Trigger -> Opt(TriggerObj)]
    /\ KMeshes0 \in [KMesh -> Opt(KMeshObj)]
    /\ Bindings0 \in [Binding -> Opt(BindingObj)]

\* apimachinery's sets.String: List returns every element once.
ASSUME ListOfAssumption ==
    \A S \in SUBSET Class : ListOf[S] \in Seq(Class) /\ ToSet(ListOf[S]) = S

VARIABLES
    \* the API server
    brokers, triggers, kmeshes, bindings,
    born,             \* incarnations of each name so far
    changes,          \* changes made so far, at most MaxChanges
    \* the informers of the controller: listers and their notifications
    unseen,           \* names whose last change an informer has yet to see
    brokerLister, triggerLister, kmeshLister, bindingLister,
    brokerEvents, triggerEvents,   \* not yet seen by the filter, oldest first
    brokerEvent, triggerEvent,     \* past the filter, waiting for cacheLock
    \* Reconciler: fields of the struct, guarded by cacheLock
    kmeshCache,       \* KMesh UID -> classes; absent is <<>>
    trackedBrokers,   \* class -> [owner, refs]; absent has owner None
    trackedTriggers,  \* broker -> [owner, refs]; absent has owner None
    \* the tracker and the resolver's duck informer for brokers
    tracker,          \* <<broker, binding>>: a change of one wakes the other
    duck,             \* [started, pending]: brokers it has an event for
    \* the work queue and its workers
    queue, job,
    panicked,         \* a Go panic has killed the process
    restarts          \* restarts so far, at most MaxRestarts

cluster   == <<brokers, triggers, kmeshes, bindings, born>>
listers   == <<unseen, brokerLister, triggerLister, kmeshLister, bindingLister>>
events    == <<brokerEvents, triggerEvents, brokerEvent, triggerEvent>>
caches    == <<kmeshCache, trackedBrokers, trackedTriggers>>
work      == <<tracker, duck, queue, job>>
process   == <<listers, events, caches, work, panicked>>
vars      == <<cluster, changes, process, restarts>>

---------------------------------------------------------------------------
(* Shapes                                                                   *)

\* A worker between two steps of ReconcileKind; a field is there as long as
\* the code still uses it.  `seen' is the status of the lister's copy, `base'
\* the lister's copy of the KMesh, `after' the status the patch leads to.
Idle == [pc |-> "idle"]
Job  == [pc : {"idle"}]
          \cup [pc : {"getKMesh"}, spec : Spec0, seen : BindingStatus]
          \cup [pc : {"cacheClasses", "ingresses"}, spec : Spec0,
                seen : BindingStatus, base : KMeshObj]
          \cup [pc : {"classes", "patch"}, spec : Spec0,
                seen : BindingStatus, base : KMeshObj, after : KMeshStatus]
          \cup [pc : {"status"}, spec : Spec0, seen : BindingStatus,
                ready : {"Ready", "NoKMesh", "PatchFailed"}]

BrokerEntry  == [owner : Opt(Binding), refs : SUBSET (Broker \X Uid)]
TriggerEntry == [owner : Opt(Binding), refs : SUBSET (Trigger \X Uid)]
NoEntry      == [owner |-> None, refs |-> {}]

NoStatus == [classes |-> <<>>, ingresses |-> <<>>]

ClusterType ==
    /\ brokers \in [Broker -> Opt(BrokerObj)]
    /\ triggers \in [Trigger -> Opt(TriggerObj)]
    /\ kmeshes \in [KMesh -> Opt(KMeshObj)]
    /\ bindings \in [Binding -> Opt(BindingObj)]
    /\ born \in [Broker \cup Trigger \cup KMesh -> 0..MaxUid]

ListerType ==
    /\ unseen \subseteq Broker \cup Trigger \cup KMesh \cup Binding
    /\ brokerLister \in [Broker -> Opt(BrokerObj)]
    /\ triggerLister \in [Trigger -> Opt(TriggerObj)]
    /\ kmeshLister \in [KMesh -> Opt(KMeshObj)]
    /\ bindingLister \in [Binding -> Opt(BindingObj)]

EventType ==
    /\ brokerEvents \in Seq(BrokerEvent) /\ brokerEvent \in Opt(BrokerEvent)
    /\ triggerEvents \in Seq(TriggerEvent) /\ triggerEvent \in Opt(TriggerEvent)

CacheType ==
    /\ kmeshCache \in [KMesh \X Uid -> Seq(Class)]
    /\ trackedBrokers \in [Class -> BrokerEntry]
    /\ trackedTriggers \in [Broker -> TriggerEntry]

WorkType ==
    /\ tracker \subseteq Broker \X Binding
    /\ duck \in [started : BOOLEAN, pending : SUBSET Broker]
    /\ queue \subseteq Binding
    /\ job \in [Binding -> Job]

CountType ==
    /\ changes \in 0..MaxChanges /\ restarts \in 0..MaxRestarts
    /\ panicked \in BOOLEAN

TypeOK == ClusterType /\ ListerType /\ EventType /\ CacheType /\ WorkType /\ CountType

---------------------------------------------------------------------------
(* Start of the process                                                     *)

Existing(objs) == {x \in DOMAIN objs : objs[x] # None}

\* The elements of a set in some order: Go iterates over a map at random.
Orders(S) == {o \in [1..Cardinality(S) -> S] : S \subseteq ToSet(o)}

BrokerAdds(objs) ==
    {[name |-> k, uid |-> objs[k].uid, class |-> objs[k].class] : k \in Existing(objs)}

TriggerAdds(objs) ==
    {[name |-> t, uid |-> objs[t].uid, broker |-> objs[t].broker] : t \in Existing(objs)}

NoClasses  == [m \in KMesh \X Uid |-> <<>>]
NoBrokers  == [c \in Class |-> NoEntry]
NoTriggers == [k \in Broker |-> NoEntry]

\* NewController, and the informers filled by their first list: each of them
\* then notifies its handlers of every object, and the binding informer
\* enqueues every binding.
Init ==
    /\ brokers = Brokers0 /\ triggers = Triggers0
    /\ kmeshes = KMeshes0 /\ bindings = Bindings0
    /\ born = [x \in Broker \cup Trigger \cup KMesh |->
                  IF \/ x \in Existing(Brokers0) \/ x \in Existing(Triggers0)
                     \/ x \in Existing(KMeshes0)
                  THEN 1 ELSE 0]
    /\ changes = 0
    /\ unseen = {}
    /\ brokerLister = brokers /\ triggerLister = triggers
    /\ kmeshLister = kmeshes /\ bindingLister = bindings
    /\ brokerEvents \in Orders(BrokerAdds(brokers))
    /\ triggerEvents \in Orders(TriggerAdds(triggers))
    /\ brokerEvent = None /\ triggerEvent = None
    /\ kmeshCache = NoClasses /\ trackedBrokers = NoBrokers /\ trackedTriggers = NoTriggers
    /\ tracker = {}
    /\ duck = [started |-> FALSE, pending |-> {}]
    /\ queue = Existing(bindings)
    /\ job = [b \in Binding |-> Idle]
    /\ panicked = FALSE
    /\ restarts = 0

\* A new process lists the cluster and is notified of every object again.
FreshInformers ==
    /\ unseen' = {}
    /\ brokerLister' = brokers /\ triggerLister' = triggers
    /\ kmeshLister' = kmeshes /\ bindingLister' = bindings
    /\ brokerEvents' \in Orders(BrokerAdds(brokers))
    /\ triggerEvents' \in Orders(TriggerAdds(triggers))

\* A standby has been watching all along, with informers that lag too, and its
\* filters have let nothing through.
StandbyInformers ==
    /\ UNCHANGED listers
    /\ brokerEvents' = <<>> /\ triggerEvents' = <<>>

\* Mutant: a new leader waits for the bindings to change.
PromotedNone(lister) == {}

\* PromoteFunc enqueues every binding of the lister.
Promoted(lister) == Existing(lister)

\* The process dies and starts again, or its lease passes to a standby: the
\* caches of the new leader are empty.
Restart ==
    /\ restarts < MaxRestarts
    /\ restarts' = restarts + 1
    /\ FreshInformers \/ StandbyInformers
    /\ brokerEvent' = None /\ triggerEvent' = None
    /\ kmeshCache' = NoClasses /\ trackedBrokers' = NoBrokers /\ trackedTriggers' = NoTriggers
    /\ tracker' = {}
    /\ duck' = [started |-> FALSE, pending |-> {}]
    /\ queue' = Promoted(bindingLister')
    /\ job' = [b \in Binding |-> Idle]
    /\ panicked' = FALSE
    /\ UNCHANGED <<cluster, changes>>

---------------------------------------------------------------------------
(* The environment: users, and the controllers of Knative Eventing          *)

Change(kind) ==
    /\ kind \in Changes
    /\ changes < MaxChanges
    /\ changes' = changes + 1

\* A new object under the name x gets a UID no earlier object of that name had.
Bear(x) == born[x] < MaxUid /\ born' = [born EXCEPT ![x] = @ + 1]

copies == <<brokerLister, triggerLister, kmeshLister, bindingLister>>

\* Every write to the API server is announced to the informer of its kind.
Announce(x) == unseen' = unseen \cup {x}

\* The duck informer, once started, watches every broker too.
BrokerChanged(k) ==
    /\ Announce(k)
    /\ duck' = IF duck.started THEN [duck EXCEPT !.pending = @ \cup {k}] ELSE duck
    /\ UNCHANGED <<triggers, kmeshes, bindings, copies, events, caches, tracker, queue, job,
                   panicked, restarts>>

\* The class annotation is immutable; the status of a new object is empty.
CreateBroker(k, c) ==
    /\ Change("createBroker") /\ brokers[k] = None
    /\ Bear(k)
    /\ brokers' = [brokers EXCEPT ![k] = [uid |-> born[k] + 1, class |-> c, ready |-> FALSE]]
    /\ BrokerChanged(k)

ReadyBroker(k) ==
    /\ Change("readyBroker") /\ brokers[k] # None
    /\ brokers' = [brokers EXCEPT ![k].ready = ~@]
    /\ BrokerChanged(k) /\ UNCHANGED born

DeleteBroker(k) ==
    /\ Change("deleteBroker") /\ brokers[k] # None
    /\ brokers' = [brokers EXCEPT ![k] = None]
    /\ BrokerChanged(k) /\ UNCHANGED born

Changed(x) ==
    /\ Announce(x)
    /\ UNCHANGED <<copies, events, caches, work, panicked, restarts>>

\* The broker of a trigger is immutable.
CreateTrigger(t, k) ==
    /\ Change("createTrigger") /\ triggers[t] = None
    /\ Bear(t)
    /\ triggers' = [triggers EXCEPT ![t] = [uid |-> born[t] + 1, broker |-> k, ready |-> FALSE]]
    /\ Changed(t) /\ UNCHANGED <<brokers, kmeshes, bindings>>

ReadyTrigger(t) ==
    /\ Change("readyTrigger") /\ triggers[t] # None
    /\ triggers' = [triggers EXCEPT ![t].ready = ~@]
    /\ Changed(t) /\ UNCHANGED <<brokers, kmeshes, bindings, born>>

DeleteTrigger(t) ==
    /\ Change("deleteTrigger") /\ triggers[t] # None
    /\ triggers' = [triggers EXCEPT ![t] = None]
    /\ Changed(t) /\ UNCHANGED <<brokers, kmeshes, bindings, born>>

CreateKMesh(m) ==
    /\ Change("createKMesh") /\ kmeshes[m] = None
    /\ Bear(m)
    /\ kmeshes' = [kmeshes EXCEPT ![m] =
                      [uid |-> born[m] + 1, init |-> FALSE, status |-> NoStatus]]
    /\ Changed(m) /\ UNCHANGED <<brokers, triggers, bindings>>

DeleteKMesh(m) ==
    /\ Change("deleteKMesh") /\ kmeshes[m] # None
    /\ kmeshes' = [kmeshes EXCEPT ![m] = None]
    /\ Changed(m) /\ UNCHANGED <<brokers, triggers, bindings, born>>

NewBinding(s) == [spec |-> s, status |-> [ready |-> "none", observed |-> None]]

CreateBinding(b, s) ==
    /\ Change("createBinding") /\ bindings[b] = None
    /\ bindings' = [bindings EXCEPT ![b] = NewBinding(s)]
    /\ Changed(b) /\ UNCHANGED <<brokers, triggers, kmeshes, born>>

UpdateBinding(b, s) ==
    /\ Change("updateBinding") /\ bindings[b] # None /\ bindings[b].spec # s
    /\ bindings' = [bindings EXCEPT ![b].spec = s]
    /\ Changed(b) /\ UNCHANGED <<brokers, triggers, kmeshes, born>>

DeleteBinding(b) ==
    /\ Change("deleteBinding") /\ bindings[b] # None
    /\ bindings' = [bindings EXCEPT ![b] = None]
    /\ Changed(b) /\ UNCHANGED <<brokers, triggers, kmeshes, born>>

\* The kmesh reconciler's first update gives a new KMesh its status: before,
\* the stored object has no /status member.
InitKMesh(m) ==
    /\ ~panicked
    /\ kmeshLister[m] # None /\ kmeshes[m] # None /\ ~kmeshes[m].init
    /\ kmeshes' = [kmeshes EXCEPT ![m].init = TRUE]
    /\ Changed(m) /\ UNCHANGED <<brokers, triggers, bindings, born, changes>>

---------------------------------------------------------------------------
(* Informers                                                                *)

SyncBroker(k) ==
    /\ ~panicked
    /\ k \in unseen
    /\ unseen' = unseen \ {k}
    /\ brokerLister' = [brokerLister EXCEPT ![k] = brokers[k]]
    /\ brokerEvents' =
          IF brokers[k] = None THEN brokerEvents
          ELSE Append(brokerEvents,
                      [name |-> k, uid |-> brokers[k].uid, class |-> brokers[k].class])
    /\ UNCHANGED <<cluster, changes, triggerLister, kmeshLister, bindingLister, triggerEvents,
                   brokerEvent, triggerEvent, caches, work, panicked, restarts>>

SyncTrigger(t) ==
    /\ ~panicked
    /\ t \in unseen
    /\ unseen' = unseen \ {t}
    /\ triggerLister' = [triggerLister EXCEPT ![t] = triggers[t]]
    /\ triggerEvents' =
          IF triggers[t] = None THEN triggerEvents
          ELSE Append(triggerEvents,
                      [name |-> t, uid |-> triggers[t].uid, broker |-> triggers[t].broker])
    /\ UNCHANGED <<cluster, changes, brokerLister, kmeshLister, bindingLister, brokerEvents,
                   brokerEvent, triggerEvent, caches, work, panicked, restarts>>

\* The brokerbinding controller has no handler on the KMesh informer.
SyncKMesh(m) ==
    /\ ~panicked
    /\ m \in unseen
    /\ unseen' = unseen \ {m}
    /\ kmeshLister' = [kmeshLister EXCEPT ![m] = kmeshes[m]]
    /\ UNCHANGED <<cluster, changes, brokerLister, triggerLister, bindingLister, events, caches,
                   work, panicked, restarts>>

\* HandleAll(impl.Enqueue): additions, updates and deletions alike.
SyncBinding(b) ==
    /\ ~panicked
    /\ b \in unseen
    /\ unseen' = unseen \ {b}
    /\ bindingLister' = [bindingLister EXCEPT ![b] = bindings[b]]
    /\ queue' = queue \cup {b}
    /\ UNCHANGED <<cluster, changes, brokerLister, triggerLister, kmeshLister, events, caches,
                   tracker, duck, job, panicked, restarts>>

\* The filters read the caches without taking cacheLock.
FilterBroker ==
    /\ ~panicked
    /\ brokerEvents # <<>> /\ brokerEvent = None
    /\ LET e == Head(brokerEvents)
       IN  brokerEvent' =
              IF e.class # None /\ trackedBrokers[e.class].owner # None THEN e ELSE None
    /\ brokerEvents' = Tail(brokerEvents)
    /\ UNCHANGED <<cluster, changes, listers, triggerEvents, triggerEvent, caches, work, panicked,
                   restarts>>

\* Mutant: the filter passes the triggers that are known already.
FilterTriggerKnown ==
    /\ ~panicked
    /\ triggerEvents # <<>> /\ triggerEvent = None
    /\ LET e == Head(triggerEvents)
       IN  triggerEvent' = IF <<e.name, e.uid>> \in trackedTriggers[e.broker].refs THEN e ELSE None
    /\ triggerEvents' = Tail(triggerEvents)
    /\ UNCHANGED <<cluster, changes, listers, brokerEvents, brokerEvent, caches, work, panicked,
                   restarts>>

FilterTrigger ==
    /\ ~panicked
    /\ triggerEvents # <<>> /\ triggerEvent = None
    /\ LET e == Head(triggerEvents)
       IN  triggerEvent' = IF trackedTriggers[e.broker].owner # None THEN e ELSE None
    /\ triggerEvents' = Tail(triggerEvents)
    /\ UNCHANGED <<cluster, changes, listers, brokerEvents, brokerEvent, caches, work, panicked,
                   restarts>>

\* Mutant: the handler only remembers the broker.
TrackNothing(k, b) ==
    UNCHANGED <<tracker, duck, queue>>

\* The resolver tracks broker k for binding b, which wakes b the first time
\* only, and starts the duck informer, which announces every broker there is.
Track(k, b) ==
    /\ tracker' = tracker \cup {<<k, b>>}
    /\ queue' = IF <<k, b>> \in tracker THEN queue ELSE queue \cup {b}
    /\ duck' = IF duck.started THEN duck
               ELSE [started |-> TRUE, pending |-> Existing(brokers)]

\* brokersHandler: a write to the nil map of an absent entry panics.
HandleBroker ==
    /\ ~panicked
    /\ brokerEvent # None
    /\ brokerEvent' = None
    /\ LET c == brokerEvent.class
           k == brokerEvent.name
           owner == trackedBrokers[c].owner
       IN  IF owner = None
           THEN panicked' = TRUE /\ UNCHANGED <<trackedBrokers, tracker, duck, queue>>
           ELSE /\ trackedBrokers' =
                      [trackedBrokers EXCEPT ![c].refs = @ \cup {<<k, brokerEvent.uid>>}]
                /\ Track(k, owner)
                /\ UNCHANGED panicked
    /\ UNCHANGED <<cluster, changes, listers, brokerEvents, triggerEvents, triggerEvent,
                   kmeshCache, trackedTriggers, job, restarts>>

\* triggerHandler: the owner of the broker's entry is always enqueued.
HandleTrigger ==
    /\ ~panicked
    /\ triggerEvent # None
    /\ triggerEvent' = None
    /\ LET k == triggerEvent.broker
           owner == trackedTriggers[k].owner
       IN  IF owner = None
           THEN panicked' = TRUE /\ UNCHANGED <<trackedTriggers, queue>>
           ELSE /\ trackedTriggers' =
                      [trackedTriggers EXCEPT
                         ![k].refs = @ \cup {<<triggerEvent.name, triggerEvent.uid>>}]
                /\ queue' = queue \cup {owner}
                /\ UNCHANGED panicked
    /\ UNCHANGED <<cluster, changes, listers, brokerEvents, triggerEvents, brokerEvent,
                   kmeshCache, trackedBrokers, tracker, duck, job, restarts>>

\* An event of the duck informer: tracker.OnChanged enqueues the observers.
DuckEvent(k) ==
    /\ ~panicked
    /\ k \in duck.pending
    /\ duck' = [duck EXCEPT !.pending = @ \ {k}]
    /\ queue' = queue \cup {b \in Binding : <<k, b>> \in tracker}
    /\ UNCHANGED <<cluster, changes, listers, events, caches, tracker, job, panicked, restarts>>

\* Nothing is in flight anywhere in the controller.
Settled ==
    /\ unseen = {}
    /\ brokerEvents = <<>> /\ triggerEvents = <<>>
    /\ brokerEvent = None /\ triggerEvent = None
    /\ duck.pending = {} /\ queue = {} /\ \A b \in Binding : job[b] = Idle

\* Every resync period (ten hours) each informer notifies its handlers of every
\* object of its lister.  The timers of the informers are independent; the
\* notifications of one period wait for each other in any order.  "settled"
\* supposes that the controller comes to rest within a period; "anytime" only
\* that the handlers are done with the previous one.
Resync ==
    /\ ~panicked
    /\ \/ Resyncs = "settled" /\ Settled
       \/ Resyncs = "anytime" /\ brokerEvents = <<>> /\ triggerEvents = <<>>
    /\ brokerEvents' \in Orders(BrokerAdds(brokerLister))
    /\ triggerEvents' \in Orders(TriggerAdds(triggerLister))
    /\ duck' = IF duck.started THEN [duck EXCEPT !.pending = @ \cup Existing(brokers)] ELSE duck
    /\ queue' = queue \cup Existing(bindingLister)
    /\ UNCHANGED <<cluster, changes, listers, brokerEvent, triggerEvent, caches, tracker, job,
                   panicked, restarts>>

---------------------------------------------------------------------------
(* The workers: the generated Reconcile around ReconcileKind                *)

Active == {b \in Binding : job[b].pc # "idle"}

Step(b, j) ==
    /\ job' = [job EXCEPT ![b] = j]
    /\ UNCHANGED <<copies, events, tracker, duck, restarts>>

\* Mutant: a binding already Ready for its spec is not reconciled again.
StartUnlessReady(b) ==
    /\ ~panicked
    /\ b \in queue /\ b \notin Active /\ Cardinality(Active) < Threads
    /\ queue' = queue \ {b}
    /\ Step(b, IF \/ bindingLister[b] = None
                  \/ bindingLister[b].status = [ready    |-> "Ready",
                                                observed |-> bindingLister[b].spec]
               THEN Idle
               ELSE [pc |-> "getKMesh", spec |-> bindingLister[b].spec,
                     seen |-> bindingLister[b].status])
    /\ UNCHANGED <<cluster, changes, unseen, caches, panicked>>

\* A worker takes a key; the queue hands a key to one worker at a time, and
\* one added meanwhile stays in the queue.  A binding that is gone is dropped.
Start(b) ==
    /\ ~panicked
    /\ b \in queue /\ b \notin Active /\ Cardinality(Active) < Threads
    /\ queue' = queue \ {b}
    /\ Step(b, IF bindingLister[b] = None THEN Idle
               ELSE [pc |-> "getKMesh", spec |-> bindingLister[b].spec,
                     seen |-> bindingLister[b].status])
    /\ UNCHANGED <<cluster, changes, unseen, caches, panicked>>

\* Mutant: no early return when the KMesh is not found.
GetKMeshUnchecked(b) ==
    /\ ~panicked
    /\ job[b].pc = "getKMesh"
    /\ Step(b, [pc |-> "cacheClasses", spec |-> job[b].spec, seen |-> job[b].seen,
                base |-> kmeshLister[job[b].spec.kmesh]])
    /\ UNCHANGED <<cluster, changes, unseen, caches, queue, panicked>>

\* reconcileKMesh reads the KMesh lister; spec.kmesh is dereferenced unchecked.
GetKMesh(b) ==
    /\ ~panicked
    /\ job[b].pc = "getKMesh"
    /\ LET m == job[b].spec.kmesh
       IN  /\ panicked' = (m = None)
           /\ Step(b, IF m = None THEN job[b]
                      ELSE IF kmeshLister[m] = None
                      THEN [pc |-> "status", spec |-> job[b].spec, seen |-> job[b].seen,
                            ready |-> "NoKMesh"]
                      ELSE [pc |-> "cacheClasses", spec |-> job[b].spec, seen |-> job[b].seen,
                            base |-> kmeshLister[m]])
    /\ UNCHANGED <<cluster, changes, unseen, caches, queue>>

\* Mutant: the last binding reconciled decides.
LastClasses(cached, classes) == classes

\* The classes of a mesh: those cached for it and those of one more binding.
MergedClasses(cached, classes) ==
    IF cached = <<>> THEN classes ELSE ListOf[ToSet(cached) \cup ToSet(classes)]

\* First critical section: the classes of the mesh, a union that only grows.
CacheClasses(b) ==
    /\ ~panicked
    /\ job[b].pc = "cacheClasses"
    /\ LET key == <<job[b].spec.kmesh, job[b].base.uid>>
       IN  kmeshCache' =
              [kmeshCache EXCEPT ![key] = MergedClasses(@, job[b].spec.classes)]
    /\ Step(b, [pc |-> "ingresses", spec |-> job[b].spec, seen |-> job[b].seen,
                base |-> job[b].base])
    /\ UNCHANGED <<cluster, changes, unseen, trackedBrokers, trackedTriggers, queue, panicked>>

\* The triggers of a broker the reconciler lists: found by name and ready.
ReadyTriggers(k) ==
    {ref \in trackedTriggers[k].refs :
        triggerLister[ref[1]] # None /\ triggerLister[ref[1]].ready}

\* Egress lists a pass over the map triggerRefs may produce.
EgressLists(k) ==
    {[i \in DOMAIN o |-> o[i][1]] : o \in Orders(ReadyTriggers(k))}

\* Mutant: the Ready condition of a broker is not looked at.
AllEntries(classes) ==
    {e \in (DOMAIN classes) \X Broker \X Uid :
        /\ <<e[2], e[3]>> \in trackedBrokers[classes[e[1]]].refs
        /\ brokerLister[e[2]] # None}

\* One <<position of the class, broker, UID>> for each ingress appended.
Entries(classes) ==
    {e \in (DOMAIN classes) \X Broker \X Uid :
        /\ <<e[2], e[3]>> \in trackedBrokers[classes[e[1]]].refs
        /\ brokerLister[e[2]] # None /\ brokerLister[e[2]].ready}

\* Ingress lists: the classes in order, the brokers of a class in any order.
IngressLists(classes) ==
    LET entries == Entries(classes)
        lists == UNION {EgressLists(k) : k \in {e[2] : e \in entries}}
    IN  {[i \in DOMAIN o |-> [name |-> o[i][2], egresses |-> egr[o[i]]]] :
            o \in {p \in Orders(entries) :
                      \A i, j \in DOMAIN p : i < j => p[i][1] =< p[j][1]},
            egr \in {f \in [entries -> lists] : \A e \in entries : f[e] \in EgressLists(e[2])}}

\* Mutant: the entry goes with its last reference.
ReconciledAway(b, entry, lister) ==
    LET refs == {ref \in entry.refs : lister[ref[1]] # None}
    IN  IF entry.refs # {} /\ refs = {} THEN NoEntry
        ELSE [owner |-> IF entry.owner = None THEN b ELSE entry.owner, refs |-> refs]

\* An entry after a pass of binding b over it: its owner is the binding that
\* came first, and references to names that are gone are dropped.
Reconciled(b, entry, lister) ==
    [owner |-> IF entry.owner = None THEN b ELSE entry.owner,
     refs  |-> {ref \in entry.refs : lister[ref[1]] # None}]

\* Second critical section, reconcileIngresses: a class or ready broker seen
\* for the first time gets an entry owned by this binding, references to
\* objects that are gone are dropped, and the ingress list is built.
ReconcileIngresses(b) ==
    /\ ~panicked
    /\ job[b].pc = "ingresses"
    /\ LET classes == kmeshCache[<<job[b].spec.kmesh, job[b].base.uid>>]
           listed == {e[2] : e \in Entries(classes)}
       IN  /\ \E ingresses \in IngressLists(classes) :
                 Step(b, [pc |-> "classes", spec |-> job[b].spec, seen |-> job[b].seen,
                          base |-> job[b].base,
                          after |-> [classes |-> <<>>, ingresses |-> ingresses]])
           /\ trackedBrokers' =
                 [c \in Class |->
                     IF c \in ToSet(classes) THEN Reconciled(b, trackedBrokers[c], brokerLister)
                     ELSE trackedBrokers[c]]
           /\ trackedTriggers' =
                 [k \in Broker |->
                     IF k \in listed THEN Reconciled(b, trackedTriggers[k], triggerLister)
                     ELSE trackedTriggers[k]]
    /\ UNCHANGED <<cluster, changes, unseen, kmeshCache, queue, panicked>>

\* kmeshCache is read again, without cacheLock, for the patch.
ReadClasses(b) ==
    /\ ~panicked
    /\ job[b].pc = "classes"
    /\ Step(b, [pc |-> "patch", spec |-> job[b].spec, seen |-> job[b].seen, base |-> job[b].base,
                after |-> [classes   |-> kmeshCache[<<job[b].spec.kmesh, job[b].base.uid>>],
                           ingresses |-> job[b].after.ingresses]])
    /\ UNCHANGED <<cluster, changes, unseen, caches, queue, panicked>>

\* What the API server makes of the patch of a worker: it applies it to the
\* object it has under that name.
Patched(b) ==
    LET obj == kmeshes[job[b].spec.kmesh]
    IN  IF obj = None THEN Failed
        ELSE PatchStatus(job[b].base.status, job[b].after, obj.status, obj.init)

\* It refuses a status the schema of the CRD does not allow.
Accepted(b) == Patched(b).ok /\ Patched(b).val \in KMeshStatus

\* The call is answered, or (an error of the client, "loseCall") fails before
\* or after the server has applied the patch.
Patch(b) ==
    /\ ~panicked
    /\ job[b].pc = "patch"
    /\ LET m == job[b].spec.kmesh
       IN  \E applied \in {Accepted(b), FALSE}, answered \in BOOLEAN :
              /\ answered => applied = Accepted(b)
              /\ IF answered THEN UNCHANGED changes ELSE Change("loseCall")
              /\ kmeshes' = IF applied THEN [kmeshes EXCEPT ![m].status = Patched(b).val]
                            ELSE kmeshes
              /\ IF kmeshes' # kmeshes THEN Announce(m) ELSE UNCHANGED unseen
              /\ Step(b, [pc |-> "status", spec |-> job[b].spec, seen |-> job[b].seen,
                          ready |-> IF applied /\ answered THEN "Ready" ELSE "PatchFailed"])
    /\ UNCHANGED <<brokers, triggers, bindings, born, caches, queue, panicked>>

\* Mutant: only the Ready condition is compared.
ReadyDiffers(status, seen) == status.ready # seen.ready

\* The status is written only if it differs from that of the lister's copy.
StatusDiffers(status, seen) == status # seen

\* PostProcessReconcile and updateStatus: nothing is written when the status
\* equals that of the lister's copy; a conflict is retried on a fresh copy; an
\* error of the reconcile, or of a call, requeues the key.
UpdateStatus(b) ==
    /\ ~panicked
    /\ job[b].pc = "status"
    /\ LET status == [ready |-> job[b].ready, observed |-> job[b].spec]
           write  == StatusDiffers(status, job[b].seen)
       IN  \E stored \in {write /\ bindings[b] # None, FALSE}, answered \in BOOLEAN :
              /\ answered => stored = (write /\ bindings[b] # None)
              /\ IF answered THEN UNCHANGED changes ELSE write /\ Change("loseCall")
              /\ bindings' = IF stored THEN [bindings EXCEPT ![b].status = status] ELSE bindings
              /\ IF bindings' # bindings THEN Announce(b) ELSE UNCHANGED unseen
              /\ queue' = IF job[b].ready = "Ready" /\ write = stored /\ answered THEN queue
                          ELSE queue \cup {b}
    /\ Step(b, Idle)
    /\ UNCHANGED <<brokers, triggers, kmeshes, born, caches, panicked>>

---------------------------------------------------------------------------
(* The specification                                                        *)

Environment ==
    \/ \E k \in Broker : \/ \E c \in ClassesOf[k] : CreateBroker(k, c)
                         \/ ReadyBroker(k) \/ DeleteBroker(k)
    \/ \E t \in Trigger : \/ \E k \in BrokersOf[t] : CreateTrigger(t, k)
                          \/ ReadyTrigger(t) \/ DeleteTrigger(t)
    \/ \E m \in KMesh : CreateKMesh(m) \/ DeleteKMesh(m)
    \/ \E b \in Binding : \/ \E s \in Spec0 : CreateBinding(b, s) \/ UpdateBinding(b, s)
                          \/ DeleteBinding(b)

Informers ==
    \/ \E k \in Broker : SyncBroker(k) \/ DuckEvent(k)
    \/ \E t \in Trigger : SyncTrigger(t)
    \/ \E m \in KMesh : SyncKMesh(m) \/ InitKMesh(m)
    \/ \E b \in Binding : SyncBinding(b)
    \/ FilterBroker \/ FilterTrigger \/ HandleBroker \/ HandleTrigger

Work(b) ==
    \/ GetKMesh(b) \/ CacheClasses(b) \/ ReconcileIngresses(b)
    \/ ReadClasses(b) \/ Patch(b) \/ UpdateStatus(b)

Next ==
    \/ Environment \/ Informers \/ Resync \/ Restart
    \/ \E b \in Binding : Start(b) \/ Work(b)

Spec == Init /\ [][Next]_vars

\* The watches deliver, the listener goroutines run, a worker that has a key
\* goes on, the queue is first-in first-out, and resync timers fire.  Nothing
\* is assumed of the environment.
Fairness ==
    /\ \A k \in Broker : WF_vars(SyncBroker(k)) /\ WF_vars(DuckEvent(k))
    /\ \A t \in Trigger : WF_vars(SyncTrigger(t))
    /\ \A m \in KMesh : WF_vars(SyncKMesh(m)) /\ WF_vars(InitKMesh(m))
    /\ WF_vars(FilterBroker) /\ WF_vars(FilterTrigger)
    /\ WF_vars(HandleBroker) /\ WF_vars(HandleTrigger)
    /\ \A b \in Binding : WF_vars(SyncBinding(b)) /\ WF_vars(Work(b)) /\ SF_vars(Start(b))
    /\ WF_vars(Resync)

FairSpec == Spec /\ Fairness

---------------------------------------------------------------------------
(* Safety                                                                   *)

\* No event handler writes to the map of an entry that is not there and no
\* worker dereferences a missing spec.kmesh: between the unlocked filter and
\* the handler (controller.go 151-170, 101, 128) nothing may drop an entry.
NoPanic == ~panicked

\* A broker in the cache is tracked for the binding that owns its class, so a
\* later change of it wakes someone (controller.go 100-103): the broker
\* handler itself enqueues nobody.
RefsTracked ==
    \A c \in Class : \A ref \in trackedBrokers[c].refs :
        <<ref[1], trackedBrokers[c].owner>> \in tracker

\* What a worker adds to the classes of a mesh is still there when it patches,
\* whatever the other workers did between its critical sections and its
\* unlocked read (brokerbinding.go 102-110, 120).
ClassesKept ==
    \A b \in Binding :
        LET j == job[b]
        IN  /\ j.pc \in {"ingresses", "classes"} =>
                   ToSet(j.spec.classes) \subseteq ToSet(kmeshCache[<<j.spec.kmesh, j.base.uid>>])
            /\ j.pc = "patch" => ToSet(j.spec.classes) \subseteq ToSet(j.after.classes)

\* The controller still has a binding to look at.
Waiting(b) == b \in queue \cup unseen \/ job[b] # Idle

\* The classes for which the API server shows a binding Ready are followed: no
\* event of their brokers is filtered out (brokerbinding.go 166-172, 236).  A
\* Ready left over from a process that is gone says less, but the new one has
\* yet to look at that binding (controller.go 70-87 of the generated code).
ReadyMeansFollowed ==
    \A b \in Binding :
        bindings[b] # None /\ bindings[b].status.ready = "Ready"
            => \/ \A c \in ToSet(bindings[b].status.observed.classes) :
                      trackedBrokers[c].owner # None
               \/ restarts > 0 /\ Waiting(b)

---------------------------------------------------------------------------
(* Convergence, once the cluster stops changing                             *)

PublishedClasses(m)  == ToSet(kmeshes[m].status.classes)
PublishedNames(m)    == {i.name : i \in ToSet(kmeshes[m].status.ingresses)}
BoundClasses(m)      ==
    UNION {ToSet(bindings[b].spec.classes) :
              b \in {x \in Existing(bindings) : bindings[x].spec.kmesh = m}}
ReadyBrokers(m)      ==
    {k \in Existing(brokers) : brokers[k].ready /\ brokers[k].class \in BoundClasses(m)}
ReadyTriggersOf(k)   ==
    {t \in Existing(triggers) : triggers[t].ready /\ triggers[t].broker = k}

\* Every ready broker of a class bound to the mesh, and no other, is listed:
\* what the listers, the event filters, the tracker and the duck informer lose
\* between them the next resync makes up for (controller.go 85-109, 165-182).
IngressesConverge ==
    <>[](\A m \in Existing(kmeshes) : PublishedNames(m) = ReadyBrokers(m))

\* Every ingress listed has the ready triggers of its broker as egresses
\* (controller.go 111-163, brokerbinding.go 195-232).
EgressesConverge ==
    <>[](\A m \in Existing(kmeshes) : \A i \in ToSet(kmeshes[m].status.ingresses) :
            ToSet(i.egresses) = ReadyTriggersOf(i.name))

\* The classes of every binding are registered with its mesh, also when the
\* mesh was created after the binding, or again (brokerbinding.go 96-126): the
\* controller does not watch KMeshes.
ClassesConverge ==
    <>[](\A m \in Existing(kmeshes) : BoundClasses(m) \subseteq PublishedClasses(m))

\* Every binding whose mesh exists ends up Ready for its present spec, whatever
\* status writes were skipped against a stale copy (reconciler.go 311-341).
BindingsBecomeReady ==
    <>[](\A b \in Existing(bindings) : bindings[b].spec.kmesh \in Existing(kmeshes)
            => bindings[b].status = [ready |-> "Ready", observed |-> bindings[b].spec])

---------------------------------------------------------------------------
(* At rest: what the mesh shows when nothing is in flight in the controller *)
(* and only a change of the cluster, or a resync, would wake it.            *)

AtRest == Settled /\ ~panicked

\* Every class bound to the mesh is in the "list of broker classes registered
\* in this mesh" (config/300-kmesh.yaml 39).
BoundClassesListed ==
    AtRest => \A m \in Existing(kmeshes) : BoundClasses(m) \subseteq PublishedClasses(m)

\* The list has an ingress once.
IngressesListedOnce ==
    AtRest => \A m \in Existing(kmeshes) :
                  Cardinality(PublishedNames(m)) = Len(kmeshes[m].status.ingresses)
=============================================================================
