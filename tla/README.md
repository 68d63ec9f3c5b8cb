# K-Mesh in TLA+

Models, model checks and proofs of K-Mesh. Its controller watches `BrokerBinding`
objects and Knative Eventing's brokers and triggers, and publishes in the status
of a `KMesh` which broker classes are registered, which brokers of those classes
are ready (*ingresses*) and which ready triggers hang off each (*egresses*). Its
command-line tool installs all that and shows it.

Paths are relative to the repository; *vendor* stands for `vendor/`.

## 1. The system

| part | state it keeps | operations | talks to |
|---|---|---|---|
| **brokerbinding reconciler** `pkg/reconciler/brokerbinding/brokerbinding.go` | `kmeshCache` (KMesh UID → classes), `trackedBrokers` (class → owner binding, brokers by UID), `trackedTriggers` (broker → owner binding, triggers by UID), all under `cacheLock`, two of their reads not | `ReconcileKind`: read the mesh, add the binding's classes, build the ingress list, patch the status of the mesh | listers (reads), API server (patch) |
| **its event handlers** `.../controller.go` | the same maps | a filter and a handler for brokers, another pair for triggers, enqueue-all for bindings | informers (call them), resolver, work queue |
| **generated reconciler** `pkg/client/injection/reconciler/.../brokerbinding` | – | `Reconcile`, `updateStatus`, promotion of a leader | lister, API server |
| **work queue and workers** *vendor* `knative.dev/pkg/controller` | keys queued, keys in progress | get, done, add, add rate-limited; two lanes | workers |
| **tracker and URI resolver** *vendor* `knative.dev/pkg/{tracker,resolver,apis/duck}` | broker → bindings to wake; a *second* informer of brokers, started on demand | `TrackReference`, `OnChanged` | work queue, API server |
| **informers** *vendor* `k8s.io/client-go/tools/cache` | a lister and a queue of notifications for each kind | update, delete, resync | API server, handlers |
| **JSON patch** *vendor* `gomodules.xyz/jsonpatch` (controller), `evanphx/json-patch` (API server) | – | diff two documents; apply a diff to a third one | – |
| **KMesh reconciler** `pkg/reconciler/kmesh` | – | marks a mesh healthy; its optimistic update of the whole status, retried on conflicts, is the first to create `/status` | API server |
| **admission** `pkg/apis/mesh/v1alpha1`, `cmd/webhook` | – | requires `spec.classes`; defaults nothing | API server |
| **leader election** *vendor* `knative.dev/pkg/leaderelection` | a lease; the buckets a replica leads | acquire, renew, lose; promote, demote | API server, generated reconcilers, work queue |
| **deep copies** `pkg/apis/mesh/v1alpha1/zz_generated.deepcopy.go` | – | copy an object of an informer for a worker to write to | reconcilers |
| **clients** `pkg/client/clientset`, `pkg/client/injection/client` | – | the calls of the API: typed, the fakes of unit tests, a wrapper of a dynamic client | API server |
| **command-line tool** `magefile.go` | – | install the manifests, start a mesh, install a broker chart, show meshes and brokers | kubectl, helm, API server |
| **drawing** `pkg/print/draw.go` | – | the picture of an ingress and its egresses | command-line tool |

### What is hard

The controller is a cache-invalidation problem with several invalidators.

*Three views of a broker.* The API server's object; the copy in the broker
informer's lister, which is what a reconcile reads; the copy in the resolver's
duck informer, whose events wake the binding. Nothing orders the last two: the
waking event can come before the lister has the change it is about, and the
broker handler itself enqueues nobody.

*Events filtered against a moving cache.* A notification is dropped unless its
class (its broker, for a trigger) is already a key of a map that only a
reconcile extends. What was dropped is not looked for again when the key appears.

*Handlers between filter and lock.* A filter reads the maps without `cacheLock`;
the handler then takes the lock and writes to the inner map of the entry the
filter saw, a nil map if the entry has gone.

*Patches with a stale base.* The status of a mesh is edited by a list of
array operations computed from the lister's copy and applied to whatever the API
server holds, with no test of the resource version, over lists whose order is
Go's random map order.

*Two writers.* The KMesh reconciler updates that same status whole, with a test
of the version on the first attempt and with what it computed from its stale copy
on the retries.

*Several replicas.* Each watches and queues everything; only the leader reconciles
and a standby throws its keys away. The lease may be another's before its holder is
demoted, and the promotion runs in a goroutine of its own.

*Shared memory.* Objects of the informers are shared by all threads; the caches
keep pointers into copies that a job goes on writing, and some reads of them
forget the lock.

*A tool beside a live cluster.* Its commands fail half-way, run in several
terminals, and index into what another program printed.

*Failure.* A restart or a change of leader empties the caches and leaves the
statuses; errors requeue; informers repeat everything every ten hours.

Correct means: every class of a bound binding reaches its mesh; once the cluster
stops changing, each mesh lists exactly the ready brokers of its classes and
their ready triggers; nothing panics; concurrent workers lose none of each
other's classes; a `Ready` binding is really being followed; a leader forgets no
key and overwrites no newer status except by a retry; nobody writes to an informer's
object; what the tool shows is complete. `PROJECT.json` lists the hazards line by line, with the properties that watch them.

## 2. Modules

| module | models |
|---|---|
| `JSONPatch` | the diff and the application of the status patches, on sequences |
| `MCJSONPatch` | a document patched again and again from stale bases; reference definitions |
| `BrokerBinding` | the brokerbinding controller in its cluster: reconciler, handlers, informers, tracker, resolver, queue and workers |
| `MCBrokerBinding` | the small clusters the runs check |
| `ClassRegister` | abstract: what a mesh promises of classes, whoever writes its status |
| `KMeshStatus` | the two writers of one mesh's status: updates, conflicts, retries, patches, lost calls, restarts; implements `ClassRegister` |
| `MCKMeshStatus` | one or two bindings of that mesh |
| `Clients` | the API server over one key, and the requests of the typed and the fake client |
| `Replicas` | replicas, leases, promotions and demotions around the generated reconcilers |
| `MCReplicas` | two replicas |
| `SharedMemory` | which memory each step of the workers and handlers reads and writes |
| `MCSharedMemory` | three workers |
| `Drawing` | the lines between an ingress and its egresses |
| `CommandLine` | the commands of the tool, step by step, and its tables |
| `MCCommandLine` | two terminals, the charts of the repository, six statuses of a mesh |
| `BrokerBindingTypeProofs`, `BrokerBindingProofs` | theorems of `BrokerBinding` |
| `JSONPatchProofs`, `MCJSONPatchProofs` | theorems of `JSONPatch`, and of the document it is checked on |
| `KMeshStatusProofs`, `ReplicasProofs`, `SharedMemoryProofs`, `CommandLineProofs` | theorems of those modules |

`BrokerBinding` and `KMeshStatus` extend `JSONPatch`: their patches are what the
API server does with the operations the controller computed. `KMeshStatus` takes up
what `BrokerBinding` reduces to one action, `InitKMesh`: there the KMesh
reconciler only writes a status where none is; here the object has versions, a
write can meet a conflict, and brokers, ingresses and what wakes a binding are cut
away. `Replicas` extends `Clients`: every call a replica makes is a request that
`Serve` answers. What `Restart` of `BrokerBinding` is on one process, `Replicas`
has in its parts: the crash, the lease, the promotion. `SharedMemory` cuts the steps
of the two reconcilers where `BrokerBinding` and `KMeshStatus` cut them and asks of
each what it touches. `CommandLine` extends `Drawing`.

### How `BrokerBinding` corresponds to the code

| variables | in the program |
|---|---|
| `brokers`, `triggers`, `kmeshes`, `bindings`, `born` | objects of the API server, absent ones `None`; `born` counts the incarnations (UIDs) of a name |
| `unseen`, `…Lister` | what an informer has not delivered yet, and its store |
| `brokerEvents`, `triggerEvents` | the notification queues of the listener goroutines |
| `brokerEvent`, `triggerEvent` | a notification past its filter, about to take `cacheLock` |
| `kmeshCache`, `trackedBrokers`, `trackedTriggers` | the fields of `Reconciler` |
| `tracker`, `duck` | the exact references of the tracker; the resolver's informer |
| `queue`, `job` | the keys queued; for each key in progress, the step its worker is at and its local variables |
| `panicked`, `restarts` | the process is dead; how often it was replaced |

| actions | in the program |
|---|---|
| `SyncBroker` … `SyncBinding` | `HandleDeltas` of an informer: the store, then a notification |
| `FilterBroker`, `FilterTrigger` | the `FilterFunc`s, without the lock |
| `HandleBroker`, `HandleTrigger` | `brokersHandler`, `triggerHandler`, one critical section each |
| `DuckEvent`, `Track` | `tracker.OnChanged`, `TrackReference` |
| `Start` | a worker takes a key and reads the binding |
| `GetKMesh`, `CacheClasses`, `ReconcileIngresses`, `ReadClasses`, `Patch` | the steps of `reconcileKMesh`, cut at its lock boundaries, its unlocked read and its patch |
| `UpdateStatus` | `PostProcessReconcile`, `updateStatus`, requeue on error |
| `Patch`, `UpdateStatus` with `loseCall` | a call that fails before or after the API server has done what it asks |
| `Resync` | the resync timers |
| `Restart`: `FreshInformers`, `StandbyInformers`, `Promoted` | a new process, which lists everything; or a standby, whose informers lag as they did and whose maps are empty; either queues the bindings of its lister (`PromoteFunc`) |
| `InitKMesh` | the KMesh reconciler's first status update |
| `Create…`, `Ready…`, `Update…`, `Delete…` | users and Knative Eventing |

What an action does *not* do is as much part of it. `HandleBroker` enqueues
nobody unless the tracked reference is new; `SyncKMesh` calls no handler;
deletions of brokers and triggers call no handler; `Reconciled` keeps the owner
an entry already has, be it deleted.

### How `KMeshStatus` corresponds to the code

| variables and actions | in the program |
|---|---|
| `mesh`, `watch`, `lister` | the object, its versions on their way to the informer, the informer's copy |
| `kqueued`, `kjob` | the KMesh controller: its key, and `updateStatus` with the version its status was computed from (`seen`), the version the update carries (`rv`), the attempt |
| `cache`, `bqueue`, `bjob`, `told` | the brokerbinding controller: `kmeshCache`, its keys, the local variables of `reconcileKMesh` (or the patch a former leader left under way), the bindings whose `Ready` is written |
| `former` | history: the classes in the caches of former processes |
| `Touch`, `Deliver`, `Resync` | a user's update of metadata, the watch, the informers' resync |
| `KStart`, `KPut`, `KConflict`, `KGet`, `KError` | the generated `Reconcile`, the update taken, refused for its version, its retry on a fresh copy, any other error |
| `BStart`, `BMerge`, `BRead`, `BPatch`, `BError` | `reconcileKMesh`: the lister, the first critical section, the unlocked read, the patch taken (and perhaps its answer lost), the patch refused or lost |
| `Restart`, `BLate` | a new leader with an empty `kmeshCache` and every key queued; a patch of the former one arrives after all |
| `Upset` | the one budget of what may go wrong: users' updates, lost calls and answers, restarts |

Comparing statuses is comparing classes and whether there is a status: transition
times are equal to `DeepEqual` whatever they are (`VolatileTime`).

`ClassRegister` is the abstract view of the same: a set of registered classes that
only grows, a set of published ones that is always part of it, though it may lose
some for a while, and that is complete in the end. The refinement mapping takes
the classes cached by the processes so far, the present one and the former ones, for
the one and the classes of `mesh` for the other. Within one process that is `cache`;
a restart empties `cache`, and every binding registers its classes anew.

### How `Clients` and `Replicas` correspond to the code

| definitions | in the program |
|---|---|
| `Typed`, `Fake` | the methods of `typed/mesh/v1alpha1`, and of the fakes with their tracker |
| `Serve` | the API server: what it refuses, what it stores, the version and uid it gives |
| `object`, `lister`, `watch` | the object; a replica's copy of it, and the events on their way |
| `lease`, `election`, `promoting`, `leads` | the lease; the elector's loop; the goroutines of `OnStartedLeading` that have not added the bucket, or not queued the keys; the buckets of `LeaderAwareFuncs` |
| `queued`, `job` | the key; `Reconcile`, in `updateStatus` |
| `Boot`, `Crash` | `sharedmain`: informers sync, then electors and workers start; everything but the lease is lost |
| `Acquire`, `Lose`, `Expire`, `Demote`, `Promote` | the elector and `LeaderAwareFuncs`, `PromoteFunc` |
| `Take`, `Put`, `Get`, `Fail` | `Reconcile` up to `updateStatus`; an attempt; the fresh copy of a retry; a lost call |
| `User` | users write and delete the object |

### How `SharedMemory` corresponds to the code

An object is a tree of blocks, one per struct, pointer, slice or map.
`…Copy` are the `DeepCopyInto` functions: which blocks a copy has of its own.

| variables and actions | in the program |
|---|---|
| `resource`, `after`, `existing` | the copies of `Reconcile`, of `reconcileKMesh` for its patch, of `updateStatus` |
| `cached`, `owner`, `refs` | the slice in `kmeshCache`; the bindings that entries of the tracked maps point to; whether there is a broker in one |
| `Copy` … `UpdateStatus` | the steps of a worker, as in the other modules |
| `Filter`, `Handle` | the handlers' two halves |
| `WorkerReads`, `WorkerWrites`, `Locked` | what the lines of a step touch, and whether under `cacheLock` |

### How `CommandLine` and `Drawing` correspond to the code

| definitions | in the program |
|---|---|
| `at`, `exit` | the call a command is about to make; how it ended: mage's status, or a panic |
| `chart`, `info`, `shown` | the argument of `brokers:install`; what `getBrokersInfo` returned, with the bindings it saw; the status last read |
| `applied`, `mesh`, `bindings`, `releases` | of the cluster, what the tool looks at |
| `Install`, `ApplyManifest` | `Install` and `run`: three manifests, an error ends it |
| `MeshStart`, `kmeshStatus`, `brokersStatus` | `Mesh.Start`, `Mesh.Status` and `Status`, `Brokers.Status` and `Brokers.List` |
| `BrokersInstall`, `HelmInstall` | `Brokers.Install`, cut at its call of helm |
| `newMeshTableRow`, `Cursor`, `getIngressEntries` | the functions of these names; a row is a pair of indices |
| `getBrokersInfo`, `bindingInfo`, `ShortLine` | the lines of kubectl, and the one with three fields |
| `SPPrint`, `Connector`, `Mid` | `draw.go`: what stands between the two columns, line by line |

What reading the tool for these definitions showed, where no document says
otherwise: all three charts make a binding named `mtbroker`, so whichever chart is
installed the row of `mtbroker` becomes managed; a trigger whose subscriber is a URI
makes `status` panic (`magefile.go:261`), and so does a binding no controller has
marked yet (349); `status` ignores the error of `kmeshStatus` (94) and the word
*Ready* of a mesh's row is constant (231, 240); "Can't find broker" is also what
`brokers:install` says when kubectl fails (340, 153); the second of two bindings
named alike that no chart has is shown as managed, not as bound (352).

### Abstractions

A name stands for a namespace/name pair, and a trigger lives with its broker.
The address of an ingress and the destination of an egress are functions of the
name they were read from. A condition is the outcome of the reconcile that set
it. Reading several lister entries in a critical section is one step: each may be
arbitrarily old anyway. The changes of one object that an informer of `BrokerBinding`
has yet to see are handled as one: `Sync…` takes the lister to the present object with
one notification, where `HandleDeltas` goes through the deltas in turn. A lister may
lag by any number of changes, but it does not step from one old version to the next
while a third exists, and the notifications of the versions it skips are not there.
`KMeshStatus` and `Replicas` deliver every version in its turn. A rate-limited
requeue is an entry of the queue. A throw of the Go runtime on an unlocked map access
is an instance of `Restart`.

`Restart` of `BrokerBinding` ends all jobs. In the program a replica that loses its
lease finishes the reconciles it is in, and keeps its maps should it lead again. What
its late patch does to the classes of the mesh is in `KMeshStatus` (`BLate`), what its
late status update does in `Replicas`; a late list of ingresses, and a replica that
leads again with the maps it had, are in neither.

In `JSONPatch` an `omitempty` member that is absent and an empty list are the
same value, `<<>>`, which is what decoding and encoding a typed object makes of
them. `PatchObjects` gives in closed form what the operations of `handleValues`
do to any list, and `ObjectPatchIsItsScript` checks it against those operations
one by one.

`Replicas` has one key and one bucket, the default. Its versions are compared for
equality only, so the API server takes the least number nothing holds: a finite
state space with no bound on versions. `SharedMemory` has one object of a kind and
takes all versions of it in a store for one. `CommandLine` has the one mesh in the
namespace the tool looks at.

## 3. Runs

Every bound is a constant. Of `BrokerBinding`: `MaxChanges` (changes by users and
Eventing), `MaxUid` (incarnations of a name), `MaxRestarts`; `Changes` selects the
kinds of change an instance has, `Resyncs` when resyncs may come: never, only when
the controller is at rest, or whenever the handlers are done with the last one. Of
`KMeshStatus`: `Steps` (attempts at an update, 5 in the code), `MaxUpsets` (updates of
metadata, lost calls or answers, and restarts, in all). Of `Replicas`: `Steps`,
`MaxChanges` (writes of users), `MaxLag` (versions a watch has yet to deliver),
`MaxFaults` (leases lost, crashes, failed calls, lost answers). Of `CommandLine`:
`MaxCommands`, `MaxChanges` (of users and controllers), `MaxFaults`. Of
`MCJSONPatch`: `MaxLen`.

Deadlock is checked in `SharedMemory` only. Elsewhere the system may stop: with its
changes used up and no resync due a cluster is at rest for good, a panicked process
stays dead, and no more commands are typed.

| run | instance | properties | shows |
|---|---|---|---|
| `JSONPatch` | lists of ≤ 3 elements out of 3, any earlier version as base | `StringPatchExact`, `ObjectPatchIsItsScript`, `ScriptIsShortest` | patches do what the other modules assume |
| `BBTopology` | a ready broker and a trigger, 3 changes of either, 2 UIDs, resync at rest | `NoPanic`, `RefsTracked`, `IngressesConverge`, `EgressesConverge` | no handler meets a missing entry; the mesh ends with the ready brokers and their ready triggers, despite filters, two informers and stale listers |
| `BBWorkers` | 2 workers, 2 bindings of one mesh, 2 classes, one change of a spec or deletion, one restart or change of leader | `ClassesKept`, `ReadyMeansFollowed` | what a worker publishes has its own classes; the classes of a `Ready` binding are followed, and a `Ready` left over from an earlier process is one the new leader has still to look at |
| `BBMesh` | 2 meshes that come and go, a binding that comes, moves and goes, calls or answers lost, 4 of all these | `TypeOK`, `ClassesConverge`, `BindingsBecomeReady` | retries and resyncs make up for the missing KMesh handler and for lost calls |
| `KMeshStatus` | 2 bindings with a class each, 2 attempts, 1 upset | `TypeOK`, `LossNeedsStaleCopy`, `ClassesRepaired`, `RegisterImplemented` | a class is lost only to a writer with a stale copy or to a new process that has not heard of it yet, and comes back; the two controllers implement the register |
| `Replicas` | 2 replicas, 2 specs and a malformed one, 2 attempts, 2 changes, 1 fault | `TypeOK`, `NoKeyForgotten`, `StaleNeedsConflict`, `StatusFollowsSpec`, `FakeAgrees` | leadership loses no key and in the end the status is right; only a retry writes an old status; what the API server takes the fake makes too |
| `SharedMemory` | 2 workers of one controller, 1 of the other, both handlers | `TypeOK`, `StoreUntouched`, `CopiesApart`, `RacesKnown` | no informer's object is written, no copy shared; the data races are the places named in `RacesKnown` |
| `CommandLine` | 2 terminals, 4 commands, 3 changes, 1 fault | `TypeOK`, `OperatorLast`, `OnlyKnownPanics`, `RowsComplete`, `DrawingConnected`, `BindingsShown` | manifests come in order; tables and drawings are complete; panics have two causes |
| `BBNoMesh` | a binding without `spec.kmesh` | violates `NoPanic` | finding 1 |
| `BBListMix` | two ready brokers, no change | violates `IngressesListedOnce` | finding 2 |
| `BBLostClass` | 2 workers, 2 bindings of one mesh, no resync | violates `BoundClassesListed` | finding 3 |
| `KMSOverwrite` | 1 binding, 5 attempts, 1 upset | violates `NoUpdateOverwritten` | finding 4 |

*Why the bounds are enough.* In `BrokerBinding` the races are between one object's
three views, one filter and one reconcile, so one broker with one trigger has them
all; three changes allow create–ready–delete and delete–create–ready under a stale
view; two UIDs give a name a reference left from its previous life. Two workers
and two classes make the interleavings of the critical sections; the two bindings of
`BBWorkers` start alike and are exchangeable (`BindingSymmetry`, sound for invariants),
one spec change gives them different classes, and one restart comes before, between or
after their steps. Two meshes and
four changes let a binding move while its old or its new mesh is missing. In
`KMeshStatus` two attempts have a first update, a conflict, a retry that succeeds
and one that gives up; the third attempt is the second over again. One upset is
a user's update under a job, an update or a patch applied and done again, or a restart
with whatever was under way then; each is a way to a stale copy of its own, and the
two writers and two bindings make the rest. In `Replicas` two replicas and one
fault have two of them reconcile at once, none of them, and a replica promoted
again while its last promotion is still running; two changes have a spec changed, or
an object deleted and created, under a job; a watch that lags one version is stale
as any other. In `SharedMemory` a race is between two threads: three workers leave
one to have been there before. In `CommandLine` four commands are install, start,
install of a chart and a status; six statuses have classes and ingresses in every
relation of lengths, and zero to five egresses.

What the theorems of section 5 cover holds for any number of each.

*Which names may change in what way* is kept narrow in the converging runs of
`BrokerBinding`: a broker name has one class and a trigger name has one broker.
References are kept by UID but looked up by name, so a name that moves stays listed
at its old place: those are hazards with a note, not properties.

### Fairness

*`BrokerBinding`.* Weak fairness of the informers (`Sync…`, `DuckEvent`, `Filter…`,
`Handle…`): a watch delivers and a listener goroutine runs. Weak fairness of each
step of a worker that has a key: whoever holds `cacheLock` lets it go (see below), and the
network calls end, with an answer or with an error, which the model takes as an outcome
(the patch and the status update of `BBMesh`). Strong fairness of
`Start` for each key: the queue is first-in first-out, so a key added again and
again while others run is taken in its turn. Weak fairness of `Resync`: every
informer is created with the factory's resync period. Weak fairness of `InitKMesh`:
the KMesh controller is another reconciler of the same process. Nothing is assumed
of users and of Eventing.

A resync makes up for a lost wake-up only because it repeats the notifications of
*all* objects after the maps have their keys. `IngressesConverge` and
`EgressesConverge` need it: a broker that is ready before the controller starts is
filtered out by a map that has no key for its class yet, and the deletion of a
trigger has no handler; both are put right by the resync, after up to ten hours, or
by whatever else wakes the binding.

*`KMeshStatus`.* Weak fairness of the watch (`Deliver`), of each worker (`KStart`,
`KWork`, `BStart`, `BWork`) and of `Resync`, none of `Touch` and `Restart`, and upsets
are bounded: the network is up and a leader stays in the end. `Resync` waits for the
controllers to be at rest, ten hours being longer than they take.

*`Replicas`.* Weak fairness of `Expire`: a lease nobody renews runs out. Of *some*
`Acquire`: every candidate polls, one of them gets a free lease. For each replica, of
`Boot` or `Demote`: the deployment restarts a pod that died, an elector that stopped
starts over. Of `Deliver`, `Promote` and `Work`: the watch delivers and goroutines
run. None of `User`, `Lose`, `Crash`, which are bounded. No resync is needed there:
that the promotion queues the keys is enough, and `StatusFollowsSpec` fails without.

*`cacheLock`.* The handlers hold it while they resolve a URI (`controller.go:103`, `132`),
which on its first call lists the brokers over the network and waits for the duck
informer to have synced (*vendor* `knative.dev/pkg/apis/duck/typed.go:52`, 67–69). The
models take the call as part of the critical section. That it ends is an
assumption on the API server; the duck informer's own threads never take `cacheLock`
(their events go to the tracker and the work queue), so there is no cycle of waits.

`SharedMemory` and `CommandLine` state safety only; a command ends when its programs
do.

## 4. Findings

1. **A binding without a mesh kills the process** (`BBNoMesh`).
   `brokerbinding.go:96` dereferences `spec.kmesh`; the field is `omitempty`, the
   CRD has no `required` for it and `Validate` checks `classes` only. The binding
   is there again after the restart.
2. **An ingress listed twice** (`BBListMix`). A patch edits array positions of the
   lister's copy (`brokerbinding.go:122`). Two reconciles that both start from a list of
   one broker each append the other one; the API server does so twice: three entries for
   two brokers, until something wakes the binding again or the resync does.
3. **A registered class is not published** (`BBLostClass`). The first patch of the
   classes is an `add` of the whole member; a worker that computed it before
   another's, and sends it after, puts back its own shorter list
   (`brokerbinding.go:122`), although the cache has both classes.
4. **A retry wipes the classes** (`KMSOverwrite`). On a conflict `updateStatus`
   replaces the status of the fresh copy by the one it made of its stale copy
   (`kmesh/reconciler.go:334`), which the comment at line 267 says must not happen.

The last two are repaired by a resync (`ClassesRepaired`), after up to ten hours,
or by whatever wakes a binding before. The unlocked reads that `RacesKnown` names
(`brokerbinding.go:120`, `controller.go:152`, `173`) and the log of another worker's
binding (`brokerbinding.go:201`) contradict no statement of the repository and are
hazards, not findings.

## 5. Proofs

The theorems are of `Spec`, for every value of the constants that satisfies the
module's assumptions, except those of `JSONPatchProofs`, which are facts about its
operators.

### `BrokerBinding`

Assumed: the bounds are naturals, names are finite sets that do not hold `None`, no name
is of two kinds, the
initial cluster and the inputs have the types of the API, and `ListOf`
(`sets.String.List`) lists a set of classes without losing or adding one.

| theorem | states | extra assumption |
|---|---|---|
| `TypeCorrect` | `[]TypeOK` | – |
| `PanicFree` | `[]NoPanic` | every spec users write names a KMesh (the converse is finding 1) |
| `RefsStayTracked` | `[]RefsTracked` | – |
| `ClassesStayKept` | `[]ClassesKept` | – |
| `ReadyStaysFollowed` | `[]ReadyMeansFollowed` | no binding was `Ready` before the controller first ran |

The inductive invariant under all of them is `Inv`: `TypeOK`, *PastFilter* and
*MeshKnown*. `PastFilter` says that the entry which let a notification through its
filter is still there when the handler runs: it is what a panic would violate, and
it is inductive since no action gives an owned entry its owner back (lemma
`OwnersKept`; entries survive the loss of their last reference). `MeshKnown` says
that a job past `GetKMesh` has a mesh, without which the indices of `kmeshCache`
have no type. Type correctness is proved action by action in
`BrokerBindingTypeProofs`; the delicate ones are `Patch`, whose result is only a
status because the API server refuses any other, and the ingress lists of
`ReconcileIngresses`.

`ClassesStayKept` follows from the monotony of `kmeshCache` (`CacheGrows`): what
`CacheClasses` adds nobody takes away before the unlocked read, as long as the
process lives, and `Restart` ends all jobs with it. `ReadyStaysFollowed` carries
that along the path of a worker: the classes of a job are followed from
`ReconcileIngresses` on, so they are when it writes `Ready`, and owners are kept
from then on. `Restart` takes the owners away; then the binding is in the queue of the
new process, since its lister has it, or an event about it is on its way. The invariant
(*FollowInv*) has to say why that stays so until `Ready` is true again: a lister's copy
of a binding is the present one unless an event is under way (*ListerCurrent*), the copy
a job works from likewise unless the key comes back (*JobCurrent*), so that a job which
writes nothing at its end, because its copy says what it would write, has indeed the
status the API server shows (`StatusFollowed`).

### `KMeshStatus`

Assumed: the bounds are naturals (`KMeshBounds`), every binding has a class, and
`ListOf` lists a set of classes without losing or adding one (`KMeshInputs`).

| theorem | states |
|---|---|
| `TypeCorrect` | `[]TypeOK` |
| `InvCorrect` | `[]Inv` |
| `LossFromStaleCopy` | `LossNeedsStaleCopy` |
| `RegisterSafety` | `Register!Init /\ [][Register!Next]_(Register!vars)` |

All rest on `Inv`: every copy of the mesh that something holds on to (the lister, an
undelivered event, what a worker edits, the status the kmesh reconciler computed) has
a version the mesh had, is the present mesh if that version is the present one, and
lists registered classes only. The last part is what keeps a *stale* patch inside the
register: a mix of three lists of registered classes is a list of registered classes,
by `PatchClassesType` taken at the set of registered classes. A patch on a copy that
is *not* stale is exact by `PatchClassesExact`, and the wanted list contains the
copy's classes unless a restart emptied the cache it was read from: that is
`LossFromStaleCopy`. What a cache may lack is then in `former`, since a class of a known
copy was registered with this process or an earlier one, and a process takes none out
of its own cache.

### `JSONPatch`

No assumption but that the lists are finite.

| theorem | states |
|---|---|
| `ScriptExact` | the operations of `EditScript(s, t)`, one by one, turn `s` into `t` |
| `PatchClassesType` | a patch of classes yields a list, of the wanted classes and those it is applied to |
| `PatchClassesExact` | on the list it was computed from, a patch gives the list it was computed for |
| `PatchStatusExact` | on the status it was computed from, a whole status patch gives the wanted status |
| `StringPatchesExact` | `[]StringPatchExact`, in `MCJSONPatchProofs` |
| `ScriptsAreShortest` | `[]ScriptIsShortest`, in `MCJSONPatchProofs`: no script is shorter than the one emitted |
| `ObjectPatchesAreScripts` | `[]ObjectPatchIsItsScript`, in `MCJSONPatchProofs`: the closed form for arrays of objects is what their operations do |

`EditDistance` and `EditScript` are recursive functions of the cells of a table and
`ApplyOps` is a fold. A recursive function is the `CHOOSE` of a solution of its
equation, so the first step is that there is one: it is extended cell by cell, along
`i + j` (`DistanceExtends`, `ScriptExtends`) or along the index (`FoldExtends`). The
induction itself is `SetInduction`, about a set of naturals rather than a predicate,
which follows from the least element a nonempty set of naturals has. `ScriptExact`
then goes by the cells: the script at `(i, j)` turns the first `i` elements of `s`,
whatever follows them, into the first `j` of `t`. Its three cases are
`RemoveBetween`, `AddBetween` and `ReplaceBetween`; that the code can always take one
of them, and takes none only at the beginning of both lists, is `DistanceStepsBack`
and `DistanceOnEdges`.

`ScriptsAreShortest` has two halves. The script has as many operations as the
distance says (`ScriptLength`). The distance is the cost of the best alignment
(`DistanceIsBest`), by the cells once more: an alignment of two prefixes leaves the
last element of one of them out or pairs the two (`AlignmentCases`), and pairing two
equal elements is never worse than leaving one out, because neighbouring cells differ
by at most one (`DistanceSmooth`).

`ObjectPatchesAreScripts` is about a server copy `cur` that need not be the base. The
script is three runs, the removals (`Removals`), the additions (`Additions`) and the
replacements (`Replacements`), each with what it makes of any `cur` and when it fails;
`ApplyConcat` says that a patch joined to another goes on where the first ends and
fails when it fails. `Replacements` is the only run of variable shape, a `FlattenSeq`,
and goes by its equation (`Flattened`). `PatchStatusExact` then needs only that what
`Moved` leaves of the base is the base (`MovedOwn`, `ObjectsExact`).

### `Replicas`

Assumed (`ReplicaBounds`): finitely many replicas, natural bounds, malformed specs
are specs, no status is that of a spec.

| theorem | states |
|---|---|
| `TypeCorrect` | `[]TypeOK` |
| `OnlyRetriesAreStale` | `StaleNeedsConflict` |
| `NoKeyIsForgotten` | `[]NoKeyForgotten` |
| `FakeAlwaysAgrees` | `[]FakeAgrees` |

`OnlyRetriesAreStale` rests on *Versions*: of all the objects held anywhere, in the
API server, in listers, on watches or by jobs, no two have a version in common and
differ. It is kept because a write gets a version nothing holds. That there is one
is a counting argument: finitely many numbers are in use, so one of the first
numbers, one more than there are in use, is free, and a least free one exists by the
well-foundedness of strict inclusion on finite sets. With *FirstAttempt* (the status
of a job's first attempt is of the spec and the uid of the copy it carries) a first
attempt the API server takes was made from the very object it replaces.

`NoKeyIsForgotten` needs *Keys*: besides the property itself, that an informer with
nothing left to deliver has the present object, and that a job with nothing queued
or watched behind it is the first attempt on that copy, whose status is wrong. A leader's key goes away when it is
taken, and then either its status is right or there is a job; a standby's goes away
for nothing, and this is why its promotion must still list the keys when it becomes
a leader.

### `SharedMemory`

Assumed (`Threads`): the two kinds of worker, the handlers, the store and the two
caches are different, and none of them is called "none".

| theorem | states |
|---|---|
| `TypeCorrect` | `[]TypeOK` |
| `InformersUntouched` | `[]StoreUntouched` |
| `CopiesStayApart` | `[]CopiesApart` |
| `RacesAreKnown` | `[]RacesKnown` |

The invariant is *Layout*, which says where the trees of memory come from that each
thread holds at each of its steps. `CopiesKnown`: a copy a worker is at work on is
the one it made itself. `AftersKnown`: an edited mesh has blocks of its worker, of
the informer's object and arrays of class names, never those of another worker.
`CachesKnown`: the classes in the cache are such an array, and the entry of a broker
has the triggers of a worker that is past its copy, which is why `RacesKnown` has to
name the log of another's binding. The lemma `DeepCopyIsOwn` gives the first at each
copy, from the block lists of the `DeepCopyInto` functions; `SetCondition` and the
grooming of times keep it. The other properties then take no step of their own: given
where two threads are, `Layout` leaves them no block in common but those listed.

### `CommandLine`

Assumed: each chart's binding is one of `Binding` (`Templates`), and statuses have
lists of classes and of ingresses (`Statuses`).

| theorem | states | argument |
|---|---|---|
| `TypeCorrect` | `[]TypeOK` | *Typed*, command by command |
| `OperatorComesLast` | `[]OperatorLast` | *InOrder*: a terminal about to apply a manifest has applied those before |
| `DrawingsConnected` | `[]DrawingConnected` | `DrawingAlwaysConnected`, for every number of egresses, by the cases of `Connector` and the bar between two children; *Seen*: a status shown is one the controllers gave |
| `BindingsAlwaysShown` | `[]BindingsShown` | *Tables*: what a table says of a name is what the binding listed last said |
| `NoRowIsMissing` | `[]RowsComplete` | `CursorValue`: in row `r` a cursor is at the least of `r` and the length, by the least row where it were not |
| `PanicsAreKnown` | `[]OnlyKnownPanics` | *Panics*, and from `CursorValue` that no index runs past a list |

### Only model-checked

Convergence (`IngressesConverge`, `EgressesConverge`, `ClassesConverge`,
`BindingsBecomeReady`, `ClassesRepaired`, `StatusFollowsSpec`) and what
`RegisterImplemented` says beyond `RegisterSafety`, the fairness of `ClassRegister`:
liveness is out of TLAPS's reach.

## 6. Not modelled

- *Tracker and resolver*: expiry of tracked references (each resync renews them; an
  expiry takes three missed resyncs), selectors, subscribers that are references.
- *Informers*: relists and watch errors, namespaced and filtered factories, the
  factory's own `Start` and `WaitForCacheSync`, which injection does not call.
- *Work queue*: the slow and the fast lane and the rate limits; a key is queued or it
  is not.
- *Generated reconcilers*: finalizers, `ReadOnlyKind` and `ObserveKind`, which the
  two reconcilers do not implement; a deletion just ends their keys.
- *Clients*: options and selectors, the stream of a watch, the REST configuration and
  discovery, the deep copies of the `List` types. The wrapper of a dynamic client
  (`injection/client/client.go`), which drops the subresources of a patch and watches
  nothing, is used by no deployed process and left out. The fakes, which unit tests use,
  are in `Clients`; `FakeAgrees` is about the status updates the API server takes, and
  says nothing of the versions the fake does not compare.
- *Lister errors* other than not-found, which an in-memory lister does not return,
  and namespace defaulting: names stand for namespace/name pairs.
- *Change of leader* in `BrokerBinding`: the reconciles a demoted replica finishes and
  the maps it keeps (section 2, Abstractions). In `KMeshStatus` too a replica that leads
  again starts with an empty cache, the informer of a new leader is not behind that of
  the last one, a late patch keeps the place of a worker and a late status update that of
  the KMesh worker, and at most one of each is under way.
- *Moved names and shared entries* in `BrokerBinding` (`brokerbinding.go:205`, `166`):
  a trigger created again for another broker stays an egress of the old one, and a
  class bound in two meshes wakes the first only. Two brokers, two classes and two
  meshes with changes of each are past what a run explores in its time.
- *Command-line tool*: the `Infra` targets, which run external programs and read
  nothing back; colours, headers and widths.
- *Charts, manifests and CRDs*: data without steps. What they decide of the
  admission, of the charts' bindings and of the order of installation is in
  `BrokerBinding`, `Clients` and `CommandLine`.
- *Entry points*: wiring, but for the start of a replica and the webhook's admission.

## 7. What could come next

1. `MeshTopology`, an abstract specification of what a mesh promises of its lists, and
   `BrokerBinding` shown to implement it with two classes and two meshes, in an
   instance cut down to one handler: moved names and shared entries would become
   properties.
2. `WorkQueue` as an abstract specification and the two lanes shown to implement it.
