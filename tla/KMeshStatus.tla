---------------------------- MODULE KMeshStatus ----------------------------
(***************************************************************************)
(* The two writers of the status of one KMesh.                             *)
(*                                                                         *)
(* The kmesh reconciler marks the mesh healthy and writes the whole status *)
(* with an optimistic update: it carries the resource version it was       *)
(* computed from, and on a conflict the same status is written over a      *)
(* fresh copy.  The workers of the brokerbinding reconciler patch the      *)
(* classes of the mesh, whatever its version is.  Both compute from the    *)
(* one lister of the process, which goes through the versions of the mesh  *)
(* one by one and lags.  A process that dies or loses its lease leaves an  *)
(* empty cache to the next one, and patches that are still under way.      *)
(*                                                                         *)
(* Abstractions.  The mesh exists from the start and is not deleted.  The  *)
(* brokerbinding side is BrokerBinding cut down to the classes: what wakes *)
(* a binding is its first event, its own status update, a failure, a       *)
(* resync or a promotion.  The number of workers is that of the bindings.  *)
(* The informer of a new leader is not behind that of the last one, and a  *)
(* replica that leads again starts with an empty cache, as a new process   *)
(* does.  A patch that outlives its process keeps the place of its worker: *)
(* the next leader gets to the binding once the patch has arrived.  A      *)
(* status update that outlives its process takes that of the next one.     *)
(***************************************************************************)
EXTENDS Integers, Sequences, JSONPatch

CONSTANTS
    Binding,          \* BrokerBindings of the mesh
    Class,
    ClassesOf,        \* the classes of a binding's spec
    ListOf,           \* sets.String.List: a set of classes, sorted
    Steps,            \* attempts at an update (retry.DefaultRetry.Steps)
    MaxUpsets         \* bound on the calls lost, the restarts and the users' updates

ASSUME KMeshBounds == Steps \in Nat \ {0} /\ MaxUpsets \in Nat

ASSUME KMeshInputs ==
    /\ ClassesOf \in [Binding -> Seq(Class)]
    /\ \A b \in Binding : ClassesOf[b] # <<>>
    /\ \A S \in SUBSET Class : ListOf[S] \in Seq(Class) /\ ToSet(ListOf[S]) = S

VARIABLES
    mesh,       \* the KMesh in the API server
    watch,      \* its versions the informer has yet to deliver, oldest first
    lister,     \* the informer's copy
    kqueued,    \* the kmesh controller has the key of the mesh in its queue
    kjob,       \* its worker, inside updateStatus
    cache,      \* kmeshCache of the brokerbinding reconciler
    bqueue,     \* the bindings queued
    bjob,       \* its workers, inside reconcileKMesh
    told,       \* bindings whose Ready status has been written
    former,     \* history: the classes former processes had in their caches
    upsets

kmeshVars   == <<kqueued, kjob>>
bindingVars == <<cache, bqueue, bjob, told, former>>
vars == <<mesh, watch, lister, kmeshVars, bindingVars, upsets>>

\* init: there is a status, which says Ready; without one there are no classes.
Version == [rv : Nat, init : BOOLEAN, classes : Seq(Class)]

Idle == [pc |-> "idle"]

\* seen is the version the status was computed from, rv that of the object the
\* update carries.
KJob == {Idle}
          \cup [pc : {"put"}, seen : Nat, rv : Nat, classes : Seq(Class), attempt : 1..Steps]
          \cup [pc : {"get"}, seen : Nat, classes : Seq(Class), attempt : 1..Steps]

\* base is the lister's copy, after the wanted classes, ops the patch from the
\* one to the other; late is a patch of a former leader.
BJob == {Idle}
          \cup [pc : {"merge", "read"}, base : Version]
          \cup [pc : {"patch", "late"}, base : Version, after : Seq(Class), ops : Seq(OpOver(Class))]

TypeOK ==
    /\ mesh \in Version /\ lister \in Version /\ watch \in Seq(Version)
    /\ kqueued \in BOOLEAN /\ kjob \in KJob
    /\ cache \in Seq(Class) /\ bqueue \subseteq Binding /\ bjob \in [Binding -> BJob]
    /\ told \subseteq Binding
    /\ former \subseteq Class
    /\ upsets \in 0..MaxUpsets

\* A new mesh, which the informer has listed, and its bindings.
Init ==
    /\ mesh = [rv |-> 1, init |-> FALSE, classes |-> <<>>]
    /\ lister = mesh /\ watch = <<>>
    /\ kqueued = TRUE /\ kjob = Idle
    /\ cache = <<>> /\ bqueue = Binding /\ bjob = [b \in Binding |-> Idle]
    /\ told = {} /\ former = {}
    /\ upsets = 0

---------------------------------------------------------------------------
(* The API server and the informer                                          *)

\* Every change of the object is a new version, and an event of the watch.
Write(init, classes) ==
    /\ mesh' = [rv |-> mesh.rv + 1, init |-> init, classes |-> classes]
    /\ watch' = Append(watch, mesh')
    /\ UNCHANGED lister

Upset == upsets < MaxUpsets /\ upsets' = upsets + 1

\* A user labels or annotates the mesh.
Touch ==
    /\ Upset
    /\ Write(mesh.init, mesh.classes)
    /\ UNCHANGED <<kmeshVars, bindingVars>>

\* HandleAll(impl.Enqueue) is the only handler of the KMesh informer.
Deliver ==
    /\ watch # <<>>
    /\ lister' = Head(watch)
    /\ watch' = Tail(watch)
    /\ kqueued' = TRUE
    /\ UNCHANGED <<mesh, kjob, bindingVars, upsets>>

Settled ==
    /\ watch = <<>> /\ ~kqueued /\ bqueue = {}
    /\ kjob = Idle /\ \A b \in Binding : bjob[b] = Idle

\* The informers' resync.  The controllers come to rest within its period.
Resync ==
    /\ Settled
    /\ kqueued' = TRUE /\ bqueue' = Binding
    /\ UNCHANGED <<mesh, watch, lister, kjob, cache, bjob, told, former, upsets>>

\* The process dies, or its lease passes to a standby: the next leader has an
\* empty cache, every key queued (Promote) and an informer of its own.  An
\* update or a patch that is under way may still arrive.
Restart ==
    /\ Upset
    /\ \E n \in 0..Len(watch) :
          /\ lister' = IF n = 0 THEN lister ELSE watch[n]
          /\ watch' = SubSeq(watch, n + 1, Len(watch))
    /\ kqueued' = TRUE /\ kjob' \in {Idle, kjob}
    /\ cache' = <<>> /\ bqueue' = Binding
    /\ \E S \in SUBSET {b \in Binding : bjob[b].pc \in {"patch", "late"}} :
          bjob' = [b \in Binding |-> IF b \in S THEN [bjob[b] EXCEPT !.pc = "late"] ELSE Idle]
    /\ former' = former \cup ToSet(cache)
    /\ UNCHANGED <<mesh, told>>

---------------------------------------------------------------------------
(* The kmesh reconciler                                                     *)

\* Nothing is written when marking the lister's copy healthy changes nothing.
KStart ==
    /\ kqueued /\ kjob = Idle
    /\ kqueued' = FALSE
    /\ kjob' = IF lister.init THEN Idle
               ELSE [pc |-> "put", seen |-> lister.rv, rv |-> lister.rv,
                     classes |-> lister.classes, attempt |-> 1]
    /\ UNCHANGED <<mesh, watch, lister, bindingVars, upsets>>

\* updateStatus: the API server takes an update of its present version only.
\* If the answer is lost the key is retried.
KPut ==
    /\ kjob.pc = "put" /\ kjob.rv = mesh.rv
    /\ Write(TRUE, kjob.classes)
    /\ kjob' = Idle
    /\ \/ UNCHANGED <<kqueued, upsets>>
       \/ Upset /\ kqueued' = TRUE
    /\ UNCHANGED bindingVars

\* Mutant: the attempts are not counted.
KConflictForever ==
    /\ kjob.pc = "put" /\ kjob.rv # mesh.rv
    /\ kjob' = [pc |-> "get", seen |-> kjob.seen, classes |-> kjob.classes,
                attempt |-> kjob.attempt + 1]
    /\ UNCHANGED <<mesh, watch, lister, kqueued, bindingVars, upsets>>

\* A conflict is retried on the spot, Steps attempts in all.
KConflict ==
    /\ kjob.pc = "put" /\ kjob.rv # mesh.rv
    /\ IF kjob.attempt < Steps
       THEN /\ kjob' = [pc |-> "get", seen |-> kjob.seen, classes |-> kjob.classes,
                        attempt |-> kjob.attempt + 1]
            /\ UNCHANGED kqueued
       ELSE kjob' = Idle /\ kqueued' = TRUE
    /\ UNCHANGED <<mesh, watch, lister, bindingVars, upsets>>

\* The retry takes the version of a fresh copy, and the status of the old one.
KGet ==
    /\ kjob.pc = "get"
    /\ kjob' = IF mesh.init /\ mesh.classes = kjob.classes THEN Idle
               ELSE [pc |-> "put", seen |-> kjob.seen, rv |-> mesh.rv,
                     classes |-> kjob.classes, attempt |-> kjob.attempt]
    /\ UNCHANGED <<mesh, watch, lister, kqueued, bindingVars, upsets>>

\* Any other error requeues the key.
KError ==
    /\ kjob # Idle
    /\ Upset
    /\ kjob' = Idle /\ kqueued' = TRUE
    /\ UNCHANGED <<mesh, watch, lister, bindingVars>>

---------------------------------------------------------------------------
(* The brokerbinding reconciler                                             *)

\* Mutant: the classes of the binding replace those cached.
MergedClassesLast(cached, classes) == classes

MergedClasses(cached, classes) ==
    IF cached = <<>> THEN classes ELSE ListOf[ToSet(cached) \cup ToSet(classes)]

\* Mutant: a binding that is Ready has nothing to do.
BStartUnready(b) ==
    /\ b \in bqueue /\ bjob[b] = Idle
    /\ bqueue' = bqueue \ {b}
    /\ bjob' = IF b \in told THEN bjob
               ELSE [bjob EXCEPT ![b] = [pc |-> "merge", base |-> lister]]
    /\ UNCHANGED <<mesh, watch, lister, kmeshVars, cache, told, former, upsets>>

\* The lister's copy is the base of the patch.
BStart(b) ==
    /\ b \in bqueue /\ bjob[b] = Idle
    /\ bqueue' = bqueue \ {b}
    /\ bjob' = [bjob EXCEPT ![b] = [pc |-> "merge", base |-> lister]]
    /\ UNCHANGED <<mesh, watch, lister, kmeshVars, cache, told, former, upsets>>

\* The critical section: the classes of the binding are cached.
BMerge(b) ==
    /\ bjob[b].pc = "merge"
    /\ cache' = MergedClasses(cache, ClassesOf[b])
    /\ bjob' = [bjob EXCEPT ![b] = [pc |-> "read", base |-> @.base]]
    /\ UNCHANGED <<mesh, watch, lister, kmeshVars, bqueue, told, former, upsets>>

\* The patch that gives the copy of a job the wanted classes.
PatchTo(j, classes) ==
    [pc |-> "patch", base |-> j.base, after |-> classes,
     ops |-> EditScript(j.base.classes, classes)]

\* Mutant: a binding publishes its own classes.
BReadOwn(b) ==
    /\ bjob[b].pc = "read"
    /\ bjob' = [bjob EXCEPT ![b] = PatchTo(@, ClassesOf[b])]
    /\ UNCHANGED <<mesh, watch, lister, kmeshVars, cache, bqueue, told, former, upsets>>

\* The cache is read again, without its lock.
BRead(b) ==
    /\ bjob[b].pc = "read"
    /\ bjob' = [bjob EXCEPT ![b] = PatchTo(@, cache)]
    /\ UNCHANGED <<mesh, watch, lister, kmeshVars, cache, bqueue, told, former, upsets>>

\* What the patch of job j does to the classes the mesh has now.
Patched(j) ==
    IF j.base.classes = j.after THEN Ok(mesh.classes)
    ELSE IF mesh.init
         THEN PatchMember(j.base.classes, j.after, mesh.classes, ApplyOps(j.ops, mesh.classes))
    ELSE Failed

\* The API server takes the patch of job j.
Apply(j) ==
    LET patched == Patched(j)
    IN  /\ patched.ok
        /\ IF patched.val = mesh.classes THEN UNCHANGED <<mesh, watch, lister>>
           ELSE Write(mesh.init, patched.val)

\* The binding becomes Ready, and the event of that wakes it once more.
Tell(b) ==
    /\ bqueue' = IF b \in told THEN bqueue ELSE bqueue \cup {b}
    /\ told' = told \cup {b}

BPatch(b) ==
    /\ bjob[b].pc = "patch"
    /\ bjob' = [bjob EXCEPT ![b] = Idle]
    /\ Apply(bjob[b])
    /\ \/ Tell(b) /\ UNCHANGED upsets
       \/ Upset /\ bqueue' = bqueue \cup {b} /\ UNCHANGED told
    /\ UNCHANGED <<kmeshVars, cache, former>>

\* The patch is refused, or the call lost: the key is retried.
BError(b) ==
    /\ bjob[b].pc = "patch"
    /\ bjob' = [bjob EXCEPT ![b] = Idle]
    /\ bqueue' = bqueue \cup {b}
    /\ \/ ~Patched(bjob[b]).ok /\ UNCHANGED upsets
       \/ Upset
    /\ UNCHANGED <<mesh, watch, lister, kmeshVars, cache, told, former>>

\* A patch of a former leader arrives.  A replica that was demoted goes on and
\* writes that the binding is Ready; one that died does not.
BLate(b) ==
    /\ bjob[b].pc = "late"
    /\ bjob' = [bjob EXCEPT ![b] = Idle]
    /\ \/ Apply(bjob[b]) /\ (Tell(b) \/ UNCHANGED <<bqueue, told>>)
       \/ ~Patched(bjob[b]).ok /\ UNCHANGED <<mesh, watch, lister, bqueue, told>>
    /\ UNCHANGED <<kmeshVars, cache, former, upsets>>

---------------------------------------------------------------------------

KWork    == KPut \/ KConflict \/ KGet \/ KError
BWork(b) == BMerge(b) \/ BRead(b) \/ BPatch(b) \/ BError(b) \/ BLate(b)

Next ==
    \/ Touch \/ Deliver \/ Resync \/ Restart
    \/ KStart \/ KWork
    \/ \E b \in Binding : BStart(b) \/ BWork(b)

Spec == Init /\ [][Next]_vars

\* The watch delivers, the workers go on, a call comes to an end, the resync
\* comes.
Fairness ==
    /\ WF_vars(Deliver) /\ WF_vars(Resync) /\ WF_vars(KStart \/ KWork)
    /\ \A b \in Binding : WF_vars(BStart(b) \/ BWork(b))

FairSpec == Spec /\ Fairness

---------------------------------------------------------------------------
(* Properties                                                               *)

Lost == ToSet(mesh.classes) \ ToSet(mesh'.classes)

\* Job j's patch may take class c away: its base is old, or c was registered
\* with a former process and not yet with that of j when j read its cache.
Excused(j, c) == j.base.rv # mesh.rv \/ c \in former \ ToSet(j.after)

\* A class disappears from the mesh only by a write that was computed from a
\* copy older than what it replaces, or by a worker whose process has not yet
\* heard of it since a restart: what a process has published it takes away by
\* stale writes only, however its workers share their cache and whatever its
\* predecessors have left under way (brokerbinding.go 96-122, controller.go 76,
\* reconciler.go 311).
LossNeedsStaleCopy ==
    [][\A c \in Lost :
          \/ kjob.pc = "put" /\ kjob' = Idle /\ kjob.seen # mesh.rv
          \/ \E b \in Binding :
                /\ bjob[b].pc \in {"patch", "late"} /\ bjob'[b] = Idle
                /\ Excused(bjob[b], c)]_vars

\* Resyncs repair the list: whatever was overwritten, dropped or doubled, and
\* whatever a restart made the cache forget, the mesh ends up with the classes
\* the leader has cached (brokerbinding.go 119-122).
ClassesRepaired == <>[](mesh.classes = cache)

\* The caches are a register of classes and the mesh publishes it: no class is
\* ever published that no binding registered with this process or an earlier
\* one, be it by a merge of two patches, a status kept over retries or a late
\* patch, and in the end what any process registered is published
\* (brokerbinding.go 96-157, kmesh/reconciler.go 311-341).
Register == INSTANCE ClassRegister
            WITH registered <- ToSet(cache) \cup former, published <- ToSet(mesh.classes)

RegisterImplemented == Register!Spec

\* "We don't want to overwrite a prior update to status with this stale state"
\* (pkg/client/injection/reconciler/mesh/v1alpha1/kmesh/reconciler.go 266-269).
NoUpdateOverwritten == [][kjob.pc = "put" /\ kjob' = Idle => Lost = {}]_vars
=============================================================================
