---------------------------- MODULE SharedMemory ----------------------------
(***************************************************************************)
(* Who reads and writes which memory of the controller process.            *)
(*                                                                         *)
(* The objects of the informers are shared by all and belong to nobody:    *)
(* the workers write to deep copies.  The caches of the brokerbinding      *)
(* reconciler are behind cacheLock, but for the places that forget it, and *)
(* keep pointers into copies of jobs that go on writing them.              *)
(*                                                                         *)
(* An object is a tree of blocks of memory, one for each of its parts: the *)
(* structs held by value, and what a pointer, a slice or a map refers to.  *)
(* A block of an informer's object is named after the object, one that a   *)
(* job allocates after its worker.  A thread is at the step it is about to *)
(* take; the blocks this step reads and writes follow from where it is.    *)
(* The blocks of a job that has ended, and that a cache still refers to,   *)
(* belong to no worker any more.                                           *)
(* Two threads race when each is about to touch one block, one of them to  *)
(* write it, and not both with the lock.                                   *)
(*                                                                         *)
(* Abstractions.  One mesh, one class and one broker, all versions of an   *)
(* object of an informer are one, and the elements of an array are one.    *)
(***************************************************************************)
CONSTANTS
    Binder,           \* workers of the brokerbinding controller
    Mesher            \* workers of the kmesh controller

Worker  == Binder \cup Mesher
Handler == {"brokers", "triggers"}

ASSUME Threads ==
    /\ Binder \cap Mesher = {}
    /\ {"brokers", "triggers", "store", "cache", "left", "none"} \cap Worker = {}

---------------------------------------------------------------------------
(* Objects and their copies                                                 *)

EgressCopy     == {"destination"}
EgressesCopy   == {"egresses"} \cup EgressCopy
IngressCopy    == {"address"} \cup EgressesCopy
IngressesCopy  == {"ingresses"} \cup IngressCopy

\* Mutant: the conditions of the copy are those of the original.
KMeshStatusShallow == {"status", "classes"} \cup IngressesCopy

KMeshStatusCopy == {"status", "conditions", "classes"} \cup IngressesCopy

KMeshCopy == {"object", "meta"} \cup KMeshStatusCopy

BrokerBindingSpecCopy == {"classes", "kmesh"}

BrokerBindingStatusCopy == {"status", "conditions"}

BrokerBindingCopy ==
    {"object", "meta"} \cup BrokerBindingSpecCopy \cup BrokerBindingStatusCopy

\* object: the type, name and version; status: the fields of the status; meta:
\* labels and annotations.
BindingParts == {"object", "meta", "classes", "kmesh", "status", "conditions"}
KMeshParts   == {"object", "meta", "status", "conditions", "classes", "ingresses", "address",
                 "egresses", "destination"}

Kind(w) == IF w \in Binder THEN "binding" ELSE "kmesh"

\* An object in the store of an informer.
Stored(kind) ==
    [p \in IF kind = "binding" THEN BindingParts ELSE KMeshParts |-> <<"store", kind, p>>]

\* A part that is not copied is shared with the original.
DeepCopy(tree, w, name) ==
    LET copied == IF DOMAIN tree = BindingParts THEN BrokerBindingCopy ELSE KMeshCopy
    IN  [p \in DOMAIN tree |-> IF p \in copied THEN <<w, name, p>> ELSE tree[p]]

Blocks(tree) == {tree[p] : p \in DOMAIN tree}

NoTree  == [p \in {} |-> p]
NoBlock == <<"none", "none", "none">>

InStore(block) == block[1] = "store"

---------------------------------------------------------------------------

VARIABLES
    at,         \* the step a thread is about to take
    resource,   \* the copy the worker reconciles
    after,      \* the copy of the mesh that the patch is made from
    existing,   \* the copy that carries the update of the status
    cached,     \* the array kmeshCache has for the mesh
    owner,      \* the bindings the entries of trackedBrokers and trackedTriggers point to
    refs        \* the entry of the class has brokers

workerVars == <<resource, after, existing>>
cacheVars  == <<cached, owner, refs>>
vars == <<at, workerVars, cacheVars>>

Steps == {"idle", "copy", "classes", "ingresses", "after", "patch", "mark", "post", "update"}

\* A handler that is past its filter has the entry it reads.
TypeOK ==
    /\ at \in [Worker \cup Handler -> Steps \cup {"filter", "handle"}]
    /\ \A h \in Handler : at[h] \in {"idle", "filter", "handle"}
    /\ \A h \in Handler : at[h] = "handle" => owner[h] # NoTree
    /\ \A w \in Worker : at[w] \in Steps
    /\ \A w \in Worker : at[w] \notin {"idle", "copy"} =>
          DOMAIN resource[w] = DOMAIN Stored(Kind(w))
    /\ \A h \in Handler : owner[h] = NoTree \/ DOMAIN owner[h] = BindingParts
    /\ refs \in BOOLEAN

Init ==
    /\ at = [t \in Worker \cup Handler |-> "idle"]
    /\ resource = [w \in Worker |-> NoTree]
    /\ after = [w \in Worker |-> NoTree]
    /\ existing = [w \in Worker |-> NoTree]
    /\ cached = NoBlock
    /\ owner = [h \in Handler |-> NoTree]
    /\ refs = FALSE

Goto(t, step) == at' = [at EXCEPT ![t] = step]

Start(w) ==
    /\ at[w] = "idle"
    /\ Goto(w, "copy")
    /\ UNCHANGED <<workerVars, cacheVars>>

\* SetCondition leaves the array alone, or makes another.
Conditions(tree, w) == {tree, [tree EXCEPT !["conditions"] = <<w, "resource", "conditions">>]}

\* PreProcessReconcile sets what the conditions lack.
Copy(w) ==
    /\ at[w] = "copy"
    /\ \E tree \in Conditions(DeepCopy(Stored(Kind(w)), w, "resource"), w) :
          resource' = [resource EXCEPT ![w] = tree]
    /\ \/ w \in Binder /\ Goto(w, "classes")
       \/ Goto(w, "mark")                \* a kmesh, or a binding without its mesh
    /\ UNCHANGED <<after, existing, cacheVars>>

\* The cache of a new mesh is the very array of the binding; merged with another
\* it is a new one, which nothing but the cache refers to.
CacheClasses(w) ==
    /\ at[w] = "classes"
    /\ cached' = IF cached = NoBlock THEN resource[w]["classes"]
                 ELSE <<"left", "list", "classes">>
    /\ Goto(w, "ingresses")
    /\ UNCHANGED <<workerVars, owner, refs>>

\* The binding that comes first to a class, or to a ready broker, owns its entry.
ReconcileIngresses(w) ==
    /\ at[w] = "ingresses"
    /\ \E ready \in {FALSE, refs} :
          owner' = [h \in Handler |->
                      IF owner[h] = NoTree /\ (h = "brokers" \/ ready) THEN resource[w]
                      ELSE owner[h]]
    /\ Goto(w, "after")
    /\ UNCHANGED <<workerVars, cached, refs>>

\* The classes are the cache's, the addresses and destinations the listers'.
MakeAfter(w) ==
    /\ at[w] = "after"
    /\ after' = [after EXCEPT ![w] =
          [DeepCopy(Stored("kmesh"), w, "after") EXCEPT
             !["classes"] = cached,
             !["address"] = <<"store", "broker", "address">>,
             !["destination"] = <<"store", "trigger", "destination">>]]
    /\ Goto(w, "patch")
    /\ UNCHANGED <<resource, existing, cacheVars>>

Patch(w) ==
    /\ at[w] = "patch"
    /\ Goto(w, "mark")
    /\ UNCHANGED <<workerVars, cacheVars>>

Mark(w) ==
    /\ at[w] = "mark"
    /\ \E tree \in Conditions(resource[w], w) : resource' = [resource EXCEPT ![w] = tree]
    /\ Goto(w, "post")
    /\ UNCHANGED <<after, existing, cacheVars>>

\* Mutant: the update is carried by the informer's object.
ExistingInPlace(w) == Stored(Kind(w))

Existing(w) == DeepCopy(Stored(Kind(w)), w, "existing")

\* groomConditionsTransitionTime sets the times in place.
PostProcess(w) ==
    /\ at[w] = "post"
    /\ existing' = [existing EXCEPT ![w] = Existing(w)]
    /\ Goto(w, "update")
    /\ UNCHANGED <<resource, after, cacheVars>>

Left(block, w) == IF block[1] = w THEN <<"left", block[2], block[3]>> ELSE block

\* The update has the status of the copy, and the wrapped client stamps it.
UpdateStatus(w) ==
    /\ at[w] = "update"
    /\ Goto(w, "idle")
    /\ resource' = [resource EXCEPT ![w] = NoTree]
    /\ after' = [after EXCEPT ![w] = NoTree]
    /\ existing' = [existing EXCEPT ![w] = NoTree]
    /\ cached' = Left(cached, w)
    /\ owner' = [h \in Handler |-> [p \in DOMAIN owner[h] |-> Left(owner[h][p], w)]]
    /\ UNCHANGED refs

\* Mutant: the filter takes every object.
FilterNothing(h) ==
    \/ at[h] = "idle" /\ Goto(h, "filter") /\ UNCHANGED <<workerVars, cacheVars>>
    \/ at[h] = "filter" /\ Goto(h, "handle") /\ UNCHANGED <<workerVars, cacheVars>>

\* An informer calls the filter of its handler; an entry that is there passes.
Filter(h) ==
    \/ at[h] = "idle" /\ Goto(h, "filter") /\ UNCHANGED <<workerVars, cacheVars>>
    \/ /\ at[h] = "filter"
       /\ Goto(h, IF owner[h] = NoTree THEN "idle" ELSE "handle")
       /\ UNCHANGED <<workerVars, cacheVars>>

Handle(h) ==
    /\ at[h] = "handle"
    /\ refs' = (refs \/ h = "brokers")
    /\ Goto(h, "idle")
    /\ UNCHANGED <<workerVars, cached, owner>>

Next ==
    \/ \E w \in Worker :
          \/ Start(w) \/ Copy(w) \/ CacheClasses(w) \/ ReconcileIngresses(w) \/ MakeAfter(w)
          \/ Patch(w) \/ Mark(w) \/ PostProcess(w) \/ UpdateStatus(w)
    \/ \E h \in Handler : Filter(h) \/ Handle(h)

Spec == Init /\ [][Next]_vars

---------------------------------------------------------------------------
(* What a step touches                                                      *)

Map(name) == <<"cache", "map", name>>

\* Mutant: the ingresses are reconciled without cacheLock.
LockedButIngresses == {"classes", "handle"}

Locked == {"classes", "ingresses", "handle"}

WorkerReads(w) ==
    CASE at[w] = "copy"      -> Blocks(Stored(Kind(w)))
      [] at[w] = "classes"   -> Blocks(resource[w]) \cup {Map("kmeshCache"), cached}
      [] at[w] = "ingresses" -> {Map("kmeshCache"), cached, Map("trackedBrokers"),
                                 Map("trackedTriggers"), Map("brokerRefs"), Map("triggerRefs"),
                                 <<"store", "broker", "address">>, <<"store", "trigger", "destination">>}
                                \* "Will update cache trigger cache" logs the owner
                                \cup IF refs THEN Blocks(owner["triggers"]) ELSE {}
      [] at[w] = "after"     -> {Map("kmeshCache")} \cup Blocks(Stored("kmesh"))
      [] at[w] = "patch"     -> Blocks(after[w]) \cup Blocks(Stored("kmesh"))
      [] at[w] = "mark"      -> {resource[w]["status"], resource[w]["conditions"]}
      [] at[w] = "post"      -> Blocks(Stored(Kind(w))) \cup {resource[w]["object"]}
      [] at[w] = "update"    -> {resource[w]["status"], resource[w]["conditions"]}
                                \cup Blocks(existing[w])
      [] OTHER               -> {}

WorkerWrites(w) ==
    CASE at[w] = "copy"      -> {DeepCopy(Stored(Kind(w)), w, "resource")["status"]}
      [] at[w] = "classes"   -> {Map("kmeshCache")}
      [] at[w] = "ingresses" -> {Map("trackedBrokers"), Map("trackedTriggers"),
                                 Map("brokerRefs"), Map("triggerRefs")}
      [] at[w] = "after"     -> {DeepCopy(Stored("kmesh"), w, "after")["status"]}
      [] at[w] = "mark"      -> {resource[w]["status"]}
      [] at[w] = "post"      -> {resource[w]["status"], resource[w]["conditions"]}
      [] at[w] = "update"    -> {existing[w]["status"], existing[w]["object"]}
      [] OTHER               -> {}

Tracked(h) == Map(IF h = "brokers" THEN "trackedBrokers" ELSE "trackedTriggers")

FilterReads(h) == {Tracked(h)}

HandlerReads(h) == {Tracked(h), owner[h]["object"]}

HandlerWrites(h) == {Map(IF h = "brokers" THEN "brokerRefs" ELSE "triggerRefs")}

Writes(t) ==
    IF t \in Worker THEN WorkerWrites(t) ELSE IF at[t] = "handle" THEN HandlerWrites(t) ELSE {}

Reads(t) ==
    CASE t \in Worker      -> WorkerReads(t)
      [] at[t] = "filter"  -> FilterReads(t)
      [] at[t] = "handle"  -> HandlerReads(t)
      [] OTHER             -> {}

---------------------------------------------------------------------------
(* Properties                                                               *)

\* "Don't modify the informers copy" (reconciler.go 217, 353): no step of a worker
\* writes a block of an object the informers share, not even the times of the
\* conditions groomed in place after a reconciliation that changed none.
StoreUntouched == \A w \in Worker : \A b \in WorkerWrites(w) : ~InStore(b)

\* What a worker works on it shares with no informer, and with no other worker.
CopiesApart ==
    \A w \in Worker :
        \A b \in Blocks(resource[w]) \cup Blocks(existing[w]) :
            /\ ~InStore(b)
            /\ \A v \in Worker \ {w} : b \notin Blocks(resource[v]) \cup Blocks(existing[v])

Races(t, u) ==
    IF at[t] \in Locked /\ at[u] \in Locked THEN {}
    ELSE Writes(t) \cap (Reads(u) \cup Writes(u))

\* All there is to race for: kmeshCache, read without the lock for the patch while
\* another worker sets it (brokerbinding.go 104-109, 120); the two tracked maps,
\* read by the filters while a worker sets them (controller.go 152, 173); and the
\* status of the binding that owns a broker's triggers, which is logged with the
\* lock held while its own worker marks it without (brokerbinding.go 201, 90).
RacesKnown ==
    \A t, u \in Worker \cup Handler : t # u => \A b \in Races(t, u) :
        \/ b = Map("kmeshCache") /\ at[t] = "classes" /\ at[u] = "after"
        \/ u \in Handler /\ b = Tracked(u) /\ at[t] = "ingresses" /\ at[u] = "filter"
        \/ b \in Blocks(owner["triggers"]) /\ at[t] \in {"mark", "post"} /\ at[u] = "ingresses"
=============================================================================
