------------------------- MODULE SharedMemoryProofs -------------------------
(***************************************************************************)
(* However many workers there are, none writes to an object of an informer *)
(* (StoreUntouched), none shares what it works on (CopiesApart), and the   *)
(* races are the three that RacesKnown names.                              *)
(*                                                                         *)
(* The invariant behind them says which blocks each reference can reach:   *)
(* the copies of a worker are made of its own blocks, which holds because  *)
(* the deep copies leave out no part of an object and because nothing that *)
(* is put into a copy later comes from elsewhere; the object for the patch *)
(* adds the array of the cache; and what the caches refer to belongs to a  *)
(* worker that is busy, or was left behind by one that is done.            *)
(***************************************************************************)
EXTENDS SharedMemory, TLAPS

\* A deep copy of an informer's object is the worker's own: every part of a
\* binding and of a mesh is in what its DeepCopyInto copies
\* (zz_generated.deepcopy.go 28-313).
LEMMA DeepCopyIsOwn ==
    ASSUME NEW w, NEW kind \in {"binding", "kmesh"}, NEW name
    PROVE  LET tree == DeepCopy(Stored(kind), w, name)
           IN  /\ tree = [p \in DOMAIN tree |-> tree[p]]
               /\ DOMAIN tree = DOMAIN Stored(kind)
               /\ \A p \in DOMAIN tree : tree[p] = <<w, name, p>>
<1>1. DOMAIN Stored(kind) = IF kind = "binding" THEN BindingParts ELSE KMeshParts
  BY DEF Stored
<1>2. "ingresses" \in KMeshParts /\ "ingresses" \notin BindingParts
  BY DEF KMeshParts, BindingParts
<1>3. BindingParts \subseteq BrokerBindingCopy
  BY DEF BindingParts, BrokerBindingCopy, BrokerBindingSpecCopy, BrokerBindingStatusCopy
<1>4. KMeshParts \subseteq KMeshCopy
  BY DEF KMeshParts, KMeshCopy, KMeshStatusCopy, IngressesCopy, IngressCopy, EgressesCopy,
         EgressCopy
<1>5. CASE kind = "binding"
  BY <1>1, <1>3, <1>5 DEF DeepCopy
<1>6. CASE kind = "kmesh"
  BY <1>1, <1>2, <1>4, <1>6 DEF DeepCopy
<1> QED
  BY <1>5, <1>6

---------------------------------------------------------------------------
(* Which block is where                                                     *)

\* The steps at which a worker has the copy it reconciles.
Copied == {"classes", "ingresses", "after", "patch", "mark", "post", "update"}

Made(w, name) == [p \in DOMAIN Stored(Kind(w)) |-> <<w, name, p>>]

\* What kmeshCache refers to: no part of an object that a worker writes.
ClassArray(b) == b[2] # "map" /\ b[3] \notin {"object", "status", "conditions"}

\* What an entry of a tracked map points to: the object of a worker in the middle
\* of a reconciliation, or one that was left behind.
Entry(tree) ==
    /\ tree = [p \in BindingParts |-> tree[p]]
    /\ \A p \in BindingParts :
          \/ tree[p] = <<"left", "resource", p>>
          \/ \E w \in Worker : at[w] \in Copied /\ tree[p] = <<w, "resource", p>>

AtKnown ==
    /\ at \in [Worker \cup Handler -> Steps \cup {"filter", "handle"}]
    /\ \A h \in Handler : at[h] \in {"idle", "filter", "handle"}
    /\ \A w \in Worker : at[w] \in Steps
    /\ \A w \in Worker : at[w] \in {"classes", "ingresses", "after", "patch"} => w \in Binder

CopiesKnown ==
    /\ resource = [w \in Worker |-> resource[w]]
    /\ existing = [w \in Worker |-> existing[w]]
    /\ \A w \in Worker : /\ resource[w] \in {NoTree, Made(w, "resource")}
                         /\ existing[w] \in {NoTree, Made(w, "existing")}
    /\ \A w \in Worker : at[w] \in Copied => resource[w] = Made(w, "resource")
    /\ \A w \in Worker : at[w] = "update" => existing[w] = Made(w, "existing")

AftersKnown ==
    /\ after = [w \in Worker |-> after[w]]
    /\ \A w \in Worker : at[w] = "patch" =>
          \A b \in Blocks(after[w]) : b[1] \in {w, "store"} \/ ClassArray(b)

CachesKnown ==
    /\ refs \in BOOLEAN
    /\ ClassArray(cached)
    /\ owner = [h \in Handler |-> owner[h]]
    /\ \A h \in Handler : owner[h] = NoTree \/ Entry(owner[h])
    /\ \A h \in Handler : at[h] = "handle" => owner[h] # NoTree

Layout == AtKnown /\ CopiesKnown /\ AftersKnown /\ CachesKnown

LEMMA HandlersAreNoWorkers == Handler \cap Worker = {}
  BY Threads DEF Handler

LEMMA GotoIs ==
    ASSUME AtKnown, NEW t \in Worker \cup Handler, NEW step, Goto(t, step)
    PROVE  at' = [u \in Worker \cup Handler |-> IF u = t THEN step ELSE at[u]]
  BY DEF AtKnown, Goto

\* A thread goes from one step of its own to another; only bindings are published.
LEMMA AtMoves ==
    ASSUME AtKnown, NEW t \in Worker \cup Handler, NEW step, Goto(t, step),
           t \in Handler => step \in {"idle", "filter", "handle"},
           t \in Worker => step \in Steps,
           t \in Worker /\ step \in {"classes", "ingresses", "after", "patch"} => t \in Binder
    PROVE  AtKnown'
<1>1. at' = [u \in Worker \cup Handler |-> IF u = t THEN step ELSE at[u]]
  BY GotoIs
<1>2. \A u \in Worker \cup Handler : at'[u] = IF u = t THEN step ELSE at[u]
  BY <1>1
<1>3. step \in Steps \cup {"filter", "handle"}
  BY DEF Steps
<1>4. at' \in [Worker \cup Handler -> Steps \cup {"filter", "handle"}]
  BY <1>1, <1>3 DEF AtKnown
<1>5. \A w \in Worker : at'[w] \in Steps
  BY <1>2, HandlersAreNoWorkers DEF AtKnown
<1>6. \A w \in Worker :
         at'[w] \in {"classes", "ingresses", "after", "patch"} => w \in Binder
  BY <1>2, HandlersAreNoWorkers DEF AtKnown
<1>7. \A h \in Handler : at'[h] \in {"idle", "filter", "handle"}
  BY <1>2, HandlersAreNoWorkers DEF AtKnown
<1> QED
  BY <1>4, <1>5, <1>6, <1>7 DEF AtKnown

LEMMA AtStep ==
    ASSUME AtKnown, [Next]_vars
    PROVE  AtKnown'
<1>1. ASSUME NEW w \in Worker,
             \/ Start(w) \/ Copy(w) \/ CacheClasses(w) \/ ReconcileIngresses(w) \/ MakeAfter(w)
             \/ Patch(w) \/ Mark(w) \/ PostProcess(w) \/ UpdateStatus(w)
      PROVE  AtKnown'
  <2>1. w \notin Handler
    BY HandlersAreNoWorkers
  <2>2. PICK step : /\ Goto(w, step) /\ step \in Steps
                    /\ step \in {"classes", "ingresses", "after", "patch"} => w \in Binder
    <3>1. CASE Copy(w)
      BY <3>1 DEF Copy, Steps
    <3>2. CASE \/ Start(w) \/ CacheClasses(w) \/ ReconcileIngresses(w) \/ MakeAfter(w)
               \/ Patch(w) \/ Mark(w) \/ PostProcess(w) \/ UpdateStatus(w)
      BY <3>2 DEF Start, CacheClasses, ReconcileIngresses, MakeAfter, Patch, Mark, PostProcess,
                  UpdateStatus, Steps, AtKnown
    <3> QED
      BY <1>1, <3>1, <3>2
  <2> QED
    BY <2>1, <2>2, AtMoves
<1>2. ASSUME NEW h \in Handler, Filter(h) \/ Handle(h)
      PROVE  AtKnown'
  <2>1. PICK step \in {"idle", "filter", "handle"} : Goto(h, step)
    BY <1>2 DEF Filter, Handle
  <2> QED
    BY <2>1, AtMoves, HandlersAreNoWorkers
<1>3. CASE UNCHANGED vars
  BY <1>3 DEF vars, AtKnown
<1> QED
  BY <1>1, <1>2, <1>3 DEF Next

LEMMA CopyIsMade ==
    ASSUME NEW w, NEW name
    PROVE  DeepCopy(Stored(Kind(w)), w, name) = Made(w, name)
<1>1. Kind(w) \in {"binding", "kmesh"}
  BY DEF Kind
<1> DEFINE tree == DeepCopy(Stored(Kind(w)), w, name)
<1>2. /\ tree = [p \in DOMAIN tree |-> tree[p]]
      /\ DOMAIN tree = DOMAIN Stored(Kind(w))
      /\ \A p \in DOMAIN tree : tree[p] = <<w, name, p>>
  BY <1>1, DeepCopyIsOwn
<1> HIDE DEF tree
<1>3. tree = Made(w, name)
  BY <1>2 DEF Made
<1> QED
  BY <1>3 DEF tree

\* The array SetCondition makes is the worker's own again.
LEMMA ConditionsAreMade ==
    ASSUME NEW w, NEW tree \in Conditions(Made(w, "resource"), w)
    PROVE  tree = Made(w, "resource")
  BY DEF Conditions, Made

\* What one worker makes of its copies is no matter of the others.
LEMMA CopiesMove ==
    ASSUME AtKnown, CopiesKnown, NEW w \in Worker, NEW step, Goto(w, step),
           NEW r, resource' = [resource EXCEPT ![w] = r],
           NEW e, existing' = [existing EXCEPT ![w] = e],
           r \in {NoTree, Made(w, "resource")}, step \in Copied => r = Made(w, "resource"),
           e \in {NoTree, Made(w, "existing")}, step = "update" => e = Made(w, "existing")
    PROVE  CopiesKnown'
<1>1. \A u \in Worker : at'[u] = IF u = w THEN step ELSE at[u]
  BY GotoIs
<1>2. /\ resource' = [u \in Worker |-> IF u = w THEN r ELSE resource[u]]
      /\ existing' = [u \in Worker |-> IF u = w THEN e ELSE existing[u]]
  BY DEF CopiesKnown
<1>3. /\ resource' = [u \in Worker |-> resource'[u]]
      /\ existing' = [u \in Worker |-> existing'[u]]
  BY <1>2
<1>4. ASSUME NEW u \in Worker, at'[u] \in Copied
      PROVE  resource'[u] = Made(u, "resource")
  BY <1>1, <1>2, <1>4 DEF CopiesKnown
<1>5. ASSUME NEW u \in Worker, at'[u] = "update"
      PROVE  existing'[u] = Made(u, "existing")
  BY <1>1, <1>2, <1>5 DEF CopiesKnown
<1>6. ASSUME NEW u \in Worker
      PROVE  /\ resource'[u] \in {NoTree, Made(u, "resource")}
             /\ existing'[u] \in {NoTree, Made(u, "existing")}
  BY <1>2 DEF CopiesKnown
<1>7. /\ Copied' = Copied /\ NoTree' = NoTree
      /\ \A u, name : Made(u, name)' = Made(u, name)
  BY DEF Copied, NoTree, Made, Stored, Kind
<1> QED
  BY <1>3, <1>4, <1>5, <1>6, <1>7 DEF CopiesKnown

LEMMA CopiesStep ==
    ASSUME AtKnown, CopiesKnown, [Next]_vars
    PROVE  CopiesKnown'
<1>1. ASSUME NEW t \in Worker \cup Handler, NEW step, Goto(t, step),
             UNCHANGED <<resource, existing>>, step # "update",
             t \in Worker /\ step \in Copied => at[t] \in Copied
      PROVE  CopiesKnown'
  BY <1>1, GotoIs DEF CopiesKnown, NoTree, Made, Stored, Kind
<1>2. ASSUME NEW w \in Worker,
             \/ Start(w) \/ CacheClasses(w) \/ ReconcileIngresses(w) \/ MakeAfter(w) \/ Patch(w)
      PROVE  CopiesKnown'
  BY <1>1, <1>2 DEF Start, CacheClasses, ReconcileIngresses, MakeAfter, Patch, workerVars, Copied
<1>3. ASSUME NEW w \in Worker, Copy(w) \/ Mark(w)
      PROVE  CopiesKnown'
  <2>1. resource' = [resource EXCEPT ![w] = Made(w, "resource")]
    BY <1>3, CopyIsMade, ConditionsAreMade DEF Copy, Mark, CopiesKnown, Copied
  <2>2. PICK step \in {"classes", "mark", "post"} : Goto(w, step)
    BY <1>3 DEF Copy, Mark
  <2>3. existing' = [existing EXCEPT ![w] = existing[w]]
    BY <1>3 DEF Copy, Mark, CopiesKnown
  <2>4. existing[w] \in {NoTree, Made(w, "existing")}
    BY DEF CopiesKnown
  <2> QED
    BY <2>1, <2>2, <2>3, <2>4, CopiesMove
<1>4. ASSUME NEW w \in Worker, PostProcess(w)
      PROVE  CopiesKnown'
  <2>1. existing' = [existing EXCEPT ![w] = Made(w, "existing")]
    BY <1>4, CopyIsMade DEF PostProcess, Existing
  <2>2. resource' = [resource EXCEPT ![w] = resource[w]] /\ resource[w] = Made(w, "resource")
    BY <1>4 DEF PostProcess, CopiesKnown, Copied
  <2>3. Goto(w, "update")
    BY <1>4 DEF PostProcess
  <2> QED
    BY <2>1, <2>2, <2>3, CopiesMove
<1>5. ASSUME NEW w \in Worker, UpdateStatus(w)
      PROVE  CopiesKnown'
  <2>1. "idle" \notin Copied
    BY DEF Copied
  <2> QED
    BY <1>5, <2>1, CopiesMove DEF UpdateStatus
<1>6. ASSUME NEW h \in Handler, Filter(h) \/ Handle(h)
      PROVE  CopiesKnown'
  BY <1>1, <1>6, HandlersAreNoWorkers DEF Filter, Handle, workerVars
<1>7. CASE UNCHANGED vars
  BY <1>7 DEF vars, workerVars, CopiesKnown, NoTree, Made, Stored, Kind
<1> QED
  BY <1>2, <1>3, <1>4, <1>5, <1>6, <1>7 DEF Next

\* The patch is made from blocks of the worker and of the informers, and from what
\* the cache refers to.
LEMMA AftersStep ==
    ASSUME AtKnown, AftersKnown, ClassArray(cached), [Next]_vars
    PROVE  AftersKnown'
<1>1. ASSUME NEW t \in Worker \cup Handler, NEW step, Goto(t, step), step # "patch",
             UNCHANGED after
      PROVE  AftersKnown'
  <2>1. \A u \in Worker : at'[u] = "patch" => at[u] = "patch"
    BY <1>1, GotoIs
  <2> QED
    BY <1>1, <2>1 DEF AftersKnown, Blocks, ClassArray
<1>2. ASSUME NEW w \in Worker,
             \/ Start(w) \/ Copy(w) \/ CacheClasses(w) \/ ReconcileIngresses(w)
             \/ Patch(w) \/ Mark(w) \/ PostProcess(w)
      PROVE  AftersKnown'
  BY <1>1, <1>2 DEF Start, Copy, CacheClasses, ReconcileIngresses, Patch, Mark, PostProcess,
                    workerVars
<1>3. ASSUME NEW w \in Worker, MakeAfter(w)
      PROVE  AftersKnown'
  <2> DEFINE copy == DeepCopy(Stored("kmesh"), w, "after")
             tree == [copy EXCEPT
                        !["classes"] = cached,
                        !["address"] = <<"store", "broker", "address">>,
                        !["destination"] = <<"store", "trigger", "destination">>]
  <2>1. copy = [p \in DOMAIN copy |-> copy[p]] /\ \A p \in DOMAIN copy : copy[p][1] = w
    BY DeepCopyIsOwn
  <2>2. after' = [u \in Worker |-> IF u = w THEN tree ELSE after[u]]
    BY <1>3 DEF MakeAfter, AftersKnown
  <2>3. ASSUME NEW b \in Blocks(tree)
        PROVE  b[1] \in {w, "store"} \/ ClassArray(b)
    <3> HIDE DEF copy
    <3>1. PICK p \in DOMAIN copy : b = tree[p]
      BY <2>3 DEF Blocks
    <3>2. CASE p \notin {"classes", "address", "destination"}
      BY <2>1, <3>1, <3>2
    <3>3. CASE p \in {"classes", "address", "destination"}
      BY <2>1, <3>1, <3>3
    <3> QED
      BY <3>2, <3>3
  <2>4. \A u \in Worker : at'[u] = IF u = w THEN "patch" ELSE at[u]
    BY <1>3, GotoIs DEF MakeAfter
  <2>5. ASSUME NEW u \in Worker, at'[u] = "patch", NEW b \in Blocks(after'[u])
        PROVE  b[1] \in {u, "store"} \/ ClassArray(b)
    <3> HIDE DEF tree
    <3>1. CASE u = w
      BY <2>2, <2>3, <2>5, <3>1
    <3>2. CASE u # w
      BY <2>2, <2>4, <2>5, <3>2 DEF AftersKnown
    <3> QED
      BY <3>1, <3>2
  <2>6. after' = [u \in Worker |-> after'[u]]
    BY <2>2
  <2> QED
    BY <2>5, <2>6 DEF AftersKnown, Blocks, ClassArray
<1>4. ASSUME NEW w \in Worker, UpdateStatus(w)
      PROVE  AftersKnown'
  <2>1. \A u \in Worker : at'[u] = IF u = w THEN "idle" ELSE at[u]
    BY <1>4, GotoIs DEF UpdateStatus
  <2>2. after' = [u \in Worker |-> IF u = w THEN NoTree ELSE after[u]]
    BY <1>4 DEF UpdateStatus, AftersKnown
  <2> QED
    BY <2>1, <2>2 DEF AftersKnown, Blocks, ClassArray
<1>5. ASSUME NEW h \in Handler, Filter(h) \/ Handle(h)
      PROVE  AftersKnown'
  BY <1>1, <1>5 DEF Filter, Handle, workerVars
<1>6. CASE UNCHANGED vars
  BY <1>6 DEF vars, workerVars, AftersKnown, Blocks, ClassArray
<1> QED
  BY <1>2, <1>3, <1>4, <1>5, <1>6 DEF Next

\* An entry stays one as long as no worker ends.
LEMMA EntryStays ==
    ASSUME NEW tree, Entry(tree), \A w \in Worker : at[w] \in Copied => at'[w] \in Copied
    PROVE  Entry(tree)'
  BY DEF Entry, Copied, BindingParts

\* The object of a worker that ends belongs to nobody, and is an entry still.
LEMMA EntryLeft ==
    ASSUME NEW w \in Worker, NEW tree, Entry(tree),
           \A v \in Worker \ {w} : at[v] \in Copied => at'[v] \in Copied
    PROVE  /\ Entry([p \in DOMAIN tree |-> Left(tree[p], w)])'
           /\ [p \in DOMAIN tree |-> Left(tree[p], w)] # NoTree
<1> DEFINE new == [p \in DOMAIN tree |-> Left(tree[p], w)]
<1>1. DOMAIN tree = BindingParts
  BY DEF Entry
<1>2. new = [p \in BindingParts |-> new[p]]
  BY <1>1
<1>3. ASSUME NEW p \in BindingParts
      PROVE  \/ new[p] = <<"left", "resource", p>>
             \/ \E v \in Worker : at'[v] \in Copied /\ new[p] = <<v, "resource", p>>
  <2>1. new[p] = Left(tree[p], w)
    BY <1>1
  <2>2. CASE tree[p] = <<"left", "resource", p>>
    BY <2>1, <2>2 DEF Left
  <2>3. ASSUME NEW v \in Worker, at[v] \in Copied, tree[p] = <<v, "resource", p>>
        PROVE  \/ new[p] = <<"left", "resource", p>>
               \/ at'[v] \in Copied /\ new[p] = <<v, "resource", p>>
    BY <2>1, <2>3 DEF Left
  <2> QED
    BY <2>2, <2>3 DEF Entry
<1>4. "object" \in BindingParts
  BY DEF BindingParts
<1>5. new # NoTree
  BY <1>1, <1>4 DEF NoTree
<1> HIDE DEF new
<1>6. Entry(new)'
  BY <1>2, <1>3 DEF Entry, Copied, BindingParts
<1> QED
  BY <1>5, <1>6 DEF new

\* What a binding's worker publishes as the owner of an entry is its own object.
LEMMA ResourceIsEntry ==
    ASSUME CopiesKnown, NEW w \in Binder, at[w] \in Copied
    PROVE  Entry(resource[w]) /\ resource[w] # NoTree
<1>1. resource[w] = [p \in BindingParts |-> <<w, "resource", p>>]
  BY DEF CopiesKnown, Worker, Made, Stored, Kind
<1>2. "object" \in BindingParts
  BY DEF BindingParts
<1> QED
  BY <1>1, <1>2 DEF Entry, Worker, NoTree

LEMMA CachesStep ==
    ASSUME AtKnown, CopiesKnown, CachesKnown, [Next]_vars
    PROVE  CachesKnown'
<1>0. \A b : ClassArray(b)' = ClassArray(b)
  BY DEF ClassArray
\* The caches are left alone, and no worker ends.
<1>1. ASSUME NEW t \in Worker \cup Handler, NEW step, Goto(t, step), UNCHANGED cacheVars,
             t \in Worker /\ at[t] \in Copied => step \in Copied,
             t \in Handler /\ step = "handle" => owner[t] # NoTree
      PROVE  CachesKnown'
  <2>1. \A u \in Worker \cup Handler : at'[u] = IF u = t THEN step ELSE at[u]
    BY <1>1, GotoIs
  <2>2. \A w \in Worker : at[w] \in Copied => at'[w] \in Copied
    BY <1>1, <2>1
  <2>3. \A h \in Handler : at'[h] = "handle" => owner[h] # NoTree
    BY <1>1, <2>1 DEF CachesKnown
  <2>4. \A h \in Handler : owner[h] = NoTree \/ Entry(owner[h])'
    <3>1. ASSUME NEW h \in Handler, Entry(owner[h])
          PROVE  Entry(owner[h])'
      <4>1. owner' = owner
        BY <1>1 DEF cacheVars
      <4> QED
        BY <2>2, <3>1, <4>1 DEF Entry, Copied, BindingParts
    <3> QED
      BY <3>1 DEF CachesKnown
  <2> QED
    BY <1>0, <1>1, <2>3, <2>4 DEF CachesKnown, cacheVars, NoTree
<1>2. ASSUME NEW w \in Worker,
             Start(w) \/ Copy(w) \/ MakeAfter(w) \/ Patch(w) \/ Mark(w) \/ PostProcess(w)
      PROVE  CachesKnown'
  <2>1. PICK step : Goto(w, step) /\ (at[w] \in Copied => step \in Copied)
    BY <1>2 DEF Start, Copy, MakeAfter, Patch, Mark, PostProcess, Copied
  <2>2. UNCHANGED cacheVars
    BY <1>2 DEF Start, Copy, MakeAfter, Patch, Mark, PostProcess
  <2> QED
    BY <1>1, <2>1, <2>2, HandlersAreNoWorkers
<1>3. ASSUME NEW h \in Handler, Filter(h)
      PROVE  CachesKnown'
  <2>1. PICK step : Goto(h, step) /\ (step = "handle" => owner[h] # NoTree)
    BY <1>3 DEF Filter
  <2>2. UNCHANGED cacheVars
    BY <1>3 DEF Filter
  <2> QED
    BY <1>1, <2>1, <2>2, HandlersAreNoWorkers
<1>4. ASSUME NEW h \in Handler, Handle(h)
      PROVE  CachesKnown'
  <2>1. /\ Goto(h, "idle") /\ UNCHANGED <<cached, owner>> /\ refs' \in BOOLEAN
    BY <1>4 DEF Handle, CachesKnown
  <2>2. \A u \in Worker \cup Handler : at'[u] = IF u = h THEN "idle" ELSE at[u]
    BY <2>1, GotoIs
  <2>3. \A w \in Worker : at'[w] = at[w]
    BY <2>2, HandlersAreNoWorkers
  <2>4. \A g \in Handler : owner[g] = NoTree \/ Entry(owner[g])'
    <3>1. ASSUME NEW g \in Handler, Entry(owner[g])
          PROVE  Entry(owner[g])'
      BY <2>1, <2>3, <3>1 DEF Entry, Copied, BindingParts
    <3> QED
      BY <3>1 DEF CachesKnown
  <2> QED
    BY <1>0, <2>1, <2>2, <2>4 DEF CachesKnown, NoTree
<1>5. ASSUME NEW w \in Worker, CacheClasses(w)
      PROVE  CachesKnown'
  <2>1. w \in Binder /\ at[w] \in Copied
    BY <1>5 DEF CacheClasses, AtKnown, Copied
  <2>2. resource[w]["classes"] = <<w, "resource", "classes">>
    <3>1. resource[w] = [p \in BindingParts |-> <<w, "resource", p>>]
      BY <2>1 DEF CopiesKnown, Made, Stored, Kind
    <3> QED
      BY <3>1 DEF BindingParts
  <2>3. ClassArray(cached')
    BY <1>5, <2>2 DEF CacheClasses, ClassArray
  <2>4. Goto(w, "ingresses") /\ UNCHANGED <<owner, refs>>
    BY <1>5 DEF CacheClasses
  <2>5. \A u \in Worker \cup Handler : at'[u] = IF u = w THEN "ingresses" ELSE at[u]
    BY <2>4, GotoIs
  <2>6. \A v \in Worker : at[v] \in Copied => at'[v] \in Copied
    BY <2>5 DEF Copied
  <2>7. \A h \in Handler : owner[h] = NoTree \/ Entry(owner[h])'
    <3>1. ASSUME NEW h \in Handler, Entry(owner[h])
          PROVE  Entry(owner[h])'
      BY <2>4, <2>6, <3>1 DEF Entry, Copied, BindingParts
    <3> QED
      BY <3>1 DEF CachesKnown
  <2>8. \A h \in Handler : at'[h] = at[h]
    BY <2>5, HandlersAreNoWorkers
  <2> QED
    BY <1>0, <2>3, <2>4, <2>7, <2>8 DEF CachesKnown, NoTree
<1>6. ASSUME NEW w \in Worker, ReconcileIngresses(w)
      PROVE  CachesKnown'
  <2>1. w \in Binder /\ at[w] \in Copied
    BY <1>6 DEF ReconcileIngresses, AtKnown, Copied
  <2>2. Goto(w, "after") /\ UNCHANGED <<cached, refs>>
    BY <1>6 DEF ReconcileIngresses
  <2>3. \A u \in Worker \cup Handler : at'[u] = IF u = w THEN "after" ELSE at[u]
    BY <2>2, GotoIs
  <2>4. \A v \in Worker : at[v] \in Copied => at'[v] \in Copied
    BY <2>3 DEF Copied
  <2>5. \A h \in Handler : at'[h] = at[h]
    BY <2>3, HandlersAreNoWorkers
  <2>6. PICK ready \in {FALSE, refs} :
           owner' = [h \in Handler |->
                       IF owner[h] = NoTree /\ (h = "brokers" \/ ready) THEN resource[w]
                       ELSE owner[h]]
    BY <1>6 DEF ReconcileIngresses
  <2>7. /\ owner' = [h \in Handler |-> owner'[h]]
        /\ \A h \in Handler : owner'[h] = owner[h] \/ owner'[h] = resource[w]
    BY <2>6
  <2>8. Entry(resource[w]) /\ resource[w] # NoTree
    BY <2>1, ResourceIsEntry
  <2>9. \A tree : Entry(tree) => Entry(tree)'
    BY <2>4, EntryStays
  <2>10. ASSUME NEW h \in Handler
         PROVE  (owner[h] = NoTree \/ Entry(owner[h]))'
    <3>1. owner'[h] = NoTree \/ Entry(owner'[h])
      BY <2>7, <2>8 DEF CachesKnown
    <3> QED
      BY <2>9, <3>1 DEF Entry, NoTree
  <2>11. ASSUME NEW h \in Handler, at'[h] = "handle"
         PROVE  owner'[h] # NoTree
    BY <2>5, <2>7, <2>8, <2>11 DEF CachesKnown
  <2> QED
    BY <1>0, <2>2, <2>7, <2>10, <2>11 DEF CachesKnown, NoTree
<1>7. ASSUME NEW w \in Worker, UpdateStatus(w)
      PROVE  CachesKnown'
  <2>1. /\ Goto(w, "idle") /\ refs' = refs /\ cached' = Left(cached, w)
        /\ owner' = [h \in Handler |-> [p \in DOMAIN owner[h] |-> Left(owner[h][p], w)]]
    BY <1>7 DEF UpdateStatus
  <2>2. \A u \in Worker \cup Handler : at'[u] = IF u = w THEN "idle" ELSE at[u]
    BY <2>1, GotoIs
  <2>3. \A v \in Worker \ {w} : at[v] \in Copied => at'[v] \in Copied
    BY <2>2
  <2>4. \A h \in Handler : at'[h] = at[h]
    BY <2>2, HandlersAreNoWorkers
  <2>5. ClassArray(cached')
    BY <2>1 DEF Left, ClassArray, CachesKnown
  <2>6. ASSUME NEW h \in Handler
        PROVE  /\ (owner[h] = NoTree \/ Entry(owner[h]))'
               /\ owner'[h] = NoTree => owner[h] = NoTree
    <3>1. owner'[h] = [p \in DOMAIN owner[h] |-> Left(owner[h][p], w)]
      BY <2>1
    <3>2. CASE owner[h] = NoTree
      <4>1. owner'[h] = NoTree
        BY <3>1, <3>2 DEF NoTree
      <4> QED
        BY <3>2, <4>1 DEF NoTree
    <3>3. CASE Entry(owner[h])
      <4>1. PICK tree : tree = owner[h]
        OBVIOUS
      <4>2. PICK new : new = [p \in DOMAIN tree |-> Left(tree[p], w)]
        OBVIOUS
      <4>3. Entry(tree)
        BY <3>3, <4>1
      <4>4. Entry(new)' /\ new # NoTree
        BY <2>3, <4>2, <4>3, EntryLeft
      <4>5. owner'[h] = new
        BY <3>1, <4>1, <4>2
      <4> QED
        BY <4>4, <4>5 DEF Entry, NoTree
    <3> QED
      BY <3>2, <3>3 DEF CachesKnown
  <2>7. owner' = [h \in Handler |-> owner'[h]]
    BY <2>1
  <2> QED
    BY <1>0, <2>1, <2>4, <2>5, <2>6, <2>7 DEF CachesKnown, NoTree
<1>8. CASE UNCHANGED vars
  BY <1>8 DEF vars, cacheVars, CachesKnown, Entry, Copied, BindingParts, NoTree, ClassArray
<1> QED
  BY <1>2, <1>3, <1>4, <1>5, <1>6, <1>7, <1>8 DEF Next

LEMMA LayoutInit == Init => Layout
<1> SUFFICES ASSUME Init
             PROVE  Layout
  OBVIOUS
<1>1. AtKnown
  BY DEF Init, AtKnown, Steps
<1>2. CopiesKnown /\ AftersKnown
  BY DEF Init, CopiesKnown, AftersKnown, Copied
<1>3. CachesKnown
  BY DEF Init, CachesKnown, ClassArray, NoBlock
<1> QED
  BY <1>1, <1>2, <1>3 DEF Layout

LEMMA LayoutStep == Layout /\ [Next]_vars => Layout'
  BY AtStep, CopiesStep, AftersStep, CachesStep DEF Layout, CachesKnown

LEMMA LayoutInvariant == Spec => []Layout
  BY LayoutInit, LayoutStep, PTL DEF Spec

\* A handler past its filter finds the entry it looks up: entries are never dropped,
\* and what one points to is a whole binding (controller.go 152-190,
\* brokerbinding.go 160-230).
THEOREM TypeCorrect == Spec => []TypeOK
<1>1. Layout => TypeOK
  <2> SUFFICES ASSUME Layout
               PROVE  TypeOK
    OBVIOUS
  <2>1. ASSUME NEW w \in Worker, at[w] \notin {"idle", "copy"}
        PROVE  DOMAIN resource[w] = DOMAIN Stored(Kind(w))
    <3>1. at[w] \in Copied
      BY <2>1 DEF Layout, AtKnown, Steps, Copied
    <3>2. resource[w] = Made(w, "resource")
      BY <3>1 DEF Layout, CopiesKnown
    <3> QED
      BY <3>2 DEF Made
  <2>2. ASSUME NEW h \in Handler
        PROVE  owner[h] = NoTree \/ DOMAIN owner[h] = BindingParts
    BY DEF Layout, CachesKnown, Entry
  <2> QED
    BY <2>1, <2>2 DEF TypeOK, Layout, AtKnown, CachesKnown
<1> QED
  BY <1>1, LayoutInvariant, PTL

---------------------------------------------------------------------------
(* Who touches what                                                         *)

\* A worker writes its own blocks, none of which is part of a list of classes, and
\* the maps of the cache with the lock held.
LEMMA WrittenByWorker ==
    ASSUME Layout, NEW w \in Worker, NEW b \in WorkerWrites(w)
    PROVE  \/ at[w] = "copy" /\ b = <<w, "resource", "status">>
           \/ at[w] = "classes" /\ b = Map("kmeshCache")
           \/ /\ at[w] = "ingresses"
              /\ b \in {Map("trackedBrokers"), Map("trackedTriggers"), Map("brokerRefs"),
                        Map("triggerRefs")}
           \/ at[w] = "after" /\ b = <<w, "after", "status">>
           \/ /\ at[w] \in {"mark", "post"}
              /\ b \in {<<w, "resource", "status">>, <<w, "resource", "conditions">>}
           \/ /\ at[w] = "update"
              /\ b \in {<<w, "existing", "status">>, <<w, "existing", "object">>}
<1>1. {"status", "conditions", "object"} \subseteq DOMAIN Stored(Kind(w))
  BY DEF Stored, BindingParts, KMeshParts
<1>2. at[w] \in {"mark", "post"} => /\ resource[w]["status"] = <<w, "resource", "status">>
                                   /\ resource[w]["conditions"] = <<w, "resource", "conditions">>
  BY <1>1 DEF Layout, CopiesKnown, Copied, Made
<1>3. at[w] = "update" => /\ existing[w]["status"] = <<w, "existing", "status">>
                          /\ existing[w]["object"] = <<w, "existing", "object">>
  BY <1>1 DEF Layout, CopiesKnown, Made
<1>4. DeepCopy(Stored(Kind(w)), w, "resource")["status"] = <<w, "resource", "status">>
  BY <1>1, CopyIsMade DEF Made
<1>5. DeepCopy(Stored("kmesh"), w, "after")["status"] = <<w, "after", "status">>
  <2>1. "status" \in DOMAIN Stored("kmesh")
    BY DEF Stored, KMeshParts
  <2> QED
    BY <2>1, DeepCopyIsOwn
<1> QED
  BY <1>2, <1>3, <1>4, <1>5 DEF WorkerWrites

\* "Don't modify the informers copy": whatever the number of workers, no step of
\* theirs writes a block of an informer's object (reconciler.go 217, 353).
THEOREM InformersUntouched == Spec => []StoreUntouched
<1>1. Layout => StoreUntouched
  <2> SUFFICES ASSUME Layout, NEW w \in Worker, NEW b \in WorkerWrites(w)
               PROVE  b[1] # "store"
    BY DEF StoreUntouched, InStore
  <2>1. b[1] = w \/ b[1] = "cache"
    BY WrittenByWorker DEF Map
  <2>2. w # "store"
    BY Threads
  <2> QED
    BY <2>1, <2>2
<1> QED
  BY <1>1, LayoutInvariant, PTL

\* However many workers there are, what one of them reconciles or writes back is
\* part of no informer's object and of no other worker's (zz_generated.deepcopy.go,
\* reconciler.go 217, 313).
THEOREM CopiesStayApart == Spec => []CopiesApart
<1>1. Layout => CopiesApart
  <2> SUFFICES ASSUME Layout, NEW w \in Worker,
                      NEW b \in Blocks(resource[w]) \cup Blocks(existing[w])
               PROVE  /\ b[1] # "store"
                      /\ \A v \in Worker \ {w} : b \notin Blocks(resource[v]) \cup Blocks(existing[v])
    BY DEF CopiesApart, InStore
  <2>1. ASSUME NEW v \in Worker, NEW c \in Blocks(resource[v]) \cup Blocks(existing[v])
        PROVE  c[1] = v
    <3>1. PICK tree \in {resource[v], existing[v]} : c \in Blocks(tree)
      BY <2>1
    <3>2. PICK name : tree = Made(v, name)
      BY <3>1 DEF Layout, CopiesKnown, Blocks, NoTree
    <3> QED
      BY <3>1, <3>2 DEF Blocks, Made
  <2>2. w # "store"
    BY Threads
  <2> QED
    BY <2>1, <2>2
<1> QED
  BY <1>1, LayoutInvariant, PTL

\* A worker reads what the informers and itself have, the maps of the cache, and
\* what a cache points to.
LEMMA ReadByWorker ==
    ASSUME Layout, NEW w \in Worker, NEW b \in WorkerReads(w)
    PROVE  \/ b[1] \in {"store", w}
           \/ ClassArray(b)
           \/ b = Map("kmeshCache") /\ at[w] \in {"classes", "ingresses", "after"}
           \/ /\ at[w] = "ingresses"
              /\ \/ b \in {Map("trackedBrokers"), Map("trackedTriggers"), Map("brokerRefs"),
                           Map("triggerRefs")}
                 \/ b \in Blocks(owner["triggers"])
<1> DEFINE Mine(c) == c[1] \in {"store", w}
<1>1. ASSUME NEW kind, NEW c \in Blocks(Stored(kind))
      PROVE  Mine(c)
  <2>1. PICK p \in DOMAIN Stored(kind) : c = Stored(kind)[p]
    BY <1>1 DEF Blocks
  <2>2. c = <<"store", kind, p>>
    BY <2>1 DEF Stored
  <2> QED
    BY <2>2
<1>2. at[w] \in Copied =>
         /\ \A c \in Blocks(resource[w]) : Mine(c)
         /\ \A p \in {"status", "conditions", "object"} : Mine(resource[w][p])
  <2>1. {"status", "conditions", "object"} \subseteq DOMAIN Stored(Kind(w))
    BY DEF Stored, BindingParts, KMeshParts
  <2> QED
    BY <2>1 DEF Layout, CopiesKnown, Made, Blocks
<1>3. at[w] = "update" => \A c \in Blocks(existing[w]) : Mine(c)
  BY DEF Layout, CopiesKnown, Made, Blocks
<1>4. at[w] = "patch" => \A c \in Blocks(after[w]) : Mine(c) \/ ClassArray(c)
  BY DEF Layout, AftersKnown
<1>5. ClassArray(cached)
  BY DEF Layout, CachesKnown
<1>6. Mine(<<"store", "broker", "address">>) /\ Mine(<<"store", "trigger", "destination">>)
  OBVIOUS
<1>7. at[w] \in {"classes", "patch", "mark", "post", "update"} => at[w] \in Copied
  BY DEF Copied
<1>8. CASE at[w] = "ingresses"
  <2>1. \/ b \in {Map("kmeshCache"), cached}
        \/ b \in {Map("trackedBrokers"), Map("trackedTriggers"), Map("brokerRefs"), Map("triggerRefs")}
        \/ b \in {<<"store", "broker", "address">>, <<"store", "trigger", "destination">>}
        \/ b \in Blocks(owner["triggers"])
    BY <1>8 DEF WorkerReads
  <2> QED
    BY <1>5, <1>6, <1>8, <2>1
<1>9. CASE at[w] \in {"copy", "classes", "after", "patch"}
  BY <1>1, <1>2, <1>4, <1>5, <1>7, <1>9 DEF WorkerReads
<1>10. CASE at[w] \in {"mark", "post", "update"}
  BY <1>1, <1>2, <1>3, <1>7, <1>10 DEF WorkerReads
<1>11. CASE at[w] \notin {"copy", "classes", "ingresses", "after", "patch", "mark", "post", "update"}
  BY <1>11 DEF WorkerReads
<1> QED
  BY <1>8, <1>9, <1>10, <1>11

\* What an entry points to is part of an object left behind, or of what a worker in
\* the middle of a reconciliation reconciles.
LEMMA EntryBlock ==
    ASSUME Layout, NEW h \in Handler, owner[h] # NoTree, NEW p \in BindingParts
    PROVE  \/ owner[h][p] = <<"left", "resource", p>>
           \/ \E w \in Worker : at[w] \in Copied /\ owner[h][p] = <<w, "resource", p>>
  BY DEF Layout, CachesKnown, Entry

LEMMA WorkersRead ==
    ASSUME Layout, NEW w \in Worker
    PROVE  Reads(w) = WorkerReads(w)
<1>1. at[w] \notin {"filter", "handle"}
  BY DEF Layout, AtKnown, Steps
<1> QED
  BY <1>1 DEF Reads

\* A block that a worker writes is one of another worker's or of an informer's
\* handler only when it is part of the object that an entry points to.
LEMMA RacesOfBlocks ==
    ASSUME Layout, NEW t \in Worker, NEW u \in (Worker \cup Handler) \ {t},
           NEW b \in WorkerWrites(t), b[1] = t, b \in Reads(u) \cup Writes(u)
    PROVE  b \in Blocks(owner["triggers"]) /\ at[t] \in {"mark", "post"} /\ at[u] = "ingresses"
<1>0. t \notin {"store", "cache", "left"}
  BY Threads
<1>1. /\ b[3] \in {"object", "status", "conditions"}
      /\ b[2] = "resource" => at[t] \in {"copy", "mark", "post"} /\ b[3] # "object"
  BY <1>0, WrittenByWorker DEF Map
<1>2. \A name : b # Map(name)
  BY <1>0 DEF Map
<1>3. ~ClassArray(b)
  BY <1>1 DEF ClassArray
<1>4. CASE u \in Worker
  <2>1. b \notin WorkerWrites(u)
    <3>1. ASSUME b \in WorkerWrites(u)
          PROVE  b[1] = u
      BY <1>2, <1>4, <3>1, WrittenByWorker
    <3> QED
      BY <3>1
  <2>2. b \in WorkerReads(u)
    BY <1>4, <2>1, WorkersRead DEF Writes
  <2>3. at[u] = "ingresses" /\ b \in Blocks(owner["triggers"])
    <3>1. b[1] \notin {"store", u}
      BY <1>0
    <3> QED
      BY <1>2, <1>3, <1>4, <2>2, <3>1, ReadByWorker
  <2>4. at[t] \in {"mark", "post"}
    <3>1. "triggers" \in Handler /\ owner["triggers"] # NoTree
      BY <2>3 DEF Handler, Blocks, NoTree
    <3>2. PICK p \in BindingParts : b = owner["triggers"][p]
      BY <2>3, <3>1 DEF Blocks, Layout, CachesKnown, Entry
    <3>3. at[t] \in Copied /\ b[2] = "resource"
      BY <1>0, <3>1, <3>2, EntryBlock
    <3> QED
      BY <1>1, <3>3 DEF Copied
  <2> QED
    BY <2>3, <2>4
<1>5. CASE u \in Handler
  <2>1. u \notin Worker
    BY <1>5, HandlersAreNoWorkers
  <2>2. at[u] = "handle" /\ b = owner[u]["object"]
    BY <1>2, <1>5, <2>1 DEF Reads, Writes, FilterReads, HandlerReads, HandlerWrites, Tracked
  <2>3. owner[u] # NoTree /\ "object" \in BindingParts
    BY <1>5, <2>2 DEF Layout, CachesKnown, BindingParts
  <2>4. b[3] = "object" /\ b[2] = "resource"
    BY <1>5, <2>2, <2>3, EntryBlock
  <2> QED
    BY <1>1, <2>4
<1> QED
  BY <1>4, <1>5

\* Whoever holds the lock for a map of the cache meets only those who forget it.
LEMMA RacesOfMaps ==
    ASSUME Layout, NEW t \in Worker \cup Handler, NEW u \in (Worker \cup Handler) \ {t},
           NEW name, NEW b, b = Map(name), b \in Races(t, u)
    PROVE  \/ b = Map("kmeshCache") /\ at[t] = "classes" /\ at[u] = "after"
           \/ u \in Handler /\ b = Tracked(u) /\ at[t] = "ingresses" /\ at[u] = "filter"
<1>0. {"store", "cache", "left"} \cap Worker = {}
  BY Threads
<1>1. ~(at[t] \in Locked /\ at[u] \in Locked) /\ b \in Writes(t) /\ b \in Reads(u) \cup Writes(u)
  BY DEF Races
\* Only with the lock a map is written.
<1>2. ASSUME NEW v \in Worker \cup Handler, b \in Writes(v)
      PROVE  \/ at[v] = "classes" /\ b = Map("kmeshCache")
             \/ /\ at[v] = "ingresses"
                /\ b \in {Map("trackedBrokers"), Map("trackedTriggers"), Map("brokerRefs"),
                          Map("triggerRefs")}
             \/ at[v] = "handle" /\ b \in {Map("brokerRefs"), Map("triggerRefs")}
  <2>1. CASE v \in Worker
    <3>1. b \in WorkerWrites(v)
      BY <1>2, <2>1 DEF Writes
    <3>2. \A c : c[1] = v => c # b
      BY <1>0, <2>1 DEF Map
    <3> QED
      BY <2>1, <3>1, <3>2, WrittenByWorker
  <2>2. CASE v \notin Worker
    BY <1>2, <2>2 DEF Writes, HandlerWrites
  <2> QED
    BY <2>1, <2>2
<1>3. at[t] \in Locked /\ at[u] \notin Locked
  BY <1>1, <1>2 DEF Locked
<1>4. b \in Reads(u)
  BY <1>1, <1>2, <1>3 DEF Locked
<1>5. CASE u \in Worker
  <2>1. b \in WorkerReads(u)
    BY <1>4, <1>5, WorkersRead
  <2>2. b[1] \notin {"store", u} /\ ~ClassArray(b)
    BY <1>0, <1>5 DEF Map, ClassArray
  <2>3. b = Map("kmeshCache") /\ at[u] = "after"
    BY <1>3, <1>5, <2>1, <2>2, ReadByWorker DEF Locked
  <2>4. at[t] = "classes"
    BY <1>1, <1>2, <2>3 DEF Map
  <2> QED
    BY <2>3, <2>4
<1>6. CASE u \in Handler
  <2>1. u \notin Worker
    BY <1>6, HandlersAreNoWorkers
  <2>2. at[u] = "filter" /\ b = Tracked(u)
    BY <1>3, <1>4, <1>6, <2>1 DEF Reads, FilterReads, Locked
  <2>3. at[t] = "ingresses"
    BY <1>1, <1>2, <2>2 DEF Tracked, Map
  <2> QED
    BY <1>6, <2>2, <2>3
<1> QED
  BY <1>5, <1>6

\* However many workers there are, all they and the informers' handlers race for is
\* kmeshCache, read for the patch; the tracked maps, read by the filters; and the
\* status of the binding that owns a broker's triggers (brokerbinding.go 104-122,
\* 201, controller.go 152, 173).
THEOREM RacesAreKnown == Spec => []RacesKnown
<1>1. Layout => RacesKnown
  <2> SUFFICES ASSUME Layout, NEW t \in Worker \cup Handler,
                      NEW u \in (Worker \cup Handler) \ {t}, NEW b \in Races(t, u)
               PROVE  \/ b = Map("kmeshCache") /\ at[t] = "classes" /\ at[u] = "after"
                      \/ u \in Handler /\ b = Tracked(u) /\ at[t] = "ingresses" /\ at[u] = "filter"
                      \/ /\ b \in Blocks(owner["triggers"])
                         /\ at[t] \in {"mark", "post"} /\ at[u] = "ingresses"
    BY DEF RacesKnown
  <2>1. CASE \E name : b = Map(name)
    BY <2>1, RacesOfMaps
  <2>2. CASE ~\E name : b = Map(name)
    <3>1. b \in Writes(t) /\ b \in Reads(u) \cup Writes(u)
      BY DEF Races
    <3>2. t \in Worker /\ b \in WorkerWrites(t)
      BY <2>2, <3>1 DEF Writes, HandlerWrites
    <3>3. b[1] = t
      BY <2>2, <3>2, WrittenByWorker
    <3> QED
      BY <3>1, <3>2, <3>3, RacesOfBlocks
  <2> QED
    BY <2>1, <2>2
<1> QED
  BY <1>1, LayoutInvariant, PTL
=============================================================================
