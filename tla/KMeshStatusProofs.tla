------------------------- MODULE KMeshStatusProofs -------------------------
(***************************************************************************)
(* However many bindings a mesh has, whatever is lost or retried and       *)
(* whenever another process takes over:                                    *)
(*                                                                         *)
(*   - no class is published that no binding registered, and the register  *)
(*     never shrinks: the steps of KMeshStatus are steps of ClassRegister; *)
(*   - a class disappears only by a write computed from a stale copy, or   *)
(*     by a process that has not heard of it yet.                          *)
(*                                                                         *)
(* Both rest on one invariant: every copy of the mesh that something holds *)
(* on to (the lister, an undelivered event, the object a worker edits) is  *)
(* a version the mesh had, the present one if the numbers agree, and lists *)
(* only classes that some process has heard of by now.                     *)
(***************************************************************************)
EXTENDS KMeshStatus, JSONPatchProofs

\* The classes the leader has in its cache, or a former one had.
Heard == ToSet(cache) \cup former

Registered(classes) == ToSet(classes) \subseteq Heard

\* A version of the mesh, present or past.
Copy(v) ==
    /\ v \in Version
    /\ v.rv <= mesh.rv /\ (v.rv = mesh.rv => v = mesh)
    /\ Registered(v.classes)

\* A status computed from version seen.
Computed(seen, classes) ==
    /\ seen <= mesh.rv /\ (seen = mesh.rv => classes = mesh.classes)
    /\ Registered(classes)

KJobKnown == kjob # Idle => Computed(kjob.seen, kjob.classes)

\* The wanted classes have all those of the copy they are compared with, but for
\* classes the job's process may not have heard of.
PatchKnown(j) ==
    /\ ToSet(j.base.classes) \subseteq ToSet(j.after) \cup former
    /\ Registered(j.after)
    /\ j.ops = EditScript(j.base.classes, j.after)

BJobKnown(b) ==
    /\ bjob[b] # Idle => Copy(bjob[b].base)
    /\ bjob[b].pc \in {"patch", "late"} => PatchKnown(bjob[b])

Known ==
    /\ Copy(mesh) /\ Copy(lister)
    /\ \A i \in 1..Len(watch) : Copy(watch[i])
    /\ KJobKnown
    /\ \A b \in Binding : BJobKnown(b)

Inv == TypeOK /\ Known

\* A change of the mesh is a write of registered classes.
Advance ==
    \/ UNCHANGED mesh
    \/ \E init \in BOOLEAN, classes \in Seq(Class) : Registered(classes) /\ Write(init, classes)

LEMMA WriteEffect ==
    ASSUME TypeOK, NEW init \in BOOLEAN, NEW classes \in Seq(Class), Write(init, classes)
    PROVE  /\ mesh' \in Version /\ mesh'.rv = mesh.rv + 1
           /\ mesh'.init = init /\ mesh'.classes = classes
           /\ watch' = Append(watch, mesh') /\ watch' \in Seq(Version) /\ lister' = lister
  BY DEF Write, TypeOK, Version

\* What is known of a copy, or of a status computed from one, stays true.
LEMMA CopiesStay ==
    ASSUME Inv, Advance, Heard \subseteq Heard'
    PROVE  /\ \A v : Copy(v) => Copy(v)'
           /\ \A seen \in Nat : \A classes : Computed(seen, classes) => Computed(seen, classes)'
           /\ Copy(mesh)'
<1>1. mesh.rv \in Nat
  BY DEF Inv, TypeOK, Version
<1>2. CASE UNCHANGED mesh
  BY <1>2 DEF Copy, Computed, Registered, Inv, Known
<1>3. ASSUME NEW init \in BOOLEAN, NEW classes \in Seq(Class), Registered(classes),
             Write(init, classes)
      PROVE  /\ \A v : Copy(v) => Copy(v)'
             /\ \A seen \in Nat : \A cs : Computed(seen, cs) => Computed(seen, cs)'
             /\ Copy(mesh)'
  <2>1. /\ mesh' \in Version /\ mesh'.rv = mesh.rv + 1 /\ mesh'.classes = classes
    BY <1>3, WriteEffect DEF Inv
  <2>2. \A v : v \in Version => v.rv \in Nat
    BY DEF Version
  <2> QED
    BY <1>1, <1>3, <2>1, <2>2 DEF Copy, Computed, Registered
<1> QED
  BY <1>2, <1>3 DEF Advance

---------------------------------------------------------------------------
(* Types                                                                    *)

LEMMA KJobFields ==
    ASSUME TypeOK
    PROVE  /\ kjob.pc = "put" => /\ kjob.seen \in Nat /\ kjob.rv \in Nat
                                 /\ kjob.classes \in Seq(Class) /\ kjob.attempt \in 1..Steps
           /\ kjob.pc = "get" => /\ kjob.seen \in Nat
                                 /\ kjob.classes \in Seq(Class) /\ kjob.attempt \in 1..Steps
  BY DEF TypeOK, KJob, Idle

LEMMA BJobFields ==
    ASSUME TypeOK, NEW b \in Binding
    PROVE  /\ bjob[b].pc \in {"merge", "read"} => bjob[b].base \in Version
           /\ bjob[b].pc \in {"patch", "late"} =>
                 /\ bjob[b].base \in Version /\ bjob[b].after \in Seq(Class)
                 /\ bjob[b].ops \in Seq(OpOver(Class))
<1>1. bjob[b] \in BJob
  BY DEF TypeOK
<1> QED
  BY <1>1 DEF BJob, Idle

\* The cache ends up with the classes it had and those of the binding.
LEMMA MergedClassesAre ==
    ASSUME NEW cached \in Seq(Class), NEW classes \in Seq(Class)
    PROVE  /\ MergedClasses(cached, classes) \in Seq(Class)
           /\ ToSet(MergedClasses(cached, classes)) = ToSet(cached) \cup ToSet(classes)
<1>1. CASE cached = <<>>
  BY <1>1 DEF MergedClasses, ToSet
<1>2. CASE cached # <<>>
  <2>1. ToSet(cached) \cup ToSet(classes) \in SUBSET Class
    BY DEF ToSet
  <2> QED
    BY <1>2, <2>1, KMeshInputs DEF MergedClasses
<1> QED
  BY <1>1, <1>2

\* A patch that is accepted leaves classes that were published or wanted.
LEMMA PatchedFrom ==
    ASSUME NEW V, NEW j, mesh.classes \in Seq(V), j.after \in Seq(V), j.ops \in Seq(OpOver(V)),
           Patched(j).ok
    PROVE  Patched(j).val \in Seq(V)
<1> DEFINE edited == ApplyOps(j.ops, mesh.classes)
<1>1. edited.ok => edited.val \in Seq(V)
  BY ApplyOpsType
<1> HIDE DEF edited
<1>2. Patched(j) = IF j.base.classes = j.after THEN Ok(mesh.classes)
                   ELSE IF mesh.init
                        THEN PatchMember(j.base.classes, j.after, mesh.classes, edited)
                        ELSE Failed
  BY Zenon DEF Patched, edited
<1>3. <<>> \in Seq(V)
  BY EmptySeq
<1> QED
  BY <1>1, <1>2, <1>3 DEF PatchMember, Ok, Failed

LEMMA UpsetType == TypeOK /\ Upset => upsets' \in 0..MaxUpsets
  BY KMeshBounds DEF TypeOK, Upset

\* A patch that is accepted makes a version of the mesh, or leaves it alone.
LEMMA ApplyType ==
    ASSUME TypeOK, NEW b \in Binding, bjob[b].pc \in {"patch", "late"}, Apply(bjob[b])
    PROVE  mesh' \in Version /\ watch' \in Seq(Version) /\ lister' = lister
<1>1. mesh.init \in BOOLEAN /\ mesh.classes \in Seq(Class)
  BY DEF TypeOK, Version
<1>2. Patched(bjob[b]).val \in Seq(Class)
  BY <1>1, PatchedFrom, BJobFields DEF Apply
<1> QED
  BY <1>1, <1>2, WriteEffect DEF Apply, TypeOK

\* The informer of a new leader has what that of the last one had, or later
\* versions, and has the rest to deliver.
LEMMA RestartDelivers ==
    ASSUME TypeOK, Restart
    PROVE  /\ lister' = lister \/ \E i \in 1..Len(watch) : lister' = watch[i]
           /\ watch' \in Seq(Version)
           /\ \A i \in 1..Len(watch') : \E k \in 1..Len(watch) : watch'[i] = watch[k]
<1>1. watch \in Seq(Version) /\ Len(watch) \in Nat
  BY DEF TypeOK
<1>2. PICK n \in 0..Len(watch) :
         /\ lister' = IF n = 0 THEN lister ELSE watch[n]
         /\ watch' = SubSeq(watch, n + 1, Len(watch))
  BY DEF Restart
<1>3. \A i \in (n + 1)..Len(watch) : watch[i] \in Version
  BY <1>1
<1>4. /\ watch' \in Seq(Version)
      /\ Len(watch') = IF n + 1 <= Len(watch) THEN Len(watch) - (n + 1) + 1 ELSE 0
      /\ \A i \in 1..(Len(watch) - (n + 1) + 1) : watch'[i] = watch[(n + 1) + i - 1]
  BY <1>1, <1>2, <1>3, SubSeqProperties
<1>5. ASSUME NEW i \in 1..Len(watch')
      PROVE  \E k \in 1..Len(watch) : watch'[i] = watch[k]
  <2>1. i \in 1..(Len(watch) - (n + 1) + 1) /\ (n + 1) + i - 1 \in 1..Len(watch)
    BY <1>1, <1>4, <1>5
  <2> QED
    BY <1>4, <2>1
<1> QED
  BY <1>1, <1>2, <1>4, <1>5

\* The jobs of the last leader are gone, but for patches that are under way.
LEMMA RestartJobs ==
    ASSUME TypeOK, Restart, NEW b \in Binding
    PROVE  \/ bjob'[b] = Idle
           \/ /\ bjob[b].pc \in {"patch", "late"}
              /\ bjob'[b] = [pc |-> "late", base |-> bjob[b].base, after |-> bjob[b].after,
                             ops |-> bjob[b].ops]
<1>1. PICK S \in SUBSET {c \in Binding : bjob[c].pc \in {"patch", "late"}} :
         bjob' = [c \in Binding |-> IF c \in S THEN [bjob[c] EXCEPT !.pc = "late"] ELSE Idle]
  BY DEF Restart
<1>2. bjob'[b] = IF b \in S THEN [bjob[b] EXCEPT !.pc = "late"] ELSE Idle
  BY <1>1
<1>3. ASSUME b \in S
      PROVE  [bjob[b] EXCEPT !.pc = "late"] =
                [pc |-> "late", base |-> bjob[b].base, after |-> bjob[b].after,
                 ops |-> bjob[b].ops]
  <2>1. bjob[b].pc \in {"patch", "late"}
    BY <1>1, <1>3
  <2>2. bjob[b] \in BJob
    BY DEF TypeOK
  <2>3. bjob[b] \in [pc : {"patch", "late"}, base : Version, after : Seq(Class),
                     ops : Seq(OpOver(Class))]
    BY <2>1, <2>2 DEF BJob, Idle
  <2> QED
    BY <2>3
<1> QED
  BY <1>1, <1>2, <1>3

LEMMA TypeInit == Init => TypeOK
  BY KMeshBounds DEF Init, TypeOK, Version, KJob, BJob, Idle

LEMMA TypeStep == TypeOK /\ [Next]_vars => TypeOK'
<1> SUFFICES ASSUME TypeOK, [Next]_vars
             PROVE  TypeOK'
  OBVIOUS
<1>0. mesh.init \in BOOLEAN /\ mesh.classes \in Seq(Class) /\ mesh.rv \in Nat
  BY DEF TypeOK, Version
<1>1. CASE Touch
  <2>1. mesh' \in Version /\ watch' \in Seq(Version) /\ lister' = lister
    BY <1>0, <1>1, WriteEffect DEF Touch
  <2>2. upsets' \in 0..MaxUpsets
    BY <1>1, UpsetType DEF Touch
  <2> QED
    BY <1>1, <2>1, <2>2 DEF Touch, TypeOK, kmeshVars, bindingVars
<1>2. CASE Deliver
  BY <1>2 DEF Deliver, TypeOK, bindingVars
<1>3. CASE Resync
  BY <1>3 DEF Resync, TypeOK
<1>4. CASE KStart
  <2>1. 1 \in 1..Steps
    BY KMeshBounds
  <2>2. kjob' \in KJob
    BY <1>4, <2>1 DEF KStart, KJob, TypeOK, Version
  <2> QED
    BY <1>4, <2>2 DEF KStart, TypeOK, bindingVars
<1>5. CASE KPut
  <2>1. mesh' \in Version /\ watch' \in Seq(Version) /\ lister' = lister
    BY <1>5, WriteEffect, KJobFields DEF KPut
  <2>2. upsets' \in 0..MaxUpsets /\ kqueued' \in BOOLEAN
    BY <1>5, UpsetType DEF KPut, TypeOK
  <2> QED
    BY <1>5, <2>1, <2>2 DEF KPut, TypeOK, KJob, bindingVars
<1>6. CASE KConflict
  <2>1. kjob.attempt < Steps => kjob.attempt + 1 \in 1..Steps
    BY <1>6, KJobFields, KMeshBounds DEF KConflict
  <2>2. CASE kjob.attempt < Steps
    <3>1. kjob' \in [pc : {"get"}, seen : Nat, classes : Seq(Class), attempt : 1..Steps]
      BY <1>6, <2>1, <2>2, KJobFields DEF KConflict
    <3> QED
      BY <1>6, <2>2, <3>1 DEF KConflict, TypeOK, KJob, bindingVars
  <2>3. CASE ~(kjob.attempt < Steps)
    BY <1>6, <2>3 DEF KConflict, TypeOK, KJob, bindingVars
  <2> QED
    BY <2>2, <2>3
<1>7. CASE KGet
  <2>1. kjob' \in KJob
    BY <1>0, <1>7, KJobFields DEF KGet, KJob
  <2> QED
    BY <1>7, <2>1 DEF KGet, TypeOK, bindingVars
<1>8. CASE KError
  BY <1>8, UpsetType DEF KError, TypeOK, KJob, bindingVars
<1>9. ASSUME NEW b \in Binding, BStart(b)
      PROVE  TypeOK'
  <2>1. bjob' \in [Binding -> BJob]
    BY <1>9 DEF BStart, TypeOK, BJob
  <2> QED
    BY <1>9, <2>1 DEF BStart, TypeOK, kmeshVars
<1>10. ASSUME NEW b \in Binding, BMerge(b)
       PROVE  TypeOK'
  <2>1. cache' \in Seq(Class)
    BY <1>10, MergedClassesAre, KMeshInputs DEF BMerge, TypeOK
  <2>2. bjob' \in [Binding -> BJob]
    BY <1>10, BJobFields DEF BMerge, TypeOK, BJob
  <2> QED
    BY <1>10, <2>1, <2>2 DEF BMerge, TypeOK, kmeshVars
<1>11. ASSUME NEW b \in Binding, BRead(b)
       PROVE  TypeOK'
  <2>1. bjob[b].base \in Version /\ cache \in Seq(Class)
    BY <1>11, BJobFields DEF BRead, TypeOK
  <2>2. EditScript(bjob[b].base.classes, cache) \in Seq(OpOver(Class))
    BY <2>1, ScriptType DEF Version
  <2>3. PatchTo(bjob[b], cache) \in BJob
    BY <2>1, <2>2 DEF PatchTo, BJob
  <2>4. bjob' \in [Binding -> BJob]
    BY <1>11, <2>3 DEF BRead, TypeOK
  <2> QED
    BY <1>11, <2>4 DEF BRead, TypeOK, kmeshVars
<1>12. ASSUME NEW b \in Binding, BPatch(b)
       PROVE  TypeOK'
  <2>1. mesh' \in Version /\ watch' \in Seq(Version) /\ lister' = lister
    BY <1>12, ApplyType DEF BPatch
  <2>2. bjob' \in [Binding -> BJob]
    BY <1>12 DEF BPatch, TypeOK, BJob
  <2>3. upsets' \in 0..MaxUpsets /\ bqueue' \subseteq Binding /\ told' \subseteq Binding
    BY <1>12, UpsetType DEF BPatch, Tell, TypeOK
  <2> QED
    BY <1>12, <2>1, <2>2, <2>3 DEF BPatch, TypeOK, kmeshVars
<1>13. ASSUME NEW b \in Binding, BError(b)
       PROVE  TypeOK'
  <2>1. bjob' \in [Binding -> BJob]
    BY <1>13 DEF BError, TypeOK, BJob
  <2>2. upsets' \in 0..MaxUpsets /\ bqueue' \subseteq Binding
    BY <1>13, UpsetType DEF BError, TypeOK
  <2> QED
    BY <1>13, <2>1, <2>2 DEF BError, TypeOK, kmeshVars
<1>14. ASSUME NEW b \in Binding, BLate(b)
       PROVE  TypeOK'
  <2>1. mesh' \in Version /\ watch' \in Seq(Version) /\ lister' = lister
    BY <1>14, ApplyType DEF BLate, TypeOK
  <2>2. bjob' \in [Binding -> BJob]
    BY <1>14 DEF BLate, TypeOK, BJob
  <2>3. bqueue' \subseteq Binding /\ told' \subseteq Binding
    BY <1>14 DEF BLate, Tell, TypeOK
  <2> QED
    BY <1>14, <2>1, <2>2, <2>3 DEF BLate, TypeOK, kmeshVars
<1>15. CASE Restart
  <2>1. lister' \in Version /\ watch' \in Seq(Version)
    BY <1>15, RestartDelivers DEF TypeOK
  <2>2. bjob' \in [Binding -> BJob]
    <3>1. ASSUME NEW b \in Binding
          PROVE  bjob'[b] \in BJob
      <4>1. CASE bjob'[b] = Idle
        BY <4>1 DEF BJob
      <4>2. CASE bjob[b].pc \in {"patch", "late"}
        <5>1. [pc |-> "late", base |-> bjob[b].base, after |-> bjob[b].after,
               ops |-> bjob[b].ops] \in BJob
          BY <4>2, BJobFields DEF BJob
        <5> QED
          BY <1>15, <4>1, <5>1, RestartJobs
      <4> QED
        BY <1>15, <4>1, <4>2, RestartJobs
    <3> QED
      BY <1>15, <3>1 DEF Restart
  <2>3. /\ kjob' \in KJob /\ cache' \in Seq(Class) /\ former' \subseteq Class
        /\ upsets' \in 0..MaxUpsets
    BY <1>15, UpsetType, EmptySeq DEF Restart, TypeOK, KJob, ToSet
  <2> QED
    BY <1>15, <2>1, <2>2, <2>3 DEF Restart, TypeOK
<1>16. CASE UNCHANGED vars
  BY <1>16 DEF TypeOK, vars, kmeshVars, bindingVars
<1> QED
  BY <1>1, <1>2, <1>3, <1>4, <1>5, <1>6, <1>7, <1>8, <1>9, <1>10, <1>11, <1>12, <1>13,
     <1>14, <1>15, <1>16 DEF Next, KWork, BWork

\* Every variable keeps its type (brokerbinding.go 102-157, kmesh/reconciler.go
\* 311-341): also the classes a stale patch leaves behind are classes.
THEOREM TypeCorrect == Spec => []TypeOK
  BY TypeInit, TypeStep, PTL DEF Spec

---------------------------------------------------------------------------
(* What the copies are                                                      *)

LEMMA OverHeard ==
    ASSUME NEW classes \in Seq(Class)
    PROVE  Registered(classes) <=> classes \in Seq(Heard)
<1>1. /\ DOMAIN classes = 1..Len(classes) /\ Len(classes) \in Nat
      /\ classes = [i \in 1..Len(classes) |-> classes[i]]
  BY LenProperties
<1>2. Registered(classes) <=> \A i \in 1..Len(classes) : classes[i] \in Heard
  <2>1. ToSet(classes) = {classes[i] : i \in 1..Len(classes)}
    BY <1>1 DEF ToSet
  <2> QED
    BY <2>1 DEF Registered
<1>3. ASSUME classes \in Seq(Heard)
      PROVE  \A i \in 1..Len(classes) : classes[i] \in Heard
  BY <1>3, ElementOfSeq
<1>4. ASSUME \A i \in 1..Len(classes) : classes[i] \in Heard
      PROVE  classes \in Seq(Heard)
  BY <1>1, <1>4, SeqDef
<1> QED
  BY <1>2, <1>3, <1>4

\* A worker's patch publishes nothing that no process has heard of.
LEMMA PatchedRegistered ==
    ASSUME Inv, NEW b \in Binding, bjob[b].pc \in {"patch", "late"}, Patched(bjob[b]).ok
    PROVE  Patched(bjob[b]).val \in Seq(Class) /\ Registered(Patched(bjob[b]).val)
<1> DEFINE j == bjob[b]
<1>1. /\ mesh.classes \in Seq(Class) /\ j.base.classes \in Seq(Class)
      /\ j.after \in Seq(Class) /\ j.ops \in Seq(OpOver(Class))
  BY BJobFields DEF Inv, TypeOK, Version
<1>2. Patched(j).val \in Seq(Class)
  BY <1>1, PatchedFrom
<1>3. Registered(mesh.classes) /\ Registered(j.after) /\ j.ops = EditScript(j.base.classes, j.after)
  BY DEF Inv, Known, Copy, BJobKnown, PatchKnown
<1> HIDE DEF j
<1>4. mesh.classes \in Seq(Heard) /\ j.after \in Seq(Heard)
  BY <1>1, <1>3, OverHeard
<1>5. j.ops \in Seq(OpOver(Heard))
  BY <1>1, <1>3, <1>4, ScriptType
<1>6. Patched(j).ok
  BY DEF j
<1>7. Patched(j).val \in Seq(Heard)
  BY <1>4, <1>5, <1>6, PatchedFrom
<1>8. Registered(Patched(j).val)
  BY <1>2, <1>7, OverHeard
<1> QED
  BY <1>2, <1>8 DEF j

LEMMA ApplyAdvances ==
    ASSUME Inv, NEW b \in Binding, bjob[b].pc \in {"patch", "late"}, Apply(bjob[b])
    PROVE  Advance
<1>1. mesh.init \in BOOLEAN
  BY DEF Inv, TypeOK, Version
<1>2. /\ Patched(bjob[b]).ok
      /\ UNCHANGED mesh \/ Write(mesh.init, Patched(bjob[b]).val)
  BY DEF Apply
<1>3. Patched(bjob[b]).val \in Seq(Class) /\ Registered(Patched(bjob[b]).val)
  BY <1>2, PatchedRegistered
<1> QED
  BY <1>1, <1>2, <1>3 DEF Advance

\* Every step writes registered classes, if it writes, and nothing that was heard
\* of is forgotten: what a restart takes from the cache goes to the history.
LEMMA StepAdvances ==
    ASSUME Inv, [Next]_vars
    PROVE  Advance /\ Heard \subseteq Heard'
<1>0. mesh.init \in BOOLEAN /\ mesh.classes \in Seq(Class) /\ Registered(mesh.classes)
  BY DEF Inv, Known, Copy, TypeOK, Version
<1>1. CASE Touch
  BY <1>0, <1>1 DEF Touch, Advance, Heard, bindingVars
<1>2. CASE KPut
  <2>1. kjob # Idle /\ kjob.classes \in Seq(Class)
    BY <1>2, KJobFields DEF KPut, Idle, Inv
  <2>2. Registered(kjob.classes)
    BY <2>1 DEF Inv, Known, KJobKnown, Computed
  <2> QED
    BY <1>2, <2>1, <2>2 DEF KPut, Advance, Heard, bindingVars
<1>3. ASSUME NEW b \in Binding, BMerge(b)
      PROVE  Advance /\ Heard \subseteq Heard'
  <2>1. cache \in Seq(Class) /\ ClassesOf[b] \in Seq(Class)
    BY KMeshInputs DEF Inv, TypeOK
  <2>2. ToSet(cache') = ToSet(cache) \cup ToSet(ClassesOf[b])
    BY <1>3, <2>1, MergedClassesAre DEF BMerge
  <2> QED
    BY <1>3, <2>2 DEF BMerge, Advance, Heard
<1>4. ASSUME NEW b \in Binding, BPatch(b) \/ BLate(b)
      PROVE  Advance /\ Heard \subseteq Heard'
  <2>1. /\ bjob[b].pc \in {"patch", "late"} /\ UNCHANGED <<cache, former>>
        /\ Apply(bjob[b]) \/ UNCHANGED mesh
    BY <1>4 DEF BPatch, BLate
  <2> QED
    BY <2>1, ApplyAdvances DEF Advance, Heard
<1>5. CASE Deliver \/ Resync \/ KStart \/ KConflict \/ KGet \/ KError
  BY <1>5 DEF Deliver, Resync, KStart, KConflict, KGet, KError, Advance, Heard, bindingVars
<1>6. ASSUME NEW b \in Binding, BStart(b) \/ BRead(b) \/ BError(b)
      PROVE  Advance /\ Heard \subseteq Heard'
  BY <1>6 DEF BStart, BRead, BError, Advance, Heard
<1>7. CASE Restart
  <2>1. UNCHANGED mesh /\ cache' = <<>> /\ former' = former \cup ToSet(cache)
    BY <1>7 DEF Restart
  <2> QED
    BY <2>1 DEF Advance, Heard
<1>8. CASE UNCHANGED vars
  BY <1>8 DEF vars, bindingVars, Advance, Heard
<1> QED
  BY <1>1, <1>2, <1>3, <1>4, <1>5, <1>6, <1>7, <1>8 DEF Next, KWork, BWork

\* The lister and the events that are under way hold versions of the mesh.
LEMMA InformerKeeps ==
    ASSUME Inv, [Next]_vars, TypeOK'
    PROVE  Copy(lister)' /\ \A i \in 1..Len(watch') : Copy(watch[i])'
<1>0. /\ \A v : Copy(v) => Copy(v)'
      /\ Copy(mesh)'
  BY StepAdvances, CopiesStay
<1>1. CASE UNCHANGED <<watch, lister>>
  BY <1>0, <1>1 DEF Inv, Known, Copy, Registered
<1>2. CASE UNCHANGED lister /\ watch' = Append(watch, mesh')
  <2>1. Copy(lister)'
    BY <1>0, <1>2 DEF Inv, Known, Copy, Registered
  <2>2. ASSUME NEW i \in 1..Len(watch')
        PROVE  Copy(watch[i])'
    <3>1. watch \in Seq(Version) /\ mesh' \in Version
      BY DEF Inv, TypeOK
    <3>2. (i \in 1..Len(watch) /\ watch'[i] = watch[i]) \/ watch'[i] = mesh'
      BY <1>2, <3>1, AppendProperties
    <3>3. CASE watch'[i] = mesh'
      BY <1>0, <3>3 DEF Copy, Registered
    <3>4. CASE i \in 1..Len(watch) /\ watch'[i] = watch[i]
      BY <1>0, <3>4 DEF Inv, Known, Copy, Registered
    <3> QED
      BY <3>2, <3>3, <3>4
  <2> QED
    BY <2>1, <2>2
<1>3. CASE Deliver
  <2>1. /\ watch \in Seq(Version) /\ watch # <<>>
        /\ lister' = Head(watch) /\ watch' = Tail(watch)
    BY <1>3 DEF Deliver, Inv, TypeOK
  <2>2. /\ 1 \in 1..Len(watch) /\ lister' = watch[1]
        /\ \A i \in 1..Len(watch') : i + 1 \in 1..Len(watch) /\ watch'[i] = watch[i + 1]
    BY <2>1, HeadTailProperties
  <2> QED
    BY <1>0, <2>2 DEF Inv, Known, Copy, Registered
<1>4. CASE Restart
  <2>1. /\ lister' = lister \/ \E i \in 1..Len(watch) : lister' = watch[i]
        /\ \A i \in 1..Len(watch') : \E k \in 1..Len(watch) : watch'[i] = watch[k]
    BY <1>4, RestartDelivers DEF Inv
  <2> QED
    BY <1>0, <2>1 DEF Inv, Known, Copy, Registered
<1> QED
  <2>1. \A init, classes : Write(init, classes) => UNCHANGED lister /\ watch' = Append(watch, mesh')
    BY DEF Write
  <2>2. ASSUME NEW b \in Binding, Apply(bjob[b])
        PROVE  \/ UNCHANGED <<watch, lister>>
               \/ UNCHANGED lister /\ watch' = Append(watch, mesh')
    BY <2>2 DEF Apply, Write
  <2>3. ASSUME NEW b \in Binding, BPatch(b) \/ BLate(b)
        PROVE  \/ UNCHANGED <<watch, lister>>
               \/ UNCHANGED lister /\ watch' = Append(watch, mesh')
    <3>1. Apply(bjob[b]) \/ UNCHANGED <<watch, lister>>
      BY <2>3 DEF BPatch, BLate
    <3> QED
      BY <2>2, <3>1
  <2>4. ASSUME NEW b \in Binding, BStart(b) \/ BMerge(b) \/ BRead(b) \/ BError(b)
        PROVE  UNCHANGED <<watch, lister>>
    BY <2>4 DEF BStart, BMerge, BRead, BError
  <2> QED
    BY <1>1, <1>2, <1>3, <1>4, <2>1, <2>3, <2>4
       DEF Next, KWork, BWork, Touch, Resync, KStart, KPut, KConflict, KGet, KError, vars

\* A status in the making was computed from a version of the mesh.
LEMMA KJobKeeps ==
    ASSUME Inv, [Next]_vars
    PROVE  KJobKnown'
<1>0. Advance /\ Heard \subseteq Heard'
  BY StepAdvances
<1>1. CASE kjob' = Idle
  BY <1>1 DEF KJobKnown
<1>2. CASE kjob # Idle /\ kjob'.seen = kjob.seen /\ kjob'.classes = kjob.classes
  <2>1. kjob.seen \in Nat
    BY <1>2 DEF Inv, TypeOK, KJob
  <2>2. Computed(kjob.seen, kjob.classes)
    BY <1>2 DEF Inv, Known, KJobKnown
  <2>3. \A seen \in Nat : \A classes : Computed(seen, classes) => Computed(seen, classes)'
    BY <1>0, CopiesStay
  <2> QED
    BY <1>2, <2>1, <2>2, <2>3 DEF KJobKnown, Computed, Registered
<1>3. CASE KStart /\ kjob' # Idle
  <2>1. /\ kjob'.seen = lister.rv /\ kjob'.classes = lister.classes
        /\ UNCHANGED <<mesh, cache, former>>
    BY <1>3 DEF KStart, bindingVars
  <2>2. Copy(lister)
    BY DEF Inv, Known
  <2> QED
    BY <2>1, <2>2 DEF Copy, KJobKnown, Computed, Registered, Heard
<1>4. CASE KConflict \/ KGet
  BY <1>1, <1>2, <1>4 DEF KConflict, KGet, Idle
<1>5. CASE UNCHANGED kjob
  BY <1>1, <1>2, <1>5
<1> QED
  BY <1>1, <1>3, <1>4, <1>5
     DEF Next, KWork, BWork, Touch, Deliver, Resync, Restart, KPut, KError,
         BStart, BMerge, BRead, BPatch, BError, BLate, vars, kmeshVars

\* A worker compares its wish with a version of the mesh that has fewer classes.
LEMMA BJobKeeps ==
    ASSUME Inv, [Next]_vars, NEW b \in Binding
    PROVE  BJobKnown(b)'
<1>0. /\ \A v : Copy(v) => Copy(v)'
      /\ Heard \subseteq Heard' /\ former \subseteq former'
  <2>1. former \subseteq former'
    BY DEF Next, KWork, BWork, Touch, Deliver, Resync, Restart, KStart, KPut, KConflict, KGet,
           KError, BStart, BMerge, BRead, BPatch, BError, BLate, vars, bindingVars
  <2> QED
    BY <2>1, StepAdvances, CopiesStay
<1>1. CASE bjob'[b] = Idle
  BY <1>1 DEF BJobKnown, Idle
<1>2. CASE /\ bjob'[b] # Idle /\ bjob[b] # Idle /\ bjob'[b].base = bjob[b].base
           /\ bjob'[b].pc \in {"patch", "late"} =>
                 /\ bjob[b].pc \in {"patch", "late"}
                 /\ bjob'[b].after = bjob[b].after /\ bjob'[b].ops = bjob[b].ops
  <2>1. Copy(bjob[b].base)'
    BY <1>0, <1>2 DEF Inv, Known, BJobKnown, Copy, Registered
  <2>2. ASSUME bjob'[b].pc \in {"patch", "late"}
        PROVE  PatchKnown(bjob[b])'
    <3>1. PatchKnown(bjob[b])
      BY <1>2, <2>2 DEF Inv, Known, BJobKnown
    <3> QED
      BY <1>0, <1>2, <2>2, <3>1 DEF PatchKnown, Registered
  <2> QED
    BY <2>1, <2>2 DEF BJobKnown
<1>3. CASE bjob'[b] = [pc |-> "merge", base |-> lister]
  BY <1>0, <1>3 DEF Inv, Known, BJobKnown, Copy, Registered
<1>4. CASE BRead(b)
  <2>1. /\ bjob'[b] = [pc |-> "patch", base |-> bjob[b].base, after |-> cache,
                       ops |-> EditScript(bjob[b].base.classes, cache)]
        /\ UNCHANGED <<mesh, cache, former>>
    BY <1>4 DEF BRead, PatchTo, Inv, TypeOK
  <2>2. Copy(bjob[b].base)
    BY <1>4 DEF BRead, Inv, Known, BJobKnown, Idle
  <2>3. Copy(bjob[b].base)'
    BY <2>1, <2>2 DEF Copy, Registered, Heard
  <2>4. ToSet(bjob[b].base.classes) \subseteq ToSet(cache) \cup former
    BY <2>2 DEF Copy, Registered, Heard
  <2>5. PatchKnown(bjob[b])'
    BY <2>1, <2>4 DEF PatchKnown, Registered, Heard
  <2> QED
    BY <2>3, <2>5 DEF BJobKnown
<1>5. CASE bjob'[b] = bjob[b]
  BY <1>1, <1>2, <1>5
<1>6. CASE BMerge(b)
  <2>1. /\ bjob[b] # Idle /\ bjob'[b] = [pc |-> "read", base |-> bjob[b].base]
    BY <1>6 DEF BMerge, Inv, TypeOK, Idle
  <2> QED
    BY <1>2, <2>1 DEF Idle
<1>7. CASE Restart
  <2>1. bjob[b].pc \in {"patch", "late"} => bjob[b] # Idle
    BY DEF Idle
  <2>2. CASE /\ bjob[b].pc \in {"patch", "late"}
             /\ bjob'[b] = [pc |-> "late", base |-> bjob[b].base, after |-> bjob[b].after,
                            ops |-> bjob[b].ops]
    BY <1>2, <2>1, <2>2 DEF Idle
  <2> QED
    BY <1>1, <1>7, <2>2, RestartJobs DEF Inv
<1> QED
  <2>1. \A j : [bjob EXCEPT ![b] = j][b] = j
    BY DEF Inv, TypeOK
  <2>2. \A c, j : c # b => [bjob EXCEPT ![c] = j][b] = bjob[b]
    BY DEF Inv, TypeOK
  <2>3. ASSUME NEW c \in Binding, BStart(c) \/ BWork(c)
        PROVE  BRead(b) \/ BMerge(b) \/ \/ bjob'[b] = Idle
                                        \/ bjob'[b] = bjob[b]
                                        \/ bjob'[b] = [pc |-> "merge", base |-> lister]
    BY <2>1, <2>2, <2>3 DEF BStart, BWork, BMerge, BRead, BPatch, BError, BLate
  <2>4. CASE UNCHANGED bjob
    BY <1>5, <2>4
  <2>5. CASE \E c \in Binding : BStart(c) \/ BWork(c)
    BY <1>1, <1>3, <1>4, <1>5, <1>6, <2>3, <2>5
  <2> QED
    BY <1>7, <2>4, <2>5
       DEF Next, KWork, Touch, Deliver, Resync, KStart, KPut, KConflict, KGet, KError,
           vars, bindingVars

LEMMA InvInit == Init => Inv
<1> SUFFICES ASSUME Init
             PROVE  Inv
  OBVIOUS
<1>1. TypeOK
  BY TypeInit
<1>2. Copy(mesh)
  BY <1>1 DEF Init, Copy, Registered, TypeOK, ToSet
<1> QED
  BY <1>1, <1>2 DEF Init, Inv, Known, KJobKnown, BJobKnown, Idle

LEMMA InvStep == Inv /\ [Next]_vars => Inv'
<1> SUFFICES ASSUME Inv, [Next]_vars
             PROVE  Inv'
  OBVIOUS
<1>1. TypeOK'
  BY TypeStep DEF Inv
<1>2. Copy(mesh)'
  BY StepAdvances, CopiesStay
<1> QED
  BY <1>1, <1>2, InformerKeeps, KJobKeeps, BJobKeeps DEF Inv, Known

\* Every copy of the mesh is a version it had, and lists registered classes only.
THEOREM InvCorrect == Spec => []Inv
  BY InvInit, InvStep, PTL DEF Spec

---------------------------------------------------------------------------
(* What the steps do to the published classes                               *)

\* Only these steps write the mesh.
LEMMA Writers ==
    ASSUME [Next]_vars
    PROVE  \/ UNCHANGED mesh \/ Touch \/ KPut
           \/ \E b \in Binding :
                 /\ BPatch(b) \/ BLate(b)
                 /\ Patched(bjob[b]).ok /\ Write(mesh.init, Patched(bjob[b]).val)
  BY DEF Next, KWork, BWork, Deliver, Resync, Restart, KStart, KConflict, KGet, KError,
         BStart, BMerge, BRead, BPatch, BError, BLate, Apply, vars

\* A patch computed from the version it meets takes away only what its process had
\* not heard of.
LEMMA FreshPatchKeeps ==
    ASSUME Inv, NEW b \in Binding, bjob[b].pc \in {"patch", "late"}, Patched(bjob[b]).ok,
           bjob[b].base.rv = mesh.rv
    PROVE  ToSet(mesh.classes) \subseteq
              ToSet(Patched(bjob[b]).val) \cup (former \ ToSet(bjob[b].after))
<1>1. /\ Copy(bjob[b].base) /\ bjob[b].after \in Seq(Class) /\ PatchKnown(bjob[b])
  BY BJobFields DEF Inv, Known, BJobKnown, Idle
<1>2. bjob[b].base = mesh
  BY <1>1 DEF Copy
<1>3. mesh.classes \in Seq(Class)
  BY DEF Inv, TypeOK, Version
<1>4. PatchMember(mesh.classes, bjob[b].after, mesh.classes, ApplyOps(bjob[b].ops, mesh.classes))
         = Ok(bjob[b].after)
  <2>1. PatchClasses(mesh.classes, bjob[b].after, mesh.classes) = Ok(bjob[b].after)
    BY <1>1, <1>3, PatchClassesExact
  <2>2. bjob[b].ops = EditScript(mesh.classes, bjob[b].after)
    BY <1>1, <1>2 DEF PatchKnown
  <2> QED
    BY <2>1, <2>2, Zenon DEF PatchClasses
<1>5. Patched(bjob[b]).val = bjob[b].after
  BY <1>2, <1>4 DEF Patched, Ok, Failed
<1> QED
  BY <1>1, <1>2, <1>5 DEF PatchKnown

LEMMA LossStep ==
    ASSUME Inv, [Next]_vars, NEW c \in Lost
    PROVE  \/ kjob.pc = "put" /\ kjob' = Idle /\ kjob.seen # mesh.rv
           \/ \E b \in Binding : /\ bjob[b].pc \in {"patch", "late"} /\ bjob'[b] = Idle
                                 /\ Excused(bjob[b], c)
<1>0. mesh.init \in BOOLEAN /\ mesh.classes \in Seq(Class)
  BY DEF Inv, TypeOK, Version
<1>1. CASE UNCHANGED mesh
  BY <1>1 DEF Lost
<1>2. CASE Touch
  BY <1>0, <1>2, WriteEffect DEF Touch, Lost, Inv
<1>3. CASE KPut
  <2>1. kjob # Idle /\ kjob.classes \in Seq(Class)
    BY <1>3, KJobFields DEF KPut, Idle, Inv
  <2>2. mesh'.classes = kjob.classes
    BY <1>3, <2>1, WriteEffect DEF KPut, Inv
  <2>3. kjob.seen = mesh.rv => kjob.classes = mesh.classes
    BY <2>1 DEF Inv, Known, KJobKnown, Computed
  <2> QED
    BY <1>3, <2>2, <2>3 DEF KPut, Lost
<1>4. ASSUME NEW b \in Binding, BPatch(b) \/ BLate(b),
             Patched(bjob[b]).ok, Write(mesh.init, Patched(bjob[b]).val)
      PROVE  /\ bjob[b].pc \in {"patch", "late"} /\ bjob'[b] = Idle
             /\ Excused(bjob[b], c)
  <2>1. bjob[b].pc \in {"patch", "late"} /\ bjob'[b] = Idle
    BY <1>4 DEF BPatch, BLate, Inv, TypeOK
  <2>2. mesh'.classes = Patched(bjob[b]).val
    BY <1>0, <1>4, <2>1, PatchedRegistered, WriteEffect DEF Inv
  <2>3. c \in ToSet(mesh.classes) /\ c \notin ToSet(Patched(bjob[b]).val)
    BY <2>2 DEF Lost
  <2> QED
    BY <1>4, <2>1, <2>3, FreshPatchKeeps DEF Excused
<1> QED
  BY <1>1, <1>2, <1>3, <1>4, Writers

\* A class disappears only by a status or a patch computed from a copy older than
\* what it replaces, or by a patch of a process that has not heard of it since a
\* restart, for any number of bindings, faults, restarts and retries
\* (brokerbinding.go 96-122, controller.go 76, kmesh/reconciler.go 311-341).
THEOREM LossFromStaleCopy == Spec => LossNeedsStaleCopy
<1>1. Inv /\ [Next]_vars =>
         [\A c \in Lost :
             \/ kjob.pc = "put" /\ kjob' = Idle /\ kjob.seen # mesh.rv
             \/ \E b \in Binding : /\ bjob[b].pc \in {"patch", "late"} /\ bjob'[b] = Idle
                                   /\ Excused(bjob[b], c)]_vars
  BY LossStep
<1> QED
  BY <1>1, InvCorrect, PTL DEF Spec, LossNeedsStaleCopy

---------------------------------------------------------------------------
(* The steps are steps of the register                                      *)

LEMMA RegisterInit == Init => Register!Init
  BY DEF Init, Register!Init, ToSet

LEMMA RegisterStep ==
    ASSUME Inv, [Next]_vars
    PROVE  [Register!Next]_(Register!vars)
<1>0. /\ mesh.init \in BOOLEAN /\ mesh.classes \in Seq(Class) /\ cache \in Seq(Class)
  BY DEF Inv, TypeOK, Version
<1>1. CASE UNCHANGED mesh
  <2>1. Heard \subseteq Heard'
    BY StepAdvances
  <2>2. Heard' \in SUBSET Class
    BY TypeStep DEF Inv, TypeOK, ToSet, Heard
  <2> QED
    BY <1>1, <2>1, <2>2 DEF Register!Next, Register!Register, Heard
<1>2. ASSUME ~UNCHANGED mesh
      PROVE  UNCHANGED <<cache, former>> /\ ToSet(mesh'.classes) \in SUBSET Heard
  <2>1. UNCHANGED <<cache, former>>
    BY <1>2, Writers DEF Touch, KPut, BPatch, BLate, bindingVars
  <2>2. Copy(mesh)'
    BY InvStep DEF Inv, Known
  <2> QED
    BY <2>1, <2>2 DEF Copy, Registered, Heard
<1> QED
  BY <1>1, <1>2 DEF Register!Next, Register!Publish, Heard

\* The caches are a register of classes and the mesh publishes it: what is published
\* was registered before, whatever is merged, retried, lost or late, and nothing
\* registered is taken back (brokerbinding.go 96-157, kmesh/reconciler.go 311-341).
THEOREM RegisterSafety == Spec => Register!Init /\ [][Register!Next]_(Register!vars)
<1>1. Inv /\ [Next]_vars => [Register!Next]_(Register!vars)
  BY RegisterStep
<1> QED
  BY <1>1, RegisterInit, InvCorrect, PTL DEF Spec
=============================================================================
