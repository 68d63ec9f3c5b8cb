--------------------------- MODULE ReplicasProofs ---------------------------
(***************************************************************************)
(* Proofs about the replicas of the controller, for any number of them.    *)
(*                                                                         *)
(* Versions: no two objects that something holds have one version and are  *)
(* different, since the API server gives every change a version of its     *)
(* own.  A status update that is taken was therefore made from the very    *)
(* object it replaces.                                                     *)
(*                                                                         *)
(* Keys: a copy no event is on its way to is the object of the API server, *)
(* and a job nothing is queued behind is about that copy; so it does not   *)
(* meet a conflict, and what it writes is an event.                        *)
(***************************************************************************)
EXTENDS Replicas, FiniteSetTheorems, SequenceTheorems, WellFoundedInduction, TLAPS

Active == {"put", "get"}

Jobs == {job[r] : r \in {q \in Replica : job[q].pc \in Active}}

Copies == UNION {{lister[r]} \cup ToSet(watch[r]) : r \in Replica}

Live == ({object} \cup Copies \cup {j.obj : j \in Jobs}) \ {None}

Used == (UNION {{o.rv, o.uid, o.status.from} : o \in Live}) \cup {j.status.from : j \in Jobs}

Free(n) == n + 1 \notin Used /\ \A m \in 1..n : m \in Used

LEMMA NoObject == None \notin Object
  BY DEF None, Object

LEMMA JobKinds ==
    \A j \in Job : /\ j = Idle <=> j.pc = "idle"
                   /\ j # Idle => j \in [pc : Active, obj : Object,
                                         status : [of : Specs, from : Nat], attempt : 1..Steps]
  BY DEF Job, Idle, Active

---------------------------------------------------------------------------
(* A version nothing carries                                                *)

LEMMA ImageFinite ==
    ASSUME NEW S, IsFiniteSet(S), NEW f, f = [x \in S |-> f[x]]
    PROVE  IsFiniteSet({f[x] : x \in S})
<1> DEFINE T == {f[x] : x \in S}
<1>1. f \in [S -> T]
  OBVIOUS
<1>2. f \in Surjection(S, T)
  BY <1>1 DEF Surjection
<1> QED
  BY <1>2, FS_Surjection

LEMMA ThreeFinite ==
    ASSUME NEW A, NEW B, NEW C, IsFiniteSet(A), IsFiniteSet(B), IsFiniteSet(C)
    PROVE  IsFiniteSet(A \cup B \cup C)
<1> DEFINE D == A \cup B
<1>1. IsFiniteSet(D)
  BY FS_Union
<1>2. A \cup B \cup C = D \cup C
  OBVIOUS
<1> HIDE DEF D
<1>3. IsFiniteSet(D \cup C)
  BY <1>1, FS_Union
<1> QED
  BY <1>2, <1>3

LEMMA WatchFinite ==
    ASSUME TypeOK, NEW r \in Replica
    PROVE  IsFiniteSet({lister[r]} \cup ToSet(watch[r]))
<1>1. watch[r] \in Seq(Object \cup {None})
  BY DEF TypeOK
<1>2. DOMAIN watch[r] = 1..Len(watch[r]) /\ Len(watch[r]) \in Nat
  BY <1>1, LenProperties
<1>3. IsFiniteSet(DOMAIN watch[r])
  BY <1>2, FS_Interval
<1>4. IsFiniteSet(ToSet(watch[r]))
  <2> DEFINE w == watch[r]
  <2>1. w = [x \in DOMAIN w |-> w[x]]
    BY <1>1, LenProperties
  <2> HIDE DEF w
  <2>2. PICK D : D = DOMAIN w
    OBVIOUS
  <2>3. w = [x \in D |-> w[x]] /\ IsFiniteSet(D)
    BY <1>3, <2>1, <2>2 DEF w
  <2>4. IsFiniteSet({w[x] : x \in D})
    BY <2>3, ImageFinite
  <2> QED
    BY <2>2, <2>4 DEF ToSet, w
<1> QED
  BY <1>4, FS_Singleton, FS_Union

LEMMA UsedFinite ==
    ASSUME TypeOK
    PROVE  IsFiniteSet(Used)
<1> DEFINE active == {q \in Replica : job[q].pc \in Active}
           jobs   == [q \in active |-> job[q]]
           copies == [r \in Replica |-> {lister[r]} \cup ToSet(watch[r])]
           objs   == [j \in Jobs |-> j.obj]
           froms  == [j \in Jobs |-> j.status.from]
           marks  == [o \in Live |-> {o.rv, o.uid, o.status.from}]
<1>1. IsFiniteSet(active)
  BY ReplicaBounds, FS_Subset
<1>2. IsFiniteSet(Jobs)
  <2>1. IsFiniteSet({jobs[q] : q \in active})
    BY <1>1, ImageFinite
  <2>2. Jobs = {jobs[q] : q \in active}
    BY DEF Jobs
  <2> QED
    BY <2>1, <2>2
<1>3. IsFiniteSet(Copies)
  <2>1. IsFiniteSet({copies[r] : r \in Replica})
    BY ReplicaBounds, ImageFinite
  <2>2. {copies[r] : r \in Replica} = {{lister[r]} \cup ToSet(watch[r]) : r \in Replica}
    OBVIOUS
  <2>3. \A T \in {{lister[r]} \cup ToSet(watch[r]) : r \in Replica} : IsFiniteSet(T)
    BY WatchFinite
  <2> QED
    BY <2>1, <2>2, <2>3, FS_UNION DEF Copies
<1>4. IsFiniteSet({j.obj : j \in Jobs}) /\ IsFiniteSet({j.status.from : j \in Jobs})
  <2>1. IsFiniteSet({objs[j] : j \in Jobs}) /\ IsFiniteSet({froms[j] : j \in Jobs})
    BY <1>2, ImageFinite
  <2>2. {objs[j] : j \in Jobs} = {j.obj : j \in Jobs}
    OBVIOUS
  <2>3. {froms[j] : j \in Jobs} = {j.status.from : j \in Jobs}
    OBVIOUS
  <2> QED
    BY <2>1, <2>2, <2>3
<1>5. IsFiniteSet(Live)
  <2>1. IsFiniteSet({object} \cup Copies \cup {j.obj : j \in Jobs})
    BY <1>3, <1>4, FS_Singleton, ThreeFinite
  <2> QED
    BY <2>1, FS_RemoveElement DEF Live
<1>6. IsFiniteSet(UNION {{o.rv, o.uid, o.status.from} : o \in Live})
  <2>1. IsFiniteSet({marks[o] : o \in Live})
    <3>1. marks = [o \in Live |-> marks[o]]
      BY Zenon
    <3> HIDE DEF marks
    <3> QED
      BY <1>5, <3>1, ImageFinite, Zenon
  <2>2. {marks[o] : o \in Live} = {{o.rv, o.uid, o.status.from} : o \in Live}
    OBVIOUS
  <2>3. \A a, b, c : IsFiniteSet({a, b, c})
    <3> TAKE a, b, c
    <3>1. IsFiniteSet({a} \cup {b} \cup {c})
      BY FS_Singleton, ThreeFinite
    <3>2. {a, b, c} = {a} \cup {b} \cup {c}
      OBVIOUS
    <3> QED
      BY <3>1, <3>2
  <2>4. \A T \in {{o.rv, o.uid, o.status.from} : o \in Live} : IsFiniteSet(T)
    <3> SUFFICES ASSUME NEW o \in Live
                 PROVE  IsFiniteSet({o.rv, o.uid, o.status.from})
      BY Zenon
    <3> QED
      BY <2>3, Zenon
  <2> QED
    BY <2>1, <2>2, <2>4, FS_UNION
<1> QED
  BY <1>4, <1>6, FS_Union DEF Used

\* The least positive number that is not used, less one.
LEMMA FreeExists ==
    ASSUME TypeOK
    PROVE  \E n \in 0..Cardinality(Used) : Free(n)
<1> DEFINE c == Cardinality(Used)
           T == (1..c + 1) \ Used
<1>1. IsFiniteSet(Used) /\ c \in Nat
  BY UsedFinite, FS_CardinalityType
<1>2. T # {}
  <2> SUFFICES ASSUME T = {}
               PROVE  FALSE
    OBVIOUS
  <2>1. 1..c + 1 \subseteq Used
    OBVIOUS
  <2>2. Cardinality(1..c + 1) <= c
    BY <1>1, <2>1, FS_Subset
  <2>3. Cardinality(1..c + 1) = c + 1
    BY <1>1, FS_Interval
  <2> QED
    BY <1>1, <2>2, <2>3
<1> DEFINE S == 1..c + 1
           R == StrictSubsetOrdering(S)
           F == {1..k : k \in T}
<1>3. IsWellFoundedOn(R, SUBSET S)
  <2>1. IsFiniteSet(S)
    BY <1>1, FS_Interval
  <2> HIDE DEF S
  <2>2. FiniteSubsetsOf(S) = SUBSET S
    BY <2>1, FS_FiniteSubsetsOfFinite
  <2>3. IsWellFoundedOn(R, FiniteSubsetsOf(S))
    BY FS_StrictSubsetOrderingWellFounded
  <2> HIDE DEF R
  <2> QED
    BY <2>2, <2>3, Zenon
<1>4. PICK m \in T : \A k \in T : ~(k < m)
  <2>1. F \subseteq SUBSET S /\ F # {}
    BY <1>1, <1>2
  <2>2. \E X \in F : \A Y \in F : <<Y, X>> \notin R
    <3> HIDE DEF F, R
    <3> QED
      BY <1>3, <2>1, WFMin
  <2>3. PICK m \in T : \A k \in T : <<1..k, 1..m>> \notin R
    <3> HIDE DEF R, T
    <3> QED
      BY <2>2
  <2>4. ASSUME NEW k \in T, k < m
        PROVE  <<1..k, 1..m>> \in R
    <3>1. 1..k \subseteq 1..m /\ 1..k # 1..m
      BY <1>1, <2>4
    <3>2. 1..k \in SUBSET S /\ 1..m \in SUBSET S
      BY <1>1
    <3> QED
      BY <3>1, <3>2 DEF StrictSubsetOrdering
  <2> QED
    BY <2>3, <2>4
<1>5. m - 1 \in 0..c /\ (m - 1) + 1 = m
  BY <1>1, <1>4
<1>6. \A k \in 1..m - 1 : k \in Used
  BY <1>1, <1>4
<1> QED
  BY <1>4, <1>5, <1>6 DEF Free

LEMMA FreshVersion ==
    ASSUME TypeOK
    PROVE  /\ db.obj = object
           /\ db.rev \in Nat
           /\ \A o \in Live : o.rv # db.rev + 1
           /\ db = [obj |-> object, rev |-> db.rev]
<1> DEFINE rev == CHOOSE n \in 0..Cardinality(Used) : Free(n)
<1>1. db = [obj |-> object, rev |-> rev]
  BY DEF db, Free, Used, Live, Copies, Jobs, Active
<1>2. rev \in 0..Cardinality(Used) /\ Free(rev)
  BY FreeExists
<1>3. Cardinality(Used) \in Nat
  BY UsedFinite, FS_CardinalityType
<1> HIDE DEF rev
<1>4. \A o \in Live : o.rv \in Used
  BY DEF Used
<1> QED
  BY <1>1, <1>2, <1>3, <1>4 DEF Free

---------------------------------------------------------------------------
(* What the API server answers                                              *)

Updated(r) == [object EXCEPT !.status = job[r].status]

\* A status update is refused and changes nothing, or is of the version stored.
LEMMA ServeUpdate ==
    ASSUME TypeOK, NEW r \in Replica, job[r].pc = "put",
           NEW answer, answer = Serve(db, Typed(UpdateCall(r)))
    PROVE  \/ /\ answer.db = db /\ answer.err \in {"NotFound", "Denied", "Conflict"}
              /\ answer.err = "Conflict" => object # None /\ job[r].obj.rv # object.rv
           \/ /\ answer.err = "none" /\ object # None /\ job[r].obj.rv = object.rv
              /\ IF Updated(r) = object THEN answer.db.obj = object
                 ELSE answer.db.obj = [Updated(r) EXCEPT !.rv = db.rev + 1]
<1> DEFINE q == Typed(UpdateCall(r))
<1>1. /\ q.verb = "PUT" /\ ~q.all /\ q.sub = "status"
      /\ q.body = [job[r].obj EXCEPT !.status = job[r].status]
  BY DEF Typed, TypedWrites, Request, Verb, UpdateCall, Call, Reads
<1>2. job[r].obj \in Object
  BY JobKinds DEF TypeOK, Idle
<1>3. q.body.rv = job[r].obj.rv /\ q.body.status = job[r].status
  BY <1>1, <1>2 DEF Object
<1>4. db.obj = object /\ db.rev \in Nat
  BY FreshVersion
<1> HIDE DEF q
<1>5. CASE Refusal(db, q) # "none"
  <2>1. answer.db = db /\ answer.err = Refusal(db, q)
    BY <1>5 DEF Serve, Answer, q
  <2>2. Refusal(db, q) \in {"NotFound", "Denied", "Conflict"}
    BY <1>1, <1>5 DEF Refusal
  <2>3. Refusal(db, q) = "Conflict" => object # None /\ job[r].obj.rv # object.rv
    BY <1>1, <1>3, <1>4 DEF Refusal
  <2> QED
    BY <2>1, <2>2, <2>3
<1>6. CASE Refusal(db, q) = "none"
  <2>1. answer.db = After(db, q) /\ answer.err = "none"
    BY <1>6 DEF Serve, Answer, q
  <2>2. object # None /\ job[r].obj.rv = object.rv
    BY <1>1, <1>3, <1>4, <1>6 DEF Refusal
  <2>3. After(db, q) = IF Half(db, q) = db.obj THEN db ELSE Stored(db, Half(db, q))
    BY <1>1 DEF After
  <2>4. Half(db, q) = Updated(r)
    BY <1>1, <1>3, <1>4 DEF Half, Updated
  <2> QED
    BY <1>4, <2>1, <2>2, <2>3, <2>4 DEF Stored
<1> QED
  BY <1>5, <1>6

\* What users do leaves the object, another version of it, or none.
LEMMA ServeUser ==
    ASSUME TypeOK, NEW c \in UserCalls,
           NEW answer, answer = Serve(db, Typed(c))
    PROVE  \/ answer.db.obj \in {object, None}
           \/ answer.db.obj \in Object /\ answer.db.obj.rv = db.rev + 1
<1> DEFINE q == Typed(c)
<1>1. db.obj = object /\ db.rev \in Nat /\ object \in Object \cup {None}
  BY FreshVersion DEF TypeOK
<1>2. answer.db \in {db, After(db, q)}
  BY DEF Serve, Answer
<1>3. ASSUME NEW s \in Specs, c = Call("Create", [rv |-> 0, spec |-> s], "")
      PROVE  After(db, q).obj \in Object /\ After(db, q).obj.rv = db.rev + 1
  <2>1. q.verb = "POST" /\ q.body.spec = s
    BY <1>3 DEF Typed, TypedWrites, Request, Verb, Call, Reads
  <2> HIDE DEF q
  <2>2. After(db, q) = Stored(db, [uid |-> db.rev + 1, rv |-> 0, spec |-> s, status |-> NoStatus])
    BY <2>1 DEF After
  <2> QED
    BY <1>1, <2>2 DEF Stored, Object
<1>4. ASSUME NEW s \in Specs, object # None,
             c = Call("Update", [object EXCEPT !.spec = s], "")
      PROVE  \/ After(db, q).obj = object
             \/ After(db, q).obj \in Object /\ After(db, q).obj.rv = db.rev + 1
  <2>1. q.verb = "PUT" /\ q.sub = "" /\ q.body = [object EXCEPT !.spec = s]
    BY <1>4 DEF Typed, TypedWrites, Request, Verb, Call, Reads
  <2> HIDE DEF q
  <2>2. object \in Object
    BY <1>1, <1>4
  <2>3. Half(db, q) = [object EXCEPT !.spec = s] /\ Half(db, q) \in Object
    BY <1>1, <2>1, <2>2 DEF Half, Object
  <2>4. After(db, q) = IF Half(db, q) = db.obj THEN db ELSE Stored(db, Half(db, q))
    BY <2>1 DEF After
  <2>5. CASE Half(db, q) = db.obj
    BY <1>1, <2>4, <2>5
  <2>6. CASE Half(db, q) # db.obj
    <3>1. PICK h \in Object : h = Half(db, q)
      BY <2>3
    <3>2. After(db, q).obj = [h EXCEPT !.rv = db.rev + 1]
      BY <2>4, <2>6, <3>1 DEF Stored
    <3>3. [h EXCEPT !.rv = db.rev + 1] \in Object /\ [h EXCEPT !.rv = db.rev + 1].rv = db.rev + 1
      BY <1>1 DEF Object
    <3> QED
      BY <3>2, <3>3
  <2> QED
    BY <2>5, <2>6
<1>5. ASSUME c = Call("Delete", None, "")
      PROVE  After(db, q).obj \in {object, None}
  <2>1. q.verb = "DELETE"
    BY <1>5 DEF Typed, TypedWrites, Request, Verb, Call, Reads
  <2> QED
    BY <1>1, <2>1 DEF After
<1>6. \/ After(db, q).obj \in {object, None}
      \/ After(db, q).obj \in Object /\ After(db, q).obj.rv = db.rev + 1
  BY <1>3, <1>4, <1>5 DEF UserCalls
<1> QED
  BY <1>1, <1>2, <1>6

\* A list has the object, and only that.
LEMMA ServeList ==
    ASSUME TypeOK
    PROVE  Serve(db, Typed(Call("List", None, ""))).got = {object} \ {None}
<1> DEFINE q == Typed(Call("List", None, ""))
<1>1. q.verb = "GET" /\ q.all
  BY DEF Typed, TypedReads, Request, Verb, Call, Reads
<1> HIDE DEF q
<1>2. Refusal(db, q) = "none" /\ After(db, q) = db
  BY <1>1 DEF Refusal, Admitted, After
<1>3. Serve(db, q).got = {object} \ {None}
  BY <1>1, <1>2, FreshVersion DEF Serve, Answer
<1> QED
  BY <1>3 DEF q

LEMMA ServeGet ==
    ASSUME TypeOK
    PROVE  Serve(db, Typed(Call("Get", None, ""))).err = "none" => object # None
<1> DEFINE q == Typed(Call("Get", None, ""))
<1>1. q.verb = "GET" /\ ~q.all
  BY DEF Typed, TypedReads, Request, Verb, Call, Reads
<1> HIDE DEF q
<1>2. Serve(db, q).err = Refusal(db, q)
  BY DEF Serve, Answer
<1>3. Refusal(db, q) = "none" => object # None
  BY <1>1, FreshVersion DEF Refusal
<1> QED
  BY <1>2, <1>3 DEF q

---------------------------------------------------------------------------
(* Types                                                                    *)

LEMMA TypeInit == Init => TypeOK
<1> SUFFICES ASSUME Init
             PROVE  TypeOK
  OBVIOUS
<1> USE ReplicaBounds
<1>1. object \in Object
  BY DEF Init, Object
<1>2. /\ lister \in [Replica -> Object \cup {None}]
      /\ watch \in [Replica -> Seq(Object \cup {None})]
  BY <1>1 DEF Init
<1>3. /\ phase \in [Replica -> {"down", "up"}]
      /\ election \in [Replica -> {"candidate", "leader", "stopped"}]
      /\ promoting \in [Replica -> [add : Nat, list : Nat]]
      /\ leads \in [Replica -> BOOLEAN] /\ queued \in [Replica -> BOOLEAN]
      /\ job \in [Replica -> Job]
      /\ lease \in Replica \cup {Nobody} /\ changes \in 0..MaxChanges /\ faults \in 0..MaxFaults
  BY DEF Init, Job
<1> QED
  BY <1>1, <1>2, <1>3 DEF TypeOK

\* The variables an action of the API server changes.
LEMMA CommitType ==
    ASSUME TypeOK, NEW new, new.obj \in Object \cup {None}, Commit(new)
    PROVE  /\ object' \in Object \cup {None}
           /\ watch' \in [Replica -> Seq(Object \cup {None})]
<1>1. object' \in Object \cup {None}
  BY DEF Commit
<1>2. ASSUME NEW r \in Replica
      PROVE  Append(watch[r], new.obj) \in Seq(Object \cup {None})
  BY AppendProperties DEF TypeOK
<1>3. watch' \in [Replica -> Seq(Object \cup {None})]
  BY <1>2 DEF Commit, TypeOK
<1> QED
  BY <1>1, <1>3

LEMMA FaultType ==
    ASSUME TypeOK, Fault \/ UNCHANGED faults
    PROVE  faults' \in 0..MaxFaults
  BY ReplicaBounds DEF TypeOK, Fault

LEMMA UpdateType ==
    ASSUME TypeOK, NEW r \in Replica, job[r].pc = "put"
    PROVE  Serve(db, Typed(UpdateCall(r))).db.obj \in Object \cup {None}
<1> DEFINE answer == Serve(db, Typed(UpdateCall(r)))
<1>1. db.obj = object /\ db.rev \in Nat /\ object \in Object \cup {None}
  BY FreshVersion DEF TypeOK
<1>2. job[r].status \in [of : Specs, from : Nat]
  BY JobKinds DEF TypeOK, Idle
<1>3. ASSUME object # None
      PROVE  [Updated(r) EXCEPT !.rv = db.rev + 1] \in Object
  <2>1. Updated(r) \in Object
    BY <1>1, <1>2, <1>3 DEF Updated, Object
  <2>2. \A o \in Object, n \in Nat : [o EXCEPT !.rv = n] \in Object
    BY DEF Object
  <2> QED
    BY <1>1, <2>1, <2>2
<1> QED
  BY <1>1, <1>3, ServeUpdate

LEMMA TypeNext ==
    ASSUME TypeOK, [Next]_vars
    PROVE  TypeOK'
<1>1. CASE User
  <2>1. PICK c \in UserCalls : Commit(Serve(db, Typed(c)).db)
    BY <1>1 DEF User
  <2>2. object \in Object \cup {None}
    BY DEF TypeOK
  <2>3. Serve(db, Typed(c)).db.obj \in Object \cup {None}
    BY <2>2, ServeUser
  <2>4. /\ object' \in Object \cup {None}
        /\ watch' \in [Replica -> Seq(Object \cup {None})]
    BY <2>1, <2>3, CommitType
  <2>5. changes' \in 0..MaxChanges
    BY <1>1, ReplicaBounds DEF User, TypeOK
  <2> QED
    BY <1>1, <2>4, <2>5 DEF User, TypeOK, electionVars, workVars
<1>2. CASE Expire
  BY <1>2 DEF Expire, TypeOK, informerVars, workVars
<1>3. ASSUME NEW r \in Replica, Boot(r)
      PROVE  TypeOK'
  <2>1. /\ lister' = [lister EXCEPT ![r] = IF {object} \ {None} = {} THEN None
                                           ELSE CHOOSE o \in {object} \ {None} : TRUE]
        /\ queued' = [queued EXCEPT ![r] = {object} \ {None} # {}]
    BY <1>3, ServeList DEF Boot
  <2>2. lister' \in [Replica -> Object \cup {None}] /\ queued' \in [Replica -> BOOLEAN]
    BY <2>1 DEF TypeOK
  <2> QED
    BY <1>3, <2>2 DEF Boot, TypeOK, electionVars
<1>4. ASSUME NEW r \in Replica, Deliver(r)
      PROVE  TypeOK'
  <2>1. /\ Head(watch[r]) \in Object \cup {None}
        /\ Tail(watch[r]) \in Seq(Object \cup {None})
    BY <1>4, HeadTailProperties DEF Deliver, TypeOK
  <2> QED
    BY <1>4, <2>1 DEF Deliver, TypeOK, electionVars
<1>5. ASSUME NEW r \in Replica, Crash(r)
      PROVE  TypeOK'
  <2>1. <<>> \in Seq(Object \cup {None})
    BY EmptySeq
  <2>2. faults' \in 0..MaxFaults
    BY <1>5, FaultType DEF Crash
  <2>3. job' \in [Replica -> Job]
    BY <1>5 DEF Crash, NewImpl, TypeOK, Job
  <2> QED
    BY <1>5, <2>1, <2>2, <2>3 DEF Crash, NewImpl, InformerFor, TypeOK
<1>6. ASSUME NEW r \in Replica, Acquire(r)
      PROVE  TypeOK'
  <2>1. promoting' \in [Replica -> [add : Nat, list : Nat]]
    <3>1. promoting[r] \in [add : Nat, list : Nat]
      BY DEF TypeOK
    <3>2. [promoting[r] EXCEPT !.add = @ + 1] \in [add : Nat, list : Nat]
      BY <3>1
    <3>3. promoting' = [promoting EXCEPT ![r] = [promoting[r] EXCEPT !.add = @ + 1]]
      BY <1>6 DEF Acquire, TypeOK
    <3> QED
      BY <3>2, <3>3 DEF TypeOK
  <2> QED
    BY <1>6, <2>1 DEF Acquire, TypeOK, informerVars, workVars
<1>7. ASSUME NEW r \in Replica, Lose(r)
      PROVE  TypeOK'
  <2>1. faults' \in 0..MaxFaults
    BY <1>7, FaultType DEF Lose
  <2> QED
    BY <1>7, <2>1 DEF Lose, TypeOK, informerVars, workVars
<1>8. ASSUME NEW r \in Replica, Demote(r)
      PROVE  TypeOK'
  BY <1>8 DEF Demote, TypeOK, informerVars, workVars
<1>9. ASSUME NEW r \in Replica, Promote(r)
      PROVE  TypeOK'
  <2>1. promoting[r] \in [add : Nat, list : Nat]
    BY DEF TypeOK
  <2>2. promoting' \in [Replica -> [add : Nat, list : Nat]]
    <3>1. promoting[r].add > 0 =>
            [add |-> promoting[r].add - 1, list |-> promoting[r].list + 1] \in [add : Nat, list : Nat]
      BY <2>1
    <3>2. promoting[r].list > 0 =>
            [promoting[r] EXCEPT !.list = @ - 1] \in [add : Nat, list : Nat]
      BY <2>1
    <3> QED
      BY <1>9, <3>1, <3>2 DEF Promote, TypeOK
  <2>3. leads' \in [Replica -> BOOLEAN] /\ queued' \in [Replica -> BOOLEAN]
    BY <1>9 DEF Promote, PromoteFunc, TypeOK
  <2> QED
    BY <1>9, <2>2, <2>3 DEF Promote, TypeOK, informerVars
<1>10. ASSUME NEW r \in Replica, Take(r)
       PROVE  TypeOK'
  <2>1. lister[r] # None => Reconcile(lister[r]) \in Job
    BY ReplicaBounds DEF Reconcile, TypeOK, Job, Object
  <2>2. Reconcile(lister[r]) \in Job /\ Idle \in Job
    BY <2>1 DEF Reconcile, Job
  <2>3. job' \in [Replica -> Job] /\ queued' \in [Replica -> BOOLEAN]
    BY <1>10, <2>2 DEF Take, TypeOK
  <2> QED
    BY <1>10, <2>3 DEF Take, TypeOK, electionVars, informerVars
<1>11. ASSUME NEW r \in Replica, Requeue(r)
       PROVE  job' \in [Replica -> Job] /\ queued' \in [Replica -> BOOLEAN]
  BY <1>11 DEF Requeue, TypeOK, Job
<1>12. ASSUME NEW r \in Replica, Put(r)
       PROVE  TypeOK'
  <2>1. /\ object' \in Object \cup {None}
        /\ watch' \in [Replica -> Seq(Object \cup {None})]
    BY <1>12, UpdateType, CommitType DEF Put
  <2>2. faults' \in 0..MaxFaults
    BY <1>12, FaultType DEF Put
  <2>3. Retries(r) => [job[r] EXCEPT !.pc = "get", !.attempt = job[r].attempt + 1] \in Job
    <3>1. job[r] \in [pc : Active, obj : Object, status : [of : Specs, from : Nat],
                      attempt : 1..Steps]
      BY <1>12, JobKinds DEF Put, TypeOK, Idle
    <3>2. Retries(r) => job[r].attempt + 1 \in 1..Steps
      BY <3>1, ReplicaBounds DEF Retries
    <3> QED
      BY <3>1, <3>2 DEF Job, Active
  <2>4. job' \in [Replica -> Job] /\ queued' \in [Replica -> BOOLEAN]
    <3>1. Idle \in Job /\ job \in [Replica -> Job] /\ queued \in [Replica -> BOOLEAN]
      BY DEF TypeOK, Job
    <3>2. \/ job' = [job EXCEPT ![r] = Idle] /\ UNCHANGED queued
          \/ /\ Retries(r) /\ UNCHANGED queued
             /\ job' = [job EXCEPT ![r] = [job[r] EXCEPT !.pc = "get", !.attempt = job[r].attempt + 1]]
          \/ Requeue(r)
      BY <1>12 DEF Put
    <3> QED
      BY <1>11, <2>3, <3>1, <3>2
  <2> QED
    BY <1>12, <2>1, <2>2, <2>4 DEF Put, TypeOK, electionVars
<1>13. ASSUME NEW r \in Replica, Get(r)
       PROVE  TypeOK'
  <2>1. object # None => [job[r] EXCEPT !.pc = "put", !.obj = object] \in Job
    <3>1. job[r] \in [pc : Active, obj : Object, status : [of : Specs, from : Nat],
                      attempt : 1..Steps]
      BY <1>13, JobKinds DEF Get, TypeOK, Idle
    <3>2. object # None => object \in Object
      BY DEF TypeOK
    <3> QED
      BY <3>1, <3>2 DEF Job, Active
  <2>2. job' \in [Replica -> Job] /\ queued' \in [Replica -> BOOLEAN]
    <3>1. Idle \in Job /\ job \in [Replica -> Job] /\ queued \in [Replica -> BOOLEAN]
      BY DEF TypeOK, Job
    <3> QED
      BY <1>11, <1>13, <2>1, <3>1, ServeGet DEF Get, Refetched
  <2> QED
    BY <1>13, <2>2 DEF Get, TypeOK, electionVars, informerVars
<1>14. ASSUME NEW r \in Replica, Fail(r)
       PROVE  TypeOK'
  <2>1. faults' \in 0..MaxFaults
    BY <1>14, FaultType DEF Fail
  <2> QED
    BY <1>11, <1>14, <2>1 DEF Fail, TypeOK, electionVars, informerVars
<1>15. CASE UNCHANGED vars
  BY <1>15 DEF vars, TypeOK, electionVars, informerVars, workVars
<1> QED
  BY <1>1, <1>2, <1>3, <1>4, <1>5, <1>6, <1>7, <1>8, <1>9, <1>10, <1>12, <1>13, <1>14, <1>15
     DEF Next, Work

\* Every variable keeps its type; a status is always of a spec and an incarnation.
THEOREM TypeCorrect == Spec => []TypeOK
  BY TypeInit, TypeNext, PTL DEF Spec

---------------------------------------------------------------------------
(* Versions                                                                 *)

OneVersion == \A o, p \in Live : o.rv = p.rv => o = p

\* The first attempt writes what was computed from the object it carries.
FirstAttempt ==
    \A r \in Replica : job[r] # Idle /\ job[r].attempt = 1 =>
        /\ job[r].pc = "put"
        /\ job[r].status = [of |-> job[r].obj.spec, from |-> job[r].obj.uid]

Versions == TypeOK /\ OneVersion /\ FirstAttempt

LEMMA LiveMembers ==
    /\ object # None => object \in Live
    /\ \A r \in Replica : lister[r] # None => lister[r] \in Live
    /\ \A r \in Replica : \A i \in DOMAIN watch[r] : watch[r][i] # None => watch[r][i] \in Live
    /\ \A r \in Replica : job[r].pc \in Active /\ job[r].obj # None => job[r].obj \in Live
<1>1. \A r \in Replica : lister[r] \in Copies
  BY DEF Copies
<1>2. \A r \in Replica : \A i \in DOMAIN watch[r] : watch[r][i] \in Copies
  BY DEF Copies, ToSet
<1>3. \A r \in Replica : job[r].pc \in Active => job[r] \in Jobs
  BY DEF Jobs
<1> QED
  BY <1>1, <1>2, <1>3 DEF Live

\* What is held after a step: what was, and the object.
Known == Live \cup {None, object'}

LEMMA LiveFrom ==
    ASSUME \A r \in Replica : lister[r]' \in Known,
           \A r \in Replica : \A i \in DOMAIN watch[r]' : watch[r]'[i] \in Known,
           \A r \in Replica : job[r].pc' \in Active => job[r].obj' \in Known
    PROVE  Live' \subseteq Live \cup {object'}
<1>1. Copies' \subseteq Known
  BY DEF Copies, ToSet
<1>2. {j.obj : j \in Jobs'} \subseteq Known
  BY DEF Jobs
<1>3. Live' = ({object'} \cup Copies' \cup {j.obj : j \in Jobs'}) \ {None}
  BY DEF Live
<1> QED
  BY <1>1, <1>2, <1>3 DEF Known

LEMMA KnownBefore ==
    ASSUME TypeOK
    PROVE  \A r \in Replica :
              /\ lister[r] \in Known
              /\ \A i \in DOMAIN watch[r] : watch[r][i] \in Known
              /\ job[r].pc \in Active => job[r].obj \in Known
  BY LiveMembers DEF Known

LEMMA WatchKnown ==
    ASSUME TypeOK, NEW new, Commit(new), new.obj \in Object \cup {None}
    PROVE  \A r \in Replica : \A i \in DOMAIN watch[r]' : watch[r]'[i] \in Known
<1> SUFFICES ASSUME NEW r \in Replica, NEW i \in DOMAIN watch[r]'
             PROVE  watch[r]'[i] \in Known
  OBVIOUS
<1>1. CASE watch[r]' = watch[r]
  BY <1>1, KnownBefore
<1>2. CASE watch[r]' = Append(watch[r], new.obj) /\ object' = new.obj
  <2>1. watch[r] \in Seq(Object \cup {None})
    BY DEF TypeOK
  <2>2. /\ Len(Append(watch[r], new.obj)) = Len(watch[r]) + 1
        /\ \A k \in 1..Len(watch[r]) : Append(watch[r], new.obj)[k] = watch[r][k]
        /\ Append(watch[r], new.obj)[Len(watch[r]) + 1] = new.obj
        /\ DOMAIN Append(watch[r], new.obj) = 1..Len(Append(watch[r], new.obj))
        /\ DOMAIN watch[r] = 1..Len(watch[r]) /\ Len(watch[r]) \in Nat
    BY <2>1, AppendProperties, LenProperties
  <2>3. CASE i = Len(watch[r]) + 1
    BY <1>2, <2>2, <2>3 DEF Known
  <2>4. CASE i \in 1..Len(watch[r])
    BY <1>2, <2>2, <2>4, KnownBefore
  <2> QED
    BY <1>2, <2>2, <2>3, <2>4
<1> QED
  BY <1>1, <1>2 DEF Commit, TypeOK

LEMMA LiveNext ==
    ASSUME TypeOK, [Next]_vars
    PROVE  Live' \subseteq Live \cup {object'}
<1> USE DEF electionVars, informerVars, workVars
<1> DEFINE ListersKnown == \A r \in Replica : lister[r]' \in Known
           WatchesKnown == \A r \in Replica : \A i \in DOMAIN watch[r]' : watch[r]'[i] \in Known
           JobsKnown    == \A r \in Replica : job[r].pc' \in Active => job[r].obj' \in Known
<1>1. UNCHANGED lister => ListersKnown
  BY KnownBefore
<1>2. UNCHANGED watch => WatchesKnown
  BY KnownBefore
<1>3. UNCHANGED job => JobsKnown
  BY KnownBefore
<1>4. ASSUME NEW r \in Replica, job' = [job EXCEPT ![r] = Idle]
      PROVE  JobsKnown
  BY <1>4, KnownBefore DEF Idle, Active, TypeOK
<1>5. CASE User
  <2>1. PICK c \in UserCalls : Commit(Serve(db, Typed(c)).db)
    BY <1>5 DEF User
  <2>2. Serve(db, Typed(c)).db.obj \in Object \cup {None}
    BY ServeUser DEF TypeOK
  <2>3. WatchesKnown
    BY <2>1, <2>2, WatchKnown
  <2> QED
    BY <1>1, <1>3, <1>5, <2>3, LiveFrom DEF User
<1>6. CASE Expire
  BY <1>1, <1>2, <1>3, <1>6, LiveFrom DEF Expire
<1>7. ASSUME NEW r \in Replica, Boot(r)
      PROVE  Live' \subseteq Live \cup {object'}
  <2>1. lister' = [lister EXCEPT ![r] = IF {object} \ {None} = {} THEN None
                                        ELSE CHOOSE o \in {object} \ {None} : TRUE]
    BY <1>7, ServeList DEF Boot
  <2>2. ListersKnown
    BY <1>7, <2>1, KnownBefore DEF Boot, Known, TypeOK
  <2> QED
    BY <1>2, <1>3, <1>7, <2>2, LiveFrom DEF Boot
<1>8. ASSUME NEW r \in Replica, Deliver(r)
      PROVE  Live' \subseteq Live \cup {object'}
  <2>1. /\ watch[r] \in Seq(Object \cup {None}) /\ watch[r] # <<>>
        /\ Len(watch[r]) \in Nat /\ DOMAIN watch[r] = 1..Len(watch[r])
    BY <1>8, LenProperties DEF Deliver, TypeOK
  <2>2. Head(watch[r]) = watch[r][1] /\ 1 \in DOMAIN watch[r]
    BY <2>1
  <2>3. ListersKnown
    BY <1>8, <2>2, KnownBefore DEF Deliver, TypeOK
  <2>4. \A i \in DOMAIN Tail(watch[r]) : Tail(watch[r])[i] \in Known
    <3>1. /\ DOMAIN Tail(watch[r]) = 1..Len(watch[r]) - 1
          /\ \A i \in 1..Len(watch[r]) - 1 : Tail(watch[r])[i] = watch[r][i + 1]
      BY <2>1, HeadTailProperties, LenProperties
    <3>2. \A i \in 1..Len(watch[r]) - 1 : i + 1 \in DOMAIN watch[r]
      BY <2>1
    <3> QED
      BY <3>1, <3>2, KnownBefore
  <2>5. WatchesKnown
    BY <1>8, <2>4, KnownBefore DEF Deliver, TypeOK
  <2> QED
    BY <1>3, <1>8, <2>3, <2>5, LiveFrom DEF Deliver
<1>9. ASSUME NEW r \in Replica, Crash(r)
      PROVE  Live' \subseteq Live \cup {object'}
  <2>1. ListersKnown
    BY <1>9, KnownBefore DEF Crash, InformerFor, Known, TypeOK
  <2>2. WatchesKnown
    BY <1>9, KnownBefore DEF Crash, InformerFor, TypeOK
  <2> QED
    BY <1>4, <1>9, <2>1, <2>2, LiveFrom DEF Crash, NewImpl
<1>10. ASSUME NEW r \in Replica, Acquire(r) \/ Lose(r) \/ Demote(r) \/ Promote(r)
       PROVE  Live' \subseteq Live \cup {object'}
  BY <1>1, <1>2, <1>3, <1>10, LiveFrom DEF Acquire, Lose, Demote, Promote
<1>11. ASSUME NEW r \in Replica, Take(r)
       PROVE  Live' \subseteq Live \cup {object'}
  <2>1. JobsKnown
    BY <1>11, KnownBefore DEF Take, Reconcile, Idle, Active, TypeOK
  <2> QED
    BY <1>1, <1>2, <1>11, <2>1, LiveFrom DEF Take
<1>12. ASSUME NEW r \in Replica, Requeue(r)
       PROVE  JobsKnown
  BY <1>4, <1>12 DEF Requeue
<1>13. ASSUME NEW r \in Replica, Put(r)
       PROVE  Live' \subseteq Live \cup {object'}
  <2>1. WatchesKnown
    BY <1>13, UpdateType, WatchKnown DEF Put
  <2>2. ASSUME job' = [job EXCEPT ![r].pc = "get", ![r].attempt = @ + 1]
        PROVE  JobsKnown
    <3>1. job[r] \in [pc : Active, obj : Object, status : [of : Specs, from : Nat],
                      attempt : 1..Steps]
      BY <1>13, JobKinds DEF Put, TypeOK, Idle
    <3>2. job[r]'.obj = job[r].obj /\ \A q \in Replica \ {r} : job[q]' = job[q]
      BY <2>2, <3>1 DEF TypeOK
    <3>3. job[r].obj \in Known
      BY <3>1, KnownBefore
    <3> QED
      BY <3>2, <3>3, KnownBefore
  <2>3. JobsKnown
    BY <1>4, <1>12, <1>13, <2>2 DEF Put
  <2> QED
    BY <1>1, <1>13, <2>1, <2>3, LiveFrom DEF Put
<1>14. ASSUME NEW r \in Replica, Get(r)
       PROVE  Live' \subseteq Live \cup {object'}
  <2>1. ASSUME job' = [job EXCEPT ![r] = [@ EXCEPT !.pc = "put", !.obj = object]]
        PROVE  JobsKnown
    <3>1. job[r] \in [pc : Active, obj : Object, status : [of : Specs, from : Nat],
                      attempt : 1..Steps]
      BY <1>14, JobKinds DEF Get, TypeOK, Idle
    <3>2. job[r]'.obj = object /\ \A q \in Replica \ {r} : job[q]' = job[q]
      BY <2>1, <3>1 DEF TypeOK
    <3>3. object \in Known
      BY LiveMembers DEF Known
    <3> QED
      BY <3>2, <3>3, KnownBefore
  <2>2. JobsKnown
    BY <1>4, <1>12, <1>14, <2>1 DEF Get, Refetched
  <2> QED
    BY <1>1, <1>2, <1>14, <2>2, LiveFrom DEF Get
<1>15. ASSUME NEW r \in Replica, Fail(r)
       PROVE  Live' \subseteq Live \cup {object'}
  BY <1>1, <1>2, <1>12, <1>15, LiveFrom DEF Fail
<1>16. CASE UNCHANGED vars
  BY <1>1, <1>2, <1>3, <1>16, LiveFrom DEF vars
<1> QED
  BY <1>5, <1>6, <1>7, <1>8, <1>9, <1>10, <1>11, <1>13, <1>14, <1>15, <1>16 DEF Next, Work

\* Only User and Put change the object, to a version nothing carries.
LEMMA PutObject ==
    ASSUME TypeOK, NEW r \in Replica, Put(r), object' # object
    PROVE  /\ object # None /\ job[r].obj.rv = object.rv
           /\ object' = [Updated(r) EXCEPT !.rv = db.rev + 1]
           /\ object' \in Object /\ object'.rv = db.rev + 1
<1> DEFINE answer == Serve(db, Typed(UpdateCall(r)))
<1>1. object' = answer.db.obj /\ job[r].pc = "put"
  BY DEF Put, Commit
<1>2. db.obj = object /\ db.rev \in Nat
  BY FreshVersion
<1> HIDE DEF answer
<1>3. /\ object # None /\ job[r].obj.rv = object.rv
      /\ object' = [Updated(r) EXCEPT !.rv = db.rev + 1]
  BY <1>1, <1>2, ServeUpdate DEF answer
<1>4. object' \in Object \cup {None}
  BY <1>1, UpdateType DEF answer
<1>5. object \in Object
  BY <1>3 DEF TypeOK
<1>6. Updated(r) \in [uid : Nat, rv : Nat, spec : Specs, status : {job[r].status}]
  BY <1>5 DEF Updated, Object
<1>7. object'.rv = db.rev + 1
  BY <1>3, <1>6
<1>8. object' # None
  BY <1>2, <1>7 DEF None
<1> QED
  BY <1>3, <1>4, <1>7, <1>8

LEMMA ObjectNext ==
    ASSUME TypeOK, [Next]_vars
    PROVE  object' \in {object, None} \/ object'.rv = db.rev + 1
<1>1. CASE User
  <2>1. PICK c \in UserCalls : Commit(Serve(db, Typed(c)).db)
    BY <1>1 DEF User
  <2>2. object' = Serve(db, Typed(c)).db.obj
    BY <2>1 DEF Commit
  <2> QED
    BY <2>2, ServeUser
<1>2. ASSUME NEW r \in Replica, Put(r)
      PROVE  object' = object \/ object'.rv = db.rev + 1
  BY <1>2, PutObject
<1>3. ASSUME NEW r \in Replica,
             Boot(r) \/ Deliver(r) \/ Crash(r) \/ Acquire(r) \/ Lose(r) \/ Demote(r)
               \/ Promote(r) \/ Take(r) \/ Get(r) \/ Fail(r)
      PROVE  object' = object
  BY <1>3 DEF Boot, Deliver, Crash, Acquire, Lose, Demote, Promote, Take, Get, Fail
<1>4. CASE Expire \/ UNCHANGED vars
  BY <1>4 DEF Expire, vars
<1> QED
  BY <1>1, <1>2, <1>3, <1>4 DEF Next, Work

LEMMA VersionsInit == Init => Versions
<1> SUFFICES ASSUME Init
             PROVE  Versions
  OBVIOUS
<1>1. TypeOK
  BY TypeInit
<1>2. \A o \in Live : o = object
  BY DEF Init, Live, Copies, Jobs, ToSet, Idle, Active
<1>3. FirstAttempt
  BY DEF Init, FirstAttempt
<1> QED
  BY <1>1, <1>2, <1>3 DEF Versions, OneVersion

LEMMA OneVersionNext ==
    ASSUME Versions, [Next]_vars
    PROVE  OneVersion'
<1>1. TypeOK
  BY DEF Versions
<1>2. Live' \subseteq Live \cup {object'} /\ None \notin Live'
  BY <1>1, LiveNext DEF Live
<1>3. CASE object' \in {object, None}
  <2>1. Live' \subseteq Live
    BY <1>2, <1>3, LiveMembers
  <2> QED
    BY <2>1 DEF Versions, OneVersion
<1>4. CASE object'.rv = db.rev + 1
  <2>1. \A o \in Live : o.rv # object'.rv
    BY <1>1, <1>4, FreshVersion
  <2> QED
    BY <1>2, <2>1 DEF Versions, OneVersion
<1> QED
  BY <1>1, <1>3, <1>4, ObjectNext

LEMMA FirstAttemptNext ==
    ASSUME Versions, [Next]_vars
    PROVE  FirstAttempt'
<1> USE DEF FirstAttempt, electionVars, informerVars, workVars
<1>1. TypeOK /\ FirstAttempt
  BY DEF Versions
<1>2. CASE UNCHANGED job
  BY <1>1, <1>2
<1>3. ASSUME NEW r \in Replica, job' = [job EXCEPT ![r] = Idle]
      PROVE  FirstAttempt'
  BY <1>1, <1>3 DEF TypeOK
<1>4. ASSUME NEW r \in Replica, Take(r)
      PROVE  FirstAttempt'
  BY <1>1, <1>4 DEF Take, Reconcile, TypeOK
<1>5. ASSUME NEW r \in Replica, job[r].pc \in Active
      PROVE  job[r] \in [pc : Active, obj : Object, status : [of : Specs, from : Nat],
                         attempt : 1..Steps]
  BY <1>1, <1>5, JobKinds DEF TypeOK, Idle, Active
<1>6. ASSUME NEW r \in Replica, Put(r)
      PROVE  FirstAttempt'
  <2>1. ASSUME job' = [job EXCEPT ![r].pc = "get", ![r].attempt = @ + 1]
        PROVE  FirstAttempt'
    <3>1. job[r].attempt \in Nat /\ job[r].attempt >= 1
      BY <1>5, <1>6, ReplicaBounds DEF Put, Active
    <3>2. job[r]'.attempt = job[r].attempt + 1 /\ \A q \in Replica \ {r} : job[q]' = job[q]
      BY <1>1, <1>5, <1>6, <2>1 DEF TypeOK, Put, Active
    <3>3. job[r]'.attempt # 1
      BY <3>1, <3>2
    <3> QED
      BY <1>1, <3>2, <3>3
  <2> QED
    BY <1>3, <1>6, <2>1 DEF Put, Requeue
<1>7. ASSUME NEW r \in Replica, Get(r)
      PROVE  FirstAttempt'
  <2>1. ASSUME job' = [job EXCEPT ![r] = [@ EXCEPT !.pc = "put", !.obj = object]]
        PROVE  FirstAttempt'
    <3>1. job[r].pc = "get" /\ job[r].attempt # 1
      <4>1. job[r].pc = "get"
        BY <1>7 DEF Get
      <4>2. job[r] # Idle /\ job[r].pc # "put"
        BY <4>1 DEF Idle
      <4> QED
        BY <1>1, <4>1, <4>2
    <3>2. job[r]'.attempt = job[r].attempt /\ \A q \in Replica \ {r} : job[q]' = job[q]
      BY <1>1, <1>5, <2>1, <3>1 DEF TypeOK, Active
    <3> QED
      BY <1>1, <3>1, <3>2
  <2> QED
    BY <1>3, <1>7, <2>1 DEF Get, Requeue, Refetched
<1>8. ASSUME NEW r \in Replica, Crash(r) \/ Fail(r)
      PROVE  FirstAttempt'
  BY <1>3, <1>8 DEF Crash, NewImpl, Fail, Requeue
<1>9. ASSUME NEW r \in Replica,
             Boot(r) \/ Deliver(r) \/ Acquire(r) \/ Lose(r) \/ Demote(r) \/ Promote(r)
      PROVE  UNCHANGED job
  BY <1>9 DEF Boot, Deliver, Acquire, Lose, Demote, Promote
<1>10. CASE User \/ Expire \/ UNCHANGED vars
  BY <1>2, <1>10 DEF User, Expire, vars
<1> QED
  BY <1>2, <1>4, <1>6, <1>7, <1>8, <1>9, <1>10 DEF Next, Work

LEMMA VersionsNext ==
    ASSUME Versions, [Next]_vars
    PROVE  Versions'
  BY TypeNext, OneVersionNext, FirstAttemptNext DEF Versions

LEMMA VersionsHold == Spec => []Versions
  BY VersionsInit, VersionsNext, PTL DEF Spec

\* What an update replaces is what it was made from.
LEMMA TakenIsCurrent ==
    ASSUME Versions, NEW r \in Replica, job[r].pc = "put", object # None,
           job[r].obj.rv = object.rv
    PROVE  job[r].obj = object /\ object \in Object
<1>1. job[r].obj \in Object
  BY JobKinds DEF Versions, TypeOK, Idle
<1>2. job[r].obj \in Live /\ object \in Live
  BY <1>1, LiveMembers, NoObject DEF Active
<1>3. object \in Object
  BY DEF Versions, TypeOK
<1> QED
  BY <1>2, <1>3 DEF Versions, OneVersion

\* For any number of replicas that lead at once: only a retry writes a status that is
\* not of the spec and the incarnation it replaces (reconciler.go 311-341).
THEOREM OnlyRetriesAreStale == Spec => StaleNeedsConflict
<1>1. ASSUME Versions, [Next]_vars, NEW r \in Replica,
             job[r].pc = "put", object' # object, job[r].pc' = "idle",
             job[r].status = object'.status
      PROVE  \/ job[r].attempt > 1
             \/ object'.status = [of |-> object'.spec, from |-> object'.uid]
  <2>1. job[r] \in [pc : Active, obj : Object, status : [of : Specs, from : Nat],
                    attempt : 1..Steps]
    BY <1>1, JobKinds DEF Versions, TypeOK, Idle
  <2>2. Put(r)
    <3>1. job' # job
      BY <1>1
    <3>2. ~UNCHANGED vars /\ ~User /\ ~Expire
      BY <1>1, <3>1 DEF vars, User, Expire, workVars
    <3>3. PICK q \in Replica : Put(q)
      BY <1>1, <3>2 DEF Next, Work, Boot, Deliver, Crash, Acquire, Lose, Demote, Promote,
                        Take, Get, Fail
    <3>4. q # r => job[r]' = job[r]
      <4>1. \/ job' = [job EXCEPT ![q] = Idle]
            \/ job' = [job EXCEPT ![q].pc = "get", ![q].attempt = @ + 1]
        BY <3>3 DEF Put, Requeue
      <4>2. job \in [Replica -> Job]
        BY <1>1 DEF Versions, TypeOK
      <4>3. ASSUME q # r, job' = [job EXCEPT ![q].pc = "get", ![q].attempt = @ + 1]
            PROVE  job[r]' = job[r]
        BY <4>2, <4>3
      <4> QED
        BY <4>1, <4>2, <4>3
    <3> QED
      BY <1>1, <3>3, <3>4
  <2>3. TypeOK
    BY <1>1 DEF Versions
  <2>4. /\ object # None /\ job[r].obj.rv = object.rv
        /\ object' = [Updated(r) EXCEPT !.rv = db.rev + 1]
    BY <1>1, <2>2, <2>3, PutObject
  <2>5. job[r].obj = object /\ object \in Object
    BY <1>1, <2>4, TakenIsCurrent
  <2>6. object'.spec = object.spec /\ object'.uid = object.uid
    <3>1. Updated(r) \in [uid : {object.uid}, rv : Nat, spec : {object.spec}, status : {job[r].status}]
      BY <2>5 DEF Updated, Object
    <3> QED
      BY <2>4, <3>1
  <2>7. CASE job[r].attempt = 1
    BY <1>1, <2>5, <2>6, <2>7 DEF Versions, FirstAttempt, Idle
  <2>8. CASE job[r].attempt # 1
    BY <2>1, <2>8, ReplicaBounds
  <2> QED
    BY <2>7, <2>8
<1>2. ASSUME Versions, [Next]_vars
      PROVE  [\A r \in Replica :
                (job[r].pc = "put" /\ object' # object /\ job'[r].pc = "idle" /\ job[r].status = object'.status)
                  => \/ job[r].attempt > 1
                     \/ object'.status = [of |-> object'.spec, from |-> object'.uid]]_vars
  BY <1>1, <1>2
<1> QED
  BY <1>2, VersionsHold, PTL DEF Spec, StaleNeedsConflict

\* An update the API server takes leaves what the fake of the unit tests leaves: it
\* carries the other half as it is stored (reconciler.go 313-338, fake_kmesh.go 107-115).
THEOREM FakeAlwaysAgrees == Spec => []FakeAgrees
<1>1. ASSUME Versions, NEW r \in Replica, job[r].pc = "put",
             Serve(db, Typed(UpdateCall(r))).err = "none"
      PROVE  /\ Fake(db, UpdateCall(r)).err = "none"
             /\ [Fake(db, UpdateCall(r)).db.obj EXCEPT !.rv = 0]
                  = [Serve(db, Typed(UpdateCall(r))).db.obj EXCEPT !.rv = 0]
  <2> DEFINE real == Serve(db, Typed(UpdateCall(r)))
             fake == Fake(db, UpdateCall(r))
  <2>1. db = [obj |-> object, rev |-> db.rev] /\ TypeOK
    BY <1>1, FreshVersion DEF Versions
  <2>2. /\ object # None /\ job[r].obj.rv = object.rv
        /\ real.db.obj = IF Updated(r) = object THEN object ELSE [Updated(r) EXCEPT !.rv = db.rev + 1]
    BY <1>1, <2>1, ServeUpdate
  <2>3. job[r].obj = object /\ object \in Object
    BY <1>1, <2>2, TakenIsCurrent
  <2>4. fake.err = "none" /\ fake.db.obj = Updated(r)
    <3>1. PICK c : c = UpdateCall(r)
      OBVIOUS
    <3>2. c.method = "UpdateStatus" /\ c.obj = Updated(r)
      BY <2>3, <3>1 DEF UpdateCall, Call, Updated
    <3>3. db.obj # None
      BY <2>1, <2>2
    <3>4. FakeWrites(db, c) = Answer("none", [db EXCEPT !.obj = c.obj], {c.obj})
      BY <3>2, <3>3 DEF FakeWrites
    <3>5. Fake(db, c) = FakeWrites(db, c)
      BY <3>2 DEF Fake, Reads
    <3>6. [db EXCEPT !.obj = Updated(r)].obj = Updated(r)
      BY <2>1
    <3>7. /\ Answer("none", [db EXCEPT !.obj = c.obj], {c.obj}).err = "none"
          /\ Answer("none", [db EXCEPT !.obj = c.obj], {c.obj}).db = [db EXCEPT !.obj = c.obj]
      BY DEF Answer
    <3> QED
      BY <3>1, <3>2, <3>4, <3>5, <3>6, <3>7
  <2>5. [Updated(r) EXCEPT !.rv = 0] = [real.db.obj EXCEPT !.rv = 0]
    BY <2>2, <2>3 DEF Updated, Object
  <2> QED
    BY <2>4, <2>5
<1>2. Versions => FakeAgrees
  BY <1>1 DEF FakeAgrees
<1> QED
  BY <1>2, VersionsHold, PTL

---------------------------------------------------------------------------
(* Keys                                                                     *)

\* A copy is what the API server has, or an event is on its way; a process that is
\* down has neither a copy nor a job.
InformerFollows(r) ==
    IF phase[r] = "down" THEN watch[r] = <<>> /\ lister[r] = None /\ job[r] = Idle
    ELSE IF watch[r] = <<>> THEN lister[r] = object
    ELSE watch[r][Len(watch[r])] = object

\* A job nothing is queued behind is about the copy, whose status is wrong.
JobIsOfCopy(r) ==
    job[r] # Idle /\ ~queued[r] /\ watch[r] = <<>> =>
        /\ job[r].pc = "put" /\ lister[r] # None /\ job[r].obj = lister[r]
        /\ job[r].status.of = lister[r].spec /\ lister[r].status.of # lister[r].spec

KeyKept(r) ==
    leads[r] /\ lister[r] # None =>
        \/ lister[r].status.of = lister[r].spec
        \/ queued[r] \/ job[r] # Idle \/ promoting[r].list > 0
        \/ watch[r] # <<>>

Follows(r) == InformerFollows(r) /\ JobIsOfCopy(r) /\ KeyKept(r)

Keys == TypeOK /\ \A r \in Replica : Follows(r)

LEMMA KeysInit == Init => Keys
<1> SUFFICES ASSUME Init
             PROVE  Keys
  OBVIOUS
<1>1. \A r \in Replica : Follows(r)
  BY DEF Init, Follows, InformerFollows, JobIsOfCopy, KeyKept
<1> QED
  BY <1>1, TypeInit DEF Keys

\* A replica whose own variables stay, while the object and its watch change.
LEMMA FollowsCommit ==
    ASSUME Keys, NEW r \in Replica, NEW new, Commit(new), new.obj \in Object \cup {None},
           UNCHANGED <<phase, leads, promoting>>, lister[r]' = lister[r],
           queued[r]' = queued[r], job[r]' = job[r]
    PROVE  Follows(r)'
<1>1. watch[r] \in Seq(Object \cup {None}) /\ phase[r] \in {"down", "up"} /\ Follows(r)
  BY DEF Keys, TypeOK
<1>2. CASE watch' = watch /\ object' = object
  BY <1>1, <1>2 DEF Follows, InformerFollows, JobIsOfCopy, KeyKept
<1>3. CASE watch' # watch \/ object' # object
  <2>1. /\ object' = new.obj
        /\ watch[r]' = IF phase[r] = "up" THEN Append(watch[r], new.obj) ELSE watch[r]
    BY <1>3 DEF Commit
  <2>2. CASE phase[r] = "up"
    <3>1. /\ watch[r]' # <<>> /\ Len(watch[r]') = Len(watch[r]) + 1
          /\ watch[r]'[Len(watch[r]) + 1] = object'
      BY <1>1, <2>1, <2>2, AppendProperties
    <3> QED
      BY <1>1, <2>2, <3>1 DEF Follows, InformerFollows, JobIsOfCopy, KeyKept
  <2>3. CASE phase[r] = "down"
    BY <1>1, <2>1, <2>3 DEF Follows, InformerFollows, JobIsOfCopy, KeyKept
  <2> QED
    BY <1>1, <2>2, <2>3
<1> QED
  BY <1>2, <1>3

\* A replica on which nothing happens.
LEMMA FollowsStays ==
    ASSUME Keys, NEW r \in Replica, object' = object, watch[r]' = watch[r],
           phase[r]' = phase[r], leads[r]' = leads[r], promoting[r]' = promoting[r],
           lister[r]' = lister[r], queued[r]' = queued[r], job[r]' = job[r]
    PROVE  Follows(r)'
  BY DEF Keys, Follows, InformerFollows, JobIsOfCopy, KeyKept

\* A key that is queued is not forgotten.
LEMMA FollowsRequeue ==
    ASSUME Keys, NEW r \in Replica, Requeue(r), phase[r]' = "up", phase[r] = "up",
           UNCHANGED <<object, watch, leads, promoting, lister>>
    PROVE  Follows(r)'
<1>1. queued[r]' /\ job[r]' = Idle
  BY DEF Requeue, Keys, TypeOK
<1>2. InformerFollows(r)
  BY DEF Keys, Follows
<1> QED
  BY <1>1, <1>2 DEF Follows, InformerFollows, JobIsOfCopy, KeyKept

\* A job nothing is queued behind meets no conflict, and what it writes is an event.
LEMMA FollowsPut ==
    ASSUME Keys, NEW r \in Replica, Put(r)
    PROVE  Follows(r)'
<1> DEFINE answer == Serve(db, Typed(UpdateCall(r)))
<1>1. TypeOK /\ Follows(r) /\ job[r].pc = "put" /\ job[r] # Idle
  BY DEF Keys, Put, Idle
<1>2. phase[r] = "up"
  BY <1>1 DEF Follows, InformerFollows, TypeOK
<1>3. Commit(answer.db) /\ answer.db.obj \in Object \cup {None}
  BY <1>1, UpdateType DEF Put
<1>4. /\ UNCHANGED <<phase, leads, promoting>> /\ lister[r]' = lister[r]
      /\ watch[r] \in Seq(Object \cup {None})
  BY <1>1 DEF Put, electionVars, TypeOK
<1>5. \/ watch' = watch /\ object' = object
      \/ /\ watch[r]' # <<>> /\ watch[r]'[Len(watch[r]')] = object'
  <2>1. CASE answer.db.obj = object
    BY <1>3, <2>1 DEF Commit
  <2>2. CASE answer.db.obj # object
    <3>1. watch[r]' = Append(watch[r], answer.db.obj) /\ object' = answer.db.obj
      BY <1>2, <1>3, <2>2 DEF Commit
    <3> HIDE DEF answer
    <3> QED
      BY <1>3, <1>4, <3>1, AppendProperties
  <2> QED
    BY <2>1, <2>2
<1>6. InformerFollows(r)'
  BY <1>1, <1>2, <1>4, <1>5 DEF Follows, InformerFollows
<1>7. ASSUME ~queued[r], watch[r] = <<>>
      PROVE  answer.err # "Conflict" /\ (answer.err = "none" => watch[r]' # <<>>)
  <2>1. /\ job[r].obj = object /\ object # None /\ object \in Object
        /\ job[r].status.of # object.status.of
    BY <1>1, <1>2, <1>7 DEF Follows, InformerFollows, JobIsOfCopy, TypeOK
  <2>2. answer.err # "Conflict"
    BY <1>1, <2>1, ServeUpdate
  <2>3. ASSUME answer.err = "none"
        PROVE  watch[r]' # <<>>
    <3>1. Updated(r).status = job[r].status
      BY <2>1 DEF Updated, Object
    <3>2. answer.db.obj = [Updated(r) EXCEPT !.rv = db.rev + 1]
      BY <1>1, <2>1, <2>3, <3>1, ServeUpdate
    <3>3. answer.db.obj.status = job[r].status
      <4>1. Updated(r) \in [uid : Nat, rv : Nat, spec : Specs, status : {job[r].status}]
        BY <2>1 DEF Updated, Object
      <4> HIDE DEF answer
      <4> QED
        BY <3>2, <4>1
    <3>4. object' # object
      BY <1>3, <2>1, <3>3 DEF Commit
    <3> QED
      BY <1>5, <3>4
  <2> QED
    BY <2>2, <2>3
<1>8. job[r]' = Idle \/ queued[r] \/ watch[r] # <<>>
  <2>1. Requeue(r) \/ job' = [job EXCEPT ![r] = Idle] \/ answer.err = "Conflict"
    BY DEF Put
  <2> QED
    BY <1>1, <1>7, <2>1 DEF Requeue, TypeOK
<1>9. answer.err \in {"none", "Conflict"} \/ queued[r]'
  BY <1>1 DEF Put, Requeue, TypeOK
<1>10. queued[r] => queued[r]'
  BY <1>1 DEF Put, Requeue, TypeOK
<1>11. watch[r] # <<>> => watch[r]' # <<>>
  BY <1>5
<1>12. queued[r]' \/ watch[r]' # <<>>
  BY <1>7, <1>9, <1>10, <1>11
<1> QED
  BY <1>6, <1>12 DEF Follows, JobIsOfCopy, KeyKept

LEMMA FollowsGet ==
    ASSUME Keys, NEW r \in Replica, Get(r)
    PROVE  Follows(r)'
<1>0. job[r].pc = "get"
  BY DEF Get
<1>1. TypeOK /\ Follows(r) /\ job[r].pc # "put" /\ job[r] # Idle
  BY <1>0 DEF Keys, Idle
<1>2. queued[r] \/ watch[r] # <<>>
  BY <1>1 DEF Follows, JobIsOfCopy
<1>3. queued[r] => queued[r]'
  BY <1>1 DEF Get, Requeue, TypeOK
<1>4. UNCHANGED <<object, phase, leads, promoting, lister, watch>>
  BY DEF Get, electionVars, informerVars
<1>5. phase[r] = "up"
  BY <1>1 DEF Follows, InformerFollows, TypeOK
<1> QED
  BY <1>1, <1>2, <1>3, <1>4, <1>5 DEF Follows, InformerFollows, JobIsOfCopy, KeyKept

LEMMA FollowsTake ==
    ASSUME Keys, NEW r \in Replica, Take(r)
    PROVE  Follows(r)'
<1>1. TypeOK /\ Follows(r) /\ phase[r] = "up" /\ job[r] = Idle
  BY DEF Keys, Take
<1>2. /\ UNCHANGED <<object, phase, leads, promoting, lister, watch>>
      /\ job[r]' = IF leads[r] THEN Reconcile(lister[r]) ELSE Idle
  BY <1>1 DEF Take, electionVars, informerVars, TypeOK
<1>3. InformerFollows(r)'
  BY <1>1, <1>2 DEF Follows, InformerFollows
<1>4. Reconcile(lister[r]) # Idle =>
        /\ Reconcile(lister[r]).pc = "put" /\ lister[r] # None
        /\ Reconcile(lister[r]).obj = lister[r]
        /\ Reconcile(lister[r]).status.of = lister[r].spec
        /\ lister[r].status.of # lister[r].spec
  BY DEF Reconcile
<1>5. Reconcile(lister[r]) = Idle => lister[r] = None \/ lister[r].status.of = lister[r].spec
  BY DEF Reconcile, Idle
<1>6. JobIsOfCopy(r)'
  BY <1>2, <1>4 DEF JobIsOfCopy
<1>7. KeyKept(r)'
  BY <1>2, <1>5 DEF KeyKept
<1> QED
  BY <1>3, <1>6, <1>7 DEF Follows

LEMMA FollowsBoot ==
    ASSUME Keys, NEW r \in Replica, Boot(r)
    PROVE  Follows(r)'
<1>1. TypeOK /\ Follows(r) /\ phase[r] = "down"
  BY DEF Keys, Boot
<1>2. watch[r] = <<>> /\ job[r] = Idle
  BY <1>1 DEF Follows, InformerFollows
<1>3. /\ lister' = [lister EXCEPT ![r] = IF {object} \ {None} = {} THEN None
                                        ELSE CHOOSE o \in {object} \ {None} : TRUE]
      /\ queued' = [queued EXCEPT ![r] = {object} \ {None} # {}]
  BY <1>1, ServeList DEF Boot
<1>4. /\ UNCHANGED <<object, leads, promoting, watch, job>>
      /\ phase[r]' = "up"
  BY <1>1 DEF Boot, electionVars, TypeOK
<1>5. lister[r]' = object
  BY <1>1, <1>3 DEF TypeOK
<1>6. queued[r]' = (object # None)
  BY <1>1, <1>3 DEF TypeOK
<1> QED
  BY <1>2, <1>4, <1>5, <1>6 DEF Follows, InformerFollows, JobIsOfCopy, KeyKept

LEMMA FollowsDeliver ==
    ASSUME Keys, NEW r \in Replica, Deliver(r)
    PROVE  Follows(r)'
<1>1. /\ TypeOK /\ Follows(r) /\ watch[r] # <<>>
      /\ watch[r] \in Seq(Object \cup {None})
  BY DEF Keys, Deliver, TypeOK
<1>2. phase[r] = "up"
  BY <1>1 DEF Follows, InformerFollows, TypeOK
<1>3. /\ UNCHANGED <<object, phase, leads, promoting, job>>
      /\ lister[r]' = Head(watch[r]) /\ watch[r]' = Tail(watch[r]) /\ queued[r]' = TRUE
  BY <1>1 DEF Deliver, electionVars, TypeOK
<1>4. /\ Len(watch[r]) \in Nat /\ Len(watch[r]) > 0
      /\ Len(Tail(watch[r])) = Len(watch[r]) - 1
      /\ \A i \in 1..Len(watch[r]) - 1 : Tail(watch[r])[i] = watch[r][i + 1]
      /\ Head(watch[r]) = watch[r][1]
      /\ Tail(watch[r]) = <<>> <=> Len(watch[r]) = 1
  <2>1. Tail(watch[r]) \in Seq(Object \cup {None}) /\ Len(Tail(watch[r])) = Len(watch[r]) - 1
    BY <1>1, HeadTailProperties
  <2>2. \A s \in Seq(Object \cup {None}) : s = <<>> <=> Len(s) = 0
    BY EmptySeq
  <2>3. Len(watch[r]) \in Nat
    BY <1>1, LenProperties
  <2>4. Tail(watch[r]) = <<>> <=> Len(watch[r]) = 1
    <3>1. Tail(watch[r]) = <<>> <=> Len(Tail(watch[r])) = 0
      BY <2>1, <2>2
    <3> QED
      BY <2>1, <2>3, <3>1
  <2> QED
    BY <1>1, <2>1, <2>2, <2>3, <2>4, HeadTailProperties
<1>5. watch[r][Len(watch[r])] = object
  BY <1>1, <1>2 DEF Follows, InformerFollows
<1>6. InformerFollows(r)'
  <2>1. CASE Len(watch[r]) = 1
    <3>1. Tail(watch[r]) = <<>>
      BY <1>4, <2>1
    <3>2. lister[r]' = object
      BY <1>3, <1>4, <1>5, <2>1
    <3> QED
      BY <1>2, <1>3, <3>1, <3>2 DEF InformerFollows
  <2>2. CASE Len(watch[r]) # 1
    <3>1. Len(watch[r]) - 1 \in 1..Len(watch[r]) - 1
      BY <1>4, <2>2
    <3>2. Tail(watch[r])[Len(watch[r]) - 1] = watch[r][Len(watch[r])]
      BY <1>4, <3>1
    <3>3. Tail(watch[r]) # <<>>
      BY <1>4, <2>2, Zenon
    <3>4. watch[r]'[Len(watch[r]')] = object
      BY <1>3, <1>4, <1>5, <3>2
    <3> QED
      BY <1>2, <1>3, <3>3, <3>4 DEF InformerFollows
  <2> QED
    BY <1>4, <2>1, <2>2
<1> QED
  BY <1>3, <1>6 DEF Follows, JobIsOfCopy, KeyKept

LEMMA KeysNext ==
    ASSUME Keys, [Next]_vars
    PROVE  Keys'
<1> USE DEF electionVars, informerVars, workVars
<1>1. TypeOK /\ TypeOK'
  BY TypeNext DEF Keys
<1> SUFFICES ASSUME NEW q \in Replica
             PROVE  Follows(q)'
  BY <1>1 DEF Keys
<1>2. CASE User
  <2>1. PICK c \in UserCalls : Commit(Serve(db, Typed(c)).db)
    BY <1>2 DEF User
  <2>2. Serve(db, Typed(c)).db.obj \in Object \cup {None}
    BY <1>1, ServeUser DEF TypeOK
  <2>3. UNCHANGED <<phase, leads, promoting, lister, queued, job>>
    BY <1>2 DEF User
  <2> QED
    BY <2>1, <2>2, <2>3, FollowsCommit
<1>3. CASE Expire \/ UNCHANGED vars
  BY <1>3, FollowsStays DEF Expire, vars
<1>4. ASSUME NEW r \in Replica, Boot(r) \/ Deliver(r) \/ Take(r) \/ Get(r)
      PROVE  Follows(q)'
  <2>1. CASE q = r
    BY <1>4, <2>1, FollowsBoot, FollowsDeliver, FollowsTake, FollowsGet
  <2>2. CASE q # r
    <3>1. /\ phase[q]' = phase[q] /\ lister[q]' = lister[q] /\ watch[q]' = watch[q]
          /\ queued[q]' = queued[q] /\ UNCHANGED <<object, leads, promoting>>
      BY <1>1, <1>4, <2>2 DEF Boot, Deliver, Take, Get, Requeue, TypeOK
    <3>2. job[q]' = job[q]
      BY <1>1, <1>4, <2>2 DEF Boot, Deliver, Take, Get, Requeue, TypeOK
    <3> QED
      BY <3>1, <3>2, FollowsStays
  <2> QED
    BY <2>1, <2>2
<1>5. ASSUME NEW r \in Replica, Put(r)
      PROVE  Follows(q)'
  <2>1. CASE q = r
    BY <1>5, <2>1, FollowsPut
  <2>2. CASE q # r
    <3>1. /\ Commit(Serve(db, Typed(UpdateCall(r))).db)
          /\ Serve(db, Typed(UpdateCall(r))).db.obj \in Object \cup {None}
      BY <1>1, <1>5, UpdateType DEF Put
    <3>2. /\ UNCHANGED <<phase, leads, promoting>>
          /\ lister[q]' = lister[q] /\ queued[q]' = queued[q]
      BY <1>1, <1>5, <2>2 DEF Put, Requeue, TypeOK
    <3>3. job[q]' = job[q]
      <4>1. \/ job' = [job EXCEPT ![r] = Idle]
            \/ job' = [job EXCEPT ![r].pc = "get", ![r].attempt = @ + 1]
        BY <1>5 DEF Put, Requeue
      <4>2. job \in [Replica -> Job]
        BY <1>1 DEF TypeOK
      <4>3. ASSUME job' = [job EXCEPT ![r].pc = "get", ![r].attempt = @ + 1]
            PROVE  job[q]' = job[q]
        BY <2>2, <4>2, <4>3
      <4> QED
        BY <2>2, <4>1, <4>2, <4>3
    <3> QED
      BY <3>1, <3>2, <3>3, FollowsCommit
  <2> QED
    BY <2>1, <2>2
<1>6. ASSUME NEW r \in Replica, Fail(r)
      PROVE  Follows(q)'
  <2>1. CASE q = r
    <3>1. job[r] # Idle
      BY <1>6 DEF Fail, Idle
    <3>2. phase[r] = "up"
      BY <1>1, <3>1 DEF Keys, Follows, InformerFollows, TypeOK
    <3> QED
      BY <1>6, <2>1, <3>2, FollowsRequeue DEF Fail
  <2>2. CASE q # r
    BY <1>1, <1>6, <2>2, FollowsStays DEF Fail, Requeue, TypeOK
  <2> QED
    BY <2>1, <2>2
<1>7. ASSUME NEW r \in Replica, Crash(r)
      PROVE  Follows(q)'
  <2>1. CASE q = r
    <3>1. /\ phase[r]' = "down" /\ lister[r]' = None /\ watch[r]' = <<>>
          /\ job[r]' = Idle /\ leads[r]' = FALSE
      BY <1>1, <1>7 DEF Crash, NewImpl, InformerFor, TypeOK
    <3> QED
      BY <2>1, <3>1 DEF Follows, InformerFollows, JobIsOfCopy, KeyKept
  <2>2. CASE q # r
    BY <1>1, <1>7, <2>2, FollowsStays DEF Crash, NewImpl, InformerFor, TypeOK
  <2> QED
    BY <2>1, <2>2
<1>8. ASSUME NEW r \in Replica, Acquire(r) \/ Lose(r) \/ Demote(r)
      PROVE  Follows(q)'
  <2>1. /\ UNCHANGED <<object, phase, lister, watch, queued, job>>
        /\ leads[q]' => leads[q]
    BY <1>1, <1>8 DEF Acquire, Lose, Demote, TypeOK
  <2>2. promoting[q]'.list = promoting[q].list
    <3>1. promoting \in [Replica -> [add : Nat, list : Nat]]
      BY <1>1 DEF TypeOK
    <3>2. UNCHANGED promoting \/ promoting' = [promoting EXCEPT ![r].add = @ + 1]
      BY <1>8 DEF Acquire, Lose, Demote
    <3> QED
      BY <3>1, <3>2
  <2> QED
    BY <2>1, <2>2 DEF Keys, Follows, InformerFollows, JobIsOfCopy, KeyKept
<1>9. ASSUME NEW r \in Replica, Promote(r)
      PROVE  Follows(q)'
  <2>1. UNCHANGED <<object, phase, lister, watch, job>>
    BY <1>9 DEF Promote
  <2>2. Follows(q) /\ queued[q] \in BOOLEAN
    BY <1>1 DEF Keys, TypeOK
  <2>3. queued[q] => queued[q]'
    BY <1>1, <1>9 DEF Promote, PromoteFunc, TypeOK
  <2>4. CASE q # r
    <3>1. queued[q]' = queued[q] /\ leads[q]' = leads[q] /\ promoting[q]' = promoting[q]
      BY <1>1, <1>9, <2>4 DEF Promote, PromoteFunc, TypeOK
    <3> QED
      BY <2>1, <3>1, FollowsStays
  <2>5. CASE q = r /\ promoting[r]'.list > 0
    BY <2>1, <2>2, <2>3, <2>5 DEF Follows, InformerFollows, JobIsOfCopy, KeyKept
  <2>6. CASE q = r /\ ~(promoting[r]'.list > 0)
    <3>1. promoting[r] \in [add : Nat, list : Nat]
      BY <1>1 DEF TypeOK
    <3>2. promoting' # [promoting EXCEPT ![r] = [add |-> promoting[r].add - 1, list |-> promoting[r].list + 1]]
      BY <1>1, <2>6, <3>1 DEF TypeOK
    <3>3. PromoteFunc(r)
      BY <1>9, <3>2 DEF Promote
    <3>4. queued[r]' \/ lister[r]' = None
      BY <1>1, <2>1, <3>3 DEF PromoteFunc, TypeOK
    <3> QED
      BY <2>1, <2>2, <2>3, <2>6, <3>4 DEF Follows, InformerFollows, JobIsOfCopy, KeyKept
  <2> QED
    BY <2>4, <2>5, <2>6
<1> QED
  BY <1>2, <1>3, <1>4, <1>5, <1>6, <1>7, <1>8, <1>9 DEF Next, Work

\* Whatever replicas lead, crash or are promoted late, one that leads and has a copy
\* with a wrong status has something on its way to its workers (reconciler.go
\* 176-183, controller.go 70-88, leader.go).
THEOREM NoKeyIsForgotten == Spec => []NoKeyForgotten
<1>1. Spec => []Keys
  BY KeysInit, KeysNext, PTL DEF Spec
<1>2. Keys => NoKeyForgotten
  BY DEF Keys, Follows, KeyKept, NoKeyForgotten
<1> QED
  BY <1>1, <1>2, PTL
=============================================================================
