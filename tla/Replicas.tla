------------------------------ MODULE Replicas ------------------------------
(***************************************************************************)
(* The replicas of the controller, and one key of one of its reconcilers.  *)
(*                                                                         *)
(* Every replica watches the object and queues its key; only the leader    *)
(* reconciles it, and a standby forgets the keys it takes.  The lease of   *)
(* the election is given up, or expires, before the replica that loses it  *)
(* is demoted, and the promotion runs in a goroutine of its own: for a     *)
(* while both reconcile, or none.                                          *)
(*                                                                         *)
(* Abstractions.  One bucket (the default) and one key, so at most one job *)
(* a replica.  What the reconciler does is to bring the status in line     *)
(* with the spec; from, the incarnation of the object a status was made    *)
(* for, is a ghost.  The resync of the informers is left out: nothing here *)
(* depends on it.                                                          *)
(***************************************************************************)
EXTENDS Clients, Sequences, FiniteSets, SequencesExt

CONSTANTS
    Replica, Nobody,
    First, FirstSpec, \* the leader and the spec at first
    Specs,            \* the specs users write
    Steps,            \* attempts at an update (retry.DefaultRetry.Steps)
    MaxChanges,       \* bound on the writes of users
    MaxLag,           \* bound on the versions a watch has yet to deliver
    MaxFaults         \* bound on the leases lost, the crashes and the failed calls

ASSUME ReplicaBounds ==
    /\ IsFiniteSet(Replica)
    /\ Steps \in Nat \ {0} /\ MaxLag \in Nat \ {0}
    /\ MaxChanges \in Nat /\ MaxFaults \in Nat
    /\ First \in Replica /\ Nobody \notin Replica /\ FirstSpec \in Specs \ Malformed
    /\ Malformed \subseteq Specs /\ NoStatus.of \notin Specs

VARIABLES
    object,     \* the object in the API server
    lease,      \* the holder of the lease
    phase,      \* down, or up: its informers have synced
    election,   \* what the elector of the replica does
    promoting,  \* its promotions yet to run, and those yet to list the keys
    leads,      \* LeaderAwareFuncs has the bucket
    lister,     \* the informer's copy
    watch,      \* versions the informer has yet to deliver
    queued, job,
    changes, faults

electionVars == <<lease, election, promoting, leads>>
informerVars == <<lister, watch>>
workVars     == <<queued, job>>
vars == <<object, phase, electionVars, informerVars, workVars, changes, faults>>

Idle == [pc |-> "idle"]

Object == [uid : Nat, rv : Nat, spec : Specs, status : {NoStatus} \cup [of : Specs, from : Nat]]

Job == {Idle}
         \cup [pc : {"put", "get"}, obj : Object, status : [of : Specs, from : Nat],
               attempt : 1..Steps]

TypeOK ==
    /\ object \in Object \cup {None}
    /\ lease \in Replica \cup {Nobody}
    /\ phase \in [Replica -> {"down", "up"}]
    /\ election \in [Replica -> {"candidate", "leader", "stopped"}]
    /\ promoting \in [Replica -> [add : Nat, list : Nat]]
    /\ leads \in [Replica -> BOOLEAN]
    /\ lister \in [Replica -> Object \cup {None}]
    /\ watch \in [Replica -> Seq(Object \cup {None})]
    /\ queued \in [Replica -> BOOLEAN]
    /\ job \in [Replica -> Job]
    /\ changes \in 0..MaxChanges /\ faults \in 0..MaxFaults

\* One replica leads, and every one has just seen the new object.
Init ==
    /\ object = [uid |-> 1, rv |-> 1, spec |-> FirstSpec, status |-> NoStatus]
    /\ phase = [r \in Replica |-> "up"]
    /\ lease = First
    /\ election = [r \in Replica |-> IF r = lease THEN "leader" ELSE "candidate"]
    /\ leads = [r \in Replica |-> r = lease]
    /\ promoting = [r \in Replica |-> [add |-> 0, list |-> 0]]
    /\ lister = [r \in Replica |-> object] /\ watch = [r \in Replica |-> <<>>]
    /\ queued = [r \in Replica |-> TRUE] /\ job = [r \in Replica |-> Idle]
    /\ changes = 0 /\ faults = 0

Fault == faults < MaxFaults /\ faults' = faults + 1

---------------------------------------------------------------------------
(* The API server                                                           *)

\* Versions and uids are compared for equality only: the least number nothing
\* carries is the next.
db == LET jobs == {job[r] : r \in {q \in Replica : job[q].pc \in {"put", "get"}}}
          copies == UNION {{lister[r]} \cup ToSet(watch[r]) : r \in Replica}
          objs == ({object} \cup copies \cup {j.obj : j \in jobs}) \ {None}
          used == (UNION {{o.rv, o.uid, o.status.from} : o \in objs})
                    \cup {j.status.from : j \in jobs}
      IN  [obj |-> object,
           rev |-> CHOOSE n \in 0..Cardinality(used) :
                      n + 1 \notin used /\ \A m \in 1..n : m \in used]

\* A change of the object is an event of every watch.
Commit(new) ==
    /\ object' = new.obj
    /\ IF new.obj = object THEN UNCHANGED watch
       ELSE /\ \A r \in Replica : Len(watch[r]) < MaxLag
            /\ watch' = [r \in Replica |-> IF phase[r] = "up" THEN Append(watch[r], new.obj)
                                           ELSE watch[r]]

UserCalls ==
    {Call("Create", [rv |-> 0, spec |-> s], "") : s \in Specs}
      \cup (IF object = None THEN {}
            ELSE {Call("Update", [object EXCEPT !.spec = s], "") : s \in Specs}
                   \cup {Call("Delete", None, "")})

User ==
    /\ changes < MaxChanges
    /\ LET d == db
       IN  \E c \in UserCalls :
              LET answer == Serve(d, Typed(c))
              IN  answer.db # d /\ Commit(answer.db)
    /\ changes' = changes + 1
    /\ UNCHANGED <<phase, electionVars, lister, workVars, faults>>

---------------------------------------------------------------------------
(* The process and its informer                                             *)

\* main: NewImpl makes the queue and the reconciler, which leads nothing yet.
NewImpl(r) ==
    /\ leads' = [leads EXCEPT ![r] = FALSE]
    /\ queued' = [queued EXCEPT ![r] = FALSE]
    /\ job' = [job EXCEPT ![r] = Idle]

\* The factory makes one informer of a type, and injection requests it.
InformerFor(r) ==
    /\ lister' = [lister EXCEPT ![r] = None]
    /\ watch' = [watch EXCEPT ![r] = <<>>]

\* The informer lists, then watches from there; the electors and the workers
\* start when it has.  Every event queues the key (HandleAll(impl.Enqueue)).
Boot(r) ==
    /\ phase[r] = "down"
    /\ phase' = [phase EXCEPT ![r] = "up"]
    /\ LET got == Serve(db, Typed(Call("List", None, ""))).got
       IN  /\ lister' = [lister EXCEPT ![r] = IF got = {} THEN None ELSE CHOOSE o \in got : TRUE]
           /\ queued' = [queued EXCEPT ![r] = got # {}]
    /\ UNCHANGED <<object, electionVars, watch, job, changes, faults>>

Deliver(r) ==
    /\ watch[r] # <<>>
    /\ lister' = [lister EXCEPT ![r] = Head(watch[r])]
    /\ watch' = [watch EXCEPT ![r] = Tail(@)]
    /\ queued' = [queued EXCEPT ![r] = TRUE]
    /\ UNCHANGED <<object, phase, electionVars, job, changes, faults>>

\* A crash takes all but the lease with it.
Crash(r) ==
    /\ phase[r] # "down" /\ Fault
    /\ phase' = [phase EXCEPT ![r] = "down"]
    /\ election' = [election EXCEPT ![r] = "candidate"]
    /\ promoting' = [promoting EXCEPT ![r] = [add |-> 0, list |-> 0]]
    /\ NewImpl(r) /\ InformerFor(r)
    /\ UNCHANGED <<object, lease, changes>>

---------------------------------------------------------------------------
(* The election                                                             *)

\* OnStartedLeading is called in a goroutine.
Acquire(r) ==
    /\ phase[r] = "up" /\ election[r] = "candidate" /\ lease = Nobody
    /\ lease' = r
    /\ election' = [election EXCEPT ![r] = "leader"]
    /\ promoting' = [promoting EXCEPT ![r].add = @ + 1]
    /\ UNCHANGED <<object, phase, leads, informerVars, workVars, changes, faults>>

\* The renewal fails.  Then the lease is released, or not: Expire is both.
Lose(r) ==
    /\ election[r] = "leader" /\ Fault
    /\ election' = [election EXCEPT ![r] = "stopped"]
    /\ UNCHANGED <<object, phase, lease, promoting, leads, informerVars, workVars, changes>>

\* A lease nobody renews is released or expires.  A process that has started again is another.
Expire ==
    /\ lease # Nobody /\ election[lease] # "leader"
    /\ lease' = Nobody
    /\ UNCHANGED <<object, phase, election, promoting, leads, informerVars, workVars,
                   changes, faults>>

\* OnStoppedLeading; the elector starts over.
Demote(r) ==
    /\ election[r] = "stopped"
    /\ election' = [election EXCEPT ![r] = "candidate"]
    /\ leads' = [leads EXCEPT ![r] = FALSE]
    /\ UNCHANGED <<object, phase, lease, promoting, informerVars, workVars, changes, faults>>

\* Mutant: a replica that is promoted waits for events.
PromoteQuietly(r) == UNCHANGED queued

PromoteFunc(r) == queued' = [queued EXCEPT ![r] = @ \/ lister[r] # None]

\* Mutant: the keys are queued before the bucket is there.
PromoteLate(r) ==
    /\ \/ /\ promoting[r].add > 0
          /\ promoting' = [promoting EXCEPT ![r] = [add |-> @.add - 1, list |-> @.list + 1]]
          /\ PromoteFunc(r)
          /\ UNCHANGED leads
       \/ /\ promoting[r].list > 0
          /\ promoting' = [promoting EXCEPT ![r].list = @ - 1]
          /\ leads' = [leads EXCEPT ![r] = TRUE]
          /\ UNCHANGED queued
    /\ UNCHANGED <<object, phase, lease, election, informerVars, job, changes, faults>>

\* LeaderAwareFuncs.Promote adds the bucket, then PromoteFunc queues the keys
\* of the lister.
Promote(r) ==
    /\ \/ /\ promoting[r].add > 0
          /\ promoting' = [promoting EXCEPT ![r] = [add |-> @.add - 1, list |-> @.list + 1]]
          /\ leads' = [leads EXCEPT ![r] = TRUE]
          /\ UNCHANGED queued
       \/ /\ promoting[r].list > 0
          /\ promoting' = [promoting EXCEPT ![r].list = @ - 1]
          /\ PromoteFunc(r)
          /\ UNCHANGED leads
    /\ UNCHANGED <<object, phase, lease, election, informerVars, job, changes, faults>>

---------------------------------------------------------------------------
(* The reconciler                                                           *)

Same(s, t) == s.of = t.of

\* An object that is gone, or whose status is right, is left alone.
Reconcile(obj) ==
    IF obj = None \/ obj.status.of = obj.spec THEN Idle
    ELSE [pc |-> "put", obj |-> obj, status |-> [of |-> obj.spec, from |-> obj.uid],
          attempt |-> 1]

\* A replica that does not lead when the key is taken skips it for good.
Take(r) ==
    /\ phase[r] = "up" /\ queued[r] /\ job[r] = Idle
    /\ queued' = [queued EXCEPT ![r] = FALSE]
    /\ job' = [job EXCEPT ![r] = IF leads[r] THEN Reconcile(lister[r]) ELSE Idle]
    /\ UNCHANGED <<object, phase, electionVars, informerVars, changes, faults>>

UpdateCall(r) == Call("UpdateStatus", [job[r].obj EXCEPT !.status = job[r].status], "")

Requeue(r) ==
    /\ job' = [job EXCEPT ![r] = Idle]
    /\ queued' = [queued EXCEPT ![r] = TRUE]

\* Mutant: one attempt too many.
RetriesOnceMore(r) == job[r].attempt <= Steps

Retries(r) == job[r].attempt < Steps

\* A conflict is retried on the spot; any other error queues the key again.
Put(r) ==
    LET answer == Serve(db, Typed(UpdateCall(r)))
    IN  /\ job[r].pc = "put"
        /\ Commit(answer.db)
        /\ \/ /\ answer.err = "none"
              /\ job' = [job EXCEPT ![r] = Idle]
              /\ UNCHANGED <<queued, faults>>
           \/ /\ answer.err = "Conflict" /\ Retries(r)
              /\ job' = [job EXCEPT ![r].pc = "get", ![r].attempt = @ + 1]
              /\ UNCHANGED <<queued, faults>>
           \/ /\ answer.err \in {"NotFound", "Conflict"}
              /\ answer.err = "Conflict" => ~Retries(r)
              /\ Requeue(r) /\ UNCHANGED faults
           \/ /\ answer.err = "none" /\ Fault          \* the answer is lost
              /\ Requeue(r)
        /\ UNCHANGED <<phase, electionVars, lister, changes>>

\* Mutant: the retry takes over the version alone.
Renumbered(r) == [job[r].obj EXCEPT !.rv = object.rv]

\* The retry writes the status it has over a fresh copy, whosever that is.
Refetched(r) == object

Get(r) ==
    LET answer == Serve(db, Typed(Call("Get", None, "")))
    IN  /\ job[r].pc = "get"
        /\ \/ /\ answer.err = "NotFound"
              /\ Requeue(r)
           \/ /\ answer.err = "none"
              /\ job' = [job EXCEPT ![r] = IF Same(Refetched(r).status, @.status) THEN Idle
                                           ELSE [@ EXCEPT !.pc = "put", !.obj = Refetched(r)]]
              /\ UNCHANGED queued
        /\ UNCHANGED <<object, phase, electionVars, informerVars, changes, faults>>

\* A call to the API server is lost.
Fail(r) ==
    /\ job[r].pc \in {"put", "get"} /\ Fault
    /\ Requeue(r)
    /\ UNCHANGED <<object, phase, electionVars, informerVars, changes>>

---------------------------------------------------------------------------

Work(r) == Take(r) \/ Put(r) \/ Get(r) \/ Fail(r)

Next ==
    \/ User \/ Expire
    \/ \E r \in Replica :
          \/ Boot(r) \/ Deliver(r) \/ Crash(r)
          \/ Acquire(r) \/ Lose(r) \/ Demote(r) \/ Promote(r)
          \/ Work(r)

Spec == Init /\ [][Next]_vars

\* The deployment restarts its pods, the watches deliver, the leases expire,
\* and every goroutine goes on.
Fairness ==
    /\ WF_vars(Expire) /\ WF_vars(\E r \in Replica : Acquire(r))
    /\ \A r \in Replica :
          /\ WF_vars(Boot(r) \/ Demote(r)) /\ WF_vars(Deliver(r)) /\ WF_vars(Promote(r))
          /\ WF_vars(Work(r))

FairSpec == Spec /\ Fairness

---------------------------------------------------------------------------
(* Properties                                                               *)

\* A replica that leads does not forget a key: as long as the status of its copy
\* is wrong something is on its way to the workers, though the keys it took as a
\* standby are gone (reconciler.go 176-183, controller.go 70-88, leader.go).
NoKeyForgotten ==
    \A r \in Replica :
        leads[r] /\ lister[r] # None =>
            \/ lister[r].status.of = lister[r].spec
            \/ queued[r] \/ job[r] # Idle \/ promoting[r].list > 0
            \/ watch[r] # <<>>

\* A status that is not of the present spec and incarnation is only written by
\* a retry after a conflict, however many replicas lead: what is computed from
\* the informer's copy is refused when that copy is old (reconciler.go 311-341).
StaleNeedsConflict ==
    [][\A r \in Replica :
          (job[r].pc = "put" /\ object' # object /\ job'[r].pc = "idle" /\ job[r].status = object'.status)
            => \/ job[r].attempt > 1
               \/ object'.status = [of |-> object'.spec, from |-> object'.uid]]_vars

\* When users, leases and faults rest, the status follows the spec: there is a
\* leader in the end, with the key (reconciler.go 169-308, leader.go).
StatusFollowsSpec == <>[](object = None \/ object.status.of = object.spec)

\* A status update the API server takes leaves what the fake of the unit tests
\* leaves, which replaces the whole object: the update carries the other half as
\* it is (reconciler.go 313-338, fake_kmesh.go 107-115).
FakeAgrees ==
    \A r \in Replica : job[r].pc = "put" =>
        LET d    == db
            real == Serve(d, Typed(UpdateCall(r)))
            fake == Fake(d, UpdateCall(r))
        IN  real.err = "none" =>
               /\ fake.err = "none"
               /\ [fake.db.obj EXCEPT !.rv = 0] = [real.db.obj EXCEPT !.rv = 0]
=============================================================================
