------------------------------- MODULE Clients -------------------------------
(***************************************************************************)
(* The clients of the mesh API: the typed client of the controllers and    *)
(* the fake one of unit tests, over one key of one resource.               *)
(*                                                                         *)
(* A call names its method and carries an object; the typed client makes   *)
(* of it a request, which the API server answers, and the fake client an   *)
(* action, which its tracker answers.  An object has two halves, the spec  *)
(* and the status.  A patch carries the halves it sets, like an update,    *)
(* and no version.                                                         *)
(***************************************************************************)
EXTENDS Integers

CONSTANTS
    Malformed,        \* the specs the webhook refuses
    NoStatus          \* the status of a new object

None == [rv |-> 0]    \* no object

Reads  == {"Get", "List", "Watch"}
Writes == {"Create", "Update", "UpdateStatus", "Delete", "DeleteCollection", "Patch"}

Verb == [Get |-> "GET", List |-> "GET", Watch |-> "GET",
         Create |-> "POST", Update |-> "PUT", UpdateStatus |-> "PUT", Patch |-> "PATCH",
         Delete |-> "DELETE", DeleteCollection |-> "DELETE"]

Call(method, obj, sub) == [method |-> method, obj |-> obj, sub |-> sub]

Request(call, all, watch, sub, body) ==
    [verb |-> Verb[call.method], all |-> all, watch |-> watch, sub |-> sub, body |-> body]

\* all: the request is for the collection, and names no object.
TypedReads(call) ==
    Request(call, call.method # "Get", call.method = "Watch", "", None)

TypedWrites(call) ==
    Request(call,
            call.method \in {"Create", "DeleteCollection"},
            FALSE,
            IF call.method = "UpdateStatus" THEN "status" ELSE call.sub,
            IF Verb[call.method] = "DELETE" THEN None ELSE call.obj)

Typed(call) == IF call.method \in Reads THEN TypedReads(call) ELSE TypedWrites(call)

---------------------------------------------------------------------------
(* The API server                                                           *)

\* The admission webhook validates the spec; it defaults nothing.
Validate(spec) == spec \notin Malformed

Half(db, r) ==
    IF r.sub = "status" THEN [db.obj EXCEPT !.status = r.body.status]
    ELSE [db.obj EXCEPT !.spec = r.body.spec]

Admitted(db, r) ==
    r.verb \in {"POST", "PUT", "PATCH"} =>
        Validate(IF r.sub = "status" THEN db.obj.spec ELSE r.body.spec)

\* Mutant: an update is taken whatever version it carries.
RefusalUnversioned(db, r) ==
    IF ~r.all /\ db.obj = None THEN "NotFound"
    ELSE IF ~Admitted(db, r) THEN "Denied"
    ELSE IF r.verb = "POST" /\ db.obj # None THEN "AlreadyExists"
    ELSE "none"

Refusal(db, r) ==
    IF ~r.all /\ db.obj = None THEN "NotFound"
    ELSE IF ~Admitted(db, r) THEN "Denied"
    ELSE IF r.verb = "POST" /\ db.obj # None THEN "AlreadyExists"
    ELSE IF r.verb = "PUT" /\ r.body.rv # db.obj.rv THEN "Conflict"
    ELSE "none"

Answer(err, db, got) == [err |-> err, db |-> db, got |-> got]

Stored(db, obj) == [rev |-> db.rev + 1, obj |-> [obj EXCEPT !.rv = db.rev + 1]]

\* A new object has a uid of its own, every change a revision; an update that
\* changes nothing is none.
After(db, r) ==
    CASE r.verb = "GET"    -> db
      [] r.verb = "DELETE" -> IF db.obj = None THEN db ELSE [rev |-> db.rev + 1, obj |-> None]
      [] r.verb = "POST"   -> Stored(db, [uid |-> db.rev + 1, rv |-> 0, spec |-> r.body.spec,
                                          status |-> NoStatus])
      [] OTHER             -> IF Half(db, r) = db.obj THEN db ELSE Stored(db, Half(db, r))

Serve(db, r) ==
    IF Refusal(db, r) # "none" THEN Answer(Refusal(db, r), db, {})
    ELSE Answer("none", After(db, r),
                IF r.verb = "DELETE" THEN {} ELSE {After(db, r).obj} \ {None})

---------------------------------------------------------------------------
(* The fake client                                                          *)

FakeReads(db, call) ==
    IF call.method = "Get" /\ db.obj = None THEN Answer("NotFound", db, {})
    ELSE Answer("none", db, {db.obj} \ {None})

\* The tracker keeps what it is given: it compares no versions, knows no
\* subresources and asks no webhook.  Nothing reacts to DeleteCollection.
FakeWrites(db, call) ==
    IF call.method = "DeleteCollection" THEN Answer("none", db, {})
    ELSE IF call.method = "Create" /\ db.obj # None THEN Answer("AlreadyExists", db, {})
    ELSE IF call.method # "Create" /\ db.obj = None THEN Answer("NotFound", db, {})
    ELSE IF call.method = "Delete" THEN Answer("none", [db EXCEPT !.obj = None], {})
    ELSE Answer("none", [db EXCEPT !.obj = call.obj], {call.obj})

Fake(db, call) == IF call.method \in Reads THEN FakeReads(db, call) ELSE FakeWrites(db, call)
=============================================================================
