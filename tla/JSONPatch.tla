----------------------------- MODULE JSONPatch -----------------------------
(***************************************************************************)
(* The JSON patches the brokerbinding reconciler sends to the API server.  *)
(*                                                                         *)
(* duck.CreatePatch compares two copies of a KMesh held by the controller  *)
(* (`base', the lister's copy, and `after', the edited one) with           *)
(* gomodules.xyz/jsonpatch; the API server applies the resulting           *)
(* operations to ITS copy (`cur') with evanphx/json-patch.  When cur is    *)
(* not base the result is neither cur nor after, and may be a mix of both. *)
(*                                                                         *)
(* A list member of the status carries `omitempty': the empty list and the *)
(* absent member are the same value, <<>>, and going from or to it adds or *)
(* removes the whole member.  The text of a path or of a value is left     *)
(* out; what each operation does to the list it addresses, and when it     *)
(* fails, is kept.  A failed operation fails the whole patch.              *)
(***************************************************************************)
EXTENDS Integers, Sequences, SequencesExt

Ok(v)  == [ok |-> TRUE, val |-> v]
Failed == [ok |-> FALSE, val |-> <<>>]

\* Operations on an array, with the zero-based index that ends their path.
RemoveOp(i)     == [op |-> "remove", at |-> i]
AddOp(i, v)     == [op |-> "add", at |-> i, val |-> v]
ReplaceOp(i, v) == [op |-> "replace", at |-> i, val |-> v]

\* The operations that bring in nothing but elements of V.
OpOver(V) ==
    [op : {"remove"}, at : Nat] \cup [op : {"add", "replace"}, at : Nat, val : V]

\* partialArray.add accepts an index up to the length of the array; remove
\* and replace need an element there.
ApplyOp(cur, o) ==
    CASE o.op = "add" /\ o.at =< Len(cur)    -> Ok(InsertAt(cur, o.at + 1, o.val))
      [] o.op = "remove" /\ o.at < Len(cur)  -> Ok(RemoveAt(cur, o.at + 1))
      [] o.op = "replace" /\ o.at < Len(cur) -> Ok(ReplaceAt(cur, o.at + 1, o.val))
      [] OTHER                               -> Failed

ApplyOps(ops, cur) ==
    FoldLeft(LAMBDA r, o : IF r.ok THEN ApplyOp(r.val, o) ELSE r, Ok(cur), ops)

---------------------------------------------------------------------------
(* Arrays of strings: a Wagner-Fischer edit script.                         *)

\* The cells of a table over the prefixes of two arrays.
Cells(s, t) == (0..Len(s)) \X (0..Len(t))

\* Mutant: a substitution is counted as a removal and an addition.
IndelDistance(s, t) ==
    LET d[c \in Cells(s, t)] ==
            LET i == c[1]
                j == c[2]
            IN  IF i = 0 THEN j
                ELSE IF j = 0 THEN i
                ELSE IF s[i] = t[j] THEN d[<<i-1, j-1>>]
                ELSE 1 + Min({d[<<i-1, j>>], d[<<i, j-1>>]})
    IN  d

EditDistance(s, t) ==
    LET d[c \in Cells(s, t)] ==
            LET i == c[1]
                j == c[2]
            IN  IF i = 0 THEN j
                ELSE IF j = 0 THEN i
                ELSE IF s[i] = t[j] THEN d[<<i-1, j-1>>]
                ELSE 1 + Min({d[<<i-1, j>>], d[<<i, j-1>>], d[<<i-1, j-1>>]})
    IN  d

\* Mutant: the index of an addition is that of the element before it.
EditScriptOffByOne(s, t) ==
    LET d == EditDistance(s, t)
        script[c \in Cells(s, t)] ==
            LET i == c[1]
                j == c[2]
            IN  IF i > 0 /\ d[<<i-1, j>>] + 1 = d[c]
                THEN <<RemoveOp(i-1)>> \o script[<<i-1, j>>]
                ELSE IF j > 0 /\ d[<<i, j-1>>] + 1 = d[c]
                THEN <<AddOp(IF i = 0 THEN 0 ELSE i-1, t[j])>> \o script[<<i, j-1>>]
                ELSE IF i > 0 /\ j > 0
                THEN (IF d[<<i-1, j-1>>] + 1 = d[c] THEN <<ReplaceOp(i-1, t[j])>> ELSE <<>>)
                     \o script[<<i-1, j-1>>]
                ELSE <<>>
    IN  script[<<Len(s), Len(t)>>]

\* The script is emitted from the end of the arrays to their beginning, so an
\* index is still that of the unedited array when its operation is applied.
EditScript(s, t) ==
    LET d == EditDistance(s, t)
        script[c \in Cells(s, t)] ==
            LET i == c[1]
                j == c[2]
            IN  IF i > 0 /\ d[<<i-1, j>>] + 1 = d[c]
                THEN <<RemoveOp(i-1)>> \o script[<<i-1, j>>]
                ELSE IF j > 0 /\ d[<<i, j-1>>] + 1 = d[c]
                THEN <<AddOp(i, t[j])>> \o script[<<i, j-1>>]
                ELSE IF i > 0 /\ j > 0
                THEN (IF d[<<i-1, j-1>>] + 1 = d[c] THEN <<ReplaceOp(i-1, t[j])>> ELSE <<>>)
                     \o script[<<i-1, j-1>>]
                ELSE <<>>
    IN  script[<<Len(s), Len(t)>>]

---------------------------------------------------------------------------
(* Arrays of objects: the tail is removed or added by position, then every  *)
(* position the two arrays share is compared member by member.              *)

Shared(base, after) == 1..Min({Len(base), Len(after)})

\* cur once the tail of base is removed from it, or that of after added.
Moved(base, after, cur) ==
    LET n == Min({Len(base), Len(after)})
    IN  SubSeq(cur, 1, Min({n, Len(cur)}))
            \o SubSeq(after, n + 1, Len(after))
            \o SubSeq(cur, Len(base) + 1, Len(cur))

\* Mutant: elements the server has beyond the base are dropped.
PatchObjectsTruncating(base, after, cur, elem) ==
    IF Len(cur) < Len(base) THEN Failed ELSE Ok(after)

\* What the operations of handleValues do to cur, elem being the outcomes for
\* the shared positions.  Removals start at the end of base and additions at
\* its end, so both need Len(cur) >= Len(base); a position whose two values
\* agree produces no operation at all.
PatchObjects(base, after, cur, elem) ==
    LET moved   == Moved(base, after, cur)
        changed == {i \in Shared(base, after) : base[i] # after[i]}
    IN  IF \/ Len(base) # Len(after) /\ Len(cur) < Len(base)
           \/ \E i \in changed : i > Len(moved) \/ ~elem[i].ok
        THEN Failed
        ELSE Ok([i \in DOMAIN moved |-> IF i \in changed THEN elem[i].val ELSE moved[i]])

\* An `omitempty' list member, edited being the outcome for two lists: equal
\* values produce nothing; "add" of a member overwrites the one that is there;
\* every other operation, be it on the member or on an element, needs a member
\* to be there.
PatchMember(base, after, cur, edited) ==
    IF base = after THEN Ok(cur)
    ELSE IF base = <<>> THEN Ok(after)
    ELSE IF cur = <<>> THEN Failed
    ELSE IF after = <<>> THEN Ok(<<>>)
    ELSE edited

---------------------------------------------------------------------------
(* KMesh.Status: [classes, ingresses], an ingress being [name, egresses].   *)
(* The address of an ingress and the destination of an egress are functions *)
(* of the name of the broker or trigger they were read from, so they are    *)
(* replaced exactly when the name is.                                       *)

PatchClasses(base, after, cur) ==
    PatchMember(base, after, cur, ApplyOps(EditScript(base, after), cur))

\* An egress that changes is replaced as a whole.
PatchEgresses(base, after, cur) ==
    PatchMember(base, after, cur,
        PatchObjects(base, after, cur, [i \in Shared(base, after) |-> Ok(after[i])]))

PatchIngress(base, after, cur) ==
    LET egresses == PatchEgresses(base.egresses, after.egresses, cur.egresses)
    IN  IF egresses.ok
        THEN Ok([name     |-> IF base.name = after.name THEN cur.name ELSE after.name,
                 egresses |-> egresses.val])
        ELSE Failed

PatchIngresses(base, after, cur) ==
    LET moved == Moved(base, after, cur)
    IN  PatchMember(base, after, cur,
            PatchObjects(base, after, cur,
                [i \in Shared(base, after) \cap DOMAIN moved |->
                    PatchIngress(base[i], after[i], moved[i])]))

\* The whole patch: it fails as a whole, and it fails when it has an operation
\* and the API object has no /status member yet.
PatchStatus(base, after, cur, hasStatus) ==
    LET classes   == PatchClasses(base.classes, after.classes, cur.classes)
        ingresses == PatchIngresses(base.ingresses, after.ingresses, cur.ingresses)
    IN  IF base = after THEN Ok(cur)
        ELSE IF hasStatus /\ classes.ok /\ ingresses.ok
        THEN Ok([classes |-> classes.val, ingresses |-> ingresses.val])
        ELSE Failed
=============================================================================
