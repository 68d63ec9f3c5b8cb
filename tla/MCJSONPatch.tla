---------------------------- MODULE MCJSONPatch ----------------------------
(***************************************************************************)
(* Bounded check of JSONPatch.  A document held by the API server is       *)
(* patched again and again from a base that may be any earlier version of  *)
(* it: the reconciler's lister lags.                                       *)
(***************************************************************************)
EXTENDS JSONPatch

CONSTANTS Atom,     \* class names, and names of egresses
          MaxLen    \* bound on the length of the lists

ASSUME PatchBounds == MaxLen \in Nat

VARIABLES base,     \* the copy the patch was computed from
          doc       \* the API server's copy

vars == <<base, doc>>

Lists == BoundedSeq(Atom, MaxLen)

Init == base = <<>> /\ doc = <<>>

\* The lister catches up.
Sync == base' = doc /\ UNCHANGED doc

\* A patch that turns base into some list is applied to doc, as an array of
\* strings or as an array of objects.
Patch ==
    \E after \in Lists, kind \in {"strings", "objects"} :
        LET r == IF kind = "strings"
                 THEN PatchClasses(base, after, doc)
                 ELSE PatchEgresses(base, after, doc)
        IN  /\ r.ok
            /\ Len(r.val) =< MaxLen
            /\ doc' = r.val
            /\ UNCHANGED base

Next == Sync \/ Patch

Spec == Init /\ [][Next]_vars

---------------------------------------------------------------------------
\* The operations of handleValues on two arrays of objects, one by one, in the
\* order the code emits them (an egress patch replaces the element).
ObjectScript(s, t) ==
    LET n == Min({Len(s), Len(t)})
    IN  [i \in 1..(Len(s) - n) |-> RemoveOp(Len(s) - i)]
          \o [i \in 1..(Len(t) - n) |-> AddOp(n + i - 1, t[n + i])]
          \o FlattenSeq([i \in 1..n |->
                 IF s[i] = t[i] THEN <<>> ELSE <<ReplaceOp(i - 1, t[i])>>])

\* A patch computed from the copy the server holds turns it into the wanted
\* list, whatever the two lists are: the edit script of an array of strings
\* (jsonpatch.go compareEditDistance, backtrace) is exact on its own base.
StringPatchExact ==
    \A after \in Lists : PatchClasses(doc, after, doc) = Ok(after)

\* The closed form PatchObjects does to ANY current list, the stale ones
\* included, what the operations of handleValues do one after the other, and
\* fails exactly when one of them fails.
ObjectPatchIsItsScript ==
    \A after \in Lists :
        base # <<>> /\ after # <<>>
            => PatchEgresses(base, after, doc)
                   = ApplyOps(ObjectScript(base, after), doc)

\* The script has as few operations as any: no shorter script exists.  The
\* reference is the alignment of the two lists: a set of index pairs,
\* increasing in both, left untouched when their elements agree.
AlignmentsOf ==
    [c \in (0..MaxLen) \X (0..MaxLen) |->
        {A \in SUBSET ((1..c[1]) \X (1..c[2])) :
            \A p, q \in A : p # q => (p[1] < q[1] /\ p[2] < q[2]) \/ (q[1] < p[1] /\ q[2] < p[2])}]

Cost(s, t, A) ==
    LET changed == {p \in A : s[p[1]] # t[p[2]]}
    IN  Len(s) + Len(t) - 2 * Cardinality(A) + Cardinality(changed)

ScriptIsShortest ==
    \A after \in Lists :
        Len(EditScript(doc, after)) = Min({Cost(doc, after, A) : A \in AlignmentsOf[<<Len(doc), Len(after)>>]})
=============================================================================
