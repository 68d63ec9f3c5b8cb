-------------------------- MODULE MCJSONPatchProofs --------------------------
(***************************************************************************)
(* What MCJSONPatch checks of lists of three, for lists of any length.     *)
(*                                                                         *)
(* The edit script of two arrays of strings is exact and shortest, the     *)
(* reference being the alignments of the two.  The closed form for arrays  *)
(* of objects is what the operations of handleValues do one by one.        *)
(***************************************************************************)
EXTENDS MCJSONPatch, JSONPatchProofs, FiniteSetTheorems

---------------------------------------------------------------------------
(* The documents                                                            *)

LEMMA ListsAre == Lists = {s \in Seq(Atom) : Len(s) <= MaxLen}
<1>1. ASSUME NEW s \in Lists
      PROVE  s \in Seq(Atom) /\ Len(s) <= MaxLen
  <2>1. PICK m \in 0..MaxLen : s \in [1..m -> Atom]
    BY DEF Lists, BoundedSeq, SeqOf
  <2>2. m \in Nat /\ m <= MaxLen
    BY <2>1, PatchBounds
  <2> QED
    BY <2>1, <2>2, SeqDef, LenProperties
<1>2. ASSUME NEW s \in Seq(Atom), Len(s) <= MaxLen
      PROVE  s \in Lists
  <2>1. Len(s) \in 0..MaxLen /\ s \in [1..Len(s) -> Atom]
    BY <1>2, LenProperties, PatchBounds
  <2> QED
    BY <2>1 DEF Lists, BoundedSeq, SeqOf
<1> QED
  BY <1>1, <1>2

LEMMA MinIs ==
    ASSUME NEW T \in SUBSET Int, NEW k \in T, \A x \in T : k <= x
    PROVE  Min(T) = k
<1>1. \E x \in T : \A y \in T : x <= y
  OBVIOUS
<1> DEFINE l == CHOOSE x \in T : \A y \in T : x <= y
<1>2. l \in T /\ \A y \in T : l <= y
  BY <1>1
<1>3. Min(T) = l
  BY Zenon DEF Min, l
<1> HIDE DEF l
<1>4. l <= k /\ k <= l /\ l \in Int /\ k \in Int
  BY <1>2
<1> QED
  BY <1>3, <1>4

\* An array whose tail was removed or added.
LEMMA MovedIs ==
    ASSUME NEW V, NEW old \in Seq(V), NEW after \in Seq(V), NEW cur \in Seq(V)
    PROVE  Moved(old, after, cur) \in Seq(V)
<1> DEFINE n == Min({Len(old), Len(after)})
           k == Min({n, Len(cur)})
<1>1. /\ Len(old) \in Nat /\ Len(after) \in Nat /\ Len(cur) \in Nat
      /\ \A i \in 1..Len(cur) : cur[i] \in V
      /\ \A i \in 1..Len(after) : after[i] \in V
  BY LenProperties, ElementOfSeq
<1>2. n \in Nat
  BY <1>1, MinOfTwo
<1> HIDE DEF n
<1>3. k \in Nat /\ k <= Len(cur)
  BY <1>1, <1>2, MinOfTwo
<1> HIDE DEF k
<1>4. SubSeq(cur, 1, k) \in Seq(V)
  BY <1>1, <1>3, SubSeqProperties
<1>5. SubSeq(after, n + 1, Len(after)) \in Seq(V)
  BY <1>1, <1>2, SubSeqProperties
<1>6. SubSeq(cur, Len(old) + 1, Len(cur)) \in Seq(V)
  BY <1>1, SubSeqProperties
<1>7. Moved(old, after, cur)
         = SubSeq(cur, 1, k) \o SubSeq(after, n + 1, Len(after))
              \o SubSeq(cur, Len(old) + 1, Len(cur))
  BY Zenon DEF Moved, n, k
<1> QED
  BY <1>4, <1>5, <1>6, <1>7, ConcatProperties

\* A patch of an array of objects leaves a list of what was there and what it brings.
LEMMA PatchEgressesType ==
    ASSUME NEW V, NEW old \in Seq(V), NEW after \in Seq(V), NEW cur \in Seq(V),
           PatchEgresses(old, after, cur).ok
    PROVE  PatchEgresses(old, after, cur).val \in Seq(V)
<1> DEFINE n     == Min({Len(old), Len(after)})
           elem  == [i \in Shared(old, after) |-> Ok(after[i])]
           moved == Moved(old, after, cur)
           changed == {i \in Shared(old, after) : old[i] # after[i]}
           edited  == PatchObjects(old, after, cur, elem)
           mixed   == [i \in DOMAIN moved |-> IF i \in changed THEN elem[i].val ELSE moved[i]]
<1>1. /\ moved \in Seq(V) /\ DOMAIN moved = 1..Len(moved) /\ Len(moved) \in Nat
      /\ \A i \in 1..Len(moved) : moved[i] \in V
  BY MovedIs, LenProperties, ElementOfSeq
<1>2. \A i \in changed : elem[i].val \in V
  <2>1. n \in Nat /\ n <= Len(after) /\ Len(after) \in Nat
    BY MinOfTwo, LenProperties
  <2>2. \A i \in 1..n : i \in 1..Len(after)
    BY <2>1
  <2>3. \A i \in Shared(old, after) : after[i] \in V
    BY <2>2, ElementOfSeq DEF Shared
  <2> QED
    BY <2>3 DEF Ok
<1>3. mixed \in Seq(V)
  <2> HIDE DEF elem, moved, changed
  <2>1. mixed \in [1..Len(moved) -> V]
    BY <1>1, <1>2
  <2> QED
    BY <1>1, <2>1, SeqDef
<1>4. edited.ok => edited.val \in Seq(V)
  <2>1. edited = Failed \/ edited = Ok(mixed)
    BY Zenon DEF PatchObjects
  <2> HIDE DEF mixed, edited
  <2> QED
    BY <1>3, <2>1 DEF Ok, Failed
<1>5. PatchEgresses(old, after, cur) = PatchMember(old, after, cur, edited)
  BY Zenon DEF PatchEgresses
<1> HIDE DEF edited
<1> QED
  BY <1>4, <1>5, EmptySeq DEF PatchMember, Ok, Failed

ListsOnly == base \in Lists /\ doc \in Lists

LEMMA ListsInit == Init => ListsOnly
<1>1. <<>> \in Lists
  BY ListsAre, EmptySeq, PatchBounds
<1> QED
  BY <1>1 DEF Init, ListsOnly

LEMMA ListsStep == ListsOnly /\ [Next]_vars => ListsOnly'
<1> SUFFICES ASSUME ListsOnly, [Next]_vars
             PROVE  ListsOnly'
  OBVIOUS
<1>1. CASE Patch
  <2>1. PICK after \in Lists, kind \in {"strings", "objects"} :
           LET r == IF kind = "strings"
                    THEN PatchClasses(base, after, doc)
                    ELSE PatchEgresses(base, after, doc)
           IN  /\ r.ok
               /\ Len(r.val) =< MaxLen
               /\ doc' = r.val
               /\ UNCHANGED base
    BY <1>1 DEF Patch
  <2>2. /\ base \in Seq(Atom) /\ doc \in Seq(Atom) /\ after \in Seq(Atom)
    BY ListsAre DEF ListsOnly
  <2>3. doc' \in Seq(Atom)
    <3>1. CASE kind = "strings"
      BY <2>1, <2>2, <3>1, PatchClassesType
    <3>2. CASE kind = "objects"
      BY <2>1, <2>2, <3>2, PatchEgressesType
    <3> QED
      BY <3>1, <3>2
  <2> QED
    BY <2>1, <2>3, ListsAre DEF ListsOnly
<1>2. CASE Sync \/ UNCHANGED vars
  BY <1>2 DEF Sync, vars, ListsOnly
<1> QED
  BY <1>1, <1>2 DEF Next

LEMMA ListsInvariant == Spec => []ListsOnly
  BY ListsInit, ListsStep, PTL DEF Spec

\* Whatever patches the server has applied, one computed from the copy it holds is
\* exact (gomodules.xyz/jsonpatch compareEditDistance, backtrace).
THEOREM StringPatchesExact == Spec => []StringPatchExact
<1>1. ListsOnly => StringPatchExact
  BY ListsAre, PatchClassesExact DEF ListsOnly, StringPatchExact
<1> QED
  BY <1>1, ListsInvariant, PTL

---------------------------------------------------------------------------
(* No script is shorter: the distance is the cost of the best alignment     *)

Increasing(A) ==
    \A p, q \in A : p # q => (p[1] < q[1] /\ p[2] < q[2]) \/ (q[1] < p[1] /\ q[2] < p[2])

Alignments(i, j) == {A \in SUBSET ((1..i) \X (1..j)) : Increasing(A)}

Differing(s, t, A) == {p \in A : s[p[1]] # t[p[2]]}

\* What an alignment of the first i and the first j elements costs.
CostAt(s, t, i, j, A) == i + j - 2 * Cardinality(A) + Cardinality(Differing(s, t, A))

LEMMA AlignmentFinite ==
    ASSUME NEW s, NEW t, NEW i \in Nat, NEW j \in Nat, NEW A \in Alignments(i, j)
    PROVE  /\ IsFiniteSet(A) /\ IsFiniteSet(Differing(s, t, A))
           /\ Cardinality(A) \in Nat /\ Cardinality(Differing(s, t, A)) \in Nat
           /\ CostAt(s, t, i, j, A) \in Int
<1>1. IsFiniteSet((1..i) \X (1..j))
  <2>1. IsFiniteSet(1..i) /\ IsFiniteSet(1..j)
    BY FS_Interval
  <2> QED
    BY <2>1, FS_Product
<1>2. IsFiniteSet(A)
  BY <1>1, FS_Subset DEF Alignments
<1>3. IsFiniteSet(Differing(s, t, A))
  BY <1>2, FS_Subset DEF Differing
<1>4. Cardinality(A) \in Nat /\ Cardinality(Differing(s, t, A)) \in Nat
  BY <1>2, <1>3, FS_CardinalityType
<1> QED
  BY <1>2, <1>3, <1>4 DEF CostAt

\* An element left out of the alignment is one operation.
LEMMA LeaveOut ==
    ASSUME NEW s, NEW t, NEW i \in Nat, NEW j \in Nat, NEW A \in Alignments(i, j)
    PROVE  /\ A \in Alignments(i + 1, j)
           /\ CostAt(s, t, i + 1, j, A) = CostAt(s, t, i, j, A) + 1
           /\ A \in Alignments(i, j + 1)
           /\ CostAt(s, t, i, j + 1, A) = CostAt(s, t, i, j, A) + 1
<1>1. (1..i) \X (1..j) \subseteq (1..i + 1) \X (1..j)
  OBVIOUS
<1>2. (1..i) \X (1..j) \subseteq (1..i) \X (1..j + 1)
  OBVIOUS
<1>3. A \in Alignments(i + 1, j) /\ A \in Alignments(i, j + 1)
  BY <1>1, <1>2 DEF Alignments
<1>4. Cardinality(A) \in Nat /\ Cardinality(Differing(s, t, A)) \in Nat
  BY AlignmentFinite
<1> QED
  BY <1>3, <1>4 DEF CostAt

\* A pair aligned after all others is one operation if its elements differ.
LEMMA AlignLast ==
    ASSUME NEW s, NEW t, NEW i \in Nat, NEW j \in Nat, NEW A \in Alignments(i, j),
           NEW B, B = A \cup {<<i + 1, j + 1>>}
    PROVE  /\ B \in Alignments(i + 1, j + 1)
           /\ s[i + 1] = t[j + 1] => CostAt(s, t, i + 1, j + 1, B) = CostAt(s, t, i, j, A)
           /\ s[i + 1] # t[j + 1] => CostAt(s, t, i + 1, j + 1, B) = CostAt(s, t, i, j, A) + 1
<1> DEFINE x == <<i + 1, j + 1>>
<1>0. B = A \cup {x}
  OBVIOUS
<1>1. \A p \in A : p[1] \in 1..i /\ p[2] \in 1..j
  BY DEF Alignments
<1>2. \A p \in A : p[1] < x[1] /\ p[2] < x[2]
  BY <1>1
<1>3. x \notin A
  BY <1>2
<1>4. B \in Alignments(i + 1, j + 1)
  <2>1. B \in SUBSET ((1..i + 1) \X (1..j + 1))
    <3>1. (1..i) \X (1..j) \subseteq (1..i + 1) \X (1..j + 1)
      OBVIOUS
    <3>2. x \in (1..i + 1) \X (1..j + 1)
      OBVIOUS
    <3> QED
      BY <3>1, <3>2 DEF Alignments
  <2>2. Increasing(B)
    <3>1. Increasing(A)
      BY DEF Alignments
    <3> HIDE DEF x
    <3> QED
      BY <1>0, <1>2, <3>1 DEF Increasing
  <2> QED
    BY <2>1, <2>2 DEF Alignments
<1>5. /\ IsFiniteSet(A) /\ IsFiniteSet(Differing(s, t, A))
      /\ Cardinality(A) \in Nat /\ Cardinality(Differing(s, t, A)) \in Nat
  BY AlignmentFinite
<1>6. Cardinality(B) = Cardinality(A) + 1
  BY <1>3, <1>5, FS_AddElement
<1>7. x[1] = i + 1 /\ x[2] = j + 1
  OBVIOUS
<1> HIDE DEF x
<1>8. CASE s[i + 1] = t[j + 1]
  <2>1. Differing(s, t, B) = Differing(s, t, A)
    BY <1>0, <1>7, <1>8 DEF Differing
  <2>2. CostAt(s, t, i + 1, j + 1, B) = CostAt(s, t, i, j, A)
    BY <1>5, <1>6, <2>1 DEF CostAt
  <2> QED
    BY <1>4, <1>8, <2>2 DEF x
<1>9. CASE s[i + 1] # t[j + 1]
  <2>1. Differing(s, t, B) = Differing(s, t, A) \cup {x} /\ x \notin Differing(s, t, A)
    BY <1>0, <1>3, <1>7, <1>9 DEF Differing
  <2>2. Cardinality(Differing(s, t, B)) = Cardinality(Differing(s, t, A)) + 1
    BY <1>5, <2>1, FS_AddElement
  <2>3. CostAt(s, t, i + 1, j + 1, B) = CostAt(s, t, i, j, A) + 1
    BY <1>5, <1>6, <2>2 DEF CostAt
  <2> QED
    BY <1>4, <1>9, <2>3 DEF x
<1> QED
  BY <1>8, <1>9

\* An alignment ends in the last pair, or leaves one of the two last elements out.
LEMMA AlignmentCases ==
    ASSUME NEW i \in Nat, NEW j \in Nat, NEW B \in Alignments(i + 1, j + 1)
    PROVE  \/ B \in Alignments(i, j + 1)
           \/ B \in Alignments(i + 1, j)
           \/ \E A \in Alignments(i, j) : B = A \cup {<<i + 1, j + 1>>}
<1> DEFINE x == <<i + 1, j + 1>>
<1>1. \A p \in B : p = <<p[1], p[2]>> /\ p[1] \in 1..i + 1 /\ p[2] \in 1..j + 1
  BY DEF Alignments
<1>2. Increasing(B)
  BY DEF Alignments
<1>3. CASE \A p \in B : p[1] # i + 1
  <2>1. \A p \in B : p \in (1..i) \X (1..j + 1)
    <3>1. \A k \in 1..i + 1 : k # i + 1 => k \in 1..i
      OBVIOUS
    <3> QED
      BY <1>1, <1>3, <3>1
  <2> QED
    BY <1>2, <2>1 DEF Alignments
<1>4. CASE \A p \in B : p[2] # j + 1
  <2>1. \A p \in B : p \in (1..i + 1) \X (1..j)
    <3>1. \A k \in 1..j + 1 : k # j + 1 => k \in 1..j
      OBVIOUS
    <3> QED
      BY <1>1, <1>4, <3>1
  <2> QED
    BY <1>2, <2>1 DEF Alignments
<1>5. CASE \E p, q \in B : p[1] = i + 1 /\ q[2] = j + 1
  <2>1. PICK p \in B, q \in B : p[1] = i + 1 /\ q[2] = j + 1
    BY <1>5
  <2>2. p[2] \in Int /\ q[1] \in Int /\ p[2] <= j + 1 /\ q[1] <= i + 1
    BY <1>1
  <2>3. p = q
    <3>1. p # q => (p[1] < q[1] /\ p[2] < q[2]) \/ (q[1] < p[1] /\ q[2] < p[2])
      BY <1>2 DEF Increasing
    <3> QED
      BY <2>1, <2>2, <3>1
  <2>4. x \in B
    BY <1>1, <2>1, <2>3
  <2> DEFINE A == B \ {x}
  <2>5. \A r \in A : r[1] \in 1..i /\ r[2] \in 1..j
    <3> SUFFICES ASSUME NEW r \in A
                 PROVE  r[1] \in 1..i /\ r[2] \in 1..j
      OBVIOUS
    <3>1. (r[1] < x[1] /\ r[2] < x[2]) \/ (x[1] < r[1] /\ x[2] < r[2])
      BY <1>2, <2>4 DEF Increasing
    <3>2. r[1] \in 1..i + 1 /\ r[2] \in 1..j + 1
      BY <1>1
    <3> QED
      BY <3>1, <3>2
  <2>6. A \in Alignments(i, j)
    <3>1. \A r \in A : r \in (1..i) \X (1..j)
      BY <1>1, <2>5
    <3>2. Increasing(A)
      BY <1>2 DEF Increasing
    <3> HIDE DEF A
    <3> QED
      BY <3>1, <3>2 DEF Alignments
  <2>7. B = A \cup {x}
    BY <2>4
  <2> QED
    BY <2>6, <2>7
<1> QED
  BY <1>3, <1>4, <1>5

\* On the edges there is nothing to align.
LEMMA NothingAligned == \A i, j \in Nat : (i = 0 \/ j = 0) => Alignments(i, j) = {{}}
<1> SUFFICES ASSUME NEW i \in Nat, NEW j \in Nat, i = 0 \/ j = 0
             PROVE  Alignments(i, j) = {{}}
  OBVIOUS
<1>1. (1..i) \X (1..j) = {}
  OBVIOUS
<1> QED
  BY <1>1 DEF Alignments, Increasing

LEMMA NothingCosts == \A s, t : \A i, j \in Nat : CostAt(s, t, i, j, {}) = i + j
<1> SUFFICES ASSUME NEW s, NEW t, NEW i \in Nat, NEW j \in Nat
             PROVE  CostAt(s, t, i, j, {}) = i + j
  OBVIOUS
<1>1. Differing(s, t, {}) = {} /\ Cardinality({}) = 0
  BY FS_EmptySet DEF Differing
<1>2. CostAt(s, t, i, j, {}) = i + j - 2 * 0 + 0
  BY <1>1, Zenon DEF CostAt
<1> QED
  BY <1>2

\* Every alignment costs what the distance says or more, and one just that.
Best(s, t, d, i, j) ==
    /\ \A A \in Alignments(i, j) : d[<<i, j>>] <= CostAt(s, t, i, j, A)
    /\ \E A \in Alignments(i, j) : d[<<i, j>>] = CostAt(s, t, i, j, A)

LEMMA DistanceIsBest ==
    ASSUME NEW s, NEW t, Len(s) \in Nat, Len(t) \in Nat
    PROVE  \A i \in 0..Len(s), j \in 0..Len(t) : Best(s, t, EditDistance(s, t), i, j)
<1> DEFINE d == EditDistance(s, t)
           m == Len(s)
           n == Len(t)
           T == {c \in (0..m) \X (0..n) : Best(s, t, d, c[1], c[2])}
<1>1. m \in Nat /\ n \in Nat
  OBVIOUS
<1>2. \A i \in 0..m, j \in 0..n : d[<<i, j>>] = DistanceAt(d, s, t, i, j) /\ d[<<i, j>>] \in Nat
  BY DistanceEquation, DistanceType
<1>3. \A i \in 0..m, j \in 0..n : Smooth(d, i, j)
  BY DistanceSmooth
<1>4. \A i \in 0..m, j \in 0..n : <<i, j>> \in T <=> Best(s, t, d, i, j)
  OBVIOUS
<1> HIDE DEF d, T, m, n
<1>5. ASSUME NEW i \in Nat, NEW j \in Nat, i <= m, j <= n,
             \A a \in 0..m, b \in 0..n : a + b < i + j => <<a, b>> \in T
      PROVE  <<i, j>> \in T
  <2>0. i \in 0..m /\ j \in 0..n
    BY <1>1, <1>5
  <2>1. CASE i = 0 \/ j = 0
    <3>1. d[<<i, j>>] = i + j
      <4>1. d[<<i, j>>] = IF i = 0 THEN j ELSE i
        BY <1>2, <2>0, <2>1 DEF DistanceAt
      <4> QED
        BY <2>0, <2>1, <4>1
    <3>2. Alignments(i, j) = {{}}
      BY <2>1, NothingAligned
    <3>3. Best(s, t, d, i, j)
      <4>1. d[<<i, j>>] <= CostAt(s, t, i, j, {}) /\ d[<<i, j>>] = CostAt(s, t, i, j, {})
        BY <3>1, NothingCosts
      <4>2. {} \in Alignments(i, j) /\ \A A \in Alignments(i, j) : A = {}
        BY <3>2
      <4> QED
        BY <4>1, <4>2, Zenon DEF Best
    <3> QED
      BY <1>4, <2>0, <3>3
  <2>2. CASE i # 0 /\ j # 0
    <3>0. PICK k \in Nat, l \in Nat : i = k + 1 /\ j = l + 1 /\ i - 1 = k /\ j - 1 = l
      <4>1. i - 1 \in Nat /\ j - 1 \in Nat /\ i = (i - 1) + 1 /\ j = (j - 1) + 1
        BY <2>2
      <4> QED
        BY <4>1
    <3> DEFINE a == d[<<k, l>>]
               b == d[<<k, j>>]
               c == d[<<i, l>>]
               e == d[<<i, j>>]
    <3>1. /\ k \in 0..m /\ l \in 0..n /\ i > 0 /\ j > 0
          /\ k + l < i + j /\ k + j < i + j /\ i + l < i + j
      BY <1>1, <1>5, <3>0
    <3>2. a \in Nat /\ b \in Nat /\ c \in Nat /\ e \in Nat
      BY <1>2, <2>0, <3>1
    <3>3. e = IF s[i] = t[j] THEN a ELSE 1 + Min({b, c, a})
      <4>1. e = DistanceAt(d, s, t, i, j)
        BY <1>2, <2>0
      <4> QED
        BY <2>2, <3>0, <4>1 DEF DistanceAt
    <3>4. Best(s, t, d, k, l) /\ Best(s, t, d, k, j) /\ Best(s, t, d, i, l)
      BY <1>4, <1>5, <2>0, <3>1
    <3>5. a <= b + 1 /\ a <= c + 1
      <4>1. Smooth(d, k, j) /\ Smooth(d, i, l)
        BY <1>3, <2>0, <3>1
      <4> QED
        BY <3>0, <3>1, <4>1 DEF Smooth
    <3>6. /\ Min({b, c, a}) \in {b, c, a}
          /\ Min({b, c, a}) <= a /\ Min({b, c, a}) <= b /\ Min({b, c, a}) <= c
      BY <3>2, MinOfThree
    <3>7. /\ e <= b + 1 /\ e <= c + 1
          /\ e <= a + (IF s[i] = t[j] THEN 0 ELSE 1)
      <4>1. CASE s[i] = t[j]
        BY <3>2, <3>3, <3>5, <4>1
      <4>2. CASE s[i] # t[j]
        <5> DEFINE least == Min({b, c, a})
        <5>1. e = 1 + least
          BY <3>3, <4>2
        <5>2. least \in Nat /\ least <= a /\ least <= b /\ least <= c
          BY <3>2, <3>6
        <5> HIDE DEF least, a, b, c, e
        <5> QED
          BY <3>2, <4>2, <5>1, <5>2
      <4> QED
        BY <4>1, <4>2
    <3>8. e \in {b + 1, c + 1, a + (IF s[i] = t[j] THEN 0 ELSE 1)}
      BY <3>2, <3>3, <3>6
    <3>9. \A A \in Alignments(k, l) : \A B : B = A \cup {<<i, j>>} =>
             /\ B \in Alignments(i, j)
             /\ s[i] = t[j] => CostAt(s, t, i, j, B) = CostAt(s, t, k, l, A)
             /\ s[i] # t[j] => CostAt(s, t, i, j, B) = CostAt(s, t, k, l, A) + 1
             /\ CostAt(s, t, k, l, A) \in Int
      <4> SUFFICES ASSUME NEW A \in Alignments(k, l), NEW B, B = A \cup {<<k + 1, l + 1>>}
                   PROVE  /\ B \in Alignments(k + 1, l + 1)
                          /\ s[k + 1] = t[l + 1] =>
                                CostAt(s, t, k + 1, l + 1, B) = CostAt(s, t, k, l, A)
                          /\ s[k + 1] # t[l + 1] =>
                                CostAt(s, t, k + 1, l + 1, B) = CostAt(s, t, k, l, A) + 1
                          /\ CostAt(s, t, k, l, A) \in Int
        BY <3>0, Zenon
      <4> QED
        BY AlignLast, AlignmentFinite
    <3>10. \A A \in Alignments(k, j) :
              /\ A \in Alignments(i, j) /\ CostAt(s, t, i, j, A) = CostAt(s, t, k, j, A) + 1
              /\ CostAt(s, t, k, j, A) \in Int
      <4> SUFFICES ASSUME NEW A \in Alignments(k, j)
                   PROVE  /\ A \in Alignments(k + 1, j)
                          /\ CostAt(s, t, k + 1, j, A) = CostAt(s, t, k, j, A) + 1
                          /\ CostAt(s, t, k, j, A) \in Int
        BY <3>0
      <4> QED
        BY LeaveOut, AlignmentFinite
    <3>11. \A A \in Alignments(i, l) :
              /\ A \in Alignments(i, j) /\ CostAt(s, t, i, j, A) = CostAt(s, t, i, l, A) + 1
              /\ CostAt(s, t, i, l, A) \in Int
      <4> SUFFICES ASSUME NEW A \in Alignments(i, l)
                   PROVE  /\ A \in Alignments(i, l + 1)
                          /\ CostAt(s, t, i, l + 1, A) = CostAt(s, t, i, l, A) + 1
                          /\ CostAt(s, t, i, l, A) \in Int
        BY <3>0
      <4> QED
        BY LeaveOut, AlignmentFinite
    <3>12. \A B \in Alignments(i, j) :
              \/ B \in Alignments(k, j)
              \/ B \in Alignments(i, l)
              \/ \E A \in Alignments(k, l) : B = A \cup {<<i, j>>}
      <4> SUFFICES ASSUME NEW B \in Alignments(k + 1, l + 1)
                   PROVE  \/ B \in Alignments(k, l + 1)
                          \/ B \in Alignments(k + 1, l)
                          \/ \E A \in Alignments(k, l) : B = A \cup {<<k + 1, l + 1>>}
        BY <3>0
      <4> QED
        BY AlignmentCases
    <3>13. /\ \A A \in Alignments(k, l) : a <= CostAt(s, t, k, l, A)
           /\ \A A \in Alignments(k, j) : b <= CostAt(s, t, k, j, A)
           /\ \A A \in Alignments(i, l) : c <= CostAt(s, t, i, l, A)
           /\ \E A \in Alignments(k, l) : a = CostAt(s, t, k, l, A)
           /\ \E A \in Alignments(k, j) : b = CostAt(s, t, k, j, A)
           /\ \E A \in Alignments(i, l) : c = CostAt(s, t, i, l, A)
      BY <3>4 DEF Best
    <3> DEFINE step == IF s[i] = t[j] THEN 0 ELSE 1
    <3>14. step \in Nat
      OBVIOUS
    <3> HIDE DEF a, b, c, e, step
    <3>15. ASSUME NEW B \in Alignments(i, j)
           PROVE  e <= CostAt(s, t, i, j, B)
      <4>1. CASE B \in Alignments(k, j)
        <5>1. b <= CostAt(s, t, k, j, B) /\ CostAt(s, t, k, j, B) \in Int
          BY <3>10, <3>13, <4>1
        <5>2. CostAt(s, t, i, j, B) = CostAt(s, t, k, j, B) + 1
          BY <3>10, <4>1
        <5> QED
          BY <3>2, <3>7, <5>1, <5>2
      <4>2. CASE B \in Alignments(i, l)
        <5>1. c <= CostAt(s, t, i, l, B) /\ CostAt(s, t, i, l, B) \in Int
          BY <3>11, <3>13, <4>2
        <5>2. CostAt(s, t, i, j, B) = CostAt(s, t, i, l, B) + 1
          BY <3>11, <4>2
        <5> QED
          BY <3>2, <3>7, <5>1, <5>2
      <4>3. CASE \E A \in Alignments(k, l) : B = A \cup {<<i, j>>}
        <5>1. PICK A \in Alignments(k, l) : B = A \cup {<<i, j>>}
          BY <4>3
        <5>2. a <= CostAt(s, t, k, l, A) /\ CostAt(s, t, k, l, A) \in Int
          BY <3>9, <3>13
        <5>3. CostAt(s, t, i, j, B) = CostAt(s, t, k, l, A) + step
          BY <3>9, <5>1, <5>2 DEF step
        <5>4. e <= a + step
          BY <3>7 DEF step
        <5> QED
          BY <3>2, <3>14, <5>2, <5>3, <5>4
      <4> QED
        BY <3>12, <4>1, <4>2, <4>3
    <3>16. \E B \in Alignments(i, j) : e = CostAt(s, t, i, j, B)
      <4>1. CASE e = b + 1
        BY <3>10, <3>13, <4>1
      <4>2. CASE e = c + 1
        BY <3>11, <3>13, <4>2
      <4>3. CASE e = a + step
        <5>1. PICK A \in Alignments(k, l) : a = CostAt(s, t, k, l, A)
          BY <3>13
        <5> DEFINE B == A \cup {<<i, j>>}
        <5>2. B = A \cup {<<i, j>>}
          OBVIOUS
        <5> HIDE DEF B
        <5>3. B \in Alignments(i, j) /\ CostAt(s, t, i, j, B) = CostAt(s, t, k, l, A) + step
          BY <3>9, <5>2 DEF step
        <5> QED
          BY <4>3, <5>1, <5>3
      <4>4. e \in {b + 1, c + 1, a + step}
        BY <3>8 DEF step
      <4> QED
        BY <4>1, <4>2, <4>3, <4>4
    <3>17. Best(s, t, d, i, j)
      BY <3>15, <3>16 DEF Best, e
    <3> QED
      BY <1>4, <2>0, <3>17
  <2> QED
    BY <2>1, <2>2
<1>6. \A i \in 0..m, j \in 0..n : <<i, j>> \in T
  <2>1. ASSUME NEW i \in 0..m, NEW j \in 0..n,
               \A a \in 0..m, b \in 0..n : a + b < i + j => <<a, b>> \in T
        PROVE  <<i, j>> \in T
    BY <1>1, <1>5, <2>1
  <2> QED
    BY <1>1, <2>1, CellInduction
<1> QED
  BY <1>4, <1>6 DEF d, m, n

\* The edit script is as short as an alignment allows, for lists of any length
\* (jsonpatch.go 274-303: the table counts what the backtrace emits).
THEOREM ScriptsAreShortest == Spec => []ScriptIsShortest
<1>1. ASSUME NEW s \in Lists, NEW t \in Lists
      PROVE  Len(EditScript(s, t)) =
                Min({Cost(s, t, A) : A \in AlignmentsOf[<<Len(s), Len(t)>>]})
  <2>1. s \in Seq(Atom) /\ t \in Seq(Atom) /\ Len(s) <= MaxLen /\ Len(t) <= MaxLen
    BY ListsAre
  <2>2. Len(s) \in Nat /\ Len(t) \in Nat
    BY <2>1, LenProperties
  <2>3. AlignmentsOf[<<Len(s), Len(t)>>] = Alignments(Len(s), Len(t))
    <3>1. <<Len(s), Len(t)>> \in (0..MaxLen) \X (0..MaxLen)
      BY <2>1, <2>2, PatchBounds
    <3> QED
      BY <3>1 DEF AlignmentsOf, Alignments, Increasing
  <2> DEFINE e == EditDistance(s, t)[<<Len(s), Len(t)>>]
             costs == {Cost(s, t, A) : A \in Alignments(Len(s), Len(t))}
  <2>4. \A A : Cost(s, t, A) = CostAt(s, t, Len(s), Len(t), A)
    BY DEF Cost, CostAt, Differing
  <2>5. e \in costs /\ \A x \in costs : e <= x
    <3>1. Best(s, t, EditDistance(s, t), Len(s), Len(t))
      BY <2>2, DistanceIsBest
    <3> QED
      BY <2>4, <3>1 DEF Best
  <2>6. costs \subseteq Int
    BY <2>2, <2>4, AlignmentFinite
  <2>7. Len(EditScript(s, t)) = e
    BY <2>1, ScriptLength
  <2> HIDE DEF e, costs
  <2>8. Min(costs) = e
    BY <2>5, <2>6, MinIs
  <2> QED
    BY <2>3, <2>7, <2>8 DEF costs
<1>2. ListsOnly => ScriptIsShortest
  BY <1>1 DEF ListsOnly, ScriptIsShortest
<1> QED
  BY <1>2, ListsInvariant, PTL

---------------------------------------------------------------------------
(* The operations on an array of objects, one by one                        *)

\* A section of an array, and the section that is one longer at its end.
LEMMA Sections ==
    ASSUME NEW V, NEW s \in Seq(V), NEW a \in Nat, a > 0
    PROVE  /\ \A b \in Nat : b <= Len(s) => SubSeq(s, a, b) \in Seq(V)
           /\ \A b \in Nat : b <= Len(s) /\ a <= b + 1 => Len(SubSeq(s, a, b)) = b + 1 - a
           /\ \A b \in Nat : b < Len(s) /\ a <= b + 1 =>
                 SubSeq(s, a, b + 1) = SubSeq(s, a, b) \o <<s[b + 1]>>
<1>1. Len(s) \in Nat /\ \A i \in 1..Len(s) : s[i] \in V
  BY LenProperties, ElementOfSeq
<1>2. ASSUME NEW b \in Nat, b <= Len(s)
      PROVE  /\ SubSeq(s, a, b) \in Seq(V)
             /\ a <= b + 1 => Len(SubSeq(s, a, b)) = b + 1 - a
  <2>1. \A i \in a..b : s[i] \in V
    BY <1>1, <1>2
  <2>2. /\ SubSeq(s, a, b) \in Seq(V)
        /\ Len(SubSeq(s, a, b)) = IF a <= b THEN b - a + 1 ELSE 0
    BY <2>1, SubSeqProperties
  <2> QED
    BY <2>2
<1>3. ASSUME NEW b \in Nat, b < Len(s), a <= b + 1
      PROVE  SubSeq(s, a, b + 1) = SubSeq(s, a, b) \o <<s[b + 1]>>
  <2>1. b + 1 \in 1..Len(s) /\ a \in 1..b + 1 /\ (b + 1) - 1 = b
    BY <1>1, <1>3
  <2> QED
    BY <2>1, SubSeqRecursiveSecond
<1> QED
  BY <1>2, <1>3

\* An array cut in two.
LEMMA CutInTwo ==
    ASSUME NEW V, NEW cur \in Seq(V), NEW k \in Nat, k <= Len(cur)
    PROVE  SubSeq(cur, 1, k) \o SubSeq(cur, k + 1, Len(cur)) = cur
<1> DEFINE p == SubSeq(cur, 1, k)
           q == SubSeq(cur, k + 1, Len(cur))
           n == Len(cur)
<1>1. n \in Nat /\ \A i \in 1..n : cur[i] \in V
  BY LenProperties, ElementOfSeq
<1>2. /\ p \in Seq(V) /\ Len(p) = k
      /\ \A i \in 1..k : p[i] = cur[i]
  BY <1>1, SubSeqProperties
<1>3. /\ q \in Seq(V) /\ Len(q) = n - k
      /\ \A i \in 1..n - k : q[i] = cur[k + i]
  <2>1. \A i \in k + 1..n : cur[i] \in V
    BY <1>1
  <2>2. q \in Seq(V) /\ Len(q) = (IF k + 1 <= n THEN n - (k + 1) + 1 ELSE 0)
    BY <1>1, <2>1, SubSeqProperties
  <2>3. Len(q) = n - k
    BY <1>1, <2>2
  <2>4. \A i \in 1..n - k : q[i] = cur[k + 1 + i - 1]
    BY <1>1, <2>1, <2>3, SubSeqProperties
  <2>5. \A i \in 1..n - k : k + 1 + i - 1 = k + i
    BY <1>1
  <2> QED
    BY <2>2, <2>3, <2>4, <2>5
<1> HIDE DEF p, q, n
<1>4. /\ p \o q \in Seq(V) /\ Len(p \o q) = n
      /\ \A i \in 1..n : (p \o q)[i] = IF i <= k THEN p[i] ELSE q[i - k]
  <2>1. k + (n - k) = n
    BY <1>1
  <2>2. p \o q \in Seq(V) /\ Len(p \o q) = Len(p) + Len(q)
    BY <1>2, <1>3, ConcatProperties
  <2>3. \A i \in 1..Len(p) + Len(q) : (p \o q)[i] = IF i <= Len(p) THEN p[i] ELSE q[i - Len(p)]
    BY <1>2, <1>3, ConcatProperties
  <2> QED
    BY <1>2, <1>3, <2>1, <2>2, <2>3
<1>5. \A i \in 1..n : (p \o q)[i] = cur[i]
  <2> SUFFICES ASSUME NEW i \in 1..n
               PROVE  (p \o q)[i] = cur[i]
    OBVIOUS
  <2>1. CASE i <= k
    <3>1. i \in 1..k
      BY <2>1
    <3> QED
      BY <1>2, <1>4, <2>1, <3>1
  <2>2. CASE ~(i <= k)
    <3>1. i - k \in 1..n - k /\ k + (i - k) = i
      BY <1>1, <2>2
    <3> QED
      BY <1>3, <1>4, <2>2, <3>1
  <2> QED
    BY <2>1, <2>2
<1>6. p \o q = cur
  BY <1>4, <1>5, SeqEqual DEF n
<1> QED
  BY <1>6 DEF p, q, n

\* The removals of a tail, from its end to its beginning.
LEMMA Removals ==
    ASSUME NEW V, NEW cur \in Seq(V), NEW m \in Nat, NEW n \in Nat, n < m
    PROVE  LET ops == [i \in 1..(m - n) |-> RemoveOp(m - i)]
           IN  /\ ops \in Seq(OpOver(V))
               /\ ApplyOps(ops, cur) =
                     IF Len(cur) < m THEN Failed
                     ELSE Ok(SubSeq(cur, 1, n) \o SubSeq(cur, m + 1, Len(cur)))
<1> DEFINE ops == [i \in 1..(m - n) |-> RemoveOp(m - i)]
           tail == SubSeq(cur, m + 1, Len(cur))
<1>1. Len(cur) \in Nat /\ m - n \in Nat
  BY LenProperties
<1>2. ops \in Seq(OpOver(V)) /\ Len(ops) = m - n /\ \A i \in 1..m - n : ops[i] = RemoveOp(m - i)
  <2>1. \A i \in 1..m - n : RemoveOp(m - i) \in OpOver(V)
    BY DEF RemoveOp, OpOver
  <2>2. ops \in [1..m - n -> OpOver(V)]
    BY <2>1
  <2> HIDE DEF OpOver
  <2> QED
    BY <1>1, <2>2, SeqDef, LenProperties
<1>3. tail \in Seq(V)
  BY <1>1, Sections
<1> HIDE DEF ops, tail
<1>4. CASE Len(cur) < m
  <2> DEFINE run == [k \in 0..m - n |-> IF k = 0 THEN Ok(cur) ELSE Failed]
  <2>1. ASSUME NEW k \in 1..m - n
        PROVE  run[k] = After(run[k - 1], ops[k])
    <3>1. k \in 0..m - n /\ k - 1 \in 0..m - n /\ k # 0
      BY <1>1
    <3>2. CASE k = 1
      <4>1. ApplyOp(cur, RemoveOp(m - 1)) = Failed
        <5>1. ~(m - 1 < Len(cur))
          BY <1>1, <1>4
        <5> QED
          BY <5>1 DEF ApplyOp, RemoveOp
      <4>2. ops[1] = RemoveOp(m - 1)
        BY <1>2, <3>2
      <4>3. After(Ok(cur), ops[1]) = Failed
        BY <4>1, <4>2 DEF After, Ok
      <4> QED
        BY <3>1, <3>2, <4>3
    <3>3. CASE k # 1
      <4>1. After(Failed, ops[k]) = Failed
        BY DEF After, Failed
      <4>2. k - 1 # 0
        BY <3>1, <3>3
      <4> QED
        BY <3>1, <4>1, <4>2
    <3> QED
      BY <3>2, <3>3
  <2>2. run[0] = Ok(cur) /\ run[m - n] = Failed
    BY <1>1
  <2> HIDE DEF run
  <2>3. IsRun(run, ops, cur)
    BY <1>2, <2>1, <2>2 DEF IsRun
  <2>4. ApplyOps(ops, cur) = Failed
    BY <1>2, <2>2, <2>3, ApplyOpsIs
  <2> QED
    BY <1>2, <1>4, <2>4 DEF ops
<1>5. CASE ~(Len(cur) < m)
  <2> DEFINE run == [k \in 0..m - n |-> Ok(SubSeq(cur, 1, m - k) \o tail)]
  <2>1. ASSUME NEW k \in 1..m - n
        PROVE  run[k] = After(run[k - 1], ops[k])
    <3>1. PICK l \in Nat : m - k = l /\ m - (k - 1) = l + 1 /\ l < Len(cur)
      <4>1. m - k \in Nat /\ m - (k - 1) = (m - k) + 1 /\ m - k < Len(cur)
        BY <1>1, <1>5
      <4> QED
        BY <4>1
    <3>2. k \in 0..m - n /\ k - 1 \in 0..m - n
      BY <1>1
    <3>3. run[k] = Ok(SubSeq(cur, 1, l) \o tail) /\ run[k - 1] = Ok(SubSeq(cur, 1, l + 1) \o tail)
      BY <3>1, <3>2
    <3> DEFINE p == SubSeq(cur, 1, l)
    <3>4. /\ p \in Seq(V) /\ Len(p) = l /\ cur[l + 1] \in V
          /\ SubSeq(cur, 1, l + 1) = p \o <<cur[l + 1]>>
      <4>1. l <= Len(cur) /\ 1 <= l + 1 /\ l + 1 - 1 = l /\ l + 1 \in 1..Len(cur)
        BY <1>1, <3>1
      <4> QED
        BY <3>1, <4>1, Sections, ElementOfSeq
    <3> HIDE DEF p
    <3>5. ApplyOp((p \o <<cur[l + 1]>>) \o tail, RemoveOp(Len(p))) = Ok(p \o tail)
      BY <1>3, <3>4, RemoveBetween
    <3>6. ops[k] = RemoveOp(l)
      BY <1>2, <3>1
    <3>7. After(Ok((p \o <<cur[l + 1]>>) \o tail), ops[k]) = Ok(p \o tail)
      BY <3>4, <3>5, <3>6 DEF After, Ok
    <3> QED
      BY <3>3, <3>4, <3>7 DEF p
  <2>2. run[0] = Ok(cur)
    <3>1. m - 0 = m /\ 0 \in 0..m - n /\ m <= Len(cur)
      BY <1>1, <1>5
    <3>2. SubSeq(cur, 1, m) \o tail = cur
      BY <3>1, CutInTwo DEF tail
    <3> QED
      BY <3>1, <3>2
  <2>3. run[m - n] = Ok(SubSeq(cur, 1, n) \o tail)
    <3>1. m - n \in 0..m - n /\ m - (m - n) = n
      BY <1>1
    <3> QED
      BY <3>1
  <2> HIDE DEF run
  <2>4. IsRun(run, ops, cur)
    BY <1>2, <2>1, <2>2 DEF IsRun
  <2>5. ApplyOps(ops, cur) = Ok(SubSeq(cur, 1, n) \o tail)
    BY <1>2, <2>3, <2>4, ApplyOpsIs
  <2> QED
    BY <1>2, <1>5, <2>5 DEF ops, tail
<1> QED
  BY <1>4, <1>5

\* The additions of a tail, from its beginning to its end.
LEMMA Additions ==
    ASSUME NEW V, NEW cur \in Seq(V), NEW t \in Seq(V), NEW m \in Nat, NEW n \in Nat,
           m < n, n <= Len(t)
    PROVE  LET ops == [i \in 1..(n - m) |-> AddOp(m + i - 1, t[m + i])]
           IN  /\ ops \in Seq(OpOver(V))
               /\ ApplyOps(ops, cur) =
                     IF Len(cur) < m THEN Failed
                     ELSE Ok((SubSeq(cur, 1, m) \o SubSeq(t, m + 1, n))
                                \o SubSeq(cur, m + 1, Len(cur)))
<1> DEFINE ops == [i \in 1..(n - m) |-> AddOp(m + i - 1, t[m + i])]
           head == SubSeq(cur, 1, m)
           tail == SubSeq(cur, m + 1, Len(cur))
<1>1. Len(cur) \in Nat /\ Len(t) \in Nat /\ n - m \in Nat /\ \A i \in 1..Len(t) : t[i] \in V
  BY LenProperties, ElementOfSeq
<1>2. /\ ops \in Seq(OpOver(V)) /\ Len(ops) = n - m
      /\ \A i \in 1..n - m : ops[i] = AddOp(m + i - 1, t[m + i])
  <2>1. \A i \in 1..n - m : AddOp(m + i - 1, t[m + i]) \in OpOver(V)
    <3> SUFFICES ASSUME NEW i \in 1..n - m
                 PROVE  AddOp(m + i - 1, t[m + i]) \in OpOver(V)
      OBVIOUS
    <3>1. m + i \in 1..Len(t) /\ m + i - 1 \in Nat
      BY <1>1
    <3> QED
      BY <1>1, <3>1 DEF AddOp, OpOver
  <2>2. ops \in [1..n - m -> OpOver(V)]
    BY <2>1
  <2>3. \A i \in 1..n - m : ops[i] = AddOp(m + i - 1, t[m + i])
    OBVIOUS
  <2> HIDE DEF OpOver, ops
  <2>4. ops \in Seq(OpOver(V)) /\ Len(ops) = n - m
    BY <1>1, <2>2, SeqDef, LenProperties
  <2> QED
    BY <2>3, <2>4
<1>3. tail \in Seq(V)
  BY <1>1, Sections
<1> HIDE DEF ops, tail
<1>4. CASE Len(cur) < m
  <2> DEFINE run == [k \in 0..n - m |-> IF k = 0 THEN Ok(cur) ELSE Failed]
  <2>1. ASSUME NEW k \in 1..n - m
        PROVE  run[k] = After(run[k - 1], ops[k])
    <3>1. k \in 0..n - m /\ k - 1 \in 0..n - m /\ k # 0
      BY <1>1
    <3>2. CASE k = 1
      <4>1. \A v : ApplyOp(cur, AddOp(m, v)) = Failed
        <5>1. ~(m =< Len(cur))
          BY <1>1, <1>4
        <5> QED
          BY <5>1 DEF ApplyOp, AddOp
      <4>2. ops[1] = AddOp(m, t[m + 1])
        <5>1. m + 1 - 1 = m
          OBVIOUS
        <5> QED
          BY <1>2, <3>2, <5>1
      <4>3. After(Ok(cur), ops[1]) = Failed
        BY <4>1, <4>2 DEF After, Ok
      <4> QED
        BY <3>1, <3>2, <4>3
    <3>3. CASE k # 1
      <4>1. After(Failed, ops[k]) = Failed
        BY DEF After, Failed
      <4>2. k - 1 # 0
        BY <3>1, <3>3
      <4> QED
        BY <3>1, <4>1, <4>2
    <3> QED
      BY <3>2, <3>3
  <2>2. run[0] = Ok(cur) /\ run[n - m] = Failed
    BY <1>1
  <2> HIDE DEF run
  <2>3. IsRun(run, ops, cur)
    BY <1>2, <2>1, <2>2 DEF IsRun
  <2>4. ApplyOps(ops, cur) = Failed
    BY <1>2, <2>2, <2>3, ApplyOpsIs
  <2> QED
    BY <1>2, <1>4, <2>4 DEF ops
<1>5. CASE ~(Len(cur) < m)
  <2>0. head \in Seq(V) /\ Len(head) = m /\ m <= Len(cur)
    <3>1. m <= Len(cur) /\ 1 <= m + 1 /\ m + 1 - 1 = m
      BY <1>1, <1>5
    <3> QED
      BY <3>1, Sections
  <2> HIDE DEF head
  <2> DEFINE run == [k \in 0..n - m |-> Ok((head \o SubSeq(t, m + 1, m + k)) \o tail)]
  <2>1. ASSUME NEW k \in 1..n - m
        PROVE  run[k] = After(run[k - 1], ops[k])
    <3>1. PICK l \in Nat : k = l + 1 /\ k - 1 = l /\ m + l < Len(t)
      <4>1. k - 1 \in Nat /\ k = (k - 1) + 1 /\ m + (k - 1) < Len(t)
        BY <1>1
      <4> QED
        BY <4>1
    <3>2. k \in 0..n - m /\ l \in 0..n - m
      BY <1>1, <3>1
    <3> DEFINE q == SubSeq(t, m + 1, m + l)
    <3>3. run[k] = Ok((head \o SubSeq(t, m + 1, m + k)) \o tail) /\ run[l] = Ok((head \o q) \o tail)
      BY <3>2
    <3>4. /\ q \in Seq(V) /\ Len(q) = l /\ t[m + k] \in V
          /\ SubSeq(t, m + 1, m + k) = q \o <<t[m + k]>>
      <4>1. /\ m + l \in Nat /\ m + l <= Len(t) /\ m + 1 <= m + l + 1 /\ m + l + 1 - (m + 1) = l
            /\ m + k = m + l + 1 /\ m + 1 \in Nat /\ m + 1 > 0 /\ m + l + 1 \in 1..Len(t)
        BY <1>1, <3>1
      <4>2. SubSeq(t, m + 1, m + l + 1) = SubSeq(t, m + 1, m + l) \o <<t[m + l + 1]>>
        BY <3>1, <4>1, Sections
      <4>3. q \in Seq(V) /\ Len(q) = l
        BY <4>1, Sections
      <4> QED
        BY <1>1, <4>1, <4>2, <4>3
    <3> HIDE DEF q
    <3>5. /\ head \o q \in Seq(V) /\ Len(head \o q) = m + l
          /\ head \o (q \o <<t[m + k]>>) = (head \o q) \o <<t[m + k]>>
      BY <2>0, <3>4
    <3>6. ApplyOp((head \o q) \o tail, AddOp(Len(head \o q), t[m + k]))
             = Ok(((head \o q) \o <<t[m + k]>>) \o tail)
      BY <1>3, <3>4, <3>5, AddBetween
    <3>7. ops[k] = AddOp(m + l, t[m + k])
      <4>1. m + k - 1 = m + l
        BY <3>1
      <4> QED
        BY <1>2, <4>1
    <3>8. After(Ok((head \o q) \o tail), ops[k]) = Ok(((head \o q) \o <<t[m + k]>>) \o tail)
      BY <3>5, <3>6, <3>7 DEF After, Ok
    <3> QED
      BY <3>1, <3>3, <3>4, <3>5, <3>8
  <2>2. run[0] = Ok(cur)
    <3>1. m + 0 = m /\ 0 \in 0..n - m /\ m + 1 > m
      BY <1>1
    <3>2. head \o tail = cur
      BY <2>0, CutInTwo DEF head, tail
    <3>3. SubSeq(t, m + 1, m) = <<>>
      BY <3>1, SubSeqEmpty
    <3>4. head \o <<>> = head
      BY <2>0, ConcatEmptySeq
    <3> QED
      BY <3>1, <3>2, <3>3, <3>4
  <2>3. run[n - m] = Ok((head \o SubSeq(t, m + 1, n)) \o tail)
    <3>1. n - m \in 0..n - m /\ m + (n - m) = n
      BY <1>1
    <3> QED
      BY <3>1
  <2> HIDE DEF run
  <2>4. IsRun(run, ops, cur)
    BY <1>2, <2>1, <2>2 DEF IsRun
  <2>5. ApplyOps(ops, cur) = Ok((head \o SubSeq(t, m + 1, n)) \o tail)
    BY <1>2, <2>3, <2>4, ApplyOpsIs
  <2> QED
    BY <1>2, <1>5, <2>5 DEF ops, tail, head
<1> QED
  BY <1>4, <1>5

\* The lists of a list, one after the other.
FlattenStep(w, seqs) ==
    [i \in 1..Len(seqs) |-> IF i = 1 THEN seqs[i] ELSE w[i-1] \o seqs[i]]

LEMMA Flattened ==
    ASSUME NEW seqs, Len(seqs) \in Nat, Len(seqs) > 0
    PROVE  \E g : /\ FlattenSeq(seqs) = g[Len(seqs)]
                  /\ g[1] = seqs[1]
                  /\ \A i \in 1..Len(seqs) : i # 1 => g[i] = g[i-1] \o seqs[i]
<1> DEFINE n == Len(seqs)
           Solves(w, k) == \A i \in 1..k : w[i] = IF i = 1 THEN seqs[i] ELSE w[i-1] \o seqs[i]
           T == {k \in Nat : \E w : Solves(w, k)}
           Solution == CHOOSE w : w = FlattenStep(w, seqs)
<1>1. FlattenSeq(seqs) = Solution[n]
  <2>1. Len(seqs) # 0
    OBVIOUS
  <2> QED
    BY <2>1, Zenon DEF FlattenSeq, FlattenStep
<1> HIDE DEF Solution
<1>2. T = Nat
  <2>1. 0 \in T
    OBVIOUS
  <2>2. ASSUME NEW k \in T
        PROVE  k + 1 \in T
    <3>1. PICK w : Solves(w, k)
      OBVIOUS
    <3> DEFINE e == [i \in 1..k + 1 |-> IF i <= k THEN w[i]
                                        ELSE IF i = 1 THEN seqs[i] ELSE w[i-1] \o seqs[i]]
    <3>2. ASSUME NEW i \in 1..k + 1
          PROVE  e[i] = IF i = 1 THEN seqs[i] ELSE e[i-1] \o seqs[i]
      <4>1. i # 1 => i - 1 \in 1..k + 1 /\ i - 1 <= k
        OBVIOUS
      <4>2. i # 1 => e[i-1] = w[i-1]
        BY <4>1
      <4>3. e[i] = IF i = 1 THEN seqs[i] ELSE w[i-1] \o seqs[i]
        BY <3>1
      <4> HIDE DEF e
      <4> QED
        BY <4>2, <4>3
    <3>3. Solves(e, k + 1)
      <4> HIDE DEF e
      <4> QED
        BY <3>2
    <3> HIDE DEF Solves, e
    <3> QED
      BY <3>3
  <2>3. T \in SUBSET Nat
    OBVIOUS
  <2> HIDE DEF T
  <2> QED
    BY <2>1, <2>2, <2>3, SetInduction
<1>3. PICK v : Solves(v, n)
  <2> HIDE DEF Solves
  <2> QED
    BY <1>2
<1> DEFINE w == [i \in 1..n |-> v[i]]
<1>4. w = FlattenStep(w, seqs)
  <2>1. ASSUME NEW i \in 1..n
        PROVE  w[i] = IF i = 1 THEN seqs[i] ELSE w[i-1] \o seqs[i]
    <3>1. i # 1 => i - 1 \in 1..n
      OBVIOUS
    <3>2. w[i] = IF i = 1 THEN seqs[i] ELSE v[i-1] \o seqs[i]
      BY <1>3
    <3>3. i # 1 => w[i-1] = v[i-1]
      BY <3>1
    <3> HIDE DEF w
    <3> QED
      BY <3>2, <3>3
  <2>2. w = [i \in 1..n |-> w[i]]
    OBVIOUS
  <2> HIDE DEF w
  <2> QED
    BY <2>1, <2>2 DEF FlattenStep
<1>5. Solution = FlattenStep(Solution, seqs)
  <2> HIDE DEF w
  <2> QED
    BY <1>4 DEF Solution
<1>6. \A i \in 1..n : Solution[i] = IF i = 1 THEN seqs[i] ELSE Solution[i-1] \o seqs[i]
  BY <1>5 DEF FlattenStep
<1>7. 1 \in 1..n
  OBVIOUS
<1> QED
  BY <1>1, <1>6, <1>7

\* The operation for a position, and the array once the first k were compared.
Edit(s, t, i) == IF s[i] = t[i] THEN <<>> ELSE <<ReplaceOp(i - 1, t[i])>>

Edited(s, t, k, m) ==
    IF \E i \in 1..k : s[i] # t[i] /\ i > Len(m) THEN Failed
    ELSE Ok([j \in DOMAIN m |-> IF j \in 1..k /\ s[j] # t[j] THEN t[j] ELSE m[j]])

\* A patch joined to another fails when the first fails, and goes on where the
\* first ends.
LEMMA ConcatFails ==
    ASSUME NEW S, NEW a \in Seq(S), NEW b \in Seq(S), NEW cur, ApplyOps(a, cur) = Failed
    PROVE  ApplyOps(a \o b, cur) = Failed
  BY ApplyConcat

LEMMA ConcatGoesOn ==
    ASSUME NEW S, NEW a \in Seq(S), NEW b \in Seq(S), NEW cur, NEW mid,
           ApplyOps(a, cur) = Ok(mid)
    PROVE  ApplyOps(a \o b, cur) = ApplyOps(b, mid)
  BY ApplyConcat

LEMMA EditNext ==
    ASSUME NEW V, NEW s \in Seq(V), NEW t \in Seq(V), NEW m \in Seq(V),
           NEW k \in Nat, k < Len(t), NEW a \in Seq(OpOver(V)),
           ApplyOps(a, m) = Edited(s, t, k, m)
    PROVE  /\ a \o Edit(s, t, k + 1) \in Seq(OpOver(V))
           /\ ApplyOps(a \o Edit(s, t, k + 1), m) = Edited(s, t, k + 1, m)
<1>1. /\ Len(m) \in Nat /\ DOMAIN m = 1..Len(m) /\ \A j \in 1..Len(m) : m[j] \in V
      /\ Len(t) \in Nat /\ \A j \in 1..Len(t) : t[j] \in V
  BY LenProperties, ElementOfSeq
<1>2. \A i \in 1..k + 1 : i \in 1..k \/ i = k + 1
  OBVIOUS
<1>3. \A i \in 1..k : i \in 1..k + 1
  OBVIOUS
<1>4. k + 1 \in 1..k + 1 /\ k + 1 \notin 1..k /\ k + 1 \in 1..Len(t) /\ (k + 1) - 1 = k
  BY <1>1
<1>5. CASE s[k + 1] = t[k + 1]
  <2>1. Edit(s, t, k + 1) = <<>>
    BY <1>5 DEF Edit
  <2>2. a \o Edit(s, t, k + 1) = a
    <3> HIDE DEF OpOver
    <3> QED
      BY <2>1, ConcatEmptySeq
  <2>3. (\E i \in 1..k + 1 : s[i] # t[i] /\ i > Len(m))
           <=> (\E i \in 1..k : s[i] # t[i] /\ i > Len(m))
    BY <1>2, <1>3, <1>5
  <2>4. [j \in DOMAIN m |-> IF j \in 1..k + 1 /\ s[j] # t[j] THEN t[j] ELSE m[j]]
           = [j \in DOMAIN m |-> IF j \in 1..k /\ s[j] # t[j] THEN t[j] ELSE m[j]]
    BY <1>2, <1>3, <1>5
  <2>5. Edited(s, t, k + 1, m) = Edited(s, t, k, m)
    BY <2>3, <2>4, Zenon DEF Edited
  <2> QED
    BY <2>2, <2>5
<1>6. CASE s[k + 1] # t[k + 1]
  <2> DEFINE o == ReplaceOp(k, t[k + 1])
  <2>1. Edit(s, t, k + 1) = <<o>>
    BY <1>4, <1>6 DEF Edit
  <2>2. o \in OpOver(V)
    BY <1>1, <1>4 DEF ReplaceOp, OpOver
  <2>3. <<o>> \in Seq(OpOver(V)) /\ <<o>> \o <<>> = <<o>> /\ <<>> \in Seq(OpOver(V))
    <3> HIDE DEF OpOver, o
    <3> QED
      BY <2>2
  <2>4. a \o <<o>> \in Seq(OpOver(V))
    BY <2>3, ConcatProperties
  <2>5. CASE \E i \in 1..k : s[i] # t[i] /\ i > Len(m)
    <3>1. ApplyOps(a, m) = Failed
      BY <2>5 DEF Edited
    <3>2. ApplyOps(a \o <<o>>, m) = Failed
      <4> DEFINE b == <<o>>
      <4>1. b \in Seq(OpOver(V))
        BY <2>3
      <4> HIDE DEF b, o
      <4>2. ApplyOps(a \o b, m) = Failed
        BY <3>1, <4>1, ConcatFails
      <4> QED
        BY <4>2 DEF b
    <3>3. Edited(s, t, k + 1, m) = Failed
      BY <1>3, <2>5 DEF Edited
    <3> QED
      BY <2>1, <2>4, <3>2, <3>3
  <2>6. CASE ~(\E i \in 1..k : s[i] # t[i] /\ i > Len(m))
    <3> DEFINE x == [j \in DOMAIN m |-> IF j \in 1..k /\ s[j] # t[j] THEN t[j] ELSE m[j]]
               y == [j \in DOMAIN m |-> IF j \in 1..k + 1 /\ s[j] # t[j] THEN t[j] ELSE m[j]]
    <3>1. ApplyOps(a, m) = Ok(x)
      BY <2>6 DEF Edited
    <3>2. x \in Seq(V) /\ Len(x) = Len(m)
      <4>1. \A j \in 1..k : j \in 1..Len(t)
        BY <1>1
      <4>2. x \in [1..Len(m) -> V]
        BY <1>1, <4>1
      <4> HIDE DEF x
      <4> QED
        BY <1>1, <4>2, SeqDef, LenProperties
    <3>3. ApplyOps(a \o <<o>>, m) = ApplyOps(<<o>>, x)
      <4> DEFINE b == <<o>>
      <4>1. b \in Seq(OpOver(V))
        BY <2>3
      <4> HIDE DEF b, o, x
      <4>2. ApplyOps(a \o b, m) = ApplyOps(b, x)
        BY <3>1, <4>1, ConcatGoesOn
      <4> QED
        BY <4>2 DEF b
    <3>4. CASE k < Len(m)
      <4>1. k + 1 \in 1..Len(m)
        BY <1>1, <3>4
      <4>2. [x EXCEPT ![k + 1] = t[k + 1]] = y
        <5>1. x = [j \in 1..Len(m) |-> x[j]] /\ y = [j \in 1..Len(m) |-> y[j]]
          BY <1>1
        <5>2. y[k + 1] = t[k + 1]
          BY <1>1, <1>4, <1>6, <4>1
        <5>3. \A j \in 1..Len(m) : j # k + 1 => y[j] = x[j]
          BY <1>1, <1>2, <1>3
        <5> HIDE DEF x, y
        <5> QED
          BY <4>1, <5>1, <5>2, <5>3
      <4>3. ApplyOp(x, o) = Ok(y)
        <5>1. k < Len(x)
          BY <3>2, <3>4
        <5> HIDE DEF x, y
        <5> QED
          BY <4>2, <5>1 DEF ApplyOp, ReplaceOp, ReplaceAt
      <4>4. ApplyOps(<<o>>, x) = Ok(y)
        <5> HIDE DEF x, y, o
        <5> DEFINE none == <<>>
        <5>1. ApplyOps(<<o>> \o none, x) = ApplyOps(none, y)
          <6>1. none \in Seq(OpOver(V))
            BY <2>3
          <6> HIDE DEF none
          <6> QED
            BY <2>2, <4>3, <6>1, ApplyFirst
        <5> QED
          BY <2>3, <5>1, ApplyNone
      <4>5. Edited(s, t, k + 1, m) = Ok(y)
        <5>1. ~(\E i \in 1..k + 1 : s[i] # t[i] /\ i > Len(m))
          BY <1>2, <2>6, <4>1
        <5> QED
          BY <5>1, Zenon DEF Edited
      <4> QED
        BY <2>1, <2>4, <3>3, <4>4, <4>5
    <3>5. CASE ~(k < Len(m))
      <4>1. ApplyOp(x, o) = Failed
        <5>1. ~(k < Len(x))
          BY <3>2, <3>5
        <5> HIDE DEF x
        <5> QED
          BY <5>1 DEF ApplyOp, ReplaceOp
      <4>2. ApplyOps(<<o>>, x) = Failed
        <5> HIDE DEF x, o, OpOver
        <5>1. PICK run : IsRun(run, <<o>>, x) /\ ApplyOps(<<o>>, x) = run[Len(<<o>>)]
          BY <2>3, ApplyOpsRuns
        <5>2. Len(<<o>>) = 1 /\ <<o>>[1] = o /\ 1 \in 1..1 /\ 1 - 1 = 0
          OBVIOUS
        <5>3. run[1] = After(run[0], o) /\ run[0] = Ok(x)
          BY <5>1, <5>2 DEF IsRun
        <5>4. After(Ok(x), o) = ApplyOp(x, o)
          BY DEF After, Ok
        <5> QED
          BY <4>1, <5>1, <5>2, <5>3, <5>4
      <4>3. Edited(s, t, k + 1, m) = Failed
        <5>1. k + 1 > Len(m)
          BY <1>1, <3>5
        <5> QED
          BY <1>4, <1>6, <5>1, Zenon DEF Edited
      <4> QED
        BY <2>1, <2>4, <3>3, <4>2, <4>3
    <3> QED
      BY <3>4, <3>5
  <2> QED
    BY <2>5, <2>6
<1> QED
  BY <1>5, <1>6

\* The replacements of the positions two arrays share, in their order.
LEMMA Replacements ==
    ASSUME NEW V, NEW s \in Seq(V), NEW t \in Seq(V), NEW m \in Seq(V),
           NEW n \in Nat, n <= Len(t)
    PROVE  LET ops == FlattenSeq([i \in 1..n |-> Edit(s, t, i)])
           IN  ops \in Seq(OpOver(V)) /\ ApplyOps(ops, m) = Edited(s, t, n, m)
<1> DEFINE seqs == [i \in 1..n |-> Edit(s, t, i)]
           ops == FlattenSeq(seqs)
<1>1. /\ Len(t) \in Nat /\ DOMAIN m = 1..Len(m)
      /\ Len(seqs) = n /\ \A i \in 1..n : seqs[i] = Edit(s, t, i)
  <2>1. \A i \in 1..n : seqs[i] = Edit(s, t, i)
    OBVIOUS
  <2>2. seqs \in [1..n -> {Edit(s, t, i) : i \in 1..n}]
    OBVIOUS
  <2> HIDE DEF seqs
  <2>3. Len(seqs) = n
    BY <2>2, SeqDef, LenProperties
  <2> QED
    BY <2>1, <2>3, LenProperties
<1>2. ApplyOps(<<>>, m) = Edited(s, t, 0, m) /\ <<>> \in Seq(OpOver(V))
  <2>1. ~(\E i \in 1..0 : s[i] # t[i] /\ i > Len(m))
    OBVIOUS
  <2>2. [j \in DOMAIN m |-> IF j \in 1..0 /\ s[j] # t[j] THEN t[j] ELSE m[j]] = m
    BY <1>1
  <2>3. Edited(s, t, 0, m) = Ok(m)
    BY <2>1, <2>2, Zenon DEF Edited
  <2> QED
    BY <2>3, ApplyNone, EmptySeq
<1>3. CASE n = 0
  <2>1. seqs = <<>>
    BY <1>3
  <2>2. ops = seqs
    BY <1>1, <1>3, Zenon DEF FlattenSeq
  <2> QED
    BY <1>2, <1>3, <2>1, <2>2
<1>4. CASE n > 0
  <2> HIDE DEF seqs
  <2>1. PICK g : /\ FlattenSeq(seqs) = g[n]
                 /\ g[1] = seqs[1]
                 /\ \A i \in 1..n : i # 1 => g[i] = g[i-1] \o seqs[i]
    BY <1>1, <1>4, Flattened
  <2> DEFINE Good(k) == g[k] \in Seq(OpOver(V)) /\ ApplyOps(g[k], m) = Edited(s, t, k, m)
             T == {k \in Nat : k + 1 <= n => Good(k + 1)}
  <2>2. Good(1)
    <3>1. /\ <<>> \o Edit(s, t, 0 + 1) \in Seq(OpOver(V))
          /\ ApplyOps(<<>> \o Edit(s, t, 0 + 1), m) = Edited(s, t, 0 + 1, m)
      <4>1. 0 < Len(t)
        BY <1>1, <1>4
      <4> DEFINE none == <<>>
      <4>2. none \in Seq(OpOver(V)) /\ ApplyOps(none, m) = Edited(s, t, 0, m) /\ 0 \in Nat
        BY <1>2
      <4> HIDE DEF none
      <4>3. /\ none \o Edit(s, t, 0 + 1) \in Seq(OpOver(V))
            /\ ApplyOps(none \o Edit(s, t, 0 + 1), m) = Edited(s, t, 0 + 1, m)
        BY <4>1, <4>2, EditNext
      <4> QED
        BY <4>3 DEF none
    <3>2. 0 + 1 = 1 /\ 1 \in 1..n
      BY <1>4
    <3>3. <<>> \o Edit(s, t, 1) = Edit(s, t, 1)
      BY DEF Edit
    <3>4. g[1] = Edit(s, t, 1)
      BY <1>1, <2>1, <3>2
    <3> QED
      BY <3>1, <3>2, <3>3, <3>4
  <2>3. ASSUME NEW k \in Nat, k + 1 < n, Good(k + 1)
        PROVE  Good((k + 1) + 1)
    <3>1. /\ (k + 1) + 1 \in 1..n /\ (k + 1) + 1 # 1 /\ ((k + 1) + 1) - 1 = k + 1
          /\ k + 1 \in Nat /\ k + 1 < Len(t)
      BY <1>1, <2>3
    <3>2. g[(k + 1) + 1] = g[k + 1] \o Edit(s, t, (k + 1) + 1)
      BY <1>1, <2>1, <3>1
    <3> HIDE DEF OpOver
    <3>3. /\ g[k + 1] \o Edit(s, t, (k + 1) + 1) \in Seq(OpOver(V))
          /\ ApplyOps(g[k + 1] \o Edit(s, t, (k + 1) + 1), m) = Edited(s, t, (k + 1) + 1, m)
      BY <2>3, <3>1, EditNext
    <3> QED
      BY <3>2, <3>3
  <2>4. T = Nat
    <3> HIDE DEF Good
    <3>1. 0 \in T
      BY <2>2
    <3>2. ASSUME NEW k \in T
          PROVE  k + 1 \in T
      <4>1. (k + 1) + 1 <= n => k + 1 < n /\ k + 1 <= n
        OBVIOUS
      <4> QED
        BY <2>3, <4>1
    <3>3. T \in SUBSET Nat
      OBVIOUS
    <3> HIDE DEF T
    <3> QED
      BY <3>1, <3>2, <3>3, SetInduction
  <2>5. Good(n)
    <3> HIDE DEF Good
    <3>1. n - 1 \in Nat /\ (n - 1) + 1 = n
      BY <1>4
    <3>2. n - 1 \in T
      BY <2>4, <3>1
    <3> QED
      BY <3>1, <3>2
  <2> QED
    BY <2>1, <2>5 DEF seqs
<1> QED
  BY <1>3, <1>4

\* Nothing is moved between two arrays of one length.
LEMMA SameLengthMoved ==
    ASSUME NEW V, NEW s \in Seq(V), NEW t \in Seq(V), NEW cur \in Seq(V), Len(s) = Len(t)
    PROVE  Moved(s, t, cur) = cur
<1> DEFINE n == Min({Len(s), Len(t)})
<1>1. Len(s) \in Nat /\ Len(t) \in Nat /\ Len(cur) \in Nat
  BY LenProperties
<1>2. n = Len(s) /\ n = Len(t) /\ n \in Nat
  BY <1>1, MinOfTwo
<1>3. Moved(s, t, cur) =
         (SubSeq(cur, 1, Min({n, Len(cur)})) \o SubSeq(t, n + 1, Len(t)))
            \o SubSeq(cur, Len(s) + 1, Len(cur))
  BY Zenon DEF Moved
<1> HIDE DEF n
<1>4. Min({n, Len(cur)}) = IF n <= Len(cur) THEN n ELSE Len(cur)
  BY <1>1, <1>2, MinOfTwo
<1>5. SubSeq(t, n + 1, Len(t)) = <<>>
  <2>1. n + 1 > Len(t)
    BY <1>2
  <2> QED
    BY <1>1, <1>2, <2>1, SubSeqEmpty
<1>6. CASE n <= Len(cur)
  <2>1. SubSeq(cur, 1, n) \in Seq(V)
    BY <1>1, <1>2, <1>6, Sections
  <2>2. SubSeq(cur, 1, n) \o <<>> = SubSeq(cur, 1, n)
    BY <2>1, ConcatEmptySeq
  <2>3. SubSeq(cur, 1, n) \o SubSeq(cur, n + 1, Len(cur)) = cur
    BY <1>2, <1>6, CutInTwo
  <2> QED
    BY <1>2, <1>3, <1>4, <1>5, <1>6, <2>2, <2>3
<1>7. CASE ~(n <= Len(cur))
  <2>1. SubSeq(cur, 1, Len(cur)) = cur
    BY SubSeqFull
  <2>2. SubSeq(cur, n + 1, Len(cur)) = <<>>
    <3>1. n + 1 > Len(cur)
      BY <1>1, <1>2, <1>7
    <3> QED
      BY <1>1, <1>2, <3>1, SubSeqEmpty
  <2>3. cur \o <<>> = cur
    BY ConcatEmptySeq
  <2> QED
    BY <1>2, <1>3, <1>4, <1>5, <1>7, <2>1, <2>2, <2>3
<1> QED
  BY <1>6, <1>7

\* All operations on an array of objects, against the closed form.
LEMMA ObjectPatch ==
    ASSUME NEW V, NEW s \in Seq(V), NEW t \in Seq(V), NEW cur \in Seq(V), NEW elem,
           \A i \in Shared(s, t) : elem[i] = Ok(t[i])
    PROVE  PatchObjects(s, t, cur, elem) = ApplyOps(ObjectScript(s, t), cur)
<1> DEFINE n == Min({Len(s), Len(t)})
           R == [i \in 1..(Len(s) - n) |-> RemoveOp(Len(s) - i)]
           A == [i \in 1..(Len(t) - n) |-> AddOp(n + i - 1, t[n + i])]
           F == FlattenSeq([i \in 1..n |-> Edit(s, t, i)])
           moved == Moved(s, t, cur)
           short == Len(s) # Len(t) /\ Len(cur) < Len(s)
           changed == {i \in Shared(s, t) : s[i] # t[i]}
<1>1. Len(s) \in Nat /\ Len(t) \in Nat /\ Len(cur) \in Nat
  BY LenProperties
<1>2. ObjectScript(s, t) = (R \o A) \o F
  BY Zenon DEF ObjectScript, Edit
<1>3. /\ n = IF Len(s) <= Len(t) THEN Len(s) ELSE Len(t)
      /\ n \in Nat /\ n <= Len(s) /\ n <= Len(t)
  BY <1>1, MinOfTwo
<1>4. moved = (SubSeq(cur, 1, Min({n, Len(cur)})) \o SubSeq(t, n + 1, Len(t)))
                 \o SubSeq(cur, Len(s) + 1, Len(cur))
  BY Zenon DEF Moved
<1>5. moved \in Seq(V)
  BY MovedIs
<1>6. Shared(s, t) = 1..n
  BY Zenon DEF Shared
<1> HIDE DEF n, moved
<1>7. Min({n, Len(cur)}) = IF n <= Len(cur) THEN n ELSE Len(cur)
  BY <1>1, <1>3, MinOfTwo
<1>8. /\ R \o A \in Seq(OpOver(V))
      /\ short => ApplyOps(R \o A, cur) = Failed
      /\ ~short => ApplyOps(R \o A, cur) = Ok(moved)
  <2>1. CASE Len(t) < Len(s)
    <3>1. n = Len(t)
      BY <1>1, <1>3, <2>1
    <3>2. A = <<>>
      BY <1>1, <3>1
    <3>3. /\ R \in Seq(OpOver(V))
          /\ ApplyOps(R, cur) = IF Len(cur) < Len(s) THEN Failed
                                ELSE Ok(SubSeq(cur, 1, n) \o SubSeq(cur, Len(s) + 1, Len(cur)))
      BY <1>1, <2>1, <3>1, Removals
    <3>4. R \o A = R
      <4> HIDE DEF R, A, OpOver
      <4> QED
        BY <3>2, <3>3, ConcatEmptySeq
    <3>5. ~(Len(cur) < Len(s)) =>
             moved = SubSeq(cur, 1, n) \o SubSeq(cur, Len(s) + 1, Len(cur))
      <4> SUFFICES ASSUME ~(Len(cur) < Len(s))
                   PROVE  moved = SubSeq(cur, 1, n) \o SubSeq(cur, Len(s) + 1, Len(cur))
        OBVIOUS
      <4>1. n <= Len(cur)
        BY <1>1, <2>1, <3>1
      <4>2. SubSeq(t, n + 1, Len(t)) = <<>>
        <5>1. n + 1 > Len(t) /\ n + 1 \in Int /\ Len(t) \in Int
          BY <1>1, <1>3, <3>1
        <5> QED
          BY <5>1, SubSeqEmpty
      <4>3. SubSeq(cur, 1, n) \in Seq(V)
        BY <1>1, <1>3, <4>1, Sections
      <4>4. SubSeq(cur, 1, n) \o <<>> = SubSeq(cur, 1, n)
        BY <4>3, ConcatEmptySeq
      <4> QED
        BY <1>4, <1>7, <4>1, <4>2, <4>4
    <3>6. short <=> Len(cur) < Len(s)
      BY <1>1, <2>1
    <3> HIDE DEF R, A, OpOver, short
    <3> QED
      BY <3>3, <3>4, <3>5, <3>6
  <2>2. CASE Len(s) < Len(t)
    <3>1. n = Len(s)
      BY <1>1, <1>3, <2>2
    <3>2. R = <<>>
      BY <1>1, <3>1
    <3>3. /\ A \in Seq(OpOver(V))
          /\ ApplyOps(A, cur) =
                IF Len(cur) < n THEN Failed
                ELSE Ok((SubSeq(cur, 1, n) \o SubSeq(t, n + 1, Len(t)))
                           \o SubSeq(cur, n + 1, Len(cur)))
      <4>1. /\ [i \in 1..(Len(t) - n) |-> AddOp(n + i - 1, t[n + i])] \in Seq(OpOver(V))
            /\ ApplyOps([i \in 1..(Len(t) - n) |-> AddOp(n + i - 1, t[n + i])], cur) =
                  IF Len(cur) < n THEN Failed
                  ELSE Ok((SubSeq(cur, 1, n) \o SubSeq(t, n + 1, Len(t)))
                             \o SubSeq(cur, n + 1, Len(cur)))
        <5>1. n \in Nat /\ Len(t) \in Nat /\ n < Len(t) /\ Len(t) <= Len(t)
          BY <1>1, <1>3, <2>2, <3>1
        <5> QED
          BY <5>1, Zenon, Additions
      <4> QED
        BY <4>1, Zenon
    <3>4. R \o A = A
      <4> HIDE DEF R, A, OpOver
      <4> QED
        BY <3>2, <3>3, ConcatEmptySeq
    <3>5. ~(Len(cur) < n) =>
             moved = (SubSeq(cur, 1, n) \o SubSeq(t, n + 1, Len(t))) \o SubSeq(cur, n + 1, Len(cur))
      <4> SUFFICES ASSUME ~(Len(cur) < n)
                   PROVE  moved = (SubSeq(cur, 1, n) \o SubSeq(t, n + 1, Len(t)))
                                     \o SubSeq(cur, n + 1, Len(cur))
        OBVIOUS
      <4>1. n <= Len(cur)
        BY <1>1, <1>3
      <4>2. Min({n, Len(cur)}) = n
        BY <1>7, <4>1
      <4> QED
        BY <1>4, <3>1, <4>2, Zenon
    <3>6. short <=> Len(cur) < n
      BY <1>1, <2>2, <3>1
    <3> HIDE DEF R, A, OpOver, short
    <3> QED
      BY <3>3, <3>4, <3>5, <3>6
  <2>3. CASE Len(s) = Len(t)
    <3>1. n = Len(s) /\ n = Len(t)
      BY <1>1, <1>3, <2>3
    <3>2. R = <<>> /\ A = <<>>
      BY <1>1, <3>1
    <3>3. R \o A = <<>> /\ <<>> \in Seq(OpOver(V))
      BY <3>2, EmptySeq
    <3>4. moved = cur
      BY <2>3, SameLengthMoved DEF moved
    <3>5. ~short
      BY <2>3
    <3> HIDE DEF R, A, OpOver, short
    <3> QED
      BY <3>3, <3>4, <3>5, ApplyNone
  <2> QED
    BY <1>1, <2>1, <2>2, <2>3
<1>9. F \in Seq(OpOver(V)) /\ ApplyOps(F, moved) = Edited(s, t, n, moved)
  BY <1>3, <1>5, Replacements
<1> HIDE DEF R, A, F, OpOver
<1>10. /\ short => ApplyOps((R \o A) \o F, cur) = Failed
       /\ ~short => ApplyOps((R \o A) \o F, cur) = Edited(s, t, n, moved)
  <2> HIDE DEF short
  <2>1. CASE short
    <3>1. ApplyOps(R \o A, cur) = Failed
      BY <1>8, <2>1
    <3>2. R \o A \in Seq(OpOver(V)) /\ F \in Seq(OpOver(V))
      BY <1>8, <1>9
    <3>3. ApplyOps((R \o A) \o F, cur) = Failed
      BY <3>1, <3>2, ConcatFails, Zenon
    <3> QED
      BY <2>1, <3>3
  <2>2. CASE ~short
    <3>1. ApplyOps(R \o A, cur) = Ok(moved)
      BY <1>8, <2>2
    <3>2. R \o A \in Seq(OpOver(V)) /\ F \in Seq(OpOver(V))
      BY <1>8, <1>9
    <3>3. ApplyOps((R \o A) \o F, cur) = ApplyOps(F, moved)
      <4> DEFINE RA == R \o A
      <4>1. RA \in Seq(OpOver(V)) /\ ApplyOps(RA, cur) = Ok(moved)
        BY <3>1, <3>2
      <4> HIDE DEF RA
      <4>2. ApplyOps(RA \o F, cur) = ApplyOps(F, moved)
        BY <3>2, <4>1, ConcatGoesOn
      <4> QED
        BY <4>2 DEF RA
    <3> QED
      BY <1>9, <2>2, <3>3
  <2> QED
    BY <2>1, <2>2
<1>11. PatchObjects(s, t, cur, elem) =
          IF short \/ \E i \in changed : i > Len(moved) \/ ~elem[i].ok THEN Failed
          ELSE Ok([i \in DOMAIN moved |-> IF i \in changed THEN elem[i].val ELSE moved[i]])
  BY Zenon DEF PatchObjects, moved
<1>12. \A i \in 1..n : elem[i].ok /\ elem[i].val = t[i]
  <2>1. \A i \in 1..n : elem[i] = Ok(t[i])
    BY <1>6, Zenon
  <2>2. \A v : Ok(v).ok /\ Ok(v).val = v
    BY DEF Ok
  <2> HIDE DEF short, changed
  <2> QED
    BY <2>1, <2>2, Zenon
<1>13. (\E i \in changed : i > Len(moved) \/ ~elem[i].ok)
          <=> (\E i \in 1..n : s[i] # t[i] /\ i > Len(moved))
  BY <1>6, <1>12
<1>14. [i \in DOMAIN moved |-> IF i \in changed THEN elem[i].val ELSE moved[i]]
          = [j \in DOMAIN moved |-> IF j \in 1..n /\ s[j] # t[j] THEN t[j] ELSE moved[j]]
  BY <1>6, <1>12
<1>15. ~short => PatchObjects(s, t, cur, elem) = Edited(s, t, n, moved)
  <2> HIDE DEF short, changed
  <2> QED
    BY <1>11, <1>13, <1>14, Zenon DEF Edited
<1>16. short => PatchObjects(s, t, cur, elem) = Failed
  <2> HIDE DEF short, changed
  <2> QED
    BY <1>11, Zenon
<1> QED
  BY <1>2, <1>10, <1>15, <1>16

\* What PatchObjects says in one formula is what the operations of handleValues do
\* one by one, on any list the server may hold (jsonpatch.go 216-272, patch.go
\* 400-540): the removals and additions at the end, then the replacements, the whole
\* patch failing with the first operation that fails.
THEOREM ObjectPatchesAreScripts == Spec => []ObjectPatchIsItsScript
<1>1. ASSUME NEW s \in Seq(Atom), NEW t \in Seq(Atom), NEW cur \in Seq(Atom),
             s # <<>>, t # <<>>
      PROVE  PatchEgresses(s, t, cur) = ApplyOps(ObjectScript(s, t), cur)
  <2> DEFINE elem == [i \in Shared(s, t) |-> Ok(t[i])]
             edited == PatchObjects(s, t, cur, elem)
             moved == Moved(s, t, cur)
             n == Min({Len(s), Len(t)})
             changed == {i \in Shared(s, t) : s[i] # t[i]}
  <2>1. edited = ApplyOps(ObjectScript(s, t), cur)
    <3>1. \A i \in Shared(s, t) : elem[i] = Ok(t[i])
      OBVIOUS
    <3> HIDE DEF elem
    <3> QED
      BY <3>1, ObjectPatch
  <2>2. PatchEgresses(s, t, cur) = PatchMember(s, t, cur, edited)
    BY Zenon DEF PatchEgresses
  <2>3. edited = IF \/ Len(s) # Len(t) /\ Len(cur) < Len(s)
                    \/ \E i \in changed : i > Len(moved) \/ ~elem[i].ok
                 THEN Failed
                 ELSE Ok([i \in DOMAIN moved |-> IF i \in changed THEN elem[i].val ELSE moved[i]])
    BY Zenon DEF PatchObjects
  <2>4. /\ Len(s) \in Nat /\ Len(t) \in Nat /\ Len(cur) \in Nat
        /\ Len(s) > 0 /\ Len(t) > 0 /\ DOMAIN cur = 1..Len(cur)
    BY <1>1, LenProperties, EmptySeq
  <2>5. /\ n = (IF Len(s) <= Len(t) THEN Len(s) ELSE Len(t)) /\ n \in Nat
        /\ Shared(s, t) = 1..n
    <3>1. Shared(s, t) = 1..n
      BY Zenon DEF Shared
    <3> QED
      BY <2>4, <3>1, MinOfTwo
  <2>6. Len(s) = Len(t) => moved = cur
    <3> SUFFICES ASSUME Len(s) = Len(t)
                 PROVE  moved = cur
      OBVIOUS
    <3> QED
      BY <2>4, SameLengthMoved
  <2>7. CASE s = t
    <3>1. changed = {}
      BY <2>7
    <3>2. moved = cur
      BY <2>6, <2>7
    <3>3. edited = Ok([i \in DOMAIN moved |-> moved[i]])
      <4> HIDE DEF edited, moved, changed, elem
      <4> QED
        BY <2>3, <2>7, <3>1
    <3>4. [i \in DOMAIN cur |-> cur[i]] = cur
      BY <2>4
    <3>5. edited = Ok(cur)
      BY <3>2, <3>3, <3>4, Zenon
    <3> QED
      BY <2>1, <2>2, <2>7, <3>5 DEF PatchMember
  <2>8. CASE s # t /\ cur = <<>>
    <3>1. edited = Failed
      <4>0. Len(cur) = 0
        BY <2>8
      <4>1. CASE Len(s) # Len(t)
        <5> HIDE DEF edited, moved, changed, elem
        <5> QED
          BY <2>3, <2>4, <4>0, <4>1
      <4>2. CASE Len(s) = Len(t)
        <5>1. PICK i \in 1..Len(s) : s[i] # t[i]
          BY <2>8, <4>2, SeqEqual
        <5>2. i \in changed /\ i > Len(moved)
          <6>1. n = Len(s)
            BY <2>4, <2>5, <4>2
          <6>2. i > 0
            BY <2>4
          <6> QED
            BY <2>5, <2>6, <4>0, <4>2, <5>1, <6>1, <6>2
        <5> HIDE DEF edited, moved, changed, elem
        <5> QED
          BY <2>3, <5>2
      <4> QED
        BY <4>1, <4>2
    <3> HIDE DEF edited
    <3> QED
      BY <1>1, <2>1, <2>2, <2>8, <3>1 DEF PatchMember
  <2>9. CASE s # t /\ cur # <<>>
    <3> HIDE DEF edited
    <3> QED
      BY <1>1, <2>1, <2>2, <2>9 DEF PatchMember
  <2> QED
    BY <2>7, <2>8, <2>9
<1>2. ListsOnly => ObjectPatchIsItsScript
  <2>1. ListsOnly => base \in Seq(Atom) /\ doc \in Seq(Atom) /\ Lists \subseteq Seq(Atom)
    BY ListsAre DEF ListsOnly
  <2> QED
    BY <1>1, <2>1 DEF ObjectPatchIsItsScript
<1> QED
  BY <1>2, ListsInvariant, PTL
=============================================================================
