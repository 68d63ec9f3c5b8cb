-------------------------- MODULE JSONPatchProofs --------------------------
(***************************************************************************)
(* What the edit script of two arrays of strings does, for arrays of any   *)
(* length: on the array it was computed from it is exact, and on any other *)
(* it brings in nothing but elements of the wanted array.                  *)
(* A patch of a whole status is exact on the status it was computed from.  *)
(*                                                                         *)
(* The distance, the script and the fold that applies it are recursive     *)
(* functions.  Each is shown to satisfy its equation by extending a        *)
(* partial solution, and a fact about all its values by taking the least   *)
(* argument at which it fails.                                             *)
(***************************************************************************)
EXTENDS JSONPatch, SequenceTheorems, WellFoundedInduction, TLAPS

\* The least element of a set of numbers.
LEMMA LeastNat ==
    ASSUME NEW T \in SUBSET Nat, T # {}
    PROVE  \E m \in T : \A k \in T : m <= k
<1> DEFINE R == OpToRel(<, Nat)
<1>1. IsWellFoundedOn(R, Nat)
  BY NatLessThanWellFounded
<1>2. PICK m \in T : \A k \in T : <<k, m>> \notin R
  <2> HIDE DEF R
  <2> QED
    BY <1>1, WFMin
<1>3. ASSUME NEW k \in T, k < m
      PROVE  <<k, m>> \in R
  BY <1>3 DEF OpToRel
<1>4. ASSUME NEW k \in T
      PROVE  m <= k
  <2> HIDE DEF R
  <2>1. k \in Nat /\ m \in Nat /\ ~(k < m)
    BY <1>2, <1>3
  <2> QED
    BY <2>1
<1> QED
  BY <1>4

\* Induction on the numbers, for the set of those with some property.
LEMMA SetInduction ==
    ASSUME NEW T \in SUBSET Nat, 0 \in T, \A k \in T : k + 1 \in T
    PROVE  T = Nat
<1> DEFINE Rest == Nat \ T
<1>1. ASSUME Rest # {}
      PROVE  FALSE
  <2>1. PICK m \in Rest : \A k \in Rest : m <= k
    BY <1>1, LeastNat
  <2>2. m \in Nat /\ m # 0 /\ m \notin T
    OBVIOUS
  <2>3. m - 1 \in Nat /\ ~(m <= m - 1) /\ (m - 1) + 1 = m
    BY <2>2
  <2>4. m - 1 \in T
    BY <2>1, <2>3
  <2> QED
    BY <2>2, <2>3, <2>4
<1> QED
  BY <1>1

\* Induction on the cells of a table, along i + j.
LEMMA CellInduction ==
    ASSUME NEW m \in Nat, NEW n \in Nat, NEW T,
           \A i \in 0..m, j \in 0..n :
              (\A a \in 0..m, b \in 0..n : a + b < i + j => <<a, b>> \in T) => <<i, j>> \in T
    PROVE  \A i \in 0..m, j \in 0..n : <<i, j>> \in T
<1> DEFINE Rest == {k \in Nat : \E i \in 0..m, j \in 0..n : i + j = k /\ <<i, j>> \notin T}
<1>1. ASSUME Rest # {}
      PROVE  FALSE
  <2>1. PICK k \in Rest : \A l \in Rest : k <= l
    BY <1>1, LeastNat
  <2>2. PICK i \in 0..m, j \in 0..n : i + j = k /\ <<i, j>> \notin T
    BY <2>1
  <2>3. ASSUME NEW a \in 0..m, NEW b \in 0..n, a + b < i + j
        PROVE  <<a, b>> \in T
    <3>1. a + b \in Nat /\ k \in Nat /\ ~(k <= a + b)
      BY <2>2, <2>3
    <3> QED
      BY <2>1, <3>1
  <2> QED
    BY <2>2, <2>3
<1>2. ASSUME NEW i \in 0..m, NEW j \in 0..n
      PROVE  <<i, j>> \in T
  <2>1. i + j \in Nat
    OBVIOUS
  <2> QED
    BY <1>1, <2>1
<1> QED
  BY <1>2

---------------------------------------------------------------------------
(* Applying operations one after the other                                  *)

After(r, o) == IF r.ok THEN ApplyOp(r.val, o) ELSE r

\* The maximum of a set that an element bounds is that element.
LEMMA MaxIs ==
    ASSUME NEW T \in SUBSET Int, NEW k \in T, \A x \in T : x <= k
    PROVE  Max(T) = k
<1>1. \E x \in T : \A y \in T : x >= y
  OBVIOUS
<1>2. Max(T) \in T /\ \A y \in T : Max(T) >= y
  BY <1>1 DEF Max
<1>3. k \in Int /\ Max(T) \in Int /\ Max(T) <= k /\ k <= Max(T)
  <2> HIDE DEF Max
  <2> QED
    BY <1>2
<1> QED
  BY <1>3

\* The fold behind ApplyOps goes over sets of indices, from the greatest down.
FoldStep(w, n, ops, base) ==
    [s \in SUBSET (1..n) |->
        IF s = {} THEN base ELSE After(w[s \ {Max(s)}], ops[Max(s)])]

\* w solves the equation of the fold on the first k indices.
SolvesFold(w, n, k, ops, base) ==
    \A s \in SUBSET (1..k) :
        w[s] = IF s = {} THEN base ELSE After(w[s \ {Max(s)}], ops[Max(s)])

LEMMA FoldExtends ==
    ASSUME NEW n \in Nat, NEW k \in 1..n, NEW ops, NEW base, NEW w,
           SolvesFold(w, n, k - 1, ops, base)
    PROVE  \E v : v = [s \in SUBSET (1..n) |-> v[s]] /\ SolvesFold(v, n, k, ops, base)
<1> DEFINE v == [s \in SUBSET (1..n) |->
                    IF k \in s THEN After(w[s \ {k}], ops[k]) ELSE w[s]]
<1>1. ASSUME NEW s \in SUBSET (1..k)
      PROVE  v[s] = IF s = {} THEN base ELSE After(v[s \ {Max(s)}], ops[Max(s)])
  <2>0. s \in SUBSET (1..n)
    OBVIOUS
  <2>1. CASE k \in s
    <3>1. Max(s) = k
      BY <2>1, MaxIs
    <3>2. s \ {k} \in SUBSET (1..n) /\ k \notin s \ {k}
      BY <2>0
    <3>3. v[s \ {k}] = w[s \ {k}]
      BY <3>2
    <3> QED
      BY <2>0, <2>1, <3>1, <3>3
  <2>2. CASE k \notin s
    <3>1. s \in SUBSET (1..k - 1)
      BY <2>2
    <3>2. w[s] = IF s = {} THEN base ELSE After(w[s \ {Max(s)}], ops[Max(s)])
      BY <3>1 DEF SolvesFold
    <3>3. s \ {Max(s)} \in SUBSET (1..n) /\ k \notin s \ {Max(s)}
      BY <2>0, <2>2
    <3>4. v[s] = w[s] /\ v[s \ {Max(s)}] = w[s \ {Max(s)}]
      BY <2>0, <2>2, <3>3
    <3> QED
      BY <3>2, <3>4
  <2> QED
    BY <2>1, <2>2
<1>2. SolvesFold(v, n, k, ops, base)
  <2> HIDE DEF v
  <2> QED
    BY <1>1 DEF SolvesFold
<1>3. v = [s \in SUBSET (1..n) |-> v[s]]
  OBVIOUS
<1> QED
  <2> HIDE DEF v
  <2> QED
    BY <1>2, <1>3

LEMMA FoldSolution ==
    ASSUME NEW n \in Nat, NEW ops, NEW base
    PROVE  \E w : w = FoldStep(w, n, ops, base)
<1> DEFINE Solved(k) == \E w : w = [s \in SUBSET (1..n) |-> w[s]] /\ SolvesFold(w, n, k, ops, base)
           T == {k \in Nat : k <= n => Solved(k)}
<1>1. Solved(0)
  <2> DEFINE w == [s \in SUBSET (1..n) |-> base]
  <2>1. SolvesFold(w, n, 0, ops, base)
    <3>1. \A s \in SUBSET (1..0) : s = {}
      OBVIOUS
    <3>2. {} \in SUBSET (1..n)
      OBVIOUS
    <3> QED
      BY <3>1, <3>2 DEF SolvesFold
  <2>2. w = [s \in SUBSET (1..n) |-> w[s]]
    OBVIOUS
  <2> HIDE DEF w
  <2> QED
    BY <2>1, <2>2
<1>2. ASSUME NEW k \in 1..n, Solved(k - 1)
      PROVE  Solved(k)
  BY <1>2, FoldExtends
<1>3. Solved(n)
  <2> HIDE DEF Solved
  <2>1. 0 \in T
    BY <1>1
  <2>2. ASSUME NEW k \in T
        PROVE  k + 1 \in T
    <3>1. k \in Nat /\ (k + 1) - 1 = k
      OBVIOUS
    <3>2. CASE k + 1 <= n
      <4>1. Solved((k + 1) - 1) /\ k + 1 \in 1..n
        BY <3>1, <3>2
      <4> QED
        BY <1>2, <3>1, <4>1
    <3>3. CASE ~(k + 1 <= n)
      BY <3>1, <3>3
    <3> QED
      BY <3>2, <3>3
  <2>3. T = Nat
    <3> HIDE DEF T
    <3>1. T \in SUBSET Nat
      BY DEF T
    <3> QED
      BY <2>1, <2>2, <3>1, SetInduction
  <2> QED
    BY <2>3
<1>4. PICK w : w = [s \in SUBSET (1..n) |-> w[s]] /\ SolvesFold(w, n, n, ops, base)
  BY <1>3
<1>5. w = FoldStep(w, n, ops, base)
  BY <1>4 DEF SolvesFold, FoldStep
<1> QED
  BY <1>5

\* ApplyOps applies the operations from the first to the last, run[k] being the
\* outcome of the first k.
IsRun(run, ops, cur) ==
    /\ run[0] = Ok(cur)
    /\ \A k \in 1..Len(ops) : run[k] = After(run[k - 1], ops[k])

LEMMA ApplyOpsRuns ==
    ASSUME NEW S, NEW ops \in Seq(S), NEW cur
    PROVE  \E run : IsRun(run, ops, cur) /\ ApplyOps(ops, cur) = run[Len(ops)]
<1> DEFINE n == Len(ops)
           iter == CHOOSE w : w = FoldStep(w, n, ops, Ok(cur))
           run == [k \in 0..n |-> iter[1..k]]
<1>1. n \in Nat /\ DOMAIN ops = 1..n
  BY LenProperties
<1>2. iter = FoldStep(iter, n, ops, Ok(cur))
  BY <1>1, FoldSolution
<1>3. ApplyOps(ops, cur) = iter[1..n]
  BY <1>1, Zenon DEF ApplyOps, FoldLeft, MapThenFoldSet, FoldStep, After
<1> HIDE DEF iter
<1>4. run[0] = Ok(cur)
  <2>1. 1..0 = {} /\ {} \in SUBSET (1..n) /\ 0 \in 0..n
    BY <1>1
  <2>2. iter[{}] = Ok(cur)
    BY <1>2, <2>1 DEF FoldStep
  <2> QED
    BY <2>1, <2>2
<1>5. ASSUME NEW k \in 1..n
      PROVE  run[k] = After(run[k - 1], ops[k])
  <2>0. k \in Int /\ n \in Int /\ 1 <= k /\ k <= n
    BY <1>1
  <2>1. (1..k) \in SUBSET (1..n) /\ k \in 1..k /\ k \in 0..n /\ k - 1 \in 0..n
    BY <2>0
  <2>2. Max(1..k) = k
    <3>1. (1..k) \in SUBSET Int /\ \A x \in 1..k : x <= k
      BY <2>0
    <3> QED
      BY <2>1, <3>1, MaxIs
  <2>3. (1..k) \ {k} = 1..k - 1
    BY <1>1
  <2>4. iter[1..k] = After(iter[1..k - 1], ops[k])
    BY <1>2, <2>1, <2>2, <2>3 DEF FoldStep
  <2> QED
    BY <2>1, <2>4
<1>6. ApplyOps(ops, cur) = run[n]
  BY <1>1, <1>3
<1> HIDE DEF run
<1>7. IsRun(run, ops, cur)
  BY <1>4, <1>5 DEF IsRun
<1> QED
  BY <1>6, <1>7

\* The outcome of the empty list of operations, and of one with a first operation.
LEMMA ApplyNone == \A cur : ApplyOps(<<>>, cur) = Ok(cur)
  BY ApplyOpsRuns, EmptySeq DEF IsRun

LEMMA ApplyFirst ==
    ASSUME NEW S, NEW o \in S, NEW rest \in Seq(S), NEW cur, NEW next,
           ApplyOp(cur, o) = Ok(next)
    PROVE  ApplyOps(<<o>> \o rest, cur) = ApplyOps(rest, next)
<1> DEFINE ops == <<o>> \o rest
           n == Len(rest)
<1>1. /\ ops \in Seq(S) /\ Len(ops) = n + 1 /\ n \in Nat
      /\ ops[1] = o /\ \A k \in 1..n : ops[k + 1] = rest[k]
  <2>1. <<o>> \in Seq(S) /\ Len(<<o>>) = 1 /\ <<o>>[1] = o
    OBVIOUS
  <2>2. n \in Nat
    BY LenProperties
  <2>3. ops \in Seq(S) /\ Len(ops) = n + 1
    BY <2>1, <2>2, ConcatProperties
  <2>4. \A i \in 1..n + 1 : ops[i] = IF i <= 1 THEN <<o>>[i] ELSE rest[i - 1]
    BY <2>1, <2>2, ConcatProperties
  <2> QED
    BY <2>1, <2>2, <2>3, <2>4
<1> HIDE DEF ops
<1>2. PICK long : IsRun(long, ops, cur) /\ ApplyOps(ops, cur) = long[n + 1]
  BY <1>1, ApplyOpsRuns
<1>3. PICK short : IsRun(short, rest, next) /\ ApplyOps(rest, next) = short[n]
  BY ApplyOpsRuns
<1> DEFINE T == {k \in 0..n : long[k + 1] # short[k]}
<1>4. T = {}
  <2> SUFFICES ASSUME T # {}
               PROVE  FALSE
    OBVIOUS
  <2>1. PICK m \in T : \A k \in T : m <= k
    <3>1. T \in SUBSET Nat
      BY <1>1
    <3> HIDE DEF T
    <3> QED
      BY <3>1, LeastNat
  <2>2. CASE m = 0
    <3>1. long[1] = After(long[0], o) /\ long[0] = Ok(cur) /\ short[0] = Ok(next)
      BY <1>1, <1>2, <1>3 DEF IsRun
    <3>2. After(Ok(cur), o) = Ok(next)
      BY DEF After, Ok
    <3> QED
      BY <2>2, <3>1, <3>2
  <2>3. CASE m # 0
    <3>0. m \in Int /\ n \in Int /\ 1 <= m /\ m <= n /\ ~(m <= m - 1)
      BY <1>1, <2>3
    <3>1. m \in 1..n /\ m - 1 \in 0..n /\ m + 1 \in 1..n + 1 /\ m - 1 \notin T
      BY <2>1, <3>0
    <3>2. long[m] = short[m - 1]
      BY <3>1
    <3>3. long[m + 1] = After(long[m], ops[m + 1]) /\ short[m] = After(short[m - 1], rest[m])
      BY <1>1, <1>2, <1>3, <3>1 DEF IsRun
    <3> QED
      BY <1>1, <3>1, <3>2, <3>3
  <2> QED
    BY <2>2, <2>3
<1> QED
  BY <1>1, <1>2, <1>3, <1>4 DEF ops

\* Whatever does what the operations do, one by one, is their outcome.
LEMMA ApplyOpsIs ==
    ASSUME NEW S, NEW ops \in Seq(S), NEW cur, NEW run, IsRun(run, ops, cur)
    PROVE  ApplyOps(ops, cur) = run[Len(ops)]
<1>1. Len(ops) \in Nat
  BY LenProperties
<1>2. PICK r : IsRun(r, ops, cur) /\ ApplyOps(ops, cur) = r[Len(ops)]
  BY ApplyOpsRuns
<1> DEFINE T == {k \in Nat : k <= Len(ops) => r[k] = run[k]}
<1>3. T = Nat
  <2>1. 0 \in T
    BY <1>2 DEF IsRun
  <2>2. ASSUME NEW k \in T
        PROVE  k + 1 \in T
    <3>1. CASE k + 1 <= Len(ops)
      <4>1. k + 1 \in 1..Len(ops) /\ (k + 1) - 1 = k /\ k <= Len(ops)
        BY <1>1, <3>1
      <4>2. r[k + 1] = After(r[k], ops[k + 1]) /\ run[k + 1] = After(run[k], ops[k + 1])
        BY <1>2, <4>1 DEF IsRun
      <4> QED
        BY <4>1, <4>2
    <3>2. CASE ~(k + 1 <= Len(ops))
      BY <3>2
    <3> QED
      BY <3>1, <3>2
  <2>3. T \in SUBSET Nat
    OBVIOUS
  <2> HIDE DEF T
  <2> QED
    BY <2>1, <2>2, <2>3, SetInduction
<1> QED
  BY <1>1, <1>2, <1>3

\* Two lists of operations, one after the other.
LEMMA ConcatIs ==
    ASSUME NEW S, NEW a \in Seq(S), NEW b \in Seq(S)
    PROVE  /\ a \o b \in Seq(S) /\ Len(a \o b) = Len(a) + Len(b)
           /\ \A k \in 1..Len(a) : (a \o b)[k] = a[k]
           /\ \A k \in 1..Len(b) : (a \o b)[Len(a) + k] = b[k]
<1>1. Len(a) \in Nat /\ Len(b) \in Nat
  BY LenProperties
<1>2. a \o b \in Seq(S) /\ Len(a \o b) = Len(a) + Len(b)
  BY ConcatProperties
<1>3. \A k \in 1..Len(a) + Len(b) : (a \o b)[k] = IF k <= Len(a) THEN a[k] ELSE b[k - Len(a)]
  BY ConcatProperties
<1>4. ASSUME NEW k \in 1..Len(a)
      PROVE  (a \o b)[k] = a[k]
  BY <1>1, <1>3
<1>5. ASSUME NEW k \in 1..Len(b)
      PROVE  (a \o b)[Len(a) + k] = b[k]
  <2>1. Len(a) + k \in 1..Len(a) + Len(b) /\ ~(Len(a) + k <= Len(a)) /\ (Len(a) + k) - Len(a) = k
    BY <1>1
  <2> QED
    BY <1>3, <2>1
<1> QED
  BY <1>2, <1>4, <1>5

\* The run over two lists: the second one does nothing if the first one fails.
LEMMA ApplyConcat ==
    ASSUME NEW S, NEW a \in Seq(S), NEW b \in Seq(S), NEW cur
    PROVE  /\ \A mid : ApplyOps(a, cur) = Ok(mid) => ApplyOps(a \o b, cur) = ApplyOps(b, mid)
           /\ ApplyOps(a, cur) = Failed => ApplyOps(a \o b, cur) = Failed
<1> DEFINE m == Len(a)
           n == Len(b)
           ops == a \o b
<1>1. m \in Nat /\ n \in Nat
  BY LenProperties
<1>2. /\ ops \in Seq(S) /\ Len(ops) = m + n
      /\ \A k \in 1..m : ops[k] = a[k]
      /\ \A k \in 1..n : ops[m + k] = b[k]
  BY ConcatIs
<1> HIDE DEF ops
<1>3. PICK first : IsRun(first, a, cur) /\ ApplyOps(a, cur) = first[m]
  BY ApplyOpsRuns
<1> HIDE DEF m, n
<1>4. ASSUME NEW rest, rest[0] = first[m], \A k \in 1..n : rest[k] = After(rest[k - 1], b[k])
      PROVE  ApplyOps(ops, cur) = rest[n]
  <2> DEFINE run == [k \in 0..m + n |-> IF k <= m THEN first[k] ELSE rest[k - m]]
  <2>1. run[0] = Ok(cur)
    BY <1>1, <1>3 DEF IsRun
  <2>2. ASSUME NEW k \in 1..m + n
        PROVE  run[k] = After(run[k - 1], ops[k])
    <3>1. k \in 0..m + n /\ k - 1 \in 0..m + n
      BY <1>1
    <3>2. CASE k <= m
      <4>1. k \in 1..m /\ k - 1 <= m
        BY <1>1, <3>2
      <4>2. first[k] = After(first[k - 1], a[k])
        BY <1>3, <4>1 DEF IsRun, m
      <4> QED
        BY <1>2, <3>1, <3>2, <4>1, <4>2
    <3>3. CASE ~(k <= m)
      <4>1. PICK l \in 1..n : k = m + l /\ k - m = l /\ (k - 1) - m = l - 1
        <5>1. k - m \in 1..n /\ k = m + (k - m) /\ (k - 1) - m = (k - m) - 1
          BY <1>1, <3>3
        <5> QED
          BY <5>1
      <4>2. run[k] = rest[l] /\ ops[k] = b[l]
        BY <1>2, <3>1, <3>3, <4>1
      <4>3. run[k - 1] = rest[l - 1]
        <5>1. CASE k - 1 <= m
          <6>1. l = 1 /\ k - 1 = m
            BY <1>1, <4>1, <5>1
          <6> QED
            BY <1>4, <3>1, <5>1, <6>1
        <5>2. CASE ~(k - 1 <= m)
          BY <3>1, <4>1, <5>2
        <5> QED
          BY <5>1, <5>2
      <4> QED
        BY <1>4, <4>2, <4>3
    <3> QED
      BY <3>2, <3>3
  <2>3. run[m + n] = rest[n]
    <3>1. m + n \in 0..m + n /\ (m + n <= m => n = 0) /\ (m + n) - m = n /\ m + 0 = m
      BY <1>1
    <3> QED
      BY <1>4, <3>1
  <2> HIDE DEF run
  <2>4. IsRun(run, ops, cur)
    BY <1>2, <2>1, <2>2 DEF IsRun
  <2>5. ApplyOps(ops, cur) = run[Len(ops)]
    BY <1>2, <2>4, ApplyOpsIs
  <2> QED
    BY <1>2, <2>3, <2>5
<1>5. ASSUME NEW mid, ApplyOps(a, cur) = Ok(mid)
      PROVE  ApplyOps(ops, cur) = ApplyOps(b, mid)
  <2>1. PICK second : IsRun(second, b, mid) /\ ApplyOps(b, mid) = second[n]
    BY ApplyOpsRuns DEF n
  <2>2. second[0] = first[m] /\ \A k \in 1..n : second[k] = After(second[k - 1], b[k])
    BY <1>3, <1>5, <2>1 DEF IsRun, n
  <2> QED
    BY <1>4, <2>1, <2>2
<1>6. ASSUME ApplyOps(a, cur) = Failed
      PROVE  ApplyOps(ops, cur) = Failed
  <2> DEFINE stuck == [k \in 0..n |-> Failed]
  <2>1. stuck[0] = first[m] /\ stuck[n] = Failed
    BY <1>1, <1>3, <1>6
  <2>2. \A k \in 1..n : stuck[k] = After(stuck[k - 1], b[k])
    <3>1. \A o : After(Failed, o) = Failed
      BY DEF After, Failed
    <3>2. \A k \in 1..n : k \in 0..n /\ k - 1 \in 0..n
      BY <1>1
    <3> HIDE DEF Failed
    <3> QED
      BY <3>1, <3>2
  <2> HIDE DEF stuck
  <2> QED
    BY <1>4, <2>1, <2>2
<1> QED
  BY <1>5, <1>6 DEF ops

---------------------------------------------------------------------------
(* The edit distance                                                        *)

DistanceAt(d, s, t, i, j) ==
    IF i = 0 THEN j
    ELSE IF j = 0 THEN i
    ELSE IF s[i] = t[j] THEN d[<<i-1, j-1>>]
    ELSE 1 + Min({d[<<i-1, j>>], d[<<i, j-1>>], d[<<i-1, j-1>>]})

DistanceStep(d, s, t) == [c \in Cells(s, t) |-> DistanceAt(d, s, t, c[1], c[2])]

\* d solves the equation for prefixes that have at most k elements together.
SolvesDistance(d, s, t, k) ==
    \A i \in 0..Len(s), j \in 0..Len(t) : i + j <= k => d[<<i, j>>] = DistanceAt(d, s, t, i, j)

LEMMA DistanceExtends ==
    ASSUME NEW s, NEW t, Len(s) \in Nat, Len(t) \in Nat, NEW k \in Nat, NEW d,
           SolvesDistance(d, s, t, k)
    PROVE  \E e : SolvesDistance(e, s, t, k + 1)
<1> DEFINE e == [c \in Cells(s, t) |->
                    IF c[1] + c[2] = k + 1 THEN DistanceAt(d, s, t, c[1], c[2]) ELSE d[c]]
<1>1. ASSUME NEW i \in 0..Len(s), NEW j \in 0..Len(t), i + j <= k + 1
      PROVE  e[<<i, j>>] = DistanceAt(e, s, t, i, j)
  <2>1. ASSUME NEW a \in 0..Len(s), NEW b \in 0..Len(t)
        PROVE  e[<<a, b>>] = IF a + b = k + 1 THEN DistanceAt(d, s, t, a, b) ELSE d[<<a, b>>]
    BY DEF Cells
  <2> HIDE DEF e
  <2>2. e[<<i, j>>] = DistanceAt(d, s, t, i, j)
    BY <1>1, <2>1 DEF SolvesDistance
  <2>3. CASE i = 0 \/ j = 0
    BY <2>2, <2>3 DEF DistanceAt
  <2>4. CASE i # 0 /\ j # 0
    <3>1. /\ i - 1 \in 0..Len(s) /\ j - 1 \in 0..Len(t)
          /\ i - 1 + j # k + 1 /\ i + (j - 1) # k + 1 /\ i - 1 + (j - 1) # k + 1
      BY <1>1, <2>4
    <3>2. /\ e[<<i-1, j>>] = d[<<i-1, j>>] /\ e[<<i, j-1>>] = d[<<i, j-1>>]
          /\ e[<<i-1, j-1>>] = d[<<i-1, j-1>>]
      BY <2>1, <3>1
    <3> QED
      BY <2>2, <3>2 DEF DistanceAt
  <2> QED
    BY <2>3, <2>4
<1> HIDE DEF e
<1>2. SolvesDistance(e, s, t, k + 1)
  BY <1>1 DEF SolvesDistance
<1> QED
  BY <1>2

LEMMA DistanceEquation ==
    ASSUME NEW s, NEW t, Len(s) \in Nat, Len(t) \in Nat
    PROVE  \A i \in 0..Len(s), j \in 0..Len(t) :
              EditDistance(s, t)[<<i, j>>] = DistanceAt(EditDistance(s, t), s, t, i, j)
<1> DEFINE top == Len(s) + Len(t)
           T == {k \in Nat : \E d : SolvesDistance(d, s, t, k)}
<1>1. \E d : SolvesDistance(d, s, t, 0)
  <2> DEFINE d == [c \in Cells(s, t) |-> 0]
  <2>1. SolvesDistance(d, s, t, 0)
    BY DEF SolvesDistance, DistanceAt, Cells
  <2> QED
    BY <2>1
<1>2. T = Nat
  <2>1. 0 \in T
    BY <1>1
  <2>2. ASSUME NEW k \in T
        PROVE  k + 1 \in T
    BY DistanceExtends
  <2>3. T \in SUBSET Nat
    OBVIOUS
  <2> HIDE DEF T
  <2> QED
    BY <2>1, <2>2, <2>3, SetInduction
<1>3. PICK d : SolvesDistance(d, s, t, top)
  <2>1. top \in Nat
    OBVIOUS
  <2> HIDE DEF top
  <2> QED
    BY <1>2, <2>1
<1> DEFINE w == [c \in Cells(s, t) |-> d[c]]
<1>4. w = DistanceStep(w, s, t)
  <2>1. ASSUME NEW a \in 0..Len(s), NEW b \in 0..Len(t)
        PROVE  w[<<a, b>>] = d[<<a, b>>]
    BY DEF Cells
  <2>2. w = [c \in Cells(s, t) |-> w[c]]
    OBVIOUS
  <2> HIDE DEF w
  <2>3. ASSUME NEW i \in 0..Len(s), NEW j \in 0..Len(t)
        PROVE  w[<<i, j>>] = DistanceAt(w, s, t, i, j)
    <3>1. w[<<i, j>>] = DistanceAt(d, s, t, i, j)
      BY <1>3, <2>1 DEF SolvesDistance
    <3>2. CASE i = 0 \/ j = 0
      BY <3>1, <3>2 DEF DistanceAt
    <3>3. CASE i # 0 /\ j # 0
      <4>1. i - 1 \in 0..Len(s) /\ j - 1 \in 0..Len(t)
        BY <3>3
      <4>2. /\ w[<<i-1, j>>] = d[<<i-1, j>>] /\ w[<<i, j-1>>] = d[<<i, j-1>>]
            /\ w[<<i-1, j-1>>] = d[<<i-1, j-1>>]
        BY <2>1, <4>1
      <4> QED
        BY <3>1, <4>2 DEF DistanceAt
    <3> QED
      BY <3>2, <3>3
  <2>4. ASSUME NEW c \in Cells(s, t)
        PROVE  w[c] = DistanceAt(w, s, t, c[1], c[2])
    <3>1. c[1] \in 0..Len(s) /\ c[2] \in 0..Len(t) /\ c = <<c[1], c[2]>>
      BY DEF Cells
    <3> QED
      BY <2>3, <3>1
  <2> QED
    BY <2>2, <2>4 DEF DistanceStep
<1>5. EditDistance(s, t) = CHOOSE v : v = DistanceStep(v, s, t)
  BY Zenon DEF EditDistance, DistanceStep, DistanceAt
<1>6. EditDistance(s, t) = DistanceStep(EditDistance(s, t), s, t)
  <2> HIDE DEF w
  <2> QED
    BY <1>4, <1>5
<1> QED
  <2> DEFINE v == EditDistance(s, t)
  <2>1. v = DistanceStep(v, s, t)
    BY <1>6
  <2> HIDE DEF v
  <2>2. \A i \in 0..Len(s), j \in 0..Len(t) : v[<<i, j>>] = DistanceAt(v, s, t, i, j)
    BY <2>1 DEF DistanceStep, Cells
  <2> QED
    BY <2>2 DEF v

LEMMA MinOfThree ==
    ASSUME NEW a \in Nat, NEW b \in Nat, NEW c \in Nat
    PROVE  /\ Min({a, b, c}) \in {a, b, c}
           /\ Min({a, b, c}) <= a /\ Min({a, b, c}) <= b /\ Min({a, b, c}) <= c
<1>1. \E x \in {a, b, c} : \A y \in {a, b, c} : x =< y
  OBVIOUS
<1>2. Min({a, b, c}) \in {a, b, c} /\ \A y \in {a, b, c} : Min({a, b, c}) =< y
  BY <1>1 DEF Min
<1> QED
  BY <1>2

LEMMA DistanceType ==
    ASSUME NEW s, NEW t, Len(s) \in Nat, Len(t) \in Nat
    PROVE  \A i \in 0..Len(s), j \in 0..Len(t) : EditDistance(s, t)[<<i, j>>] \in Nat
<1> DEFINE d == EditDistance(s, t)
           Typed(k) == \A i \in 0..Len(s), j \in 0..Len(t) : i + j <= k => d[<<i, j>>] \in Nat
           T == {k \in Nat : Typed(k)}
<1> HIDE DEF d
<1>1. \A i \in 0..Len(s), j \in 0..Len(t) : d[<<i, j>>] = DistanceAt(d, s, t, i, j)
  BY DistanceEquation DEF d
<1>2. Typed(0)
  <2> SUFFICES ASSUME NEW i \in 0..Len(s), NEW j \in 0..Len(t), i + j <= 0
               PROVE  d[<<i, j>>] \in Nat
    OBVIOUS
  <2>1. i = 0 /\ j \in Nat
    OBVIOUS
  <2>2. d[<<i, j>>] = DistanceAt(d, s, t, i, j)
    BY <1>1
  <2> QED
    BY <2>1, <2>2 DEF DistanceAt
<1>3. ASSUME NEW k \in Nat, Typed(k)
      PROVE  Typed(k + 1)
  <2> SUFFICES ASSUME NEW i \in 0..Len(s), NEW j \in 0..Len(t), i + j <= k + 1
               PROVE  d[<<i, j>>] \in Nat
    OBVIOUS
  <2>1. d[<<i, j>>] = DistanceAt(d, s, t, i, j)
    BY <1>1
  <2>2. CASE i = 0 \/ j = 0
    BY <2>1, <2>2 DEF DistanceAt
  <2>3. CASE i # 0 /\ j # 0
    <3>1. /\ i - 1 \in 0..Len(s) /\ j - 1 \in 0..Len(t)
          /\ i - 1 + j <= k /\ i + (j - 1) <= k /\ i - 1 + (j - 1) <= k
      BY <2>3
    <3>2. d[<<i-1, j>>] \in Nat /\ d[<<i, j-1>>] \in Nat /\ d[<<i-1, j-1>>] \in Nat
      BY <1>3, <3>1
    <3>3. Min({d[<<i-1, j>>], d[<<i, j-1>>], d[<<i-1, j-1>>]})
            \in {d[<<i-1, j>>], d[<<i, j-1>>], d[<<i-1, j-1>>]}
      BY <3>2, MinOfThree
    <3>4. Min({d[<<i-1, j>>], d[<<i, j-1>>], d[<<i-1, j-1>>]}) \in Nat
      BY <3>2, <3>3
    <3> QED
      BY <2>1, <2>3, <3>2, <3>4 DEF DistanceAt
  <2> QED
    BY <2>2, <2>3
<1>4. T = Nat
  <2> HIDE DEF Typed
  <2>1. 0 \in T /\ \A k \in T : k + 1 \in T
    BY <1>2, <1>3
  <2>2. T \in SUBSET Nat
    OBVIOUS
  <2> HIDE DEF T
  <2> QED
    BY <2>1, <2>2, SetInduction
<1>5. ASSUME NEW i \in 0..Len(s), NEW j \in 0..Len(t)
      PROVE  d[<<i, j>>] \in Nat
  <2>1. i + j \in Nat
    OBVIOUS
  <2>2. Typed(i + j)
    <3> HIDE DEF Typed
    <3> QED
      BY <1>4, <2>1
  <2> QED
    BY <2>1, <2>2
<1> QED
  BY <1>5 DEF d

\* Two elements that differ are one operation away from where they meet.
LEMMA DistanceStepsBack ==
    ASSUME NEW s, NEW t, Len(s) \in Nat, Len(t) \in Nat,
           NEW i \in 1..Len(s), NEW j \in 1..Len(t), s[i] # t[j]
    PROVE  LET d == EditDistance(s, t)
           IN  \/ d[<<i-1, j>>] + 1 = d[<<i, j>>]
               \/ d[<<i, j-1>>] + 1 = d[<<i, j>>]
               \/ d[<<i-1, j-1>>] + 1 = d[<<i, j>>]
<1> DEFINE d == EditDistance(s, t)
<1> HIDE DEF d
<1>1. i \in 0..Len(s) /\ j \in 0..Len(t) /\ i - 1 \in 0..Len(s) /\ j - 1 \in 0..Len(t)
  OBVIOUS
<1>2. d[<<i-1, j>>] \in Nat /\ d[<<i, j-1>>] \in Nat /\ d[<<i-1, j-1>>] \in Nat
  BY <1>1, DistanceType DEF d
<1>3. d[<<i, j>>] = DistanceAt(d, s, t, i, j)
  BY <1>1, DistanceEquation DEF d
<1>4. d[<<i, j>>] = 1 + Min({d[<<i-1, j>>], d[<<i, j-1>>], d[<<i-1, j-1>>]})
  BY <1>3 DEF DistanceAt
<1>5. Min({d[<<i-1, j>>], d[<<i, j-1>>], d[<<i-1, j-1>>]})
        \in {d[<<i-1, j>>], d[<<i, j-1>>], d[<<i-1, j-1>>]}
  BY <1>2, MinOfThree
<1>6. \/ d[<<i-1, j>>] + 1 = d[<<i, j>>]
      \/ d[<<i, j-1>>] + 1 = d[<<i, j>>]
      \/ d[<<i-1, j-1>>] + 1 = d[<<i, j>>]
  BY <1>2, <1>4, <1>5
<1> QED
  BY <1>6 DEF d

\* Along the edges of the table every step counts.
LEMMA DistanceOnEdges ==
    ASSUME NEW s, NEW t, Len(s) \in Nat, Len(t) \in Nat
    PROVE  LET d == EditDistance(s, t)
           IN  /\ \A i \in 0..Len(s) : d[<<i, 0>>] = i
               /\ \A j \in 0..Len(t) : d[<<0, j>>] = j
<1> DEFINE d == EditDistance(s, t)
<1>1. 0 \in 0..Len(s) /\ 0 \in 0..Len(t)
  OBVIOUS
<1> HIDE DEF d
<1>2. \A i \in 0..Len(s), j \in 0..Len(t) : d[<<i, j>>] = DistanceAt(d, s, t, i, j)
  BY DistanceEquation DEF d
<1> QED
  BY <1>1, <1>2 DEF DistanceAt, d

\* One element more or less is one operation more or less at most.
Smooth(d, i, j) ==
    /\ i > 0 => d[<<i-1, j>>] <= d[<<i, j>>] + 1 /\ d[<<i, j>>] <= d[<<i-1, j>>] + 1
    /\ j > 0 => d[<<i, j-1>>] <= d[<<i, j>>] + 1 /\ d[<<i, j>>] <= d[<<i, j-1>>] + 1

LEMMA DistanceSmooth ==
    ASSUME NEW s, NEW t, Len(s) \in Nat, Len(t) \in Nat
    PROVE  \A i \in 0..Len(s), j \in 0..Len(t) : Smooth(EditDistance(s, t), i, j)
<1> DEFINE d == EditDistance(s, t)
           m == Len(s)
           n == Len(t)
           T == {c \in Cells(s, t) : Smooth(d, c[1], c[2])}
<1>1. \A i \in 0..m, j \in 0..n : d[<<i, j>>] = DistanceAt(d, s, t, i, j) /\ d[<<i, j>>] \in Nat
  BY DistanceEquation, DistanceType
<1>2. /\ \A i \in 0..m : d[<<i, 0>>] = i
      /\ \A j \in 0..n : d[<<0, j>>] = j
  BY DistanceOnEdges
<1>3. \A i \in 0..m, j \in 0..n : <<i, j>> \in T <=> Smooth(d, i, j)
  BY DEF Cells
<1>4. m \in Nat /\ n \in Nat
  OBVIOUS
<1> HIDE DEF d, T, m, n
<1>5. ASSUME NEW i \in 0..m, NEW j \in 0..n,
             \A a \in 0..m, b \in 0..n : a + b < i + j => <<a, b>> \in T
      PROVE  <<i, j>> \in T
  <2>1. CASE i = 0 \/ j = 0
    <3>1. /\ i > 0 => i - 1 \in 0..m /\ j = 0
          /\ j > 0 => j - 1 \in 0..n /\ i = 0
      BY <1>4, <2>1
    <3>2. /\ i > 0 => d[<<i, j>>] = i /\ d[<<i-1, j>>] = i - 1
          /\ j > 0 => d[<<i, j>>] = j /\ d[<<i, j-1>>] = j - 1
      BY <1>2, <3>1
    <3>3. Smooth(d, i, j)
      BY <1>4, <3>2 DEF Smooth
    <3> QED
      BY <1>3, <3>3
  <2>2. CASE i # 0 /\ j # 0
    <3>1. /\ i - 1 \in 0..m /\ j - 1 \in 0..n /\ i > 0 /\ j > 0 /\ i \in Int /\ j \in Int
          /\ i - 1 + j < i + j /\ i + (j - 1) < i + j
      BY <1>4, <2>2
    <3> DEFINE a == d[<<i-1, j-1>>]
               b == d[<<i-1, j>>]
               c == d[<<i, j-1>>]
               e == d[<<i, j>>]
    <3>2. a \in Nat /\ b \in Nat /\ c \in Nat /\ e \in Nat
      BY <1>1, <3>1
    <3>3. a <= b + 1 /\ b <= a + 1
      <4>1. Smooth(d, i - 1, j)
        BY <1>3, <1>5, <3>1
      <4> QED
        BY <3>1, <4>1 DEF Smooth
    <3>4. a <= c + 1 /\ c <= a + 1
      <4>1. Smooth(d, i, j - 1)
        BY <1>3, <1>5, <3>1
      <4> QED
        BY <3>1, <4>1 DEF Smooth
    <3>5. e = a \/ e = 1 + Min({b, c, a})
      BY <1>1, <2>2 DEF DistanceAt
    <3>6. /\ Min({b, c, a}) \in {b, c, a}
          /\ Min({b, c, a}) <= b /\ Min({b, c, a}) <= c
      BY <3>2, MinOfThree
    <3> HIDE DEF a, b, c, e
    <3>7. b <= e + 1 /\ e <= b + 1 /\ c <= e + 1 /\ e <= c + 1
      BY <3>2, <3>3, <3>4, <3>5, <3>6
    <3>8. Smooth(d, i, j)
      BY <3>7 DEF Smooth, b, c, e
    <3> QED
      BY <1>3, <3>8
  <2> QED
    BY <2>1, <2>2
<1>6. \A i \in 0..m, j \in 0..n : <<i, j>> \in T
  BY <1>4, <1>5, CellInduction
<1> QED
  BY <1>3, <1>6 DEF d, m, n

---------------------------------------------------------------------------
(* The edit script                                                          *)

ScriptAt(w, d, t, i, j) ==
    IF i > 0 /\ d[<<i-1, j>>] + 1 = d[<<i, j>>]
    THEN <<RemoveOp(i-1)>> \o w[<<i-1, j>>]
    ELSE IF j > 0 /\ d[<<i, j-1>>] + 1 = d[<<i, j>>]
    THEN <<AddOp(i, t[j])>> \o w[<<i, j-1>>]
    ELSE IF i > 0 /\ j > 0
    THEN (IF d[<<i-1, j-1>>] + 1 = d[<<i, j>>] THEN <<ReplaceOp(i-1, t[j])>> ELSE <<>>)
         \o w[<<i-1, j-1>>]
    ELSE <<>>

ScriptStep(w, d, s, t) ==
    [c \in Cells(s, t) |->
        IF c[1] > 0 /\ d[<<c[1]-1, c[2]>>] + 1 = d[c]
        THEN <<RemoveOp(c[1]-1)>> \o w[<<c[1]-1, c[2]>>]
        ELSE IF c[2] > 0 /\ d[<<c[1], c[2]-1>>] + 1 = d[c]
        THEN <<AddOp(c[1], t[c[2]])>> \o w[<<c[1], c[2]-1>>]
        ELSE IF c[1] > 0 /\ c[2] > 0
        THEN (IF d[<<c[1]-1, c[2]-1>>] + 1 = d[c] THEN <<ReplaceOp(c[1]-1, t[c[2]])>> ELSE <<>>)
             \o w[<<c[1]-1, c[2]-1>>]
        ELSE <<>>]

SolvesScript(w, d, s, t, k) ==
    \A i \in 0..Len(s), j \in 0..Len(t) : i + j <= k => w[<<i, j>>] = ScriptAt(w, d, t, i, j)

LEMMA ScriptExtends ==
    ASSUME NEW s, NEW t, Len(s) \in Nat, Len(t) \in Nat, NEW k \in Nat, NEW d, NEW w,
           SolvesScript(w, d, s, t, k)
    PROVE  \E e : SolvesScript(e, d, s, t, k + 1)
<1> DEFINE e == [c \in Cells(s, t) |->
                    IF c[1] + c[2] = k + 1 THEN ScriptAt(w, d, t, c[1], c[2]) ELSE w[c]]
<1>1. ASSUME NEW i \in 0..Len(s), NEW j \in 0..Len(t), i + j <= k + 1
      PROVE  e[<<i, j>>] = ScriptAt(e, d, t, i, j)
  <2>1. ASSUME NEW a \in 0..Len(s), NEW b \in 0..Len(t)
        PROVE  e[<<a, b>>] = IF a + b = k + 1 THEN ScriptAt(w, d, t, a, b) ELSE w[<<a, b>>]
    BY DEF Cells
  <2> HIDE DEF e
  <2>2. e[<<i, j>>] = ScriptAt(w, d, t, i, j)
    BY <1>1, <2>1 DEF SolvesScript
  <2>3. i > 0 => e[<<i-1, j>>] = w[<<i-1, j>>]
    BY <1>1, <2>1
  <2>4. j > 0 => e[<<i, j-1>>] = w[<<i, j-1>>]
    BY <1>1, <2>1
  <2>5. i > 0 /\ j > 0 => e[<<i-1, j-1>>] = w[<<i-1, j-1>>]
    BY <1>1, <2>1
  <2> QED
    BY <2>2, <2>3, <2>4, <2>5 DEF ScriptAt
<1> HIDE DEF e
<1>2. SolvesScript(e, d, s, t, k + 1)
  BY <1>1 DEF SolvesScript
<1> QED
  BY <1>2

LEMMA ScriptTable ==
    ASSUME NEW s, NEW t, Len(s) \in Nat, Len(t) \in Nat
    PROVE  \E w : /\ \A i \in 0..Len(s), j \in 0..Len(t) :
                        w[<<i, j>>] = ScriptAt(w, EditDistance(s, t), t, i, j)
                  /\ EditScript(s, t) = w[<<Len(s), Len(t)>>]
<1> DEFINE d == EditDistance(s, t)
           top == Len(s) + Len(t)
           T == {k \in Nat : \E w : SolvesScript(w, d, s, t, k)}
           Solution == CHOOSE v : v = ScriptStep(v, d, s, t)
<1>0. EditScript(s, t) = Solution[<<Len(s), Len(t)>>]
  BY Zenon DEF EditScript, ScriptStep
<1> HIDE DEF d
<1>1. \E w : SolvesScript(w, d, s, t, 0)
  <2> DEFINE w == [c \in Cells(s, t) |-> <<>>]
  <2>1. SolvesScript(w, d, s, t, 0)
    BY DEF SolvesScript, ScriptAt, Cells
  <2> QED
    BY <2>1
<1>2. T = Nat
  <2>1. 0 \in T
    BY <1>1
  <2>2. ASSUME NEW k \in T
        PROVE  k + 1 \in T
    BY ScriptExtends
  <2>3. T \in SUBSET Nat
    OBVIOUS
  <2> HIDE DEF T
  <2> QED
    BY <2>1, <2>2, <2>3, SetInduction
<1>3. PICK v : SolvesScript(v, d, s, t, top)
  <2>1. top \in Nat
    OBVIOUS
  <2> HIDE DEF top
  <2> QED
    BY <1>2, <2>1
<1> DEFINE w == [c \in Cells(s, t) |-> v[c]]
<1>4. w = ScriptStep(w, d, s, t)
  <2>1. ASSUME NEW a \in 0..Len(s), NEW b \in 0..Len(t)
        PROVE  w[<<a, b>>] = v[<<a, b>>]
    BY DEF Cells
  <2>2. w = [c \in Cells(s, t) |-> w[c]]
    OBVIOUS
  <2> HIDE DEF w
  <2>3. ASSUME NEW i \in 0..Len(s), NEW j \in 0..Len(t)
        PROVE  w[<<i, j>>] = ScriptAt(w, d, t, i, j)
    <3>1. w[<<i, j>>] = ScriptAt(v, d, t, i, j)
      BY <1>3, <2>1 DEF SolvesScript
    <3>2. i > 0 => w[<<i-1, j>>] = v[<<i-1, j>>]
      BY <2>1
    <3>3. j > 0 => w[<<i, j-1>>] = v[<<i, j-1>>]
      BY <2>1
    <3>4. i > 0 /\ j > 0 => w[<<i-1, j-1>>] = v[<<i-1, j-1>>]
      BY <2>1
    <3> QED
      BY <3>1, <3>2, <3>3, <3>4 DEF ScriptAt
  <2>4. ASSUME NEW c \in Cells(s, t)
        PROVE  w[c] = ScriptAt(w, d, t, c[1], c[2]) /\ c = <<c[1], c[2]>>
    <3>1. c[1] \in 0..Len(s) /\ c[2] \in 0..Len(t) /\ c = <<c[1], c[2]>>
      BY DEF Cells
    <3> QED
      BY <2>3, <3>1
  <2>5. ASSUME NEW c \in Cells(s, t)
        PROVE  w[c] = ScriptStep(w, d, s, t)[c]
    BY <2>4, Zenon DEF ScriptAt, ScriptStep
  <2>6. ScriptStep(w, d, s, t) = [c \in Cells(s, t) |-> ScriptStep(w, d, s, t)[c]]
    BY DEF ScriptStep
  <2> QED
    BY <2>2, <2>5, <2>6, Zenon
<1>5. Solution = ScriptStep(Solution, d, s, t)
  <2> HIDE DEF w
  <2> QED
    BY <1>4
<1> HIDE DEF Solution
<1>6. ASSUME NEW i \in 0..Len(s), NEW j \in 0..Len(t)
      PROVE  Solution[<<i, j>>] = ScriptAt(Solution, d, t, i, j)
  <2>1. <<i, j>> \in Cells(s, t) /\ <<i, j>>[1] = i /\ <<i, j>>[2] = j
    BY DEF Cells
  <2> QED
    BY <1>5, <2>1 DEF ScriptStep, ScriptAt
<1> QED
  BY <1>0, <1>6 DEF d

\* When an array is a section of another.
LEMMA SubSeqIs ==
    ASSUME NEW V, NEW cur \in Seq(V), NEW X \in Seq(V), NEW a \in Int, NEW b \in Int,
           1 <= a, b <= Len(cur), b - a + 1 = Len(X),
           \A i \in 1..Len(X) : X[i] = cur[a + i - 1]
    PROVE  SubSeq(cur, a, b) = X
<1>1. Len(X) \in Nat /\ Len(cur) \in Nat
  BY LenProperties
<1>2. \A i \in a..b : cur[i] \in V
  <2>1. \A i \in 1..Len(cur) : cur[i] \in V
    BY ElementOfSeq
  <2> QED
    BY <1>1, <2>1
<1>3. /\ SubSeq(cur, a, b) \in Seq(V)
      /\ Len(SubSeq(cur, a, b)) = IF a <= b THEN b - a + 1 ELSE 0
      /\ \A i \in 1..b - a + 1 : SubSeq(cur, a, b)[i] = cur[a + i - 1]
  BY <1>2, SubSeqProperties
<1>4. Len(SubSeq(cur, a, b)) = Len(X)
  BY <1>1, <1>3
<1> QED
  BY <1>1, <1>3, <1>4, SeqEqual

\* One operation in the middle of an array, seen as what comes before and after.
LEMMA RemoveBetween ==
    ASSUME NEW V, NEW p \in Seq(V), NEW v \in V, NEW X \in Seq(V)
    PROVE  ApplyOp((p \o <<v>>) \o X, RemoveOp(Len(p))) = Ok(p \o X)
<1> DEFINE cur == (p \o <<v>>) \o X
           n == Len(p)
           m == Len(X)
<1>1. n \in Nat /\ m \in Nat
  BY LenProperties
<1>2. /\ p \o <<v>> \in Seq(V) /\ Len(p \o <<v>>) = n + 1
      /\ \A i \in 1..n + 1 : (p \o <<v>>)[i] = IF i <= n THEN p[i] ELSE v
  BY <1>1
<1>3. /\ cur \in Seq(V) /\ Len(cur) = n + 1 + m
      /\ \A i \in 1..n + 1 + m : cur[i] = IF i <= n THEN p[i]
                                          ELSE IF i = n + 1 THEN v ELSE X[i - (n + 1)]
  BY <1>1, <1>2
<1> HIDE DEF cur
<1>4. SubSeq(cur, 1, (n + 1) - 1) = p
  <2>1. (n + 1) - 1 <= Len(cur) /\ (n + 1) - 1 - 1 + 1 = n /\ (n + 1) - 1 \in Int
    BY <1>1, <1>3
  <2>2. \A i \in 1..n : p[i] = cur[1 + i - 1]
    BY <1>1, <1>3
  <2> QED
    BY <1>3, <2>1, <2>2, SubSeqIs
<1>5. SubSeq(cur, (n + 1) + 1, Len(cur)) = X
  <2>1. /\ (n + 1) + 1 \in Int /\ 1 <= (n + 1) + 1 /\ Len(cur) \in Int
        /\ Len(cur) - ((n + 1) + 1) + 1 = m
    BY <1>1, <1>3
  <2>2. ASSUME NEW i \in 1..m
        PROVE  X[i] = cur[(n + 1) + 1 + i - 1]
    <3> DEFINE k == (n + 1) + 1 + i - 1
    <3>1. k \in 1..n + 1 + m /\ ~(k <= n) /\ k # n + 1 /\ k - (n + 1) = i
      BY <1>1
    <3> HIDE DEF k
    <3>2. cur[k] = X[i]
      BY <1>3, <3>1
    <3> QED
      BY <3>2 DEF k
  <2> QED
    BY <1>3, <2>1, <2>2, SubSeqIs
<1>6. RemoveAt(cur, n + 1) = p \o X
  BY <1>4, <1>5 DEF RemoveAt
<1>7. n < Len(cur)
  BY <1>1, <1>3
<1> QED
  BY <1>6, <1>7 DEF ApplyOp, RemoveOp, cur

LEMMA AddBetween ==
    ASSUME NEW V, NEW p \in Seq(V), NEW v \in V, NEW X \in Seq(V)
    PROVE  ApplyOp(p \o X, AddOp(Len(p), v)) = Ok((p \o <<v>>) \o X)
<1> DEFINE cur == p \o X
           n == Len(p)
           m == Len(X)
<1>1. n \in Nat /\ m \in Nat
  BY LenProperties
<1>2. /\ cur \in Seq(V) /\ Len(cur) = n + m
      /\ \A i \in 1..n + m : cur[i] = IF i <= n THEN p[i] ELSE X[i - n]
  BY <1>1
<1> HIDE DEF cur
<1>3. SubSeq(cur, 1, (n + 1) - 1) = p
  <2>1. (n + 1) - 1 <= Len(cur) /\ (n + 1) - 1 - 1 + 1 = n /\ (n + 1) - 1 \in Int
    BY <1>1, <1>2
  <2>2. \A i \in 1..n : p[i] = cur[1 + i - 1]
    BY <1>1, <1>2
  <2> QED
    BY <1>2, <2>1, <2>2, SubSeqIs
<1>4. SubSeq(cur, n + 1, Len(cur)) = X
  <2>1. /\ n + 1 \in Int /\ 1 <= n + 1 /\ Len(cur) \in Int
        /\ Len(cur) - (n + 1) + 1 = m
    BY <1>1, <1>2
  <2>2. \A i \in 1..m : X[i] = cur[n + 1 + i - 1]
    BY <1>1, <1>2
  <2> QED
    BY <1>2, <2>1, <2>2, SubSeqIs
<1>5. InsertAt(cur, n + 1, v) = (p \o <<v>>) \o X
  BY <1>3, <1>4 DEF InsertAt
<1>6. n <= Len(cur)
  BY <1>1, <1>2
<1> QED
  BY <1>5, <1>6 DEF ApplyOp, AddOp, cur

LEMMA ReplaceBetween ==
    ASSUME NEW V, NEW p \in Seq(V), NEW u \in V, NEW v \in V, NEW X \in Seq(V)
    PROVE  ApplyOp((p \o <<u>>) \o X, ReplaceOp(Len(p), v)) = Ok((p \o <<v>>) \o X)
<1> DEFINE cur == (p \o <<u>>) \o X
           new == (p \o <<v>>) \o X
           n == Len(p)
           m == Len(X)
<1>1. n \in Nat /\ m \in Nat
  BY LenProperties
<1>2. \A e \in V : /\ p \o <<e>> \in Seq(V) /\ Len(p \o <<e>>) = n + 1
                   /\ \A i \in 1..n + 1 : (p \o <<e>>)[i] = IF i <= n THEN p[i] ELSE e
  BY <1>1
<1>3. \A e \in V :
         /\ (p \o <<e>>) \o X \in Seq(V) /\ Len((p \o <<e>>) \o X) = n + 1 + m
         /\ \A i \in 1..n + 1 + m : ((p \o <<e>>) \o X)[i] =
               IF i <= n THEN p[i] ELSE IF i = n + 1 THEN e ELSE X[i - (n + 1)]
  BY <1>1, <1>2
<1>4. /\ cur \in Seq(V) /\ Len(cur) = n + 1 + m /\ new \in Seq(V) /\ Len(new) = n + 1 + m
      /\ \A i \in 1..n + 1 + m : i # n + 1 => cur[i] = new[i]
      /\ new[n + 1] = v /\ n + 1 \in 1..n + 1 + m
  BY <1>1, <1>3
<1> HIDE DEF cur, new
<1>5. [cur EXCEPT ![n + 1] = v] = new
  BY <1>1, <1>4, ExceptSeq, SeqEqual
<1>6. n < Len(cur)
  BY <1>1, <1>4
<1> QED
  BY <1>5, <1>6 DEF ApplyOp, ReplaceOp, ReplaceAt, cur, new

\* The operations of a script carry elements of the wanted array.
LEMMA ScriptCells ==
    ASSUME NEW W, NEW s \in Seq(W), NEW V, NEW t \in Seq(V), NEW w, NEW d,
           \A i \in 0..Len(s), j \in 0..Len(t) : w[<<i, j>>] = ScriptAt(w, d, t, i, j)
    PROVE  \A i \in 0..Len(s), j \in 0..Len(t) : w[<<i, j>>] \in Seq(OpOver(V))
<1>1. Len(s) \in Nat /\ Len(t) \in Nat /\ \A j \in 1..Len(t) : t[j] \in V
  BY LenProperties, ElementOfSeq
<1> DEFINE Typed(k) == \A i \in 0..Len(s), j \in 0..Len(t) :
                          i + j <= k => w[<<i, j>>] \in Seq(OpOver(V))
           T == {k \in Nat : Typed(k)}
<1>3. ASSUME NEW i \in 0..Len(s), NEW j \in 0..Len(t),
             i > 0 => w[<<i-1, j>>] \in Seq(OpOver(V)),
             j > 0 => w[<<i, j-1>>] \in Seq(OpOver(V)),
             i > 0 /\ j > 0 => w[<<i-1, j-1>>] \in Seq(OpOver(V))
      PROVE  w[<<i, j>>] \in Seq(OpOver(V))
  <2>1. i > 0 => RemoveOp(i-1) \in OpOver(V)
    BY DEF RemoveOp, OpOver
  <2>2. j > 0 => AddOp(i, t[j]) \in OpOver(V)
    BY <1>1 DEF AddOp, OpOver
  <2>3. i > 0 /\ j > 0 => ReplaceOp(i-1, t[j]) \in OpOver(V)
    BY <1>1 DEF ReplaceOp, OpOver
  <2>4. \A o \in OpOver(V), r \in Seq(OpOver(V)) : <<o>> \o r \in Seq(OpOver(V)) /\ <<>> \o r = r
    OBVIOUS
  <2>5. <<>> \in Seq(OpOver(V))
    OBVIOUS
  <2>6. w[<<i, j>>] = ScriptAt(w, d, t, i, j)
    OBVIOUS
  <2> HIDE DEF OpOver
  <2> QED
    BY <1>3, <2>1, <2>2, <2>3, <2>4, <2>5, <2>6 DEF ScriptAt
<1>4. Typed(0)
  <2> SUFFICES ASSUME NEW i \in 0..Len(s), NEW j \in 0..Len(t), i + j <= 0
               PROVE  w[<<i, j>>] \in Seq(OpOver(V))
    OBVIOUS
  <2>1. ~(i > 0) /\ ~(j > 0)
    BY <1>1
  <2> QED
    BY <1>3, <2>1
<1>5. ASSUME NEW k \in Nat, Typed(k)
      PROVE  Typed(k + 1)
  <2> SUFFICES ASSUME NEW i \in 0..Len(s), NEW j \in 0..Len(t), i + j <= k + 1
               PROVE  w[<<i, j>>] \in Seq(OpOver(V))
    OBVIOUS
  <2>1. i > 0 => i - 1 \in 0..Len(s) /\ i - 1 + j <= k
    BY <1>1
  <2>2. j > 0 => j - 1 \in 0..Len(t) /\ i + (j - 1) <= k
    BY <1>1
  <2>3. i > 0 /\ j > 0 => i - 1 + (j - 1) <= k
    BY <1>1
  <2> QED
    BY <1>3, <1>5, <2>1, <2>2, <2>3
<1>6. T = Nat
  <2> HIDE DEF Typed
  <2>1. 0 \in T /\ \A k \in T : k + 1 \in T
    BY <1>4, <1>5
  <2>2. T \in SUBSET Nat
    OBVIOUS
  <2> HIDE DEF T
  <2> QED
    BY <2>1, <2>2, SetInduction
<1>7. ASSUME NEW i \in 0..Len(s), NEW j \in 0..Len(t)
      PROVE  w[<<i, j>>] \in Seq(OpOver(V))
  <2>1. i + j \in Nat
    BY <1>1
  <2>2. Typed(i + j)
    <3> HIDE DEF Typed
    <3> QED
      BY <1>6, <2>1
  <2> QED
    BY <2>1, <2>2
<1> QED
  BY <1>7

LEMMA ScriptType ==
    ASSUME NEW W, NEW s \in Seq(W), NEW V, NEW t \in Seq(V)
    PROVE  EditScript(s, t) \in Seq(OpOver(V))
<1>1. Len(s) \in Nat /\ Len(t) \in Nat
  BY LenProperties
<1>2. PICK w : /\ \A i \in 0..Len(s), j \in 0..Len(t) :
                     w[<<i, j>>] = ScriptAt(w, EditDistance(s, t), t, i, j)
               /\ EditScript(s, t) = w[<<Len(s), Len(t)>>]
  BY <1>1, ScriptTable
<1>3. \A i \in 0..Len(s), j \in 0..Len(t) : w[<<i, j>>] \in Seq(OpOver(V))
  BY <1>2, ScriptCells
<1> QED
  BY <1>1, <1>2, <1>3

\* w holds the scripts of all pairs of prefixes.
IsScript(w, s, t, V) ==
    \A i \in 0..Len(s), j \in 0..Len(t) :
       /\ w[<<i, j>>] = ScriptAt(w, EditDistance(s, t), t, i, j)
       /\ w[<<i, j>>] \in Seq(OpOver(V))

\* The script for i and j turns one prefix into the other, whatever follows it.
Turns(w, s, t, V, i, j) ==
    \A X \in Seq(V) : ApplyOps(w[<<i, j>>], SubSeq(s, 1, i) \o X) = Ok(SubSeq(t, 1, j) \o X)

LEMMA ScriptApplies ==
    ASSUME NEW V, NEW s \in Seq(V), NEW t \in Seq(V), NEW w, IsScript(w, s, t, V),
           NEW i \in 0..Len(s), NEW j \in 0..Len(t),
           \A a \in 0..Len(s), b \in 0..Len(t) : a + b < i + j => Turns(w, s, t, V, a, b)
    PROVE  Turns(w, s, t, V, i, j)
<1> SUFFICES ASSUME NEW X \in Seq(V)
             PROVE  ApplyOps(w[<<i, j>>], SubSeq(s, 1, i) \o X) = Ok(SubSeq(t, 1, j) \o X)
  BY DEF Turns
<1>0. /\ \A a \in 0..Len(s), b \in 0..Len(t) : w[<<a, b>>] \in Seq(OpOver(V))
      /\ \A a \in 0..Len(s), b \in 0..Len(t) : a + b < i + j =>
            \A Y \in Seq(V) : ApplyOps(w[<<a, b>>], SubSeq(s, 1, a) \o Y) = Ok(SubSeq(t, 1, b) \o Y)
  BY DEF IsScript, Turns
<1> DEFINE d == EditDistance(s, t)
           cur == SubSeq(s, 1, i) \o X
           wanted == SubSeq(t, 1, j) \o X
<1>1. /\ Len(s) \in Nat /\ Len(t) \in Nat
      /\ \A k \in 1..Len(s) : s[k] \in V
      /\ \A k \in 1..Len(t) : t[k] \in V
  BY LenProperties, ElementOfSeq
<1>2. w[<<i, j>>] = ScriptAt(w, d, t, i, j)
  BY DEF IsScript
<1>3. /\ \A k \in 0..Len(s) : SubSeq(s, 1, k) \in Seq(V) /\ Len(SubSeq(s, 1, k)) = k
      /\ \A k \in 0..Len(t) : SubSeq(t, 1, k) \in Seq(V) /\ Len(SubSeq(t, 1, k)) = k
  BY <1>1, SubSeqProperties
<1>4. /\ \A k \in 1..Len(s) : SubSeq(s, 1, k) = SubSeq(s, 1, k - 1) \o <<s[k]>>
      /\ \A k \in 1..Len(t) : SubSeq(t, 1, k) = SubSeq(t, 1, k - 1) \o <<t[k]>>
  BY <1>1, SubSeqRecursiveSecond
<1>5. \A p \in Seq(V), v \in V : (p \o <<v>>) \o X = p \o (<<v>> \o X) /\ <<v>> \o X \in Seq(V)
  OBVIOUS
<1> HIDE DEF d
<1>6. CASE i > 0 /\ d[<<i-1, j>>] + 1 = d[<<i, j>>]
  <2>1. w[<<i, j>>] = <<RemoveOp(i-1)>> \o w[<<i-1, j>>]
    BY <1>2, <1>6 DEF ScriptAt
  <2>2. i \in 1..Len(s) /\ i - 1 \in 0..Len(s) /\ i - 1 + j < i + j
    BY <1>1, <1>6
  <2>3. ApplyOp(cur, RemoveOp(i-1)) = Ok(SubSeq(s, 1, i - 1) \o X)
    <3> DEFINE p == SubSeq(s, 1, i - 1)
    <3>1. /\ p \in Seq(V) /\ Len(p) = i - 1 /\ s[i] \in V
          /\ cur = (p \o <<s[i]>>) \o X
      BY <1>1, <1>3, <1>4, <2>2
    <3> HIDE DEF p, cur
    <3>2. ApplyOp((p \o <<s[i]>>) \o X, RemoveOp(Len(p))) = Ok(p \o X)
      BY <3>1, RemoveBetween
    <3> QED
      BY <3>1, <3>2 DEF p
  <2>4. RemoveOp(i-1) \in OpOver(V)
    BY <2>2 DEF OpOver, RemoveOp
  <2>5. ApplyOps(w[<<i, j>>], cur) = ApplyOps(w[<<i-1, j>>], SubSeq(s, 1, i - 1) \o X)
    <3>1. w[<<i-1, j>>] \in Seq(OpOver(V))
      BY <1>0, <2>2
    <3> HIDE DEF cur
    <3>2. ApplyOps(<<RemoveOp(i-1)>> \o w[<<i-1, j>>], cur)
             = ApplyOps(w[<<i-1, j>>], SubSeq(s, 1, i - 1) \o X)
      BY <2>3, <2>4, <3>1, ApplyFirst
    <3> QED
      BY <2>1, <3>2
  <2> QED
    BY <1>0, <2>2, <2>5
<1>7. CASE ~(i > 0 /\ d[<<i-1, j>>] + 1 = d[<<i, j>>]) /\ j > 0 /\ d[<<i, j-1>>] + 1 = d[<<i, j>>]
  <2>1. w[<<i, j>>] = <<AddOp(i, t[j])>> \o w[<<i, j-1>>]
    BY <1>2, <1>7 DEF ScriptAt
  <2>2. j \in 1..Len(t) /\ j - 1 \in 0..Len(t) /\ i + (j - 1) < i + j /\ i \in Nat
    BY <1>1, <1>7
  <2>3. ApplyOp(cur, AddOp(i, t[j])) = Ok((SubSeq(s, 1, i) \o <<t[j]>>) \o X)
    <3> DEFINE p == SubSeq(s, 1, i)
    <3>1. p \in Seq(V) /\ Len(p) = i /\ t[j] \in V /\ cur = p \o X
      BY <1>1, <1>3, <2>2
    <3> HIDE DEF p, cur
    <3>2. ApplyOp(p \o X, AddOp(Len(p), t[j])) = Ok((p \o <<t[j]>>) \o X)
      BY <3>1, AddBetween
    <3> QED
      BY <3>1, <3>2 DEF p
  <2>4. AddOp(i, t[j]) \in OpOver(V)
    BY <1>1, <2>2 DEF OpOver, AddOp
  <2>5. ApplyOps(w[<<i, j>>], cur)
           = ApplyOps(w[<<i, j-1>>], SubSeq(s, 1, i) \o (<<t[j]>> \o X))
    <3>1. (SubSeq(s, 1, i) \o <<t[j]>>) \o X = SubSeq(s, 1, i) \o (<<t[j]>> \o X)
      BY <1>1, <1>3, <1>5, <2>2
    <3>2. w[<<i, j-1>>] \in Seq(OpOver(V))
      BY <1>0, <2>2
    <3> HIDE DEF cur
    <3>3. ApplyOps(<<AddOp(i, t[j])>> \o w[<<i, j-1>>], cur)
             = ApplyOps(w[<<i, j-1>>], (SubSeq(s, 1, i) \o <<t[j]>>) \o X)
      BY <2>3, <2>4, <3>2, ApplyFirst
    <3> QED
      BY <2>1, <3>1, <3>3
  <2>6. ApplyOps(w[<<i, j-1>>], SubSeq(s, 1, i) \o (<<t[j]>> \o X))
           = Ok(SubSeq(t, 1, j - 1) \o (<<t[j]>> \o X))
    BY <1>0, <1>1, <1>5, <2>2
  <2> QED
    BY <1>1, <1>3, <1>4, <1>5, <2>2, <2>5, <2>6
<1>8. CASE /\ ~(i > 0 /\ d[<<i-1, j>>] + 1 = d[<<i, j>>])
           /\ ~(j > 0 /\ d[<<i, j-1>>] + 1 = d[<<i, j>>])
           /\ i > 0 /\ j > 0
  <2>1. /\ i \in 1..Len(s) /\ i - 1 \in 0..Len(s) /\ j \in 1..Len(t) /\ j - 1 \in 0..Len(t)
        /\ i - 1 + (j - 1) < i + j
    BY <1>1, <1>8
  <2>2. ApplyOps(w[<<i-1, j-1>>], SubSeq(s, 1, i - 1) \o (<<t[j]>> \o X))
           = Ok(SubSeq(t, 1, j - 1) \o (<<t[j]>> \o X))
    BY <1>0, <1>1, <1>5, <2>1
  <2>3. SubSeq(t, 1, j - 1) \o (<<t[j]>> \o X) = wanted
    BY <1>1, <1>3, <1>4, <1>5, <2>1
  <2>4. CASE d[<<i-1, j-1>>] + 1 = d[<<i, j>>]
    <3>1. w[<<i, j>>] = <<ReplaceOp(i-1, t[j])>> \o w[<<i-1, j-1>>]
      BY <1>2, <1>8, <2>4 DEF ScriptAt
    <3>2. ApplyOp(cur, ReplaceOp(i-1, t[j])) = Ok((SubSeq(s, 1, i - 1) \o <<t[j]>>) \o X)
      <4> DEFINE p == SubSeq(s, 1, i - 1)
      <4>1. /\ p \in Seq(V) /\ Len(p) = i - 1 /\ s[i] \in V /\ t[j] \in V
            /\ cur = (p \o <<s[i]>>) \o X
        BY <1>1, <1>3, <1>4, <2>1
      <4> HIDE DEF p, cur
      <4>2. ApplyOp((p \o <<s[i]>>) \o X, ReplaceOp(Len(p), t[j])) = Ok((p \o <<t[j]>>) \o X)
        BY <4>1, ReplaceBetween
      <4> QED
        BY <4>1, <4>2 DEF p
    <3>3. ReplaceOp(i-1, t[j]) \in OpOver(V)
      BY <1>1, <2>1 DEF OpOver, ReplaceOp
    <3>4. ApplyOps(w[<<i, j>>], cur)
             = ApplyOps(w[<<i-1, j-1>>], SubSeq(s, 1, i - 1) \o (<<t[j]>> \o X))
      <4>1. (SubSeq(s, 1, i - 1) \o <<t[j]>>) \o X = SubSeq(s, 1, i - 1) \o (<<t[j]>> \o X)
        BY <1>1, <1>3, <1>5, <2>1
      <4>2. w[<<i-1, j-1>>] \in Seq(OpOver(V))
        BY <1>0, <2>1
      <4> HIDE DEF cur
      <4>3. ApplyOps(<<ReplaceOp(i-1, t[j])>> \o w[<<i-1, j-1>>], cur)
               = ApplyOps(w[<<i-1, j-1>>], (SubSeq(s, 1, i - 1) \o <<t[j]>>) \o X)
        BY <3>2, <3>3, <4>2, ApplyFirst
      <4> QED
        BY <3>1, <4>1, <4>3
    <3> QED
      BY <2>2, <2>3, <3>4
  <2>5. CASE d[<<i-1, j-1>>] + 1 # d[<<i, j>>]
    <3>1. s[i] = t[j]
      BY <1>1, <1>8, <2>1, <2>5, DistanceStepsBack DEF d
    <3>2. w[<<i, j>>] = w[<<i-1, j-1>>]
      <4>1. w[<<i, j>>] = <<>> \o w[<<i-1, j-1>>]
        BY <1>2, <1>8, <2>5 DEF ScriptAt
      <4>2. w[<<i-1, j-1>>] \in Seq(OpOver(V))
        BY <1>0, <2>1
      <4> HIDE DEF OpOver
      <4> QED
        BY <4>1, <4>2, ConcatEmptySeq
    <3>3. cur = SubSeq(s, 1, i - 1) \o (<<t[j]>> \o X)
      BY <1>1, <1>3, <1>4, <1>5, <2>1, <3>1
    <3> QED
      BY <2>2, <2>3, <3>2, <3>3
  <2> QED
    BY <2>4, <2>5
<1>9. CASE /\ ~(i > 0 /\ d[<<i-1, j>>] + 1 = d[<<i, j>>])
           /\ ~(j > 0 /\ d[<<i, j-1>>] + 1 = d[<<i, j>>])
           /\ ~(i > 0 /\ j > 0)
  <2>1. i = 0 /\ j = 0
    <3>1. \A k \in 0..Len(s) : d[<<k, 0>>] = k
      BY <1>1, DistanceOnEdges DEF d
    <3>2. \A k \in 0..Len(t) : d[<<0, k>>] = k
      BY <1>1, DistanceOnEdges DEF d
    <3>3. CASE i > 0
      <4>1. j = 0 /\ i - 1 \in 0..Len(s)
        BY <1>1, <1>9, <3>3
      <4>2. d[<<i-1, j>>] = i - 1 /\ d[<<i, j>>] = i
        BY <3>1, <4>1
      <4> QED
        BY <1>9, <3>3, <4>2
    <3>4. CASE j > 0
      <4>1. i = 0 /\ j - 1 \in 0..Len(t)
        BY <1>1, <1>9, <3>4
      <4>2. d[<<i, j-1>>] = j - 1 /\ d[<<i, j>>] = j
        BY <3>2, <4>1
      <4> QED
        BY <1>9, <3>4, <4>2
    <3> QED
      BY <1>1, <3>3, <3>4
  <2>2. w[<<i, j>>] = <<>>
    BY <1>2, <1>9 DEF ScriptAt
  <2>3. SubSeq(s, 1, i) = <<>> /\ SubSeq(t, 1, j) = <<>>
    BY <2>1, SubSeqEmpty
  <2> QED
    BY <2>2, <2>3, ApplyNone
<1> QED
  BY <1>6, <1>7, <1>8, <1>9

\* The edit script turns the array it was computed from into the wanted one, for all
\* arrays of strings (gomodules.xyz/jsonpatch, compareEditDistance and backtrace).
THEOREM ScriptExact ==
    ASSUME NEW V, NEW s \in Seq(V), NEW t \in Seq(V)
    PROVE  ApplyOps(EditScript(s, t), s) = Ok(t)
<1>1. Len(s) \in Nat /\ Len(t) \in Nat
  BY LenProperties
<1>2. PICK w : /\ \A i \in 0..Len(s), j \in 0..Len(t) :
                     w[<<i, j>>] = ScriptAt(w, EditDistance(s, t), t, i, j)
               /\ EditScript(s, t) = w[<<Len(s), Len(t)>>]
  BY <1>1, ScriptTable
<1>3. \A i \in 0..Len(s), j \in 0..Len(t) : w[<<i, j>>] \in Seq(OpOver(V))
  BY <1>2, ScriptCells
<1> DEFINE Exact(k) == \A i \in 0..Len(s), j \in 0..Len(t) :
                          i + j <= k => Turns(w, s, t, V, i, j)
           T == {k \in Nat : Exact(k)}
<1>4. IsScript(w, s, t, V)
  BY <1>2, <1>3 DEF IsScript
<1>5. Exact(0)
  <2> SUFFICES ASSUME NEW i \in 0..Len(s), NEW j \in 0..Len(t), i + j <= 0
               PROVE  Turns(w, s, t, V, i, j)
    OBVIOUS
  <2>1. \A a \in 0..Len(s), b \in 0..Len(t) : ~(a + b < i + j)
    BY <1>1
  <2> QED
    BY <1>4, <2>1, ScriptApplies
<1>6. ASSUME NEW k \in Nat, Exact(k)
      PROVE  Exact(k + 1)
  <2> SUFFICES ASSUME NEW i \in 0..Len(s), NEW j \in 0..Len(t), i + j <= k + 1
               PROVE  Turns(w, s, t, V, i, j)
    OBVIOUS
  <2>1. \A a \in 0..Len(s), b \in 0..Len(t) : a + b < i + j => a + b <= k
    BY <1>1
  <2> QED
    BY <1>4, <1>6, <2>1, ScriptApplies
<1>7. T = Nat
  <2> HIDE DEF Exact
  <2>1. 0 \in T /\ \A k \in T : k + 1 \in T
    BY <1>5, <1>6
  <2>2. T \in SUBSET Nat
    OBVIOUS
  <2> HIDE DEF T
  <2> QED
    BY <2>1, <2>2, SetInduction
<1>8. Turns(w, s, t, V, Len(s), Len(t))
  <2>1. Len(s) + Len(t) \in Nat /\ Len(s) \in 0..Len(s) /\ Len(t) \in 0..Len(t)
    BY <1>1
  <2>2. Exact(Len(s) + Len(t))
    <3> HIDE DEF Exact
    <3> QED
      BY <1>7, <2>1
  <2> QED
    BY <2>1, <2>2
<1>9. /\ SubSeq(s, 1, Len(s)) \o <<>> = s
      /\ SubSeq(t, 1, Len(t)) \o <<>> = t
      /\ <<>> \in Seq(V)
  BY SubSeqFull, ConcatEmptySeq, EmptySeq
<1> QED
  BY <1>2, <1>8, <1>9 DEF Turns

\* The script has as many operations as the distance counts.
LEMMA ScriptLength ==
    ASSUME NEW W, NEW s \in Seq(W), NEW V, NEW t \in Seq(V)
    PROVE  Len(EditScript(s, t)) = EditDistance(s, t)[<<Len(s), Len(t)>>]
<1> DEFINE d == EditDistance(s, t)
           m == Len(s)
           n == Len(t)
<1>1. m \in Nat /\ n \in Nat
  BY LenProperties
<1>2. PICK w : /\ \A i \in 0..Len(s), j \in 0..Len(t) :
                     w[<<i, j>>] = ScriptAt(w, EditDistance(s, t), t, i, j)
               /\ EditScript(s, t) = w[<<Len(s), Len(t)>>]
  BY <1>1, ScriptTable
<1>3. \A i \in 0..m, j \in 0..n : w[<<i, j>>] \in Seq(OpOver(V))
  BY <1>2, ScriptCells
<1>4. \A i \in 0..m, j \in 0..n : d[<<i, j>>] = DistanceAt(d, s, t, i, j) /\ d[<<i, j>>] \in Nat
  BY <1>1, DistanceEquation, DistanceType
<1>5. /\ \A i \in 0..m : d[<<i, 0>>] = i
      /\ \A j \in 0..n : d[<<0, j>>] = j
  BY <1>1, DistanceOnEdges
<1>6. \A i \in 1..m, j \in 1..n : s[i] # t[j] =>
         \/ d[<<i-1, j>>] + 1 = d[<<i, j>>]
         \/ d[<<i, j-1>>] + 1 = d[<<i, j>>]
         \/ d[<<i-1, j-1>>] + 1 = d[<<i, j>>]
  BY <1>1, DistanceStepsBack
<1>7. \A o, r : r \in Seq(OpOver(V)) => Len(<<o>> \o r) = 1 + Len(r) /\ Len(<<>> \o r) = Len(r)
  <2> SUFFICES ASSUME NEW o, NEW r \in Seq(OpOver(V))
               PROVE  Len(<<o>> \o r) = 1 + Len(r) /\ Len(<<>> \o r) = Len(r)
    OBVIOUS
  <2> HIDE DEF OpOver
  <2> QED
    OBVIOUS
<1> DEFINE T == {c \in (0..m) \X (0..n) : Len(w[c]) = d[c]}
<1>8. \A i \in 0..m, j \in 0..n : <<i, j>> \in T <=> Len(w[<<i, j>>]) = d[<<i, j>>]
  OBVIOUS
<1>9. \A i \in 0..m, j \in 0..n : w[<<i, j>>] = ScriptAt(w, d, t, i, j)
  BY <1>2
<1> HIDE DEF d, T, m, n, OpOver
<1>10. ASSUME NEW i \in 0..m, NEW j \in 0..n,
              \A a \in 0..m, b \in 0..n : a + b < i + j => <<a, b>> \in T
       PROVE  <<i, j>> \in T
  <2>1. /\ i > 0 => i - 1 \in 0..m /\ i - 1 + j < i + j /\ i \in 1..m
        /\ j > 0 => j - 1 \in 0..n /\ i + (j - 1) < i + j /\ j \in 1..n
        /\ i > 0 /\ j > 0 => i - 1 + (j - 1) < i + j
        /\ i \in Nat /\ j \in Nat
    BY <1>1
  <2>2. /\ i > 0 => Len(w[<<i-1, j>>]) = d[<<i-1, j>>] /\ w[<<i-1, j>>] \in Seq(OpOver(V))
        /\ j > 0 => Len(w[<<i, j-1>>]) = d[<<i, j-1>>] /\ w[<<i, j-1>>] \in Seq(OpOver(V))
        /\ i > 0 /\ j > 0 =>
              Len(w[<<i-1, j-1>>]) = d[<<i-1, j-1>>] /\ w[<<i-1, j-1>>] \in Seq(OpOver(V))
    BY <1>3, <1>8, <1>10, <2>1
  <2>3. w[<<i, j>>] = ScriptAt(w, d, t, i, j)
    BY <1>9
  <2>4. CASE i > 0 /\ d[<<i-1, j>>] + 1 = d[<<i, j>>]
    <3>1. w[<<i, j>>] = <<RemoveOp(i-1)>> \o w[<<i-1, j>>]
      BY <2>3, <2>4 DEF ScriptAt
    <3>2. Len(w[<<i, j>>]) = 1 + d[<<i-1, j>>] /\ d[<<i-1, j>>] \in Nat
      BY <1>4, <1>7, <2>1, <2>2, <2>4, <3>1
    <3> QED
      BY <1>8, <2>4, <3>2
  <2>5. CASE /\ ~(i > 0 /\ d[<<i-1, j>>] + 1 = d[<<i, j>>])
             /\ j > 0 /\ d[<<i, j-1>>] + 1 = d[<<i, j>>]
    <3>1. w[<<i, j>>] = <<AddOp(i, t[j])>> \o w[<<i, j-1>>]
      BY <2>3, <2>5 DEF ScriptAt
    <3>2. Len(w[<<i, j>>]) = 1 + d[<<i, j-1>>] /\ d[<<i, j-1>>] \in Nat
      BY <1>4, <1>7, <2>1, <2>2, <2>5, <3>1
    <3> QED
      BY <1>8, <2>5, <3>2
  <2>6. CASE /\ ~(i > 0 /\ d[<<i-1, j>>] + 1 = d[<<i, j>>])
             /\ ~(j > 0 /\ d[<<i, j-1>>] + 1 = d[<<i, j>>])
             /\ i > 0 /\ j > 0
    <3>0. d[<<i-1, j-1>>] \in Nat /\ d[<<i, j>>] \in Nat
      BY <1>4, <2>1, <2>6
    <3>1. CASE d[<<i-1, j-1>>] + 1 = d[<<i, j>>]
      <4>1. w[<<i, j>>] = <<ReplaceOp(i-1, t[j])>> \o w[<<i-1, j-1>>]
        BY <2>3, <2>6, <3>1 DEF ScriptAt
      <4>2. Len(w[<<i, j>>]) = 1 + d[<<i-1, j-1>>]
        BY <1>7, <2>2, <2>6, <4>1
      <4> QED
        BY <1>8, <3>0, <3>1, <4>2
    <3>2. CASE d[<<i-1, j-1>>] + 1 # d[<<i, j>>]
      <4>1. s[i] = t[j]
        BY <1>6, <2>1, <2>6, <3>2
      <4>2. d[<<i, j>>] = d[<<i-1, j-1>>]
        <5>1. d[<<i, j>>] = DistanceAt(d, s, t, i, j)
          BY <1>4
        <5>2. i # 0 /\ j # 0
          BY <2>6
        <5> QED
          BY <4>1, <5>1, <5>2 DEF DistanceAt
      <4>3. w[<<i, j>>] = <<>> \o w[<<i-1, j-1>>]
        BY <2>3, <2>6, <3>2 DEF ScriptAt
      <4>4. Len(w[<<i, j>>]) = d[<<i-1, j-1>>]
        BY <1>7, <2>2, <2>6, <4>3
      <4> QED
        BY <1>8, <4>2, <4>4
    <3> QED
      BY <3>1, <3>2
  <2>7. CASE /\ ~(i > 0 /\ d[<<i-1, j>>] + 1 = d[<<i, j>>])
             /\ ~(j > 0 /\ d[<<i, j-1>>] + 1 = d[<<i, j>>])
             /\ ~(i > 0 /\ j > 0)
    <3>1. ~(i > 0)
      <4> SUFFICES ASSUME i > 0 PROVE FALSE
        OBVIOUS
      <4>1. j = 0 /\ i - 1 \in 0..m
        BY <2>1, <2>7
      <4>2. d[<<i-1, j>>] = i - 1 /\ d[<<i, j>>] = i
        BY <1>5, <4>1
      <4> QED
        BY <2>1, <2>7, <4>2
    <3>2. ~(j > 0)
      <4> SUFFICES ASSUME j > 0 PROVE FALSE
        OBVIOUS
      <4>1. i = 0 /\ j - 1 \in 0..n
        BY <2>1, <2>7
      <4>2. d[<<i, j-1>>] = j - 1 /\ d[<<i, j>>] = j
        BY <1>5, <4>1
      <4> QED
        BY <2>1, <2>7, <4>2
    <3>3. i = 0 /\ j = 0
      BY <2>1, <3>1, <3>2
    <3>4. d[<<i, j>>] = 0
      BY <1>5, <3>3
    <3>5. w[<<i, j>>] = <<>>
      BY <2>3, <2>7 DEF ScriptAt
    <3>6. Len(<<>>) = 0
      OBVIOUS
    <3> QED
      BY <1>8, <3>4, <3>5, <3>6
  <2> QED
    BY <2>4, <2>5, <2>6, <2>7
<1>11. \A i \in 0..m, j \in 0..n : <<i, j>> \in T
  BY <1>1, <1>10, CellInduction
<1>12. m \in 0..m /\ n \in 0..n
  BY <1>1
<1>13. Len(w[<<m, n>>]) = d[<<m, n>>]
  BY <1>8, <1>11, <1>12
<1> QED
  BY <1>2, <1>13 DEF d, m, n

---------------------------------------------------------------------------
(* Patches of a list of strings                                             *)

LEMMA ApplyOpType ==
    ASSUME NEW V, NEW cur \in Seq(V), NEW o \in OpOver(V), ApplyOp(cur, o).ok
    PROVE  ApplyOp(cur, o).val \in Seq(V)
<1>1. Len(cur) \in Nat /\ \A i \in 1..Len(cur) : cur[i] \in V
  BY LenProperties, ElementOfSeq
<1>2. \A a, b \in Int : 1 <= a /\ b <= Len(cur) => SubSeq(cur, a, b) \in Seq(V)
  <2> SUFFICES ASSUME NEW a \in Int, NEW b \in Int, 1 <= a, b <= Len(cur)
               PROVE  SubSeq(cur, a, b) \in Seq(V)
    OBVIOUS
  <2>1. \A i \in a..b : cur[i] \in V
    BY <1>1
  <2> QED
    BY <2>1, SubSeqProperties
<1>3. o.op \in {"add", "remove", "replace"} /\ o.at \in Nat /\ (o.op # "remove" => o.val \in V)
  BY DEF OpOver
<1>4. CASE o.op = "add"
  <2>1. o.at =< Len(cur) /\ ApplyOp(cur, o) = Ok(InsertAt(cur, o.at + 1, o.val))
    BY <1>4 DEF ApplyOp, Failed
  <2>2. /\ SubSeq(cur, 1, (o.at + 1) - 1) \in Seq(V)
        /\ SubSeq(cur, o.at + 1, Len(cur)) \in Seq(V)
        /\ <<o.val>> \in Seq(V)
    BY <1>1, <1>2, <1>3, <1>4, <2>1
  <2>3. InsertAt(cur, o.at + 1, o.val) \in Seq(V)
    BY <2>2, ConcatProperties DEF InsertAt
  <2> QED
    BY <2>1, <2>3 DEF Ok
<1>5. CASE o.op = "remove"
  <2>1. o.at < Len(cur) /\ ApplyOp(cur, o) = Ok(RemoveAt(cur, o.at + 1))
    BY <1>5 DEF ApplyOp, Failed
  <2>2. /\ SubSeq(cur, 1, (o.at + 1) - 1) \in Seq(V)
        /\ SubSeq(cur, (o.at + 1) + 1, Len(cur)) \in Seq(V)
    BY <1>1, <1>2, <1>3, <2>1
  <2>3. RemoveAt(cur, o.at + 1) \in Seq(V)
    BY <2>2, ConcatProperties DEF RemoveAt
  <2> QED
    BY <2>1, <2>3 DEF Ok
<1>6. CASE o.op = "replace"
  <2>1. o.at < Len(cur) /\ ApplyOp(cur, o) = Ok(ReplaceAt(cur, o.at + 1, o.val))
    BY <1>6 DEF ApplyOp, Failed
  <2>2. o.at + 1 \in 1..Len(cur) /\ o.val \in V
    BY <1>1, <1>3, <1>6, <2>1
  <2>3. ReplaceAt(cur, o.at + 1, o.val) \in Seq(V)
    BY <2>2, ExceptSeq DEF ReplaceAt
  <2> QED
    BY <2>1, <2>3 DEF Ok
<1> QED
  BY <1>3, <1>4, <1>5, <1>6

\* A patch that is not refused leaves a list of what was there and what it brings.
LEMMA ApplyOpsType ==
    ASSUME NEW V, NEW ops \in Seq(OpOver(V)), NEW cur \in Seq(V), ApplyOps(ops, cur).ok
    PROVE  ApplyOps(ops, cur).val \in Seq(V)
<1>1. Len(ops) \in Nat /\ \A k \in 1..Len(ops) : ops[k] \in OpOver(V)
  BY LenProperties, ElementOfSeq
<1>2. PICK run : IsRun(run, ops, cur) /\ ApplyOps(ops, cur) = run[Len(ops)]
  BY ApplyOpsRuns
<1> DEFINE Typed(k) == run[k].ok => run[k].val \in Seq(V)
           T == {k \in Nat : k <= Len(ops) => Typed(k)}
<1>3. Typed(0)
  BY <1>2 DEF IsRun, Ok
<1>4. ASSUME NEW k \in Nat, k + 1 <= Len(ops), Typed(k)
      PROVE  Typed(k + 1)
  <2>1. k + 1 \in 1..Len(ops) /\ (k + 1) - 1 = k
    BY <1>1, <1>4
  <2>2. run[k + 1] = IF run[k].ok THEN ApplyOp(run[k].val, ops[k + 1]) ELSE run[k]
    BY <1>2, <2>1 DEF IsRun, After
  <2>3. ops[k + 1] \in OpOver(V)
    BY <1>1, <2>1
  <2> QED
    BY <1>4, <2>2, <2>3, ApplyOpType
<1>5. T = Nat
  <2> HIDE DEF Typed
  <2>1. 0 \in T
    BY <1>3
  <2>2. ASSUME NEW k \in T
        PROVE  k + 1 \in T
    BY <1>1, <1>4
  <2>3. T \in SUBSET Nat
    OBVIOUS
  <2> HIDE DEF T
  <2> QED
    BY <2>1, <2>2, <2>3, SetInduction
<1>6. Typed(Len(ops))
  <2> HIDE DEF Typed
  <2> QED
    BY <1>1, <1>5
<1> QED
  BY <1>2, <1>6

\* Patching the list of classes never invents one, whatever list the patch was
\* computed from: the outcome is made of what the server has and of what is wanted
\* (brokerbinding.go 104-117, kmesh/reconciler.go 311-341).
THEOREM PatchClassesType ==
    ASSUME NEW W, NEW base \in Seq(W), NEW V, NEW after \in Seq(V), NEW cur \in Seq(V),
           PatchClasses(base, after, cur).ok
    PROVE  PatchClasses(base, after, cur).val \in Seq(V)
<1> DEFINE edited == ApplyOps(EditScript(base, after), cur)
<1>1. edited.ok => edited.val \in Seq(V)
  BY ScriptType, ApplyOpsType
<1> HIDE DEF edited
<1>2. PatchClasses(base, after, cur) = PatchMember(base, after, cur, edited)
  BY Zenon DEF PatchClasses, edited
<1>3. <<>> \in Seq(V)
  BY EmptySeq
<1> QED
  BY <1>1, <1>2, <1>3 DEF PatchMember, Ok, Failed

\* A patch computed from the very list the server holds turns it into the wanted one.
THEOREM PatchClassesExact ==
    ASSUME NEW V, NEW base \in Seq(V), NEW after \in Seq(V)
    PROVE  PatchClasses(base, after, base) = Ok(after)
<1>1. ApplyOps(EditScript(base, after), base) = Ok(after)
  BY ScriptExact
<1> QED
  BY <1>1 DEF PatchClasses, PatchMember

---------------------------------------------------------------------------
(* The whole status                                                         *)

\* The least of two numbers.
LEMMA MinOfTwo ==
    ASSUME NEW m \in Nat, NEW n \in Nat
    PROVE  /\ Min({m, n}) = IF m <= n THEN m ELSE n
           /\ Min({m, n}) \in Nat /\ Min({m, n}) <= m /\ Min({m, n}) <= n
<1>1. \E x \in {m, n} : \A y \in {m, n} : x <= y
  OBVIOUS
<1> DEFINE k == CHOOSE x \in {m, n} : \A y \in {m, n} : x <= y
<1>2. k \in {m, n} /\ \A y \in {m, n} : k <= y
  BY <1>1
<1> HIDE DEF k
<1>3. k = IF m <= n THEN m ELSE n
  BY <1>2
<1>4. Min({m, n}) = k
  BY Zenon DEF Min, k
<1> QED
  BY <1>3, <1>4

\* The array a patch was computed from, once its tail is removed or added.
LEMMA MovedOwn ==
    ASSUME NEW V, NEW s \in Seq(V), NEW t \in Seq(V)
    PROVE  /\ Moved(s, t, s) \in Seq(V) /\ Len(Moved(s, t, s)) = Len(t)
           /\ \A i \in Shared(s, t) : Moved(s, t, s)[i] = s[i]
           /\ \A i \in 1..Len(t) : i \notin Shared(s, t) => Moved(s, t, s)[i] = t[i]
<1> DEFINE n == Min({Len(s), Len(t)})
           head == SubSeq(s, 1, n)
           tail == SubSeq(t, n + 1, Len(t))
<1>1. /\ Len(s) \in Nat /\ Len(t) \in Nat
      /\ \A i \in 1..Len(s) : s[i] \in V
      /\ \A i \in 1..Len(t) : t[i] \in V
  BY LenProperties, ElementOfSeq
<1>2. n \in Nat /\ n <= Len(s) /\ n <= Len(t)
  BY <1>1, MinOfTwo
<1>3. Shared(s, t) = 1..n
  BY Zenon DEF Shared
<1>4. Moved(s, t, s) = (SubSeq(s, 1, Min({n, Len(s)})) \o tail) \o SubSeq(s, Len(s) + 1, Len(s))
  BY Zenon DEF Moved
<1> HIDE DEF n
<1>5. Min({n, Len(s)}) = n
  BY <1>1, <1>2, MinOfTwo
<1>6. SubSeq(s, Len(s) + 1, Len(s)) = <<>>
  <2>1. Len(s) < Len(s) + 1 /\ Len(s) + 1 \in Int /\ Len(s) \in Int
    BY <1>1
  <2> QED
    BY <2>1, SubSeqEmpty
<1>7. /\ head \in Seq(V) /\ Len(head) = n
      /\ \A i \in 1..n : head[i] = s[i]
  <2>1. 1 \in Int /\ n \in Int /\ \A i \in 1..n : s[i] \in V
    BY <1>1, <1>2
  <2> QED
    BY <1>2, <2>1, SubSeqProperties
<1>8. /\ tail \in Seq(V) /\ Len(tail) = Len(t) - n
      /\ \A i \in 1..(Len(t) - n) : tail[i] = t[n + i]
  <2>1. n + 1 \in Int /\ Len(t) \in Int /\ \A i \in n + 1..Len(t) : t[i] \in V
    BY <1>1, <1>2
  <2>2. /\ tail \in Seq(V)
        /\ Len(tail) = IF n + 1 <= Len(t) THEN Len(t) - (n + 1) + 1 ELSE 0
        /\ \A i \in 1..(Len(t) - (n + 1) + 1) : tail[i] = t[n + 1 + i - 1]
    BY <2>1, SubSeqProperties
  <2> HIDE DEF tail
  <2>3. \A i \in 1..(Len(t) - n) : n + 1 + i - 1 = n + i
    BY <1>1, <1>2
  <2> QED
    BY <1>1, <1>2, <2>2, <2>3
<1> HIDE DEF head, tail
<1>9. /\ head \o tail \in Seq(V) /\ Len(head \o tail) = Len(t)
      /\ \A i \in 1..Len(t) : (head \o tail)[i] = IF i <= n THEN head[i] ELSE tail[i - n]
  <2>1. /\ head \o tail \in Seq(V) /\ Len(head \o tail) = Len(head) + Len(tail)
        /\ \A i \in 1..Len(head) + Len(tail) : (head \o tail)[i] =
              IF i <= Len(head) THEN head[i] ELSE tail[i - Len(head)]
    BY <1>7, <1>8, ConcatProperties
  <2>2. Len(head) + Len(tail) = Len(t)
    BY <1>1, <1>2, <1>7, <1>8
  <2> QED
    BY <1>7, <2>1, <2>2
<1>10. Moved(s, t, s) = head \o tail
  <2>1. (head \o tail) \o <<>> = head \o tail
    BY <1>9, ConcatEmptySeq
  <2> QED
    BY <1>4, <1>5, <1>6, <2>1, Zenon DEF head
<1> DEFINE whole == head \o tail
<1>11. \A i \in 1..n : i \in 1..Len(t) /\ whole[i] = s[i]
  BY <1>1, <1>2, <1>7, <1>9
<1>12. \A i \in 1..Len(t) : i \notin 1..n => whole[i] = t[i]
  <2> SUFFICES ASSUME NEW i \in 1..Len(t), i \notin 1..n
               PROVE  whole[i] = t[i]
    OBVIOUS
  <2>1. i - n \in 1..(Len(t) - n) /\ n + (i - n) = i /\ ~(i <= n)
    BY <1>1, <1>2
  <2> QED
    BY <1>8, <1>9, <2>1
<1> QED
  <2> HIDE DEF whole
  <2>1. Moved(s, t, s) = whole /\ whole \in Seq(V) /\ Len(whole) = Len(t)
    BY <1>9, <1>10 DEF whole
  <2> QED
    BY <1>3, <1>11, <1>12, <2>1

\* On the array it was computed from a patch of objects is exact when the patches
\* of the elements that changed are.
LEMMA ObjectsExact ==
    ASSUME NEW V, NEW s \in Seq(V), NEW t \in Seq(V), NEW elem,
           \A i \in Shared(s, t) : s[i] # t[i] => elem[i] = Ok(t[i])
    PROVE  PatchObjects(s, t, s, elem) = Ok(t)
<1> DEFINE moved == Moved(s, t, s)
           changed == {i \in Shared(s, t) : s[i] # t[i]}
<1>1. PatchObjects(s, t, s, elem) =
          IF \/ Len(s) # Len(t) /\ Len(s) < Len(s)
             \/ \E i \in changed : i > Len(moved) \/ ~elem[i].ok
          THEN Failed
          ELSE Ok([i \in DOMAIN moved |-> IF i \in changed THEN elem[i].val ELSE moved[i]])
  BY Zenon DEF PatchObjects
<1>2. /\ moved \in Seq(V) /\ Len(moved) = Len(t)
      /\ \A i \in Shared(s, t) : moved[i] = s[i]
      /\ \A i \in 1..Len(t) : i \notin Shared(s, t) => moved[i] = t[i]
  BY MovedOwn
<1> HIDE DEF moved
<1>3. Len(s) \in Nat /\ Len(t) \in Nat /\ DOMAIN moved = 1..Len(t)
  BY <1>2, LenProperties
<1>4. \A i \in Shared(s, t) : i \in 1..Len(t)
  <2>1. Shared(s, t) = 1..Min({Len(s), Len(t)})
    BY Zenon DEF Shared
  <2>2. Min({Len(s), Len(t)}) \in Nat /\ Min({Len(s), Len(t)}) <= Len(t)
    BY <1>3, MinOfTwo
  <2> QED
    BY <1>3, <2>1, <2>2
<1>5. \A i \in changed : elem[i] = Ok(t[i])
  OBVIOUS
<1>6. \A v : Ok(v).ok /\ Ok(v).val = v
  BY DEF Ok
<1>7. \A i \in changed : elem[i].ok /\ elem[i].val = t[i]
  <2> HIDE DEF changed
  <2> QED
    BY <1>5, <1>6, Zenon
<1>8. ~(\E i \in changed : i > Len(moved) \/ ~elem[i].ok)
  BY <1>2, <1>3, <1>4, <1>7
<1>9. [i \in DOMAIN moved |-> IF i \in changed THEN elem[i].val ELSE moved[i]] = t
  <2> DEFINE f == [i \in DOMAIN moved |-> IF i \in changed THEN elem[i].val ELSE moved[i]]
  <2>1. \A i \in 1..Len(t) : f[i] = t[i]
    <3> SUFFICES ASSUME NEW i \in 1..Len(t)
                 PROVE  f[i] = t[i]
      OBVIOUS
    <3>1. CASE i \in changed
      BY <1>3, <1>7, <3>1
    <3>2. CASE i \notin changed
      BY <1>2, <1>3, <3>2
    <3> QED
      BY <3>1, <3>2
  <2>2. f = [i \in 1..Len(t) |-> f[i]]
    BY <1>3
  <2>3. t = [i \in 1..Len(t) |-> t[i]]
    BY <1>3, LenProperties
  <2> HIDE DEF f
  <2>4. [i \in 1..Len(t) |-> f[i]] = [i \in 1..Len(t) |-> t[i]]
    BY <2>1
  <2> QED
    BY <2>2, <2>3, <2>4, Zenon DEF f
<1>10. ~(Len(s) < Len(s))
  BY <1>3
<1> QED
  <2> HIDE DEF changed
  <2> QED
    BY <1>1, <1>8, <1>9, <1>10, Zenon

\* The status of a KMesh, whatever its classes, names and egresses are.
Ingresses(N, E)   == Seq([name : N, egresses : Seq(E)])
Statuses(C, N, E) == [classes : Seq(C), ingresses : Ingresses(N, E)]

\* A list of egresses the server holds becomes the wanted one.
LEMMA PatchEgressesExact ==
    ASSUME NEW V, NEW base \in Seq(V), NEW after \in Seq(V)
    PROVE  PatchEgresses(base, after, base) = Ok(after)
<1> DEFINE elem == [i \in Shared(base, after) |-> Ok(after[i])]
           edited == PatchObjects(base, after, base, elem)
<1>1. edited = Ok(after)
  <2>1. \A i \in Shared(base, after) : elem[i] = Ok(after[i])
    OBVIOUS
  <2> HIDE DEF elem
  <2> QED
    BY <2>1, ObjectsExact
<1>2. PatchEgresses(base, after, base) = PatchMember(base, after, base, edited)
  BY Zenon DEF PatchEgresses
<1> HIDE DEF edited
<1> QED
  BY <1>1, <1>2 DEF PatchMember

\* The same of an ingress: its name and its egresses.
LEMMA PatchIngressExact ==
    ASSUME NEW N, NEW E, NEW old \in [name : N, egresses : Seq(E)],
           NEW new \in [name : N, egresses : Seq(E)]
    PROVE  PatchIngress(old, new, old) = Ok(new)
<1>1. PatchEgresses(old.egresses, new.egresses, old.egresses) = Ok(new.egresses)
  <2>1. old.egresses \in Seq(E) /\ new.egresses \in Seq(E)
    OBVIOUS
  <2> QED
    BY <2>1, PatchEgressesExact
<1>2. new = [name |-> new.name, egresses |-> new.egresses]
  OBVIOUS
<1>3. (IF old.name = new.name THEN old.name ELSE new.name) = new.name
  OBVIOUS
<1>4. \A v : Ok(v).ok /\ Ok(v).val = v
  BY DEF Ok
<1> QED
  BY <1>1, <1>2, <1>3, <1>4, Zenon DEF PatchIngress

\* The same of the list of ingresses.
LEMMA PatchIngressesExact ==
    ASSUME NEW N, NEW E, NEW base \in Ingresses(N, E), NEW after \in Ingresses(N, E)
    PROVE  PatchIngresses(base, after, base) = Ok(after)
<1> DEFINE V == [name : N, egresses : Seq(E)]
           moved == Moved(base, after, base)
           elem == [i \in Shared(base, after) \cap DOMAIN moved |->
                       PatchIngress(base[i], after[i], moved[i])]
           edited == PatchObjects(base, after, base, elem)
<1>1. base \in Seq(V) /\ after \in Seq(V)
  BY Zenon DEF Ingresses
<1>2. PatchIngresses(base, after, base) = PatchMember(base, after, base, edited)
  BY Zenon DEF PatchIngresses
<1> HIDE DEF V
<1>3. /\ Len(base) \in Nat /\ Len(after) \in Nat
      /\ \A i \in 1..Len(base) : base[i] \in V
      /\ \A i \in 1..Len(after) : after[i] \in V
  BY <1>1, LenProperties, ElementOfSeq
<1>4. \A i \in Shared(base, after) : i \in 1..Len(base) /\ i \in 1..Len(after)
  <2>1. Shared(base, after) = 1..Min({Len(base), Len(after)})
    BY Zenon DEF Shared
  <2>2. /\ Min({Len(base), Len(after)}) \in Nat
        /\ Min({Len(base), Len(after)}) <= Len(base)
        /\ Min({Len(base), Len(after)}) <= Len(after)
    BY <1>3, MinOfTwo
  <2> QED
    BY <1>3, <2>1, <2>2
<1>5. /\ moved \in Seq(V) /\ Len(moved) = Len(after)
      /\ \A i \in Shared(base, after) : moved[i] = base[i]
  BY <1>1, MovedOwn
<1> HIDE DEF moved
<1>6. DOMAIN moved = 1..Len(after)
  BY <1>5, LenProperties
<1>7. \A i \in Shared(base, after) : elem[i] = Ok(after[i])
  <2> SUFFICES ASSUME NEW i \in Shared(base, after)
               PROVE  elem[i] = Ok(after[i])
    OBVIOUS
  <2>1. elem[i] = PatchIngress(base[i], after[i], moved[i])
    <3>1. i \in Shared(base, after) \cap DOMAIN moved
      BY <1>4, <1>6
    <3> QED
      BY <3>1
  <2>2. base[i] \in [name : N, egresses : Seq(E)] /\ after[i] \in [name : N, egresses : Seq(E)]
    BY <1>3, <1>4, Zenon DEF V
  <2>3. PatchIngress(base[i], after[i], base[i]) = Ok(after[i])
    BY <2>2, PatchIngressExact
  <2> QED
    BY <1>5, <2>1, <2>3
<1> HIDE DEF elem
<1>8. edited = Ok(after)
  BY <1>1, <1>7, ObjectsExact
<1> HIDE DEF edited
<1> QED
  BY <1>2, <1>8 DEF PatchMember

\* A status patch applied to the very status it was computed from leaves the
\* wanted status, classes, ingresses and egresses, provided the object has a
\* status (brokerbinding.go 104-117, jsonpatch.go 216-330, patch.go 400-540).
THEOREM PatchStatusExact ==
    ASSUME NEW C, NEW N, NEW E,
           NEW base \in Statuses(C, N, E), NEW after \in Statuses(C, N, E)
    PROVE  PatchStatus(base, after, base, TRUE) = Ok(after)
<1>1. /\ base.classes \in Seq(C) /\ after.classes \in Seq(C)
      /\ base.ingresses \in Ingresses(N, E) /\ after.ingresses \in Ingresses(N, E)
      /\ after = [classes |-> after.classes, ingresses |-> after.ingresses]
  BY DEF Statuses
<1>2. PatchClasses(base.classes, after.classes, base.classes) = Ok(after.classes)
  BY <1>1, PatchClassesExact
<1>3. PatchIngresses(base.ingresses, after.ingresses, base.ingresses) = Ok(after.ingresses)
  BY <1>1, PatchIngressesExact
<1>4. \A v : Ok(v).ok /\ Ok(v).val = v
  BY DEF Ok
<1> QED
  BY <1>1, <1>2, <1>3, <1>4, Zenon DEF PatchStatus
=============================================================================
