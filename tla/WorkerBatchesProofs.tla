------------------------- MODULE WorkerBatchesProofs -------------------------
(***************************************************************************)
(* Proofs about WorkerBatches for every list of plans, every set of roles  *)
(* and waves, and all limits of the gate, the packing and the dispatch.    *)
(*                                                                         *)
(* The argument: whatever is packed, chunked, compacted, capped, merged,   *)
(* split or sorted, a list of lists that deals out a set of plans (each of *)
(* them in one place, Deals) still deals out that set.  The batches        *)
(* therefore hold the plans that they were made from (Hold, Dealt), none   *)
(* of the batches is empty, and their order is kept when one is replaced   *)
(* by others of its role and wave (Turns).  What is done is what the       *)
(* batches before the next one hold (LoopFit).                             *)
(*                                                                         *)
(* That the batches fit the context of their model needs sums besides:     *)
(* each pack fits (Fine), and what is cut from it costs no more (Pieces).  *)
(* The tightening looks at what the batches say they cost.  Where tokens   *)
(* come first that is at least what their plans cost, for a batch keeps    *)
(* what it said when it is cut (Roomy); the role split may say less, so    *)
(* after the tightening only its limit on dependencies is left.            *)
(*                                                                         *)
(* The module's folds are functions over the parts of a set.  The first    *)
(* three sections show that such a function exists and say what a fold     *)
(* over a list is, place by place; the next ones say what becomes of Deals *)
(* in each operator, then the invariant and its steps, and last the sums   *)
(* and the room of the batches.                                            *)
(***************************************************************************)
EXTENDS WorkerBatches, FiniteSetTheorems, FunctionTheorems, SequenceTheorems,
        WellFoundedInduction, TLAPS

-----------------------------------------------------------------------------
(* Least numbers and folds *)

\* Every set of naturals has a least element.
LEMMA LeastNat ==
  ASSUME NEW T \in SUBSET Nat, T # {}
  PROVE  \E n \in T : \A m \in T : n <= m
<1> DEFINE R == {p \in Nat \X Nat : p[1] < p[2]}
<1>1. IsWellFoundedOn(R, Nat)
  <2>1. IsWellFoundedOn(OpToRel(<, Nat), Nat)
    BY NatLessThanWellFounded
  <2>2. QED BY <2>1 DEF OpToRel, IsWellFoundedOn
<1>2. \E n \in T : \A m \in T : <<m, n>> \notin R
  <2> HIDE DEF R
  <2>1. QED BY <1>1, WFMin
<1>3. PICK n \in T : \A m \in T : <<m, n>> \notin R
  BY <1>2
<1>4. ASSUME NEW m \in T PROVE n <= m
  <2>1. m \in Nat /\ n \in Nat
    OBVIOUS
  <2>2. ~(m < n)
    BY <1>3, <2>1
  <2>3. QED BY <2>1, <2>2
<1>5. QED BY <1>4

\* Induction up to a bound, for a set instead of a predicate.
LEMMA UpTo ==
  ASSUME NEW N \in Nat, NEW T, 0 \in T, \A k \in 0..(N - 1) : k \in T => k + 1 \in T
  PROVE  \A k \in 0..N : k \in T
<1> DEFINE Out == {k \in 0..N : k \notin T}
<1>1. SUFFICES ASSUME Out # {} PROVE FALSE
  OBVIOUS
<1>2. PICK n \in Out : \A m \in Out : n <= m
  <2>1. Out \in SUBSET Nat
    OBVIOUS
  <2> HIDE DEF Out
  <2>2. QED BY <1>1, <2>1, LeastNat
<1>3. n \in 0..N /\ n \notin T /\ n # 0
  OBVIOUS
<1>4. n - 1 \in 0..(N - 1) /\ n - 1 \notin Out
  BY <1>2, <1>3
<1>5. QED BY <1>3, <1>4

-----------------------------------------------------------------------------
\* g folds F over the parts of D, from b on; pick says which element comes last.
Folds(g, D, b, pick, F) ==
  \A u \in SUBSET D : g[u] = IF u = {} THEN b ELSE F[<<pick[u], g[u \ {pick[u]}]>>]

\* A fold over the parts of a finite set is defined for all of them.
LEMMA PartsFold ==
  ASSUME NEW D, IsFiniteSet(D), NEW S, NEW b \in S,
         NEW pick, \A u \in (SUBSET D) \ {{}} : pick[u] \in u,
         NEW F \in [D \X S -> S]
  PROVE  \E g \in [SUBSET D -> S] : Folds(g, D, b, pick, F)
<1> DEFINE At(g, u) == g[u] = IF u = {} THEN b ELSE F[<<pick[u], g[u \ {pick[u]}]>>]
           T == {k \in Nat : \E g \in [SUBSET D -> S] :
                               \A u \in SUBSET D : Cardinality(u) <= k => At(g, u)}
           N == Cardinality(D)
<1>1. N \in Nat /\ \A u \in SUBSET D : IsFiniteSet(u) /\ Cardinality(u) \in 0..N
  BY FS_CardinalityType, FS_Subset
<1>2. 0 \in T
  <2> DEFINE g == [u \in SUBSET D |-> b]
  <2>1. ASSUME NEW u \in SUBSET D, Cardinality(u) <= 0 PROVE At(g, u)
    <3>1. u = {} BY <1>1, <2>1, FS_EmptySet
    <3>2. QED BY <3>1
  <2>2. g \in [SUBSET D -> S] OBVIOUS
  <2>3. QED BY <2>1, <2>2
<1>3. ASSUME NEW k \in 0..(N - 1), k \in T PROVE k + 1 \in T
  <2>1. PICK g \in [SUBSET D -> S] :
               \A u \in SUBSET D : Cardinality(u) <= k => At(g, u)
    BY <1>3
  <2> DEFINE h == [u \in SUBSET D |->
                     IF u = {} THEN b ELSE F[<<pick[u], g[u \ {pick[u]}]>>]]
  <2>2. h \in [SUBSET D -> S]
    OBVIOUS
  <2>3. \A u \in SUBSET D : Cardinality(u) <= k => h[u] = g[u]
    BY <2>1
  <2>4. ASSUME NEW u \in SUBSET D, Cardinality(u) <= k + 1 PROVE At(h, u)
    <3>1. CASE u = {} BY <3>1
    <3>2. CASE u # {}
      <4>1. pick[u] \in u /\ u \ {pick[u]} \in SUBSET D
        BY <3>2
      <4>2. Cardinality(u \ {pick[u]}) = Cardinality(u) - 1
        BY <1>1, <4>1, FS_RemoveElement
      <4>3. Cardinality(u \ {pick[u]}) <= k
        BY <1>1, <1>3, <2>4, <4>2
      <4>4. h[u \ {pick[u]}] = g[u \ {pick[u]}]
        BY <2>3, <4>1, <4>3
      <4>5. QED BY <3>2, <4>1, <4>4
    <3>3. QED BY <3>1, <3>2
  <2>5. k + 1 \in Nat BY <1>1
  <2> HIDE DEF h, At
  <2>6. QED BY <2>2, <2>4, <2>5
<1>4. N \in T
  <2> HIDE DEF T, N
  <2>1. \A k \in 0..N : k \in T BY <1>1, <1>2, <1>3, UpTo
  <2>2. QED BY <1>1, <2>1
<1>5. PICK g \in [SUBSET D -> S] : \A u \in SUBSET D : Cardinality(u) <= N => At(g, u)
  BY <1>4
<1>6. \A u \in SUBSET D : Cardinality(u) <= N
  BY <1>1
<1>7. QED BY <1>5, <1>6 DEF Folds

\* The largest of the numbers up to n.
LEMMA MaxUpTo ==
  ASSUME NEW n \in Nat \ {0}
  PROVE  Max(1..n) = n /\ (1..n) \ {n} = 1..(n - 1)
BY DEF Max

\* A finite set of numbers has a largest one.
LEMMA MaxIn ==
  ASSUME NEW N \in Nat, NEW u \in SUBSET (0..N), u # {}
  PROVE  Max(u) \in u /\ \A m \in u : m <= Max(u)
<1> DEFINE Gaps == {N - m : m \in u}
<1>1. Gaps \in SUBSET Nat /\ Gaps # {}
  <2>1. \A m \in u : m \in 0..N /\ N - m \in Nat
    OBVIOUS
  <2>2. QED BY <2>1
<1>2. PICK g \in Gaps : \A m \in Gaps : g <= m
  <2> HIDE DEF Gaps
  <2>1. QED BY <1>1, LeastNat
<1>3. PICK x \in u : g = N - x
  OBVIOUS
<1>4. \A m \in u : x >= m
  BY <1>2, <1>3
<1>5. QED BY <1>4 DEF Max

\* h step by step: t[n] is what F makes of the place n and of t[n - 1].
Unrolls(t, h, N, b, F) ==
  /\ t[0] = b /\ t[N] = h[1..N]
  /\ \A n \in 1..N : t[n] = F[<<n, t[n - 1]>>]

\* What FoldLeft expands to, for values in S.
FoldsUp(h, N, S, b, F) ==
  /\ h[{}] = b
  /\ \A u \in (SUBSET (1..N)) \ {{}} :
        h[u \ {Max(u)}] \in S => h[u] = F[<<Max(u), h[u \ {Max(u)}]>>]

FoldsAll(g, N, b, F) ==
  \A u \in SUBSET (1..N) : g[u] = IF u = {} THEN b ELSE F[<<Max(u), g[u \ {Max(u)}]>>]

\* The fold of a sequence of length N is defined.
LEMMA FoldDefined ==
  ASSUME NEW N \in Nat, NEW S, NEW b \in S, NEW F \in [(1..N) \X S -> S]
  PROVE  \E g \in [SUBSET (1..N) -> S] : FoldsAll(g, N, b, F)
<1> DEFINE D == 1..N
           pick == [u \in SUBSET D |-> Max(u)]
<1>1. \A u \in (SUBSET D) \ {{}} : pick[u] \in u
  <2>1. SUFFICES ASSUME NEW u \in SUBSET D, u # {} PROVE Max(u) \in u
    OBVIOUS
  <2>2. u \in SUBSET (0..N)
    OBVIOUS
  <2>3. QED BY <2>1, <2>2, MaxIn
<1>2. IsFiniteSet(D)
  BY FS_Interval
<1>3. F \in [D \X S -> S]
  OBVIOUS
<1> HIDE DEF pick, D
<1>4. PICK g \in [SUBSET D -> S] : Folds(g, D, b, pick, F)
  BY <1>1, <1>2, <1>3, PartsFold
<1>5. QED BY <1>4 DEF pick, D, Folds, FoldsAll

\* A fold that is defined goes through the sequence place by place.
LEMMA FoldUnrolled ==
  ASSUME NEW N \in Nat, NEW S, NEW b \in S, NEW F \in [(1..N) \X S -> S],
         NEW h, FoldsUp(h, N, S, b, F)
  PROVE  \E t \in [0..N -> S] : Unrolls(t, h, N, b, F)
<1> DEFINE t == [n \in 0..N |-> h[1..n]]
           T == {n \in 0..N : h[1..n] \in S}
<1>1. 0 \in T
  BY DEF FoldsUp
<1>2. ASSUME NEW n \in 1..N, n - 1 \in T PROVE h[1..n] = F[<<n, h[1..(n - 1)]>>]
  <2>1. 1..n \in (SUBSET (1..N)) \ {{}}
    OBVIOUS
  <2>2. Max(1..n) = n /\ (1..n) \ {n} = 1..(n - 1)
    BY MaxUpTo
  <2>3. QED BY <1>2, <2>1, <2>2 DEF FoldsUp
<1>3. ASSUME NEW k \in 0..(N - 1), k \in T PROVE k + 1 \in T
  <2>1. k + 1 \in 1..N /\ (k + 1) - 1 = k
    OBVIOUS
  <2>2. h[1..(k + 1)] = F[<<k + 1, h[1..k]>>]
    BY <1>2, <1>3, <2>1
  <2>3. h[1..k] \in S
    BY <1>3
  <2>4. QED BY <2>1, <2>2, <2>3
<1>4. \A k \in 0..N : k \in T
  <2> HIDE DEF T
  <2>1. QED BY <1>1, <1>3, UpTo
<1>5. t \in [0..N -> S] /\ t[0] = b /\ t[N] = h[1..N]
  <2>1. 1..0 = {}
    OBVIOUS
  <2>2. QED BY <1>4, <2>1 DEF FoldsUp
<1>6. \A n \in 1..N : t[n] = F[<<n, t[n - 1]>>]
  BY <1>2, <1>4
<1>7. QED BY <1>5, <1>6 DEF Unrolls

\* Max picks a place of a part of 1..N.
LEMMA MaxAmong ==
  ASSUME NEW N \in Nat
  PROVE  \A u \in (SUBSET (1..N)) \ {{}} : Max(u) \in 1..N
<1>1. SUFFICES ASSUME NEW u \in (SUBSET (1..N)) \ {{}} PROVE Max(u) \in u
  OBVIOUS
<1>2. u \in SUBSET (0..N) /\ u # {}
  OBVIOUS
<1>3. QED BY <1>2, MaxIn

-----------------------------------------------------------------------------
(* The folds of the module, place by place *)

AmongStep(n, out, s, X) == IF s[n] \in X THEN Append(out, s[n]) ELSE out

\* Among keeps what is in X.
AmongSteps(t, s, X) ==
  /\ t[0] = << >> /\ Among(s, X) = t[Len(s)]
  /\ \A n \in 1..Len(s) : t[n] = AmongStep(n, t[n - 1], s, X)

\* Among, from one place of the list to the next.
LEMMA AmongUnrolled ==
  ASSUME NEW P, NEW s \in Seq(P), NEW X
  PROVE  \E t \in [0..Len(s) -> Seq(P)] : AmongSteps(t, s, X)
<1> DEFINE S == Seq(P)
           N == Len(s)
           step(n, out) == AmongStep(n, out, s, X)
           F == [x \in (1..N) \X S |-> step(x[1], x[2])]
           Body(f) == [u \in SUBSET (DOMAIN s) |->
                         IF u = {} THEN << >> ELSE step(Max(u), f[u \ {Max(u)}])]
           h == CHOOSE f : f = Body(f)
<1>1. Among(s, X) = h[DOMAIN s]
  BY DEF Among, FoldLeft, MapThenFoldSet, AmongStep
<1>2. N \in Nat /\ DOMAIN s = 1..N /\ << >> \in S
  OBVIOUS
<1>3. F \in [(1..N) \X S -> S] /\ \A n \in 1..N, out \in S : F[<<n, out>>] = step(n, out)
  <2>1. \A n \in 1..N, out \in S : step(n, out) \in S
    BY DEF AmongStep
  <2> HIDE DEF step, S
  <2>2. QED BY <2>1
<1>4. \A u \in (SUBSET (1..N)) \ {{}} : Max(u) \in 1..N
  BY <1>2, MaxAmong
<1>5. h = Body(h)
  <2>1. PICK g \in [SUBSET (1..N) -> S] : FoldsAll(g, N, << >>, F)
    <3> HIDE DEF F, N, S
    <3>1. QED BY <1>2, <1>3, FoldDefined
  <2>2. \A u \in (SUBSET (1..N)) \ {{}} : g[u] = step(Max(u), g[u \ {Max(u)}])
    <3> HIDE DEF F, step, S, N
    <3>1. QED BY <1>3, <1>4, <2>1 DEF FoldsAll
  <2>3. g = Body(g)
    <3> HIDE DEF F, step, S
    <3>1. QED BY <1>2, <2>1, <2>2 DEF FoldsAll
  <2> HIDE DEF Body
  <2>4. QED BY <2>3
<1>6. FoldsUp(h, N, S, << >>, F)
  <2>1. h[{}] = << >>
    BY <1>2, <1>5
  <2>2. ASSUME NEW u \in (SUBSET (1..N)) \ {{}}, h[u \ {Max(u)}] \in S
        PROVE  h[u] = F[<<Max(u), h[u \ {Max(u)}]>>]
    <3> HIDE DEF F, step, h, S
    <3>1. h[u] = step(Max(u), h[u \ {Max(u)}])
      BY <1>2, <1>5
    <3>2. QED BY <1>3, <1>4, <2>2, <3>1
  <2> HIDE DEF F, h
  <2>3. QED BY <2>1, <2>2 DEF FoldsUp
<1>7. PICK t \in [0..N -> S] : Unrolls(t, h, N, << >>, F)
  <2> HIDE DEF F, N, S, h
  <2>1. N \in Nat /\ << >> \in S
    BY <1>2
  <2>2. QED BY <1>3, <1>6, <2>1, FoldUnrolled
<1>8. \A n \in 1..N : t[n] = step(n, t[n - 1])
  <2>1. SUFFICES ASSUME NEW n \in 1..N PROVE t[n] = step(n, t[n - 1])
    OBVIOUS
  <2>2. t[n - 1] \in S
    <3>1. n - 1 \in 0..N
      BY <1>2
    <3> HIDE DEF S, F, h, N
    <3>2. QED BY <1>7, <3>1
  <2> HIDE DEF F, step, S, N
  <2>3. QED BY <1>3, <1>7, <2>2 DEF Unrolls
<1>9. QED BY <1>1, <1>2, <1>7, <1>8 DEF Unrolls, AmongSteps

-----------------------------------------------------------------------------
(* Sequences of sequences, laid end to end *)

\* The places from 1 on, one after the other.
Steps(t, N, b, F) == t[0] = b /\ \A n \in 1..N : t[n] = F[<<n, t[n - 1]>>]

\* What is said step by step of a function on 0..N defines it.
LEMMA StepsDefined ==
  ASSUME NEW N \in Nat, NEW S, NEW b \in S, NEW F \in [(1..N) \X S -> S]
  PROVE  \E t \in [0..N -> S] : Steps(t, N, b, F)
<1>1. PICK g \in [SUBSET (1..N) -> S] : FoldsAll(g, N, b, F)
  BY FoldDefined
<1>2. FoldsUp(g, N, S, b, F)
  BY <1>1 DEF FoldsAll, FoldsUp
<1>3. PICK t \in [0..N -> S] : Unrolls(t, g, N, b, F)
  BY <1>2, FoldUnrolled
<1>4. QED BY <1>3 DEF Unrolls, Steps

\* FlattenSeq appends one sequence after the other.
LEMMA FlattenUnrolled ==
  ASSUME NEW P, NEW ss \in Seq(Seq(P))
  PROVE  \E t \in [0..Len(ss) -> Seq(P)] :
            /\ t[0] = << >> /\ FlattenSeq(ss) = t[Len(ss)]
            /\ \A n \in 1..Len(ss) : t[n] = t[n - 1] \o ss[n]
<1> DEFINE N == Len(ss)
           S == Seq(P)
           F == [x \in (1..N) \X S |-> x[2] \o ss[x[1]]]
           Body(f) == [i \in 1..N |-> IF i = 1 THEN ss[i] ELSE f[i - 1] \o ss[i]]
           h == CHOOSE f : f = Body(f)
<1>1. N \in Nat /\ << >> \in S /\ \A n \in 1..N : ss[n] \in S
  OBVIOUS
<1>2. F \in [(1..N) \X S -> S] /\ \A n \in 1..N, x \in S : F[<<n, x>>] = x \o ss[n]
  <2>1. \A x \in (1..N) \X S : x[2] \o ss[x[1]] \in S
    BY <1>1, ConcatProperties
  <2>2. F \in [(1..N) \X S -> S]
    <3> HIDE DEF S
    <3>1. QED BY <2>1
  <2>3. \A n \in 1..N, x \in S : F[<<n, x>>] = x \o ss[n]
    <3> HIDE DEF S
    <3>1. QED OBVIOUS
  <2>4. QED BY <2>2, <2>3
<1>3. PICK t \in [0..N -> S] : Steps(t, N, << >>, F)
  <2> HIDE DEF N, S, F
  <2>1. QED BY <1>1, <1>2, StepsDefined
<1>4. \A n \in 1..N : t[n - 1] \in S /\ t[n] = t[n - 1] \o ss[n]
  <2>1. SUFFICES ASSUME NEW n \in 1..N PROVE t[n - 1] \in S /\ t[n] = t[n - 1] \o ss[n]
    OBVIOUS
  <2>2. n - 1 \in 0..N
    OBVIOUS
  <2> HIDE DEF F, S
  <2>3. QED BY <1>2, <1>3, <2>2 DEF Steps
<1>5. 1 \in 1..N => t[1] = ss[1]
  <2>1. SUFFICES ASSUME 1 \in 1..N PROVE t[1] = ss[1]
    OBVIOUS
  <2>2. t[1] = t[0] \o ss[1]
    <3>1. \A n \in 1..N : n = 1 => n - 1 = 0
      OBVIOUS
    <3> HIDE DEF N, S
    <3>2. \A n \in 1..N : n = 1 => t[n] = t[0] \o ss[n]
      BY <1>4, <3>1
    <3>3. QED BY <2>1, <3>2
  <2>3. t[0] = << >>
    BY <1>3 DEF Steps
  <2>4. << >> \o ss[1] = ss[1]
    BY <1>1, <2>1, ConcatEmptySeq
  <2>5. QED BY <2>2, <2>3, <2>4
<1>6. CASE N = 0
  BY <1>3, <1>4, <1>6 DEF FlattenSeq, Steps
<1>7. CASE N # 0
  <2>1. FlattenSeq(ss) = h[N]
    BY <1>7 DEF FlattenSeq
  <2>2. h = Body(h)
    <3> DEFINE g == [i \in 1..N |-> t[i]]
    <3>1. ASSUME NEW i \in 1..N PROVE g[i] = IF i = 1 THEN ss[i] ELSE g[i - 1] \o ss[i]
      <4>1. CASE i = 1
        <5>1. 1 \in 1..N
          BY <4>1
        <5>2. QED BY <1>5, <4>1, <5>1
      <4>2. CASE i # 1
        <5>1. i - 1 \in 1..N
          BY <4>2
        <5>2. QED BY <1>4, <4>2, <5>1
      <4>3. QED BY <4>1, <4>2
    <3>2. g = Body(g)
      BY <3>1
    <3> HIDE DEF Body, g
    <3>3. QED BY <3>2
  <2> DEFINE T == {n \in 0..N : n = 0 \/ h[n] = t[n]}
  <2>3. ASSUME NEW k \in 0..(N - 1), k \in T PROVE k + 1 \in T
    <3>1. k + 1 \in 1..N /\ (k + 1) - 1 = k
      OBVIOUS
    <3>2. h[k + 1] = IF k + 1 = 1 THEN ss[k + 1] ELSE h[k] \o ss[k + 1]
      <4> HIDE DEF h
      <4>1. QED BY <2>2, <3>1
    <3>3. t[k + 1] = t[k] \o ss[k + 1]
      BY <1>4, <3>1
    <3>4. CASE k = 0
      <4>1. k + 1 = 1 /\ 1 \in 1..N
        BY <3>1, <3>4
      <4>2. h[k + 1] = ss[1]
        <5> HIDE DEF h
        <5>1. QED BY <3>2, <4>1
      <4>3. t[k + 1] = ss[1]
        BY <1>5, <4>1
      <4>4. k + 1 \in 0..N /\ h[k + 1] = t[k + 1]
        <5> HIDE DEF h
        <5>1. QED BY <1>1, <3>1, <4>2, <4>3
      <4> HIDE DEF h
      <4>5. QED BY <4>4
    <3>5. CASE k # 0
      <4>1. h[k] = t[k] /\ k + 1 # 1
        <5> HIDE DEF h
        <5>1. QED BY <2>3, <3>5
      <4>2. h[k + 1] = t[k + 1]
        <5> HIDE DEF h, N, S, F
        <5>1. h[k + 1] = h[k] \o ss[k + 1]
          BY <3>2, <4>1
        <5>2. QED BY <3>3, <4>1, <5>1
      <4> HIDE DEF h
      <4>3. QED BY <3>1, <4>2
    <3>6. QED BY <3>4, <3>5
  <2>4. h[N] = t[N]
    <3>1. 0 \in T
      OBVIOUS
    <3>2. \A k \in 0..N : k \in T
      <4> HIDE DEF T, N
      <4>1. QED BY <1>1, <2>3, <3>1, UpTo
    <3>3. N \in T
      <4> HIDE DEF T
      <4>1. QED BY <1>1, <3>2
    <3> HIDE DEF h
    <3>4. QED BY <1>7, <3>3
  <2> HIDE DEF h, F
  <2>5. QED BY <1>3, <1>4, <2>1, <2>4 DEF Steps
<1>8. QED BY <1>6, <1>7

\* Where the elements of f are in the first K sequences of ss, in the same order.
Places(K, ss, f, at, in) ==
  /\ \A m \in 1..Len(f) : /\ at[m] \in 1..K /\ in[m] \in 1..Len(ss[at[m]])
                          /\ f[m] = ss[at[m]][in[m]]
  /\ \A m, n \in 1..Len(f) : m < n => at[m] < at[n] \/ (at[m] = at[n] /\ in[m] < in[n])
  /\ \A i \in 1..K : \A j \in 1..Len(ss[i]) : \E m \in 1..Len(f) : at[m] = i /\ in[m] = j

\* One more sequence.
LEMMA PlacesAppend ==
  ASSUME NEW P, NEW ss \in Seq(Seq(P)), NEW K \in Nat, K + 1 \in 1..Len(ss),
         NEW f \in Seq(P), NEW at, NEW in, Places(K, ss, f, at, in)
  PROVE  \E a, b : Places(K + 1, ss, f \o ss[K + 1], a, b)
<1> DEFINE L == Len(f)
           s == ss[K + 1]
           g == f \o s
           a == [m \in 1..(L + Len(s)) |-> IF m <= L THEN at[m] ELSE K + 1]
           b == [m \in 1..(L + Len(s)) |-> IF m <= L THEN in[m] ELSE m - L]
<1>1. s \in Seq(P) /\ L \in Nat /\ Len(s) \in Nat
  OBVIOUS
<1>2. /\ Len(g) = L + Len(s)
      /\ \A m \in 1..(L + Len(s)) : g[m] = IF m <= L THEN f[m] ELSE s[m - L]
  BY <1>1, ConcatProperties
<1>3. /\ \A m \in 1..L : a[m] = at[m] /\ b[m] = in[m] /\ g[m] = f[m]
      /\ \A m \in (L + 1)..(L + Len(s)) : a[m] = K + 1 /\ b[m] = m - L /\ g[m] = s[m - L]
  <2>1. /\ \A m \in 1..L : m \in 1..(L + Len(s)) /\ m <= L
        /\ \A m \in (L + 1)..(L + Len(s)) : m \in 1..(L + Len(s)) /\ ~(m <= L)
    BY <1>1
  <2> HIDE DEF g, L, s
  <2>2. QED BY <1>2, <2>1
<1>4. \A m \in 1..(L + Len(s)) : m \in 1..L \/ m \in (L + 1)..(L + Len(s))
  BY <1>1
<1> HIDE DEF g, a, b
<1>5. ASSUME NEW m \in 1..(L + Len(s))
      PROVE  a[m] \in 1..(K + 1) /\ b[m] \in 1..Len(ss[a[m]]) /\ g[m] = ss[a[m]][b[m]]
  <2>1. CASE m \in 1..L
    <3>1. at[m] \in 1..K /\ in[m] \in 1..Len(ss[at[m]]) /\ f[m] = ss[at[m]][in[m]]
      BY <2>1 DEF Places
    <3>2. a[m] = at[m] /\ b[m] = in[m] /\ g[m] = f[m]
      BY <1>3, <2>1
    <3>3. QED BY <3>1, <3>2
  <2>2. CASE m \in (L + 1)..(L + Len(s))
    <3>1. a[m] = K + 1 /\ b[m] = m - L /\ g[m] = s[m - L]
      BY <1>3, <2>2
    <3>2. m - L \in 1..Len(s)
      BY <1>1, <2>2
    <3>3. QED BY <3>1, <3>2
  <2>3. QED BY <1>4, <2>1, <2>2
<1>6. ASSUME NEW m \in 1..(L + Len(s)), NEW n \in 1..(L + Len(s)), m < n
      PROVE  a[m] < a[n] \/ (a[m] = a[n] /\ b[m] < b[n])
  <2>1. CASE n \in 1..L
    <3>1. m \in 1..L
      BY <1>1, <1>6, <2>1
    <3>2. QED BY <1>3, <1>6, <2>1, <3>1 DEF Places
  <2>2. CASE m \in 1..L /\ n \in (L + 1)..(L + Len(s))
    <3>1. a[m] = at[m] /\ at[m] \in 1..K /\ a[n] = K + 1
      BY <1>3, <2>2 DEF Places
    <3>2. QED BY <3>1
  <2>3. CASE m \in (L + 1)..(L + Len(s)) /\ n \in (L + 1)..(L + Len(s))
    BY <1>1, <1>3, <1>6, <2>3
  <2>4. QED BY <1>4, <1>6, <2>1, <2>2, <2>3
<1>7. ASSUME NEW i \in 1..(K + 1), NEW j \in 1..Len(ss[i])
      PROVE  \E m \in 1..(L + Len(s)) : a[m] = i /\ b[m] = j
  <2>1. CASE i = K + 1
    <3>1. L + j \in (L + 1)..(L + Len(s)) /\ L + j \in 1..(L + Len(s)) /\ (L + j) - L = j
      BY <1>1, <2>1
    <3>2. QED BY <1>3, <2>1, <3>1
  <2>2. CASE i # K + 1
    <3>1. i \in 1..K
      BY <2>2
    <3>2. PICK m \in 1..L : at[m] = i /\ in[m] = j
      BY <3>1 DEF Places
    <3>3. m \in 1..(L + Len(s))
      BY <1>1
    <3>4. QED BY <1>3, <3>2, <3>3
  <2>3. QED BY <2>1, <2>2
<1>8. Places(K + 1, ss, g, a, b)
  BY <1>2, <1>5, <1>6, <1>7 DEF Places
<1>9. QED BY <1>8 DEF g

\* Each element of the flat sequence comes from one place, and their order is kept.
LEMMA FlattenPlaces ==
  ASSUME NEW P, NEW ss \in Seq(Seq(P))
  PROVE  /\ FlattenSeq(ss) \in Seq(P)
         /\ \E at, in : Places(Len(ss), ss, FlattenSeq(ss), at, in)
<1> DEFINE N == Len(ss)
<1>1. N \in Nat
  OBVIOUS
<1>2. PICK t \in [0..N -> Seq(P)] :
         /\ t[0] = << >> /\ FlattenSeq(ss) = t[N]
         /\ \A n \in 1..N : t[n] = t[n - 1] \o ss[n]
  BY FlattenUnrolled
<1> DEFINE T == {k \in 0..N : \E at, in : Places(k, ss, t[k], at, in)}
<1>3. 0 \in T
  <2>1. Len(t[0]) = 0 /\ 0 \in 0..N
    BY <1>1, <1>2
  <2>2. Places(0, ss, t[0], << >>, << >>)
    BY <2>1 DEF Places
  <2>3. QED BY <2>1, <2>2
<1>4. ASSUME NEW k \in 0..(N - 1), k \in T PROVE k + 1 \in T
  <2>1. k \in Nat /\ k \in 0..N /\ k + 1 \in 1..N /\ k + 1 \in 0..N /\ (k + 1) - 1 = k
    BY <1>1
  <2>2. t[k + 1] = t[k] \o ss[k + 1] /\ t[k] \in Seq(P)
    BY <1>2, <2>1
  <2>3. PICK at, in : Places(k, ss, t[k], at, in)
    BY <1>4
  <2>4. \E a, b : Places(k + 1, ss, t[k] \o ss[k + 1], a, b)
    BY <2>1, <2>2, <2>3, PlacesAppend
  <2>5. QED BY <2>1, <2>2, <2>4
<1>5. N \in T
  <2> HIDE DEF T, N
  <2>1. \A k \in 0..N : k \in T
    BY <1>1, <1>3, <1>4, UpTo
  <2>2. QED BY <1>1, <2>1
<1>6. FlattenSeq(ss) \in Seq(P)
  BY <1>1, <1>2
<1>7. QED BY <1>2, <1>5, <1>6

\* No two elements of the flat sequence come from one place.
LEMMA PlacesOnce ==
  ASSUME NEW P, NEW K \in Nat, NEW ss \in Seq(Seq(P)), K <= Len(ss), NEW f \in Seq(P),
         NEW at, NEW in, Places(K, ss, f, at, in),
         NEW m \in 1..Len(f), NEW n \in 1..Len(f), at[m] = at[n], in[m] = in[n]
  PROVE  m = n
<1>1. Len(f) \in Nat
  OBVIOUS
<1>2. at[m] \in 1..K /\ in[m] \in 1..Len(ss[at[m]])
  BY DEF Places
<1>3. at[m] \in Int /\ in[m] \in Int
  BY <1>2
<1> DEFINE u == at[m]
           v == in[m]
<1>4. u \in Int /\ v \in Int /\ at[n] = u /\ in[n] = v
  BY <1>3
<1>5. m < n => at[m] < at[n] \/ (at[m] = at[n] /\ in[m] < in[n])
  BY DEF Places
<1>6. n < m => at[n] < at[m] \/ (at[n] = at[m] /\ in[n] < in[m])
  BY DEF Places
<1>7. (m < n => u < u \/ v < v) /\ (n < m => u < u \/ v < v)
  BY <1>4, <1>5, <1>6
<1> HIDE DEF u, v
<1>8. ~(m < n) /\ ~(n < m)
  BY <1>4, <1>7
<1>9. QED BY <1>1, <1>8

-----------------------------------------------------------------------------
(* Who holds what *)

\* s holds each element of X once.
Lists(s, X) ==
  /\ \A i \in 1..Len(s) : s[i] \in X
  /\ \A x \in X : \E i \in 1..Len(s) : s[i] = x
  /\ \A i, j \in 1..Len(s) : s[i] = s[j] => i = j

\* The sequences of ss together hold each element of X once.
Deals(ss, X) ==
  /\ \A i \in 1..Len(ss) : \A j \in 1..Len(ss[i]) : ss[i][j] \in X
  /\ \A x \in X : \E i \in 1..Len(ss) : \E j \in 1..Len(ss[i]) : ss[i][j] = x
  /\ \A i, k \in 1..Len(ss) : \A j \in 1..Len(ss[i]), l \in 1..Len(ss[k]) :
        ss[i][j] = ss[k][l] => i = k /\ j = l

\* An element is dealt once.
LEMMA DealsOnce ==
  ASSUME NEW ss, NEW X, Deals(ss, X), NEW i \in 1..Len(ss), NEW k \in 1..Len(ss),
         NEW j \in 1..Len(ss[i]), NEW l \in 1..Len(ss[k]), ss[i][j] = ss[k][l]
  PROVE  i = k /\ j = l
BY DEF Deals

\* Laid end to end, sequences that deal X list it.
LEMMA FlattenLists ==
  ASSUME NEW P, NEW ss \in Seq(Seq(P)), NEW X, Deals(ss, X)
  PROVE  FlattenSeq(ss) \in Seq(P) /\ Lists(FlattenSeq(ss), X)
<1> DEFINE f == FlattenSeq(ss)
           N == Len(ss)
<1>1. f \in Seq(P)
  BY FlattenPlaces
<1>2. PICK at, in : Places(N, ss, f, at, in)
  BY FlattenPlaces
<1>3. Len(f) \in Nat
  BY <1>1
<1> HIDE DEF f, N
<1>4. ASSUME NEW m \in 1..Len(f)
      PROVE  at[m] \in 1..N /\ in[m] \in 1..Len(ss[at[m]]) /\ f[m] = ss[at[m]][in[m]]
  BY <1>2 DEF Places
<1>5. ASSUME NEW m \in 1..Len(f) PROVE f[m] \in X
  BY <1>4 DEF Deals, N
<1>6. ASSUME NEW x \in X PROVE \E m \in 1..Len(f) : f[m] = x
  <2>1. PICK i \in 1..N : \E j \in 1..Len(ss[i]) : ss[i][j] = x
    BY DEF Deals, N
  <2>2. PICK j \in 1..Len(ss[i]) : ss[i][j] = x
    BY <2>1
  <2>3. PICK m \in 1..Len(f) : at[m] = i /\ in[m] = j
    BY <1>2 DEF Places
  <2>4. QED BY <1>4, <2>2, <2>3
<1>7. ASSUME NEW m \in 1..Len(f), NEW n \in 1..Len(f), f[m] = f[n] PROVE m = n
  <2>1. at[m] = at[n] /\ in[m] = in[n]
    <3>1. /\ at[m] \in 1..N /\ in[m] \in 1..Len(ss[at[m]])
          /\ at[n] \in 1..N /\ in[n] \in 1..Len(ss[at[n]])
          /\ ss[at[m]][in[m]] = ss[at[n]][in[n]]
      BY <1>4, <1>7
    <3> DEFINE i == at[m]
               k == at[n]
               j == in[m]
               l == in[n]
    <3>2. i \in 1..Len(ss) /\ k \in 1..Len(ss)
      BY <3>1 DEF N
    <3>3. j \in 1..Len(ss[i]) /\ l \in 1..Len(ss[k]) /\ ss[i][j] = ss[k][l]
      BY <3>1
    <3> HIDE DEF i, j, k, l
    <3>4. i = k /\ j = l
      BY <3>2, <3>3, DealsOnce
    <3>5. QED BY <3>4 DEF i, j, k, l
  <2>2. N \in Nat /\ N <= Len(ss)
    BY DEF N
  <2>3. QED BY <1>1, <1>2, <2>1, <2>2, PlacesOnce
<1>8. Lists(f, X)
  BY <1>5, <1>6, <1>7 DEF Lists
<1>9. QED BY <1>1, <1>8 DEF f

\* One element more.
LEMMA ListsAppend ==
  ASSUME NEW P, NEW s \in Seq(P), NEW X, Lists(s, X), NEW e \in P, e \notin X
  PROVE  Append(s, e) \in Seq(P) /\ Lists(Append(s, e), X \cup {e})
<1> DEFINE g == Append(s, e)
<1>1. /\ g \in Seq(P) /\ Len(s) \in Nat /\ Len(g) = Len(s) + 1
      /\ \A i \in 1..Len(s) : g[i] = s[i]
      /\ g[Len(s) + 1] = e
  BY AppendProperties
<1> HIDE DEF g
<1>2. \A i \in 1..Len(g) : i \in 1..Len(s) \/ i = Len(s) + 1
  BY <1>1
<1>3. \A i \in 1..Len(g) : g[i] \in X \cup {e}
  BY <1>1, <1>2 DEF Lists
<1>4. \A x \in X \cup {e} : \E i \in 1..Len(g) : g[i] = x
  <2>1. Len(s) + 1 \in 1..Len(g) /\ \A i \in 1..Len(s) : i \in 1..Len(g)
    BY <1>1
  <2>2. QED BY <1>1, <2>1 DEF Lists
<1>5. \A i, j \in 1..Len(g) : g[i] = g[j] => i = j
  BY <1>1, <1>2 DEF Lists
<1>6. Lists(g, X \cup {e})
  BY <1>3, <1>4, <1>5 DEF Lists
<1>7. QED BY <1>1, <1>6 DEF g

\* The elements of s up to place n.
UpToPlace(s, n) == {s[i] : i \in 1..n}

\* One more place holds one more element.
LEMMA UpToPlaceNext ==
  ASSUME NEW s, NEW n \in Nat \ {0}
  PROVE  UpToPlace(s, n) = UpToPlace(s, n - 1) \cup {s[n]}
<1>1. 1..n = (1..(n - 1)) \cup {n}
  OBVIOUS
<1>2. QED BY <1>1 DEF UpToPlace

\* A list shows elements that were not there before.
LEMMA ListsUpTo ==
  ASSUME NEW P, NEW s \in Seq(P), NEW X, Lists(s, X)
  PROVE  /\ X = UpToPlace(s, Len(s)) /\ UpToPlace(s, 0) = {}
         /\ \A n \in 1..Len(s) : s[n] \in P /\ s[n] \notin UpToPlace(s, n - 1)
<1>1. X = UpToPlace(s, Len(s))
  BY DEF Lists, UpToPlace
<1>2. ASSUME NEW n \in 1..Len(s) PROVE s[n] \in P /\ s[n] \notin UpToPlace(s, n - 1)
  <2>1. \A i \in 1..(n - 1) : i \in 1..Len(s) /\ i # n
    OBVIOUS
  <2>2. QED BY <2>1 DEF Lists, UpToPlace
<1>3. QED BY <1>1, <1>2 DEF UpToPlace

\* Among lists what is in both.
LEMMA AmongLists ==
  ASSUME NEW P, NEW s \in Seq(P), NEW Y, Lists(s, Y), NEW X
  PROVE  Among(s, X) \in Seq(P) /\ Lists(Among(s, X), Y \cap X)
<1> DEFINE N == Len(s)
<1>1. N \in Nat
  OBVIOUS
<1>2. PICK t \in [0..N -> Seq(P)] : AmongSteps(t, s, X)
  BY AmongUnrolled
<1>3. /\ Y = UpToPlace(s, N) /\ UpToPlace(s, 0) = {}
      /\ \A n \in 1..N : s[n] \in P /\ s[n] \notin UpToPlace(s, n - 1)
  BY ListsUpTo
<1> DEFINE T == {n \in 0..N : Lists(t[n], UpToPlace(s, n) \cap X)}
<1>4. 0 \in T
  <2>1. t[0] = << >> /\ Len(t[0]) = 0
    BY <1>2 DEF AmongSteps
  <2>2. QED BY <1>1, <1>3, <2>1 DEF Lists
<1>5. ASSUME NEW k \in 0..(N - 1), k \in T PROVE k + 1 \in T
  <2>1. k \in 0..N /\ k + 1 \in 0..N /\ k + 1 \in 1..N /\ (k + 1) - 1 = k /\ k + 1 \in Nat \ {0}
    BY <1>1
  <2>2. UpToPlace(s, k + 1) = UpToPlace(s, k) \cup {s[k + 1]}
    BY <2>1, UpToPlaceNext
  <2>3. /\ t[k] \in Seq(P) /\ Lists(t[k], UpToPlace(s, k) \cap X)
        /\ s[k + 1] \in P /\ s[k + 1] \notin UpToPlace(s, k)
    BY <1>3, <1>5, <2>1
  <2>4. t[k + 1] = IF s[k + 1] \in X THEN Append(t[k], s[k + 1]) ELSE t[k]
    BY <1>2, <2>1 DEF AmongSteps, AmongStep
  <2>5. CASE s[k + 1] \in X
    <3>1. Lists(Append(t[k], s[k + 1]), (UpToPlace(s, k) \cap X) \cup {s[k + 1]})
      BY <2>3, ListsAppend
    <3>2. (UpToPlace(s, k) \cap X) \cup {s[k + 1]} = UpToPlace(s, k + 1) \cap X
      BY <2>2, <2>5
    <3>3. QED BY <2>1, <2>4, <2>5, <3>1, <3>2
  <2>6. CASE s[k + 1] \notin X
    <3>1. UpToPlace(s, k) \cap X = UpToPlace(s, k + 1) \cap X
      BY <2>2, <2>6
    <3>2. QED BY <2>1, <2>3, <2>4, <2>6, <3>1
  <2>7. QED BY <2>5, <2>6
<1>6. N \in T
  <2> HIDE DEF T, N
  <2>1. \A k \in 0..N : k \in T
    BY <1>1, <1>4, <1>5, UpTo
  <2>2. QED BY <1>1, <2>1
<1>7. QED BY <1>1, <1>2, <1>3, <1>6 DEF AmongSteps

\* key says which sequence of ss an element of X is in.
Keyed(key, ss, X) ==
  /\ \A x \in X : key[x] \in 1..Len(ss)
  /\ \A w \in 1..Len(ss) : Lists(ss[w], {x \in X : key[x] = w})

\* Sequences that list what has one key each deal everything that has a key.
LEMMA PartsDeal ==
  ASSUME NEW ss, NEW X, NEW key, Keyed(key, ss, X)
  PROVE  Deals(ss, X)
<1>1. ASSUME NEW i \in 1..Len(ss), NEW j \in 1..Len(ss[i])
      PROVE  ss[i][j] \in X /\ key[ss[i][j]] = i
  BY DEF Keyed, Lists
<1>2. ASSUME NEW x \in X
      PROVE  \E i \in 1..Len(ss) : \E j \in 1..Len(ss[i]) : ss[i][j] = x
  <2>1. key[x] \in 1..Len(ss) /\ x \in {y \in X : key[y] = key[x]}
    BY DEF Keyed
  <2>2. QED BY <2>1 DEF Keyed, Lists
<1>3. ASSUME NEW i \in 1..Len(ss), NEW k \in 1..Len(ss),
             NEW j \in 1..Len(ss[i]), NEW l \in 1..Len(ss[k]), ss[i][j] = ss[k][l]
      PROVE  i = k /\ j = l
  <2>1. i = k
    BY <1>1, <1>3
  <2>2. QED BY <1>3, <2>1 DEF Keyed, Lists
<1>4. QED BY <1>1, <1>2, <1>3 DEF Deals

\* Pairs in their order: every element of s stands to the later ones in R.
Ordered(s, R) == \A i, j \in 1..Len(s) : i < j => <<s[i], s[j]>> \in R

\* Sequences that are ordered, and stand in order, are ordered end to end.
LEMMA FlattenOrdered ==
  ASSUME NEW P, NEW ss \in Seq(Seq(P)), NEW R,
         \A i \in 1..Len(ss) : Ordered(ss[i], R),
         \A i, k \in 1..Len(ss) : \A j \in 1..Len(ss[i]), l \in 1..Len(ss[k]) :
            i < k => <<ss[i][j], ss[k][l]>> \in R
  PROVE  Ordered(FlattenSeq(ss), R)
<1> DEFINE f == FlattenSeq(ss)
<1>1. PICK at, in : Places(Len(ss), ss, f, at, in)
  BY FlattenPlaces
<1> HIDE DEF f
<1>2. ASSUME NEW m \in 1..Len(f), NEW n \in 1..Len(f), m < n
      PROVE  <<f[m], f[n]>> \in R
  <2> DEFINE i == at[m]
             k == at[n]
             j == in[m]
             l == in[n]
  <2>1. /\ i \in 1..Len(ss) /\ j \in 1..Len(ss[i]) /\ f[m] = ss[i][j]
        /\ k \in 1..Len(ss) /\ l \in 1..Len(ss[k]) /\ f[n] = ss[k][l]
    BY <1>1 DEF Places
  <2>2. i < k \/ (i = k /\ j < l)
    BY <1>1, <1>2 DEF Places
  <2> HIDE DEF i, j, k, l
  <2>3. CASE i < k
    BY <2>1, <2>3
  <2>4. CASE i = k /\ j < l
    BY <2>1, <2>4 DEF Ordered
  <2>5. QED BY <2>2, <2>3, <2>4
<1>3. QED BY <1>2 DEF Ordered, f

\* Where an element of the flat sequence is from.
LEMMA FlattenFrom ==
  ASSUME NEW P, NEW ss \in Seq(Seq(P)), NEW m \in 1..Len(FlattenSeq(ss))
  PROVE  \E i \in 1..Len(ss) : \E j \in 1..Len(ss[i]) : FlattenSeq(ss)[m] = ss[i][j]
<1> DEFINE f == FlattenSeq(ss)
<1>1. PICK at, in : Places(Len(ss), ss, f, at, in)
  BY FlattenPlaces
<1> HIDE DEF f
<1> DEFINE i == at[m]
           j == in[m]
<1>2. i \in 1..Len(ss) /\ j \in 1..Len(ss[i]) /\ f[m] = ss[i][j]
  BY <1>1 DEF Places, f
<1> HIDE DEF i, j
<1>3. QED BY <1>2 DEF f

\* A function on the first n numbers is a sequence.
LEMMA FunctionSeq ==
  ASSUME NEW n \in Nat, NEW S, NEW f \in [1..n -> S]
  PROVE  f \in Seq(S) /\ Len(f) = n
OBVIOUS

Sorted(P) == {x \in P \X P : x[1].wave <= x[2].wave}

\* ByWave keeps every element and sorts by wave.
LEMMA ByWaveProperties ==
  ASSUME NEW P, \A e \in P : e.wave \in 1..LastWave,
         NEW s \in Seq(P), NEW X, Lists(s, X)
  PROVE  ByWave(s) \in Seq(P) /\ Lists(ByWave(s), X) /\ Ordered(ByWave(s), Sorted(P))
<1> DEFINE part(w) == {e \in ToSet(s) : e.wave = w}
           ss == [w \in 1..LastWave |-> Among(s, part(w))]
           key == [x \in X |-> x.wave]
<1>1. LastWave \in Nat
  BY BatchAssumption
<1>2. ToSet(s) = X /\ X \subseteq P
  <2>1. DOMAIN s = 1..Len(s)
    OBVIOUS
  <2>2. QED BY <2>1 DEF ToSet, Lists
<1>3. \A w \in 1..LastWave : Among(s, part(w)) \in Seq(P) /\ Lists(Among(s, part(w)), X \cap part(w))
  <2> HIDE DEF part
  <2>1. QED BY AmongLists
<1>4. ss \in Seq(Seq(P)) /\ Len(ss) = LastWave
  <2>1. ss \in [1..LastWave -> Seq(P)]
    BY <1>3
  <2> HIDE DEF ss
  <2>2. QED BY <1>1, <2>1, FunctionSeq
<1>5. \A w \in 1..LastWave : ss[w] = Among(s, part(w)) /\ Lists(ss[w], X \cap part(w))
  BY <1>3
<1>6. Deals(ss, X)
  <2>1. \A x \in X : key[x] \in 1..Len(ss)
    BY <1>2, <1>4
  <2>2. \A w \in 1..Len(ss) : X \cap part(w) = {x \in X : key[x] = w}
    BY <1>2
  <2> HIDE DEF key, part, ss
  <2>3. \A w \in 1..Len(ss) : Lists(ss[w], {x \in X : key[x] = w})
    BY <1>4, <1>5, <2>2
  <2>4. QED BY <2>1, <2>3, PartsDeal DEF Keyed
<1>7. ASSUME NEW w \in 1..LastWave, NEW j \in 1..Len(ss[w])
      PROVE  ss[w][j] \in P /\ ss[w][j].wave = w
  <2>1. ss[w][j] \in X \cap part(w)
    <3> HIDE DEF part, ss
    <3>1. QED BY <1>5 DEF Lists
  <2>2. QED BY <1>2, <2>1
<1>8. \A i \in 1..Len(ss) : Ordered(ss[i], Sorted(P))
  <2> HIDE DEF ss
  <2>1. QED BY <1>4, <1>7 DEF Ordered, Sorted
<1>9. \A i, k \in 1..Len(ss) : \A j \in 1..Len(ss[i]), l \in 1..Len(ss[k]) :
         i < k => <<ss[i][j], ss[k][l]>> \in Sorted(P)
  <2> HIDE DEF ss
  <2>1. QED BY <1>4, <1>7 DEF Sorted
<1>10. ByWave(s) = FlattenSeq(ss)
  BY DEF ByWave
<1> HIDE DEF ss
<1>11. Ordered(FlattenSeq(ss), Sorted(P))
  BY <1>4, <1>8, <1>9, FlattenOrdered
<1>12. QED BY <1>4, <1>6, <1>10, <1>11, FlattenLists

\* The converse: what is dealt has a key, the place of the sequence it is in.
LEMMA DealsParts ==
  ASSUME NEW ss, NEW X, Deals(ss, X)
  PROVE  \E key : Keyed(key, ss, X)
<1> DEFINE In(x, i) == i \in 1..Len(ss) /\ \E j \in 1..Len(ss[i]) : ss[i][j] = x
           key == [x \in X |-> CHOOSE i : In(x, i)]
<1>1. ASSUME NEW x \in X PROVE In(x, key[x])
  <2>1. \E i : In(x, i)
    BY DEF Deals
  <2>2. key[x] = CHOOSE i : In(x, i)
    OBVIOUS
  <2> HIDE DEF In, key
  <2>3. QED BY <2>1, <2>2
<1>2. ASSUME NEW x \in X, NEW i, In(x, i) PROVE i = key[x]
  <2>1. In(x, key[x])
    BY <1>1
  <2> HIDE DEF key
  <2>2. PICK j \in 1..Len(ss[i]) : ss[i][j] = x
    BY <1>2
  <2>3. PICK l \in 1..Len(ss[key[x]]) : ss[key[x]][l] = x
    BY <2>1
  <2> DEFINE k == key[x]
  <2>4. i \in 1..Len(ss) /\ k \in 1..Len(ss) /\ l \in 1..Len(ss[k]) /\ ss[i][j] = ss[k][l]
    BY <1>2, <2>1, <2>2, <2>3
  <2> HIDE DEF k
  <2>5. i = k
    BY <2>4, DealsOnce
  <2>6. QED BY <2>5 DEF k
<1>3. ASSUME NEW w \in 1..Len(ss) PROVE Lists(ss[w], {x \in X : key[x] = w})
  <2>1. ASSUME NEW j \in 1..Len(ss[w]) PROVE ss[w][j] \in X /\ key[ss[w][j]] = w
    <3>1. ss[w][j] \in X /\ In(ss[w][j], w)
      BY DEF Deals
    <3> HIDE DEF key, In
    <3>2. QED BY <1>2, <3>1
  <2>2. ASSUME NEW x \in X, key[x] = w PROVE \E j \in 1..Len(ss[w]) : ss[w][j] = x
    <3>1. In(x, key[x])
      BY <1>1
    <3> HIDE DEF key
    <3>2. QED BY <2>2, <3>1
  <2>3. \A j, l \in 1..Len(ss[w]) : ss[w][j] = ss[w][l] => j = l
    BY DealsOnce
  <2> HIDE DEF key
  <2>4. QED BY <2>1, <2>2, <2>3 DEF Lists
<1>4. \A x \in X : key[x] \in 1..Len(ss)
  BY <1>1
<1> HIDE DEF key
<1>5. QED BY <1>3, <1>4 DEF Keyed

\* A sequence more.
LEMMA DealsNew ==
  ASSUME NEW P, NEW ss \in Seq(Seq(P)), NEW X, Deals(ss, X),
         NEW c \in Seq(P), NEW Y, Lists(c, Y), X \cap Y = {}
  PROVE  Append(ss, c) \in Seq(Seq(P)) /\ Deals(Append(ss, c), X \cup Y)
<1> DEFINE tt == Append(ss, c)
           N == Len(ss)
<1>1. /\ tt \in Seq(Seq(P)) /\ N \in Nat /\ Len(tt) = N + 1
      /\ \A i \in 1..N : tt[i] = ss[i]
      /\ tt[N + 1] = c
  BY AppendProperties
<1> HIDE DEF tt
<1>2. /\ \A i \in 1..Len(tt) : i \in 1..N \/ i = N + 1
      /\ N + 1 \in 1..Len(tt) /\ \A i \in 1..N : i \in 1..Len(tt)
  BY <1>1
<1>3. ASSUME NEW i \in 1..Len(tt), NEW j \in 1..Len(tt[i])
      PROVE  tt[i][j] \in IF i = N + 1 THEN Y ELSE X
  <2>1. CASE i = N + 1
    BY <1>1, <2>1 DEF Lists
  <2>2. CASE i \in 1..N
    <3>1. i # N + 1
      BY <1>1, <2>2
    <3>2. QED BY <1>1, <2>2, <3>1 DEF Deals
  <2>3. QED BY <1>2, <2>1, <2>2
<1>4. ASSUME NEW x \in X \cup Y
      PROVE  \E i \in 1..Len(tt) : \E j \in 1..Len(tt[i]) : tt[i][j] = x
  <2>1. CASE x \in X
    <3>1. PICK i \in 1..N : \E j \in 1..Len(ss[i]) : ss[i][j] = x
      BY <2>1 DEF Deals
    <3>2. QED BY <1>1, <1>2, <3>1
  <2>2. CASE x \in Y
    BY <1>1, <1>2, <2>2 DEF Lists
  <2>3. QED BY <2>1, <2>2
<1>5. ASSUME NEW i \in 1..Len(tt), NEW k \in 1..Len(tt),
             NEW j \in 1..Len(tt[i]), NEW l \in 1..Len(tt[k]), tt[i][j] = tt[k][l]
      PROVE  i = k /\ j = l
  <2>1. i = N + 1 <=> k = N + 1
    BY <1>3, <1>5
  <2>2. CASE i = N + 1
    BY <1>1, <1>5, <2>1, <2>2 DEF Lists
  <2>3. CASE i # N + 1
    <3>1. i \in 1..N /\ k \in 1..N
      BY <1>2, <2>1, <2>3
    <3>2. /\ i \in 1..Len(ss) /\ k \in 1..Len(ss) /\ j \in 1..Len(ss[i]) /\ l \in 1..Len(ss[k])
          /\ ss[i][j] = ss[k][l]
      BY <1>1, <1>5, <3>1
    <3>3. \A a, b \in 1..Len(ss) : \A m \in 1..Len(ss[a]), n \in 1..Len(ss[b]) :
             ss[a][m] = ss[b][n] => a = b /\ m = n
      BY DEF Deals
    <3>4. QED BY <3>2, <3>3
  <2>4. QED BY <2>2, <2>3
<1>6. \A i \in 1..Len(tt) : \A j \in 1..Len(tt[i]) : tt[i][j] \in X \cup Y
  BY <1>3
<1>7. Deals(tt, X \cup Y)
  BY <1>4, <1>5, <1>6 DEF Deals
<1>8. QED BY <1>1, <1>7 DEF tt

\* Two lists of different elements, joined.
LEMMA ListsConcat ==
  ASSUME NEW P, NEW s \in Seq(P), NEW X, Lists(s, X),
         NEW c \in Seq(P), NEW Y, Lists(c, Y), X \cap Y = {}
  PROVE  s \o c \in Seq(P) /\ Lists(s \o c, X \cup Y)
<1> DEFINE g == s \o c
           L == Len(s)
           M == Len(c)
<1>1. /\ g \in Seq(P) /\ L \in Nat /\ M \in Nat /\ Len(g) = L + M
      /\ \A i \in 1..(L + M) : g[i] = IF i <= L THEN s[i] ELSE c[i - L]
  BY ConcatProperties
<1> HIDE DEF g
<1>2. /\ \A i \in 1..L : i \in 1..Len(g) /\ g[i] = s[i]
      /\ \A i \in 1..M : i + L \in 1..Len(g) /\ g[i + L] = c[i]
      /\ \A i \in 1..Len(g) : i \in 1..L \/ (i - L \in 1..M /\ i = (i - L) + L)
  <2>1. \A i \in 1..L : i \in 1..(L + M) /\ i <= L
    BY <1>1
  <2>2. \A i \in 1..M : i + L \in 1..(L + M) /\ ~(i + L <= L) /\ (i + L) - L = i
    BY <1>1
  <2>3. \A i \in 1..(L + M) : i \in 1..L \/ (i - L \in 1..M /\ i = (i - L) + L)
    BY <1>1
  <2> HIDE DEF L, M
  <2>4. QED BY <1>1, <2>1, <2>2, <2>3
<1>3. /\ \A i \in 1..L : s[i] \in X
      /\ \A x \in X : \E i \in 1..L : s[i] = x
      /\ \A i, k \in 1..L : s[i] = s[k] => i = k
  BY DEF Lists
<1>4. /\ \A i \in 1..M : c[i] \in Y
      /\ \A x \in Y : \E i \in 1..M : c[i] = x
      /\ \A i, k \in 1..M : c[i] = c[k] => i = k
  BY DEF Lists
<1> HIDE DEF L, M
<1>5. ASSUME NEW i \in 1..Len(g)
      PROVE  IF i \in 1..L THEN g[i] = s[i] /\ g[i] \in X
             ELSE /\ i - L \in 1..M /\ i = (i - L) + L
                  /\ g[i] = c[i - L] /\ g[i] \in Y
  <2>1. CASE i \in 1..L
    BY <1>2, <1>3, <2>1
  <2>2. CASE i \notin 1..L
    <3>1. i - L \in 1..M /\ i = (i - L) + L
      BY <1>2, <2>2
    <3>2. g[i] = c[i - L]
      BY <1>2, <3>1
    <3>3. QED BY <1>4, <2>2, <3>1, <3>2
  <2>3. QED BY <2>1, <2>2
<1>6. ASSUME NEW i \in 1..Len(g) PROVE g[i] \in X \cup Y
  BY <1>5
<1>7. ASSUME NEW x \in X \cup Y PROVE \E i \in 1..Len(g) : g[i] = x
  <2>1. CASE x \in X
    BY <1>2, <1>3, <2>1
  <2>2. CASE x \in Y
    BY <1>2, <1>4, <2>2
  <2>3. QED BY <2>1, <2>2
<1>8. ASSUME NEW i \in 1..Len(g), NEW k \in 1..Len(g), g[i] = g[k] PROVE i = k
  <2>1. CASE i \in 1..L /\ k \in 1..L
    BY <1>3, <1>5, <1>8, <2>1
  <2>2. CASE i \notin 1..L /\ k \notin 1..L
    <3>1. i - L = k - L
      BY <1>4, <1>5, <1>8, <2>2
    <3>2. QED BY <1>5, <2>2, <3>1
  <2>3. CASE i \in 1..L /\ k \notin 1..L
    BY <1>5, <1>8, <2>3
  <2>4. CASE i \notin 1..L /\ k \in 1..L
    BY <1>5, <1>8, <2>4
  <2>5. QED BY <2>1, <2>2, <2>3, <2>4
<1>9. QED BY <1>1, <1>6, <1>7, <1>8 DEF Lists, g

\* A sequence of ss grows.
LEMMA DealsJoin ==
  ASSUME NEW P, NEW ss \in Seq(Seq(P)), NEW X, Deals(ss, X), NEW n \in 1..Len(ss),
         NEW c \in Seq(P), NEW Y, Lists(c, Y), X \cap Y = {}
  PROVE  /\ [ss EXCEPT ![n] = @ \o c] \in Seq(Seq(P))
         /\ Deals([ss EXCEPT ![n] = @ \o c], X \cup Y)
<1> DEFINE tt == [ss EXCEPT ![n] = @ \o c]
<1>1. PICK key : Keyed(key, ss, X)
  BY DealsParts
<1>2. ss[n] \in Seq(P) /\ ss[n] \o c \in Seq(P)
  <2>1. ss[n] \in Seq(P)
    OBVIOUS
  <2>2. QED BY <2>1, ConcatProperties
<1>3. /\ tt \in Seq(Seq(P)) /\ Len(tt) = Len(ss)
      /\ \A i \in 1..Len(ss) : tt[i] = IF i = n THEN ss[n] \o c ELSE ss[i]
  <2> DEFINE e == ss[n] \o c
  <2>1. e \in Seq(P)
    BY <1>2
  <2> HIDE DEF e
  <2>2. /\ [ss EXCEPT ![n] = e] \in Seq(Seq(P)) /\ Len([ss EXCEPT ![n] = e]) = Len(ss)
        /\ \A i \in 1..Len(ss) : [ss EXCEPT ![n] = e][i] = IF i = n THEN e ELSE ss[i]
    BY <2>1, ExceptSeq
  <2>3. QED BY <2>2 DEF e
<1> HIDE DEF tt
<1> DEFINE at == [x \in X \cup Y |-> IF x \in X THEN key[x] ELSE n]
<1>4. \A x \in X \cup Y : at[x] \in 1..Len(tt)
  BY <1>1, <1>3 DEF Keyed
<1>5. ASSUME NEW w \in 1..Len(tt) PROVE Lists(tt[w], {x \in X \cup Y : at[x] = w})
  <2>1. w \in 1..Len(ss) /\ Lists(ss[w], {x \in X : key[x] = w})
    BY <1>1, <1>3 DEF Keyed
  <2>2. CASE w # n
    <3>1. {x \in X \cup Y : at[x] = w} = {x \in X : key[x] = w}
      BY <2>2
    <3> HIDE DEF at
    <3>2. QED BY <1>3, <2>1, <2>2, <3>1
  <2>3. CASE w = n
    <3> DEFINE Z == {x \in X : key[x] = n}
    <3>1. {x \in X \cup Y : at[x] = n} = Z \cup Y /\ Z \cap Y = {}
      OBVIOUS
    <3>2. Lists(ss[n], Z)
      BY <2>1, <2>3
    <3> HIDE DEF at, Z
    <3>3. Lists(ss[n] \o c, Z \cup Y)
      BY <1>2, <3>1, <3>2, ListsConcat
    <3>4. QED BY <1>3, <2>1, <2>3, <3>1, <3>3
  <2>4. QED BY <2>2, <2>3
<1>6. Deals(tt, X \cup Y)
  <2> HIDE DEF at
  <2>1. QED BY <1>4, <1>5, PartsDeal DEF Keyed
<1>7. QED BY <1>3, <1>6 DEF tt

\* What the elements of z hold.
Held(c, z) == [i \in 1..Len(z) |-> c[z[i]]]

\* key says in which sequence of zz an element of X is held.
HeldBy(key, c, zz, X) ==
  /\ \A x \in X : key[x] \in 1..Len(zz)
  /\ \A w \in 1..Len(zz) : Deals(Held(c, zz[w]), {x \in X : key[x] = w})

\* Laid end to end, sequences whose elements deal X among them still do.
LEMMA FlattenDeals ==
  ASSUME NEW P, NEW zz \in Seq(Seq(P)), NEW c, NEW X, NEW key, HeldBy(key, c, zz, X)
  PROVE  FlattenSeq(zz) \in Seq(P) /\ Deals(Held(c, FlattenSeq(zz)), X)
<1> DEFINE f == FlattenSeq(zz)
           h == Held(c, f)
<1>1. f \in Seq(P) /\ Len(f) \in Nat
  BY FlattenPlaces
<1>2. PICK at, in : Places(Len(zz), zz, f, at, in)
  BY FlattenPlaces
<1> HIDE DEF f
<1>3. Len(h) = Len(f) /\ \A m \in 1..Len(f) : h[m] = c[f[m]]
  BY <1>1 DEF Held
<1>4. ASSUME NEW w \in 1..Len(zz)
      PROVE  /\ Len(Held(c, zz[w])) = Len(zz[w])
             /\ \A i \in 1..Len(zz[w]) : Held(c, zz[w])[i] = c[zz[w][i]]
  <2>1. zz[w] \in Seq(P) /\ Len(zz[w]) \in Nat
    OBVIOUS
  <2>2. QED BY <2>1 DEF Held
<1> HIDE DEF h
<1>5. ASSUME NEW m \in 1..Len(f), NEW w, NEW i, w = at[m], i = in[m]
      PROVE  w \in 1..Len(zz) /\ i \in 1..Len(Held(c, zz[w])) /\ h[m] = Held(c, zz[w])[i]
  <2>1. at[m] \in 1..Len(zz) /\ in[m] \in 1..Len(zz[at[m]]) /\ f[m] = zz[at[m]][in[m]]
    BY <1>2 DEF Places
  <2>2. w \in 1..Len(zz) /\ i \in 1..Len(zz[w]) /\ f[m] = zz[w][i]
    BY <1>5, <2>1
  <2>3. QED BY <1>3, <1>4, <2>2
<1>6. ASSUME NEW m \in 1..Len(f), NEW j \in 1..Len(h[m])
      PROVE  h[m][j] \in X /\ key[h[m][j]] = at[m]
  <2> DEFINE w == at[m]
             i == in[m]
  <2>1. w \in 1..Len(zz) /\ i \in 1..Len(Held(c, zz[w])) /\ h[m] = Held(c, zz[w])[i]
    BY <1>5
  <2> HIDE DEF w, i
  <2>2. h[m][j] \in {x \in X : key[x] = w}
    BY <2>1 DEF HeldBy, Deals
  <2>3. QED BY <2>2 DEF w
<1>7. ASSUME NEW x \in X
      PROVE  \E m \in 1..Len(f) : \E j \in 1..Len(h[m]) : h[m][j] = x
  <2> DEFINE w == key[x]
  <2>1. w \in 1..Len(zz) /\ x \in {y \in X : key[y] = w}
    BY DEF HeldBy
  <2> HIDE DEF w
  <2>2. PICK i \in 1..Len(Held(c, zz[w])) :
               \E j \in 1..Len(Held(c, zz[w])[i]) : Held(c, zz[w])[i][j] = x
    BY <2>1 DEF HeldBy, Deals
  <2>3. i \in 1..Len(zz[w])
    BY <1>4, <2>1
  <2>4. PICK m \in 1..Len(f) : at[m] = w /\ in[m] = i
    BY <1>2, <2>1, <2>3 DEF Places
  <2>5. h[m] = Held(c, zz[w])[i]
    <3>1. w = at[m] /\ i = in[m]
      BY <2>4
    <3>2. QED BY <1>5, <3>1
  <2>6. QED BY <2>2, <2>5
<1>8. ASSUME NEW m \in 1..Len(f), NEW n \in 1..Len(f),
             NEW j \in 1..Len(h[m]), NEW l \in 1..Len(h[n]), h[m][j] = h[n][l]
      PROVE  m = n /\ j = l
  <2> DEFINE w == at[m]
             i == in[m]
             k == in[n]
  <2>1. at[n] = w
    BY <1>6, <1>8
  <2>2. w \in 1..Len(zz) /\ i \in 1..Len(Held(c, zz[w])) /\ h[m] = Held(c, zz[w])[i]
    BY <1>5
  <2>3. k \in 1..Len(Held(c, zz[w])) /\ h[n] = Held(c, zz[w])[k]
    BY <1>5, <2>1
  <2> HIDE DEF w, i, k
  <2>5. i = k /\ j = l
    <3>1. Deals(Held(c, zz[w]), {x \in X : key[x] = w})
      BY <2>2 DEF HeldBy
    <3> DEFINE ss == Held(c, zz[w])
               Y == {x \in X : key[x] = w}
    <3>2. /\ Deals(ss, Y) /\ i \in 1..Len(ss) /\ k \in 1..Len(ss)
          /\ j \in 1..Len(ss[i]) /\ l \in 1..Len(ss[k]) /\ ss[i][j] = ss[k][l]
      BY <1>8, <2>2, <2>3, <3>1
    <3> HIDE DEF ss, Y
    <3>3. Deals(ss, Y) /\ i \in 1..Len(ss) /\ k \in 1..Len(ss)
      BY <3>2
    <3>4. j \in 1..Len(ss[i]) /\ l \in 1..Len(ss[k]) /\ ss[i][j] = ss[k][l]
      BY <3>2
    <3>5. QED BY <3>3, <3>4, DealsOnce
  <2>6. m = n
    <3>1. at[m] = at[n] /\ in[m] = in[n]
      BY <2>1, <2>5 DEF w, i, k
    <3> DEFINE N == Len(zz)
    <3>2. N \in Nat /\ N <= Len(zz) /\ Places(N, zz, f, at, in)
      BY <1>2
    <3> HIDE DEF N
    <3>3. QED BY <1>1, <3>1, <3>2, PlacesOnce
  <2>7. QED BY <2>5, <2>6
<1>9. Deals(h, X)
  BY <1>3, <1>6, <1>7, <1>8 DEF Deals
<1>10. QED BY <1>1, <1>9 DEF f, h

\* A sequence of one element.
LEMMA ListsOne ==
  ASSUME NEW P, NEW e \in P
  PROVE  <<e>> \in Seq(P) /\ Len(<<e>>) = 1 /\ Lists(<<e>>, {e})
<1>1. <<e>> \in Seq(P) /\ Len(<<e>>) = 1 /\ <<e>>[1] = e
  OBVIOUS
<1>2. QED BY <1>1 DEF Lists

\* A list is as long as the set that it lists is large.
LEMMA ListsLen ==
  ASSUME NEW P, NEW s \in Seq(P), NEW X, Lists(s, X)
  PROVE  IsFiniteSet(X) /\ Cardinality(X) = Len(s)
<1> DEFINE N == Len(s)
<1>1. N \in Nat /\ s \in [1..N -> X] /\ (\A i, j \in 1..N : s[i] = s[j] => i = j)
      /\ \A x \in X : \E i \in 1..N : s[i] = x
  BY DEF Lists
<1>2. IsFiniteSet(1..N) /\ Cardinality(1..N) = N
  BY <1>1, FS_Interval
<1> HIDE DEF N
<1>3. s \in Bijection(1..N, X)
  BY <1>1, Fun_IsBij
<1>4. ExistsBijection(1..N, X)
  BY <1>3 DEF ExistsBijection
<1>5. QED BY <1>2, <1>4, FS_Bijection DEF N

\* c ends up in a sequence of its own, or at the end of one that is there.
Joins(new, out, c) ==
  \/ new = Append(out, c)
  \/ \E i \in 1..Len(out) : new = [out EXCEPT ![i] = @ \o c]

Full(ss) == \A i \in 1..Len(ss) : ss[i] # << >>

\* Joining new elements to what is dealt deals both.
LEMMA JoinDeals ==
  ASSUME NEW P, NEW out \in Seq(Seq(P)), NEW X, Deals(out, X), Full(out),
         NEW c \in Seq(P), NEW Y, Lists(c, Y), X \cap Y = {}, c # << >>,
         NEW new, Joins(new, out, c)
  PROVE  new \in Seq(Seq(P)) /\ Deals(new, X \cup Y) /\ Full(new)
<1>1. CASE new = Append(out, c)
  <2>1. new \in Seq(Seq(P)) /\ Deals(new, X \cup Y)
    BY <1>1, DealsNew
  <2>2. /\ Len(new) = Len(out) + 1 /\ Len(out) \in Nat
        /\ \A i \in 1..Len(out) : new[i] = out[i]
        /\ new[Len(out) + 1] = c
    BY <1>1, AppendProperties
  <2>3. \A i \in 1..Len(new) : i \in 1..Len(out) \/ i = Len(out) + 1
    BY <2>2
  <2>4. Full(new)
    BY <2>2, <2>3 DEF Full
  <2>5. QED BY <2>1, <2>4
<1>2. CASE \E i \in 1..Len(out) : new = [out EXCEPT ![i] = @ \o c]
  <2>1. PICK n \in 1..Len(out) : new = [out EXCEPT ![n] = @ \o c]
    BY <1>2
  <2>2. new \in Seq(Seq(P)) /\ Deals(new, X \cup Y)
    BY <2>1, DealsJoin
  <2> DEFINE e == out[n] \o c
  <2>3. out[n] \in Seq(P) /\ out[n] # << >>
    BY DEF Full
  <2>4. e \in Seq(P) /\ e # << >>
    BY <2>3, ConcatProperties, ConcatEqualIffEmpty
  <2>5. new = [out EXCEPT ![n] = e]
    BY <2>1
  <2> HIDE DEF e
  <2>6. /\ Len(new) = Len(out)
        /\ \A i \in 1..Len(out) : new[i] = IF i = n THEN e ELSE out[i]
    BY <2>4, <2>5, ExceptSeq
  <2>7. Full(new)
    BY <2>4, <2>6 DEF Full
  <2>8. QED BY <2>2, <2>7
<1>3. QED BY <1>1, <1>2 DEF Joins

\* The elements of the first n sequences of ss.
Until(ss, n) == UNION {{ss[i][j] : j \in 1..Len(ss[i])} : i \in 1..n}

\* What the next sequence holds is new.
LEMMA DealsUntil ==
  ASSUME NEW P, NEW ss \in Seq(Seq(P)), NEW X, Deals(ss, X)
  PROVE  /\ X = Until(ss, Len(ss)) /\ Until(ss, 0) = {}
         /\ \A n \in 1..Len(ss) : \E Y : /\ Lists(ss[n], Y) /\ Until(ss, n - 1) \cap Y = {}
                                         /\ Until(ss, n) = Until(ss, n - 1) \cup Y
<1>1. X = Until(ss, Len(ss))
  <2>1. ASSUME NEW x \in X PROVE x \in Until(ss, Len(ss))
    <3>1. PICK i \in 1..Len(ss) : \E j \in 1..Len(ss[i]) : ss[i][j] = x
      BY DEF Deals
    <3>2. x \in {ss[i][j] : j \in 1..Len(ss[i])}
      BY <3>1
    <3>3. QED BY <3>2 DEF Until
  <2>2. ASSUME NEW x \in Until(ss, Len(ss)) PROVE x \in X
    <3>1. PICK i \in 1..Len(ss) : x \in {ss[i][j] : j \in 1..Len(ss[i])}
      BY DEF Until
    <3>2. QED BY <3>1 DEF Deals
  <2>3. QED BY <2>1, <2>2
<1>2. Until(ss, 0) = {}
  BY DEF Until
<1>3. ASSUME NEW n \in 1..Len(ss)
      PROVE  \E Y : /\ Lists(ss[n], Y) /\ Until(ss, n - 1) \cap Y = {}
                    /\ Until(ss, n) = Until(ss, n - 1) \cup Y
  <2> DEFINE Y == {ss[n][j] : j \in 1..Len(ss[n])}
  <2>1. Lists(ss[n], Y)
    <3>1. \A j, l \in 1..Len(ss[n]) : ss[n][j] = ss[n][l] => j = l
      BY DealsOnce
    <3>2. QED BY <3>1 DEF Lists
  <2>2. Until(ss, n - 1) \cap Y = {}
    <3>1. ASSUME NEW i \in 1..(n - 1), NEW j \in 1..Len(ss[i]), NEW l \in 1..Len(ss[n]),
                 ss[i][j] = ss[n][l]
          PROVE  FALSE
      <4>1. i \in 1..Len(ss) /\ i # n
        OBVIOUS
      <4>2. QED BY <3>1, <4>1, DealsOnce
    <3>2. QED BY <3>1 DEF Until
  <2>3. Until(ss, n) = Until(ss, n - 1) \cup Y
    <3>1. 1..n = (1..(n - 1)) \cup {n}
      OBVIOUS
    <3>2. QED BY <3>1 DEF Until
  <2> HIDE DEF Y
  <2>4. QED BY <2>1, <2>2, <2>3
<1>4. QED BY <1>1, <1>2, <1>3

JoinsUp(t, ss) ==
  t[0] = << >> /\ \A n \in 1..Len(ss) : Joins(t[n], t[n - 1], ss[n])

\* Sequences that deal X, joined one after the other, still do.
LEMMA JoinsDeal ==
  ASSUME NEW P, NEW ss \in Seq(Seq(P)), NEW X, Deals(ss, X), Full(ss),
         NEW t, JoinsUp(t, ss)
  PROVE  t[Len(ss)] \in Seq(Seq(P)) /\ Deals(t[Len(ss)], X) /\ Full(t[Len(ss)])
<1> DEFINE N == Len(ss)
           T == {n \in 0..N : /\ t[n] \in Seq(Seq(P)) /\ Deals(t[n], Until(ss, n))
                              /\ Full(t[n])}
<1>1. N \in Nat /\ X = Until(ss, N) /\ Until(ss, 0) = {}
  BY DealsUntil
<1>2. 0 \in T
  <2>1. t[0] = << >> /\ Len(t[0]) = 0 /\ t[0] \in Seq(Seq(P))
    BY DEF JoinsUp
  <2>2. Deals(t[0], {}) /\ Full(t[0])
    BY <2>1 DEF Deals, Full
  <2>3. 0 \in 0..N
    BY <1>1
  <2>4. Until(ss, 0) = {}
    BY <1>1
  <2>5. Deals(t[0], Until(ss, 0))
    BY <2>2, <2>4, Zenon
  <2> HIDE DEF N
  <2>6. QED BY <2>1, <2>2, <2>3, <2>5
<1>3. ASSUME NEW k \in 0..(N - 1), k \in T PROVE k + 1 \in T
  <2>1. k + 1 \in 0..N /\ k + 1 \in 1..N /\ (k + 1) - 1 = k
    BY <1>1
  <2>2. PICK Y : /\ Lists(ss[k + 1], Y) /\ Until(ss, k) \cap Y = {}
                 /\ Until(ss, k + 1) = Until(ss, k) \cup Y
    BY <2>1, DealsUntil
  <2>3. Joins(t[k + 1], t[k], ss[k + 1])
    BY <2>1 DEF JoinsUp
  <2> DEFINE out == t[k]
             new == t[k + 1]
             c == ss[k + 1]
             Z == Until(ss, k)
  <2>4. /\ out \in Seq(Seq(P)) /\ Deals(out, Z) /\ Full(out) /\ c \in Seq(P) /\ Lists(c, Y)
        /\ Z \cap Y = {} /\ c # << >> /\ Joins(new, out, c)
    BY <1>3, <2>1, <2>2, <2>3 DEF Full
  <2> HIDE DEF out, new, c, Z
  <2>5. new \in Seq(Seq(P)) /\ Deals(new, Z \cup Y) /\ Full(new)
    BY <2>4, JoinDeals
  <2>6. QED BY <2>1, <2>2, <2>5 DEF new, Z
<1>4. N \in T
  <2> HIDE DEF T, N
  <2>1. \A k \in 0..N : k \in T
    BY <1>1, <1>2, <1>3, UpTo
  <2>2. QED BY <1>1, <2>1
<1>5. QED BY <1>1, <1>4

\* Each element in a sequence of its own.
Ones(ps) == [n \in 1..Len(ps) |-> <<ps[n]>>]

\* One by one, a list deals what it lists.
LEMMA OnesDeal ==
  ASSUME NEW P, NEW ps \in Seq(P), NEW X, Lists(ps, X)
  PROVE  Ones(ps) \in Seq(Seq(P)) /\ Len(Ones(ps)) = Len(ps) /\ Deals(Ones(ps), X) /\ Full(Ones(ps))
<1>1. \A n \in 1..Len(ps) : <<ps[n]>> \in Seq(P) /\ Len(<<ps[n]>>) = 1 /\ <<ps[n]>>[1] = ps[n]
  OBVIOUS
<1>2. Ones(ps) \in Seq(Seq(P)) /\ Len(Ones(ps)) = Len(ps)
  <2>1. Ones(ps) \in [1..Len(ps) -> Seq(P)] /\ Len(ps) \in Nat
    BY <1>1 DEF Ones
  <2>2. QED BY <2>1, FunctionSeq
<1>3. \A n \in 1..Len(ps) : /\ Len(Ones(ps)[n]) = 1 /\ Ones(ps)[n][1] = ps[n]
                            /\ Ones(ps)[n] # << >>
  BY <1>1 DEF Ones
<1>4. QED BY <1>2, <1>3 DEF Deals, Full, Lists

\* No pack of a list is longer than the list.
LEMMA PackLen ==
  ASSUME NEW P, NEW ps \in Seq(P), NEW X, Lists(ps, X),
         NEW packs \in Seq(Seq(P)), Deals(packs, X), Full(packs), NEW i \in 1..Len(packs)
  PROVE  Len(packs[i]) \in 1..Len(ps)
<1> DEFINE c == packs[i]
           Z == {c[j] : j \in 1..Len(c)}
<1>1. c \in Seq(P) /\ c # << >> /\ Len(c) \in Nat \ {0} /\ Len(ps) \in Nat
  BY DEF Full
<1>2. Lists(c, Z) /\ Z \subseteq X
  <2>1. \A j, l \in 1..Len(c) : c[j] = c[l] => j = l
    BY DealsOnce
  <2>2. Z \subseteq X
    BY DEF Deals
  <2>3. QED BY <2>1, <2>2 DEF Lists
<1> HIDE DEF c, Z
<1>3. IsFiniteSet(X) /\ Cardinality(X) = Len(ps) /\ Cardinality(Z) = Len(c)
  BY <1>1, <1>2, ListsLen
<1>4. Cardinality(Z) <= Cardinality(X)
  BY <1>2, <1>3, FS_Subset
<1>5. QED BY <1>1, <1>3, <1>4 DEF c

\* A plan alone, or at the end of a pack.
LEMMA JoinsOne ==
  ASSUME NEW P, NEW ps \in Seq(P), NEW n \in 1..Len(ps), NEW out \in Seq(Seq(P)), NEW new,
         \/ new = Append(out, <<ps[n]>>)
         \/ \E i \in 1..Len(out) : new = [out EXCEPT ![i] = Append(@, ps[n])]
  PROVE  new \in Seq(Seq(P)) /\ Joins(new, out, Ones(ps)[n])
<1>1. Ones(ps)[n] = <<ps[n]>> /\ <<ps[n]>> \in Seq(P) /\ ps[n] \in P
  BY DEF Ones
<1>2. CASE new = Append(out, <<ps[n]>>)
  BY <1>1, <1>2, AppendProperties DEF Joins
<1>3. CASE \E i \in 1..Len(out) : new = [out EXCEPT ![i] = Append(@, ps[n])]
  <2>1. PICK i \in 1..Len(out) : new = [out EXCEPT ![i] = Append(@, ps[n])]
    BY <1>3
  <2>2. out[i] \in Seq(P)
    OBVIOUS
  <2>3. Append(out[i], ps[n]) = out[i] \o <<ps[n]>> /\ Append(out[i], ps[n]) \in Seq(P)
    BY <1>1, <2>2, AppendIsConcat, AppendProperties
  <2>4. new = [out EXCEPT ![i] = @ \o <<ps[n]>>]
    BY <2>1, <2>3
  <2>5. new \in Seq(Seq(P))
    BY <2>1, <2>3, ExceptSeq
  <2>6. QED BY <1>1, <2>4, <2>5 DEF Joins
<1>4. QED BY <1>2, <1>3

PackedByStep(n, out, ps, cost, cap) ==
  IF out # << >> /\ Total(Last(out), cost) + ps[n][cost] <= cap
    THEN [out EXCEPT ![Len(out)] = Append(@, ps[n])]
    ELSE Append(out, <<ps[n]>>)

\* A step of PackedBy puts one plan into a pack or opens another.
LEMMA PackedByTyped ==
  ASSUME NEW P, NEW ps \in Seq(P), NEW cost, NEW cap,
         NEW n \in 1..Len(ps), NEW out \in Seq(Seq(P))
  PROVE  /\ PackedByStep(n, out, ps, cost, cap) \in Seq(Seq(P))
         /\ Joins(PackedByStep(n, out, ps, cost, cap), out, Ones(ps)[n])
<1> DEFINE new == PackedByStep(n, out, ps, cost, cap)
<1>1. out # << >> => Len(out) \in 1..Len(out)
  OBVIOUS
<1>2. \/ new = Append(out, <<ps[n]>>)
      \/ \E i \in 1..Len(out) : new = [out EXCEPT ![i] = Append(@, ps[n])]
  BY <1>1 DEF PackedByStep
<1> HIDE DEF new
<1>3. new \in Seq(Seq(P)) /\ Joins(new, out, Ones(ps)[n])
  BY <1>2, JoinsOne
<1>4. QED BY <1>3 DEF new

\* PackedBy takes one plan after the other.
PackedBySteps(t, ps, cost, cap) ==
  /\ t[0] = << >> /\ PackedBy(ps, cost, cap) = t[Len(ps)]
  /\ \A n \in 1..Len(ps) : t[n] = PackedByStep(n, t[n - 1], ps, cost, cap)

\* PackedBy, plan by plan.
LEMMA PackedByUnrolled ==
  ASSUME NEW P, NEW ps \in Seq(P), NEW cost, NEW cap
  PROVE  \E t \in [0..Len(ps) -> Seq(Seq(P))] : PackedBySteps(t, ps, cost, cap)
<1> DEFINE S == Seq(Seq(P))
           N == Len(ps)
           step(n, out) == PackedByStep(n, out, ps, cost, cap)
           F == [x \in (1..N) \X S |-> step(x[1], x[2])]
           Body(f) == [u \in SUBSET (DOMAIN ps) |->
                         IF u = {} THEN << >> ELSE step(Max(u), f[u \ {Max(u)}])]
           h == CHOOSE f : f = Body(f)
<1>1. PackedBy(ps, cost, cap) = h[DOMAIN ps]
  BY DEF PackedBy, FoldLeft, MapThenFoldSet, PackedByStep
<1>2. N \in Nat /\ DOMAIN ps = 1..N /\ << >> \in S
  OBVIOUS
<1>3. F \in [(1..N) \X S -> S] /\ \A n \in 1..N, out \in S : F[<<n, out>>] = step(n, out)
  <2>1. \A n \in 1..N, out \in S : step(n, out) \in S
    BY PackedByTyped
  <2> HIDE DEF step, S
  <2>2. QED BY <2>1
<1>4. \A u \in (SUBSET (1..N)) \ {{}} : Max(u) \in 1..N
  BY <1>2, MaxAmong
<1>5. h = Body(h)
  <2>1. PICK g \in [SUBSET (1..N) -> S] : FoldsAll(g, N, << >>, F)
    <3> HIDE DEF F, N, S
    <3>1. QED BY <1>2, <1>3, FoldDefined
  <2>2. \A u \in (SUBSET (1..N)) \ {{}} : g[u] = step(Max(u), g[u \ {Max(u)}])
    <3> HIDE DEF F, step, S, N
    <3>1. QED BY <1>3, <1>4, <2>1 DEF FoldsAll
  <2>3. g = Body(g)
    <3> HIDE DEF F, step, S
    <3>1. QED BY <1>2, <2>1, <2>2 DEF FoldsAll
  <2> HIDE DEF Body
  <2>4. QED BY <2>3
<1>6. FoldsUp(h, N, S, << >>, F)
  <2>1. h[{}] = << >>
    BY <1>2, <1>5
  <2>2. ASSUME NEW u \in (SUBSET (1..N)) \ {{}}, h[u \ {Max(u)}] \in S
        PROVE  h[u] = F[<<Max(u), h[u \ {Max(u)}]>>]
    <3> HIDE DEF F, step, h, S
    <3>1. h[u] = step(Max(u), h[u \ {Max(u)}])
      BY <1>2, <1>5
    <3>2. QED BY <1>3, <1>4, <2>2, <3>1
  <2> HIDE DEF F, h
  <2>3. QED BY <2>1, <2>2 DEF FoldsUp
<1>7. PICK t \in [0..N -> S] : Unrolls(t, h, N, << >>, F)
  <2> HIDE DEF F, N, S, h
  <2>1. N \in Nat /\ << >> \in S
    BY <1>2
  <2>2. QED BY <1>3, <1>6, <2>1, FoldUnrolled
<1>8. \A n \in 1..N : t[n] = step(n, t[n - 1])
  <2>1. SUFFICES ASSUME NEW n \in 1..N PROVE t[n] = step(n, t[n - 1])
    OBVIOUS
  <2>2. t[n - 1] \in S
    <3>1. n - 1 \in 0..N
      BY <1>2
    <3> HIDE DEF S, F, h, N
    <3>2. QED BY <1>7, <3>1
  <2> HIDE DEF F, step, S, N
  <2>3. QED BY <1>3, <1>7, <2>2 DEF Unrolls
<1>9. QED BY <1>1, <1>2, <1>7, <1>8 DEF Unrolls, PackedBySteps

\* The packs hold each plan once, and none is empty.
LEMMA PackedByDeals ==
  ASSUME NEW P, NEW ps \in Seq(P), NEW X, Lists(ps, X), NEW cost, NEW cap
  PROVE  LET packs == PackedBy(ps, cost, cap) IN packs \in Seq(Seq(P)) /\ Deals(packs, X) /\ Full(packs)
<1> DEFINE N == Len(ps)
<1>1. PICK t \in [0..N -> Seq(Seq(P))] : PackedBySteps(t, ps, cost, cap)
  BY PackedByUnrolled
<1>2. Ones(ps) \in Seq(Seq(P)) /\ Len(Ones(ps)) = N /\ Deals(Ones(ps), X) /\ Full(Ones(ps))
  BY OnesDeal
<1>3. JoinsUp(t, Ones(ps))
  <2>1. ASSUME NEW n \in 1..N PROVE Joins(t[n], t[n - 1], Ones(ps)[n])
    <3>1. t[n - 1] \in Seq(Seq(P)) /\ t[n] = PackedByStep(n, t[n - 1], ps, cost, cap)
      BY <1>1 DEF PackedBySteps
    <3>2. QED BY <3>1, PackedByTyped
  <2>2. QED BY <1>1, <1>2, <2>1 DEF JoinsUp, PackedBySteps
<1>4. t[N] \in Seq(Seq(P)) /\ Deals(t[N], X) /\ Full(t[N])
  BY <1>2, <1>3, JoinsDeal
<1>5. QED BY <1>1, <1>4 DEF PackedBySteps

FirstFitStep(n, out, ps) ==
  LET fits == {i \in DOMAIN out :
                 /\ Total(out[i], "tokens") + ps[n].tokens <= Usable
                 /\ \A j \in DOMAIN out[i] : ~(ps[n].shared /\ out[i][j].shared)}
  IN IF fits = {} THEN Append(out, <<ps[n]>>)
                  ELSE [out EXCEPT ![Min(fits)] = Append(@, ps[n])]

\* A step of FirstFit puts one plan into a pack or opens another.
LEMMA FirstFitTyped ==
  ASSUME NEW P, NEW ps \in Seq(P), NEW n \in 1..Len(ps), NEW out \in Seq(Seq(P))
  PROVE  FirstFitStep(n, out, ps) \in Seq(Seq(P)) /\ Joins(FirstFitStep(n, out, ps), out, Ones(ps)[n])
<1> DEFINE new == FirstFitStep(n, out, ps)
           fits == {i \in DOMAIN out :
                      /\ Total(out[i], "tokens") + ps[n].tokens <= Usable
                      /\ \A j \in DOMAIN out[i] : ~(ps[n].shared /\ out[i][j].shared)}
<1>1. fits \in SUBSET (1..Len(out)) /\ fits \in SUBSET Nat
  OBVIOUS
<1>2. new = IF fits = {} THEN Append(out, <<ps[n]>>)
                         ELSE [out EXCEPT ![Min(fits)] = Append(@, ps[n])]
  BY DEF FirstFitStep
<1> HIDE DEF new, fits
<1>3. fits # {} => Min(fits) \in fits
  BY <1>1, LeastNat DEF Min
<1>4. \/ new = Append(out, <<ps[n]>>)
      \/ \E i \in 1..Len(out) : new = [out EXCEPT ![i] = Append(@, ps[n])]
  BY <1>1, <1>2, <1>3
<1>5. new \in Seq(Seq(P)) /\ Joins(new, out, Ones(ps)[n])
  BY <1>4, JoinsOne
<1>6. QED BY <1>5 DEF new

\* FirstFit takes one plan after the other.
FirstFitSteps(t, ps) ==
  /\ t[0] = << >> /\ FirstFit(ps) = t[Len(ps)]
  /\ \A n \in 1..Len(ps) : t[n] = FirstFitStep(n, t[n - 1], ps)

\* FirstFit, plan by plan.
LEMMA FirstFitUnrolled ==
  ASSUME NEW P, NEW ps \in Seq(P)
  PROVE  \E t \in [0..Len(ps) -> Seq(Seq(P))] : FirstFitSteps(t, ps)
<1> DEFINE S == Seq(Seq(P))
           N == Len(ps)
           step(n, out) == FirstFitStep(n, out, ps)
           F == [x \in (1..N) \X S |-> step(x[1], x[2])]
           Body(f) == [u \in SUBSET (DOMAIN ps) |->
                         IF u = {} THEN << >> ELSE step(Max(u), f[u \ {Max(u)}])]
           h == CHOOSE f : f = Body(f)
<1>1. FirstFit(ps) = h[DOMAIN ps]
  BY DEF FirstFit, FoldLeft, MapThenFoldSet, FirstFitStep
<1>2. N \in Nat /\ DOMAIN ps = 1..N /\ << >> \in S
  OBVIOUS
<1>3. F \in [(1..N) \X S -> S] /\ \A n \in 1..N, out \in S : F[<<n, out>>] = step(n, out)
  <2>1. \A n \in 1..N, out \in S : step(n, out) \in S
    BY FirstFitTyped
  <2> HIDE DEF step, S
  <2>2. QED BY <2>1
<1>4. \A u \in (SUBSET (1..N)) \ {{}} : Max(u) \in 1..N
  BY <1>2, MaxAmong
<1>5. h = Body(h)
  <2>1. PICK g \in [SUBSET (1..N) -> S] : FoldsAll(g, N, << >>, F)
    <3> HIDE DEF F, N, S
    <3>1. QED BY <1>2, <1>3, FoldDefined
  <2>2. \A u \in (SUBSET (1..N)) \ {{}} : g[u] = step(Max(u), g[u \ {Max(u)}])
    <3> HIDE DEF F, step, S, N
    <3>1. QED BY <1>3, <1>4, <2>1 DEF FoldsAll
  <2>3. g = Body(g)
    <3> HIDE DEF F, step, S
    <3>1. QED BY <1>2, <2>1, <2>2 DEF FoldsAll
  <2> HIDE DEF Body
  <2>4. QED BY <2>3
<1>6. FoldsUp(h, N, S, << >>, F)
  <2>1. h[{}] = << >>
    BY <1>2, <1>5
  <2>2. ASSUME NEW u \in (SUBSET (1..N)) \ {{}}, h[u \ {Max(u)}] \in S
        PROVE  h[u] = F[<<Max(u), h[u \ {Max(u)}]>>]
    <3> HIDE DEF F, step, h, S
    <3>1. h[u] = step(Max(u), h[u \ {Max(u)}])
      BY <1>2, <1>5
    <3>2. QED BY <1>3, <1>4, <2>2, <3>1
  <2> HIDE DEF F, h
  <2>3. QED BY <2>1, <2>2 DEF FoldsUp
<1>7. PICK t \in [0..N -> S] : Unrolls(t, h, N, << >>, F)
  <2> HIDE DEF F, N, S, h
  <2>1. N \in Nat /\ << >> \in S
    BY <1>2
  <2>2. QED BY <1>3, <1>6, <2>1, FoldUnrolled
<1>8. \A n \in 1..N : t[n] = step(n, t[n - 1])
  <2>1. SUFFICES ASSUME NEW n \in 1..N PROVE t[n] = step(n, t[n - 1])
    OBVIOUS
  <2>2. t[n - 1] \in S
    <3>1. n - 1 \in 0..N
      BY <1>2
    <3> HIDE DEF S, F, h, N
    <3>2. QED BY <1>7, <3>1
  <2> HIDE DEF F, step, S, N
  <2>3. QED BY <1>3, <1>7, <2>2 DEF Unrolls
<1>9. QED BY <1>1, <1>2, <1>7, <1>8 DEF Unrolls, FirstFitSteps

\* So do those of the first fit.
LEMMA FirstFitDeals ==
  ASSUME NEW P, NEW ps \in Seq(P), NEW X, Lists(ps, X)
  PROVE  LET packs == FirstFit(ps) IN packs \in Seq(Seq(P)) /\ Deals(packs, X) /\ Full(packs)
<1> DEFINE N == Len(ps)
<1>1. PICK t \in [0..N -> Seq(Seq(P))] : FirstFitSteps(t, ps)
  BY FirstFitUnrolled
<1>2. Ones(ps) \in Seq(Seq(P)) /\ Len(Ones(ps)) = N /\ Deals(Ones(ps), X) /\ Full(Ones(ps))
  BY OnesDeal
<1>3. JoinsUp(t, Ones(ps))
  <2>1. ASSUME NEW n \in 1..N PROVE Joins(t[n], t[n - 1], Ones(ps)[n])
    <3>1. t[n - 1] \in Seq(Seq(P)) /\ t[n] = FirstFitStep(n, t[n - 1], ps)
      BY <1>1 DEF FirstFitSteps
    <3>2. QED BY <3>1, FirstFitTyped
  <2>2. QED BY <1>1, <1>2, <2>1 DEF JoinsUp, FirstFitSteps
<1>4. t[N] \in Seq(Seq(P)) /\ Deals(t[N], X) /\ Full(t[N])
  BY <1>2, <1>3, JoinsDeal
<1>5. QED BY <1>1, <1>4 DEF FirstFitSteps

-----------------------------------------------------------------------------
(* Chunks of at most n *)

\* What a quotient is.
LEMMA Quotient ==
  ASSUME NEW a \in Nat, NEW n \in Nat \ {0}
  PROVE  a \div n \in Nat /\ (a \div n) * n <= a /\ a < (a \div n) * n + n
OBVIOUS

\* Multiples grow with what is multiplied.
LEMMA Multiples ==
  ASSUME NEW a \in Nat, NEW b \in Nat, NEW n \in Nat, a <= b
  PROVE  a * n \in Nat /\ a * n <= b * n /\ (a + 1) * n = a * n + n
OBVIOUS

\* The places of the k-th chunk.
LEMMA ChunkPlaces ==
  ASSUME NEW L \in Nat, NEW n \in Nat \ {0}
  PROVE  LET K == (L + n - 1) \div n IN
         /\ K \in Nat
         /\ \A k \in 1..K : /\ (k - 1) * n \in Nat /\ k * n = (k - 1) * n + n
                            /\ (k - 1) * n < L
         /\ \A i, k \in 1..K : i < k => i * n <= (k - 1) * n
         /\ \A m \in 1..L : \E k \in 1..K : (k - 1) * n < m /\ m <= k * n
<1> DEFINE K == (L + n - 1) \div n
<1>1. K \in Nat /\ K * n <= L + n - 1 /\ L + n - 1 < K * n + n
  BY Quotient
<1> HIDE DEF K
<1>2. ASSUME NEW k \in 1..K
      PROVE  (k - 1) * n \in Nat /\ k * n = (k - 1) * n + n /\ (k - 1) * n < L
  <2>1. k - 1 \in Nat /\ k \in Nat /\ k <= K /\ (k - 1) + 1 = k /\ k - 1 <= k
    BY <1>1
  <2>2. (k - 1) * n \in Nat /\ k * n = (k - 1) * n + n
    BY <2>1, Multiples
  <2>3. k * n <= K * n /\ k * n \in Nat /\ K * n \in Nat
    BY <1>1, <2>1, Multiples
  <2>4. QED BY <1>1, <2>2, <2>3
<1>3. ASSUME NEW i \in 1..K, NEW k \in 1..K, i < k PROVE i * n <= (k - 1) * n
  <2>1. i \in Nat /\ k - 1 \in Nat /\ i <= k - 1
    BY <1>1, <1>3
  <2>2. QED BY <2>1, Multiples
<1>4. ASSUME NEW m \in 1..L PROVE \E k \in 1..K : (k - 1) * n < m /\ m <= k * n
  <2> DEFINE q == (m - 1) \div n
  <2>1. q \in Nat /\ q * n <= m - 1 /\ m - 1 < q * n + n
    <3>1. m - 1 \in Nat
      OBVIOUS
    <3>2. QED BY <3>1, Quotient
  <2> HIDE DEF q
  <2>2. q < K
    <3>1. SUFFICES ASSUME K <= q PROVE FALSE
      BY <1>1, <2>1
    <3>2. K * n <= q * n /\ K * n \in Nat /\ q * n \in Nat
      BY <1>1, <2>1, <3>1, Multiples
    <3>3. QED BY <1>1, <2>1, <3>2
  <2>3. q + 1 \in 1..K /\ (q + 1) - 1 = q /\ (q + 1) * n = q * n + n /\ q * n \in Nat
    BY <1>1, <2>1, <2>2, Multiples
  <2>4. (q + 1 - 1) * n < m /\ m <= (q + 1) * n
    BY <2>1, <2>3
  <2>5. QED BY <2>3, <2>4
<1>5. QED BY <1>1, <1>2, <1>3, <1>4 DEF K

\* The chunks hold each plan once, are not empty and have at most n plans.
LEMMA ChunkedDeals ==
  ASSUME NEW P, NEW ps \in Seq(P), NEW X, Lists(ps, X), NEW n \in Nat \ {0}
  PROVE  LET cs == Chunked(ps, n) IN
         /\ cs \in Seq(Seq(P)) /\ Deals(cs, X) /\ Full(cs)
         /\ \A k \in 1..Len(cs) : Len(cs[k]) \in 1..n
<1> DEFINE L == Len(ps)
           K == (L + n - 1) \div n
           from == [k \in 1..K |-> (k - 1) * n]
           full == [k \in 1..K |-> k * n]
           to == [k \in 1..K |-> Min({full[k], L})]
           cs == [k \in 1..K |-> SubSeq(ps, from[k] + 1, to[k])]
<1>1. L \in Nat
  OBVIOUS
<1>2. /\ K \in Nat
      /\ \A k \in 1..K : from[k] \in Nat /\ full[k] = from[k] + n /\ from[k] < L
      /\ \A i, k \in 1..K : i < k => full[i] <= from[k]
      /\ \A m \in 1..L : \E k \in 1..K : from[k] < m /\ m <= full[k]
  <2> HIDE DEF L
  <2>1. /\ K \in Nat
        /\ \A k \in 1..K : (k - 1) * n \in Nat /\ k * n = (k - 1) * n + n /\ (k - 1) * n < L
        /\ \A i, k \in 1..K : i < k => i * n <= (k - 1) * n
        /\ \A m \in 1..L : \E k \in 1..K : (k - 1) * n < m /\ m <= k * n
    BY <1>1, ChunkPlaces
  <2>2. \A k \in 1..K : from[k] = (k - 1) * n /\ full[k] = k * n
    OBVIOUS
  <2> HIDE DEF K, from, full
  <2>3. QED BY <2>1, <2>2
<1>3. ASSUME NEW k \in 1..K
      PROVE  to[k] = IF full[k] <= L THEN full[k] ELSE L
  <2>1. full[k] \in Nat /\ to[k] = Min({full[k], L})
    <3>1. to[k] = Min({full[k], L})
      OBVIOUS
    <3> HIDE DEF K, from, full, to, L
    <3>2. full[k] \in Nat
      BY <1>2
    <3>3. QED BY <3>1, <3>2
  <2> DEFINE r == full[k]
  <2> HIDE DEF r, L, full, to, from, K
  <2>2. r \in Nat
    BY <2>1 DEF r
  <2>3. Min({r, L}) = IF r <= L THEN r ELSE L
    BY <1>1, <2>2 DEF Min
  <2>4. QED BY <2>1, <2>3 DEF r
<1>4. K \in Nat
  <2> HIDE DEF K
  <2>1. QED BY <1>2
<1>5. \A k \in 1..K : from[k] \in Nat /\ full[k] = from[k] + n /\ from[k] < L
  <2> HIDE DEF K, from, full
  <2>1. QED BY <1>2
<1>6. \A i, k \in 1..K : i < k => full[i] <= from[k]
  <2> HIDE DEF K, from, full
  <2>1. QED BY <1>2
<1>7. \A m \in 1..L : \E k \in 1..K : from[k] < m /\ m <= full[k]
  <2> HIDE DEF K, from, full
  <2>1. QED BY <1>2
<1>8. \A k \in 1..K : cs[k] = SubSeq(ps, from[k] + 1, to[k])
  OBVIOUS
<1>9. cs = Chunked(ps, n)
  BY DEF Chunked
<1> HIDE DEF K, from, to, full, L
<1>10. ASSUME NEW k \in 1..K
       PROVE  /\ from[k] \in Nat /\ to[k] \in Nat /\ from[k] < to[k] /\ to[k] <= L
              /\ to[k] - from[k] \in 1..n /\ to[k] <= full[k] /\ full[k] \in Nat
              /\ \A m \in 1..L : m <= full[k] => m <= to[k]
  <2>1. from[k] \in Nat /\ full[k] = from[k] + n /\ from[k] < L
    BY <1>5
  <2>2. to[k] = IF full[k] <= L THEN full[k] ELSE L
    BY <1>3
  <2>3. QED BY <1>1, <2>1, <2>2
<1>11. ASSUME NEW k \in 1..K
       PROVE  /\ cs[k] \in Seq(P) /\ Len(cs[k]) = to[k] - from[k]
              /\ \A j \in 1..(to[k] - from[k]) : cs[k][j] = ps[from[k] + j]
  <2> DEFINE b == from[k]
             a == b + 1
             z == to[k]
  <2>1. b \in Nat /\ z \in Nat /\ b < z /\ z <= L
    BY <1>10
  <2>2. cs[k] = SubSeq(ps, a, z)
    BY <1>8
  <2> HIDE DEF b, z, cs
  <2>3. a \in Int /\ z \in Int /\ a <= z /\ z - a + 1 = z - b
    BY <2>1
  <2>4. \A i \in a..z : ps[i] \in P
    BY <1>1, <2>1 DEF L
  <2>5. \A j \in 1..(z - b) : a + j - 1 = b + j
    BY <2>1
  <2> HIDE DEF a
  <2>6. /\ SubSeq(ps, a, z) \in Seq(P) /\ Len(SubSeq(ps, a, z)) = z - a + 1
        /\ \A i \in 1..(z - a + 1) : SubSeq(ps, a, z)[i] = ps[a + i - 1]
    BY <2>3, <2>4, SubSeqProperties
  <2>7. QED BY <2>2, <2>3, <2>5, <2>6 DEF b, z
<1>12. cs \in Seq(Seq(P)) /\ Len(cs) = K
  <2>1. cs \in [1..K -> Seq(P)]
    BY <1>11
  <2> HIDE DEF cs
  <2>2. QED BY <1>4, <2>1, FunctionSeq
<1> HIDE DEF cs
<1>13. ASSUME NEW k \in 1..K, NEW j \in 1..Len(cs[k])
       PROVE  /\ from[k] + j \in 1..L /\ cs[k][j] = ps[from[k] + j] /\ cs[k][j] \in X
              /\ j \in Nat \ {0} /\ from[k] + j <= to[k]
  <2> DEFINE a == from[k]
             z == to[k]
  <2>1. a \in Nat /\ z \in Nat /\ z <= L
    BY <1>10
  <2>2. j \in 1..(z - a) /\ cs[k][j] = ps[a + j]
    BY <1>11
  <2> HIDE DEF a, z
  <2>3. a + j \in 1..L /\ j \in Nat \ {0} /\ a + j <= z
    BY <1>1, <2>1, <2>2
  <2>4. ps[a + j] \in X
    BY <2>3 DEF Lists, L
  <2>5. QED BY <2>2, <2>3, <2>4 DEF a, z
<1>14. ASSUME NEW x \in X PROVE \E k \in 1..K : \E j \in 1..Len(cs[k]) : cs[k][j] = x
  <2>1. PICK m \in 1..L : ps[m] = x
    BY DEF Lists, L
  <2>2. PICK k \in 1..K : from[k] < m /\ m <= full[k]
    BY <1>7
  <2> DEFINE a == from[k]
             z == to[k]
  <2>3. a \in Nat /\ z \in Nat /\ a < m /\ m <= z
    BY <1>10, <2>2
  <2>4. Len(cs[k]) = z - a /\ \A j \in 1..(z - a) : cs[k][j] = ps[a + j]
    BY <1>11
  <2> HIDE DEF a, z
  <2>5. m - a \in 1..(z - a) /\ a + (m - a) = m
    BY <1>1, <2>3
  <2>6. cs[k][m - a] = x /\ m - a \in 1..Len(cs[k])
    BY <2>1, <2>4, <2>5
  <2>7. QED BY <2>6
<1>15. ASSUME NEW i \in 1..K, NEW k \in 1..K, NEW j \in 1..Len(cs[i]), NEW l \in 1..Len(cs[k]), i < k
       PROVE  from[i] + j # from[k] + l
  <2> DEFINE a == from[i]
             b == from[k]
             y == to[i]
  <2>1. a + j <= y /\ j \in Nat /\ l \in Nat \ {0} /\ a \in Nat /\ b \in Nat
    BY <1>10, <1>13
  <2>2. y \in Nat /\ y <= full[i] /\ full[i] \in Nat /\ full[i] <= b
    BY <1>6, <1>10, <1>15
  <2> HIDE DEF a, b, y
  <2>3. a + j # b + l
    BY <2>1, <2>2
  <2>4. QED BY <2>3 DEF a, b
<1>16. ASSUME NEW i \in 1..K, NEW k \in 1..K, NEW j \in 1..Len(cs[i]), NEW l \in 1..Len(cs[k]),
              cs[i][j] = cs[k][l]
       PROVE  i = k /\ j = l
  <2>1. from[i] + j = from[k] + l
    <3> DEFINE a == from[i] + j
               b == from[k] + l
    <3>1. a \in 1..L /\ b \in 1..L /\ ps[a] = ps[b]
      BY <1>13, <1>16
    <3> HIDE DEF a, b
    <3>2. a = b
      BY <3>1 DEF Lists, L
    <3>3. QED BY <3>2 DEF a, b
  <2>2. ~(i < k) /\ ~(k < i)
    BY <1>15, <2>1
  <2>3. i = k
    BY <1>4, <2>2
  <2> DEFINE a == from[i]
  <2>4. a \in Nat /\ j \in Nat /\ l \in Nat /\ a + j = a + l
    BY <1>10, <1>13, <2>1, <2>3
  <2> HIDE DEF a
  <2>5. QED BY <2>3, <2>4
<1>17. Deals(cs, X)
  BY <1>12, <1>13, <1>14, <1>16 DEF Deals
<1>18. ASSUME NEW k \in 1..K PROVE Len(cs[k]) \in 1..n /\ cs[k] # << >>
  <2>1. Len(cs[k]) \in 1..n
    BY <1>10, <1>11
  <2>2. QED BY <2>1
<1>19. Full(cs) /\ \A k \in 1..Len(cs) : Len(cs[k]) \in 1..n
  BY <1>12, <1>18 DEF Full
<1>20. QED BY <1>9, <1>12, <1>17, <1>19

-----------------------------------------------------------------------------
(* Costs, compaction and roles *)

Costs(P, cost) == \A p \in P : p[cost] \in Nat

TotalStep(n, sum, ps, cost) == sum + ps[n][cost]

\* A step of Total stays a natural.
LEMMA TotalTyped ==
  ASSUME NEW P, NEW cost, Costs(P, cost), NEW ps \in Seq(P), NEW n \in 1..Len(ps), NEW sum \in Nat
  PROVE  TotalStep(n, sum, ps, cost) \in Nat
<1>1. ps[n] \in P
  OBVIOUS
<1>2. ps[n][cost] \in Nat
  BY <1>1 DEF Costs
<1>3. QED BY <1>2 DEF TotalStep

\* Total adds one plan's cost after the other.
TotalSteps(t, ps, cost) ==
  /\ t[0] = 0 /\ Total(ps, cost) = t[Len(ps)]
  /\ \A n \in 1..Len(ps) : t[n] = TotalStep(n, t[n - 1], ps, cost)

\* Total, plan by plan.
LEMMA TotalUnrolled ==
  ASSUME NEW P, NEW ps \in Seq(P), NEW cost, Costs(P, cost)
  PROVE  \E t \in [0..Len(ps) -> Nat] : TotalSteps(t, ps, cost)
<1> DEFINE S == Nat
           N == Len(ps)
           step(n, out) == TotalStep(n, out, ps, cost)
           F == [x \in (1..N) \X S |-> step(x[1], x[2])]
           Body(f) == [u \in SUBSET (DOMAIN ps) |->
                         IF u = {} THEN 0 ELSE step(Max(u), f[u \ {Max(u)}])]
           h == CHOOSE f : f = Body(f)
<1>1. Total(ps, cost) = h[DOMAIN ps]
  BY DEF Total, FoldLeft, MapThenFoldSet, TotalStep
<1>2. N \in Nat /\ DOMAIN ps = 1..N /\ 0 \in S
  OBVIOUS
<1>3. F \in [(1..N) \X S -> S] /\ \A n \in 1..N, out \in S : F[<<n, out>>] = step(n, out)
  <2>1. \A n \in 1..N, out \in S : step(n, out) \in S
    BY TotalTyped
  <2> HIDE DEF step, S
  <2>2. QED BY <2>1
<1>4. \A u \in (SUBSET (1..N)) \ {{}} : Max(u) \in 1..N
  BY <1>2, MaxAmong
<1>5. h = Body(h)
  <2>1. PICK g \in [SUBSET (1..N) -> S] : FoldsAll(g, N, 0, F)
    <3> HIDE DEF F, N, S
    <3>1. QED BY <1>2, <1>3, FoldDefined
  <2>2. \A u \in (SUBSET (1..N)) \ {{}} : g[u] = step(Max(u), g[u \ {Max(u)}])
    <3> HIDE DEF F, step, S, N
    <3>1. QED BY <1>3, <1>4, <2>1 DEF FoldsAll
  <2>3. g = Body(g)
    <3> HIDE DEF F, step, S
    <3>1. QED BY <1>2, <2>1, <2>2 DEF FoldsAll
  <2> HIDE DEF Body
  <2>4. QED BY <2>3
<1>6. FoldsUp(h, N, S, 0, F)
  <2>1. h[{}] = 0
    BY <1>2, <1>5
  <2>2. ASSUME NEW u \in (SUBSET (1..N)) \ {{}}, h[u \ {Max(u)}] \in S
        PROVE  h[u] = F[<<Max(u), h[u \ {Max(u)}]>>]
    <3> HIDE DEF F, step, h, S
    <3>1. h[u] = step(Max(u), h[u \ {Max(u)}])
      BY <1>2, <1>5
    <3>2. QED BY <1>3, <1>4, <2>2, <3>1
  <2> HIDE DEF F, h
  <2>3. QED BY <2>1, <2>2 DEF FoldsUp
<1>7. PICK t \in [0..N -> S] : Unrolls(t, h, N, 0, F)
  <2> HIDE DEF F, N, S, h
  <2>1. N \in Nat /\ 0 \in S
    BY <1>2
  <2>2. QED BY <1>3, <1>6, <2>1, FoldUnrolled
<1>8. \A n \in 1..N : t[n] = step(n, t[n - 1])
  <2>1. SUFFICES ASSUME NEW n \in 1..N PROVE t[n] = step(n, t[n - 1])
    OBVIOUS
  <2>2. t[n - 1] \in S
    <3>1. n - 1 \in 0..N
      BY <1>2
    <3> HIDE DEF S, F, h, N
    <3>2. QED BY <1>7, <3>1
  <2> HIDE DEF F, step, S, N
  <2>3. QED BY <1>3, <1>7, <2>2 DEF Unrolls
<1>9. QED BY <1>1, <1>2, <1>7, <1>8 DEF Unrolls, TotalSteps

\* A total of costs is a natural.
LEMMA TotalNat ==
  ASSUME NEW P, NEW ps \in Seq(P), NEW cost, Costs(P, cost)
  PROVE  Total(ps, cost) \in Nat
<1>1. PICK t \in [0..Len(ps) -> Nat] : TotalSteps(t, ps, cost)
  BY TotalUnrolled
<1>2. Len(ps) \in 0..Len(ps)
  OBVIOUS
<1>3. QED BY <1>1, <1>2 DEF TotalSteps

\* Of the places that fit there is one with the highest value, the first of them.
Best(i, fits, v) == i \in fits /\ \A j \in fits : v[i] > v[j] \/ (v[i] = v[j] /\ i <= j)

\* Among the packs that fit there is a fullest and earliest.
LEMMA BestExists ==
  ASSUME NEW N \in Nat, NEW fits \in SUBSET (1..N), fits # {}, NEW v \in [1..N -> Nat]
  PROVE  \E i : Best(i, fits, v)
<1> DEFINE F(n) == fits \cap 1..n
           T == {n \in 0..N : F(n) = {} \/ \E i : Best(i, F(n), v)}
<1>1. 0 \in T
  OBVIOUS
<1>2. ASSUME NEW k \in 0..(N - 1), k \in T PROVE k + 1 \in T
  <2>1. k \in Nat /\ k + 1 \in 0..N /\ k + 1 \in 1..N
    OBVIOUS
  <2>2. CASE k + 1 \notin fits
    <3>1. F(k + 1) = F(k)
      BY <2>1, <2>2
    <3>2. QED BY <1>2, <2>1, <3>1
  <2>3. CASE k + 1 \in fits
    <3>1. F(k + 1) = F(k) \cup {k + 1} /\ \A i \in F(k) : i \in 1..N /\ i < k + 1
      BY <2>1, <2>3
    <3>2. CASE F(k) = {}
      <4>1. F(k + 1) = {k + 1}
        BY <3>1, <3>2
      <4>2. Best(k + 1, F(k + 1), v)
        BY <2>1, <4>1 DEF Best
      <4>3. QED BY <2>1, <4>2
    <3>3. CASE \E i : Best(i, F(k), v)
      <4>1. PICK i : Best(i, F(k), v)
        BY <3>3
      <4> DEFINE G == F(k)
                 H == F(k + 1)
      <4>2. /\ H = G \cup {k + 1} /\ i \in G /\ i \in 1..N /\ i < k + 1
            /\ \A j \in G : j \in 1..N /\ j < k + 1
        BY <3>1, <4>1 DEF Best
      <4>3. v[i] \in Nat /\ v[k + 1] \in Nat /\ \A j \in G : v[j] \in Nat
        BY <2>1, <4>2
      <4> HIDE DEF G, H, F
      <4>4. Best(i, H, v) \/ Best(k + 1, H, v)
        BY <4>1, <4>2, <4>3 DEF Best, G
      <4>5. QED BY <2>1, <4>4 DEF H
    <3>4. QED BY <1>2, <3>2, <3>3
  <2>4. QED BY <2>2, <2>3
<1>3. N \in T
  <2> HIDE DEF T
  <2>1. \A k \in 0..N : k \in T
    BY <1>1, <1>2, UpTo
  <2>2. QED BY <2>1
<1>4. F(N) = fits
  OBVIOUS
<1> HIDE DEF F
<1>5. QED BY <1>3, <1>4

CompactedStep(n, out, packs) ==
  LET fits == {i \in DOMAIN out :
                 /\ Total(out[i] \o packs[n], "tokens") <= Usable
                 /\ HasDeps(out[i] \o packs[n]) => Len(out[i] \o packs[n]) <= DepCap}
      best == CHOOSE i \in fits : \A j \in fits :
                \/ Total(out[i], "tokens") > Total(out[j], "tokens")
                \/ Total(out[i], "tokens") = Total(out[j], "tokens") /\ i <= j
  IN IF fits = {} THEN Append(out, packs[n]) ELSE [out EXCEPT ![best] = @ \o packs[n]]

\* A step of Compacted joins the pack to one that it fits, or keeps it.
LEMMA CompactedChoice ==
  ASSUME NEW P, Costs(P, "tokens"), NEW packs \in Seq(Seq(P)),
         NEW n \in 1..Len(packs), NEW out \in Seq(Seq(P))
  PROVE  \/ CompactedStep(n, out, packs) = Append(out, packs[n])
         \/ \E i \in 1..Len(out) :
               /\ CompactedStep(n, out, packs) = [out EXCEPT ![i] = @ \o packs[n]]
               /\ Total(out[i] \o packs[n], "tokens") <= Usable
               /\ HasDeps(out[i] \o packs[n]) => Len(out[i] \o packs[n]) <= DepCap
<1> DEFINE fits == {i \in DOMAIN out :
                      /\ Total(out[i] \o packs[n], "tokens") <= Usable
                      /\ HasDeps(out[i] \o packs[n]) => Len(out[i] \o packs[n]) <= DepCap}
           N == Len(out)
           v == [i \in 1..N |-> Total(out[i], "tokens")]
           best == CHOOSE i \in fits : \A j \in fits :
                     \/ Total(out[i], "tokens") > Total(out[j], "tokens")
                     \/ Total(out[i], "tokens") = Total(out[j], "tokens") /\ i <= j
           new == CompactedStep(n, out, packs)
           c == packs[n]
<1>1. N \in Nat /\ fits \in SUBSET (1..N)
  OBVIOUS
<1>2. \A i \in 1..N : Total(out[i], "tokens") \in Nat
  BY TotalNat
<1>3. v \in [1..N -> Nat] /\ \A i \in 1..N : v[i] = Total(out[i], "tokens")
  BY <1>2
<1>4. new = IF fits = {} THEN Append(out, c) ELSE [out EXCEPT ![best] = @ \o c]
  BY DEF CompactedStep
<1>5. best = CHOOSE i \in fits : \A j \in fits :
                     \/ Total(out[i], "tokens") > Total(out[j], "tokens")
                     \/ Total(out[i], "tokens") = Total(out[j], "tokens") /\ i <= j
  OBVIOUS
<1>6. \A i \in fits : /\ Total(out[i] \o c, "tokens") <= Usable
                      /\ HasDeps(out[i] \o c) => Len(out[i] \o c) <= DepCap
  OBVIOUS
<1> HIDE DEF fits, N, v, best, new, c
<1>7. ASSUME fits # {} PROVE best \in fits
  <2>1. PICK i : Best(i, fits, v)
    BY <1>1, <1>3, <1>7, BestExists
  <2>2. i \in fits /\ \A j \in fits :
           \/ Total(out[i], "tokens") > Total(out[j], "tokens")
           \/ Total(out[i], "tokens") = Total(out[j], "tokens") /\ i <= j
    BY <1>1, <1>3, <2>1 DEF Best
  <2>3. QED BY <1>5, <2>2
<1>8. CASE fits = {}
  BY <1>4, <1>8 DEF new, c
<1>9. CASE fits # {}
  <2>1. best \in 1..N /\ new = [out EXCEPT ![best] = @ \o c]
    BY <1>1, <1>4, <1>7, <1>9
  <2>2. /\ Total(out[best] \o c, "tokens") <= Usable
        /\ HasDeps(out[best] \o c) => Len(out[best] \o c) <= DepCap
    BY <1>6, <1>7, <1>9
  <2>3. QED BY <2>1, <2>2 DEF new, c, N
<1>10. QED BY <1>8, <1>9

\* A step of Compacted joins one pack to another or keeps it.
LEMMA CompactedTyped ==
  ASSUME NEW P, Costs(P, "tokens"), NEW packs \in Seq(Seq(P)),
         NEW n \in 1..Len(packs), NEW out \in Seq(Seq(P))
  PROVE  /\ CompactedStep(n, out, packs) \in Seq(Seq(P))
         /\ Joins(CompactedStep(n, out, packs), out, packs[n])
<1> DEFINE new == CompactedStep(n, out, packs)
           c == packs[n]
<1>1. \/ new = Append(out, c)
      \/ \E i \in 1..Len(out) : new = [out EXCEPT ![i] = @ \o c]
  <2>1. \/ new = Append(out, c)
        \/ \E i \in 1..Len(out) :
              /\ new = [out EXCEPT ![i] = @ \o c]
              /\ Total(out[i] \o c, "tokens") <= Usable
              /\ HasDeps(out[i] \o c) => Len(out[i] \o c) <= DepCap
    BY CompactedChoice
  <2> HIDE DEF new, c
  <2>2. QED BY <2>1
<1>2. c \in Seq(P)
  OBVIOUS
<1> HIDE DEF new, c
<1>3. CASE new = Append(out, c)
  <2>1. new \in Seq(Seq(P))
    BY <1>2, <1>3, AppendProperties
  <2>2. QED BY <1>3, <2>1 DEF Joins, new, c
<1>4. CASE \E i \in 1..Len(out) : new = [out EXCEPT ![i] = @ \o c]
  <2>1. PICK i \in 1..Len(out) : new = [out EXCEPT ![i] = @ \o c]
    BY <1>4
  <2>2. out[i] \o c \in Seq(P)
    BY <1>2, ConcatProperties
  <2>3. new \in Seq(Seq(P))
    BY <2>1, <2>2, ExceptSeq
  <2>4. QED BY <2>1, <2>3 DEF Joins, new, c
<1>5. QED BY <1>1, <1>3, <1>4

\* Compacted takes one pack after the other.
CompactedSteps(t, packs) ==
  /\ t[0] = << >> /\ Compacted(packs) = t[Len(packs)]
  /\ \A n \in 1..Len(packs) : t[n] = CompactedStep(n, t[n - 1], packs)

\* Compacted, pack by pack.
LEMMA CompactedUnrolled ==
  ASSUME NEW P, Costs(P, "tokens"), NEW packs \in Seq(Seq(P))
  PROVE  \E t \in [0..Len(packs) -> Seq(Seq(P))] : CompactedSteps(t, packs)
<1> DEFINE S == Seq(Seq(P))
           N == Len(packs)
           step(n, out) == CompactedStep(n, out, packs)
           F == [x \in (1..N) \X S |-> step(x[1], x[2])]
           Body(f) == [u \in SUBSET (DOMAIN packs) |->
                         IF u = {} THEN << >> ELSE step(Max(u), f[u \ {Max(u)}])]
           h == CHOOSE f : f = Body(f)
<1>1. Compacted(packs) = h[DOMAIN packs]
  BY DEF Compacted, FoldLeft, MapThenFoldSet, CompactedStep
<1>2. N \in Nat /\ DOMAIN packs = 1..N /\ << >> \in S
  OBVIOUS
<1>3. F \in [(1..N) \X S -> S] /\ \A n \in 1..N, out \in S : F[<<n, out>>] = step(n, out)
  <2>1. \A n \in 1..N, out \in S : step(n, out) \in S
    BY CompactedTyped
  <2> HIDE DEF step, S
  <2>2. QED BY <2>1
<1>4. \A u \in (SUBSET (1..N)) \ {{}} : Max(u) \in 1..N
  BY <1>2, MaxAmong
<1>5. h = Body(h)
  <2>1. PICK g \in [SUBSET (1..N) -> S] : FoldsAll(g, N, << >>, F)
    <3> HIDE DEF F, N, S
    <3>1. QED BY <1>2, <1>3, FoldDefined
  <2>2. \A u \in (SUBSET (1..N)) \ {{}} : g[u] = step(Max(u), g[u \ {Max(u)}])
    <3> HIDE DEF F, step, S, N
    <3>1. QED BY <1>3, <1>4, <2>1 DEF FoldsAll
  <2>3. g = Body(g)
    <3> HIDE DEF F, step, S
    <3>1. QED BY <1>2, <2>1, <2>2 DEF FoldsAll
  <2> HIDE DEF Body
  <2>4. QED BY <2>3
<1>6. FoldsUp(h, N, S, << >>, F)
  <2>1. h[{}] = << >>
    BY <1>2, <1>5
  <2>2. ASSUME NEW u \in (SUBSET (1..N)) \ {{}}, h[u \ {Max(u)}] \in S
        PROVE  h[u] = F[<<Max(u), h[u \ {Max(u)}]>>]
    <3> HIDE DEF F, step, h, S
    <3>1. h[u] = step(Max(u), h[u \ {Max(u)}])
      BY <1>2, <1>5
    <3>2. QED BY <1>3, <1>4, <2>2, <3>1
  <2> HIDE DEF F, h
  <2>3. QED BY <2>1, <2>2 DEF FoldsUp
<1>7. PICK t \in [0..N -> S] : Unrolls(t, h, N, << >>, F)
  <2> HIDE DEF F, N, S, h
  <2>1. N \in Nat /\ << >> \in S
    BY <1>2
  <2>2. QED BY <1>3, <1>6, <2>1, FoldUnrolled
<1>8. \A n \in 1..N : t[n] = step(n, t[n - 1])
  <2>1. SUFFICES ASSUME NEW n \in 1..N PROVE t[n] = step(n, t[n - 1])
    OBVIOUS
  <2>2. t[n - 1] \in S
    <3>1. n - 1 \in 0..N
      BY <1>2
    <3> HIDE DEF S, F, h, N
    <3>2. QED BY <1>7, <3>1
  <2> HIDE DEF F, step, S, N
  <2>3. QED BY <1>3, <1>7, <2>2 DEF Unrolls
<1>9. QED BY <1>1, <1>2, <1>7, <1>8 DEF Unrolls, CompactedSteps

\* Compaction keeps each plan once.
LEMMA CompactedDeals ==
  ASSUME NEW P, Costs(P, "tokens"), NEW packs \in Seq(Seq(P)), NEW X, Deals(packs, X), Full(packs)
  PROVE  LET out == Compacted(packs) IN out \in Seq(Seq(P)) /\ Deals(out, X) /\ Full(out)
<1> DEFINE N == Len(packs)
<1>1. PICK t \in [0..N -> Seq(Seq(P))] : CompactedSteps(t, packs)
  BY CompactedUnrolled
<1>2. JoinsUp(t, packs)
  <2>1. ASSUME NEW n \in 1..N PROVE Joins(t[n], t[n - 1], packs[n])
    <3>1. n - 1 \in 0..N
      OBVIOUS
    <3>2. t[n - 1] \in Seq(Seq(P)) /\ t[n] = CompactedStep(n, t[n - 1], packs)
      BY <1>1, <3>1 DEF CompactedSteps
    <3>3. QED BY <3>2, CompactedTyped
  <2>2. QED BY <1>1, <2>1 DEF JoinsUp, CompactedSteps
<1>3. t[N] \in Seq(Seq(P)) /\ Deals(t[N], X) /\ Full(t[N])
  BY <1>2, JoinsDeal
<1>4. QED BY <1>1, <1>3 DEF CompactedSteps

RolesInTurnStep(n, rs, ps) ==
  IF Contains(rs, ps[n].role) THEN rs ELSE Append(rs, ps[n].role)

\* A step of RolesInTurn stays a list of roles.
LEMMA RolesInTurnTyped ==
  ASSUME NEW P, \A p \in P : p.role \in 1..Roles, NEW ps \in Seq(P), NEW n \in 1..Len(ps),
         NEW rs \in Seq(1..Roles)
  PROVE  RolesInTurnStep(n, rs, ps) \in Seq(1..Roles)
<1>1. ps[n] \in P
  OBVIOUS
<1>2. ps[n].role \in 1..Roles
  BY <1>1
<1>3. QED BY <1>2, AppendProperties DEF RolesInTurnStep

\* RolesInTurn takes one plan after the other.
RolesInTurnSteps(t, ps) ==
  /\ t[0] = << >> /\ RolesInTurn(ps) = t[Len(ps)]
  /\ \A n \in 1..Len(ps) : t[n] = RolesInTurnStep(n, t[n - 1], ps)

\* RolesInTurn, plan by plan.
LEMMA RolesInTurnUnrolled ==
  ASSUME NEW P, \A p \in P : p.role \in 1..Roles, NEW ps \in Seq(P)
  PROVE  \E t \in [0..Len(ps) -> Seq(1..Roles)] : RolesInTurnSteps(t, ps)
<1> DEFINE S == Seq(1..Roles)
           N == Len(ps)
           step(n, out) == RolesInTurnStep(n, out, ps)
           F == [x \in (1..N) \X S |-> step(x[1], x[2])]
           Body(f) == [u \in SUBSET (DOMAIN ps) |->
                         IF u = {} THEN << >> ELSE step(Max(u), f[u \ {Max(u)}])]
           h == CHOOSE f : f = Body(f)
<1>1. RolesInTurn(ps) = h[DOMAIN ps]
  BY DEF RolesInTurn, FoldLeft, MapThenFoldSet, RolesInTurnStep
<1>2. N \in Nat /\ DOMAIN ps = 1..N /\ << >> \in S
  OBVIOUS
<1>3. F \in [(1..N) \X S -> S] /\ \A n \in 1..N, out \in S : F[<<n, out>>] = step(n, out)
  <2>1. \A n \in 1..N, out \in S : step(n, out) \in S
    BY RolesInTurnTyped
  <2> HIDE DEF step, S
  <2>2. QED BY <2>1
<1>4. \A u \in (SUBSET (1..N)) \ {{}} : Max(u) \in 1..N
  BY <1>2, MaxAmong
<1>5. h = Body(h)
  <2>1. PICK g \in [SUBSET (1..N) -> S] : FoldsAll(g, N, << >>, F)
    <3> HIDE DEF F, N, S
    <3>1. QED BY <1>2, <1>3, FoldDefined
  <2>2. \A u \in (SUBSET (1..N)) \ {{}} : g[u] = step(Max(u), g[u \ {Max(u)}])
    <3> HIDE DEF F, step, S, N
    <3>1. QED BY <1>3, <1>4, <2>1 DEF FoldsAll
  <2>3. g = Body(g)
    <3> HIDE DEF F, step, S
    <3>1. QED BY <1>2, <2>1, <2>2 DEF FoldsAll
  <2> HIDE DEF Body
  <2>4. QED BY <2>3
<1>6. FoldsUp(h, N, S, << >>, F)
  <2>1. h[{}] = << >>
    BY <1>2, <1>5
  <2>2. ASSUME NEW u \in (SUBSET (1..N)) \ {{}}, h[u \ {Max(u)}] \in S
        PROVE  h[u] = F[<<Max(u), h[u \ {Max(u)}]>>]
    <3> HIDE DEF F, step, h, S
    <3>1. h[u] = step(Max(u), h[u \ {Max(u)}])
      BY <1>2, <1>5
    <3>2. QED BY <1>3, <1>4, <2>2, <3>1
  <2> HIDE DEF F, h
  <2>3. QED BY <2>1, <2>2 DEF FoldsUp
<1>7. PICK t \in [0..N -> S] : Unrolls(t, h, N, << >>, F)
  <2> HIDE DEF F, N, S, h
  <2>1. N \in Nat /\ << >> \in S
    BY <1>2
  <2>2. QED BY <1>3, <1>6, <2>1, FoldUnrolled
<1>8. \A n \in 1..N : t[n] = step(n, t[n - 1])
  <2>1. SUFFICES ASSUME NEW n \in 1..N PROVE t[n] = step(n, t[n - 1])
    OBVIOUS
  <2>2. t[n - 1] \in S
    <3>1. n - 1 \in 0..N
      BY <1>2
    <3> HIDE DEF S, F, h, N
    <3>2. QED BY <1>7, <3>1
  <2> HIDE DEF F, step, S, N
  <2>3. QED BY <1>3, <1>7, <2>2 DEF Unrolls
<1>9. QED BY <1>1, <1>2, <1>7, <1>8 DEF Unrolls, RolesInTurnSteps

\* Each role that a plan has comes once.
LEMMA RolesInTurnLists ==
  ASSUME NEW P, \A p \in P : p.role \in 1..Roles, NEW ps \in Seq(P)
  PROVE  /\ RolesInTurn(ps) \in Seq(1..Roles)
         /\ Lists(RolesInTurn(ps), {ps[i].role : i \in 1..Len(ps)})
<1> DEFINE N == Len(ps)
           Has(n) == {ps[i].role : i \in 1..n}
<1>1. N \in Nat /\ \A n \in 1..N : ps[n] \in P /\ ps[n].role \in 1..Roles
  OBVIOUS
<1>2. PICK t \in [0..N -> Seq(1..Roles)] : RolesInTurnSteps(t, ps)
  BY RolesInTurnUnrolled
<1> DEFINE T == {n \in 0..N : Lists(t[n], Has(n))}
<1>3. 0 \in T
  <2>1. t[0] = << >> /\ Len(t[0]) = 0 /\ Has(0) = {} /\ 0 \in 0..N
    BY <1>1, <1>2 DEF RolesInTurnSteps
  <2>2. Lists(t[0], Has(0))
    BY <2>1 DEF Lists
  <2> HIDE DEF N, Has
  <2>3. QED BY <2>1, <2>2
<1>4. ASSUME NEW k \in 0..(N - 1), k \in T PROVE k + 1 \in T
  <2>1. k + 1 \in 0..N /\ k + 1 \in 1..N /\ (k + 1) - 1 = k /\ k \in 0..N
    BY <1>1
  <2>2. Has(k + 1) = Has(k) \cup {ps[k + 1].role}
    <3>1. 1..(k + 1) = (1..k) \cup {k + 1}
      BY <2>1
    <3>2. QED BY <3>1
  <2> DEFINE r == ps[k + 1].role
             rs == t[k]
             new == t[k + 1]
             G == Has(k)
  <2>3. rs \in Seq(1..Roles) /\ r \in 1..Roles /\ Lists(rs, G)
    BY <1>1, <1>4, <2>1
  <2>4. new = IF Contains(rs, r) THEN rs ELSE Append(rs, r)
    BY <1>2, <2>1 DEF RolesInTurnSteps, RolesInTurnStep
  <2>5. Contains(rs, r) <=> r \in G
    <3> HIDE DEF r, rs, G
    <3>1. QED BY <2>3 DEF Lists, Contains
  <2> HIDE DEF r, rs, new, G, N, Has
  <2>6. CASE r \in G
    <3>1. G \cup {r} = G /\ new = rs
      BY <2>4, <2>5, <2>6
    <3>2. QED BY <2>1, <2>2, <2>3, <3>1 DEF G, r, new
  <2>7. CASE r \notin G
    <3>1. Lists(Append(rs, r), G \cup {r})
      BY <2>3, <2>7, ListsAppend
    <3>2. QED BY <2>1, <2>2, <2>4, <2>5, <2>7, <3>1 DEF G, r, new
  <2>8. QED BY <2>6, <2>7
<1>5. N \in T
  <2> HIDE DEF T, N
  <2>1. \A k \in 0..N : k \in T
    BY <1>1, <1>3, <1>4, UpTo
  <2>2. QED BY <1>1, <2>1
<1>6. QED BY <1>1, <1>2, <1>5 DEF RolesInTurnSteps

-----------------------------------------------------------------------------
(* The inductive invariant *)

PlanSet ==
  [task : Nat, stage : 0..3, index : Nat, role : 1..Roles, wave : 1..LastWave,
   steps : Nat \ {0}, tokens : Nat, deps : BOOLEAN, shared : BOOLEAN, risky : BOOLEAN]

BatchSet ==
  [role : 1..Roles, wave : 1..LastWave, plans : Seq(PlanSet), usable : Nat,
   tokens : Nat, steps : Nat]

PlansOf(bs) == [i \in 1..Len(bs) |-> bs[i].plans]

\* No two plans have one name.
Named(X) == \A p, q \in X : Name(p) = Name(q) => p = q

NamesOf(X) == {Name(p) : p \in X}

\* The plans of the first n batches.
PlansUpTo(bs, n) == Until(PlansOf(bs), n)

Dealt == PlansUpTo(batches, Len(batches))

\* Before the chains are made, every plan is itself, and a risky one has two
\* waves to come.
Whole(p) == p.stage = 0 /\ (p.risky => p.wave + 2 <= LastWave)

PlansFit ==
  /\ plans \in Seq(PlanSet) /\ plans # << >>
  /\ \A i, j \in 1..Len(plans) : Name(plans[i]) = Name(plans[j]) => i = j
  /\ stage \in {"gate", "chain"} => \A i \in 1..Len(plans) : Whole(plans[i])

\* The batches hold X, each plan in one of them, and none is empty.
Hold(bs, X) == Deals(PlansOf(bs), X) /\ Full(PlansOf(bs))

\* Batches in the order of their waves, or of their roles first.
ByWaves == {x \in BatchSet \X BatchSet : x[1].wave <= x[2].wave}
ByRoles == {x \in BatchSet \X BatchSet :
              x[1].role < x[2].role \/ (x[1].role = x[2].role /\ x[1].wave <= x[2].wave)}

\* What a batch has from the way it was made.
Made(b, way) ==
  /\ way = "prebatched" => b.steps = 0
  /\ way # "prebatched" => \A j \in 1..Len(b.plans) : b.plans[j].wave = b.wave
  /\ way = "tokenFirst" => \A j \in 1..Len(b.plans) : b.plans[j].role = b.role

Turns(way) == IF way = "tokenFirst" THEN ByRoles ELSE ByWaves

MostPlans == Max({MaxPlans, MaxMerged})

BatchesFit ==
  /\ batches \in Seq(BatchSet)
  /\ path = "none" => batches = << >>
  /\ path # "none" =>
       /\ Hold(batches, Dealt) /\ Named(Dealt) /\ NamesOf(Dealt) = NamesOf(ToSet(plans))
       /\ Ordered(batches, Turns(path))
       /\ \A i \in 1..Len(batches) : Made(batches[i], path)
  /\ stage # "cap" => \A i \in 1..Len(batches) : Len(batches[i].plans) <= MostPlans

Before == {"gate", "chain", "batch"}
Making == {"cap", "tighten", "split"}
Loop == {"dispatch", "running", "stopped", "complete"}

LoopFit ==
  /\ path \in {"none", "prebatched", "tokenFirst", "roleSplit"}
  /\ stage \in Before \cup Making \cup Loop \cup {"blocked"}
  /\ stage \in Before => path = "none"
  /\ stage \in Making \cup Loop => path # "none"
  /\ next \in 1..(Len(batches) + 1)
  /\ stage = "running" => next <= Len(batches)
  /\ stage \notin Loop => next = 1
  /\ done = NamesOf(PlansUpTo(batches, next - 1))

IInv == PlansFit /\ BatchesFit /\ LoopFit

-----------------------------------------------------------------------------
(* Batches and what they hold *)

Load == [b \in BatchSet |-> b.plans]

\* The plans of batches, batch by batch.
LEMMA PlansOfHeld ==
  ASSUME NEW bs \in Seq(BatchSet)
  PROVE  /\ PlansOf(bs) = Held(Load, bs) /\ PlansOf(bs) \in Seq(Seq(PlanSet))
         /\ Len(PlansOf(bs)) = Len(bs)
         /\ \A i \in 1..Len(bs) : /\ bs[i] \in BatchSet /\ bs[i].plans \in Seq(PlanSet)
                                  /\ PlansOf(bs)[i] = bs[i].plans
<1>1. \A i \in 1..Len(bs) : bs[i] \in BatchSet
  OBVIOUS
<1>2. \A b \in BatchSet : b.plans \in Seq(PlanSet) /\ Load[b] = b.plans
  BY DEF BatchSet, Load
<1>3. PlansOf(bs) \in [1..Len(bs) -> Seq(PlanSet)]
  <2> HIDE DEF BatchSet
  <2>1. QED BY <1>1, <1>2 DEF PlansOf
<1>4. PlansOf(bs) \in Seq(Seq(PlanSet)) /\ Len(PlansOf(bs)) = Len(bs)
  <2>1. Len(bs) \in Nat
    OBVIOUS
  <2>2. QED BY <1>3, <2>1, FunctionSeq
<1>5. PlansOf(bs) = Held(Load, bs)
  BY <1>1, <1>2 DEF PlansOf, Held
<1>6. QED BY <1>1, <1>2, <1>4, <1>5 DEF PlansOf

\* What batches hold is what they deal.
LEMMA HoldDealt ==
  ASSUME NEW bs \in Seq(BatchSet), NEW X, Hold(bs, X)
  PROVE  PlansUpTo(bs, Len(bs)) = X
<1>1. PlansOf(bs) \in Seq(Seq(PlanSet)) /\ Len(PlansOf(bs)) = Len(bs)
  BY PlansOfHeld
<1>2. QED BY <1>1, DealsUntil DEF Hold, PlansUpTo

\* The fields that a batch gets new.
LEMMA BatchWith ==
  ASSUME NEW b \in BatchSet, NEW ps \in Seq(PlanSet), NEW c, c = [b EXCEPT !.plans = ps]
  PROVE  /\ c \in BatchSet /\ c.plans = ps
         /\ c.role = b.role /\ c.wave = b.wave /\ c.steps = b.steps
BY DEF BatchSet

Recounted(c, b, ps, n) == c = [b EXCEPT !.plans = ps, !.steps = n]

\* A batch with other plans and another step count.
LEMMA BatchSteps ==
  ASSUME NEW b \in BatchSet, NEW ps \in Seq(PlanSet), NEW n \in Nat,
         NEW c, Recounted(c, b, ps, n)
  PROVE  c \in BatchSet /\ c.plans = ps /\ c.role = b.role /\ c.wave = b.wave
BY DEF BatchSet, Recounted

\* Tokens and steps are costs of plans.
LEMMA PlanCosts == Costs(PlanSet, "tokens") /\ Costs(PlanSet, "steps")
BY DEF Costs, PlanSet

\* A batch made of a role, a wave and plans.
LEMMA BatchFields ==
  ASSUME NEW r \in 1..Roles, NEW w \in 1..LastWave, NEW ps \in Seq(PlanSet)
  PROVE  /\ Batch(r, w, ps) \in BatchSet /\ Batch(r, w, ps).plans = ps
         /\ Batch(r, w, ps).role = r /\ Batch(r, w, ps).wave = w
<1>1. Total(ps, "tokens") \in Nat /\ Total(ps, "steps") \in Nat
  BY PlanCosts, TotalNat
<1>2. Usable \in Nat
  BY BatchAssumption
<1>3. QED BY <1>1, <1>2 DEF Batch, BatchSet

\* The batches in z together are b, split.
Parts(z, b) ==
  /\ \A Y : Lists(b.plans, Y) => Deals(PlansOf(z), Y)
  /\ Full(PlansOf(z))
  /\ \A k \in 1..Len(z) : z[k].role = b.role /\ z[k].wave = b.wave

\* Batches of one role and wave are in turn, and others in the place of theirs.
LEMMA InTurn ==
  ASSUME NEW way, NEW a \in BatchSet, NEW b \in BatchSet,
         NEW c \in BatchSet, NEW d \in BatchSet,
         c.role = a.role, c.wave = a.wave, d.role = b.role, d.wave = b.wave
  PROVE  /\ <<a, c>> \in Turns(way)
         /\ <<a, b>> \in Turns(way) => <<c, d>> \in Turns(way)
<1>1. a.role \in 1..Roles /\ a.wave \in 1..LastWave
  BY DEF BatchSet
<1> HIDE DEF BatchSet
<1>2. QED BY <1>1 DEF Turns, ByRoles, ByWaves

\* key says in which sequence of batches a plan of X is held.
HoldBy(key, zz, X) ==
  /\ \A x \in X : key[x] \in 1..Len(zz)
  /\ \A w \in 1..Len(zz) : Hold(zz[w], {x \in X : key[x] = w})

\* Laid end to end, batches that hold X among them hold it.
LEMMA FlattenHold ==
  ASSUME NEW B \in SUBSET BatchSet, NEW zz \in Seq(Seq(B)), NEW X, NEW key, HoldBy(key, zz, X)
  PROVE  FlattenSeq(zz) \in Seq(B) /\ Hold(FlattenSeq(zz), X)
<1> DEFINE f == FlattenSeq(zz)
<1>1. f \in Seq(B) /\ f \in Seq(BatchSet) /\ zz \in Seq(Seq(BatchSet))
  <2>1. f \in Seq(B)
    BY FlattenPlaces
  <2>2. \A i \in 1..Len(zz) : zz[i] \in Seq(BatchSet)
    OBVIOUS
  <2>3. QED BY <2>1, <2>2
<1>2. HeldBy(key, Load, zz, X)
  <2>1. ASSUME NEW w \in 1..Len(zz) PROVE Deals(Held(Load, zz[w]), {x \in X : key[x] = w})
    <3> DEFINE Y == {x \in X : key[x] = w}
    <3>1. Hold(zz[w], Y)
      BY DEF HoldBy
    <3> HIDE DEF Y
    <3>2. Deals(PlansOf(zz[w]), Y) /\ zz[w] \in Seq(BatchSet)
      BY <1>1, <3>1 DEF Hold
    <3>3. PlansOf(zz[w]) = Held(Load, zz[w])
      BY <3>2, PlansOfHeld
    <3>4. QED BY <3>2, <3>3 DEF Y
  <2>2. QED BY <2>1 DEF HeldBy, HoldBy
<1>3. Deals(Held(Load, f), X)
  BY <1>1, <1>2, FlattenDeals
<1>4. Deals(PlansOf(f), X)
  BY <1>1, <1>3, PlansOfHeld
<1>5. Full(PlansOf(f))
  <2>1. ASSUME NEW m \in 1..Len(f) PROVE f[m].plans # << >>
    <3>1. PICK i \in 1..Len(zz) : \E k \in 1..Len(zz[i]) : f[m] = zz[i][k]
      BY <1>1, FlattenFrom
    <3>2. PICK k \in 1..Len(zz[i]) : f[m] = zz[i][k]
      BY <3>1
    <3>3. zz[i] \in Seq(BatchSet) /\ Full(PlansOf(zz[i]))
      <4> DEFINE Y == {x \in X : key[x] = i}
      <4>1. zz[i] \in Seq(BatchSet)
        BY <1>1
      <4>2. Hold(zz[i], Y)
        BY DEF HoldBy
      <4> HIDE DEF Y
      <4>3. QED BY <4>1, <4>2 DEF Hold
    <3>4. Len(PlansOf(zz[i])) = Len(zz[i]) /\ PlansOf(zz[i])[k] = zz[i][k].plans
      BY <3>3, PlansOfHeld
    <3>5. QED BY <3>2, <3>3, <3>4 DEF Full
  <2>2. Len(PlansOf(f)) = Len(f) /\ \A m \in 1..Len(f) : PlansOf(f)[m] = f[m].plans
    BY <1>1, PlansOfHeld
  <2>3. QED BY <2>1, <2>2 DEF Full
<1> HIDE DEF f
<1>6. QED BY <1>1, <1>4, <1>5 DEF Hold, f

\* Splitting each batch leaves every plan in one batch, and the batches in turn.
LEMMA PartsHold ==
  ASSUME NEW B \in SUBSET BatchSet, NEW bs \in Seq(BatchSet), NEW X, Hold(bs, X), NEW way,
         Ordered(bs, Turns(way)), NEW zz \in Seq(Seq(B)), Len(zz) = Len(bs),
         \A i \in 1..Len(bs) : Parts(zz[i], bs[i])
  PROVE  LET f == FlattenSeq(zz) IN
         f \in Seq(B) /\ Hold(f, X) /\ Ordered(f, Turns(way))
<1> DEFINE f == FlattenSeq(zz)
<1>1. f \in Seq(B) /\ f \in Seq(BatchSet) /\ zz \in Seq(Seq(BatchSet))
  <2>1. f \in Seq(B)
    BY FlattenPlaces
  <2>2. \A i \in 1..Len(zz) : zz[i] \in Seq(BatchSet)
    OBVIOUS
  <2>3. QED BY <2>1, <2>2
<1>2. /\ PlansOf(bs) \in Seq(Seq(PlanSet)) /\ Len(PlansOf(bs)) = Len(bs)
      /\ \A i \in 1..Len(bs) : PlansOf(bs)[i] = bs[i].plans
  BY PlansOfHeld
<1>3. Deals(PlansOf(bs), X)
  BY DEF Hold
<1>4. PICK key : Keyed(key, PlansOf(bs), X)
  BY <1>3, DealsParts
<1>5. HoldBy(key, zz, X)
  <2>1. ASSUME NEW w \in 1..Len(zz) PROVE Hold(zz[w], {x \in X : key[x] = w})
    <3> DEFINE Y == {x \in X : key[x] = w}
    <3>1. Lists(bs[w].plans, Y) /\ Parts(zz[w], bs[w])
      BY <1>2, <1>4 DEF Keyed
    <3> HIDE DEF Y
    <3>2. Hold(zz[w], Y)
      BY <3>1 DEF Parts, Hold
    <3>3. QED BY <3>2 DEF Y
  <2>2. \A x \in X : key[x] \in 1..Len(zz)
    BY <1>2, <1>4 DEF Keyed
  <2>3. QED BY <2>1, <2>2 DEF HoldBy
<1>6. Hold(f, X)
  BY <1>5, FlattenHold
<1>7. ASSUME NEW i \in 1..Len(zz), NEW k \in 1..Len(zz[i])
      PROVE  /\ zz[i][k] \in BatchSet /\ bs[i] \in BatchSet
             /\ zz[i][k].role = bs[i].role /\ zz[i][k].wave = bs[i].wave
  <2>1. zz[i] \in Seq(BatchSet) /\ i \in 1..Len(bs) /\ Parts(zz[i], bs[i])
    BY <1>1
  <2>2. QED BY <2>1 DEF Parts
<1>8. Ordered(f, Turns(way))
  <2>1. \A i \in 1..Len(zz) : Ordered(zz[i], Turns(way))
    <3>1. ASSUME NEW i \in 1..Len(zz), NEW j \in 1..Len(zz[i]), NEW k \in 1..Len(zz[i])
          PROVE  <<zz[i][j], zz[i][k]>> \in Turns(way)
      <4> DEFINE a == zz[i][j]
                 c == zz[i][k]
      <4>1. a \in BatchSet /\ c \in BatchSet /\ c.role = a.role /\ c.wave = a.wave
        BY <1>7
      <4> HIDE DEF a, c
      <4>2. <<a, c>> \in Turns(way)
        BY <4>1, InTurn
      <4>3. QED BY <4>2 DEF a, c
    <3>2. QED BY <3>1 DEF Ordered
  <2>2. \A i, k \in 1..Len(zz) : \A j \in 1..Len(zz[i]), l \in 1..Len(zz[k]) :
           i < k => <<zz[i][j], zz[k][l]>> \in Turns(way)
    <3>1. SUFFICES ASSUME NEW i \in 1..Len(zz), NEW k \in 1..Len(zz),
                          NEW j \in 1..Len(zz[i]), NEW l \in 1..Len(zz[k]), i < k
                   PROVE  <<zz[i][j], zz[k][l]>> \in Turns(way)
      OBVIOUS
    <3> DEFINE a == bs[i]
               b == bs[k]
               c == zz[i][j]
               d == zz[k][l]
    <3>2. /\ a \in BatchSet /\ b \in BatchSet /\ c \in BatchSet /\ d \in BatchSet
          /\ c.role = a.role /\ c.wave = a.wave /\ d.role = b.role /\ d.wave = b.wave
      BY <1>7
    <3>3. <<a, b>> \in Turns(way)
      BY <3>1 DEF Ordered
    <3> HIDE DEF a, b, c, d
    <3>4. <<c, d>> \in Turns(way)
      BY <3>2, <3>3, InTurn
    <3>5. QED BY <3>4 DEF c, d
  <2> HIDE DEF f
  <2>3. QED BY <1>1, <2>1, <2>2, FlattenOrdered DEF f
<1> HIDE DEF f
<1>9. QED BY <1>1, <1>6, <1>8 DEF f

-----------------------------------------------------------------------------
(* The hard cap and the split by steps *)

Elements(s) == {s[j] : j \in 1..Len(s)}

Fit(way, m) == {b \in BatchSet : Made(b, way) /\ Len(b.plans) <= m}

\* A batch lists its plans.
LEMMA BatchLists ==
  ASSUME NEW bs \in Seq(BatchSet), NEW X, Hold(bs, X), NEW i \in 1..Len(bs)
  PROVE  Lists(bs[i].plans, Elements(bs[i].plans)) /\ bs[i].plans # << >>
<1>1. /\ Len(PlansOf(bs)) = Len(bs) /\ PlansOf(bs)[i] = bs[i].plans
      /\ Deals(PlansOf(bs), X) /\ Full(PlansOf(bs))
  BY PlansOfHeld DEF Hold
<1> DEFINE ss == PlansOf(bs)
<1> HIDE DEF ss
<1>2. i \in 1..Len(ss) /\ Deals(ss, X)
  BY <1>1 DEF ss
<1>3. \A j, l \in 1..Len(ss[i]) : ss[i][j] = ss[i][l] => j = l
  BY <1>2, DealsOnce
<1>4. Lists(ss[i], Elements(ss[i]))
  BY <1>3 DEF Lists, Elements
<1>5. QED BY <1>1, <1>4 DEF ss, Full

\* Batches made of the packs of a batch are its parts.
LEMMA PacksPart ==
  ASSUME NEW b \in BatchSet, NEW packs \in Seq(Seq(PlanSet)),
         Deals(packs, Elements(b.plans)), Full(packs),
         NEW z \in Seq(BatchSet), Len(z) = Len(packs),
         \A k \in 1..Len(z) : z[k].plans = packs[k] /\ z[k].role = b.role /\ z[k].wave = b.wave,
         NEW way, Made(b, way), \A k \in 1..Len(z) : way = "prebatched" => z[k].steps = 0
  PROVE  Parts(z, b) /\ \A k \in 1..Len(z) : Made(z[k], way)
<1>1. /\ Len(PlansOf(z)) = Len(z) /\ PlansOf(z) \in Seq(Seq(PlanSet))
      /\ \A k \in 1..Len(z) : PlansOf(z)[k] = z[k].plans
  BY PlansOfHeld
<1>2. PlansOf(z) = packs
  <2> DEFINE S == Seq(PlanSet)
             tt == PlansOf(z)
  <2>1. tt \in Seq(S) /\ packs \in Seq(S) /\ Len(tt) = Len(packs)
    BY <1>1
  <2>2. \A i \in 1..Len(tt) : tt[i] = packs[i]
    BY <1>1
  <2> HIDE DEF S, tt
  <2>3. tt = packs
    BY <2>1, <2>2, SeqEqual
  <2>4. QED BY <2>3 DEF tt
<1>3. ASSUME NEW Y, Lists(b.plans, Y) PROVE Y = Elements(b.plans)
  BY <1>3 DEF Lists, Elements
<1>4. Parts(z, b)
  BY <1>2, <1>3 DEF Parts
<1>5. ASSUME NEW k \in 1..Len(z) PROVE Made(z[k], way)
  <2>1. ASSUME NEW j \in 1..Len(z[k].plans)
        PROVE  \E l \in 1..Len(b.plans) : z[k].plans[j] = b.plans[l]
    <3>1. packs[k][j] \in Elements(b.plans) /\ z[k].plans = packs[k]
      BY DEF Deals
    <3>2. QED BY <3>1 DEF Elements
  <2> DEFINE c == z[k]
  <2>2. /\ c.role = b.role /\ c.wave = b.wave /\ (way = "prebatched" => c.steps = 0)
        /\ \A j \in 1..Len(c.plans) : \E l \in 1..Len(b.plans) : c.plans[j] = b.plans[l]
    BY <2>1
  <2> HIDE DEF c
  <2>3. Made(c, way)
    BY <2>2 DEF Made
  <2>4. QED BY <2>3 DEF c
<1>6. QED BY <1>4, <1>5

\* The cap chunks every batch.
LEMMA CapHolds ==
  ASSUME NEW way, NEW X, batches \in Seq(BatchSet), Hold(batches, X),
         Ordered(batches, Turns(way)), \A i \in 1..Len(batches) : Made(batches[i], way)
  PROVE  /\ CappedBatches \in Seq(Fit(way, MaxPlans)) /\ Hold(CappedBatches, X)
         /\ Ordered(CappedBatches, Turns(way))
<1> DEFINE N == Len(batches)
           cs == [i \in 1..N |-> Chunked(batches[i].plans, MaxPlans)]
           part(i) == [k \in DOMAIN cs[i] |-> [batches[i] EXCEPT !.plans = cs[i][k]]]
           zz == [i \in 1..N |-> part(i)]
<1>1. N \in Nat /\ DOMAIN batches = 1..N /\ MaxPlans \in Nat \ {0}
  BY BatchAssumption
<1>2. CappedBatches = FlattenSeq(zz)
  BY <1>1 DEF CappedBatches
<1>3. ASSUME NEW i \in 1..N
      PROVE  /\ cs[i] \in Seq(Seq(PlanSet)) /\ Deals(cs[i], Elements(batches[i].plans))
             /\ Full(cs[i]) /\ \A k \in 1..Len(cs[i]) : Len(cs[i][k]) \in 1..MaxPlans
             /\ batches[i] \in BatchSet /\ Made(batches[i], way)
  <2> DEFINE ps == batches[i].plans
             X1 == Elements(ps)
  <2>1. ps \in Seq(PlanSet) /\ Lists(ps, X1) /\ batches[i] \in BatchSet
    BY BatchLists, PlansOfHeld
  <2>2. cs[i] = Chunked(ps, MaxPlans)
    OBVIOUS
  <2> HIDE DEF ps, X1, cs
  <2>3. QED BY <1>1, <2>1, <2>2, ChunkedDeals DEF X1, ps
<1> HIDE DEF cs
<1>4. ASSUME NEW i \in 1..N
      PROVE  /\ part(i) \in Seq(BatchSet) /\ Len(part(i)) = Len(cs[i])
             /\ \A k \in 1..Len(cs[i]) :
                  /\ part(i)[k] \in BatchSet /\ part(i)[k].plans = cs[i][k]
                  /\ part(i)[k].role = batches[i].role /\ part(i)[k].wave = batches[i].wave
                  /\ part(i)[k].steps = batches[i].steps
  <2>1. DOMAIN cs[i] = 1..Len(cs[i]) /\ Len(cs[i]) \in Nat
    BY <1>3
  <2>2. ASSUME NEW k \in 1..Len(cs[i])
        PROVE  /\ part(i)[k] \in BatchSet /\ part(i)[k].plans = cs[i][k]
               /\ part(i)[k].role = batches[i].role /\ part(i)[k].wave = batches[i].wave
               /\ part(i)[k].steps = batches[i].steps
    <3> DEFINE b == batches[i]
               c == cs[i][k]
               e == part(i)[k]
    <3>1. c \in Seq(PlanSet) /\ b \in BatchSet
      BY <1>3
    <3>2. e = [b EXCEPT !.plans = c]
      BY <2>1
    <3> HIDE DEF b, c, e
    <3>3. /\ e \in BatchSet /\ e.plans = c
          /\ e.role = b.role /\ e.wave = b.wave /\ e.steps = b.steps
      BY <3>1, <3>2, BatchWith
    <3>4. QED BY <3>3 DEF b, c, e
  <2>3. part(i) \in [1..Len(cs[i]) -> BatchSet]
    BY <2>1, <2>2
  <2> HIDE DEF part
  <2>4. part(i) \in Seq(BatchSet) /\ Len(part(i)) = Len(cs[i])
    BY <2>1, <2>3, FunctionSeq
  <2>5. QED BY <2>2, <2>4
<1>5. \A i \in 1..N : zz[i] = part(i)
  OBVIOUS
<1> HIDE DEF part
<1>6. ASSUME NEW i \in 1..N
      PROVE  Parts(zz[i], batches[i]) /\ zz[i] \in Seq(Fit(way, MaxPlans))
  <2> DEFINE b == batches[i]
             packs == cs[i]
             z == part(i)
  <2>1. /\ b \in BatchSet /\ Made(b, way) /\ packs \in Seq(Seq(PlanSet))
        /\ Deals(packs, Elements(b.plans)) /\ Full(packs)
    BY <1>3
  <2>a. \A k \in 1..Len(packs) : Len(packs[k]) <= MaxPlans
    <3>1. \A k \in 1..Len(packs) : Len(packs[k]) \in 1..MaxPlans
      BY <1>3
    <3> HIDE DEF packs
    <3>2. QED BY <1>1, <3>1
  <2>2. /\ z \in Seq(BatchSet) /\ Len(z) = Len(packs)
        /\ \A k \in 1..Len(z) : /\ z[k] \in BatchSet /\ z[k].plans = packs[k]
                                /\ z[k].role = b.role /\ z[k].wave = b.wave /\ z[k].steps = b.steps
    BY <1>4
  <2> HIDE DEF b, packs, z
  <2>3. \A k \in 1..Len(z) : way = "prebatched" => z[k].steps = 0
    BY <2>1, <2>2 DEF Made
  <2>4. Parts(z, b) /\ \A k \in 1..Len(z) : Made(z[k], way)
    BY <2>1, <2>2, <2>3, PacksPart
  <2>5. \A k \in 1..Len(z) : z[k] \in Fit(way, MaxPlans)
    BY <2>2, <2>4, <2>a DEF Fit
  <2>6. z \in Seq(Fit(way, MaxPlans))
    BY <2>2, <2>5
  <2>7. QED BY <1>5, <2>4, <2>6 DEF z, b
<1>7. zz \in Seq(Seq(Fit(way, MaxPlans))) /\ Len(zz) = N
  <2> DEFINE S == Seq(Fit(way, MaxPlans))
  <2>1. zz \in [1..N -> S]
    BY <1>6
  <2> HIDE DEF S, zz, N
  <2>2. zz \in Seq(S) /\ Len(zz) = N
    BY <1>1, <2>1, FunctionSeq
  <2>3. QED BY <2>2 DEF S
<1> HIDE DEF zz
<1>8. Fit(way, MaxPlans) \in SUBSET BatchSet
  BY DEF Fit
<1>9. QED BY <1>2, <1>6, <1>7, <1>8, PartsHold

\* The split packs the plans of a batch with too many steps again.
LEMMA SplitHolds ==
  ASSUME NEW way, NEW X, NEW m \in Nat, batches \in Seq(Fit(way, m)), Hold(batches, X),
         Ordered(batches, Turns(way))
  PROVE  /\ SplitBatches \in Seq(Fit(way, m)) /\ Hold(SplitBatches, X)
         /\ Ordered(SplitBatches, Turns(way))
<1> DEFINE N == Len(batches)
           zz == [i \in 1..N |-> StepChunks(batches[i])]
           B == Fit(way, m)
<1>1. /\ N \in Nat /\ DOMAIN batches = 1..N /\ batches \in Seq(BatchSet) /\ B \in SUBSET BatchSet
      /\ \A i \in 1..N : batches[i] \in B
  BY DEF Fit
<1>2. SplitBatches = FlattenSeq(zz)
  BY <1>1 DEF SplitBatches
<1>3. ASSUME NEW i \in 1..N
      PROVE  Parts(StepChunks(batches[i]), batches[i]) /\ StepChunks(batches[i]) \in Seq(B)
  <2> DEFINE b == batches[i]
             ps == b.plans
             X1 == Elements(ps)
             packs == PackedBy(ps, "steps", StepCap)
  <2>1. /\ ps \in Seq(PlanSet) /\ Lists(ps, X1) /\ ps # << >> /\ b \in BatchSet /\ b \in B
        /\ Made(b, way) /\ Len(ps) <= m
    BY <1>1, BatchLists, PlansOfHeld DEF Fit
  <2> HIDE DEF b, X1
  <2>2. /\ packs \in Seq(Seq(PlanSet)) /\ Deals(packs, X1) /\ Full(packs)
        /\ \A k \in 1..Len(packs) : Len(packs[k]) \in 1..Len(ps)
    <3> HIDE DEF ps
    <3>1. packs \in Seq(Seq(PlanSet)) /\ Deals(packs, X1) /\ Full(packs)
      BY <2>1, PackedByDeals
    <3> HIDE DEF packs
    <3>2. QED BY <2>1, <3>1, PackLen
  <2> HIDE DEF packs
  <2>3. CASE ~OverStepped(b) \/ Len(packs) = 1
    <3> DEFINE z == <<b>>
               one == <<ps>>
    <3>1. StepChunks(b) = z
      BY <2>3 DEF StepChunks, packs
    <3>2. /\ z \in Seq(BatchSet) /\ z \in Seq(B) /\ Len(z) = 1 /\ z[1] = b
          /\ one \in Seq(Seq(PlanSet)) /\ Len(one) = 1 /\ one[1] = ps
      BY <2>1
    <3> HIDE DEF z, one
    <3>3. Deals(one, Elements(b.plans)) /\ Full(one)
      <4> HIDE DEF ps
      <4>1. Deals(one, X1) /\ Full(one)
        BY <2>1, <3>2 DEF Deals, Lists, Full
      <4>2. QED BY <4>1 DEF X1, ps
    <3>4. \A k \in 1..Len(z) : /\ z[k].plans = one[k] /\ z[k].role = b.role /\ z[k].wave = b.wave
                               /\ way = "prebatched" => z[k].steps = 0
      BY <2>1, <3>2 DEF Made
    <3>5. Parts(z, b)
      BY <2>1, <3>2, <3>3, <3>4, PacksPart
    <3>6. QED BY <3>1, <3>2, <3>5 DEF b
  <2>4. CASE OverStepped(b) /\ Len(packs) # 1
    <3> DEFINE z == [k \in DOMAIN packs |->
                       [b EXCEPT !.plans = packs[k], !.steps = Total(packs[k], "steps")]]
    <3>1. StepChunks(b) = z
      BY <2>4 DEF StepChunks, packs
    <3>2. DOMAIN packs = 1..Len(packs) /\ Len(packs) \in Nat
      BY <2>2
    <3>3. ASSUME NEW k \in 1..Len(packs)
          PROVE  /\ z[k] \in BatchSet /\ z[k].plans = packs[k]
                 /\ z[k].role = b.role /\ z[k].wave = b.wave
      <4> DEFINE c == packs[k]
                 n == Total(c, "steps")
      <4>1. c \in Seq(PlanSet)
        BY <2>2
      <4>2. n \in Nat
        <5> HIDE DEF c
        <5>1. QED BY <4>1, PlanCosts, TotalNat
      <4> DEFINE e == z[k]
      <4>3. Recounted(e, b, c, n)
        BY <3>2 DEF Recounted
      <4> HIDE DEF c, n, e
      <4>4. e \in BatchSet /\ e.plans = c /\ e.role = b.role /\ e.wave = b.wave
        <5>1. b \in BatchSet
          BY <2>1
        <5>2. QED BY <5>1, <4>1, <4>2, <4>3, BatchSteps
      <4>5. QED BY <4>4 DEF c, e
    <3>4. z \in Seq(BatchSet) /\ Len(z) = Len(packs)
      <4>1. z \in [1..Len(packs) -> BatchSet]
        BY <3>2, <3>3
      <4> HIDE DEF z
      <4>2. QED BY <3>2, <4>1, FunctionSeq
    <3>5. way # "prebatched"
      <4>1. way = "prebatched" => b.steps = 0
        BY <2>1 DEF Made
      <4>2. ~(0 > StepCap)
        BY BatchAssumption
      <4>3. QED BY <2>4, <4>1, <4>2 DEF OverStepped
    <3> HIDE DEF z
    <3>6. \A k \in 1..Len(z) : /\ z[k].plans = packs[k] /\ z[k].role = b.role
                               /\ z[k].wave = b.wave /\ (way = "prebatched" => z[k].steps = 0)
      BY <3>3, <3>4, <3>5
    <3>7. Parts(z, b) /\ \A k \in 1..Len(z) : Made(z[k], way)
      BY <2>1, <2>2, <3>4, <3>6, PacksPart DEF X1
    <3>8. \A k \in 1..Len(z) : z[k] \in B
      <4>1. ASSUME NEW k \in 1..Len(z) PROVE Len(z[k].plans) <= m
        <5>1. Len(packs[k]) \in 1..Len(ps) /\ Len(ps) \in Nat /\ Len(ps) <= m
          BY <2>1, <2>2, <3>4
        <5> DEFINE u == Len(packs[k])
                   v == Len(ps)
        <5>2. u \in 1..v /\ v \in Nat /\ v <= m
          BY <5>1
        <5> HIDE DEF u, v
        <5>3. u <= m
          BY <5>2
        <5>4. QED BY <3>6, <5>3 DEF u
      <4>2. QED BY <3>3, <3>4, <3>7, <4>1 DEF Fit
    <3>9. z \in Seq(B)
      BY <3>4, <3>8
    <3>10. QED BY <3>1, <3>7, <3>9 DEF b
  <2>5. QED BY <2>3, <2>4
<1>4. zz \in Seq(Seq(B)) /\ Len(zz) = N /\ \A i \in 1..N : zz[i] = StepChunks(batches[i])
  <2> DEFINE S == Seq(B)
  <2>1. zz \in [1..N -> S] /\ \A i \in 1..N : zz[i] = StepChunks(batches[i])
    BY <1>3
  <2> HIDE DEF S, zz, N
  <2>2. zz \in Seq(S) /\ Len(zz) = N
    BY <1>1, <2>1, FunctionSeq
  <2>3. QED BY <2>1, <2>2 DEF S
<1> HIDE DEF zz, B
<1>5. QED BY <1>1, <1>2, <1>3, <1>4, PartsHold DEF B

-----------------------------------------------------------------------------
(* The tightening *)

\* The greater of the two limits on the plans of a batch.
LEMMA MostPlansIs ==
  MostPlans \in Nat /\ MaxPlans <= MostPlans /\ MaxMerged <= MostPlans /\ MaxPlans \in Nat
BY BatchAssumption DEF MostPlans, Max

Merged(c, a, b) ==
  c = [a EXCEPT !.plans = a.plans \o b.plans, !.tokens = a.tokens + b.tokens]

\* c has the plans of a and of b, and the role and wave of a.
Both(c, a, b) == c.plans = a.plans \o b.plans /\ c.role = a.role /\ c.wave = a.wave

\* What a merged batch has of its two batches.
LEMMA MergedFields ==
  ASSUME NEW a \in BatchSet, NEW b \in BatchSet, NEW c, Merged(c, a, b)
  PROVE  /\ c \in BatchSet /\ c.plans = a.plans \o b.plans
         /\ c.role = a.role /\ c.wave = a.wave /\ c.steps = a.steps
<1>1. a.plans \o b.plans \in Seq(PlanSet) /\ a.tokens + b.tokens \in Nat
  <2>1. a.plans \in Seq(PlanSet) /\ b.plans \in Seq(PlanSet) /\ a.tokens \in Nat /\ b.tokens \in Nat
    BY DEF BatchSet
  <2>2. QED BY <2>1, ConcatProperties
<1>2. QED BY <1>1 DEF Merged, BatchSet

\* A merged batch is one of its way, and not too large.
LEMMA MergedFits ==
  ASSUME NEW way, NEW a \in Fit(way, MostPlans), NEW b \in Fit(way, MostPlans),
         Mergeable(a, b), NEW c, Merged(c, a, b)
  PROVE  c \in Fit(way, MostPlans) /\ Both(c, a, b)
<1>1. a \in BatchSet /\ b \in BatchSet /\ Made(a, way) /\ Made(b, way)
  BY DEF Fit
<1>2. /\ c \in BatchSet /\ c.plans = a.plans \o b.plans
      /\ c.role = a.role /\ c.wave = a.wave /\ c.steps = a.steps
  BY <1>1, MergedFields
<1>3. /\ a.role = b.role /\ a.wave = b.wave
      /\ Len(a.plans) + Len(b.plans) <= MaxMerged
  BY DEF Mergeable
<1> DEFINE s == a.plans
           r == b.plans
           L == Len(s)
           M == Len(r)
<1>4. s \in Seq(PlanSet) /\ r \in Seq(PlanSet)
  BY <1>1 DEF BatchSet
<1>5. L \in Nat /\ M \in Nat
  <2> HIDE DEF s, r
  <2>1. QED BY <1>4
<1>6. /\ Len(s \o r) = L + M
      /\ \A i \in 1..(L + M) : (s \o r)[i] = IF i <= L THEN s[i] ELSE r[i - L]
  <2> HIDE DEF s, r
  <2>1. QED BY <1>4, ConcatProperties
<1>7. Len(c.plans) <= MostPlans
  <2>1. L + M <= MaxMerged
    BY <1>3
  <2>2. MaxMerged \in Nat
    BY BatchAssumption
  <2> HIDE DEF L, M
  <2>3. L + M <= MostPlans
    BY <1>5, <2>1, <2>2, MostPlansIs
  <2>4. QED BY <1>2, <1>6, <2>3
<1>8. ASSUME NEW i \in 1..(L + M)
      PROVE  \/ \E j \in 1..L : c.plans[i] = a.plans[j]
             \/ \E j \in 1..M : c.plans[i] = b.plans[j]
  <2>1. c.plans[i] = IF i <= L THEN s[i] ELSE r[i - L]
    BY <1>2, <1>6
  <2>2. i <= L \/ (~(i <= L) /\ i - L \in 1..M)
    <3> HIDE DEF L, M
    <3>1. QED BY <1>5
  <2>3. CASE i <= L
    <3>1. i \in 1..L
      <4> HIDE DEF L, M
      <4>1. QED BY <1>5, <2>3
    <3>2. QED BY <2>1, <2>3, <3>1
  <2>4. CASE ~(i <= L) /\ i - L \in 1..M
    <3> HIDE DEF L, M
    <3>1. c.plans[i] = r[i - L]
      BY <2>1, <2>4
    <3>2. QED BY <2>4, <3>1
  <2>5. QED BY <2>2, <2>3, <2>4
<1>9. Made(c, way)
  <2>1. Len(c.plans) = L + M
    BY <1>2, <1>6
  <2>2. /\ way = "prebatched" => c.steps = 0
        /\ way # "prebatched" => \A j \in 1..L : a.plans[j].wave = a.wave
        /\ way # "prebatched" => \A j \in 1..M : b.plans[j].wave = b.wave
        /\ way = "tokenFirst" => \A j \in 1..L : a.plans[j].role = a.role
        /\ way = "tokenFirst" => \A j \in 1..M : b.plans[j].role = b.role
    BY <1>1, <1>2 DEF Made
  <2> HIDE DEF L, M
  <2>3. way # "prebatched" => \A i \in 1..Len(c.plans) : c.plans[i].wave = c.wave
    <3>1. SUFFICES ASSUME way # "prebatched", NEW i \in 1..(L + M) PROVE c.plans[i].wave = c.wave
      BY <2>1
    <3>2. \A j \in 1..L : a.plans[j].wave = c.wave
      BY <1>2, <2>2, <3>1
    <3>3. \A j \in 1..M : b.plans[j].wave = c.wave
      BY <1>2, <1>3, <2>2, <3>1
    <3>4. QED BY <1>8, <3>2, <3>3
  <2>4. way = "tokenFirst" => \A i \in 1..Len(c.plans) : c.plans[i].role = c.role
    <3>1. SUFFICES ASSUME way = "tokenFirst", NEW i \in 1..(L + M) PROVE c.plans[i].role = c.role
      BY <2>1
    <3>2. \A j \in 1..L : a.plans[j].role = c.role
      BY <1>2, <2>2, <3>1
    <3>3. \A j \in 1..M : b.plans[j].role = c.role
      BY <1>2, <1>3, <2>2, <3>1
    <3>4. QED BY <1>8, <3>2, <3>3
  <2>5. QED BY <2>2, <2>3, <2>4 DEF Made
<1>10. QED BY <1>2, <1>7, <1>9 DEF Fit, Both

\* The batches in new have the roles and waves of those in out, or of b.
Keeps(new, out, b) ==
  /\ Len(new) = Len(out) \/ Len(new) = Len(out) + 1
  /\ \A i \in 1..Len(out) : new[i].role = out[i].role /\ new[i].wave = out[i].wave
  /\ Len(new) = Len(out) + 1 =>
       new[Len(out) + 1].role = b.role /\ new[Len(out) + 1].wave = b.wave

TightBatchesStep(n, out) ==
  IF out # << >> /\ Mergeable(Last(out), batches[n])
    THEN [out EXCEPT ![Len(out)].plans = @ \o batches[n].plans,
                     ![Len(out)].tokens = @ + batches[n].tokens]
    ELSE Append(out, batches[n])

\* A step of the tightening merges a batch into the last one or keeps it.
LEMMA TightTyped ==
  ASSUME NEW way, batches \in Seq(Fit(way, MostPlans)), NEW n \in 1..Len(batches),
         NEW out \in Seq(Fit(way, MostPlans))
  PROVE  /\ TightBatchesStep(n, out) \in Seq(Fit(way, MostPlans))
         /\ Joins(PlansOf(TightBatchesStep(n, out)), PlansOf(out), batches[n].plans)
         /\ Keeps(TightBatchesStep(n, out), out, batches[n])
<1> DEFINE B == Fit(way, MostPlans)
           b == batches[n]
           new == TightBatchesStep(n, out)
           L == Len(out)
<1>1. /\ b \in B /\ B \in SUBSET BatchSet /\ L \in Nat /\ out \in Seq(BatchSet)
      /\ \A i \in 1..L : out[i] \in B
  BY DEF Fit
<1>2. /\ PlansOf(out) \in Seq(Seq(PlanSet)) /\ Len(PlansOf(out)) = L
      /\ \A i \in 1..L : PlansOf(out)[i] = out[i].plans
  BY <1>1, PlansOfHeld
<1>3. b.plans \in Seq(PlanSet)
  BY <1>1 DEF BatchSet
<1>4. CASE out # << >> /\ Mergeable(Last(out), b)
  <2> DEFINE a == out[L]
             c == [a EXCEPT !.plans = a.plans \o b.plans, !.tokens = a.tokens + b.tokens]
  <2>1. L \in 1..L /\ a \in B /\ Mergeable(a, b) /\ Merged(c, a, b)
    BY <1>1, <1>4 DEF Last, Merged
  <2>2. new = [out EXCEPT ![L] = c]
    BY <1>1, <1>4, <2>1 DEF TightBatchesStep
  <2> HIDE DEF c, a, new
  <2>3. /\ c \in B /\ c.plans = a.plans \o b.plans
        /\ c.role = a.role /\ c.wave = a.wave
    <3>1. a \in Fit(way, MostPlans) /\ b \in Fit(way, MostPlans)
      BY <1>1, <2>1
    <3> HIDE DEF b
    <3>2. /\ c \in Fit(way, MostPlans) /\ c.plans = a.plans \o b.plans
          /\ c.role = a.role /\ c.wave = a.wave
      <4>1. Mergeable(a, b) /\ Merged(c, a, b)
        BY <2>1
      <4>2. c \in Fit(way, MostPlans) /\ Both(c, a, b)
        BY <3>1, <4>1, MergedFits
      <4>3. QED BY <4>2 DEF Both
    <3>3. QED BY <3>2
  <2>4. /\ new \in Seq(B) /\ Len(new) = L
        /\ \A i \in 1..L : new[i] = IF i = L THEN c ELSE out[i]
    <3> HIDE DEF B, L
    <3>1. out \in Seq(B) /\ L = Len(out)
      BY DEF B, L
    <3>2. QED BY <2>1, <2>2, <2>3, <3>1, ExceptSeq
  <2>5. Keeps(new, out, b)
    <3> HIDE DEF B, b
    <3>1. \A i \in 1..L : new[i].role = out[i].role /\ new[i].wave = out[i].wave
      BY <2>3, <2>4 DEF a
    <3>2. QED BY <1>1, <2>4, <3>1 DEF Keeps
  <2>6. Joins(PlansOf(new), PlansOf(out), b.plans)
    <3> DEFINE ss == PlansOf(out)
               tt == PlansOf(new)
               e == ss[L] \o b.plans
    <3>1. new \in Seq(BatchSet)
      BY <1>1, <2>4
    <3>2. /\ tt \in Seq(Seq(PlanSet)) /\ Len(tt) = L
          /\ \A i \in 1..L : tt[i] = new[i].plans
      BY <2>4, <3>1, PlansOfHeld
    <3>3. ss[L] \in Seq(PlanSet) /\ e \in Seq(PlanSet) /\ e = c.plans
      <4>1. ss[L] \in Seq(PlanSet) /\ ss[L] = a.plans
        BY <1>2, <2>1 DEF a
      <4> HIDE DEF ss, b
      <4>2. ss[L] \o b.plans \in Seq(PlanSet)
        BY <1>3, <4>1, ConcatProperties
      <4>3. QED BY <2>3, <4>1, <4>2
    <3> HIDE DEF e, ss, tt, b
    <3> DEFINE uu == [ss EXCEPT ![L] = e]
    <3>4. /\ uu \in Seq(Seq(PlanSet)) /\ Len(uu) = L
          /\ \A i \in 1..L : uu[i] = IF i = L THEN e ELSE ss[i]
      <4> DEFINE S == Seq(PlanSet)
      <4>1. ss \in Seq(S) /\ L \in 1..Len(ss) /\ Len(ss) = L /\ e \in S
        BY <1>2, <2>1, <3>3 DEF ss
      <4> HIDE DEF S, L
      <4>2. QED BY <4>1, ExceptSeq DEF S
    <3>5. \A i \in 1..L : tt[i] = uu[i]
      <4>1. \A i \in 1..L : tt[i] = IF i = L THEN e ELSE ss[i]
        BY <1>2, <2>4, <3>2, <3>3 DEF ss
      <4> HIDE DEF uu
      <4>2. QED BY <3>4, <4>1
    <3>6. tt = uu
      <4> DEFINE S == Seq(PlanSet)
      <4>1. tt \in Seq(S) /\ uu \in Seq(S) /\ Len(tt) = Len(uu) /\ \A i \in 1..Len(tt) : tt[i] = uu[i]
        BY <3>2, <3>4, <3>5
      <4> HIDE DEF S, uu
      <4>2. QED BY <4>1, SeqEqual
    <3>7. tt = [ss EXCEPT ![L] = @ \o b.plans] /\ L \in 1..Len(ss)
      BY <1>2, <2>1, <3>6 DEF e, ss
    <3>8. Joins(tt, ss, b.plans)
      BY <3>7 DEF Joins
    <3>9. QED BY <3>8 DEF tt, ss
  <2>7. QED BY <2>4, <2>5, <2>6 DEF new
<1>5. CASE ~(out # << >> /\ Mergeable(Last(out), b))
  <2>1. new = Append(out, b)
    BY <1>5 DEF TightBatchesStep
  <2> HIDE DEF new, b, B
  <2>2. /\ new \in Seq(B) /\ Len(new) = L + 1
        /\ \A i \in 1..L : new[i] = out[i]
        /\ new[L + 1] = b
    BY <1>1, <2>1, AppendProperties DEF B
  <2>3. Keeps(new, out, b)
    BY <2>2 DEF Keeps
  <2>4. Joins(PlansOf(new), PlansOf(out), b.plans)
    <3> DEFINE ss == PlansOf(out)
               tt == PlansOf(new)
               S == Seq(PlanSet)
               c == b.plans
               uu == Append(ss, c)
    <3>1. new \in Seq(BatchSet)
      BY <1>1, <2>2
    <3>2. tt \in Seq(S) /\ Len(tt) = L + 1 /\ \A i \in 1..(L + 1) : tt[i] = new[i].plans
      BY <2>2, <3>1, PlansOfHeld
    <3>3. ss \in Seq(S) /\ Len(ss) = L /\ c \in S /\ \A i \in 1..L : ss[i] = out[i].plans
      BY <1>2, <1>3
    <3> HIDE DEF ss, tt, S, L
    <3>4. /\ uu \in Seq(S) /\ Len(uu) = L + 1 /\ uu[L + 1] = c
          /\ \A i \in 1..L : uu[i] = ss[i]
      BY <3>3, AppendProperties
    <3>5. \A i \in 1..(L + 1) : i \in 1..L \/ i = L + 1
      BY <1>1
    <3>6. \A i \in 1..(L + 1) : tt[i] = uu[i]
      <4>1. L + 1 \in 1..(L + 1) /\ \A i \in 1..L : i \in 1..(L + 1)
        BY <1>1
      <4> HIDE DEF uu
      <4>2. ASSUME NEW i \in 1..L PROVE tt[i] = uu[i]
        <5>1. tt[i] = new[i].plans
          BY <3>2, <4>1
        <5>2. new[i] = out[i] /\ ss[i] = out[i].plans /\ uu[i] = ss[i]
          BY <2>2, <3>3, <3>4
        <5>3. QED BY <5>1, <5>2
      <4>3. tt[L + 1] = uu[L + 1]
        BY <2>2, <3>2, <3>4, <4>1
      <4>4. QED BY <3>5, <4>2, <4>3
    <3> HIDE DEF uu
    <3>7. tt = uu
      BY <3>2, <3>4, <3>6, SeqEqual
    <3>8. Joins(tt, ss, c)
      BY <3>7 DEF Joins, uu
    <3>9. QED BY <3>8 DEF tt, ss
  <2>5. QED BY <2>2, <2>3, <2>4 DEF new, b, B
<1>6. QED BY <1>4, <1>5

\* TightBatches takes one batch after the other.
TightSteps(t) ==
  /\ t[0] = << >> /\ TightBatches = t[Len(batches)]
  /\ \A n \in 1..Len(batches) : t[n] = TightBatchesStep(n, t[n - 1])

\* The tightening, batch by batch.
LEMMA TightBatchesUnrolled ==
  ASSUME NEW way, batches \in Seq(Fit(way, MostPlans))
  PROVE  \E t \in [0..Len(batches) -> Seq(Fit(way, MostPlans))] : TightSteps(t)
<1> DEFINE S == Seq(Fit(way, MostPlans))
           N == Len(batches)
           step(n, out) == TightBatchesStep(n, out)
           F == [x \in (1..N) \X S |-> step(x[1], x[2])]
           Body(f) == [u \in SUBSET (DOMAIN batches) |->
                         IF u = {} THEN << >> ELSE step(Max(u), f[u \ {Max(u)}])]
           h == CHOOSE f : f = Body(f)
<1>1. TightBatches = h[DOMAIN batches]
  BY DEF TightBatches, FoldLeft, MapThenFoldSet, TightBatchesStep
<1>2. N \in Nat /\ DOMAIN batches = 1..N /\ << >> \in S
  OBVIOUS
<1>3. F \in [(1..N) \X S -> S] /\ \A n \in 1..N, out \in S : F[<<n, out>>] = step(n, out)
  <2>1. \A n \in 1..N, out \in S : step(n, out) \in S
    BY TightTyped
  <2> HIDE DEF step, S
  <2>2. QED BY <2>1
<1>4. \A u \in (SUBSET (1..N)) \ {{}} : Max(u) \in 1..N
  BY <1>2, MaxAmong
<1>5. h = Body(h)
  <2>1. PICK g \in [SUBSET (1..N) -> S] : FoldsAll(g, N, << >>, F)
    <3> HIDE DEF F, N, S
    <3>1. QED BY <1>2, <1>3, FoldDefined
  <2>2. \A u \in (SUBSET (1..N)) \ {{}} : g[u] = step(Max(u), g[u \ {Max(u)}])
    <3> HIDE DEF F, step, S, N
    <3>1. QED BY <1>3, <1>4, <2>1 DEF FoldsAll
  <2>3. g = Body(g)
    <3> HIDE DEF F, step, S
    <3>1. QED BY <1>2, <2>1, <2>2 DEF FoldsAll
  <2> HIDE DEF Body
  <2>4. QED BY <2>3
<1>6. FoldsUp(h, N, S, << >>, F)
  <2>1. h[{}] = << >>
    BY <1>2, <1>5
  <2>2. ASSUME NEW u \in (SUBSET (1..N)) \ {{}}, h[u \ {Max(u)}] \in S
        PROVE  h[u] = F[<<Max(u), h[u \ {Max(u)}]>>]
    <3> HIDE DEF F, step, h, S
    <3>1. h[u] = step(Max(u), h[u \ {Max(u)}])
      BY <1>2, <1>5
    <3>2. QED BY <1>3, <1>4, <2>2, <3>1
  <2> HIDE DEF F, h
  <2>3. QED BY <2>1, <2>2 DEF FoldsUp
<1>7. PICK t \in [0..N -> S] : Unrolls(t, h, N, << >>, F)
  <2> HIDE DEF F, N, S, h
  <2>1. N \in Nat /\ << >> \in S
    BY <1>2
  <2>2. QED BY <1>3, <1>6, <2>1, FoldUnrolled
<1>8. \A n \in 1..N : t[n] = step(n, t[n - 1])
  <2>1. SUFFICES ASSUME NEW n \in 1..N PROVE t[n] = step(n, t[n - 1])
    OBVIOUS
  <2>2. t[n - 1] \in S
    <3>1. n - 1 \in 0..N
      BY <1>2
    <3> HIDE DEF S, F, h, N
    <3>2. QED BY <1>7, <3>1
  <2> HIDE DEF F, step, S, N
  <2>3. QED BY <1>3, <1>7, <2>2 DEF Unrolls
<1>9. QED BY <1>1, <1>2, <1>7, <1>8 DEF Unrolls, TightSteps

\* Merging neighbours leaves every plan in one batch, and the batches in turn.
LEMMA TightHolds ==
  ASSUME NEW way, NEW X, batches \in Seq(Fit(way, MostPlans)), Hold(batches, X),
         Ordered(batches, Turns(way))
  PROVE  /\ TightBatches \in Seq(Fit(way, MostPlans)) /\ Hold(TightBatches, X)
         /\ Ordered(TightBatches, Turns(way))
<1> DEFINE B == Fit(way, MostPlans)
           N == Len(batches)
<1>1. /\ N \in Nat /\ B \in SUBSET BatchSet /\ batches \in Seq(BatchSet)
      /\ \A n \in 1..N : batches[n] \in BatchSet
  BY DEF Fit
<1>2. PICK t \in [0..N -> Seq(B)] : TightSteps(t)
  BY TightBatchesUnrolled
<1>3. \A n \in 0..N : t[n] \in Seq(B) /\ t[n] \in Seq(BatchSet) /\ Len(t[n]) \in Nat
  <2>1. ASSUME NEW n \in 0..N PROVE t[n] \in Seq(B)
    OBVIOUS
  <2> HIDE DEF B
  <2>2. QED BY <1>1, <2>1
<1>4. ASSUME NEW n \in 1..N
      PROVE  /\ n - 1 \in 0..N /\ t[n] = TightBatchesStep(n, t[n - 1])
             /\ Joins(PlansOf(t[n]), PlansOf(t[n - 1]), batches[n].plans)
             /\ Keeps(t[n], t[n - 1], batches[n])
  <2>1. n - 1 \in 0..N
    BY <1>1
  <2>2. t[n - 1] \in Seq(B) /\ t[n] = TightBatchesStep(n, t[n - 1])
    BY <1>2, <1>3, <2>1 DEF TightSteps
  <2>3. QED BY <2>1, <2>2, TightTyped
<1> DEFINE ss == PlansOf(batches)
           tt == [n \in 0..N |-> PlansOf(t[n])]
<1>5. /\ ss \in Seq(Seq(PlanSet)) /\ Len(ss) = N /\ Deals(ss, X) /\ Full(ss)
      /\ \A n \in 1..N : ss[n] = batches[n].plans
  BY <1>1, PlansOfHeld DEF Hold
<1>6. JoinsUp(tt, ss)
  <2>1. tt[0] = << >>
    <3>1. t[0] = << >> /\ 0 \in 0..N
      BY <1>1, <1>2 DEF TightSteps
    <3>2. PlansOf(<< >>) = << >>
      BY DEF PlansOf
    <3>3. QED BY <3>1, <3>2
  <2>2. ASSUME NEW n \in 1..N PROVE Joins(tt[n], tt[n - 1], ss[n])
    <3>1. n \in 0..N /\ n - 1 \in 0..N
      BY <1>1
    <3>2. tt[n] = PlansOf(t[n]) /\ tt[n - 1] = PlansOf(t[n - 1])
      BY <3>1
    <3> HIDE DEF tt, ss, N
    <3>3. QED BY <1>4, <1>5, <3>2
  <2> HIDE DEF tt, ss
  <2>3. QED BY <1>5, <2>1, <2>2 DEF JoinsUp
<1>7. Hold(t[N], X)
  <2> HIDE DEF tt, ss, N
  <2>1. Deals(tt[N], X) /\ Full(tt[N])
    BY <1>5, <1>6, JoinsDeal
  <2>2. tt[N] = PlansOf(t[N])
    BY <1>1 DEF tt
  <2>3. QED BY <2>1, <2>2 DEF Hold
\* Each batch has the role and wave of one of the batches so far.
<1> DEFINE From(out, n) == \A i \in 1..Len(out) : \E m \in 1..n :
                              out[i].role = batches[m].role /\ out[i].wave = batches[m].wave
           T == {n \in 0..N : Ordered(t[n], Turns(way)) /\ From(t[n], n)}
<1>8. 0 \in T
  <2>1. t[0] = << >> /\ Len(t[0]) = 0 /\ 0 \in 0..N
    BY <1>1, <1>2 DEF TightSteps
  <2>2. QED BY <2>1 DEF Ordered
<1>9. ASSUME NEW k \in 0..(N - 1), k \in T PROVE k + 1 \in T
  <2> DEFINE out == t[k]
             new == t[k + 1]
             b == batches[k + 1]
             L == Len(out)
  <2>1. k \in Nat /\ k \in 0..N /\ k + 1 \in 0..N /\ k + 1 \in 1..N /\ (k + 1) - 1 = k
    BY <1>1
  <2>2. /\ out \in Seq(BatchSet) /\ new \in Seq(BatchSet) /\ L \in Nat /\ Keeps(new, out, b)
        /\ b \in BatchSet
    BY <1>1, <1>3, <1>4, <2>1
  <2>3. Ordered(out, Turns(way)) /\ From(out, k)
    BY <1>9
  <2>4. \A m \in 1..k : m \in 1..N /\ m < k + 1
    BY <1>1, <2>1
  <2>5. ASSUME NEW i \in 1..L
        PROVE  \E m \in 1..k : /\ out[i].role = batches[m].role /\ out[i].wave = batches[m].wave
                               /\ <<batches[m], b>> \in Turns(way)
    <3>1. PICK m \in 1..k : out[i].role = batches[m].role /\ out[i].wave = batches[m].wave
      BY <2>3
    <3>2. m \in 1..Len(batches) /\ k + 1 \in 1..Len(batches) /\ m < k + 1
      BY <2>1, <2>4
    <3>3. <<batches[m], batches[k + 1]>> \in Turns(way)
      <4> HIDE DEF N
      <4>1. QED BY <3>2 DEF Ordered
    <3>4. QED BY <3>1, <3>3
  <2> HIDE DEF out, new, b, L
  <2>6. /\ Len(new) = L \/ Len(new) = L + 1
        /\ \A i \in 1..L : new[i].role = out[i].role /\ new[i].wave = out[i].wave
        /\ Len(new) = L + 1 => new[L + 1].role = b.role /\ new[L + 1].wave = b.wave
    BY <2>2 DEF Keeps, L
  <2>7. ASSUME NEW i \in 1..Len(new)
        PROVE  i \in 1..L \/ (i = L + 1 /\ new[i].role = b.role /\ new[i].wave = b.wave)
    BY <2>2, <2>6
  <2>8. ASSUME NEW i \in 1..Len(new), NEW j \in 1..Len(new), i < j
        PROVE  <<new[i], new[j]>> \in Turns(way)
    <3> DEFINE c == new[i]
               d == new[j]
    <3>1. c \in BatchSet /\ d \in BatchSet /\ i \in 1..L
      BY <2>2, <2>7, <2>8
    <3> DEFINE a == out[i]
    <3>2. a \in BatchSet /\ c.role = a.role /\ c.wave = a.wave
      BY <2>2, <2>6, <3>1 DEF L
    <3>3. CASE j \in 1..L
      <4> DEFINE e == out[j]
      <4>1. e \in BatchSet /\ d.role = e.role /\ d.wave = e.wave
        BY <2>2, <2>6, <3>3 DEF L
      <4>2. <<a, e>> \in Turns(way)
        BY <2>3, <2>8, <3>1, <3>3 DEF Ordered, L
      <4> HIDE DEF a, c, d, e
      <4>3. <<c, d>> \in Turns(way)
        BY <3>1, <3>2, <4>1, <4>2, InTurn
      <4>4. QED BY <4>3 DEF c, d
    <3>4. CASE j \notin 1..L
      <4>1. d.role = b.role /\ d.wave = b.wave
        BY <2>7, <3>4
      <4>2. PICK m \in 1..k : /\ out[i].role = batches[m].role /\ out[i].wave = batches[m].wave
                              /\ <<batches[m], b>> \in Turns(way)
        BY <2>5, <3>1
      <4> DEFINE e == batches[m]
      <4>3. e \in BatchSet /\ c.role = e.role /\ c.wave = e.wave /\ <<e, b>> \in Turns(way)
        BY <1>1, <2>4, <3>2, <4>2
      <4> HIDE DEF a, c, d, e
      <4>4. <<c, d>> \in Turns(way)
        BY <2>2, <3>1, <4>1, <4>3, InTurn
      <4>5. QED BY <4>4 DEF c, d
    <3>5. QED BY <3>3, <3>4
  <2>9. From(new, k + 1)
    <3>1. ASSUME NEW i \in 1..Len(new)
          PROVE  \E m \in 1..(k + 1) : new[i].role = batches[m].role /\ new[i].wave = batches[m].wave
      <4>1. CASE i \in 1..L
        <5>1. PICK m \in 1..k : out[i].role = batches[m].role /\ out[i].wave = batches[m].wave
          BY <2>5, <4>1
        <5>2. m \in 1..(k + 1)
          BY <2>1
        <5>3. QED BY <2>6, <4>1, <5>1, <5>2
      <4>2. CASE i \notin 1..L
        <5>1. k + 1 \in 1..(k + 1)
          BY <2>1
        <5>2. QED BY <2>7, <4>2, <5>1 DEF b
      <4>3. QED BY <4>1, <4>2
    <3>2. QED BY <3>1
  <2>10. Ordered(new, Turns(way))
    BY <2>8 DEF Ordered
  <2> HIDE DEF From
  <2>11. QED BY <2>1, <2>9, <2>10 DEF new
<1>10. Ordered(t[N], Turns(way))
  <2>1. N \in T
    <3> HIDE DEF T, N
    <3>1. \A k \in 0..N : k \in T
      BY <1>1, <1>8, <1>9, UpTo
    <3>2. QED BY <1>1, <3>1
  <2>2. QED BY <2>1
<1>11. t[N] = TightBatches /\ t[N] \in Seq(B)
  <2>1. N \in 0..N
    BY <1>1
  <2>2. QED BY <1>2, <1>3, <2>1 DEF TightSteps
<1>12. QED BY <1>7, <1>10, <1>11

-----------------------------------------------------------------------------
(* The three ways of batching *)

\* The same batches in another order hold the same plans.
LEMMA SameHold ==
  ASSUME NEW bs \in Seq(BatchSet), NEW cs \in Seq(BatchSet), NEW Z, Lists(bs, Z), Lists(cs, Z),
         NEW X, Hold(bs, X)
  PROVE  Hold(cs, X)
<1> DEFINE u == PlansOf(bs)
           v == PlansOf(cs)
<1>1. /\ Len(u) = Len(bs) /\ \A i \in 1..Len(bs) : u[i] = bs[i].plans
      /\ Len(v) = Len(cs) /\ \A i \in 1..Len(cs) : v[i] = cs[i].plans
  BY PlansOfHeld
<1>2. Deals(u, X) /\ Full(u)
  BY DEF Hold
<1>3. ASSUME NEW i \in 1..Len(cs) PROVE \E k \in 1..Len(bs) : bs[k] = cs[i]
  BY DEF Lists
<1>4. ASSUME NEW k \in 1..Len(bs) PROVE \E i \in 1..Len(cs) : bs[k] = cs[i]
  BY DEF Lists
<1> HIDE DEF u, v
<1>5. ASSUME NEW i \in 1..Len(v) PROVE v[i] # << >> /\ \A j \in 1..Len(v[i]) : v[i][j] \in X
  <2>1. PICK k \in 1..Len(u) : u[k] = v[i]
    BY <1>1, <1>3
  <2>2. QED BY <1>2, <2>1 DEF Deals, Full
<1>6. ASSUME NEW x \in X PROVE \E i \in 1..Len(v) : \E j \in 1..Len(v[i]) : v[i][j] = x
  <2>1. PICK k \in 1..Len(u) : \E j \in 1..Len(u[k]) : u[k][j] = x
    BY <1>2 DEF Deals
  <2>2. PICK i \in 1..Len(v) : u[k] = v[i]
    BY <1>1, <1>4
  <2>3. QED BY <2>1, <2>2
<1>7. ASSUME NEW i \in 1..Len(v), NEW k \in 1..Len(v),
             NEW j \in 1..Len(v[i]), NEW l \in 1..Len(v[k]), v[i][j] = v[k][l]
      PROVE  i = k /\ j = l
  <2>1. PICK a \in 1..Len(u) : u[a] = v[i] /\ bs[a] = cs[i]
    BY <1>1, <1>3
  <2>2. PICK b \in 1..Len(u) : u[b] = v[k] /\ bs[b] = cs[k]
    BY <1>1, <1>3
  <2>3. a = b /\ j = l
    <3>1. j \in 1..Len(u[a]) /\ l \in 1..Len(u[b]) /\ u[a][j] = u[b][l]
      BY <1>7, <2>1, <2>2
    <3>2. QED BY <1>2, <3>1, DealsOnce
  <2>4. QED BY <1>1, <2>1, <2>2, <2>3 DEF Lists
<1>8. Deals(v, X) /\ Full(v)
  BY <1>5, <1>6, <1>7 DEF Deals, Full
<1>9. QED BY <1>8 DEF Hold, v

\* No batch is there twice.
LEMMA HeldOnce ==
  ASSUME NEW B \in SUBSET BatchSet, NEW bs \in Seq(B), NEW X, Hold(bs, X)
  PROVE  bs \in Seq(BatchSet) /\ Lists(bs, Elements(bs))
<1>1. bs \in Seq(BatchSet)
  OBVIOUS
<1>2. /\ Len(PlansOf(bs)) = Len(bs) /\ PlansOf(bs) \in Seq(Seq(PlanSet))
      /\ \A i \in 1..Len(bs) : PlansOf(bs)[i] = bs[i].plans /\ bs[i].plans \in Seq(PlanSet)
  BY <1>1, PlansOfHeld
<1>3. ASSUME NEW i \in 1..Len(bs), NEW k \in 1..Len(bs), bs[i] = bs[k] PROVE i = k
  <2> DEFINE u == PlansOf(bs)
  <2>1. u[i] # << >> /\ u[i] = u[k] /\ u[i] \in Seq(PlanSet)
    BY <1>2, <1>3 DEF Hold, Full
  <2>2. Deals(u, X)
    BY DEF Hold
  <2>3. i \in 1..Len(u) /\ k \in 1..Len(u)
    BY <1>2
  <2> HIDE DEF u
  <2>4. Len(u[i]) \in Nat /\ Len(u[i]) # 0
    BY <2>1
  <2>5. 1 \in 1..Len(u[i]) /\ 1 \in 1..Len(u[k])
    BY <2>1, <2>4
  <2>6. u[i][1] = u[k][1]
    BY <2>1
  <2>7. QED BY <2>2, <2>3, <2>5, <2>6, DealsOnce
<1>4. QED BY <1>1, <1>3 DEF Lists, Elements

\* Sorted by wave, batches hold what they held.
LEMMA ByWaveHolds ==
  ASSUME NEW B \in SUBSET BatchSet, NEW bs \in Seq(B), NEW X, Hold(bs, X)
  PROVE  ByWave(bs) \in Seq(B) /\ Hold(ByWave(bs), X) /\ Ordered(ByWave(bs), ByWaves)
<1> DEFINE Z == Elements(bs)
           s == ByWave(bs)
<1>1. bs \in Seq(BatchSet) /\ Lists(bs, Z)
  BY HeldOnce
<1>2. \A e \in BatchSet : e.wave \in 1..LastWave
  BY DEF BatchSet
<1>3. \A e \in B : e.wave \in 1..LastWave
  BY <1>2
<1> HIDE DEF Z
<1>4. s \in Seq(B) /\ Lists(s, Z)
  BY <1>1, <1>3, ByWaveProperties
<1>5. s \in Seq(BatchSet) /\ Ordered(s, Sorted(BatchSet))
  BY <1>1, <1>2, ByWaveProperties
<1>6. Hold(s, X)
  <2> HIDE DEF s
  <2>1. QED BY <1>1, <1>4, <1>5, SameHold
<1>7. Sorted(BatchSet) = ByWaves
  BY DEF Sorted, ByWaves
<1>8. QED BY <1>4, <1>5, <1>6, <1>7

\* The greatest value of a function on 1..N.
LEMMA MaxOf ==
  ASSUME NEW N \in Nat \ {0}, NEW f \in [1..N -> Nat]
  PROVE  LET S == {f[i] : i \in 1..N} IN
         /\ Max(S) \in S /\ Max(S) \in Nat /\ \A i \in 1..N : f[i] <= Max(S)
<1> DEFINE T == {k \in 0..N : \E M \in Nat : \A i \in 1..k : f[i] <= M}
<1>1. 0 \in T
  OBVIOUS
<1>2. ASSUME NEW k \in 0..(N - 1), k \in T PROVE k + 1 \in T
  <2>1. PICK M \in Nat : \A i \in 1..k : f[i] <= M
    BY <1>2
  <2>2. f[k + 1] \in Nat /\ k + 1 \in 0..N
    OBVIOUS
  <2>3. \A i \in 1..(k + 1) : f[i] \in Nat /\ (i \in 1..k \/ i = k + 1)
    OBVIOUS
  <2>4. \A i \in 1..(k + 1) : f[i] <= M + f[k + 1]
    BY <2>1, <2>2, <2>3
  <2>5. M + f[k + 1] \in Nat
    BY <2>2
  <2>6. QED BY <2>2, <2>4, <2>5
<1>3. N \in T
  <2> HIDE DEF T
  <2>1. \A k \in 0..N : k \in T
    BY <1>1, <1>2, UpTo
  <2>2. QED BY <2>1
<1>4. PICK M \in Nat : \A i \in 1..N : f[i] <= M
  BY <1>3
<1> DEFINE S == {f[i] : i \in 1..N}
<1>5. S \in SUBSET (0..M) /\ S # {}
  <2>1. \A i \in 1..N : f[i] \in 0..M
    BY <1>4
  <2>2. QED BY <2>1
<1>6. Max(S) \in S /\ \A m \in S : m <= Max(S)
  <2> HIDE DEF S
  <2>1. QED BY <1>5, MaxIn
<1>7. \A i \in 1..N : f[i] \in S
  OBVIOUS
<1>8. \A m \in S : m \in Nat
  BY <1>5
<1> HIDE DEF S
<1>9. Max(S) \in Nat
  BY <1>6, <1>8
<1>10. QED BY <1>6, <1>7, <1>9 DEF S

\* The batches that are as the way of batching makes them.
MadeBy(way) == {b \in BatchSet : Made(b, way)}

\* No batch holds nothing, and one batch what it lists.
LEMMA HoldOne ==
  /\ Hold(<< >>, {})
  /\ \A b \in BatchSet : \A Y : Lists(b.plans, Y) /\ b.plans # << >> => Hold(<<b>>, Y)
<1>1. Hold(<< >>, {})
  <2>1. PlansOf(<< >>) = << >>
    BY DEF PlansOf
  <2>2. Deals(<< >>, {}) /\ Full(<< >>)
    BY DEF Deals, Full
  <2>3. QED BY <2>1, <2>2 DEF Hold
<1>2. ASSUME NEW b \in BatchSet, NEW Y, Lists(b.plans, Y), b.plans # << >> PROVE Hold(<<b>>, Y)
  <2> DEFINE z == <<b>>
             u == PlansOf(z)
  <2>1. z \in Seq(BatchSet) /\ Len(z) = 1 /\ z[1] = b
    BY ListsOne
  <2> HIDE DEF z
  <2>2. Len(u) = 1 /\ u[1] = b.plans
    BY <2>1, PlansOfHeld
  <2> HIDE DEF u
  <2>3. Deals(u, Y)
    BY <1>2, <2>2 DEF Deals, Lists
  <2>4. Full(u)
    BY <1>2, <2>2 DEF Full
  <2>5. QED BY <2>3, <2>4 DEF Hold, u, z
<1>3. QED BY <1>1, <1>2

\* The plans of the cycle, none of them twice.
LEMMA PlansListed ==
  ASSUME PlansFit
  PROVE  /\ plans \in Seq(PlanSet) /\ plans # << >> /\ Len(plans) \in Nat \ {0}
         /\ ToSet(plans) \in SUBSET PlanSet /\ Lists(plans, ToSet(plans)) /\ Named(ToSet(plans))
         /\ ToSet(plans) = {plans[i] : i \in 1..Len(plans)}
<1>1. plans \in Seq(PlanSet) /\ plans # << >>
  BY DEF PlansFit
<1>2. Len(plans) \in Nat \ {0} /\ ToSet(plans) = {plans[i] : i \in 1..Len(plans)}
      /\ \A i \in 1..Len(plans) : plans[i] \in PlanSet
  BY <1>1 DEF ToSet
<1>3. \A i, j \in 1..Len(plans) : Name(plans[i]) = Name(plans[j]) => i = j
  BY DEF PlansFit
<1>4. Lists(plans, ToSet(plans))
  BY <1>2, <1>3 DEF Lists
<1>5. Named(ToSet(plans))
  BY <1>2, <1>3 DEF Named
<1>6. QED BY <1>1, <1>2, <1>4, <1>5

Indexes == {Index(plans[i]) : i \in DOMAIN plans}

OfIndex(i) == Among(plans, {p \in ToSet(plans) : Index(p) = i})

Prebuilts ==
  [i \in 1..Max(Indexes) |->
     IF i \in Indexes
       THEN <<[role |-> Head(OfIndex(i)).role, wave |-> Head(OfIndex(i)).wave,
               plans |-> OfIndex(i), usable |-> 0, tokens |-> 0, steps |-> 0]>>
       ELSE << >>]

\* The batch indexes of the plans are bounded.
LEMMA IndexesUp ==
  ASSUME PlansFit
  PROVE  /\ Max(Indexes) \in Nat
         /\ \A p \in ToSet(plans) : Index(p) \in Indexes /\ Index(p) \in 1..Max(Indexes)
<1>1. /\ Len(plans) \in Nat \ {0} /\ DOMAIN plans = 1..Len(plans)
      /\ ToSet(plans) = {plans[i] : i \in 1..Len(plans)}
      /\ \A i \in 1..Len(plans) : plans[i] \in PlanSet
  BY PlansListed
<1>2. \A p \in PlanSet : Index(p) \in Nat \ {0}
  BY DEF PlanSet, Index
<1> DEFINE f == [i \in 1..Len(plans) |-> Index(plans[i])]
           N == Len(plans)
<1>3. f \in [1..N -> Nat] /\ \A i \in 1..N : f[i] = Index(plans[i]) /\ f[i] # 0
  BY <1>1, <1>2
<1>4. Indexes = {f[i] : i \in 1..N}
  BY <1>1 DEF Indexes
<1> HIDE DEF f
<1>5. Max(Indexes) \in Nat /\ \A i \in 1..N : f[i] <= Max(Indexes) /\ f[i] \in Indexes
  <2>1. N \in Nat \ {0}
    BY <1>1
  <2> HIDE DEF N
  <2>2. QED BY <1>3, <1>4, <2>1, MaxOf
<1>6. \A i \in 1..N : f[i] \in 1..Max(Indexes)
  BY <1>3, <1>5
<1>7. QED BY <1>1, <1>3, <1>5, <1>6

\* Athena's batches hold every plan, wave by wave.
LEMMA PrebatchedHolds ==
  ASSUME PlansFit
  PROVE  /\ PrebatchedBatches \in Seq(MadeBy("prebatched"))
         /\ Hold(PrebatchedBatches, ToSet(plans))
         /\ Ordered(PrebatchedBatches, ByWaves)
<1> DEFINE B == MadeBy("prebatched")
           X == ToSet(plans)
           N == Max(Indexes)
           zz == Prebuilts
<1>1. PrebatchedBatches = ByWave(FlattenSeq(Prebuilts))
  BY DEF PrebatchedBatches, Prebuilts, Indexes, OfIndex
<1>2. /\ N \in Nat /\ X \in SUBSET PlanSet /\ Lists(plans, X) /\ plans \in Seq(PlanSet)
      /\ \A p \in X : Index(p) \in Indexes /\ Index(p) \in 1..N
  BY PlansListed, IndexesUp
<1>3. ASSUME NEW i \in 1..N
      PROVE  zz[i] \in Seq(B) /\ Hold(zz[i], {x \in X : Index(x) = i})
  <2> DEFINE Y == {x \in X : Index(x) = i}
             ps == OfIndex(i)
             b == [role |-> Head(ps).role, wave |-> Head(ps).wave,
                   plans |-> ps, usable |-> 0, tokens |-> 0, steps |-> 0]
  <2>1. ps \in Seq(PlanSet) /\ Lists(ps, Y)
    <3>1. Y = X \cap Y
      OBVIOUS
    <3>2. ps = Among(plans, Y)
      BY DEF OfIndex
    <3> HIDE DEF Y, X, ps
    <3>3. QED BY <1>2, <3>1, <3>2, AmongLists
  <2>2. CASE i \in Indexes
    <3>1. Y # {}
      BY <2>2, PlansListed DEF Indexes, ToSet
    <3> HIDE DEF Y
    <3>2. ps # << >> /\ Head(ps) = ps[1] /\ ps[1] \in PlanSet
      <4> HIDE DEF ps
      <4>1. ps # << >>
        BY <2>1, <3>1 DEF Lists
      <4>2. QED BY <2>1, <4>1
    <3>3. Head(ps).role \in 1..Roles /\ Head(ps).wave \in 1..LastWave
      BY <3>2 DEF PlanSet
    <3>4. b \in BatchSet /\ b.plans = ps /\ b.steps = 0
      <4> HIDE DEF ps
      <4>1. QED BY <2>1, <3>3 DEF BatchSet
    <3>5. zz[i] = <<b>>
      BY <2>2 DEF Prebuilts
    <3> HIDE DEF ps, b
    <3>6. b \in B
      BY <3>4 DEF MadeBy, Made
    <3>7. <<b>> \in Seq(B)
      <4> HIDE DEF B
      <4>1. QED BY <3>6
    <3>8. Hold(<<b>>, Y)
      BY <2>1, <3>2, <3>4, HoldOne
    <3>9. QED BY <3>5, <3>7, <3>8 DEF Y
  <2>3. CASE i \notin Indexes
    <3>1. zz[i] = << >>
      BY <2>3 DEF Prebuilts
    <3>2. Y = {}
      BY <1>2, <2>3
    <3>3. << >> \in Seq(B)
      OBVIOUS
    <3>4. QED BY <3>1, <3>2, <3>3, HoldOne
  <2>4. QED BY <2>2, <2>3
<1>4. zz \in Seq(Seq(B)) /\ Len(zz) = N
  <2>1. zz = [i \in 1..N |-> zz[i]]
    BY DEF Prebuilts
  <2>2. zz \in [1..N -> Seq(B)]
    <3> HIDE DEF B, zz, N
    <3>1. QED BY <1>3, <2>1
  <2> HIDE DEF B, zz, N
  <2>3. QED BY <1>2, <2>2, FunctionSeq
<1> DEFINE key == [x \in X |-> Index(x)]
<1>5. HoldBy(key, zz, X)
  <2>1. \A w \in 1..N : {x \in X : key[x] = w} = {x \in X : Index(x) = w}
    OBVIOUS
  <2>2. \A x \in X : key[x] \in 1..N
    BY <1>2
  <2> HIDE DEF X, zz, N, key
  <2>3. QED BY <1>3, <1>4, <2>1, <2>2 DEF HoldBy
<1>6. B \in SUBSET BatchSet
  BY DEF MadeBy
<1> HIDE DEF B, X, zz, key
<1>7. FlattenSeq(zz) \in Seq(B) /\ Hold(FlattenSeq(zz), X)
  BY <1>4, <1>5, <1>6, FlattenHold
<1> DEFINE f == FlattenSeq(zz)
<1> HIDE DEF f
<1>8. ByWave(f) \in Seq(B) /\ Hold(ByWave(f), X) /\ Ordered(ByWave(f), ByWaves)
  BY <1>6, <1>7, ByWaveHolds DEF f
<1>9. QED BY <1>1, <1>8 DEF B, X, zz, f

\* A list over a set is one over a larger set.
LEMMA SeqWider ==
  ASSUME NEW A, NEW B, A \subseteq B, NEW s \in Seq(A)
  PROVE  s \in Seq(B)
OBVIOUS

\* A single pack deals what it lists.
LEMMA OnePack ==
  ASSUME NEW P, NEW s \in Seq(P), s # << >>, NEW Y, Lists(s, Y)
  PROVE  <<s>> \in Seq(Seq(P)) /\ Deals(<<s>>, Y) /\ Full(<<s>>)
<1> DEFINE u == <<s>>
<1>1. u \in Seq(Seq(P)) /\ Len(u) = 1 /\ u[1] = s
  BY ListsOne
<1> HIDE DEF u
<1>2. Deals(u, Y)
  BY <1>1 DEF Deals, Lists
<1>3. Full(u)
  BY <1>1 DEF Full
<1>4. QED BY <1>1, <1>2, <1>3 DEF u

\* What is too many for a batch with dependencies is cut before the packs are
\* compacted.
CutPacks(full) ==
  [k \in DOMAIN full |-> IF HasDeps(full[k]) THEN Chunked(full[k], DepCap) ELSE <<full[k]>>]

\* The packs of a role in a wave hold its plans.
LEMMA RoleWavePacksDeal ==
  ASSUME NEW ps \in Seq(PlanSet), NEW Y, Lists(ps, Y)
  PROVE  LET packs == RoleWavePacks(ps) IN
         packs \in Seq(Seq(PlanSet)) /\ Deals(packs, Y) /\ Full(packs)
<1> DEFINE full == PackedBy(ps, "tokens", Usable)
           zz == CutPacks(full)
           c == [s \in Seq(PlanSet) |-> s]
           S == Seq(PlanSet)
<1>1. full \in Seq(S) /\ Deals(full, Y) /\ Full(full)
  BY PackedByDeals
<1>2. RoleWavePacks(ps) = Compacted(FlattenSeq(zz))
  BY DEF RoleWavePacks, CutPacks
<1>3. DepCap \in Nat \ {0}
  BY BatchAssumption
<1> HIDE DEF full
<1>4. PICK key : Keyed(key, full, Y)
  BY <1>1, DealsParts
<1>5. Len(full) \in Nat /\ DOMAIN full = 1..Len(full)
  BY <1>1
<1>6. ASSUME NEW k \in 1..Len(full)
      PROVE  zz[k] \in Seq(S) /\ Deals(zz[k], {x \in Y : key[x] = k}) /\ Full(zz[k])
  <2> DEFINE X == {x \in Y : key[x] = k}
             s == full[k]
  <2>1. Lists(s, X) /\ s \in Seq(PlanSet) /\ s # << >>
    <3>1. Lists(s, X)
      BY <1>4 DEF Keyed
    <3>2. s \in S
      <4> HIDE DEF S
      <4>1. QED BY <1>1
    <3>3. s # << >>
      BY <1>1 DEF Full
    <3>4. QED BY <3>1, <3>2, <3>3
  <2>2. zz[k] = IF HasDeps(s) THEN Chunked(s, DepCap) ELSE <<s>>
    BY <1>5 DEF CutPacks
  <2> HIDE DEF X, s
  <2>3. Chunked(s, DepCap) \in Seq(S) /\ Deals(Chunked(s, DepCap), X) /\ Full(Chunked(s, DepCap))
    BY <1>3, <2>1, ChunkedDeals
  <2>4. <<s>> \in Seq(S) /\ Deals(<<s>>, X) /\ Full(<<s>>)
    BY <2>1, OnePack
  <2>5. QED BY <2>2, <2>3, <2>4 DEF X
<1>7. zz \in Seq(Seq(S)) /\ Len(zz) = Len(full)
  <2>1. zz = [k \in 1..Len(full) |-> zz[k]]
    BY <1>5 DEF CutPacks
  <2> HIDE DEF zz, S
  <2>2. zz \in [1..Len(full) -> Seq(S)]
    BY <1>6, <2>1
  <2>3. QED BY <1>5, <2>2, FunctionSeq
<1> HIDE DEF zz
<1>8. HeldBy(key, c, zz, Y)
  <2>1. ASSUME NEW w \in 1..Len(zz) PROVE Held(c, zz[w]) = zz[w]
    <3> DEFINE z == zz[w]
    <3>1. z \in Seq(S)
      BY <1>6, <1>7
    <3> HIDE DEF z
    <3>2. \A j \in 1..Len(z) : z[j] \in S /\ c[z[j]] = z[j]
      BY <3>1
    <3>3. z = [j \in 1..Len(z) |-> z[j]]
      <4> HIDE DEF S
      <4>1. QED BY <3>1
    <3>4. Held(c, z) = z
      <4> HIDE DEF c
      <4>1. QED BY <3>2, <3>3 DEF Held
    <3>5. QED BY <3>4 DEF z
  <2>2. ASSUME NEW w \in 1..Len(zz) PROVE Deals(Held(c, zz[w]), {x \in Y : key[x] = w})
    BY <1>6, <1>7, <2>1
  <2>3. \A x \in Y : key[x] \in 1..Len(zz)
    BY <1>4, <1>7 DEF Keyed
  <2>4. QED BY <2>2, <2>3 DEF HeldBy
<1> DEFINE f == FlattenSeq(zz)
<1>9. f \in Seq(S) /\ Deals(Held(c, f), Y)
  <2> HIDE DEF c, S
  <2>1. QED BY <1>7, <1>8, FlattenDeals
<1>10. Held(c, f) = f
  BY <1>9 DEF Held
<1>11. Full(f)
  <2>1. ASSUME NEW m \in 1..Len(f) PROVE f[m] # << >>
    <3>1. PICK i \in 1..Len(zz) : \E j \in 1..Len(zz[i]) : f[m] = zz[i][j]
      <4> HIDE DEF S
      <4>1. QED BY <1>7, FlattenFrom
    <3>2. QED BY <1>6, <1>7, <3>1 DEF Full
  <2>2. QED BY <2>1 DEF Full
<1> HIDE DEF f
<1>12. Compacted(f) \in Seq(Seq(PlanSet)) /\ Deals(Compacted(f), Y) /\ Full(Compacted(f))
  BY <1>9, <1>10, <1>11, PlanCosts, CompactedDeals
<1>13. QED BY <1>2, <1>12 DEF f

-----------------------------------------------------------------------------
(* Role by role, and wave by wave *)

OfTurn(r, w) == {b \in BatchSet : b.role = r /\ b.wave = w /\ Made(b, "tokenFirst")}

OfRole(r) == {b \in BatchSet : b.role = r /\ Made(b, "tokenFirst")}

TurnBatches(r, w, packs) == [k \in DOMAIN packs |-> Batch(r, w, packs[k])]

\* Each batch has one of the packs, and a role and a wave.
Carries(z, packs, r, w) ==
  /\ z = [k \in 1..Len(packs) |-> z[k]]
  /\ \A k \in 1..Len(packs) : /\ z[k] \in BatchSet /\ z[k].plans = packs[k]
                               /\ z[k].role = r /\ z[k].wave = w

\* Packs of a role's plans in a wave make batches that hold them, whatever tokens
\* the batches are said to have.
LEMMA TurnHeld ==
  ASSUME NEW r \in 1..Roles, NEW w \in 1..LastWave,
         NEW packs \in Seq(Seq(PlanSet)), NEW Y, Deals(packs, Y), Full(packs),
         \A y \in Y : y.role = r /\ y.wave = w,
         NEW z, Carries(z, packs, r, w)
  PROVE  z \in Seq(OfTurn(r, w)) /\ Hold(z, Y)
<1> DEFINE N == Len(packs)
<1>1. N \in Nat /\ DOMAIN packs = 1..N /\ \A k \in 1..N : packs[k] \in Seq(PlanSet)
  OBVIOUS
<1>2. ASSUME NEW k \in 1..N PROVE z[k] \in OfTurn(r, w) /\ z[k].plans = packs[k]
  <2> DEFINE b == z[k]
  <2>1. b \in BatchSet /\ b.plans = packs[k] /\ b.role = r /\ b.wave = w
    BY DEF Carries
  <2> HIDE DEF b
  <2>2. \A j \in 1..Len(b.plans) : b.plans[j].role = r /\ b.plans[j].wave = w
    BY <2>1 DEF Deals
  <2>3. Made(b, "tokenFirst")
    BY <2>1, <2>2 DEF Made
  <2>4. b \in OfTurn(r, w) /\ b.plans = packs[k]
    BY <2>1, <2>3 DEF OfTurn
  <2>5. QED BY <2>4 DEF b
<1>3. z \in Seq(OfTurn(r, w)) /\ Len(z) = N
  <2> HIDE DEF N
  <2>1. z = [k \in 1..N |-> z[k]]
    BY DEF N, Carries
  <2>2. z \in [1..N -> OfTurn(r, w)]
    BY <1>2, <2>1
  <2>3. QED BY <1>1, <2>2, FunctionSeq
<1>4. PlansOf(z) = packs
  <2>1. PlansOf(z) = [k \in 1..N |-> packs[k]]
    BY <1>2, <1>3 DEF PlansOf
  <2>2. QED BY <1>1, <2>1
<1>5. QED BY <1>3, <1>4 DEF Hold

\* The batches where tokens come first.
LEMMA TurnHolds ==
  ASSUME NEW r \in 1..Roles, NEW w \in 1..LastWave,
         NEW packs \in Seq(Seq(PlanSet)), NEW Y, Deals(packs, Y), Full(packs),
         \A y \in Y : y.role = r /\ y.wave = w
  PROVE  /\ TurnBatches(r, w, packs) \in Seq(OfTurn(r, w))
         /\ Hold(TurnBatches(r, w, packs), Y)
<1> DEFINE z == TurnBatches(r, w, packs)
<1>1. DOMAIN packs = 1..Len(packs) /\ \A k \in 1..Len(packs) : packs[k] \in Seq(PlanSet)
  OBVIOUS
<1>2. z = [k \in 1..Len(packs) |-> z[k]]
  BY <1>1 DEF TurnBatches
<1>3. ASSUME NEW k \in 1..Len(packs)
      PROVE  /\ z[k] \in BatchSet /\ z[k].plans = packs[k]
             /\ z[k].role = r /\ z[k].wave = w
  <2>1. z[k] = Batch(r, w, packs[k])
    BY <1>1 DEF TurnBatches
  <2> HIDE DEF z
  <2>2. QED BY <1>1, <2>1, BatchFields
<1> HIDE DEF z
<1>4. Carries(z, packs, r, w)
  BY <1>2, <1>3 DEF Carries
<1>5. z \in Seq(OfTurn(r, w)) /\ Hold(z, Y)
  BY <1>4, TurnHeld
<1>6. QED BY <1>5 DEF z

\* What a pack is said to cost is a number of tokens.
LEMMA EstimatedNat ==
  ASSUME NEW full \in Seq(Seq(PlanSet)), NEW c \in Seq(PlanSet)
  PROVE  Estimated(full, c) \in Nat
<1> DEFINE cut == {k \in DOMAIN full :
                     HasDeps(full[k]) /\ Contains(Chunked(full[k], DepCap), c)}
           whole == full[CHOOSE k \in cut : TRUE]
<1>1. CASE cut = {}
  <2>1. Total(c, "tokens") \in Nat
    BY PlanCosts, TotalNat
  <2>2. QED BY <1>1, <2>1 DEF Estimated
<1>2. CASE cut # {}
  <2> DEFINE L == Len(whole)
             x == Total(whole, "tokens")
             m == Len(c)
             v == 2 * x * m + L
  <2>1. (CHOOSE k \in cut : TRUE) \in cut
    BY <1>2
  <2>2. whole \in Seq(PlanSet) /\ HasDeps(whole)
    <3> DEFINE S == Seq(PlanSet)
    <3>1. full \in Seq(S)
      OBVIOUS
    <3> HIDE DEF S
    <3>2. \A k \in DOMAIN full : full[k] \in S
      BY <3>1
    <3>3. QED BY <2>1, <3>2 DEF S
  <2>3. Estimated(full, c) = v \div (2 * L)
    BY <1>2 DEF Estimated
  <2> HIDE DEF cut, whole
  <2>4. L \in Nat \ {0}
    BY <2>2 DEF HasDeps
  <2>5. x \in Nat /\ m \in Nat
    BY <2>2, PlanCosts, TotalNat
  <2> HIDE DEF x, m, L
  <2>6. v \in Nat /\ 2 * L \in Nat \ {0}
    <3>1. x * m \in Nat
      BY <2>5
    <3>2. 2 * x * m = 2 * (x * m)
      BY <2>5
    <3>3. QED BY <2>4, <3>1, <3>2
  <2> HIDE DEF v
  <2> DEFINE u == 2 * L
  <2>7. u \in Nat \ {0} /\ Estimated(full, c) = v \div u
    BY <2>3, <2>6
  <2> HIDE DEF u
  <2>8. QED BY <2>6, <2>7
<1>3. QED BY <1>1, <1>2

\* A batch of the role split: a pack, and the tokens it is said to have.
LEMMA RoleWaveFields ==
  ASSUME NEW r \in 1..Roles, NEW w \in 1..LastWave, NEW ps \in Seq(PlanSet),
         PackedBy(ps, "tokens", Usable) \in Seq(Seq(PlanSet)),
         RoleWavePacks(ps) \in Seq(Seq(PlanSet)), NEW z, z = RoleWaveBatches(r, w, ps)
  PROVE  LET packs == RoleWavePacks(ps) IN
         Carries(z, packs, r, w) /\ \A k \in 1..Len(packs) : z[k].usable = Usable
<1> DEFINE packs == RoleWavePacks(ps)
           full == PackedBy(ps, "tokens", Usable)
           N == Len(packs)
<1>1. /\ N \in Nat /\ DOMAIN packs = 1..N
      /\ \A k \in 1..N : packs[k] \in Seq(PlanSet)
  <2> DEFINE S == Seq(PlanSet)
  <2>1. packs \in Seq(S)
    OBVIOUS
  <2> HIDE DEF S, packs
  <2>2. N \in Nat /\ DOMAIN packs = 1..N /\ \A k \in 1..N : packs[k] \in S
    BY <2>1
  <2>3. QED BY <2>2 DEF S
<1>2. full \in Seq(Seq(PlanSet))
  OBVIOUS
<1>3. z = [k \in DOMAIN packs |->
             [Batch(r, w, packs[k]) EXCEPT !.tokens = Estimated(full, packs[k])]]
  BY DEF RoleWaveBatches
<1> HIDE DEF packs, full, N
<1>4. z = [k \in 1..N |-> z[k]]
  BY <1>1, <1>3
<1>5. ASSUME NEW k \in 1..N
      PROVE  /\ z[k] \in BatchSet /\ z[k].plans = packs[k] /\ z[k].usable = Usable
             /\ z[k].role = r /\ z[k].wave = w
  <2> DEFINE c == packs[k]
             e == Estimated(full, c)
             b == Batch(r, w, c)
  <2>1. c \in Seq(PlanSet) /\ z[k] = [b EXCEPT !.tokens = e]
    BY <1>1, <1>3
  <2> HIDE DEF c
  <2>2. e \in Nat
    BY <1>2, <2>1, EstimatedNat
  <2>3. b \in BatchSet /\ b.plans = c /\ b.role = r /\ b.wave = w
    BY <2>1, BatchFields
  <2>4. b.usable = Usable
    BY DEF Batch
  <2> HIDE DEF b, e
  <2>5. z[k] \in BatchSet /\ z[k].plans = c /\ z[k].usable = Usable /\ z[k].role = r /\ z[k].wave = w
    BY <2>1, <2>2, <2>3, <2>4 DEF BatchSet
  <2>6. QED BY <2>5 DEF c
<1>6. QED BY <1>4, <1>5 DEF N, packs, Carries

\* The batches of the role split hold a role's plans in a wave.
LEMMA RoleWaveHolds ==
  ASSUME NEW r \in 1..Roles, NEW w \in 1..LastWave, NEW ps \in Seq(PlanSet),
         NEW Y, Lists(ps, Y), \A y \in Y : y.role = r /\ y.wave = w
  PROVE  /\ RoleWaveBatches(r, w, ps) \in Seq(OfTurn(r, w))
         /\ Hold(RoleWaveBatches(r, w, ps), Y)
<1> DEFINE packs == RoleWavePacks(ps)
           z == RoleWaveBatches(r, w, ps)
<1>1. packs \in Seq(Seq(PlanSet)) /\ Deals(packs, Y) /\ Full(packs)
  BY RoleWavePacksDeal
<1>2. PackedBy(ps, "tokens", Usable) \in Seq(Seq(PlanSet))
  BY PackedByDeals
<1>3. Carries(z, packs, r, w)
  <2> HIDE DEF z
  <2>1. z = RoleWaveBatches(r, w, ps)
    BY DEF z
  <2>2. QED BY <1>1, <1>2, <2>1, RoleWaveFields
<1> HIDE DEF packs, z
<1>4. z \in Seq(OfTurn(r, w)) /\ Hold(z, Y)
  BY <1>1, <1>3, TurnHeld
<1>5. QED BY <1>4 DEF z

\* The batches of a role, wave by wave, hold its plans.
LEMMA RoleHolds ==
  ASSUME NEW X \in SUBSET PlanSet, NEW r \in 1..Roles, NEW zz, Len(zz) = LastWave,
         zz = [w \in 1..LastWave |-> zz[w]],
         \A w \in 1..LastWave : /\ zz[w] \in Seq(OfTurn(r, w))
                                /\ Hold(zz[w], {x \in X : x.role = r /\ x.wave = w})
  PROVE  /\ FlattenSeq(zz) \in Seq(OfRole(r))
         /\ Hold(FlattenSeq(zz), {x \in X : x.role = r})
         /\ Ordered(FlattenSeq(zz), ByRoles)
<1> DEFINE Y == {x \in X : x.role = r}
           key == [x \in Y |-> x.wave]
           B == OfRole(r)
           f == FlattenSeq(zz)
<1>1. LastWave \in Nat /\ \A x \in X : x.wave \in 1..LastWave
  BY BatchAssumption DEF PlanSet
<1>2. \A w \in 1..LastWave : OfTurn(r, w) \subseteq B
  BY DEF OfTurn, OfRole
<1>3. \A w \in 1..LastWave : zz[w] \in Seq(B)
  <2> HIDE DEF B
  <2>1. SUFFICES ASSUME NEW w \in 1..LastWave PROVE zz[w] \in Seq(B)
    OBVIOUS
  <2> DEFINE A == OfTurn(r, w)
  <2>2. A \subseteq B /\ zz[w] \in Seq(A)
    BY <1>2
  <2> HIDE DEF A
  <2>3. QED BY <2>2, SeqWider
<1>4. zz \in Seq(Seq(B))
  <2> HIDE DEF B
  <2>1. zz \in [1..LastWave -> Seq(B)]
    BY <1>3
  <2>2. QED BY <1>1, <2>1, FunctionSeq
<1>5. HoldBy(key, zz, Y)
  <2>1. \A w \in 1..LastWave : {x \in Y : key[x] = w} = {x \in X : x.role = r /\ x.wave = w}
    OBVIOUS
  <2>2. \A x \in Y : key[x] \in 1..LastWave
    BY <1>1
  <2> HIDE DEF Y, key
  <2>3. QED BY <2>1, <2>2 DEF HoldBy
<1>6. B \in SUBSET BatchSet
  BY DEF OfRole
<1>7. f \in Seq(B) /\ Hold(f, Y)
  <2> HIDE DEF B, Y, key
  <2>1. QED BY <1>4, <1>5, <1>6, FlattenHold
<1>8. ASSUME NEW i \in 1..Len(zz), NEW j \in 1..Len(zz[i])
      PROVE  zz[i][j] \in BatchSet /\ zz[i][j].role = r /\ zz[i][j].wave = i
  <2>1. zz[i] \in Seq(OfTurn(r, i))
    OBVIOUS
  <2>2. zz[i][j] \in OfTurn(r, i)
    BY <2>1
  <2>3. QED BY <2>2 DEF OfTurn
<1>9. ASSUME NEW i \in 1..Len(zz), NEW k \in 1..Len(zz), NEW j \in 1..Len(zz[i]),
             NEW l \in 1..Len(zz[k]), i <= k
      PROVE  <<zz[i][j], zz[k][l]>> \in ByRoles
  <2> DEFINE a == zz[i][j]
             b == zz[k][l]
  <2>1. a \in BatchSet /\ b \in BatchSet /\ a.role = r /\ b.role = r /\ a.wave = i /\ b.wave = k
    BY <1>8
  <2> HIDE DEF a, b
  <2>2. <<a, b>> \in ByRoles
    BY <1>9, <2>1 DEF ByRoles
  <2>3. QED BY <2>2 DEF a, b
<1>10. Ordered(f, ByRoles)
  <2>1. \A i \in 1..Len(zz) : Ordered(zz[i], ByRoles)
    BY <1>1, <1>9 DEF Ordered
  <2>2. \A i, k \in 1..Len(zz) : \A j \in 1..Len(zz[i]), l \in 1..Len(zz[k]) :
           i < k => <<zz[i][j], zz[k][l]>> \in ByRoles
    BY <1>1, <1>9
  <2> HIDE DEF B
  <2>3. QED BY <1>4, <2>1, <2>2, FlattenOrdered
<1>11. QED BY <1>7, <1>10

\* All roles together hold all plans.
LEMMA RolesHold ==
  ASSUME NEW X \in SUBSET PlanSet, NEW rr \in Seq(1..Roles), Lists(rr, {rr[i] : i \in 1..Len(rr)}),
         \A x \in X : \E i \in 1..Len(rr) : rr[i] = x.role,
         NEW yy, Len(yy) = Len(rr), yy = [i \in 1..Len(rr) |-> yy[i]],
         \A i \in 1..Len(rr) : /\ yy[i] \in Seq(OfRole(rr[i]))
                               /\ Hold(yy[i], {x \in X : x.role = rr[i]})
  PROVE  /\ yy \in Seq(Seq(MadeBy("tokenFirst")))
         /\ FlattenSeq(yy) \in Seq(MadeBy("tokenFirst"))
         /\ Hold(FlattenSeq(yy), X)
<1> DEFINE B == MadeBy("tokenFirst")
           N == Len(rr)
           key == [x \in X |-> CHOOSE i \in 1..N : rr[i] = x.role]
<1>1. \A i \in 1..N : OfRole(rr[i]) \subseteq B
  BY DEF OfRole, MadeBy
<1>2. \A i \in 1..N : yy[i] \in Seq(B)
  <2> HIDE DEF B
  <2>1. SUFFICES ASSUME NEW i \in 1..N PROVE yy[i] \in Seq(B)
    OBVIOUS
  <2> DEFINE A == OfRole(rr[i])
  <2>2. A \subseteq B /\ yy[i] \in Seq(A)
    BY <1>1
  <2> HIDE DEF A
  <2>3. QED BY <2>2, SeqWider
<1>3. yy \in Seq(Seq(B))
  <2> HIDE DEF B
  <2>1. yy \in [1..N -> Seq(B)]
    BY <1>2
  <2>2. N \in Nat
    OBVIOUS
  <2>3. QED BY <2>1, <2>2, FunctionSeq
<1>4. \A x \in X : key[x] \in 1..N /\ rr[key[x]] = x.role
  OBVIOUS
<1>5. \A w \in 1..N : {x \in X : key[x] = w} = {x \in X : x.role = rr[w]}
  <2> HIDE DEF key
  <2>1. QED BY <1>4 DEF Lists
<1>6. HoldBy(key, yy, X)
  <2> HIDE DEF key
  <2>1. QED BY <1>4, <1>5 DEF HoldBy
<1>7. B \in SUBSET BatchSet
  BY DEF MadeBy
<1> HIDE DEF B, key
<1>8. FlattenSeq(yy) \in Seq(B) /\ Hold(FlattenSeq(yy), X)
  BY <1>3, <1>6, <1>7, FlattenHold
<1>9. QED BY <1>3, <1>8 DEF B

\* Plans with the names of the cycle's, in the same places.
Renamed(ps) ==
  /\ ps \in Seq(PlanSet) /\ Len(ps) = Len(plans)
  /\ \A i \in 1..Len(plans) : Name(ps[i]) = Name(plans[i])

\* Plans renamed in place are as many and have the same names.
LEMMA RenamedListed ==
  ASSUME PlansFit, NEW ps, Renamed(ps)
  PROVE  /\ ToSet(ps) \in SUBSET PlanSet /\ Lists(ps, ToSet(ps)) /\ Named(ToSet(ps))
         /\ ToSet(ps) = {ps[i] : i \in 1..Len(ps)} /\ ps # << >>
         /\ NamesOf(ToSet(ps)) = NamesOf(ToSet(plans))
<1> DEFINE N == Len(plans)
<1>1. /\ N \in Nat \ {0} /\ ToSet(plans) = {plans[i] : i \in 1..N}
      /\ \A i, j \in 1..N : Name(plans[i]) = Name(plans[j]) => i = j
  BY PlansListed DEF PlansFit
<1>2. /\ Len(ps) = N /\ ToSet(ps) = {ps[i] : i \in 1..N}
      /\ \A i \in 1..N : ps[i] \in PlanSet /\ Name(ps[i]) = Name(plans[i])
  BY DEF Renamed, ToSet
<1> HIDE DEF N
<1>3. \A i, j \in 1..N : Name(ps[i]) = Name(ps[j]) => i = j
  BY <1>1, <1>2
<1>4. Lists(ps, ToSet(ps))
  BY <1>2, <1>3 DEF Lists
<1>5. Named(ToSet(ps))
  BY <1>2, <1>3 DEF Named
<1>6. NamesOf(ToSet(ps)) = NamesOf(ToSet(plans))
  BY <1>1, <1>2 DEF NamesOf
<1>7. ps # << >>
  BY <1>1, <1>2 DEF Renamed
<1>8. QED BY <1>2, <1>4, <1>5, <1>6, <1>7

\* The specialist routing changes roles only.
LEMMA RoutedFits ==
  ASSUME PlansFit, NEW fit \in [DOMAIN plans -> 1..Roles], NEW below
  PROVE  Renamed(Routed(fit, below))
<1> DEFINE N == Len(plans)
           ps == Routed(fit, below)
<1>1. N \in Nat /\ DOMAIN plans = 1..N /\ \A i \in 1..N : plans[i] \in PlanSet
  BY PlansListed
<1>2. Evolution \in 1..Roles
  BY BatchAssumption DEF Evolution
<1> DEFINE chosen == [i \in DOMAIN plans |-> IF fit[i] = Evolution THEN plans[i].role ELSE fit[i]]
           Locked(r) == \E i \in DOMAIN plans : fit[i] = r /\ r # Evolution
           role == [i \in 1..N |-> IF chosen[i] \in below /\ ~Locked(chosen[i])
                                     THEN Evolution ELSE chosen[i]]
<1>3. \A i \in 1..N : chosen[i] \in 1..Roles
  BY <1>1 DEF PlanSet
<1>4. \A i \in 1..N : role[i] \in 1..Roles
  <2> HIDE DEF chosen, Locked
  <2>1. QED BY <1>2, <1>3
<1>5. ps = [i \in 1..N |-> [plans[i] EXCEPT !.role = role[i]]]
  BY <1>1 DEF Routed
<1> HIDE DEF chosen, Locked, role, ps
<1>6. \A i \in 1..N : ps[i] \in PlanSet /\ Name(ps[i]) = Name(plans[i])
  BY <1>1, <1>4, <1>5 DEF PlanSet, Name
<1>7. ps \in Seq(PlanSet) /\ Len(ps) = N
  <2>1. ps \in [1..N -> PlanSet]
    BY <1>5, <1>6
  <2> HIDE DEF N
  <2>2. QED BY <1>1, <2>1, FunctionSeq
<1>8. QED BY <1>6, <1>7 DEF Renamed, ps

\* The plans of one role in one wave.
TurnPlans(ps, r, w) == Among(ps, {p \in ToSet(ps) : p.role = r /\ p.wave = w})

\* The plans of a role in a wave, in their order.
LEMMA TurnPlansListed ==
  ASSUME NEW ps \in Seq(PlanSet), NEW X, Lists(ps, X), ToSet(ps) = X, NEW r, NEW w
  PROVE  /\ TurnPlans(ps, r, w) \in Seq(PlanSet)
         /\ Lists(TurnPlans(ps, r, w), {x \in X : x.role = r /\ x.wave = w})
<1> DEFINE Y == {x \in X : x.role = r /\ x.wave = w}
<1>1. TurnPlans(ps, r, w) = Among(ps, Y) /\ X \cap Y = Y
  BY DEF TurnPlans
<1> HIDE DEF Y
<1>2. Among(ps, Y) \in Seq(PlanSet) /\ Lists(Among(ps, Y), X \cap Y)
  BY AmongLists
<1>3. QED BY <1>1, <1>2 DEF Y

FirstFits(ps, r) == [w \in 1..LastWave |-> TurnBatches(r, w, FirstFit(TurnPlans(ps, r, w)))]

\* Token-first batches hold every plan, role by role and wave by wave.
LEMMA TokenFirstHolds ==
  ASSUME NEW ps \in Seq(PlanSet), NEW X \in SUBSET PlanSet, Lists(ps, X), ToSet(ps) = X
  PROVE  /\ TokenFirstBatches(ps) \in Seq(MadeBy("tokenFirst"))
         /\ Hold(TokenFirstBatches(ps), X)
         /\ Ordered(TokenFirstBatches(ps), ByRoles)
<1> DEFINE yy == [r \in 1..Roles |-> FlattenSeq(FirstFits(ps, r))]
           rr == [r \in 1..Roles |-> r]
           f == FlattenSeq(yy)
<1>1. TokenFirstBatches(ps) = f
  BY DEF TokenFirstBatches, FirstFits, TurnBatches, TurnPlans
<1>2. Roles \in Nat /\ LastWave \in Nat /\ \A x \in X : x.role \in 1..Roles
  BY BatchAssumption DEF PlanSet
<1>3. ASSUME NEW r \in 1..Roles
      PROVE  /\ yy[r] \in Seq(OfRole(r)) /\ Hold(yy[r], {x \in X : x.role = r})
             /\ Ordered(yy[r], ByRoles)
  <2> DEFINE zz == FirstFits(ps, r)
  <2>1. ASSUME NEW w \in 1..LastWave
        PROVE  /\ zz[w] \in Seq(OfTurn(r, w))
               /\ Hold(zz[w], {x \in X : x.role = r /\ x.wave = w})
    <3> DEFINE Y == {x \in X : x.role = r /\ x.wave = w}
               packs == FirstFit(TurnPlans(ps, r, w))
    <3>1. zz[w] = TurnBatches(r, w, packs) /\ \A y \in Y : y.role = r /\ y.wave = w
      BY DEF FirstFits
    <3>2. TurnPlans(ps, r, w) \in Seq(PlanSet) /\ Lists(TurnPlans(ps, r, w), Y)
      BY TurnPlansListed
    <3> HIDE DEF Y
    <3>3. packs \in Seq(Seq(PlanSet)) /\ Deals(packs, Y) /\ Full(packs)
      BY <3>2, FirstFitDeals
    <3> HIDE DEF packs
    <3>4. TurnBatches(r, w, packs) \in Seq(OfTurn(r, w)) /\ Hold(TurnBatches(r, w, packs), Y)
      BY <3>1, <3>3, TurnHolds
    <3>5. QED BY <3>1, <3>4 DEF Y
  <2>2. Len(zz) = LastWave /\ zz = [w \in 1..LastWave |-> zz[w]]
    BY <1>2 DEF FirstFits
  <2>3. yy[r] = FlattenSeq(zz)
    OBVIOUS
  <2> HIDE DEF zz, yy
  <2>4. /\ FlattenSeq(zz) \in Seq(OfRole(r)) /\ Hold(FlattenSeq(zz), {x \in X : x.role = r})
        /\ Ordered(FlattenSeq(zz), ByRoles)
    BY <2>1, <2>2, RoleHolds
  <2>5. QED BY <2>3, <2>4
<1>4. rr \in Seq(1..Roles) /\ Len(rr) = Roles /\ Lists(rr, {rr[i] : i \in 1..Len(rr)})
  <2>1. rr \in [1..Roles -> 1..Roles]
    OBVIOUS
  <2>2. rr \in Seq(1..Roles) /\ Len(rr) = Roles
    <3> HIDE DEF rr
    <3>1. QED BY <1>2, <2>1, FunctionSeq
  <2>3. QED BY <2>2 DEF Lists
<1>5. Len(yy) = Roles /\ yy = [i \in 1..Roles |-> yy[i]]
  BY <1>2
<1>6. \A i \in 1..Roles : rr[i] = i
  OBVIOUS
<1> HIDE DEF yy, rr
<1>7. yy \in Seq(Seq(MadeBy("tokenFirst"))) /\ f \in Seq(MadeBy("tokenFirst")) /\ Hold(f, X)
  <2>1. \A x \in X : \E i \in 1..Len(rr) : rr[i] = x.role
    BY <1>2, <1>4, <1>6
  <2>2. \A i \in 1..Len(rr) : /\ yy[i] \in Seq(OfRole(rr[i]))
                              /\ Hold(yy[i], {x \in X : x.role = rr[i]})
    BY <1>3, <1>4, <1>6
  <2>3. Len(yy) = Len(rr) /\ yy = [i \in 1..Len(rr) |-> yy[i]]
    BY <1>4, <1>5
  <2>4. QED BY <1>4, <2>1, <2>2, <2>3, RolesHold
<1>8. \A i \in 1..Len(yy) : Ordered(yy[i], ByRoles)
  BY <1>3, <1>5
<1>9. \A i, k \in 1..Len(yy) : \A j \in 1..Len(yy[i]), l \in 1..Len(yy[k]) :
         i < k => <<yy[i][j], yy[k][l]>> \in ByRoles
  <2>1. ASSUME NEW i \in 1..Roles, NEW j \in 1..Len(yy[i])
        PROVE  yy[i][j] \in BatchSet /\ yy[i][j].role = i
    <3> DEFINE A == OfRole(i)
               s == yy[i]
    <3>1. s \in Seq(A)
      BY <1>3
    <3> HIDE DEF A, s
    <3>2. \A m \in 1..Len(s) : s[m] \in A
      BY <3>1
    <3>3. QED BY <3>2 DEF A, OfRole, s
  <2>2. SUFFICES ASSUME NEW i \in 1..Roles, NEW k \in 1..Roles,
                        NEW j \in 1..Len(yy[i]), NEW l \in 1..Len(yy[k]), i < k
                 PROVE  <<yy[i][j], yy[k][l]>> \in ByRoles
    BY <1>5
  <2> DEFINE a == yy[i][j]
             b == yy[k][l]
  <2>3. a \in BatchSet /\ b \in BatchSet /\ a.role = i /\ b.role = k
    BY <2>1
  <2> HIDE DEF a, b
  <2>4. <<a, b>> \in ByRoles
    BY <2>2, <2>3 DEF ByRoles
  <2>5. QED BY <2>4 DEF a, b
<1>10. Ordered(f, ByRoles)
  BY <1>7, <1>8, <1>9, FlattenOrdered
<1> HIDE DEF f
<1>11. QED BY <1>1, <1>7, <1>10

Compacts(ps, r) == [w \in 1..LastWave |-> RoleWaveBatches(r, w, TurnPlans(ps, r, w))]

\* The batches of the role split hold every plan, wave by wave.
LEMMA RoleSplitHolds ==
  ASSUME PlansFit
  PROVE  /\ RoleSplitBatches \in Seq(MadeBy("tokenFirst"))
         /\ Hold(RoleSplitBatches, ToSet(plans))
         /\ Ordered(RoleSplitBatches, ByWaves)
<1> DEFINE X == ToSet(plans)
           ps == ByWave(plans)
           rr == RolesInTurn(ps)
           yy == [i \in 1..Len(rr) |-> FlattenSeq(Compacts(ps, rr[i]))]
           f == FlattenSeq(yy)
           B == MadeBy("tokenFirst")
<1>1. X \in SUBSET PlanSet /\ plans \in Seq(PlanSet) /\ Lists(plans, X)
  BY PlansListed
<1>2. LastWave \in Nat /\ \A p \in PlanSet : p.wave \in 1..LastWave /\ p.role \in 1..Roles
  BY BatchAssumption DEF PlanSet
<1>3. ps \in Seq(PlanSet) /\ Lists(ps, X)
  <2> HIDE DEF X
  <2>1. QED BY <1>1, <1>2, ByWaveProperties
<1>4. rr \in Seq(1..Roles) /\ Lists(rr, {ps[i].role : i \in 1..Len(ps)})
  BY <1>2, <1>3, RolesInTurnLists
<1>5. RoleSplitBatches = ByWave(f)
  <2>1. DOMAIN rr = 1..Len(rr)
    BY <1>4
  <2>2. RoleSplitBatches = ByWave(FlattenSeq([n \in DOMAIN rr |-> FlattenSeq(Compacts(ps, rr[n]))]))
    BY DEF RoleSplitBatches, Compacts, TurnPlans
  <2> HIDE DEF rr, ps
  <2>3. QED BY <2>1, <2>2
<1> HIDE DEF ps
<1> HIDE DEF X, rr
<1>6. ToSet(ps) = X
  <2>1. ToSet(ps) = {ps[i] : i \in 1..Len(ps)}
    BY <1>3 DEF ToSet
  <2>2. QED BY <1>3, <2>1 DEF Lists
<1>7. Lists(rr, {rr[i] : i \in 1..Len(rr)})
  BY <1>4 DEF Lists
<1>8. \A x \in X : \E i \in 1..Len(rr) : rr[i] = x.role
  <2>1. SUFFICES ASSUME NEW x \in X PROVE \E i \in 1..Len(rr) : rr[i] = x.role
    OBVIOUS
  <2>2. PICK j \in 1..Len(ps) : ps[j] = x
    BY <1>3 DEF Lists
  <2>3. QED BY <1>4, <2>2 DEF Lists
<1>9. ASSUME NEW i \in 1..Len(rr)
      PROVE  yy[i] \in Seq(OfRole(rr[i])) /\ Hold(yy[i], {x \in X : x.role = rr[i]})
  <2> DEFINE r == rr[i]
             zz == Compacts(ps, r)
  <2>1. r \in 1..Roles /\ yy[i] = FlattenSeq(zz)
    <3> DEFINE S == 1..Roles
    <3>1. rr \in Seq(S)
      BY <1>4
    <3>2. yy[i] = FlattenSeq(zz)
      OBVIOUS
    <3> HIDE DEF S
    <3>3. rr[i] \in S
      BY <3>1
    <3>4. QED BY <3>2, <3>3 DEF S
  <2> HIDE DEF r, yy
  <2>2. ASSUME NEW w \in 1..LastWave
        PROVE  /\ zz[w] \in Seq(OfTurn(r, w))
               /\ Hold(zz[w], {x \in X : x.role = r /\ x.wave = w})
    <3> DEFINE Y == {x \in X : x.role = r /\ x.wave = w}
               qs == TurnPlans(ps, r, w)
    <3>1. zz[w] = RoleWaveBatches(r, w, qs) /\ \A y \in Y : y.role = r /\ y.wave = w
      BY DEF Compacts
    <3>2. qs \in Seq(PlanSet) /\ Lists(qs, Y)
      BY <1>3, <1>6, TurnPlansListed
    <3> HIDE DEF Y, qs
    <3>3. RoleWaveBatches(r, w, qs) \in Seq(OfTurn(r, w)) /\ Hold(RoleWaveBatches(r, w, qs), Y)
      BY <2>1, <3>1, <3>2, RoleWaveHolds
    <3>4. QED BY <3>1, <3>3 DEF Y
  <2>3. Len(zz) = LastWave /\ zz = [w \in 1..LastWave |-> zz[w]]
    BY <1>2 DEF Compacts
  <2> HIDE DEF zz
  <2>4. FlattenSeq(zz) \in Seq(OfRole(r)) /\ Hold(FlattenSeq(zz), {x \in X : x.role = r})
    BY <1>1, <2>1, <2>2, <2>3, RoleHolds DEF X
  <2>5. QED BY <2>1, <2>4 DEF r
<1>10. Len(yy) = Len(rr) /\ yy = [i \in 1..Len(rr) |-> yy[i]]
  BY <1>4
<1> HIDE DEF yy
<1>11. f \in Seq(B) /\ Hold(f, X)
  BY <1>1, <1>4, <1>7, <1>8, <1>9, <1>10, RolesHold DEF X
<1> HIDE DEF f
<1>12. B \in SUBSET BatchSet
  BY DEF MadeBy
<1> HIDE DEF B
<1>13. ByWave(f) \in Seq(B) /\ Hold(ByWave(f), X) /\ Ordered(ByWave(f), ByWaves)
  BY <1>11, <1>12, ByWaveHolds
<1>14. QED BY <1>5, <1>13 DEF X, B

-----------------------------------------------------------------------------
(* The gate and the chains *)

\* Stage k of the chain of p.
Stage(q, p, k, c) ==
  q = [p EXCEPT !.stage = k, !.wave = @ + k - 1,
                !.role = IF k = 2 THEN Evolution ELSE Quality,
                !.index = c + k - 1]

\* A stage of a chain is a plan, with the task of the plan it is made of.
LEMMA StageFields ==
  ASSUME NEW p \in PlanSet, p.wave + 2 <= LastWave, NEW k \in 1..3, NEW c \in Nat \ {0},
         NEW q, Stage(q, p, k, c)
  PROVE  q \in PlanSet /\ q.task = p.task /\ q.stage = k
<1>1. Evolution \in 1..Roles /\ Quality \in 1..Roles /\ LastWave \in Nat
  BY BatchAssumption DEF Evolution, Quality
<1>2. p.wave + k - 1 \in 1..LastWave /\ c + k - 1 \in Nat /\ k \in 0..3
  BY <1>1 DEF PlanSet
<1> DEFINE role == IF k = 2 THEN Evolution ELSE Quality
           wave == p.wave + k - 1
           index == c + k - 1
<1>3. role \in 1..Roles
  BY <1>1
<1>4. q = [p EXCEPT !.stage = k, !.wave = wave, !.role = role, !.index = index]
  BY DEF Stage, PlanSet
<1> HIDE DEF role, wave, index
<1>5. QED BY <1>2, <1>3, <1>4 DEF PlanSet, wave, index

\* The plans that a plan is expanded to.
StagesFor(i) ==
  IF plans[i].risky
    THEN StagesOf(plans[i], 1 + 3 * Cardinality({j \in 1..(i - 1) : plans[j].risky}))
    ELSE <<plans[i]>>

\* The stages of one plan are plans of its task and differ in stage.
LEMMA StagesFit ==
  ASSUME PlansFit, \A i \in 1..Len(plans) : Whole(plans[i]), NEW i \in 1..Len(plans)
  PROVE  /\ StagesFor(i) \in Seq(PlanSet) /\ 1 \in 1..Len(StagesFor(i))
         /\ \A j \in 1..Len(StagesFor(i)) : StagesFor(i)[j].task = plans[i].task
         /\ \A j, k \in 1..Len(StagesFor(i)) :
               StagesFor(i)[j].stage = StagesFor(i)[k].stage => j = k
<1> DEFINE p == plans[i]
           z == StagesFor(i)
           E == {j \in 1..(i - 1) : plans[j].risky}
           c == 1 + 3 * Cardinality(E)
<1>1. p \in PlanSet /\ Whole(p) /\ i \in Nat
  BY PlansListed
<1>2. c \in Nat \ {0}
  <2>1. IsFiniteSet(1..(i - 1)) /\ E \in SUBSET (1..(i - 1))
    <3>1. 1 \in Int /\ i - 1 \in Int
      BY <1>1
    <3>2. IsFiniteSet(1..(i - 1))
      BY <3>1, FS_Interval
    <3>3. QED BY <3>2
  <2> HIDE DEF E
  <2>2. Cardinality(E) \in Nat
    BY <2>1, FS_Subset, FS_CardinalityType
  <2>3. QED BY <2>2
<1>3. CASE p.risky
  <2>1. z = StagesOf(p, c)
    BY <1>3 DEF StagesFor
  <2> HIDE DEF p, c, z
  <2>2. /\ z = [k \in 1..3 |-> z[k]]
        /\ \A k \in 1..3 : Stage(z[k], p, k, c)
    BY <2>1 DEF StagesOf, Stage
  <2>3. \A k \in 1..3 : z[k] \in PlanSet /\ z[k].task = p.task /\ z[k].stage = k
    <3>1. p.wave + 2 <= LastWave
      BY <1>1, <1>3 DEF Whole
    <3>2. QED BY <1>1, <1>2, <2>2, <3>1, StageFields
  <2>4. z \in Seq(PlanSet) /\ Len(z) = 3
    <3>1. z \in [1..3 -> PlanSet]
      <4> HIDE DEF PlanSet
      <4>1. QED BY <2>2, <2>3
    <3>2. QED BY <3>1, FunctionSeq
  <2>5. QED BY <2>3, <2>4 DEF p, z
<1>4. CASE ~p.risky
  <2>1. z = <<p>>
    BY <1>4 DEF StagesFor
  <2>2. z \in Seq(PlanSet) /\ Len(z) = 1 /\ z[1] = p
    BY <1>1, <2>1, ListsOne
  <2> HIDE DEF z
  <2>3. QED BY <2>2 DEF z
<1>5. QED BY <1>3, <1>4

\* The chains leave no two plans with one name.
LEMMA ExpandedNames ==
  ASSUME PlansFit, \A i \in 1..Len(plans) : Whole(plans[i])
  PROVE  /\ Expanded \in Seq(PlanSet) /\ Expanded # << >>
         /\ \A i, j \in 1..Len(Expanded) : Name(Expanded[i]) = Name(Expanded[j]) => i = j
<1> DEFINE N == Len(plans)
           zz == [i \in 1..N |-> StagesFor(i)]
           f == FlattenSeq(zz)
           R == {x \in PlanSet \X PlanSet : Name(x[1]) # Name(x[2])}
<1>1. /\ N \in Nat \ {0} /\ DOMAIN plans = 1..N /\ \A i \in 1..N : plans[i] \in PlanSet
      /\ \A i, j \in 1..N : Name(plans[i]) = Name(plans[j]) => i = j
  BY PlansListed DEF PlansFit
<1>2. Expanded = f
  BY <1>1 DEF Expanded, StagesFor
<1>3. \A i \in 1..N : zz[i] = StagesFor(i)
  OBVIOUS
<1>4. zz \in Seq(Seq(PlanSet)) /\ Len(zz) = N
  <2>1. zz \in [1..N -> Seq(PlanSet)]
    BY StagesFit
  <2> HIDE DEF zz, N
  <2>2. QED BY <1>1, <2>1, FunctionSeq
<1> HIDE DEF zz, N
<1>5. f \in Seq(PlanSet)
  BY <1>4, FlattenPlaces
<1>6. ASSUME NEW i \in 1..N, NEW j \in 1..Len(zz[i])
      PROVE  zz[i][j] \in PlanSet /\ zz[i][j].task = plans[i].task
  BY <1>3, StagesFit DEF N
<1>7. ASSUME NEW i \in 1..N, NEW k \in 1..N, i < k PROVE plans[i].task # plans[k].task
  <2>1. Whole(plans[i]) /\ Whole(plans[k])
    BY DEF N
  <2>2. QED BY <1>1, <1>7, <2>1 DEF Whole, Name
<1>8. ASSUME NEW i \in 1..N, NEW k \in 1..N, NEW j \in 1..Len(zz[i]), NEW l \in 1..Len(zz[k]), i < k
      PROVE  <<zz[i][j], zz[k][l]>> \in R
  <2> DEFINE a == zz[i][j]
             b == zz[k][l]
  <2>1. a \in PlanSet /\ b \in PlanSet /\ a.task # b.task
    BY <1>6, <1>7, <1>8
  <2> HIDE DEF a, b
  <2>2. <<a, b>> \in R
    BY <2>1 DEF Name
  <2>3. QED BY <2>2 DEF a, b
<1>9. ASSUME NEW i \in 1..N PROVE Ordered(zz[i], R)
  <2> DEFINE z == zz[i]
  <2>1. /\ z \in Seq(PlanSet)
        /\ \A j, k \in 1..Len(z) : z[j].stage = z[k].stage => j = k
    BY <1>3, StagesFit DEF N
  <2> HIDE DEF z
  <2>2. ASSUME NEW j \in 1..Len(z), NEW k \in 1..Len(z), j < k PROVE <<z[j], z[k]>> \in R
    <3> DEFINE a == z[j]
               b == z[k]
    <3>1. a \in PlanSet /\ b \in PlanSet /\ a.stage # b.stage
      <4> HIDE DEF PlanSet
      <4>1. QED BY <2>1, <2>2
    <3> HIDE DEF a, b
    <3>2. <<a, b>> \in R
      BY <3>1 DEF Name
    <3>3. QED BY <3>2 DEF a, b
  <2> HIDE DEF R
  <2>3. QED BY <2>2 DEF Ordered, z
<1>10. Ordered(f, R)
  <2> HIDE DEF R
  <2>1. QED BY <1>4, <1>8, <1>9, FlattenOrdered
<1>11. ASSUME NEW i \in 1..Len(f), NEW j \in 1..Len(f), Name(f[i]) = Name(f[j]) PROVE i = j
  <2>1. ~(i < j) /\ ~(j < i)
    BY <1>10, <1>11 DEF Ordered
  <2> HIDE DEF f
  <2>2. QED BY <1>5, <2>1
<1>12. f # << >>
  <2>1. PICK at, in : Places(Len(zz), zz, f, at, in)
    BY <1>4, FlattenPlaces
  <2>2. 1 \in 1..N /\ 1 \in 1..Len(zz[1])
    <3>1. 1 \in 1..N
      BY <1>1
    <3>2. QED BY <1>3, <3>1, StagesFit DEF N
  <2>3. \E m \in 1..Len(f) : at[m] = 1 /\ in[m] = 1
    BY <1>4, <2>1, <2>2 DEF Places
  <2> HIDE DEF f
  <2>4. Len(f) # 0
    BY <2>3
  <2>5. QED BY <1>5, <2>4
<1> HIDE DEF f
<1>13. QED BY <1>2, <1>5, <1>11, <1>12

\* The packs that the gate makes of one role's plans in one batch.
LEMMA RepackedDeals ==
  ASSUME PlansFit, NEW o, NEW r
  PROVE  /\ Repacked(o, r) \in Seq(Seq(PlanSet))
         /\ Deals(Repacked(o, r), {p \in ToSet(plans) : Index(p) = o /\ p.role = r})
<1> DEFINE X == ToSet(plans)
           Y == {p \in X : Index(p) = o /\ p.role = r}
           ps == Among(plans, Y)
<1>1. plans \in Seq(PlanSet) /\ Lists(plans, X)
  BY PlansListed
<1>2. Repacked(o, r) = PackedBy(ps, "steps", GateCap) /\ X \cap Y = Y
  BY DEF Repacked
<1> HIDE DEF X, Y
<1>3. ps \in Seq(PlanSet) /\ Lists(ps, Y)
  BY <1>1, <1>2, AmongLists
<1> HIDE DEF ps
<1>4. LET packs == PackedBy(ps, "steps", GateCap) IN
      packs \in Seq(Seq(PlanSet)) /\ Deals(packs, Y)
  BY <1>3, PackedByDeals
<1>5. QED BY <1>2, <1>4 DEF X, Y

\* A plan is in one of the packs of its own batch and role.
LEMMA SlotFound ==
  ASSUME PlansFit, NEW p \in ToSet(plans)
  PROVE  LET packs == Repacked(Index(p), p.role) IN
         /\ DOMAIN packs = 1..Len(packs) /\ Len(packs) \in Nat
         /\ \E k \in DOMAIN packs : p \in ToSet(packs[k])
<1> DEFINE packs == Repacked(Index(p), p.role)
           Y == {q \in ToSet(plans) : Index(q) = Index(p) /\ q.role = p.role}
<1>1. packs \in Seq(Seq(PlanSet)) /\ Deals(packs, Y)
  BY RepackedDeals
<1>2. p \in Y
  OBVIOUS
<1> HIDE DEF packs, Y
<1>3. DOMAIN packs = 1..Len(packs) /\ Len(packs) \in Nat
  BY <1>1
<1>4. PICK k \in 1..Len(packs) : \E j \in 1..Len(packs[k]) : packs[k][j] = p
  BY <1>1, <1>2 DEF Deals
<1>5. p \in ToSet(packs[k])
  <2>1. packs[k] \in Seq(PlanSet)
    BY <1>1
  <2>2. DOMAIN packs[k] = 1..Len(packs[k])
    BY <2>1
  <2>3. QED BY <1>4, <2>2 DEF ToSet
<1>6. QED BY <1>3, <1>5 DEF packs

\* A batch index that a plan has takes a slot at least.
LEMMA SlotsAt ==
  ASSUME PlansFit, NEW e \in Indexes
  PROVE  SlotsOf(e) \in Nat \ {0}
<1> DEFINE f == [r \in 1..Roles |-> Len(Repacked(e, r))]
<1>1. Roles \in Nat \ {0}
  BY BatchAssumption
<1>2. f \in [1..Roles -> Nat]
  <2>1. ASSUME NEW r \in 1..Roles PROVE Len(Repacked(e, r)) \in Nat
    <3>1. Repacked(e, r) \in Seq(Seq(PlanSet))
      BY RepackedDeals
    <3>2. QED BY <3>1
  <2>2. QED BY <2>1
<1>3. SlotsOf(e) = Max({f[r] : r \in 1..Roles})
  <2>1. {f[r] : r \in 1..Roles} = {Len(Repacked(e, r)) : r \in 1..Roles}
    OBVIOUS
  <2>2. QED BY <2>1 DEF SlotsOf
<1> DEFINE S == {f[r] : r \in 1..Roles}
<1>4. Max(S) \in Nat /\ \A r \in 1..Roles : f[r] <= Max(S)
  <2> HIDE DEF f
  <2>1. QED BY <1>1, <1>2, MaxOf
<1>5. PICK p \in ToSet(plans) : Index(p) = e
  BY PlansListed DEF Indexes, ToSet
<1>6. p.role \in 1..Roles /\ f[p.role] # 0
  <2>1. p.role \in 1..Roles
    BY PlansListed DEF PlanSet
  <2> DEFINE packs == Repacked(e, p.role)
  <2>2. Len(packs) \in Nat /\ 1..Len(packs) # {}
    BY <1>5, SlotFound
  <2>3. f[p.role] = Len(packs)
    BY <2>1
  <2> HIDE DEF packs, f
  <2>4. QED BY <2>1, <2>2, <2>3
<1> HIDE DEF S, f
<1>7. f[p.role] \in Nat /\ f[p.role] <= Max(S)
  BY <1>2, <1>4, <1>6
<1>8. Max(S) # 0
  BY <1>4, <1>6, <1>7
<1>9. QED BY <1>3, <1>4, <1>8 DEF S

\* A batch is moved up by a natural.
LEMMA ShiftNat ==
  ASSUME PlansFit, NEW o \in Nat
  PROVE  ShiftOf(o) \in Nat
<1> DEFINE D == Indexes \cap 1..(o - 1)
           cost(e) == SlotsOf(e) - 1
           pick == [u \in SUBSET D |-> CHOOSE x \in u : TRUE]
           F == [x \in D \X Nat |-> cost(x[1]) + x[2]]
           Body(f) == [u \in SUBSET D |->
                         IF u = {} THEN 0
                         ELSE cost(CHOOSE x \in u : TRUE) + f[u \ {CHOOSE x \in u : TRUE}]]
           h == CHOOSE f : f = Body(f)
<1>1. ShiftOf(o) = h[D]
  BY DEF ShiftOf, MapThenSumSet, MapThenFoldSet, Indexes
<1>2. IsFiniteSet(D)
  <2>1. 1 \in Int /\ o - 1 \in Int
    OBVIOUS
  <2>2. IsFiniteSet(1..(o - 1))
    BY <2>1, FS_Interval
  <2>3. D \subseteq 1..(o - 1)
    OBVIOUS
  <2> HIDE DEF D
  <2>4. QED BY <2>2, <2>3, FS_Subset
<1>3. \A e \in D : cost(e) \in Nat
  BY SlotsAt
<1>4. \A u \in (SUBSET D) \ {{}} : pick[u] \in u /\ pick[u] \in D
  OBVIOUS
<1>5. \A u \in SUBSET D : pick[u] = CHOOSE x \in u : TRUE
  OBVIOUS
<1>6. \A e \in D, n \in Nat : F[<<e, n>>] = cost(e) + n
  OBVIOUS
<1>7. F \in [D \X Nat -> Nat]
  <2> HIDE DEF D, cost
  <2>1. \A x \in D \X Nat : cost(x[1]) + x[2] \in Nat
    BY <1>3
  <2>2. QED BY <2>1
<1> HIDE DEF D, pick, F, cost
<1>8. PICK g \in [SUBSET D -> Nat] : Folds(g, D, 0, pick, F)
  <2>1. 0 \in Nat
    OBVIOUS
  <2>2. QED BY <1>2, <1>4, <1>7, <2>1, PartsFold
<1>9. g = Body(g)
  <2>1. ASSUME NEW u \in SUBSET D PROVE g[u] = Body(g)[u]
    <3>1. CASE u = {}
      BY <1>8, <3>1 DEF Folds
    <3>2. CASE u # {}
      <4>1. g[u] = F[<<pick[u], g[u \ {pick[u]}]>>]
        BY <1>8, <3>2 DEF Folds
      <4>2. pick[u] \in D /\ g[u \ {pick[u]}] \in Nat
        BY <1>4, <1>8, <3>2
      <4>3. g[u] = cost(pick[u]) + g[u \ {pick[u]}]
        BY <1>6, <4>1, <4>2
      <4>4. QED BY <1>5, <3>2, <4>3
    <3>3. QED BY <3>1, <3>2
  <2> DEFINE G == Body(g)
  <2>2. g = [u \in SUBSET D |-> g[u]] /\ G = [u \in SUBSET D |-> G[u]]
    BY <1>8
  <2> HIDE DEF G
  <2>3. QED BY <2>1, <2>2 DEF G
<1>10. h = Body(h)
  <2> HIDE DEF Body
  <2>1. QED BY <1>9
<1>11. h[{}] = 0
  BY <1>10
<1>12. ASSUME NEW u \in (SUBSET D) \ {{}}
       PROVE  pick[u] \in u /\ h[u] = cost(pick[u]) + h[u \ {pick[u]}]
  <2>1. h[u] = Body(h)[u]
    <3> HIDE DEF Body, h
    <3>1. QED BY <1>10
  <2>2. Body(h)[u] = cost(CHOOSE x \in u : TRUE) + h[u \ {CHOOSE x \in u : TRUE}]
    <3> HIDE DEF h
    <3>1. QED OBVIOUS
  <2>3. pick[u] \in u /\ pick[u] = CHOOSE x \in u : TRUE
    BY <1>4, <1>5
  <2> HIDE DEF Body, h
  <2>4. QED BY <2>1, <2>2, <2>3
<1> HIDE DEF h
<1> DEFINE N == Cardinality(D)
           T == {k \in 0..N : \A u \in SUBSET D : Cardinality(u) = k => h[u] \in Nat}
<1>13. N \in Nat
  BY <1>2, FS_CardinalityType
<1>14. \A u \in SUBSET D : IsFiniteSet(u)
  BY <1>2, FS_Subset
<1>15. 0 \in T
  <2>1. \A u \in SUBSET D : Cardinality(u) = 0 => u = {}
    BY <1>14, FS_EmptySet
  <2>2. h[{}] \in Nat
    BY <1>11
  <2>3. \A u \in SUBSET D : Cardinality(u) = 0 => h[u] \in Nat
    BY <2>1, <2>2, Zenon
  <2>4. QED BY <1>13, <2>3
<1>16. ASSUME NEW k \in 0..(N - 1), k \in T PROVE k + 1 \in T
  <2>1. SUFFICES ASSUME NEW u \in SUBSET D, Cardinality(u) = k + 1 PROVE h[u] \in Nat
    BY <1>13, <1>16
  <2>2. u # {}
    <3>1. Cardinality({}) = 0
      BY FS_EmptySet
    <3>2. k + 1 # 0
      BY <1>13
    <3>3. Cardinality(u) # Cardinality({})
      BY <2>1, <3>1, <3>2
    <3>4. QED BY <3>3, Zenon
  <2> DEFINE v == u \ {pick[u]}
  <2>3. pick[u] \in u /\ h[u] = cost(pick[u]) + h[v]
    BY <1>12, <2>2
  <2>4. Cardinality(v) = Cardinality(u) - 1
    BY <1>14, <2>3, FS_RemoveElement
  <2>5. v \in SUBSET D /\ Cardinality(v) = k
    BY <2>1, <2>4
  <2>6. h[v] \in Nat
    BY <1>16, <2>5
  <2>7. cost(pick[u]) \in Nat
    BY <1>3, <2>3
  <2>8. QED BY <2>3, <2>6, <2>7
<1>17. N \in T
  <2> HIDE DEF T, N
  <2>1. \A k \in 0..N : k \in T
    BY <1>13, <1>15, <1>16, UpTo
  <2>2. QED BY <1>13, <2>1
<1>18. QED BY <1>1, <1>17

\* The gate repacks indexes only.
LEMMA RebatchedFits ==
  ASSUME PlansFit
  PROVE  Renamed(Rebatched) /\ \A i \in 1..Len(plans) : Whole(plans[i]) => Whole(Rebatched[i])
<1> DEFINE N == Len(plans)
           ps == Rebatched
           slot(i) == LET packs == Repacked(Index(plans[i]), plans[i].role)
                      IN CHOOSE k \in DOMAIN packs : plans[i] \in ToSet(packs[k])
           index == [i \in 1..N |-> Index(plans[i]) + ShiftOf(Index(plans[i])) + slot(i) - 1]
<1>1. /\ N \in Nat /\ DOMAIN plans = 1..N
      /\ \A i \in 1..N : plans[i] \in PlanSet /\ plans[i] \in ToSet(plans)
  BY PlansListed
<1>2. ps = [i \in 1..N |-> [plans[i] EXCEPT !.index = index[i]]]
  BY <1>1 DEF Rebatched
<1>3. ASSUME NEW i \in 1..N PROVE index[i] \in Nat
  <2> DEFINE p == plans[i]
             o == Index(p)
             k == slot(i)
  <2>1. o \in Nat
    BY <1>1 DEF Index, PlanSet
  <2>2. k \in Nat \ {0}
    <3> DEFINE packs == Repacked(Index(p), p.role)
    <3>1. /\ DOMAIN packs = 1..Len(packs) /\ Len(packs) \in Nat
          /\ \E j \in DOMAIN packs : p \in ToSet(packs[j])
      BY <1>1, SlotFound
    <3>2. k = CHOOSE j \in DOMAIN packs : p \in ToSet(packs[j])
      OBVIOUS
    <3> HIDE DEF packs, p, k
    <3>3. k \in DOMAIN packs
      BY <3>1, <3>2
    <3>4. QED BY <3>1, <3>3
  <2>3. index[i] = o + ShiftOf(o) + k - 1
    OBVIOUS
  <2> HIDE DEF o, k, index
  <2>4. ShiftOf(o) \in Nat
    BY <2>1, ShiftNat
  <2>5. QED BY <2>1, <2>2, <2>3, <2>4
<1> HIDE DEF index, ps
<1>4. \A i \in 1..N : /\ ps[i] \in PlanSet /\ Name(ps[i]) = Name(plans[i])
                      /\ Whole(plans[i]) => Whole(ps[i])
  BY <1>1, <1>2, <1>3 DEF PlanSet, Name, Whole
<1>5. ps \in Seq(PlanSet) /\ Len(ps) = N
  <2>1. ps \in [1..N -> PlanSet]
    BY <1>2, <1>4
  <2> HIDE DEF N
  <2>2. QED BY <1>1, <2>1, FunctionSeq
<1>6. QED BY <1>4, <1>5 DEF Renamed, ps

-----------------------------------------------------------------------------
(* Batches without a step count *)

\* One by one and end to end, a list is itself.
LEMMA FlattenOnes ==
  ASSUME NEW P, NEW s \in Seq(P)
  PROVE  FlattenSeq(Ones(s)) = s
<1> DEFINE N == Len(s)
           ss == Ones(s)
<1>1. N \in Nat /\ \A n \in 1..N : s[n] \in P
  OBVIOUS
<1>2. \A n \in 1..N : ss[n] = <<s[n]>> /\ ss[n] \in Seq(P)
  BY <1>1 DEF Ones
<1>3. ss \in Seq(Seq(P)) /\ Len(ss) = N
  <2>1. ss \in [1..N -> Seq(P)]
    <3>1. ss = [n \in 1..N |-> ss[n]]
      BY DEF Ones
    <3> HIDE DEF ss, N
    <3>2. QED BY <1>2, <3>1
  <2> HIDE DEF ss, N
  <2>2. QED BY <1>1, <2>1, FunctionSeq
<1> HIDE DEF ss
<1>4. PICK t \in [0..N -> Seq(P)] : /\ t[0] = << >> /\ FlattenSeq(ss) = t[N]
                                    /\ \A n \in 1..N : t[n] = t[n - 1] \o ss[n]
  <2>1. \E t \in [0..Len(ss) -> Seq(P)] :
           /\ t[0] = << >> /\ FlattenSeq(ss) = t[Len(ss)]
           /\ \A n \in 1..Len(ss) : t[n] = t[n - 1] \o ss[n]
    BY <1>3, FlattenUnrolled
  <2>2. QED BY <1>3, <2>1
<1> HIDE DEF N
<1> DEFINE T == {k \in 0..N : Len(t[k]) = k /\ \A i \in 1..k : t[k][i] = s[i]}
<1>5. 0 \in T
  BY <1>1, <1>4
<1>6. ASSUME NEW k \in 0..(N - 1), k \in T PROVE k + 1 \in T
  <2> DEFINE a == t[k]
             b == t[k + 1]
             e == s[k + 1]
  <2>1. k + 1 \in 1..N /\ k + 1 \in 0..N /\ k \in 0..N
    BY <1>1
  <2>2. a \in Seq(P) /\ e \in P /\ Len(a) = k /\ \A i \in 1..k : a[i] = s[i]
    BY <1>1, <1>4, <1>6, <2>1
  <2>3. b = a \o <<e>>
    <3>1. b = t[(k + 1) - 1] \o ss[k + 1] /\ (k + 1) - 1 = k
      <4>1. (k + 1) - 1 = k
        BY <1>1
      <4>2. b = t[(k + 1) - 1] \o ss[k + 1]
        BY <1>4, <2>1, Zenon
      <4>3. QED BY <4>1, <4>2
    <3>2. QED BY <1>2, <2>1, <3>1
  <2> HIDE DEF a, b, e
  <2>4. Len(b) = k + 1 /\ \A i \in 1..k : b[i] = a[i]
    BY <2>2, <2>3
  <2>5. b[k + 1] = e
    BY <2>2, <2>3
  <2>6. \A i \in 1..(k + 1) : b[i] = s[i]
    BY <2>1, <2>2, <2>4, <2>5 DEF e
  <2>7. QED BY <2>1, <2>4, <2>6 DEF b
<1>7. N \in T
  <2> HIDE DEF T
  <2>1. \A k \in 0..N : k \in T
    BY <1>1, <1>5, <1>6, UpTo
  <2>2. QED BY <1>1, <2>1
<1> DEFINE f == t[N]
<1>8. f \in Seq(P) /\ Len(f) = Len(s) /\ \A i \in 1..Len(s) : f[i] = s[i]
  BY <1>1, <1>4, <1>7 DEF N
<1> HIDE DEF f
<1>9. f = s
  BY <1>8, SeqEqual
<1>10. QED BY <1>4, <1>9 DEF f, ss

\* What has no step count is neither blocked nor split.
LEMMA SplitSame ==
  ASSUME batches \in Seq(BatchSet), \A i \in 1..Len(batches) : batches[i].steps = 0
  PROVE  SplitBatches = batches /\ \A i \in 1..Len(batches) : ~Unsplittable(batches[i])
<1>1. StepCap \in Nat
  BY BatchAssumption
<1>2. \A i \in 1..Len(batches) : ~OverStepped(batches[i])
  BY <1>1 DEF OverStepped
<1>3. DOMAIN batches = 1..Len(batches)
  OBVIOUS
<1>4. \A i \in 1..Len(batches) : StepChunks(batches[i]) = <<batches[i]>>
  BY <1>2 DEF StepChunks
<1>5. [i \in DOMAIN batches |-> StepChunks(batches[i])] = Ones(batches)
  BY <1>3, <1>4 DEF Ones
<1>6. SplitBatches = FlattenSeq(Ones(batches))
  BY <1>5 DEF SplitBatches
<1>7. SplitBatches = batches
  <2> HIDE DEF BatchSet
  <2>1. QED BY <1>6, FlattenOnes
<1>8. QED BY <1>2, <1>7 DEF Unsplittable

-----------------------------------------------------------------------------
(* The invariant is inductive *)

\* Before the first batch there is nothing.
LEMMA NothingUpTo == \A bs : PlansUpTo(bs, 0) = {} /\ NamesOf(PlansUpTo(bs, 0)) = {}
BY DEF PlansUpTo, Until, NamesOf

\* The invariant holds at first.
LEMMA InitFits == Init => IInv
<1> SUFFICES ASSUME Init PROVE IInv
  OBVIOUS
<1>1. PICK n \in 1..MaxTasks : \E shape \in [1..n -> Shapes] : \E index \in [1..n -> 0..n] :
        plans = [i \in 1..n |->
          [task |-> i, stage |-> 0, index |-> index[i], role |-> shape[i].role,
           wave |-> shape[i].wave, steps |-> shape[i].steps, tokens |-> shape[i].tokens,
           deps |-> shape[i].deps, shared |-> shape[i].shared, risky |-> shape[i].risky]]
  BY DEF Init
<1>2. PICK shape \in [1..n -> Shapes] : \E index \in [1..n -> 0..n] :
        plans = [i \in 1..n |->
          [task |-> i, stage |-> 0, index |-> index[i], role |-> shape[i].role,
           wave |-> shape[i].wave, steps |-> shape[i].steps, tokens |-> shape[i].tokens,
           deps |-> shape[i].deps, shared |-> shape[i].shared, risky |-> shape[i].risky]]
  BY <1>1
<1>3. PICK index \in [1..n -> 0..n] :
        plans = [i \in 1..n |->
          [task |-> i, stage |-> 0, index |-> index[i], role |-> shape[i].role,
           wave |-> shape[i].wave, steps |-> shape[i].steps, tokens |-> shape[i].tokens,
           deps |-> shape[i].deps, shared |-> shape[i].shared, risky |-> shape[i].risky]]
  BY <1>2
<1>4. n \in Nat \ {0}
  OBVIOUS
<1>5. ASSUME NEW i \in 1..n
      PROVE  plans[i] \in PlanSet /\ plans[i].task = i /\ Whole(plans[i])
  <2> DEFINE s == shape[i]
  <2>1. /\ s \in [role : 1..Roles, wave : 1..LastWave, steps : Nat \ {0},
                  tokens : Nat, deps : BOOLEAN, shared : BOOLEAN, risky : BOOLEAN]
        /\ s.risky => s.wave + 2 <= LastWave
    <3>1. s \in Shapes
      OBVIOUS
    <3> HIDE DEF s
    <3>2. QED BY <3>1, BatchAssumption
  <2>2. index[i] \in Nat /\ i \in Nat
    OBVIOUS
  <2>3. plans[i] = [task |-> i, stage |-> 0, index |-> index[i], role |-> s.role,
                    wave |-> s.wave, steps |-> s.steps, tokens |-> s.tokens,
                    deps |-> s.deps, shared |-> s.shared, risky |-> s.risky]
    BY <1>3
  <2> HIDE DEF s
  <2>4. QED BY <2>1, <2>2, <2>3 DEF PlanSet, Whole
<1>6. plans \in Seq(PlanSet) /\ Len(plans) = n
  <2>1. plans = [i \in 1..n |-> plans[i]]
    BY <1>3
  <2>2. plans \in [1..n -> PlanSet]
    <3> HIDE DEF PlanSet
    <3>1. QED BY <1>5, <2>1
  <2>3. QED BY <1>4, <2>2, FunctionSeq
<1>7. PlansFit
  <2>1. plans # << >>
    BY <1>4, <1>6
  <2>2. \A i, j \in 1..Len(plans) : Name(plans[i]) = Name(plans[j]) => i = j
    BY <1>5, <1>6 DEF Name
  <2>3. \A i \in 1..Len(plans) : Whole(plans[i])
    BY <1>5, <1>6
  <2>4. QED BY <1>6, <2>1, <2>2, <2>3 DEF PlansFit
<1>8. batches = << >> /\ path = "none" /\ stage = "gate" /\ next = 1 /\ done = {}
  BY DEF Init
<1>9. BatchesFit
  BY <1>8 DEF BatchesFit
<1>10. LoopFit
  <2>1. done = NamesOf(PlansUpTo(batches, next - 1))
    BY <1>8, NothingUpTo
  <2>2. QED BY <1>8, <2>1 DEF LoopFit, Before, Making, Loop
<1>11. QED BY <1>7, <1>9, <1>10 DEF IInv

\* Before batches are made there are none.
LEMMA NoneYet ==
  ASSUME IInv, stage \in Before
  PROVE  /\ path = "none" /\ batches = << >> /\ next = 1 /\ done = {}
<1>1. path = "none" /\ batches = << >>
  BY DEF IInv, LoopFit, BatchesFit
<1>2. next = 1
  BY DEF IInv, LoopFit, Before, Loop
<1>3. done = {}
  <2>1. done = NamesOf(PlansUpTo(batches, next - 1)) /\ next - 1 = 0
    BY <1>2 DEF IInv, LoopFit
  <2>2. QED BY <2>1, NothingUpTo
<1>4. QED BY <1>1, <1>2, <1>3

\* A step to another stage before the batches are made, or to the block.
LEMMA BeforeFits ==
  ASSUME IInv, stage \in Before, stage' \in Before \cup {"blocked"}, PlansFit',
         UNCHANGED <<batches, path, next, done>>
  PROVE  IInv'
<1>1. path = "none" /\ batches = << >> /\ next = 1 /\ done = {}
  BY NoneYet
<1>2. path' = "none" /\ batches' = << >> /\ next' = 1 /\ done' = {}
  BY <1>1
<1>3. BatchesFit'
  BY <1>2 DEF BatchesFit
<1>4. LoopFit'
  <2>1. done' = NamesOf(PlansUpTo(batches', next' - 1))
    BY <1>2, NothingUpTo
  <2>2. QED BY <1>2, <2>1 DEF LoopFit, Before, Making, Loop
<1>5. QED BY <1>3, <1>4 DEF IInv

\* A step that changes the stage only.
LEMMA StageFits ==
  ASSUME IInv, UNCHANGED <<plans, batches, path, next, done>>,
         stage' \in Loop \cup {"blocked"}, stage # "cap",
         stage' \in Loop => stage \in Loop, stage' = "blocked" => stage \notin Loop,
         stage' = "running" => next <= Len(batches)
  PROVE  IInv'
<1>1. PlansFit'
  BY DEF IInv, PlansFit, Loop
<1>2. BatchesFit'
  BY DEF IInv, BatchesFit, Dealt
<1>3. LoopFit'
  BY DEF IInv, LoopFit, Before, Making, Loop
<1>4. QED BY <1>1, <1>2, <1>3 DEF IInv

\* Batches made in one of the three ways.
LEMMA MadeFits ==
  ASSUME IInv, stage = "batch", NEW way \in {"prebatched", "tokenFirst", "roleSplit"},
         path' = way, stage' = "cap", UNCHANGED <<plans, next, done>>,
         batches' \in Seq(MadeBy(way)), NEW X, Hold(batches', X), Named(X),
         NamesOf(X) = NamesOf(ToSet(plans)), Ordered(batches', Turns(way))
  PROVE  IInv'
<1>1. next = 1 /\ done = {}
  BY NoneYet DEF Before
<1>2. batches' \in Seq(BatchSet) /\ \A i \in 1..Len(batches') : Made(batches'[i], way)
  <2> DEFINE A == MadeBy(way)
             bs == batches'
  <2>1. A \subseteq BatchSet /\ \A b \in A : Made(b, way)
    BY DEF MadeBy
  <2>2. bs \in Seq(A)
    OBVIOUS
  <2> HIDE DEF A, bs
  <2>3. \A i \in 1..Len(bs) : bs[i] \in A
    BY <2>2
  <2>4. bs \in Seq(BatchSet)
    BY <2>1, <2>2, SeqWider
  <2>5. QED BY <2>1, <2>3, <2>4 DEF bs
<1>3. Dealt' = X
  <2>1. PlansUpTo(batches', Len(batches')) = X
    BY <1>2, HoldDealt
  <2>2. QED BY <2>1 DEF Dealt
<1>4. PlansFit'
  BY DEF IInv, PlansFit
<1>5. BatchesFit'
  <2>1. NamesOf(X) = NamesOf(ToSet(plans'))
    OBVIOUS
  <2>2. QED BY <1>2, <1>3, <2>1 DEF BatchesFit
<1>6. LoopFit'
  <2>1. done' = NamesOf(PlansUpTo(batches', next' - 1))
    BY <1>1, NothingUpTo
  <2>2. Len(batches') \in Nat
    BY <1>2
  <2>3. next' = 1 /\ next' \in 1..(Len(batches') + 1)
    BY <1>1, <2>2
  <2>4. QED BY <2>1, <2>3 DEF LoopFit, Before, Making, Loop
<1>7. QED BY <1>4, <1>5, <1>6 DEF IInv

\* Batches made into others that hold the same plans.
LEMMA RemadeFits ==
  ASSUME IInv, stage \in Making, stage' \in {"tighten", "split", "dispatch"},
         UNCHANGED <<plans, path, next, done>>,
         NEW m \in Nat, m <= MostPlans, batches' \in Seq(Fit(path, m)),
         Hold(batches', Dealt), Ordered(batches', Turns(path))
  PROVE  IInv'
<1>1. path # "none" /\ next = 1 /\ done = {}
  <2>1. path # "none" /\ next = 1
    BY DEF IInv, LoopFit, Making, Loop
  <2>2. done = NamesOf(PlansUpTo(batches, next - 1)) /\ next - 1 = 0
    BY <2>1 DEF IInv, LoopFit
  <2>3. QED BY <2>1, <2>2, NothingUpTo
<1>2. /\ batches' \in Seq(BatchSet)
      /\ \A i \in 1..Len(batches') : Made(batches'[i], path) /\ Len(batches'[i].plans) <= MostPlans
  <2> DEFINE A == Fit(path, m)
             bs == batches'
  <2>1. A \subseteq BatchSet /\ \A b \in A : Made(b, path) /\ Len(b.plans) <= MostPlans
    <3>1. \A b \in BatchSet : Len(b.plans) \in Nat
      BY DEF BatchSet
    <3>2. QED BY <3>1, MostPlansIs DEF Fit
  <2>2. bs \in Seq(A)
    OBVIOUS
  <2> HIDE DEF A, bs
  <2>3. \A i \in 1..Len(bs) : bs[i] \in A
    BY <2>2
  <2>4. bs \in Seq(BatchSet)
    BY <2>1, <2>2, SeqWider
  <2>5. QED BY <2>1, <2>3, <2>4 DEF bs
<1>3. Dealt' = Dealt
  <2>1. PlansUpTo(batches', Len(batches')) = Dealt
    BY <1>2, HoldDealt
  <2>2. QED BY <2>1 DEF Dealt
<1>4. PlansFit'
  BY DEF IInv, PlansFit
<1>5. BatchesFit'
  <2>1. Named(Dealt) /\ NamesOf(Dealt) = NamesOf(ToSet(plans'))
    BY <1>1 DEF IInv, BatchesFit
  <2>2. path' = path /\ path' # "none"
    BY <1>1
  <2> HIDE DEF Dealt
  <2>3. QED BY <1>2, <1>3, <2>1, <2>2 DEF BatchesFit
<1>6. LoopFit'
  <2>1. done' = NamesOf(PlansUpTo(batches', next' - 1))
    BY <1>1, NothingUpTo
  <2>2. Len(batches') \in Nat
    BY <1>2
  <2>3. next' = 1 /\ next' \in 1..(Len(batches') + 1)
    BY <1>1, <2>2
  <2>4. path' \in {"none", "prebatched", "tokenFirst", "roleSplit"} /\ path' # "none"
    BY <1>1 DEF IInv, LoopFit
  <2>5. QED BY <2>1, <2>3, <2>4 DEF LoopFit, Before, Making, Loop
<1>7. QED BY <1>4, <1>5, <1>6 DEF IInv

\* Another list of plans, before the batches are made.
LEMMA PlansFitNext ==
  ASSUME NEW ps \in Seq(PlanSet), ps # << >>, plans' = ps,
         \A i, j \in 1..Len(ps) : Name(ps[i]) = Name(ps[j]) => i = j,
         stage' \in {"gate", "chain"} => \A i \in 1..Len(ps) : Whole(ps[i])
  PROVE  PlansFit'
BY DEF PlansFit

\* The gate admits the plans, repacked or not.
LEMMA GateFits ==
  ASSUME IInv, GateAdmits
  PROVE  IInv'
<1>1. /\ stage = "gate" /\ stage' = "chain" /\ PlansFit
      /\ \A i \in 1..Len(plans) : Whole(plans[i])
      /\ plans' = IF Oversized THEN Rebatched ELSE plans
      /\ UNCHANGED <<batches, path, next, done>>
  BY DEF GateAdmits, IInv, PlansFit
<1>2. CASE Oversized
  <2> DEFINE ps == Rebatched
  <2>1. Renamed(ps) /\ \A i \in 1..Len(plans) : Whole(ps[i])
    BY <1>1, RebatchedFits
  <2>2. plans' = ps
    BY <1>1, <1>2
  <2>3. Len(plans) \in Nat \ {0}
    BY <1>1, PlansListed
  <2> HIDE DEF ps
  <2>4. ps \in Seq(PlanSet) /\ Len(ps) = Len(plans) /\ ps # << >>
    BY <2>1, <2>3 DEF Renamed
  <2>5. \A i, j \in 1..Len(ps) : Name(ps[i]) = Name(ps[j]) => i = j
    BY <1>1, <2>1, <2>4 DEF Renamed, PlansFit
  <2>6. PlansFit'
    BY <2>1, <2>2, <2>4, <2>5, PlansFitNext
  <2>7. QED BY <1>1, <2>6, BeforeFits DEF Before
<1>3. CASE ~Oversized
  <2>1. plans' = plans
    BY <1>1, <1>3
  <2>2. PlansFit'
    BY <1>1, <2>1 DEF PlansFit
  <2>3. QED BY <1>1, <2>2, BeforeFits DEF Before
<1>4. QED BY <1>2, <1>3

\* The chains are made.
LEMMA ChainFits ==
  ASSUME IInv, ExpandChains
  PROVE  IInv'
<1>1. /\ stage = "chain" /\ stage' = "batch" /\ PlansFit
      /\ \A i \in 1..Len(plans) : Whole(plans[i])
      /\ plans' = Expanded
      /\ UNCHANGED <<batches, path, next, done>>
  BY DEF ExpandChains, IInv, PlansFit
<1> DEFINE ps == Expanded
<1>2. /\ ps \in Seq(PlanSet) /\ ps # << >>
      /\ \A i, j \in 1..Len(ps) : Name(ps[i]) = Name(ps[j]) => i = j
  BY <1>1, ExpandedNames
<1>3. plans' = ps
  BY <1>1
<1> HIDE DEF ps
<1>4. PlansFit'
  BY <1>1, <1>2, <1>3, PlansFitNext
<1>5. QED BY <1>1, <1>4, BeforeFits DEF Before

\* Athena's batches are taken.
LEMMA PrebatchFits ==
  ASSUME IInv, UsePrebatched
  PROVE  IInv'
<1> DEFINE X == ToSet(plans)
           way == "prebatched"
<1>1. /\ stage = "batch" /\ stage' = "cap" /\ batches' = PrebatchedBatches /\ path' = way
      /\ UNCHANGED <<plans, next, done>> /\ PlansFit
  BY DEF UsePrebatched, IInv
<1>2. /\ PrebatchedBatches \in Seq(MadeBy("prebatched")) /\ Hold(PrebatchedBatches, X)
      /\ Ordered(PrebatchedBatches, ByWaves)
  BY <1>1, PrebatchedHolds
<1>3. Named(X) /\ Turns(way) = ByWaves
  BY <1>1, PlansListed DEF Turns
<1>4. way \in {"prebatched", "tokenFirst", "roleSplit"} /\ way = "prebatched"
  OBVIOUS
<1>5. /\ batches' \in Seq(MadeBy(way)) /\ Hold(batches', X) /\ Ordered(batches', Turns(way))
      /\ NamesOf(X) = NamesOf(ToSet(plans))
  BY <1>1, <1>2, <1>3
<1> HIDE DEF X, way
<1>6. QED BY <1>1, <1>3, <1>4, <1>5, MadeFits

\* The batches are made by tokens.
LEMMA TokenFirstFits ==
  ASSUME IInv, PackTokenFirst
  PROVE  IInv'
<1> DEFINE way == "tokenFirst"
<1>1. /\ stage = "batch" /\ stage' = "cap" /\ path' = way
      /\ UNCHANGED <<plans, next, done>> /\ PlansFit
  BY DEF PackTokenFirst, IInv
<1>2. PICK fit \in [DOMAIN plans -> 1..Roles], below \in SUBSET (2..Roles) :
             batches' = TokenFirstBatches(Routed(fit, below))
  BY DEF PackTokenFirst
<1> DEFINE ps == Routed(fit, below)
           X == ToSet(ps)
<1>3. Renamed(ps)
  BY <1>1, RoutedFits
<1> HIDE DEF ps
<1>4. /\ X \in SUBSET PlanSet /\ Lists(ps, X) /\ Named(X) /\ ps \in Seq(PlanSet)
      /\ NamesOf(X) = NamesOf(ToSet(plans))
  BY <1>1, <1>3, RenamedListed DEF Renamed
<1> DEFINE bs == TokenFirstBatches(ps)
<1>5. bs \in Seq(MadeBy("tokenFirst")) /\ Hold(bs, X) /\ Ordered(bs, ByRoles)
  BY <1>4, TokenFirstHolds
<1>6. batches' = bs /\ Turns(way) = ByRoles
  BY <1>2 DEF ps, Turns
<1>7. way \in {"prebatched", "tokenFirst", "roleSplit"} /\ way = "tokenFirst"
  OBVIOUS
<1> HIDE DEF X, bs
<1>8. batches' \in Seq(MadeBy(way)) /\ Hold(batches', X) /\ Ordered(batches', Turns(way))
  BY <1>5, <1>6, <1>7
<1> HIDE DEF way
<1>9. QED BY <1>1, <1>4, <1>7, <1>8, MadeFits

\* The batches are made by roles.
LEMMA RoleSplitFits ==
  ASSUME IInv, PackByRole
  PROVE  IInv'
<1> DEFINE X == ToSet(plans)
           way == "roleSplit"
           bs == RoleSplitBatches
<1>1. /\ stage = "batch" /\ stage' = "cap" /\ batches' = bs /\ path' = way
      /\ UNCHANGED <<plans, next, done>> /\ PlansFit
  BY DEF PackByRole, IInv
<1>2. bs \in Seq(MadeBy("tokenFirst")) /\ Hold(bs, X) /\ Ordered(bs, ByWaves)
  BY <1>1, RoleSplitHolds
<1>3. Named(X) /\ Turns(way) = ByWaves
  BY <1>1, PlansListed DEF Turns
<1>4. MadeBy("tokenFirst") \subseteq MadeBy(way)
  BY DEF MadeBy, Made
<1>5. way \in {"prebatched", "tokenFirst", "roleSplit"} /\ NamesOf(X) = NamesOf(ToSet(plans))
  OBVIOUS
<1> HIDE DEF X, way, bs
<1>6. bs \in Seq(MadeBy(way))
  BY <1>2, <1>4, SeqWider
<1>7. batches' \in Seq(MadeBy(way)) /\ Hold(batches', X) /\ Ordered(batches', Turns(way))
  BY <1>1, <1>2, <1>3, <1>6
<1>8. NamesOf(X) = NamesOf(ToSet(plans)) /\ Named(X)
  BY <1>3, <1>5
<1>9. QED BY <1>1, <1>5, <1>7, <1>8, MadeFits

\* What the batches are before they are capped, tightened and split.
LEMMA InMaking ==
  ASSUME IInv, stage \in Making
  PROVE  /\ batches \in Seq(BatchSet) /\ Hold(batches, Dealt) /\ Ordered(batches, Turns(path))
         /\ \A i \in 1..Len(batches) : Made(batches[i], path)
         /\ stage # "cap" => batches \in Seq(Fit(path, MostPlans))
<1>1. path # "none"
  BY DEF IInv, LoopFit
<1>2. /\ batches \in Seq(BatchSet) /\ Hold(batches, Dealt) /\ Ordered(batches, Turns(path))
      /\ \A i \in 1..Len(batches) : Made(batches[i], path)
  BY <1>1 DEF IInv, BatchesFit
<1>3. ASSUME stage # "cap" PROVE batches \in Seq(Fit(path, MostPlans))
  <2>1. \A i \in 1..Len(batches) : Len(batches[i].plans) <= MostPlans
    BY <1>3 DEF IInv, BatchesFit
  <2>2. \A i \in 1..Len(batches) : batches[i] \in BatchSet
    BY <1>2
  <2> DEFINE A == Fit(path, MostPlans)
  <2>3. \A i \in 1..Len(batches) : batches[i] \in A
    BY <1>2, <2>1, <2>2 DEF Fit
  <2> HIDE DEF A
  <2>4. batches \in Seq(A)
    <3> HIDE DEF BatchSet
    <3>1. QED BY <1>2, <2>3
  <2>5. QED BY <2>4 DEF A
<1>4. QED BY <1>2, <1>3

\* The hard cap keeps the invariant.
LEMMA CapFits ==
  ASSUME IInv, ApplyHardCap
  PROVE  IInv'
<1>1. /\ stage = "cap" /\ stage' = "tighten" /\ batches' = CappedBatches
      /\ UNCHANGED <<plans, path, next, done>>
  BY DEF ApplyHardCap
<1>2. /\ batches \in Seq(BatchSet) /\ Hold(batches, Dealt) /\ Ordered(batches, Turns(path))
      /\ \A i \in 1..Len(batches) : Made(batches[i], path)
  BY <1>1, InMaking DEF Making
<1> DEFINE X == Dealt
           way == path
<1> HIDE DEF X
<1>3. /\ CappedBatches \in Seq(Fit(way, MaxPlans)) /\ Hold(CappedBatches, X)
      /\ Ordered(CappedBatches, Turns(way))
  BY <1>2, CapHolds DEF X
<1>4. MaxPlans \in Nat /\ MaxPlans <= MostPlans
  BY MostPlansIs
<1>5. QED BY <1>1, <1>3, <1>4, RemadeFits DEF X, Making

\* The tightening keeps it.
LEMMA TightenFits ==
  ASSUME IInv, Tighten
  PROVE  IInv'
<1>1. /\ stage = "tighten" /\ stage' = "split" /\ batches' = TightBatches
      /\ UNCHANGED <<plans, path, next, done>>
  BY DEF Tighten
<1>2. /\ batches \in Seq(Fit(path, MostPlans)) /\ Hold(batches, Dealt)
      /\ Ordered(batches, Turns(path))
  BY <1>1, InMaking DEF Making
<1> DEFINE X == Dealt
           way == path
<1> HIDE DEF X
<1>3. /\ TightBatches \in Seq(Fit(way, MostPlans)) /\ Hold(TightBatches, X)
      /\ Ordered(TightBatches, Turns(way))
  BY <1>2, TightHolds DEF X
<1>4. MostPlans \in Nat /\ MostPlans <= MostPlans
  BY MostPlansIs
<1>5. QED BY <1>1, <1>3, <1>4, RemadeFits DEF X, Making

\* The split by steps keeps it.
LEMMA SplitFits ==
  ASSUME IInv, SplitOverStepped
  PROVE  IInv'
<1>1. /\ stage = "split" /\ stage' = "dispatch" /\ batches' = SplitBatches
      /\ UNCHANGED <<plans, path, next, done>>
  BY DEF SplitOverStepped
<1>2. /\ batches \in Seq(Fit(path, MostPlans)) /\ Hold(batches, Dealt)
      /\ Ordered(batches, Turns(path))
  BY <1>1, InMaking DEF Making
<1> DEFINE X == Dealt
           way == path
           m == MostPlans
<1>3. m \in Nat /\ m <= MostPlans
  BY MostPlansIs
<1> HIDE DEF X, m
<1>4. /\ SplitBatches \in Seq(Fit(way, m)) /\ Hold(SplitBatches, X)
      /\ Ordered(SplitBatches, Turns(way))
  BY <1>2, <1>3, SplitHolds DEF X, m
<1>5. QED BY <1>1, <1>3, <1>4, RemadeFits DEF X, Making

\* A batch that succeeds adds its plans to what is done.
LEMMA SuccessFits ==
  ASSUME IInv, BatchSucceeds
  PROVE  IInv'
<1>1. /\ stage = "running" /\ stage' = "dispatch" /\ next' = next + 1
      /\ done' = done \cup {Name(batches[next].plans[i]) : i \in DOMAIN batches[next].plans}
      /\ UNCHANGED <<plans, batches, path>>
  BY DEF BatchSucceeds
<1>2. /\ batches \in Seq(BatchSet) /\ next \in 1..Len(batches) /\ path # "none"
      /\ done = NamesOf(PlansUpTo(batches, next - 1))
  <2>1. batches \in Seq(BatchSet)
    BY DEF IInv, BatchesFit
  <2>2. next \in 1..(Len(batches) + 1) /\ next <= Len(batches) /\ path # "none"
    BY <1>1 DEF IInv, LoopFit, Loop
  <2>3. done = NamesOf(PlansUpTo(batches, next - 1))
    BY DEF IInv, LoopFit
  <2>4. Len(batches) \in Nat
    BY <2>1
  <2>5. QED BY <2>1, <2>2, <2>3, <2>4
<1> DEFINE u == PlansOf(batches)
           ps == batches[next].plans
<1>3. Len(u) = Len(batches) /\ u[next] = ps /\ ps \in Seq(PlanSet)
  BY <1>2, PlansOfHeld
<1>4. DOMAIN ps = 1..Len(ps)
  BY <1>3
<1> HIDE DEF u, ps
<1>5. Until(u, next) = Until(u, next - 1) \cup {ps[j] : j \in 1..Len(ps)}
  <2>1. next \in Nat \ {0} /\ 1..next = (1..(next - 1)) \cup {next}
    BY <1>2
  <2>2. QED BY <1>3, <2>1 DEF Until
<1>6. done' = NamesOf(Until(u, next))
  <2>1. done = NamesOf(Until(u, next - 1))
    BY <1>2 DEF PlansUpTo, u
  <2>2. done' = done \cup {Name(ps[j]) : j \in 1..Len(ps)}
    BY <1>1, <1>4 DEF ps
  <2>3. QED BY <1>5, <2>1, <2>2 DEF NamesOf
<1>7. done' = NamesOf(PlansUpTo(batches', next' - 1))
  <2>1. next' - 1 = next /\ batches' = batches
    BY <1>1, <1>2
  <2>2. QED BY <1>6, <2>1 DEF PlansUpTo, u
<1>8. PlansFit'
  BY <1>1 DEF IInv, PlansFit
<1>9. BatchesFit'
  BY <1>1 DEF IInv, BatchesFit, Dealt
<1>10. LoopFit'
  <2>1. next' \in 1..(Len(batches') + 1)
    BY <1>1, <1>2
  <2>2. path' = path /\ path \in {"none", "prebatched", "tokenFirst", "roleSplit"}
    BY <1>1 DEF IInv, LoopFit
  <2>3. QED BY <1>1, <1>2, <1>7, <2>1, <2>2 DEF LoopFit, Before, Making, Loop
<1>11. QED BY <1>8, <1>9, <1>10 DEF IInv

\* Every step keeps the invariant.
LEMMA NextFits ==
  ASSUME IInv, [Next]_vars
  PROVE  IInv'
<1>1. CASE GateBlocks
  <2>1. PlansFit'
    BY <1>1 DEF GateBlocks, IInv, PlansFit
  <2>2. QED BY <1>1, <2>1, BeforeFits DEF GateBlocks, Before
<1>2. CASE GateAdmits
  BY <1>2, GateFits
<1>3. CASE ExpandChains
  BY <1>3, ChainFits
<1>4. CASE UsePrebatched
  BY <1>4, PrebatchFits
<1>5. CASE PackTokenFirst
  BY <1>5, TokenFirstFits
<1>6. CASE PackByRole
  BY <1>6, RoleSplitFits
<1>7. CASE ApplyHardCap
  BY <1>7, CapFits
<1>8. CASE Tighten
  BY <1>8, TightenFits
<1>9. CASE BlockOverStepped
  BY <1>9, StageFits DEF BlockOverStepped, Loop
<1>10. CASE SplitOverStepped
  BY <1>10, SplitFits
<1>11. CASE StartBatch
  BY <1>11, StageFits DEF StartBatch, Loop
<1>12. CASE BatchSucceeds
  BY <1>12, SuccessFits
<1>13. CASE BatchFails
  BY <1>13, StageFits DEF BatchFails, Loop
<1>14. CASE Resume
  BY <1>14, StageFits DEF Resume, Loop
<1>15. CASE CompleteDispatch
  BY <1>15, StageFits DEF CompleteDispatch, Loop
<1>16. CASE UNCHANGED vars
  <2>1. UNCHANGED <<plans, batches, path, stage, next, done>>
    BY <1>16 DEF vars
  <2>2. PlansFit'
    BY <2>1 DEF IInv, PlansFit
  <2>3. BatchesFit'
    BY <2>1 DEF IInv, BatchesFit, Dealt
  <2>4. LoopFit'
    BY <2>1 DEF IInv, LoopFit
  <2>5. QED BY <2>2, <2>3, <2>4 DEF IInv
<1>17. QED
  BY <1>1, <1>2, <1>3, <1>4, <1>5, <1>6, <1>7, <1>8, <1>9, <1>10, <1>11, <1>12, <1>13,
     <1>14, <1>15, <1>16 DEF Next

\* What every reachable state is: the plans in the batches that they were dealt to,
\* and the plans of the batches before the next one done.
THEOREM Invariant == Spec => []IInv
<1>1. Init => IInv
  BY InitFits
<1>2. IInv /\ [Next]_vars => IInv'
  BY NextFits
<1>3. QED
  BY <1>1, <1>2, PTL DEF Spec

-----------------------------------------------------------------------------
(* What the invariant says *)

\* What a batch of a list that holds plans is.
LEMMA HeldBatches ==
  ASSUME IInv, path # "none"
  PROVE  /\ batches \in Seq(BatchSet) /\ DOMAIN batches = 1..Len(batches)
         /\ Deals(PlansOf(batches), Dealt) /\ PlansOf(batches) \in Seq(Seq(PlanSet))
         /\ NamesOf(Dealt) = NamesOf(ToSet(plans)) /\ Named(Dealt)
         /\ \A i \in 1..Len(batches) :
               /\ batches[i] \in BatchSet /\ batches[i].plans \in Seq(PlanSet)
               /\ batches[i].plans # << >> /\ Made(batches[i], path)
               /\ DOMAIN batches[i].plans = 1..Len(batches[i].plans)
<1>1. /\ batches \in Seq(BatchSet) /\ Hold(batches, Dealt) /\ Named(Dealt)
      /\ NamesOf(Dealt) = NamesOf(ToSet(plans))
      /\ \A i \in 1..Len(batches) : Made(batches[i], path)
  BY DEF IInv, BatchesFit
<1>2. /\ PlansOf(batches) \in Seq(Seq(PlanSet)) /\ Len(PlansOf(batches)) = Len(batches)
      /\ \A i \in 1..Len(batches) : /\ batches[i] \in BatchSet /\ batches[i].plans \in Seq(PlanSet)
                                    /\ PlansOf(batches)[i] = batches[i].plans
  BY <1>1, PlansOfHeld
<1>3. \A i \in 1..Len(batches) : /\ batches[i].plans # << >>
                                 /\ DOMAIN batches[i].plans = 1..Len(batches[i].plans)
  <2>1. SUFFICES ASSUME NEW i \in 1..Len(batches)
                 PROVE  /\ batches[i].plans # << >>
                        /\ DOMAIN batches[i].plans = 1..Len(batches[i].plans)
    OBVIOUS
  <2> DEFINE s == batches[i].plans
  <2>2. s # << >>
    BY <1>1, <1>2 DEF Hold, Full
  <2>3. s \in Seq(PlanSet)
    BY <1>2
  <2> HIDE DEF s
  <2>4. DOMAIN s = 1..Len(s)
    BY <2>3
  <2>5. QED BY <2>2, <2>4 DEF s
<1>4. DOMAIN batches = 1..Len(batches)
  BY <1>1
<1>5. QED BY <1>1, <1>2, <1>3, <1>4 DEF Hold

\* What is done is among what was dealt.
LEMMA DoneDealt ==
  ASSUME IInv
  PROVE  /\ done \subseteq NamesOf(Dealt)
         /\ path = "none" => done = {}
<1>1. /\ done = NamesOf(PlansUpTo(batches, next - 1)) /\ next \in 1..(Len(batches) + 1)
      /\ batches \in Seq(BatchSet)
  BY DEF IInv, LoopFit, BatchesFit
<1>2. Len(batches) \in Nat
  BY <1>1
<1>3. 1..(next - 1) \subseteq 1..Len(batches)
  BY <1>1, <1>2
<1>4. PlansUpTo(batches, next - 1) \subseteq Dealt
  BY <1>3 DEF PlansUpTo, Until, Dealt
<1>5. path = "none" => done = {}
  <2>1. path = "none" => batches = << >>
    BY DEF IInv, BatchesFit
  <2>2. ASSUME path = "none" PROVE done = {}
    <3>1. Len(batches) = 0
      BY <2>1, <2>2
    <3>2. next - 1 = 0
      BY <1>1, <3>1
    <3>3. QED BY <1>1, <3>2, NothingUpTo
  <2>3. QED BY <2>2
<1>6. QED BY <1>1, <1>4, <1>5 DEF NamesOf

\* The invariant says what the types are.
LEMMA TypesHold ==
  ASSUME IInv
  PROVE  TypeOK
<1>1. /\ DOMAIN plans = 1..Len(plans) /\ \A i \in 1..Len(plans) : plans[i] \in PlanSet
      /\ ToSet(plans) = {plans[i] : i \in 1..Len(plans)}
  BY PlansListed DEF IInv
<1>2. \A i \in DOMAIN plans :
         /\ plans[i].role \in 1..Roles /\ plans[i].wave \in 1..LastWave
         /\ plans[i].stage \in 0..3 /\ plans[i].index \in Nat
  BY <1>1 DEF PlanSet
<1>3. path \in {"none", "prebatched", "tokenFirst", "roleSplit"} /\ stage \in Stages
  BY DEF IInv, LoopFit, Before, Making, Loop, Stages
<1>4. \A i \in DOMAIN batches :
         /\ batches[i].role \in 1..Roles /\ batches[i].wave \in 1..LastWave
         /\ stage # "cap" => Len(batches[i].plans) \in 1..Max({MaxPlans, MaxMerged})
  <2>1. CASE path = "none"
    BY <2>1 DEF IInv, BatchesFit
  <2>2. CASE path # "none"
    <3>1. SUFFICES ASSUME NEW i \in DOMAIN batches
                   PROVE  /\ batches[i].role \in 1..Roles /\ batches[i].wave \in 1..LastWave
                          /\ stage # "cap" => Len(batches[i].plans) \in 1..Max({MaxPlans, MaxMerged})
      OBVIOUS
    <3> DEFINE b == batches[i]
    <3>2. b \in BatchSet /\ b.plans \in Seq(PlanSet) /\ b.plans # << >> /\ i \in 1..Len(batches)
      BY <2>2, HeldBatches
    <3>3. stage # "cap" => Len(b.plans) <= MostPlans
      BY <3>2 DEF IInv, BatchesFit
    <3> HIDE DEF b
    <3>4. b.role \in 1..Roles /\ b.wave \in 1..LastWave
      BY <3>2 DEF BatchSet
    <3>5. Len(b.plans) \in Nat \ {0} /\ MostPlans \in Nat
      BY <3>2, MostPlansIs
    <3>6. stage # "cap" => Len(b.plans) \in 1..MostPlans
      BY <3>3, <3>5
    <3>7. QED BY <3>4, <3>6 DEF MostPlans, b
  <2>3. QED BY <2>1, <2>2
<1>5. stage = "running" => next \in DOMAIN batches
  <2>1. ASSUME stage = "running" PROVE next \in DOMAIN batches
    <3>1. path # "none" /\ next \in 1..(Len(batches) + 1) /\ next <= Len(batches)
      BY <2>1 DEF IInv, LoopFit, Loop
    <3>2. batches \in Seq(BatchSet) /\ DOMAIN batches = 1..Len(batches)
      BY <3>1, HeldBatches
    <3>3. QED BY <3>1, <3>2
  <2>2. QED BY <2>1
<1>6. done \subseteq {Name(plans[i]) : i \in DOMAIN plans}
  <2>1. NamesOf(ToSet(plans)) = {Name(plans[i]) : i \in DOMAIN plans}
    BY <1>1 DEF NamesOf
  <2>2. path # "none" => NamesOf(Dealt) = NamesOf(ToSet(plans))
    BY HeldBatches
  <2>3. QED BY <2>1, <2>2, DoneDealt
<1>7. QED BY <1>2, <1>3, <1>4, <1>5, <1>6 DEF TypeOK

\* A list of differently named plans has as many as there are names.
LEMMA NamesLen ==
  ASSUME NEW s \in Seq(PlanSet), NEW X, Lists(s, X), Named(X)
  PROVE  Cardinality(NamesOf(X)) = Len(s)
<1> DEFINE N == Len(s)
           W == NamesOf(X)
           ns == [i \in 1..N |-> Name(s[i])]
<1>1. N \in Nat /\ \A i \in 1..N : s[i] \in X
  BY DEF Lists
<1>2. \A i \in 1..N : ns[i] = Name(s[i]) /\ ns[i] \in W
  BY <1>1 DEF NamesOf
<1>3. ns \in Seq(W) /\ Len(ns) = N
  <2>1. ns \in [1..N -> W]
    <3> HIDE DEF W
    <3>1. QED BY <1>2
  <2> HIDE DEF ns, N
  <2>2. QED BY <1>1, <2>1, FunctionSeq
<1> HIDE DEF ns
<1>4. Lists(ns, W)
  <2>1. \A x \in W : \E i \in 1..N : ns[i] = x
    BY <1>2 DEF NamesOf, Lists
  <2>2. \A i, j \in 1..N : ns[i] = ns[j] => i = j
    BY <1>1, <1>2 DEF Lists, Named
  <2>3. QED BY <1>2, <1>3, <2>1, <2>2 DEF Lists
<1> HIDE DEF W
<1>5. Cardinality(W) = Len(ns)
  BY <1>3, <1>4, ListsLen
<1>6. QED BY <1>3, <1>5 DEF W

\* The invariant says that every plan is in one batch.
LEMMA OncePlanned ==
  ASSUME IInv
  PROVE  EveryPlanOnce
<1> SUFFICES ASSUME path # "none"
             PROVE  /\ Len(BatchPlans) = Len(plans)
                    /\ {Name(p) : p \in ToSet(BatchPlans)} = {Name(p) : p \in ToSet(plans)}
  BY DEF EveryPlanOnce
<1> DEFINE f == BatchPlans
           u == PlansOf(batches)
<1>1. /\ Deals(u, Dealt) /\ u \in Seq(Seq(PlanSet)) /\ DOMAIN batches = 1..Len(batches)
      /\ NamesOf(Dealt) = NamesOf(ToSet(plans)) /\ Named(Dealt)
  BY HeldBatches
<1>2. f = FlattenSeq(u)
  BY <1>1 DEF BatchPlans, PlansOf
<1>3. f \in Seq(PlanSet) /\ Lists(f, Dealt)
  <2> HIDE DEF f, u
  <2>1. QED BY <1>1, <1>2, FlattenLists
<1>4. /\ plans \in Seq(PlanSet) /\ Lists(plans, ToSet(plans)) /\ Named(ToSet(plans))
  BY PlansListed DEF IInv
<1> DEFINE X == Dealt
           Y == ToSet(plans)
<1> HIDE DEF f, u, X, Y
<1>5. Cardinality(NamesOf(X)) = Len(f)
  BY <1>1, <1>3, NamesLen DEF X
<1>6. Cardinality(NamesOf(Y)) = Len(plans)
  BY <1>4, NamesLen DEF Y
<1>7. ToSet(f) = X
  <2>1. ToSet(f) = {f[i] : i \in 1..Len(f)}
    BY <1>3 DEF ToSet
  <2>2. QED BY <1>3, <2>1 DEF Lists, X
<1>8. NamesOf(X) = NamesOf(Y)
  BY <1>1 DEF X, Y
<1>9. Len(f) = Len(plans)
  BY <1>5, <1>6, <1>8
<1>10. NamesOf(ToSet(f)) = NamesOf(ToSet(plans))
  BY <1>7, <1>8 DEF Y
<1>11. QED BY <1>9, <1>10 DEF NamesOf, f

\* The invariant says that earlier waves are done.
LEMMA WavesOrdered ==
  ASSUME IInv
  PROVE  WavesInTurn
<1> SUFFICES ASSUME stage = "running"
             PROVE  \A b \in ToSet(batches) :
                      IF path = "prebatched"
                        THEN b.wave < batches[next].wave => \A p \in ToSet(b.plans) : Name(p) \in done
                        ELSE \A p \in ToSet(b.plans), q \in ToSet(batches[next].plans) :
                               p.wave < q.wave /\ (path = "roleSplit" \/ p.role = q.role)
                                 => Name(p) \in done
  BY DEF WavesInTurn
<1>1. /\ path \in {"prebatched", "tokenFirst", "roleSplit"} /\ path # "none"
      /\ next \in 1..(Len(batches) + 1) /\ next <= Len(batches)
      /\ done = NamesOf(PlansUpTo(batches, next - 1))
  BY DEF IInv, LoopFit, Loop
<1>2. /\ batches \in Seq(BatchSet) /\ DOMAIN batches = 1..Len(batches)
      /\ \A i \in 1..Len(batches) :
            /\ batches[i] \in BatchSet /\ batches[i].plans \in Seq(PlanSet)
            /\ Made(batches[i], path)
            /\ DOMAIN batches[i].plans = 1..Len(batches[i].plans)
  BY <1>1, HeldBatches
<1>3. Len(batches) \in Nat /\ next \in 1..Len(batches)
  BY <1>1, <1>2
<1>4. Ordered(batches, Turns(path))
  BY <1>1 DEF IInv, BatchesFit
<1> SUFFICES ASSUME NEW i \in 1..Len(batches)
             PROVE  IF path = "prebatched"
                      THEN batches[i].wave < batches[next].wave =>
                             \A p \in ToSet(batches[i].plans) : Name(p) \in done
                      ELSE \A p \in ToSet(batches[i].plans), q \in ToSet(batches[next].plans) :
                             p.wave < q.wave /\ (path = "roleSplit" \/ p.role = q.role)
                               => Name(p) \in done
  BY <1>2 DEF ToSet
<1> DEFINE b == batches[i]
           c == batches[next]
<1>5. b \in BatchSet /\ c \in BatchSet /\ Made(b, path) /\ Made(c, path)
  BY <1>2, <1>3
<1>6. ToSet(b.plans) = {b.plans[j] : j \in 1..Len(b.plans)}
  BY <1>2 DEF ToSet
<1>7. ToSet(c.plans) = {c.plans[j] : j \in 1..Len(c.plans)}
  BY <1>2, <1>3 DEF ToSet
<1>8. i < next => \A p \in ToSet(b.plans) : Name(p) \in done
  <2>1. ASSUME i < next, NEW j \in 1..Len(b.plans) PROVE Name(b.plans[j]) \in done
    <3>1. i \in 1..(next - 1)
      BY <1>3, <2>1
    <3>2. Len(PlansOf(batches)) = Len(batches) /\ PlansOf(batches)[i] = b.plans
      BY <1>2, PlansOfHeld
    <3>3. b.plans[j] \in PlansUpTo(batches, next - 1)
      <4> HIDE DEF b
      <4>1. QED BY <2>1, <3>1, <3>2 DEF PlansUpTo, Until
    <3>4. QED BY <1>1, <3>3 DEF NamesOf
  <2>2. QED BY <1>6, <2>1
<1>9. next < i => <<c, b>> \in Turns(path)
  BY <1>3, <1>4 DEF Ordered
<1>10. next = i => c = b
  OBVIOUS
<1>11. i < next \/ next < i \/ next = i
  BY <1>3
<1> HIDE DEF b, c
<1>12. b.role \in Nat /\ c.role \in Nat /\ b.wave \in Nat /\ c.wave \in Nat
  BY <1>5 DEF BatchSet
<1>13. CASE path = "prebatched"
  <2>1. b.wave < c.wave => i < next
    BY <1>9, <1>10, <1>11, <1>12, <1>13 DEF Turns, ByWaves
  <2>2. QED BY <1>8, <1>13, <2>1 DEF b, c
<1>14. CASE path # "prebatched"
  <2>1. /\ \A p \in ToSet(b.plans) : p.wave = b.wave /\ (path = "tokenFirst" => p.role = b.role)
        /\ \A q \in ToSet(c.plans) : q.wave = c.wave /\ (path = "tokenFirst" => q.role = c.role)
    BY <1>5, <1>6, <1>7, <1>14 DEF Made
  <2>2. b.wave < c.wave /\ (path = "roleSplit" \/ b.role = c.role) => i < next
    <3>1. CASE path = "roleSplit"
      BY <1>9, <1>10, <1>11, <1>12, <3>1 DEF Turns, ByWaves
    <3>2. CASE path = "tokenFirst"
      BY <1>9, <1>10, <1>11, <1>12, <3>2 DEF Turns, ByRoles
    <3>3. QED BY <1>1, <1>14, <3>1, <3>2
  <2>3. ASSUME NEW p \in ToSet(b.plans), NEW q \in ToSet(c.plans),
               p.wave < q.wave, path = "roleSplit" \/ p.role = q.role
        PROVE  Name(p) \in done
    <3>1. b.wave < c.wave
      BY <2>1, <2>3
    <3>2. path = "roleSplit" \/ b.role = c.role
      BY <1>1, <1>14, <2>1, <2>3
    <3>3. QED BY <1>8, <2>2, <3>1, <3>2
  <2>4. QED BY <1>14, <2>3 DEF b, c
<1>15. QED BY <1>13, <1>14 DEF b, c

\* The split leaves Athena's batches as they are.
LEMMA PrebatchedKept ==
  ASSUME IInv, Next, path = "prebatched", stage = "split"
  PROVE  batches' = batches /\ stage' = "dispatch"
<1>1. batches \in Seq(BatchSet) /\ \A i \in 1..Len(batches) : Made(batches[i], path)
  BY DEF IInv, BatchesFit
<1>2. \A i \in 1..Len(batches) : batches[i].steps = 0
  BY <1>1 DEF Made
<1>3. SplitBatches = batches /\ \A i \in 1..Len(batches) : ~Unsplittable(batches[i])
  BY <1>1, <1>2, SplitSame
<1>4. DOMAIN batches = 1..Len(batches)
  BY <1>1
<1>5. ~BlockOverStepped
  BY <1>3, <1>4 DEF BlockOverStepped
<1>6. SplitOverStepped
  BY <1>5 DEF Next, GateBlocks, GateAdmits, ExpandChains, UsePrebatched, PackTokenFirst,
     PackByRole, ApplyHardCap, Tighten, StartBatch, BatchSucceeds, BatchFails, Resume,
     CompleteDispatch
<1>7. QED BY <1>3, <1>6 DEF SplitOverStepped

-----------------------------------------------------------------------------
(* Totals *)

\* The total of no plan.
LEMMA TotalEmpty ==
  ASSUME NEW P, NEW cost, Costs(P, cost)
  PROVE  Total(<< >>, cost) = 0
<1>1. << >> \in Seq(P) /\ Len(<< >>) = 0
  OBVIOUS
<1>2. PICK t \in [0..Len(<< >>) -> Nat] : TotalSteps(t, << >>, cost)
  BY <1>1, TotalUnrolled
<1>3. QED BY <1>1, <1>2 DEF TotalSteps

\* t adds up the costs of s, plan by plan.
Sums(t, s, cost) ==
  /\ t[0] = 0 /\ Total(s, cost) = t[Len(s)]
  /\ \A k \in 0..Len(s) : t[k] \in Nat
  /\ \A k \in 1..Len(s) : t[k] = t[k - 1] + s[k][cost]

\* Every list of costs adds up.
LEMMA SumsExist ==
  ASSUME NEW P, NEW cost, Costs(P, cost), NEW s \in Seq(P)
  PROVE  \E t : Sums(t, s, cost)
<1>1. PICK t \in [0..Len(s) -> Nat] : TotalSteps(t, s, cost)
  BY TotalUnrolled
<1>2. Sums(t, s, cost)
  BY <1>1 DEF Sums, TotalSteps, TotalStep
<1>3. QED BY <1>2

\* The first n of r are the n of s that follow its first a.
Agree(r, s, a, n) ==
  a + n <= Len(s) /\ n <= Len(r) /\ \A k \in 1..n : r[k] = s[a + k]

\* The sums of lists that agree from a place on go up alike.
LEMMA SumsAgree ==
  ASSUME NEW P, NEW cost, Costs(P, cost), NEW s \in Seq(P), NEW r \in Seq(P),
         NEW a \in Nat, NEW n \in Nat, Agree(r, s, a, n),
         NEW t, Sums(t, s, cost), NEW u, Sums(u, r, cost)
  PROVE  t[a + n] = t[a] + u[n] /\ t[a] \in Nat /\ u[n] \in Nat
<1> DEFINE T == {k \in 0..n : t[a + k] = t[a] + u[k]}
           L == Len(s)
           M == Len(r)
<1>1. /\ L \in Nat /\ M \in Nat /\ a \in 0..L /\ n \in 0..M /\ a + 0 = a
      /\ a + n <= L /\ n <= M /\ \A k \in 1..n : r[k] = s[a + k]
  BY DEF Agree
<1>2. t[a] \in Nat /\ u[n] \in Nat /\ u[0] = 0
  BY <1>1 DEF Sums
<1>3. 0 \in T
  <2>1. t[a + 0] = t[a] + u[0] /\ 0 \in 0..n
    BY <1>1, <1>2
  <2>2. QED BY <2>1
<1>4. ASSUME NEW k \in 0..(n - 1), k \in T PROVE k + 1 \in T
  <2>1. /\ k + 1 \in 0..n /\ k + 1 \in 1..n /\ k + 1 \in 1..M /\ a + (k + 1) \in 1..L
        /\ (k + 1) - 1 = k /\ a + (k + 1) - 1 = a + k /\ k \in 0..M
    BY <1>1
  <2> DEFINE c == r[k + 1][cost]
             uk == u[k]
             ta == t[a]
             tk == t[a + k]
  <2>2. r[k + 1] = s[a + (k + 1)] /\ r[k + 1] \in P
    BY <1>1, <2>1
  <2>3. c \in Nat /\ c = s[a + (k + 1)][cost]
    BY <2>2 DEF Costs
  <2>4. t[a + (k + 1)] = tk + c
    BY <2>1, <2>3 DEF Sums
  <2>5. u[k + 1] = uk + c /\ uk \in Nat
    BY <2>1 DEF Sums
  <2>6. tk = ta + uk
    BY <1>4
  <2>7. ta \in Nat
    BY <1>2
  <2> HIDE DEF c, uk, ta, tk
  <2>8. t[a + (k + 1)] = ta + u[k + 1]
    BY <2>3, <2>4, <2>5, <2>6, <2>7
  <2>9. QED BY <2>1, <2>8 DEF ta
<1>5. n \in T
  <2> HIDE DEF T
  <2>1. \A k \in 0..n : k \in T
    BY <1>3, <1>4, UpTo
  <2>2. QED BY <1>1, <2>1
<1>6. QED BY <1>2, <1>5

\* The total of two lists, one after the other.
LEMMA TotalConcat ==
  ASSUME NEW P, NEW cost, Costs(P, cost), NEW s \in Seq(P), NEW r \in Seq(P)
  PROVE  Total(s \o r, cost) = Total(s, cost) + Total(r, cost)
<1> DEFINE w == s \o r
           L == Len(s)
           M == Len(r)
<1>1. /\ w \in Seq(P) /\ L \in Nat /\ M \in Nat /\ Len(w) = L + M
      /\ L = Len(s) /\ M = Len(r)
      /\ \A i \in 1..(L + M) : w[i] = IF i <= L THEN s[i] ELSE r[i - L]
  BY ConcatProperties
<1> HIDE DEF w, L, M
<1>2. PICK t : Sums(t, w, cost)
  BY <1>1, SumsExist
<1>3. PICK u : Sums(u, s, cost)
  BY SumsExist
<1>4. PICK v : Sums(v, r, cost)
  BY SumsExist
<1>5. t[L] = u[L] /\ u[L] \in Nat
  <2>1. PICK a \in Nat : a = 0
    OBVIOUS
  <2>2. Agree(s, w, a, L)
    BY <1>1, <2>1 DEF Agree
  <2>3. t[a + L] = t[a] + u[L] /\ t[a] \in Nat /\ u[L] \in Nat
    <3>1. w \in Seq(P) /\ s \in Seq(P) /\ L \in Nat /\ a \in Nat
      BY <1>1
    <3>2. Costs(P, cost) /\ Sums(t, w, cost) /\ Sums(u, s, cost)
      BY <1>2, <1>3
    <3>3. QED BY <2>2, <3>1, <3>2, SumsAgree, Zenon
  <2>4. t[a] = 0 /\ a + L = L
    BY <1>1, <1>2, <2>1 DEF Sums
  <2>5. QED BY <2>3, <2>4
<1>6. t[L + M] = t[L] + v[M]
  <2>1. ASSUME NEW k \in 1..M PROVE r[k] = w[L + k]
    <3>1. L + k \in 1..(L + M) /\ ~(L + k <= L) /\ (L + k) - L = k
      BY <1>1
    <3>2. QED BY <1>1, <3>1
  <2>2. Agree(r, w, L, M)
    BY <1>1, <2>1 DEF Agree
  <2>3. w \in Seq(P) /\ r \in Seq(P) /\ L \in Nat /\ M \in Nat
    BY <1>1
  <2>4. Costs(P, cost) /\ Sums(t, w, cost) /\ Sums(v, r, cost)
    BY <1>2, <1>4
  <2>5. t[L + M] = t[L] + v[M] /\ t[L] \in Nat /\ v[M] \in Nat
    BY <2>2, <2>3, <2>4, SumsAgree, Zenon
  <2>6. QED BY <2>5
<1>7. Total(w, cost) = t[L + M] /\ Total(s, cost) = u[L] /\ Total(r, cost) = v[M]
  BY <1>1, <1>2, <1>3, <1>4 DEF Sums
<1>8. QED BY <1>5, <1>6, <1>7 DEF w, L, M

\* The total of one plan, and of one more.
LEMMA TotalAppend ==
  ASSUME NEW P, NEW cost, Costs(P, cost), NEW s \in Seq(P), NEW p \in P
  PROVE  /\ Total(<<p>>, cost) = p[cost]
         /\ Total(Append(s, p), cost) = Total(s, cost) + p[cost]
<1> DEFINE o == <<p>>
<1>1. o \in Seq(P) /\ Len(o) = 1 /\ o[1] = p /\ p[cost] \in Nat
  BY DEF Costs
<1>2. Append(s, p) = s \o o
  BY AppendIsConcat
<1> HIDE DEF o
<1>3. Total(o, cost) = p[cost]
  <2>1. PICK t : Sums(t, o, cost)
    BY <1>1, SumsExist
  <2>2. t[0] = 0 /\ 1 \in 1..Len(o) /\ 1 - 1 = 0
    BY <1>1, <2>1 DEF Sums
  <2>3. t[1] = t[1 - 1] + o[1][cost]
    BY <2>1, <2>2 DEF Sums
  <2>4. QED BY <1>1, <2>1, <2>2, <2>3 DEF Sums
<1>4. Total(Append(s, p), cost) = Total(s, cost) + Total(o, cost)
  BY <1>1, <1>2, TotalConcat
<1>5. QED BY <1>3, <1>4 DEF o

\* A stretch of a list costs no more than the list.
LEMMA TotalSub ==
  ASSUME NEW P, NEW cost, Costs(P, cost), NEW ps \in Seq(P),
         NEW a \in Nat, NEW b \in Nat, a <= b, b <= Len(ps)
  PROVE  /\ SubSeq(ps, a + 1, b) \in Seq(P) /\ Len(SubSeq(ps, a + 1, b)) = b - a
         /\ \A k \in 1..(b - a) : SubSeq(ps, a + 1, b)[k] = ps[a + k]
         /\ Total(SubSeq(ps, a + 1, b), cost) <= Total(ps, cost)
<1> DEFINE s == SubSeq(ps, a + 1, b)
           L == Len(ps)
<1>1. L \in Nat /\ b - a \in Nat /\ a \in 0..L /\ b \in 0..L
  OBVIOUS
<1>2. /\ s \in Seq(P) /\ Len(s) = b - a
      /\ \A k \in 1..(b - a) : s[k] = ps[a + k]
  <2>1. a + 1 \in 1..(L + 1) /\ b \in (a + 1 - 1)..L
    BY <1>1
  <2>2. s \in Seq(P) /\ Len(s) = b - a
    BY <1>1
  <2>3. ASSUME NEW k \in 1..(b - a) PROVE s[k] = ps[a + k]
    <3>1. s[k] = ps[(a + 1) + k - 1] /\ (a + 1) + k - 1 = a + k
      BY <1>1
    <3>2. QED BY <3>1
  <2>4. QED BY <2>2, <2>3
<1> HIDE DEF s
<1>3. PICK t : Sums(t, ps, cost)
  BY SumsExist
<1>4. PICK u : Sums(u, s, cost)
  BY <1>2, SumsExist
<1> DEFINE d == b - a
<1>5. t[b] = t[a] + u[d] /\ t[a] \in Nat /\ u[d] \in Nat
  <2>1. d \in Nat /\ a + d = b /\ Agree(s, ps, a, d)
    BY <1>1, <1>2 DEF Agree
  <2> HIDE DEF d
  <2>2. t[a + d] = t[a] + u[d] /\ t[a] \in Nat /\ u[d] \in Nat
    BY <1>2, <1>3, <1>4, <2>1, SumsAgree
  <2>3. QED BY <2>1, <2>2
<1>6. t[b] <= t[L]
  <2> DEFINE T == {k \in 0..(L - b) : t[b] <= t[b + k]}
  <2>1. L - b \in Nat /\ b + (L - b) = L /\ b + 0 = b
    BY <1>1
  <2>2. t[b] \in Nat
    BY <1>1, <1>3 DEF Sums
  <2>3. 0 \in T
    BY <2>1, <2>2
  <2>4. ASSUME NEW k \in 0..((L - b) - 1), k \in T PROVE k + 1 \in T
    <3>1. /\ k + 1 \in 0..(L - b) /\ b + (k + 1) \in 1..L /\ b + (k + 1) - 1 = b + k
          /\ b + k \in 0..L
      BY <1>1
    <3> DEFINE c == ps[b + (k + 1)][cost]
               x == t[b + k]
               y == t[b + (k + 1)]
    <3>2. c \in Nat
      <4>1. ps[b + (k + 1)] \in P
        BY <3>1
      <4>2. QED BY <4>1 DEF Costs
    <3>3. y = x + c /\ x \in Nat
      <4> DEFINE m == b + (k + 1)
      <4>1. m \in 1..L /\ m - 1 = b + k
        BY <3>1
      <4>2. t[m] = t[m - 1] + ps[m][cost]
        <5> HIDE DEF m
        <5>1. QED BY <1>3, <4>1 DEF Sums
      <4>3. t[b + k] \in Nat
        BY <1>3, <3>1 DEF Sums
      <4>4. QED BY <4>1, <4>2, <4>3
    <3>4. t[b] <= x
      BY <2>4
    <3> HIDE DEF c, x, y
    <3>5. t[b] <= y
      BY <2>2, <3>2, <3>3, <3>4
    <3>6. QED BY <3>1, <3>5 DEF y
  <2>5. L - b \in T
    <3> HIDE DEF T
    <3>1. \A k \in 0..(L - b) : k \in T
      BY <2>1, <2>3, <2>4, UpTo
    <3>2. QED BY <2>1, <3>1
  <2>6. QED BY <2>1, <2>5
<1>7. t[L] \in Nat /\ t[b] \in Nat
  BY <1>1, <1>3 DEF Sums
<1>8. Total(s, cost) = u[d] /\ Total(ps, cost) = t[L]
  BY <1>2, <1>3, <1>4 DEF Sums
<1>9. Total(s, cost) <= Total(ps, cost)
  <2> HIDE DEF d, L
  <2>1. QED BY <1>5, <1>6, <1>7, <1>8
<1>10. QED BY <1>2, <1>9 DEF s

-----------------------------------------------------------------------------
(* Packs and batches that fit the context *)

\* A pack may go to a model: it is a single plan, or has room in the context
\* (unless it was tightened after the role split), and the role split keeps it
\* short when it has dependencies.
Fine(s, way) ==
  /\ way # "tightened" /\ Len(s) > 1 => Total(s, "tokens") <= Usable
  /\ way # "tokenFirst" /\ HasDeps(s) => Len(s) <= DepCap

FinePacks(way) == {s \in Seq(PlanSet) : Fine(s, way)}

\* What s could be cut into: no longer, no dearer, no dependency of its own.
Pieces(s) ==
  {c \in Seq(PlanSet) : /\ Len(c) <= Len(s) /\ Total(c, "tokens") <= Total(s, "tokens")
                        /\ HasDeps(c) => HasDeps(s)}

\* A batch that the cycle made: the model's context, plans that may go to a model
\* and, where tokens come first, tokens that are at least what its plans cost.
Roomy(way) ==
  {b \in BatchSet : /\ b.usable = Usable /\ Fine(b.plans, way)
                    /\ way = "tokenFirst" => Total(b.plans, "tokens") <= b.tokens}

\* What may go to a model may go in pieces.
LEMMA PiecesFine ==
  ASSUME NEW way, NEW s \in FinePacks(way), NEW c \in Pieces(s)
  PROVE  c \in FinePacks(way)
<1>1. s \in Seq(PlanSet) /\ c \in Seq(PlanSet) /\ Fine(s, way)
  BY DEF FinePacks, Pieces
<1>2. Total(s, "tokens") \in Nat /\ Total(c, "tokens") \in Nat
  BY <1>1, PlanCosts, TotalNat
<1>3. Len(s) \in Nat /\ Len(c) \in Nat
  BY <1>1
<1>4. Usable \in Nat /\ DepCap \in Nat
  BY BatchAssumption
<1> DEFINE L == Len(s)
           M == Len(c)
           x == Total(s, "tokens")
           y == Total(c, "tokens")
<1>5. /\ way # "tightened" /\ L > 1 => x <= Usable
      /\ way # "tokenFirst" /\ HasDeps(s) => L <= DepCap
      /\ M <= L /\ y <= x /\ (HasDeps(c) => HasDeps(s))
  BY <1>1 DEF Fine, Pieces
<1>6. L \in Nat /\ M \in Nat /\ x \in Nat /\ y \in Nat
  BY <1>2, <1>3
<1> HIDE DEF L, M, x, y
<1>7. way # "tightened" /\ M > 1 => y <= Usable
  BY <1>4, <1>5, <1>6
<1>8. way # "tokenFirst" /\ HasDeps(c) => M <= DepCap
  BY <1>4, <1>5, <1>6
<1>9. QED BY <1>1, <1>7, <1>8 DEF FinePacks, Fine, M, y

\* A single plan may go.
LEMMA OneFine ==
  ASSUME NEW way, NEW p \in PlanSet
  PROVE  <<p>> \in FinePacks(way)
<1>1. <<p>> \in Seq(PlanSet) /\ Len(<<p>>) = 1
  OBVIOUS
<1>2. 1 <= DepCap /\ ~(1 > 1)
  BY BatchAssumption
<1>3. QED BY <1>1, <1>2 DEF FinePacks, Fine

\* Plans of a list that starts empty and keeps to Q are in Q at the end.
LEMMA StaysIn ==
  ASSUME NEW N \in Nat, NEW Q, NEW t, t[0] = << >>,
         \A n \in 1..N : t[n - 1] \in Seq(Q) => t[n] \in Seq(Q)
  PROVE  t[N] \in Seq(Q)
<1> DEFINE T == {n \in 0..N : t[n] \in Seq(Q)}
<1>1. 0 \in T
  <2>1. << >> \in Seq(Q) /\ 0 \in 0..N
    OBVIOUS
  <2>2. QED BY <2>1
<1>2. ASSUME NEW k \in 0..(N - 1), k \in T PROVE k + 1 \in T
  <2>1. k + 1 \in 1..N /\ k + 1 \in 0..N /\ (k + 1) - 1 = k
    OBVIOUS
  <2>2. t[k + 1] \in Seq(Q)
    <3>1. t[(k + 1) - 1] \in Seq(Q)
      BY <1>2, <2>1
    <3>2. QED BY <2>1, <3>1
  <2>3. QED BY <2>1, <2>2
<1>3. N \in T
  <2> HIDE DEF T
  <2>1. \A k \in 0..N : k \in T
    BY <1>1, <1>2, UpTo
  <2>2. QED BY <2>1
<1>4. QED BY <1>3

\* A list keeps to Q when an element of Q is added or put in the place of another.
LEMMA KeptIn ==
  ASSUME NEW Q, NEW out \in Seq(Q), NEW e \in Q, NEW new,
         \/ new = Append(out, e)
         \/ \E i \in 1..Len(out) : new = [out EXCEPT ![i] = e]
  PROVE  new \in Seq(Q)
<1>1. CASE new = Append(out, e)
  BY <1>1, AppendProperties
<1>2. CASE \E i \in 1..Len(out) : new = [out EXCEPT ![i] = e]
  BY <1>2, ExceptSeq
<1>3. QED BY <1>1, <1>2

\* A pack with room for a plan may go with it.
LEMMA FinePlus ==
  ASSUME NEW s \in Seq(PlanSet), NEW p \in PlanSet, Total(s, "tokens") + p.tokens <= Usable
  PROVE  Append(s, p) \in FinePacks("tokenFirst")
<1>1. Append(s, p) \in Seq(PlanSet)
  BY AppendProperties
<1>2. Total(Append(s, p), "tokens") = Total(s, "tokens") + p["tokens"]
  BY PlanCosts, TotalAppend
<1>3. QED BY <1>1, <1>2 DEF FinePacks, Fine

\* First fit makes packs that may go.
LEMMA FirstFitFine ==
  ASSUME NEW ps \in Seq(PlanSet)
  PROVE  FirstFit(ps) \in Seq(FinePacks("tokenFirst"))
<1> DEFINE Q == FinePacks("tokenFirst")
           N == Len(ps)
<1>1. PICK t \in [0..N -> Seq(Seq(PlanSet))] : FirstFitSteps(t, ps)
  BY FirstFitUnrolled
<1>2. N \in Nat /\ t[0] = << >> /\ FirstFit(ps) = t[N]
  BY <1>1 DEF FirstFitSteps
<1>3. ASSUME NEW n \in 1..N, t[n - 1] \in Seq(Q) PROVE t[n] \in Seq(Q)
  <2> DEFINE out == t[n - 1]
             new == t[n]
             p == ps[n]
             fits == {i \in DOMAIN out :
                        /\ Total(out[i], "tokens") + p.tokens <= Usable
                        /\ \A j \in DOMAIN out[i] : ~(p.shared /\ out[i][j].shared)}
  <2>1. /\ p \in PlanSet /\ out \in Seq(Q)
        /\ new = IF fits = {} THEN Append(out, <<p>>)
                              ELSE [out EXCEPT ![Min(fits)] = Append(@, p)]
    <3>1. new = FirstFitStep(n, out, ps)
      BY <1>1 DEF FirstFitSteps
    <3>2. p \in PlanSet /\ out \in Seq(Q)
      <4> HIDE DEF Q
      <4>1. QED BY <1>3
    <3> HIDE DEF out, new, p, Q
    <3>3. new = IF fits = {} THEN Append(out, <<p>>)
                              ELSE [out EXCEPT ![Min(fits)] = Append(@, p)]
      BY <3>1 DEF FirstFitStep, p
    <3>4. QED BY <3>2, <3>3
  <2>2. fits \in SUBSET (1..Len(out)) /\ fits \in SUBSET Nat
    <3>1. DOMAIN out = 1..Len(out)
      <4> HIDE DEF Q, out
      <4>1. QED BY <2>1
    <3>2. QED BY <3>1
  <2>3. \A i \in fits : Total(out[i], "tokens") + p.tokens <= Usable
    OBVIOUS
  <2> HIDE DEF out, new, p, fits, Q
  <2>4. CASE fits = {}
    <3>1. <<p>> \in Q
      BY <2>1, OneFine DEF Q
    <3>2. new = Append(out, <<p>>)
      BY <2>1, <2>4
    <3>3. new \in Seq(Q)
      BY <2>1, <3>1, <3>2, KeptIn
    <3>4. QED BY <3>3 DEF new
  <2>5. CASE fits # {}
    <3> DEFINE i == Min(fits)
               s == out[i]
               e == Append(s, p)
    <3>1. i \in fits
      BY <2>2, <2>5, LeastNat DEF Min
    <3>2. i \in 1..Len(out) /\ new = [out EXCEPT ![i] = e]
      BY <2>1, <2>2, <2>5, <3>1
    <3>3. s \in Q /\ s \in Seq(PlanSet) /\ Total(s, "tokens") + p.tokens <= Usable
      <4>1. s \in Q
        BY <2>1, <3>2
      <4>2. QED BY <2>3, <3>1, <4>1 DEF Q, FinePacks
    <3> HIDE DEF i, s
    <3>4. e \in Q
      BY <2>1, <3>3, FinePlus DEF Q
    <3> HIDE DEF e
    <3>5. new \in Seq(Q)
      BY <2>1, <3>2, <3>4, KeptIn
    <3>6. QED BY <3>5 DEF new
  <2>6. QED BY <2>4, <2>5
<1>4. t[N] \in Seq(Q)
  <2> HIDE DEF Q, N
  <2>1. QED BY <1>2, <1>3, StaysIn
<1>5. QED BY <1>2, <1>4

\* Packs filled in turn up to the context may go.
LEMMA PackedFine ==
  ASSUME NEW ps \in Seq(PlanSet)
  PROVE  PackedBy(ps, "tokens", Usable) \in Seq(FinePacks("tokenFirst"))
<1> DEFINE Q == FinePacks("tokenFirst")
           N == Len(ps)
<1>1. PICK t \in [0..N -> Seq(Seq(PlanSet))] : PackedBySteps(t, ps, "tokens", Usable)
  BY PackedByUnrolled
<1>2. N \in Nat /\ t[0] = << >> /\ PackedBy(ps, "tokens", Usable) = t[N]
  BY <1>1 DEF PackedBySteps
<1>3. ASSUME NEW n \in 1..N, t[n - 1] \in Seq(Q) PROVE t[n] \in Seq(Q)
  <2> DEFINE out == t[n - 1]
             new == t[n]
             p == ps[n]
             L == Len(out)
  <2>1. /\ p \in PlanSet /\ out \in Seq(Q)
        /\ new = IF out # << >> /\ Total(Last(out), "tokens") + p["tokens"] <= Usable
                   THEN [out EXCEPT ![L] = Append(@, p)] ELSE Append(out, <<p>>)
    BY <1>1, <1>3 DEF PackedBySteps, PackedByStep
  <2> HIDE DEF out, new, p, Q
  <2>2. CASE out # << >> /\ Total(Last(out), "tokens") + p["tokens"] <= Usable
    <3> DEFINE s == out[L]
               e == Append(s, p)
    <3>1. L \in 1..L /\ Last(out) = s /\ new = [out EXCEPT ![L] = e]
      BY <2>1, <2>2 DEF Last
    <3>2. s \in Q /\ s \in Seq(PlanSet) /\ Total(s, "tokens") + p.tokens <= Usable
      <4>1. s \in Q
        BY <2>1, <3>1
      <4>2. QED BY <2>2, <3>1, <4>1 DEF Q, FinePacks
    <3> HIDE DEF s
    <3>3. e \in Q
      BY <2>1, <3>2, FinePlus DEF Q
    <3> HIDE DEF e
    <3>4. new \in Seq(Q)
      BY <2>1, <3>1, <3>3, KeptIn
    <3>5. QED BY <3>4 DEF new
  <2>3. CASE ~(out # << >> /\ Total(Last(out), "tokens") + p["tokens"] <= Usable)
    <3>1. <<p>> \in Q
      BY <2>1, OneFine DEF Q
    <3>2. new = Append(out, <<p>>)
      BY <2>1, <2>3
    <3>3. new \in Seq(Q)
      BY <2>1, <3>1, <3>2, KeptIn
    <3>4. QED BY <3>3 DEF new
  <2>4. QED BY <2>2, <2>3
<1>4. t[N] \in Seq(Q)
  <2> HIDE DEF Q, N
  <2>1. QED BY <1>2, <1>3, StaysIn
<1>5. QED BY <1>2, <1>4

\* A stretch of a list is a piece of it.
LEMMA SubPiece ==
  ASSUME NEW s \in Seq(PlanSet), NEW a \in Nat, NEW b \in Nat, a <= b, b <= Len(s)
  PROVE  SubSeq(s, a + 1, b) \in Pieces(s) /\ Len(SubSeq(s, a + 1, b)) = b - a
<1> DEFINE c == SubSeq(s, a + 1, b)
           L == Len(s)
<1>1. /\ c \in Seq(PlanSet) /\ Len(c) = b - a
      /\ \A k \in 1..(b - a) : c[k] = s[a + k]
      /\ Total(c, "tokens") <= Total(s, "tokens")
  BY PlanCosts, TotalSub
<1>2. L \in Nat /\ DOMAIN s = 1..L /\ DOMAIN c = 1..(b - a)
  <2> HIDE DEF c
  <2>1. QED BY <1>1
<1> HIDE DEF c
<1>3. Len(c) <= L
  BY <1>1, <1>2
<1>4. HasDeps(c) => HasDeps(s)
  <2>1. \A k \in 1..(b - a) : a + k \in 1..L
    BY <1>2
  <2>2. QED BY <1>1, <1>2, <2>1 DEF HasDeps
<1>5. QED BY <1>1, <1>3, <1>4 DEF Pieces, c

\* Chunks are pieces, of at most n plans.
LEMMA ChunkedPieces ==
  ASSUME NEW s \in Seq(PlanSet), NEW n \in Nat \ {0}
  PROVE  Chunked(s, n) \in Seq({c \in Pieces(s) : Len(c) <= n})
<1> DEFINE L == Len(s)
           K == (L + n - 1) \div n
           Q == {c \in Pieces(s) : Len(c) <= n}
           cs == [k \in 1..K |-> SubSeq(s, (k - 1) * n + 1, Min({k * n, L}))]
<1>1. Chunked(s, n) = cs
  BY DEF Chunked
<1>2. L \in Nat
  OBVIOUS
<1>3. /\ K \in Nat
      /\ \A k \in 1..K : /\ (k - 1) * n \in Nat /\ k * n = (k - 1) * n + n
                         /\ (k - 1) * n < L
  <2> HIDE DEF L
  <2>1. QED BY <1>2, ChunkPlaces
<1>4. ASSUME NEW k \in 1..K PROVE cs[k] \in Q
  <2> DEFINE a == (k - 1) * n
             r == k * n
             b == Min({r, L})
             c == SubSeq(s, a + 1, b)
  <2>1. a \in Nat /\ r = a + n /\ a < L
    <3> HIDE DEF K, L
    <3>1. QED BY <1>3
  <2>2. cs[k] = c
    OBVIOUS
  <2> HIDE DEF a, r, cs, K, L
  <2>3. r \in Nat
    BY <2>1
  <2>4. b = IF r <= L THEN r ELSE L
    BY <1>2, <2>3 DEF Min
  <2> HIDE DEF b
  <2>5. b \in Nat /\ a <= b /\ b <= L /\ b - a <= n
    BY <1>2, <2>1, <2>3, <2>4
  <2>6. c \in Pieces(s) /\ Len(c) = b - a
    BY <2>1, <2>5, SubPiece DEF L
  <2>7. QED BY <2>2, <2>5, <2>6
<1>5. cs \in Seq(Q)
  <2>1. cs = [k \in 1..K |-> cs[k]] /\ K \in Nat
    BY <1>3
  <2> HIDE DEF cs, Q, K
  <2>2. cs \in [1..K -> Q]
    BY <1>4, <2>1
  <2>3. QED BY <2>1, <2>2, FunctionSeq
<1>6. QED BY <1>1, <1>5

\* Cut where they have dependencies, packs may go in the role split.
LEMMA CutFine ==
  ASSUME NEW full \in Seq(FinePacks("tokenFirst"))
  PROVE  FlattenSeq(CutPacks(full)) \in Seq(FinePacks("roleSplit"))
<1> DEFINE Q == FinePacks("roleSplit")
           zz == CutPacks(full)
           N == Len(full)
<1>1. /\ N \in Nat /\ DOMAIN full = 1..N /\ DepCap \in Nat \ {0}
      /\ \A k \in 1..N : full[k] \in FinePacks("tokenFirst")
  <2>1. DepCap \in Nat \ {0}
    BY BatchAssumption
  <2> DEFINE A == FinePacks("tokenFirst")
  <2>2. full \in Seq(A)
    OBVIOUS
  <2> HIDE DEF A
  <2>3. N \in Nat /\ DOMAIN full = 1..N /\ \A k \in 1..N : full[k] \in A
    BY <2>2
  <2>4. QED BY <2>1, <2>3 DEF A
<1>2. zz = [k \in 1..N |-> IF HasDeps(full[k]) THEN Chunked(full[k], DepCap) ELSE <<full[k]>>]
  BY <1>1 DEF CutPacks
<1>3. ASSUME NEW k \in 1..N PROVE zz[k] \in Seq(Q)
  <2> DEFINE s == full[k]
             A == {c \in Pieces(s) : Len(c) <= DepCap}
  <2>1. s \in FinePacks("tokenFirst") /\ s \in Seq(PlanSet)
    BY <1>1 DEF FinePacks
  <2>2. zz[k] = IF HasDeps(s) THEN Chunked(s, DepCap) ELSE <<s>>
    BY <1>2
  <2> HIDE DEF s, zz
  <2>3. CASE HasDeps(s)
    <3>1. ASSUME NEW c \in A PROVE c \in Q
      <4>1. c \in FinePacks("tokenFirst")
        BY <2>1, PiecesFine
      <4>2. QED BY <4>1 DEF FinePacks, Fine
    <3>2. Chunked(s, DepCap) \in Seq(A)
      BY <1>1, <2>1, ChunkedPieces
    <3> HIDE DEF A, Q
    <3>3. Chunked(s, DepCap) \in Seq(Q)
      BY <3>1, <3>2, SeqWider
    <3>4. QED BY <2>2, <2>3, <3>3
  <2>4. CASE ~HasDeps(s)
    <3>1. s \in Q
      BY <2>1, <2>4 DEF FinePacks, Fine
    <3> HIDE DEF Q
    <3>2. <<s>> \in Seq(Q)
      BY <3>1
    <3>3. QED BY <2>2, <2>4, <3>2
  <2>5. QED BY <2>3, <2>4
<1>4. zz \in Seq(Seq(Q))
  <2> DEFINE S == Seq(Q)
  <2> HIDE DEF S, zz, N
  <2>1. zz = [k \in 1..N |-> zz[k]]
    BY <1>2
  <2>2. zz \in [1..N -> S]
    BY <1>3, <2>1 DEF S
  <2>3. QED BY <1>1, <2>2, FunctionSeq DEF S
<1>5. QED
  <2> HIDE DEF zz, Q
  <2>1. FlattenSeq(zz) \in Seq(Q)
    BY <1>4, FlattenPlaces
  <2>2. QED BY <2>1 DEF zz, Q

\* Compaction looks at the room before it joins two packs.
LEMMA CompactedFine ==
  ASSUME NEW packs \in Seq(FinePacks("roleSplit"))
  PROVE  Compacted(packs) \in Seq(FinePacks("roleSplit"))
<1> DEFINE Q == FinePacks("roleSplit")
           N == Len(packs)
<1>1. packs \in Seq(Q) /\ packs \in Seq(Seq(PlanSet)) /\ N \in Nat
  <2>1. Q \subseteq Seq(PlanSet) /\ packs \in Seq(Q)
    BY DEF FinePacks
  <2> HIDE DEF Q
  <2>2. packs \in Seq(Seq(PlanSet))
    BY <2>1, SeqWider
  <2>3. QED BY <2>1, <2>2
<1>2. PICK t \in [0..N -> Seq(Seq(PlanSet))] : CompactedSteps(t, packs)
  BY <1>1, PlanCosts, CompactedUnrolled
<1>3. t[0] = << >> /\ Compacted(packs) = t[N]
  BY <1>2 DEF CompactedSteps
<1>4. ASSUME NEW n \in 1..N, t[n - 1] \in Seq(Q) PROVE t[n] \in Seq(Q)
  <2> DEFINE out == t[n - 1]
             new == t[n]
             c == packs[n]
  <2>1. c \in Q /\ out \in Seq(Q) /\ new = CompactedStep(n, out, packs)
    <3>1. c \in Q
      <4> HIDE DEF Q
      <4>1. QED BY <1>1
    <3>2. QED BY <1>2, <1>4, <3>1 DEF CompactedSteps
  <2>2. \/ new = Append(out, c)
        \/ \E i \in 1..Len(out) :
              /\ new = [out EXCEPT ![i] = out[i] \o c]
              /\ Total(out[i] \o c, "tokens") <= Usable
              /\ HasDeps(out[i] \o c) => Len(out[i] \o c) <= DepCap
    <3>1. out \in Seq(Seq(PlanSet))
      <4>1. n - 1 \in 0..N
        BY <1>1
      <4> HIDE DEF N
      <4>2. QED BY <1>2, <4>1
    <3> HIDE DEF out, new, c, Q
    <3>2. new = CompactedStep(n, out, packs) /\ c = packs[n]
      BY <2>1 DEF c
    <3>3. \/ new = Append(out, c)
          \/ \E i \in 1..Len(out) :
                /\ new = [out EXCEPT ![i] = @ \o c]
                /\ Total(out[i] \o c, "tokens") <= Usable
                /\ HasDeps(out[i] \o c) => Len(out[i] \o c) <= DepCap
      BY <1>1, <3>1, <3>2, PlanCosts, CompactedChoice
    <3>4. QED BY <3>3
  <2> HIDE DEF out, new, c, Q
  <2>3. CASE new = Append(out, c)
    <3>1. new \in Seq(Q)
      BY <2>1, <2>3, KeptIn
    <3>2. QED BY <3>1 DEF new
  <2>4. CASE \E i \in 1..Len(out) :
              /\ new = [out EXCEPT ![i] = out[i] \o c]
              /\ Total(out[i] \o c, "tokens") <= Usable
              /\ HasDeps(out[i] \o c) => Len(out[i] \o c) <= DepCap
    <3>1. PICK i \in 1..Len(out) :
              /\ new = [out EXCEPT ![i] = out[i] \o c]
              /\ Total(out[i] \o c, "tokens") <= Usable
              /\ HasDeps(out[i] \o c) => Len(out[i] \o c) <= DepCap
      BY <2>4
    <3> DEFINE e == out[i] \o c
    <3>2. out[i] \in Seq(PlanSet) /\ c \in Seq(PlanSet)
      <4>1. out[i] \in Q
        BY <2>1
      <4>2. QED BY <2>1, <4>1 DEF Q, FinePacks
    <3>3. e \in Seq(PlanSet)
      BY <3>2, ConcatProperties
    <3>4. e \in Q
      BY <3>1, <3>3 DEF Q, FinePacks, Fine
    <3> HIDE DEF e
    <3>5. new = [out EXCEPT ![i] = e]
      BY <3>1 DEF e
    <3>6. new \in Seq(Q)
      BY <2>1, <3>4, <3>5, KeptIn
    <3>7. QED BY <3>6 DEF new
  <2>5. QED BY <2>2, <2>3, <2>4
<1>5. t[N] \in Seq(Q)
  <2> HIDE DEF Q, N
  <2>1. QED BY <1>1, <1>3, <1>4, StaysIn
<1>6. QED BY <1>3, <1>5

\* The packs of a role in a wave may go.
LEMMA RoleWavePacksFine ==
  ASSUME NEW ps \in Seq(PlanSet)
  PROVE  RoleWavePacks(ps) \in Seq(FinePacks("roleSplit"))
<1> DEFINE full == PackedBy(ps, "tokens", Usable)
<1>1. RoleWavePacks(ps) = Compacted(FlattenSeq(CutPacks(full)))
  BY DEF RoleWavePacks, CutPacks
<1>2. full \in Seq(FinePacks("tokenFirst"))
  BY PackedFine
<1> HIDE DEF full
<1>3. QED BY <1>1, <1>2, CutFine, CompactedFine

-----------------------------------------------------------------------------
(* Batches that fit stay so *)

\* A batch made of a pack that may go has room.
LEMMA BatchRoomy ==
  ASSUME NEW way, NEW r \in 1..Roles, NEW w \in 1..LastWave, NEW ps \in FinePacks(way)
  PROVE  Batch(r, w, ps) \in Roomy(way)
<1>1. ps \in Seq(PlanSet) /\ Fine(ps, way)
  BY DEF FinePacks
<1>2. Total(ps, "tokens") \in Nat
  BY <1>1, PlanCosts, TotalNat
<1>3. Batch(r, w, ps) \in BatchSet /\ Batch(r, w, ps).plans = ps
  BY <1>1, BatchFields
<1>4. Batch(r, w, ps).usable = Usable /\ Batch(r, w, ps).tokens = Total(ps, "tokens")
  BY DEF Batch
<1>5. QED BY <1>1, <1>2, <1>3, <1>4 DEF Roomy

\* The batches of a role in a wave.
LEMMA TurnRoomy ==
  ASSUME NEW way, NEW r \in 1..Roles, NEW w \in 1..LastWave, NEW packs \in Seq(FinePacks(way))
  PROVE  TurnBatches(r, w, packs) \in Seq(Roomy(way))
<1> DEFINE z == TurnBatches(r, w, packs)
           N == Len(packs)
           A == FinePacks(way)
           B == Roomy(way)
<1>1. N \in Nat /\ DOMAIN packs = 1..N /\ \A k \in 1..N : packs[k] \in A
  <2> HIDE DEF A
  <2>1. packs \in Seq(A)
    BY DEF A
  <2>2. QED BY <2>1
<1>2. z = [k \in 1..N |-> Batch(r, w, packs[k])]
  BY <1>1 DEF TurnBatches
<1>3. \A k \in 1..N : Batch(r, w, packs[k]) \in B
  BY <1>1, BatchRoomy
<1> HIDE DEF z, N, A, B
<1>4. z \in [1..N -> B]
  BY <1>2, <1>3
<1>5. z \in Seq(B)
  BY <1>1, <1>4, FunctionSeq
<1>6. QED BY <1>5 DEF z, B

\* What a list of lists is made of, its elements laid end to end are.
LEMMA FlattenIn ==
  ASSUME NEW Q, NEW n \in Nat, NEW zz, zz = [i \in 1..n |-> zz[i]],
         \A i \in 1..n : zz[i] \in Seq(Q)
  PROVE  FlattenSeq(zz) \in Seq(Q)
<1> DEFINE S == Seq(Q)
<1>1. zz \in [1..n -> S]
  OBVIOUS
<1> HIDE DEF S
<1>2. zz \in Seq(S)
  BY <1>1, FunctionSeq
<1>3. QED BY <1>2, FlattenPlaces DEF S

\* What Among and ByWave pick out of a list is of its kind.
LEMMA AmongIn ==
  ASSUME NEW P, NEW s \in Seq(P), NEW X
  PROVE  Among(s, X) \in Seq(P)
<1>1. PICK t \in [0..Len(s) -> Seq(P)] : AmongSteps(t, s, X)
  BY AmongUnrolled
<1>2. Len(s) \in 0..Len(s)
  OBVIOUS
<1>3. QED BY <1>1, <1>2 DEF AmongSteps

\* A list sorted by wave is of its kind.
LEMMA ByWaveIn ==
  ASSUME NEW P, NEW s \in Seq(P)
  PROVE  ByWave(s) \in Seq(P)
<1> DEFINE zz == [w \in 1..LastWave |-> Among(s, {e \in ToSet(s) : e.wave = w})]
<1>1. LastWave \in Nat
  BY BatchAssumption
<1>2. zz = [w \in 1..LastWave |-> zz[w]] /\ \A w \in 1..LastWave : zz[w] \in Seq(P)
  BY AmongIn
<1>3. ByWave(s) = FlattenSeq(zz)
  BY DEF ByWave
<1> HIDE DEF zz
<1>4. QED BY <1>1, <1>2, <1>3, FlattenIn

\* Token-first batches have room.
LEMMA TokenFirstRoomy ==
  ASSUME NEW ps \in Seq(PlanSet)
  PROVE  TokenFirstBatches(ps) \in Seq(Roomy("tokenFirst"))
<1> DEFINE Q == Roomy("tokenFirst")
           yy == [r \in 1..Roles |-> FlattenSeq(FirstFits(ps, r))]
<1>1. Roles \in Nat /\ LastWave \in Nat
  BY BatchAssumption
<1>2. TokenFirstBatches(ps) = FlattenSeq(yy)
  BY DEF TokenFirstBatches, FirstFits, TurnBatches, TurnPlans
<1>3. ASSUME NEW r \in 1..Roles PROVE yy[r] \in Seq(Q)
  <2> DEFINE zz == FirstFits(ps, r)
  <2>1. ASSUME NEW w \in 1..LastWave PROVE zz[w] \in Seq(Q)
    <3>1. TurnPlans(ps, r, w) \in Seq(PlanSet)
      BY AmongIn DEF TurnPlans
    <3>2. FirstFit(TurnPlans(ps, r, w)) \in Seq(FinePacks("tokenFirst"))
      BY <3>1, FirstFitFine
    <3>3. zz[w] = TurnBatches(r, w, FirstFit(TurnPlans(ps, r, w)))
      BY DEF FirstFits
    <3>4. QED BY <3>2, <3>3, TurnRoomy
  <2>2. zz = [w \in 1..LastWave |-> zz[w]]
    BY DEF FirstFits
  <2>3. yy[r] = FlattenSeq(zz)
    OBVIOUS
  <2> HIDE DEF zz, yy, Q
  <2>4. QED BY <1>1, <2>1, <2>2, <2>3, FlattenIn
<1>4. yy = [r \in 1..Roles |-> yy[r]]
  OBVIOUS
<1> HIDE DEF yy, Q
<1>5. FlattenSeq(yy) \in Seq(Q)
  BY <1>1, <1>3, <1>4, FlattenIn
<1>6. QED BY <1>2, <1>5 DEF Q

\* The batches of a role in a wave, whatever tokens they are said to have.
LEMMA RoleWaveRoomy ==
  ASSUME NEW r \in 1..Roles, NEW w \in 1..LastWave, NEW ps \in Seq(PlanSet)
  PROVE  RoleWaveBatches(r, w, ps) \in Seq(Roomy("roleSplit"))
<1> DEFINE packs == RoleWavePacks(ps)
           full == PackedBy(ps, "tokens", Usable)
           z == RoleWaveBatches(r, w, ps)
           N == Len(packs)
           B == Roomy("roleSplit")
<1>1. N \in Nat /\ \A k \in 1..N : packs[k] \in FinePacks("roleSplit")
  <2> DEFINE A == FinePacks("roleSplit")
  <2>1. packs \in Seq(A)
    BY RoleWavePacksFine
  <2> HIDE DEF A, packs
  <2>2. N \in Nat /\ \A k \in 1..N : packs[k] \in A
    BY <2>1
  <2>3. QED BY <2>2 DEF A
<1>2. packs \in Seq(Seq(PlanSet)) /\ full \in Seq(Seq(PlanSet))
  <2>1. \A way : FinePacks(way) \subseteq Seq(PlanSet)
    BY DEF FinePacks
  <2>2. full \in Seq(FinePacks("tokenFirst")) /\ packs \in Seq(FinePacks("roleSplit"))
    BY PackedFine, RoleWavePacksFine
  <2> HIDE DEF full, packs
  <2>3. full \in Seq(Seq(PlanSet))
    BY <2>1, <2>2, SeqWider
  <2>4. packs \in Seq(Seq(PlanSet))
    BY <2>1, <2>2, SeqWider
  <2>5. QED BY <2>3, <2>4
<1>3. Carries(z, packs, r, w) /\ \A k \in 1..N : z[k].usable = Usable
  <2> HIDE DEF z
  <2>1. z = RoleWaveBatches(r, w, ps)
    BY DEF z
  <2>2. QED BY <1>2, <2>1, RoleWaveFields
<1> HIDE DEF packs, z
<1>4. ASSUME NEW k \in 1..N PROVE z[k] \in B
  <2>1. z[k] \in BatchSet /\ z[k].plans = packs[k] /\ z[k].usable = Usable
    BY <1>3 DEF Carries
  <2>2. Fine(packs[k], "roleSplit")
    BY <1>1 DEF FinePacks
  <2>3. QED BY <2>1, <2>2 DEF Roomy
<1>5. z = [k \in 1..N |-> z[k]]
  BY <1>3 DEF Carries
<1> HIDE DEF N, B
<1>6. z \in [1..N -> B]
  BY <1>4, <1>5
<1>7. z \in Seq(B)
  BY <1>1, <1>6, FunctionSeq
<1>8. QED BY <1>7 DEF z, B

\* So have the batches of the role split.
LEMMA RoleSplitRoomy ==
  ASSUME plans \in Seq(PlanSet)
  PROVE  RoleSplitBatches \in Seq(Roomy("roleSplit"))
<1> DEFINE Q == Roomy("roleSplit")
           ps == ByWave(plans)
           rr == RolesInTurn(ps)
           N == Len(rr)
           yy == [i \in 1..N |-> FlattenSeq(Compacts(ps, rr[i]))]
<1>1. LastWave \in Nat
  BY BatchAssumption
<1>2. ps \in Seq(PlanSet)
  BY ByWaveIn
<1>3. N \in Nat /\ DOMAIN rr = 1..N /\ \A i \in 1..N : rr[i] \in 1..Roles
  <2> DEFINE S == 1..Roles
  <2>1. rr \in Seq(S)
    <3>1. \A p \in PlanSet : p.role \in 1..Roles
      BY DEF PlanSet
    <3> HIDE DEF ps
    <3>2. PICK t \in [0..Len(ps) -> Seq(1..Roles)] : RolesInTurnSteps(t, ps)
      BY <1>2, <3>1, RolesInTurnUnrolled
    <3>3. Len(ps) \in 0..Len(ps)
      BY <1>2
    <3>4. QED BY <3>2, <3>3 DEF RolesInTurnSteps
  <2> HIDE DEF S, rr
  <2>2. N \in Nat /\ DOMAIN rr = 1..N /\ \A i \in 1..N : rr[i] \in S
    BY <2>1
  <2>3. QED BY <2>2 DEF S
<1>4. RoleSplitBatches = ByWave(FlattenSeq(yy))
  <2>1. RoleSplitBatches = ByWave(FlattenSeq([n \in DOMAIN rr |-> FlattenSeq(Compacts(ps, rr[n]))]))
    BY DEF RoleSplitBatches, Compacts, TurnPlans
  <2> HIDE DEF rr, ps
  <2>2. QED BY <1>3, <2>1
<1> HIDE DEF ps, rr, N
<1>5. ASSUME NEW i \in 1..N PROVE yy[i] \in Seq(Q)
  <2> DEFINE r == rr[i]
             zz == Compacts(ps, r)
  <2>1. r \in 1..Roles
    BY <1>3
  <2>2. ASSUME NEW w \in 1..LastWave PROVE zz[w] \in Seq(Q)
    <3>1. TurnPlans(ps, r, w) \in Seq(PlanSet)
      BY <1>2, AmongIn DEF TurnPlans
    <3>2. zz[w] = RoleWaveBatches(r, w, TurnPlans(ps, r, w))
      BY DEF Compacts
    <3>3. QED BY <2>1, <3>1, <3>2, RoleWaveRoomy
  <2>3. zz = [w \in 1..LastWave |-> zz[w]]
    BY DEF Compacts
  <2>4. yy[i] = FlattenSeq(zz)
    OBVIOUS
  <2> HIDE DEF zz, yy, Q
  <2>5. QED BY <1>1, <2>2, <2>3, <2>4, FlattenIn
<1>6. yy = [i \in 1..N |-> yy[i]]
  OBVIOUS
<1> HIDE DEF yy, Q
<1>7. FlattenSeq(yy) \in Seq(Q)
  BY <1>3, <1>5, <1>6, FlattenIn
<1>8. ByWave(FlattenSeq(yy)) \in Seq(Q)
  BY <1>7, ByWaveIn
<1>9. QED BY <1>4, <1>8 DEF Q

\* A batch with pieces of its plans keeps its room.
LEMMA PieceRoomy ==
  ASSUME NEW way, NEW b \in Roomy(way), NEW ps \in Pieces(b.plans), NEW c \in BatchSet,
         c.plans = ps, c.usable = b.usable, c.tokens = b.tokens
  PROVE  c \in Roomy(way)
<1>1. b \in BatchSet /\ b.plans \in FinePacks(way) /\ ps \in Seq(PlanSet)
  <2>1. b \in BatchSet /\ Fine(b.plans, way)
    BY DEF Roomy
  <2>2. b.plans \in Seq(PlanSet)
    BY <2>1 DEF BatchSet
  <2>3. QED BY <2>1, <2>2 DEF FinePacks, Pieces
<1>2. Fine(ps, way)
  <2>1. ps \in FinePacks(way)
    BY <1>1, PiecesFine
  <2>2. QED BY <2>1 DEF FinePacks
<1>3. ASSUME way = "tokenFirst" PROVE Total(ps, "tokens") <= b.tokens
  <2>1. Total(ps, "tokens") \in Nat /\ Total(b.plans, "tokens") \in Nat /\ b.tokens \in Nat
    <3>1. b.plans \in Seq(PlanSet) /\ b.tokens \in Nat
      BY <1>1 DEF BatchSet
    <3>2. QED BY <1>1, <3>1, PlanCosts, TotalNat
  <2>2. Total(ps, "tokens") <= Total(b.plans, "tokens") /\ Total(b.plans, "tokens") <= b.tokens
    BY <1>3 DEF Pieces, Roomy
  <2> DEFINE x == Total(ps, "tokens")
             y == Total(b.plans, "tokens")
             z == b.tokens
  <2>3. x \in Nat /\ y \in Nat /\ z \in Nat /\ x <= y /\ y <= z
    BY <2>1, <2>2
  <2> HIDE DEF x, y, z
  <2>4. x <= z
    BY <2>3
  <2>5. QED BY <2>4 DEF x, z
<1>4. b.usable = Usable
  BY DEF Roomy
<1>5. QED BY <1>2, <1>3, <1>4 DEF Roomy

\* The hard cap keeps the room: chunks have the tokens of the whole batch.
LEMMA CapRoomy ==
  ASSUME NEW way, batches \in Seq(Roomy(way))
  PROVE  CappedBatches \in Seq(Roomy(way))
<1> DEFINE Q == Roomy(way)
           N == Len(batches)
           cs == [i \in 1..N |-> Chunked(batches[i].plans, MaxPlans)]
           zz == [i \in 1..N |-> [k \in DOMAIN cs[i] |-> [batches[i] EXCEPT !.plans = cs[i][k]]]]
<1>1. N \in Nat /\ DOMAIN batches = 1..N /\ \A i \in 1..N : batches[i] \in Q
  <2> HIDE DEF Q
  <2>1. batches \in Seq(Q)
    BY DEF Q
  <2>2. QED BY <2>1
<1>2. CappedBatches = FlattenSeq(zz)
  BY <1>1 DEF CappedBatches
<1>3. ASSUME NEW i \in 1..N PROVE zz[i] \in Seq(Q)
  <2> DEFINE b == batches[i]
             ps == b.plans
             A == {c \in Pieces(ps) : Len(c) <= MaxPlans}
             chunks == Chunked(ps, MaxPlans)
             z == [k \in DOMAIN chunks |-> [b EXCEPT !.plans = chunks[k]]]
             M == Len(chunks)
  <2>1. b \in Q /\ b \in BatchSet /\ ps \in Seq(PlanSet) /\ zz[i] = z
    <3>1. b \in Q
      BY <1>1
    <3>2. b \in BatchSet
      BY <3>1 DEF Roomy
    <3>3. ps \in Seq(PlanSet)
      BY <3>2 DEF BatchSet
    <3>4. zz[i] = z
      OBVIOUS
    <3>5. QED BY <3>1, <3>2, <3>3, <3>4
  <2> HIDE DEF b, zz, Q
  <2>2. chunks \in Seq(A)
    <3> HIDE DEF ps
    <3>1. MaxPlans \in Nat \ {0}
      BY BatchAssumption
    <3>2. QED BY <2>1, <3>1, ChunkedPieces
  <2>3. M \in Nat /\ DOMAIN chunks = 1..M /\ \A k \in 1..M : chunks[k] \in Pieces(ps)
    <3>1. \A c \in A : c \in Pieces(ps)
      OBVIOUS
    <3> HIDE DEF chunks, A
    <3>2. M \in Nat /\ DOMAIN chunks = 1..M /\ \A k \in 1..M : chunks[k] \in A
      BY <2>2
    <3>3. QED BY <3>1, <3>2
  <2> HIDE DEF chunks, A, M, ps
  <2>4. ASSUME NEW k \in 1..M PROVE z[k] \in Q
    <3> DEFINE c == chunks[k]
               e == [b EXCEPT !.plans = c]
    <3>1. c \in Pieces(ps) /\ c \in Seq(PlanSet) /\ z[k] = e
      BY <2>3 DEF Pieces
    <3> HIDE DEF c
    <3>2. e \in BatchSet /\ e.plans = c /\ e.usable = b.usable /\ e.tokens = b.tokens
      BY <2>1, <3>1 DEF BatchSet
    <3> HIDE DEF e
    <3>3. e \in Roomy(way)
      BY <2>1, <3>1, <3>2, PieceRoomy DEF Q, ps
    <3>4. QED BY <3>1, <3>3 DEF Q
  <2>5. z = [k \in 1..M |-> z[k]]
    BY <2>3
  <2> HIDE DEF z
  <2>6. z \in [1..M -> Q]
    BY <2>4, <2>5
  <2>7. z \in Seq(Q)
    BY <2>3, <2>6, FunctionSeq
  <2>8. QED BY <2>1, <2>7
<1>4. zz = [i \in 1..N |-> zz[i]]
  OBVIOUS
<1> HIDE DEF zz, Q
<1>5. FlattenSeq(zz) \in Seq(Q)
  BY <1>1, <1>3, <1>4, FlattenIn
<1>6. QED BY <1>2, <1>5 DEF Q

\* The packs of a list, filled in turn up to any cap on any cost, are pieces of it.
LEMMA PackedPieces ==
  ASSUME NEW ps \in Seq(PlanSet), NEW cost, NEW cap
  PROVE  PackedBy(ps, cost, cap) \in Seq(Pieces(ps))
<1> DEFINE E == Elements(ps)
           N == Len(ps)
<1>1. N \in Nat /\ DOMAIN ps = 1..N /\ E \subseteq PlanSet /\ ps \in Seq(E)
  <2>1. N \in Nat /\ DOMAIN ps = 1..N /\ \A n \in 1..N : ps[n] \in PlanSet /\ ps[n] \in E
    BY DEF Elements
  <2>2. E \subseteq PlanSet
    BY <2>1 DEF Elements
  <2> HIDE DEF E
  <2>3. ps \in Seq(E)
    BY <2>1
  <2>4. QED BY <2>1, <2>2, <2>3
<1>2. Costs(E, "tokens")
  BY <1>1, PlanCosts DEF Costs
<1> HIDE DEF E
<1>3. PICK t \in [0..N -> Seq(Seq(E))] : PackedBySteps(t, ps, cost, cap)
  BY <1>1, PackedByUnrolled
<1>4. t[0] = << >> /\ PackedBy(ps, cost, cap) = t[N]
  BY <1>3 DEF PackedBySteps
<1>5. PICK sum : Sums(sum, ps, "tokens")
  BY PlanCosts, SumsExist
\* What the first n plans can make a pack of.
<1> DEFINE Upto(n) == {c \in Seq(E) : Len(c) <= n /\ Total(c, "tokens") <= sum[n]}
           T == {n \in 0..N : t[n] \in Seq(Upto(n))}
<1>6. 0 \in T
  <2>1. << >> \in Seq(Upto(0)) /\ 0 \in 0..N
    BY <1>1
  <2>2. QED BY <1>4, <2>1
<1>7. ASSUME NEW m \in 0..(N - 1), m \in T PROVE m + 1 \in T
  <2> DEFINE n == m + 1
             Q == Upto(n)
             out == t[m]
             new == t[n]
             p == ps[n]
             x == sum[m]
             y == sum[n]
             L == Len(out)
  <2>1. n \in 1..N /\ n \in 0..N /\ m \in 0..N /\ n - 1 = m /\ m \in Nat /\ n = m + 1
    BY <1>1
  <2>2. p \in E /\ p \in PlanSet /\ p.tokens \in Nat
    <3>1. p \in E
      BY <1>1, <2>1
    <3>2. p \in PlanSet
      BY <1>1, <3>1
    <3>3. QED BY <3>1, <3>2 DEF PlanSet
  <2>3. x \in Nat /\ y = x + p.tokens
    <3>1. sum[m] \in Nat
      BY <1>5, <2>1 DEF Sums
    <3>2. sum[n] = sum[n - 1] + ps[n]["tokens"]
      BY <1>5, <2>1 DEF Sums
    <3>3. QED BY <2>1, <3>1, <3>2
  <2>4. new = PackedByStep(n, out, ps, cost, cap)
    <3>1. new = PackedByStep(n, t[n - 1], ps, cost, cap)
      BY <1>3, <2>1 DEF PackedBySteps
    <3>2. QED BY <2>1, <3>1
  <2>5. out \in Seq(Upto(m))
    BY <1>7
  <2>6. /\ \A c \in Upto(m) : /\ c \in Seq(E) /\ Len(c) <= m /\ Total(c, "tokens") <= x
        /\ \A c \in Seq(E) : Len(c) <= n /\ Total(c, "tokens") <= y => c \in Q
    OBVIOUS
  <2> DEFINE A == Upto(m)
  <2> HIDE DEF n, Q, out, new, p, x, y, A
  <2>7. \A c \in A : /\ c \in Seq(E) /\ Len(c) \in Nat /\ Len(c) <= m
                     /\ Total(c, "tokens") \in Nat /\ Total(c, "tokens") <= x
    <3>1. \A c \in A : c \in Seq(E) /\ Len(c) <= m /\ Total(c, "tokens") <= x
      BY <2>6 DEF A
    <3>2. \A c \in Seq(E) : Len(c) \in Nat /\ Total(c, "tokens") \in Nat
      BY <1>2, TotalNat
    <3>3. QED BY <3>1, <3>2
  <2>8. A \subseteq Q
    <3>1. ASSUME NEW c \in A PROVE c \in Q
      <4> DEFINE l == Len(c)
                 s == Total(c, "tokens")
      <4>1. c \in Seq(E) /\ l \in Nat /\ l <= m /\ s \in Nat /\ s <= x
        BY <2>7
      <4> HIDE DEF l, s
      <4>2. l <= n /\ s <= y
        BY <2>1, <2>2, <2>3, <4>1
      <4>3. QED BY <2>6, <4>1, <4>2 DEF l, s
    <3>2. QED BY <3>1
  <2>9. out \in Seq(Q)
    BY <2>5, <2>8, SeqWider DEF A
  <2>10. \A c \in A : Append(c, p) \in Q
    <3>1. SUFFICES ASSUME NEW c \in A PROVE Append(c, p) \in Q
      OBVIOUS
    <3> DEFINE d == Append(c, p)
               l == Len(c)
               s == Total(c, "tokens")
    <3>2. c \in Seq(E) /\ l \in Nat /\ l <= m /\ s \in Nat /\ s <= x
      BY <2>7
    <3>3. d \in Seq(E) /\ Len(d) = l + 1
      BY <2>2, <3>2, AppendProperties
    <3>4. Total(d, "tokens") = s + p.tokens
      <4>1. Total(d, "tokens") = s + p["tokens"]
        BY <1>2, <2>2, <3>2, TotalAppend
      <4>2. QED BY <4>1
    <3> HIDE DEF d, l, s
    <3>5. Len(d) <= n /\ Total(d, "tokens") <= y
      BY <2>1, <2>2, <2>3, <3>2, <3>3, <3>4
    <3>6. d \in Q
      BY <2>6, <3>3, <3>5
    <3>7. QED BY <3>6 DEF d
  <2>11. <<p>> \in Q
    <3> DEFINE d == <<p>>
    <3>1. d \in Seq(E) /\ Len(d) = 1
      BY <2>2
    <3>2. << >> \in Seq(E)
      OBVIOUS
    <3>3. Total(d, "tokens") = p.tokens
      <4>1. Total(d, "tokens") = p["tokens"]
        BY <1>2, <2>2, <3>2, TotalAppend
      <4>2. QED BY <4>1
    <3> HIDE DEF d
    <3>4. Len(d) <= n /\ Total(d, "tokens") <= y
      BY <2>1, <2>2, <2>3, <3>1, <3>3
    <3>5. d \in Q
      BY <2>6, <3>1, <3>4
    <3>6. QED BY <3>5 DEF d
  <2>12. new \in Seq(Q)
    <3> DEFINE room == out # << >> /\ Total(Last(out), cost) + p[cost] <= cap
    <3>1. new = IF room THEN [out EXCEPT ![L] = Append(@, p)] ELSE Append(out, <<p>>)
      BY <2>4 DEF PackedByStep, p
    <3>2. room => out # << >>
      OBVIOUS
    <3> HIDE DEF room
    <3>3. CASE room
      <4> DEFINE s == out[L]
                 e == Append(s, p)
      <4>1. L \in 1..L /\ s \in A
        BY <2>5, <3>2, <3>3 DEF A
      <4>2. new = [out EXCEPT ![L] = e]
        BY <3>1, <3>3
      <4>3. e \in Q
        BY <2>10, <4>1
      <4> HIDE DEF e
      <4>4. QED BY <2>9, <4>1, <4>2, <4>3, KeptIn
    <3>4. CASE ~room
      <4>1. new = Append(out, <<p>>)
        BY <3>1, <3>4
      <4>2. QED BY <2>9, <2>11, <4>1, KeptIn
    <3>5. QED BY <3>3, <3>4
  <2>13. QED BY <2>1, <2>12 DEF new, Q, n
<1>8. t[N] \in Seq(Upto(N))
  <2> HIDE DEF T
  <2>1. \A n \in 0..N : n \in T
    BY <1>1, <1>6, <1>7, UpTo
  <2>2. N \in T
    BY <1>1, <2>1
  <2>3. QED BY <2>2 DEF T
<1>9. Upto(N) \subseteq Pieces(ps)
  <2>1. ASSUME NEW c \in Upto(N) PROVE c \in Pieces(ps)
    <3>1. c \in Seq(E) /\ Len(c) <= Len(ps) /\ Total(c, "tokens") <= Total(ps, "tokens")
      BY <1>5 DEF Sums
    <3>2. c \in Seq(PlanSet)
      BY <1>1, <3>1, SeqWider
    <3>3. HasDeps(c) => HasDeps(ps)
      <4>1. \A i \in DOMAIN c : c[i] \in E
        BY <3>1
      <4>2. QED BY <1>1, <4>1 DEF HasDeps, E, Elements
    <3>4. QED BY <3>1, <3>2, <3>3 DEF Pieces
  <2>2. QED BY <2>1
<1> HIDE DEF Upto
<1>10. QED BY <1>4, <1>8, <1>9, SeqWider

\* The split keeps the room: its packs have the tokens of the whole batch.
LEMMA SplitRoomy ==
  ASSUME NEW way, batches \in Seq(Roomy(way))
  PROVE  SplitBatches \in Seq(Roomy(way))
<1> DEFINE Q == Roomy(way)
           N == Len(batches)
           zz == [i \in 1..N |-> StepChunks(batches[i])]
<1>1. N \in Nat /\ DOMAIN batches = 1..N /\ \A i \in 1..N : batches[i] \in Q
  <2> HIDE DEF Q
  <2>1. batches \in Seq(Q)
    BY DEF Q
  <2>2. QED BY <2>1
<1>2. SplitBatches = FlattenSeq(zz)
  BY <1>1 DEF SplitBatches
<1>3. ASSUME NEW i \in 1..N PROVE zz[i] \in Seq(Q)
  <2> DEFINE b == batches[i]
             ps == b.plans
             packs == PackedBy(ps, "steps", StepCap)
             z == [k \in DOMAIN packs |->
                     [b EXCEPT !.plans = packs[k], !.steps = Total(packs[k], "steps")]]
             M == Len(packs)
  <2>1. b \in Q /\ b \in BatchSet /\ ps \in Seq(PlanSet) /\ zz[i] = StepChunks(b)
    <3>1. b \in Q
      BY <1>1
    <3>2. b \in BatchSet
      BY <3>1 DEF Roomy
    <3>3. ps \in Seq(PlanSet)
      BY <3>2 DEF BatchSet
    <3>4. zz[i] = StepChunks(b)
      OBVIOUS
    <3>5. QED BY <3>1, <3>2, <3>3, <3>4
  <2>2. StepChunks(b) = IF ~OverStepped(b) \/ M = 1 THEN <<b>> ELSE z
    BY DEF StepChunks
  <2> HIDE DEF b, zz, Q
  <2>3. packs \in Seq(Pieces(ps))
    <3> HIDE DEF ps
    <3>1. QED BY <2>1, PackedPieces
  <2>4. M \in Nat /\ DOMAIN packs = 1..M /\ \A k \in 1..M : packs[k] \in Pieces(ps)
    <3> DEFINE A == Pieces(ps)
    <3> HIDE DEF packs, A
    <3>1. packs \in Seq(A)
      BY <2>3 DEF A
    <3>2. M \in Nat /\ DOMAIN packs = 1..M /\ \A k \in 1..M : packs[k] \in A
      BY <3>1
    <3>3. QED BY <3>2 DEF A
  <2> HIDE DEF packs, M, ps
  <2>5. ASSUME NEW k \in 1..M PROVE z[k] \in Q
    <3> DEFINE c == packs[k]
               n == Total(c, "steps")
               e == [b EXCEPT !.plans = c, !.steps = n]
    <3>1. c \in Pieces(ps) /\ c \in Seq(PlanSet) /\ z[k] = e
      BY <2>4 DEF Pieces
    <3>2. n \in Nat
      BY <3>1, PlanCosts, TotalNat
    <3> HIDE DEF c, n
    <3>3. e \in BatchSet /\ e.plans = c /\ e.usable = b.usable /\ e.tokens = b.tokens
      BY <2>1, <3>1, <3>2 DEF BatchSet
    <3> HIDE DEF e
    <3>4. e \in Roomy(way)
      BY <2>1, <3>1, <3>3, PieceRoomy DEF Q, ps
    <3>5. QED BY <3>1, <3>4 DEF Q
  <2>6. z = [k \in 1..M |-> z[k]]
    BY <2>4
  <2> HIDE DEF z
  <2>7. z \in [1..M -> Q]
    BY <2>5, <2>6
  <2>8. z \in Seq(Q)
    BY <2>4, <2>7, FunctionSeq
  <2>9. <<b>> \in Seq(Q)
    BY <2>1
  <2>10. QED BY <2>1, <2>2, <2>8, <2>9
<1>4. zz = [i \in 1..N |-> zz[i]]
  OBVIOUS
<1> HIDE DEF zz, Q
<1>5. FlattenSeq(zz) \in Seq(Q)
  BY <1>1, <1>3, <1>4, FlattenIn
<1>6. QED BY <1>2, <1>5 DEF Q

\* The limits that the tightening keeps: all where tokens come first, that on
\* dependencies after the role split.
Tightened(way) == IF way = "tokenFirst" THEN way ELSE "tightened"

\* Batches that may merge have no dependencies.  Where tokens come first they have
\* room together: what they say, at least what their plans cost, is within the
\* context.
LEMMA MergedRoomy ==
  ASSUME NEW way \in {"tokenFirst", "tightened"}, NEW a \in Roomy(way), NEW b \in Roomy(way),
         Mergeable(a, b), NEW c, Merged(c, a, b)
  PROVE  c \in Roomy(way)
<1> DEFINE s == a.plans
           r == b.plans
           x == Total(s, "tokens")
           y == Total(r, "tokens")
           m == a.tokens
           n == b.tokens
<1>1. /\ a \in BatchSet /\ b \in BatchSet /\ a.usable = Usable
      /\ way = "tokenFirst" => x <= m /\ y <= n
  BY DEF Roomy
<1>2. s \in Seq(PlanSet) /\ r \in Seq(PlanSet) /\ m \in Nat /\ n \in Nat
  BY <1>1 DEF BatchSet
<1>3. Usable \in Nat \ {0}
  BY BatchAssumption
<1>4. m + n <= Usable /\ ~HasDeps(s \o r)
  BY <1>1, <1>3 DEF Mergeable
<1>5. /\ c \in BatchSet /\ c.plans = s \o r
      /\ c.usable = Usable /\ c.tokens = m + n
  <2>1. c \in BatchSet /\ c.plans = s \o r
    BY <1>1, MergedFields
  <2>2. c = [a EXCEPT !.plans = s \o r, !.tokens = m + n]
    BY DEF Merged
  <2>3. c.usable = a.usable /\ c.tokens = m + n
    BY <1>1, <2>2 DEF BatchSet
  <2>4. QED BY <1>1, <2>1, <2>3
<1> HIDE DEF s, r
<1>6. x \in Nat /\ y \in Nat /\ Total(s \o r, "tokens") = x + y
  BY <1>2, PlanCosts, TotalNat, TotalConcat
<1> DEFINE z == Total(s \o r, "tokens")
<1> HIDE DEF x, y, z, m, n
<1>7. way = "tokenFirst" => z <= m + n /\ z <= Usable
  BY <1>1, <1>2, <1>3, <1>4, <1>6 DEF z
<1>8. QED BY <1>4, <1>5, <1>7 DEF Roomy, Fine, z

\* What keeps all limits keeps those of a tightened batch.
LEMMA TightenedRoomy ==
  ASSUME NEW way \in {"tokenFirst", "roleSplit"}
  PROVE  Roomy(way) \subseteq Roomy(Tightened(way))
BY DEF Roomy, Fine, Tightened

\* The tightening keeps that room.
LEMMA TightRoomy ==
  ASSUME NEW any, batches \in Seq(Fit(any, MostPlans)),
         NEW way \in {"tokenFirst", "tightened"}, batches \in Seq(Roomy(way))
  PROVE  TightBatches \in Seq(Roomy(way))
<1> DEFINE Q == Roomy(way)
           N == Len(batches)
<1>1. N \in Nat /\ \A n \in 1..N : batches[n] \in Q
  <2> HIDE DEF Q
  <2>1. batches \in Seq(Q)
    BY DEF Q
  <2>2. QED BY <2>1
<1>2. PICK t \in [0..N -> Seq(Fit(any, MostPlans))] : TightSteps(t)
  BY TightBatchesUnrolled
<1>3. t[0] = << >> /\ TightBatches = t[N]
  BY <1>2 DEF TightSteps
<1>4. ASSUME NEW n \in 1..N, t[n - 1] \in Seq(Q) PROVE t[n] \in Seq(Q)
  <2> DEFINE out == t[n - 1]
             new == t[n]
             b == batches[n]
             L == Len(out)
             a == out[L]
             c == [a EXCEPT !.plans = a.plans \o b.plans, !.tokens = a.tokens + b.tokens]
  <2>1. b \in Q /\ out \in Seq(Q) /\ new = TightBatchesStep(n, out)
    BY <1>1, <1>2, <1>4 DEF TightSteps
  <2> HIDE DEF out, new, Q
  <2>2. CASE out # << >> /\ Mergeable(Last(out), b)
    <3>1. L \in 1..L /\ Last(out) = a
      BY <2>1, <2>2 DEF Last
    <3>2. a \in Q
      BY <2>1, <3>1
    <3>3. Mergeable(a, b) /\ Merged(c, a, b)
      BY <2>2, <3>1 DEF Merged
    <3>4. new = [out EXCEPT ![L] = c]
      BY <2>1, <2>2, <3>1 DEF TightBatchesStep
    <3> HIDE DEF a, b, c
    <3>5. c \in Q
      BY <2>1, <3>2, <3>3, MergedRoomy DEF Q
    <3>6. new \in Seq(Q)
      BY <2>1, <3>1, <3>4, <3>5, KeptIn
    <3>7. QED BY <3>6 DEF new
  <2>3. CASE ~(out # << >> /\ Mergeable(Last(out), b))
    <3>1. new = Append(out, b)
      BY <2>1, <2>3 DEF TightBatchesStep
    <3>2. new \in Seq(Q)
      BY <2>1, <3>1, KeptIn
    <3>3. QED BY <3>2 DEF new
  <2>4. QED BY <2>2, <2>3
<1>5. t[N] \in Seq(Q)
  <2> HIDE DEF Q, N
  <2>1. QED BY <1>1, <1>3, <1>4, StaysIn
<1>6. QED BY <1>3, <1>5

\* The limits that batches keep at this stage.
Limits == IF stage \in {"cap", "tighten"} THEN path ELSE Tightened(path)

\* Batches that Athena did not make keep them.
RoomFit == path \in {"tokenFirst", "roleSplit"} => batches \in Seq(Roomy(Limits))

\* Every step keeps the room.
LEMMA RoomKept ==
  ASSUME IInv, RoomFit, [Next]_vars
  PROVE  RoomFit'
<1>1. CASE PackTokenFirst
  <2>1. PICK fit \in [DOMAIN plans -> 1..Roles], below \in SUBSET (2..Roles) :
                batches' = TokenFirstBatches(Routed(fit, below))
    BY <1>1 DEF PackTokenFirst
  <2> DEFINE ps == Routed(fit, below)
             way == "tokenFirst"
             bs == TokenFirstBatches(ps)
  <2>2. Renamed(ps)
    BY RoutedFits DEF IInv
  <2> HIDE DEF ps
  <2>3. ps \in Seq(PlanSet)
    BY <2>2 DEF Renamed
  <2>4. bs \in Seq(Roomy(way)) /\ batches' = bs /\ path' = way /\ stage' = "cap"
    BY <1>1, <2>1, <2>3, TokenFirstRoomy DEF PackTokenFirst, ps
  <2> HIDE DEF bs, way
  <2>5. QED BY <2>4 DEF RoomFit, Limits
<1>2. CASE PackByRole
  <2> DEFINE way == "roleSplit"
             bs == RoleSplitBatches
  <2>1. bs \in Seq(Roomy(way)) /\ batches' = bs /\ path' = way /\ stage' = "cap"
    BY <1>2, RoleSplitRoomy DEF PackByRole, IInv, PlansFit
  <2> HIDE DEF bs, way
  <2>2. QED BY <2>1 DEF RoomFit, Limits
<1>3. CASE UsePrebatched
  BY <1>3 DEF UsePrebatched, RoomFit
<1>4. CASE ApplyHardCap
  <2> DEFINE way == path
             bs == CappedBatches
  <2>1. batches \in Seq(Roomy(way)) => bs \in Seq(Roomy(way))
    BY CapRoomy
  <2>2. batches' = bs /\ path' = path /\ stage = "cap" /\ stage' = "tighten"
    BY <1>4 DEF ApplyHardCap
  <2> HIDE DEF bs
  <2>3. QED BY <2>1, <2>2 DEF RoomFit, Limits
<1>5. CASE Tighten
  <2> DEFINE way == Tightened(path)
             bs == TightBatches
  <2>1. /\ batches \in Seq(Fit(path, MostPlans))
        /\ batches' = bs /\ path' = path /\ stage = "tighten" /\ stage' = "split"
    BY <1>5, InMaking DEF Tighten, Making
  <2> HIDE DEF bs
  <2>2. CASE path \in {"tokenFirst", "roleSplit"}
    <3>1. batches \in Seq(Roomy(path))
      BY <2>1, <2>2 DEF RoomFit, Limits
    <3>2. batches \in Seq(Roomy(way)) /\ way \in {"tokenFirst", "tightened"}
      <4>1. Roomy(path) \subseteq Roomy(way)
        BY <2>2, TightenedRoomy
      <4>2. way \in {"tokenFirst", "tightened"}
        BY DEF Tightened
      <4> HIDE DEF way
      <4>3. QED BY <3>1, <4>1, <4>2, SeqWider
    <3> HIDE DEF way
    <3>3. bs \in Seq(Roomy(way))
      BY <2>1, <3>2, TightRoomy DEF bs
    <3>4. Limits' = way
      BY <2>1 DEF Limits, way, Tightened
    <3>5. QED BY <2>1, <3>3, <3>4 DEF RoomFit
  <2>3. CASE path \notin {"tokenFirst", "roleSplit"}
    BY <2>1, <2>3 DEF RoomFit
  <2>4. QED BY <2>2, <2>3
<1>6. CASE SplitOverStepped
  <2> DEFINE way == Limits
             bs == SplitBatches
  <2>1. batches \in Seq(Roomy(way)) => bs \in Seq(Roomy(way))
    BY SplitRoomy
  <2>2. batches' = bs /\ path' = path /\ stage = "split" /\ stage' = "dispatch"
    BY <1>6 DEF SplitOverStepped
  <2>3. Limits' = way
    BY <2>2 DEF Limits, Tightened
  <2> HIDE DEF bs, way
  <2>4. batches \in Seq(Roomy(way)) => batches' \in Seq(Roomy(Limits'))
    BY <2>1, <2>2, <2>3
  <2>5. QED BY <2>2, <2>4 DEF RoomFit, way
<1>7. CASE UNCHANGED <<batches, path>> /\ Limits' = Limits
  BY <1>7 DEF RoomFit
<1>8. CASE UNCHANGED <<batches, path>> /\ stage \in {"gate", "chain"}
  <2>1. path = "none"
    BY <1>8 DEF IInv, LoopFit, Before
  <2>2. QED BY <1>8, <2>1 DEF RoomFit
<1>9. QED
  BY <1>1, <1>2, <1>3, <1>4, <1>5, <1>6, <1>7, <1>8
     DEF Next, vars, GateBlocks, GateAdmits, ExpandChains, BlockOverStepped, StartBatch,
         BatchSucceeds, BatchFails, Resume, CompleteDispatch, Limits, Tightened

\* What has room goes to a model as it is.
LEMMA RoomEnough ==
  ASSUME IInv, RoomFit
  PROVE  WithinContext
<1>1. CASE path \in {"tokenFirst", "roleSplit"}
  <2> DEFINE Q == Roomy(Limits)
  <2>1. batches \in Seq(Q)
    BY <1>1 DEF RoomFit
  <2> HIDE DEF Q
  <2>2. \A i \in DOMAIN batches : batches[i] \in Q
    BY <2>1
  <2>3. \A i \in DOMAIN batches : Fine(batches[i].plans, Limits)
    BY <2>2 DEF Q, Roomy
  <2>4. QED BY <1>1, <2>3 DEF WithinContext, Fine, Limits, Tightened
<1>2. CASE path \notin {"tokenFirst", "roleSplit"}
  BY <1>2 DEF WithinContext
<1>3. QED BY <1>1, <1>2

-----------------------------------------------------------------------------
(* The theorems *)

\* Whatever the plans and the limits, the roles, waves and sizes of the batches
\* are what the packing promises: no batch is empty, none larger than the hard
\* cap and the tightening allow, and only plans of the cycle are done.
THEOREM TypeCorrect == Spec => []TypeOK
<1>1. IInv => TypeOK
  BY TypesHold
<1>2. QED BY <1>1, Invariant, PTL

\* Every plan that the gate admitted, or every stage of its chain, is in exactly
\* one batch, whichever way the batches are made, capped, merged and split.
THEOREM PlannedOnce == Spec => []EveryPlanOnce
<1>1. IInv => EveryPlanOnce
  BY OncePlanned
<1>2. QED BY <1>1, Invariant, PTL

\* When a batch starts, the plans of earlier waves that its way of batching puts
\* before it are done.
THEOREM WavesFollow == Spec => []WavesInTurn
<1>1. IInv => WavesInTurn
  BY WavesOrdered
<1>2. QED BY <1>1, Invariant, PTL

\* Batches that Athena made are dispatched as the tightening left them: the limit
\* on ordered steps neither splits nor blocks them.
THEOREM NeverSplit == Spec => PrebatchedNeverSplit
<1>1. IInv /\ [Next]_vars =>
        [path = "prebatched" /\ stage = "split" => batches' = batches /\ stage' = "dispatch"]_vars
  BY PrebatchedKept
<1>2. QED BY <1>1, Invariant, PTL DEF Spec, PrebatchedNeverSplit

\* Where tokens come first, a batch of several plans fits the context of its model
\* whatever the cap, the tightening and the split make of it; in the role split it
\* does until the tightening, which trusts the shares that chunks were given, and
\* a batch with dependencies stays short to the end.
THEOREM ContextFits == Spec => []WithinContext
<1>1. Init => RoomFit
  BY DEF Init, RoomFit
<1>2. IInv /\ RoomFit /\ [Next]_vars => RoomFit'
  BY RoomKept
<1>3. IInv /\ RoomFit => WithinContext
  BY RoomEnough
<1>4. QED BY <1>1, <1>2, <1>3, Invariant, PTL DEF Spec

=============================================================================
