--------------------------- MODULE FiniteSetFacts ---------------------------
(***************************************************************************)
(* Facts about finite sets of instants that the proofs about sampled       *)
(* occupancy rest on, in the reservation table and in the conflict rules,  *)
(* and about folds, which the proofs about batches rest on.                *)
(***************************************************************************)
EXTENDS Integers, FiniteSets, FiniteSetTheorems, WellFoundedInduction, TLAPS

(* Every nonempty set of naturals has a least element: the form in which   *)
(* the proofs below use induction.                                         *)
LEMMA LeastNatural ==
  ASSUME NEW S \in SUBSET Nat, S # {}
  PROVE  \E m \in S : \A x \in S : m <= x
<1>1. IsWellFoundedOn(OpToRel(<, Nat), Nat)
  BY NatLessThanWellFounded
<1>2. PICK m \in S : \A y \in S : <<y, m>> \notin OpToRel(<, Nat)
  BY <1>1, WFMin
<1>3. \A y \in S : ~(y < m)
  BY <1>2 DEF OpToRel
<1>. QED  BY <1>3

(* Induction up to n: a set of numbers stands for the property.            *)
LEMMA InductionUpTo ==
  ASSUME NEW n \in Nat, NEW P, 0 \in P,
         \A k \in 1..n : k - 1 \in P => k \in P
  PROVE  0..n \subseteq P
<1> DEFINE Bad == {k \in 0..n : k \notin P}
<1>1. SUFFICES ASSUME Bad # {} PROVE FALSE
  OBVIOUS
<1>2. PICK k \in Bad : \A j \in Bad : k <= j
  <2>1. Bad \in SUBSET Nat
    OBVIOUS
  <2> HIDE DEF Bad
  <2>2. QED  BY <1>1, <2>1, LeastNatural
<1>3. k \in 1..n /\ k - 1 \in 0..n /\ ~(k <= k - 1)
  BY <1>2
<1>4. k - 1 \in P
  BY <1>2, <1>3
<1>. QED  BY <1>2, <1>3, <1>4

(* A finite nonempty set of instants has a latest one.                     *)
LEMMA LatestInstant ==
  ASSUME NEW S, IsFiniteSet(S), S # {}, S \subseteq Int
  PROVE  \E m \in S : \A x \in S : x <= m
<1> DEFINE HasLatest(U) == \E m \in U : \A x \in U : x <= m
           Bad == {n \in Nat : \E U \in SUBSET S :
                     U # {} /\ Cardinality(U) = n /\ ~HasLatest(U)}
<1>1. SUFFICES ASSUME ~HasLatest(S) PROVE FALSE
  OBVIOUS
<1>2. Cardinality(S) \in Bad
  BY <1>1, FS_CardinalityType
<1>3. PICK n \in Bad : \A k \in Bad : n <= k
  BY <1>2, LeastNatural
<1>4. PICK U \in SUBSET S : U # {} /\ Cardinality(U) = n /\ ~HasLatest(U)
  BY <1>3
<1>5. PICK e \in U : TRUE
  BY <1>4
<1>6. IsFiniteSet(U \ {e}) /\ Cardinality(U \ {e}) = n - 1
  BY <1>4, <1>5, FS_Subset, FS_RemoveElement
<1>7. CASE U \ {e} = {}
  BY <1>4, <1>5, <1>7
<1>8. CASE U \ {e} # {}
  <2>1. n - 1 \in Nat
    BY <1>6, FS_CardinalityType
  <2>2. PICK m \in U \ {e} : \A x \in U \ {e} : x <= m
    <3>1. n - 1 \notin Bad
      BY <1>3, <2>1
    <3>. QED  BY <1>6, <1>8, <2>1, <3>1
  <2>3. CASE e <= m
    BY <1>4, <2>2, <2>3
  <2>4. CASE ~(e <= m)
    <3>1. \A x \in U : x <= e
      BY <2>2, <2>4
    <3>. QED  BY <1>4, <1>5, <3>1
  <2>. QED  BY <2>3, <2>4
<1>. QED  BY <1>7, <1>8

(* The image of a finite set under a function is finite.                   *)
LEMMA FiniteRange ==
  ASSUME NEW S, IsFiniteSet(S), NEW f
  PROVE  IsFiniteSet({f[x] : x \in S})
<1> DEFINE T == {f[x] : x \in S}
           g == [x \in S |-> f[x]]
<1>1. g \in [S -> T] /\ \A y \in T : \E x \in S : g[x] = y
  OBVIOUS
<1>2. g \in Surjection(S, T)
  BY <1>1 DEF Surjection
<1>. QED  BY <1>2, FS_Surjection

-----------------------------------------------------------------------------
(* Folds.  The community modules fold a sequence over the subsets of its   *)
(* domain, the greatest element last.                                      *)
Greatest(s) == CHOOSE x \in s : \A y \in s : x >= y

(* What is in an interval has a greatest element.                          *)
LEMMA GreatestOf ==
  ASSUME NEW n \in Nat, NEW s \in SUBSET (1..n), s # {}
  PROVE  Greatest(s) \in s /\ \A x \in s : x <= Greatest(s)
<1>1. IsFiniteSet(s)
  <2>1. IsFiniteSet(1..n)
    BY FS_Interval
  <2>2. QED  BY <2>1, FS_Subset
<1>2. PICK m \in s : \A x \in s : x <= m
  <2>1. s \subseteq Int
    OBVIOUS
  <2>2. QED  BY <1>1, <2>1, LatestInstant
<1>3. m \in s /\ \A y \in s : m >= y
  BY <1>2
<1>4. Greatest(s) \in s /\ \A y \in s : Greatest(s) >= y
  BY <1>3 DEF Greatest
<1>5. QED  BY <1>4

(* A greatest element is the greatest.                                     *)
LEMMA GreatestIs ==
  ASSUME NEW s \in SUBSET Int, NEW m \in s, \A x \in s : x <= m
  PROVE  Greatest(s) = m
<1>1. m \in s /\ \A y \in s : m >= y
  OBVIOUS
<1>2. \A x \in s : (\A y \in s : x >= y) => x = m
  OBVIOUS
<1>3. QED  BY <1>1, <1>2 DEF Greatest

(* iter folds step over the subsets of 1..k.                               *)
IsFold(iter, k, V, base, step) ==
  /\ iter \in [SUBSET (1..k) -> V]
  /\ \A s \in SUBSET (1..k) :
       iter[s] = IF s = {} THEN base
                 ELSE step[<<iter[s \ {Greatest(s)}], Greatest(s)>>]

(* There is such a fold, so the one the definitions choose is one.         *)
LEMMA FoldExists ==
  ASSUME NEW n \in Nat, NEW V, NEW base \in V, NEW step \in [V \X (1..n) -> V]
  PROVE  \E iter : IsFold(iter, n, V, base, step)
<1> DEFINE Bad == {k \in 0..n : ~\E iter : IsFold(iter, k, V, base, step)}
<1>1. SUFFICES Bad = {}
  OBVIOUS
<1>2. SUFFICES ASSUME Bad # {} PROVE FALSE
  OBVIOUS
<1>3. PICK k \in Bad : \A j \in Bad : k <= j
  <2>1. Bad \in SUBSET Nat
    OBVIOUS
  <2> HIDE DEF Bad
  <2>2. QED  BY <1>2, <2>1, LeastNatural
<1>4. CASE k = 0
  <2> DEFINE f == [s \in SUBSET (1..0) |-> base]
  <2>1. \A s \in SUBSET (1..0) : s = {}
    OBVIOUS
  <2>2. IsFold(f, 0, V, base, step)
    BY <2>1 DEF IsFold
  <2>3. QED
    <3> HIDE DEF f
    <3>1. QED  BY <1>3, <1>4, <2>2
<1>5. CASE k # 0
  <2>1. k \in 1..n /\ k - 1 \in 0..n /\ ~(k <= k - 1)
    BY <1>5
  <2>2. PICK f : IsFold(f, k - 1, V, base, step)
    BY <1>3, <2>1
  <2> DEFINE g == [s \in SUBSET (1..k) |->
                     IF k \in s THEN step[<<f[s \ {k}], k>>] ELSE f[s]]
  <2>3. ASSUME NEW s \in SUBSET (1..k)
        PROVE  /\ g[s] \in V
               /\ g[s] = IF s = {} THEN base
                         ELSE step[<<g[s \ {Greatest(s)}], Greatest(s)>>]
    <3>1. CASE k \in s
      <4>1. Greatest(s) = k
        <5>1. s \in SUBSET Int /\ \A x \in s : x <= k
          BY <2>1
        <5>2. QED  BY <5>1, <3>1, GreatestIs
      <4>2. s \ {k} \in SUBSET (1..(k - 1)) /\ s \ {k} \in SUBSET (1..k) /\ k \notin s \ {k}
        BY <2>1
      <4>3. g[s \ {k}] = f[s \ {k}] /\ f[s \ {k}] \in V
        BY <4>2, <2>2 DEF IsFold
      <4>4. g[s] = step[<<f[s \ {k}], k>>]
        BY <3>1
      <4>5. step[<<f[s \ {k}], k>>] \in V
        BY <4>3, <2>1
      <4>6. QED  BY <3>1, <4>1, <4>3, <4>4, <4>5
    <3>2. CASE k \notin s
      <4>1. s \in SUBSET (1..(k - 1))
        BY <2>1, <3>2
      <4>2. g[s] = f[s]
        BY <3>2
      <4>3. CASE s = {}
        BY <4>1, <4>2, <4>3, <2>2 DEF IsFold
      <4>4. CASE s # {}
        <5>1. Greatest(s) \in s
          <6>1. k \in Nat
            BY <2>1
          <6>2. QED  BY <6>1, <4>4, GreatestOf
        <5>2. s \ {Greatest(s)} \in SUBSET (1..(k - 1)) /\ s \ {Greatest(s)} \in SUBSET (1..k)
              /\ k \notin s \ {Greatest(s)}
          BY <4>1, <3>2
        <5>3. g[s \ {Greatest(s)}] = f[s \ {Greatest(s)}]
          BY <5>2
        <5>4. f[s] = step[<<f[s \ {Greatest(s)}], Greatest(s)>>] /\ f[s] \in V
          BY <4>1, <4>4, <2>2 DEF IsFold
        <5>5. QED  BY <4>2, <4>4, <5>3, <5>4
      <4>5. QED  BY <4>3, <4>4
    <3>3. QED  BY <3>1, <3>2
  <2> HIDE DEF g
  <2>4. g \in [SUBSET (1..k) -> V]
    BY <2>3 DEF g
  <2>5. IsFold(g, k, V, base, step)
    BY <2>3, <2>4 DEF IsFold
  <2>6. QED  BY <1>3, <2>5
<1>6. QED  BY <1>4, <1>5

(* It comes to the numbers up to n one by one.                             *)
LEMMA UpToOneMore ==
  ASSUME NEW n \in Nat, NEW i \in 1..n
  PROVE  /\ 1..i \in SUBSET (1..n) /\ 1..i # {}
         /\ Greatest(1..i) = i
         /\ (1..i) \ {Greatest(1..i)} = 1..(i - 1)
<1>1. 1..i \subseteq 1..n /\ i \in 1..i
  OBVIOUS
<1>2. (1..i) \ {i} = 1..(i - 1)
  OBVIOUS
<1>3. Greatest(1..i) = i
  <2>1. 1..i \in SUBSET Int /\ i \in 1..i /\ \A x \in 1..i : x <= i
    OBVIOUS
  <2>. QED  BY <2>1, GreatestIs
<1>. QED  BY <1>1, <1>2, <1>3

-----------------------------------------------------------------------------
(* Lists.  f comes to one more element of 1..n at a time.                  *)
IsIteration(f, n, V, base, step) ==
  /\ f \in [0..n -> V]
  /\ f[0] = base
  /\ \A k \in 1..n : f[k] = step[<<f[k - 1], k>>]

(* There is such a function, so the one a recursive definition chooses is  *)
(* one.                                                                    *)
LEMMA IterationExists ==
  ASSUME NEW n \in Nat, NEW V, NEW base \in V, NEW step \in [V \X (1..n) -> V]
  PROVE  \E f : IsIteration(f, n, V, base, step)
<1> DEFINE Bad == {k \in 0..n : ~\E f : IsIteration(f, k, V, base, step)}
<1>1. SUFFICES Bad = {}
  OBVIOUS
<1>2. SUFFICES ASSUME Bad # {} PROVE FALSE
  OBVIOUS
<1>3. PICK k \in Bad : \A j \in Bad : k <= j
  <2>1. Bad \in SUBSET Nat
    OBVIOUS
  <2> HIDE DEF Bad
  <2>2. QED  BY <1>2, <2>1, LeastNatural
<1>4. CASE k = 0
  <2> DEFINE f == [i \in 0..0 |-> base]
  <2>1. IsIteration(f, 0, V, base, step)
    BY DEF IsIteration
  <2> HIDE DEF f
  <2>2. QED  BY <1>3, <1>4, <2>1
<1>5. CASE k # 0
  <2>1. k \in 1..n /\ k - 1 \in 0..n /\ ~(k <= k - 1)
    BY <1>5
  <2>2. PICK f : IsIteration(f, k - 1, V, base, step)
    BY <1>3, <2>1
  <2> DEFINE g == [i \in 0..k |-> IF i = k THEN step[<<f[k - 1], k>>] ELSE f[i]]
  <2>3. f[k - 1] \in V /\ step[<<f[k - 1], k>>] \in V
    <3>1. f[k - 1] \in V
      BY <2>1, <2>2 DEF IsIteration
    <3>2. \A v \in V : step[<<v, k>>] \in V
      BY <2>1
    <3>. QED  BY <3>1, <3>2
  <2>4. g \in [0..k -> V] /\ g[0] = base
    BY <1>5, <2>1, <2>2, <2>3 DEF IsIteration
  <2>5. ASSUME NEW i \in 1..k
        PROVE  g[i] = step[<<g[i - 1], i>>]
    <3>1. CASE i = k
      <4>1. k \in 0..k /\ k - 1 \in 0..k /\ k - 1 # k
        BY <2>1
      <4>2. g[k] = step[<<f[k - 1], k>>] /\ g[k - 1] = f[k - 1]
        BY <4>1
      <4>. QED  BY <3>1, <4>2
    <3>2. CASE i # k
      <4>1. i \in 1..(k - 1) /\ i - 1 \in 0..(k - 1) /\ i - 1 # k /\ i - 1 \in 0..k /\ i \in 0..k
        BY <2>1, <3>2
      <4>2. f[i] = step[<<f[i - 1], i>>]
        BY <2>2, <4>1 DEF IsIteration
      <4>. QED  BY <3>2, <4>1, <4>2
    <3>. QED  BY <3>1, <3>2
  <2> HIDE DEF g
  <2>6. IsIteration(g, k, V, base, step)
    BY <2>4, <2>5 DEF IsIteration
  <2>7. QED  BY <1>3, <2>6
<1>6. QED  BY <1>4, <1>5
=============================================================================
