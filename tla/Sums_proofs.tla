----------------------------- MODULE Sums_proofs -----------------------------
(* How SumOf changes with the function it sums, for every finite domain.      *)
(* SumOf picks the elements in an order of its own; the proofs compare it     *)
(* with a function that is a sum whichever element is taken first.            *)
EXTENDS Sums, FiniteSets, FiniteSetTheorems, WellFoundedInduction, TLAPS

IsPartialSum(H, f, E) ==
    /\ H \in [SUBSET E -> Int]
    /\ H[{}] = 0
    /\ \A S \in SUBSET E : \A x \in S : H[S] = f[x] + H[S \ {x}]

(* A family of subsets of a finite set has a least member: what induction     *)
(* over finite sets comes down to.                                            *)
LEMMA LeastSubset ==
    ASSUME NEW D, IsFiniteSet(D), NEW B \in SUBSET (SUBSET D), B # {}
    PROVE  \E S \in B : \A R \in B : R \subseteq S => R = S
  <1>1. IsWellFoundedOn(StrictSubsetOrdering(D), FiniteSubsetsOf(D))
    BY FS_StrictSubsetOrderingWellFounded
  <1>2. B \subseteq FiniteSubsetsOf(D)
    BY FS_Subset DEF FiniteSubsetsOf
  <1>3. PICK S \in B : \A R \in B : ~(<<R, S>> \in StrictSubsetOrdering(D))
    BY <1>1, <1>2, WFMin
  <1>4. ASSUME NEW R \in B, R \subseteq S, R # S PROVE FALSE
    BY <1>3, <1>4 DEF StrictSubsetOrdering
  <1> QED
    BY <1>4

(* Every function on a finite set can be summed.                              *)
LEMMA PartialSumExists ==
    ASSUME NEW D, IsFiniteSet(D), NEW f \in [D -> Int]
    PROVE  \E H : IsPartialSum(H, f, D)
  <1> DEFINE B == {E \in SUBSET D : ~ \E H : IsPartialSum(H, f, E)}
  <1>1. SUFFICES ASSUME B # {} PROVE FALSE
    OBVIOUS
  <1>2. PICK E \in B : \A R \in B : R \subseteq E => R = E
    <2>1. B \in SUBSET (SUBSET D)
      OBVIOUS
    <2> HIDE DEF B
    <2> QED
      BY <1>1, <2>1, LeastSubset
  <1>3. CASE E = {}
    <2>1. IsPartialSum([S \in SUBSET E |-> 0], f, E)
      BY <1>3 DEF IsPartialSum
    <2> QED
      BY <2>1
  <1>4. CASE E # {}
    <2>1. PICK e \in E : TRUE
      BY <1>4
    <2>2. PICK H : IsPartialSum(H, f, E \ {e})
      BY <1>2
    <2> DEFINE G == [S \in SUBSET E |-> IF e \in S THEN f[e] + H[S \ {e}] ELSE H[S]]
    <2>3. \A S \in SUBSET E : S \ {e} \in SUBSET (E \ {e}) /\ (e \notin S => S \in SUBSET (E \ {e}))
      OBVIOUS
    <2>4. G \in [SUBSET E -> Int] /\ G[{}] = 0
      BY <2>2, <2>3 DEF IsPartialSum
    <2>5. ASSUME NEW S \in SUBSET E, NEW x \in S PROVE G[S] = f[x] + G[S \ {x}]
      <3>1. f[x] \in Int /\ f[e] \in Int
        OBVIOUS
      <3>2. CASE x = e
        BY <2>3, <3>2
      <3>3. CASE x # e /\ e \notin S
        BY <2>2, <2>3, <3>3 DEF IsPartialSum
      <3>4. CASE x # e /\ e \in S
        <4>1. x \in S \ {e} /\ S \ {e} \in SUBSET (E \ {e})
          BY <3>4
        <4>2. H[S \ {e}] = f[x] + H[(S \ {e}) \ {x}]
          BY <2>2, <4>1 DEF IsPartialSum
        <4>3. (S \ {e}) \ {x} = (S \ {x}) \ {e} /\ e \in S \ {x} /\ S \ {x} \in SUBSET E
          BY <3>4
        <4>4. H[(S \ {e}) \ {x}] \in Int
          BY <2>2, <4>1 DEF IsPartialSum
        <4>5. G[S] = f[e] + H[S \ {e}] /\ G[S \ {x}] = f[e] + H[(S \ {e}) \ {x}]
          BY <3>4, <4>3
        <4> QED
          BY <3>1, <4>2, <4>4, <4>5
      <3> QED
        BY <3>2, <3>3, <3>4
    <2>6. IsPartialSum(G, f, E)
      BY <2>4, <2>5 DEF IsPartialSum
    <2> QED
      BY <2>6
  <1> QED
    BY <1>3, <1>4

(* SumOf is that sum.                                                         *)
LEMMA SumIsPartialSum ==
    ASSUME NEW D, IsFiniteSet(D), NEW f \in [D -> Int], NEW H, IsPartialSum(H, f, D)
    PROVE  SumOf(f) = H[D]
  <1> DEFINE Step(P) == [S \in SUBSET D |->
               IF S = {} THEN 0 ELSE f[CHOOSE y \in S : TRUE] + P[S \ {CHOOSE y \in S : TRUE}]]
             Part == CHOOSE P : P = Step(P)
  <1>1. H = Step(H)
    BY DEF IsPartialSum
  <1>2. Part = Step(Part)
    BY <1>1
  <1>3. SumOf(f) = Part[D]
    BY DEF SumOf
  <1> HIDE DEF Part
  <1> DEFINE B == {S \in SUBSET D : Part[S] # H[S]}
  <1>4. B = {}
    <2>1. SUFFICES ASSUME B # {} PROVE FALSE
      OBVIOUS
    <2>2. PICK S \in B : \A R \in B : R \subseteq S => R = S
      <3>1. B \in SUBSET (SUBSET D)
        OBVIOUS
      <3> HIDE DEF B
      <3> QED
        BY <2>1, <3>1, LeastSubset
    <2> DEFINE x == CHOOSE y \in S : TRUE
    <2>3. S # {}
      BY <1>1, <1>2, <2>2
    <2>4. x \in S
      BY <2>3
    <2>5. Part[S] = f[x] + Part[S \ {x}] /\ H[S] = f[x] + H[S \ {x}]
      BY <1>1, <1>2, <2>2, <2>3
    <2>6. Part[S \ {x}] = H[S \ {x}]
      BY <2>2, <2>4
    <2> QED
      BY <2>2, <2>5, <2>6
  <1> QED
    BY <1>3, <1>4

(* The sum is an integer, 0 if nothing is summed but zeros, and follows the   *)
(* change of one value.                                                       *)
THEOREM SumType ==
    ASSUME NEW D, IsFiniteSet(D), NEW f \in [D -> Int]
    PROVE  SumOf(f) \in Int
  <1>1. PICK H : IsPartialSum(H, f, D)
    BY PartialSumExists
  <1>2. SumOf(f) = H[D]
    BY <1>1, SumIsPartialSum
  <1> QED
    BY <1>1, <1>2 DEF IsPartialSum

THEOREM SumOfZeros ==
    ASSUME NEW D, IsFiniteSet(D)
    PROVE  SumOf([x \in D |-> 0]) = 0
  <1> DEFINE f == [x \in D |-> 0]
             H == [S \in SUBSET D |-> 0]
  <1>1. f \in [D -> Int] /\ IsPartialSum(H, f, D)
    BY DEF IsPartialSum
  <1>2. SumOf(f) = H[D]
    BY <1>1, SumIsPartialSum
  <1> QED
    BY <1>2

THEOREM SumFollows ==
    ASSUME NEW D, IsFiniteSet(D), NEW f \in [D -> Int], NEW g \in [D -> Int], NEW e \in D,
           \A x \in D \ {e} : g[x] = f[x]
    PROVE  SumOf(g) = SumOf(f) - f[e] + g[e]
  <1>1. PICK H : IsPartialSum(H, f, D)
    BY PartialSumExists
  <1> DEFINE G == [S \in SUBSET D |-> IF e \in S THEN H[S] - f[e] + g[e] ELSE H[S]]
  <1>2. f[e] \in Int /\ g[e] \in Int
    OBVIOUS
  <1>3. G \in [SUBSET D -> Int] /\ G[{}] = 0
    BY <1>1, <1>2 DEF IsPartialSum
  <1>4. ASSUME NEW S \in SUBSET D, NEW x \in S PROVE G[S] = g[x] + G[S \ {x}]
    <2>1. H[S] = f[x] + H[S \ {x}] /\ H[S] \in Int /\ H[S \ {x}] \in Int /\ S \ {x} \in SUBSET D
      BY <1>1 DEF IsPartialSum
    <2>2. f[x] \in Int /\ g[x] \in Int
      OBVIOUS
    <2>3. CASE x = e
      <3>1. G[S] = H[S] - f[e] + g[e] /\ G[S \ {x}] = H[S \ {x}]
        BY <2>1, <2>3
      <3> QED
        BY <2>1, <2>2, <2>3, <3>1
    <2>4. CASE x # e /\ e \in S
      <3>1. G[S] = H[S] - f[e] + g[e] /\ G[S \ {x}] = H[S \ {x}] - f[e] + g[e] /\ g[x] = f[x]
        BY <2>1, <2>4
      <3> QED
        BY <1>2, <2>1, <2>2, <3>1
    <2>5. CASE e \notin S
      <3>1. G[S] = H[S] /\ G[S \ {x}] = H[S \ {x}] /\ g[x] = f[x]
        BY <2>1, <2>5
      <3> QED
        BY <2>1, <3>1
    <2> QED
      BY <2>3, <2>4, <2>5
  <1>5. IsPartialSum(G, g, D)
    BY <1>3, <1>4 DEF IsPartialSum
  <1>6. SumOf(f) = H[D] /\ SumOf(g) = G[D]
    BY <1>1, <1>5, SumIsPartialSum
  <1> QED
    BY <1>6

(* A sum of naturals is no less than any of its terms.                        *)
THEOREM SumCoversTerms ==
    ASSUME NEW D, IsFiniteSet(D), NEW f \in [D -> Nat], NEW e \in D
    PROVE  f[e] <= SumOf(f)
  <1>1. f \in [D -> Int]
    OBVIOUS
  <1>2. PICK H : IsPartialSum(H, f, D)
    BY <1>1, PartialSumExists
  <1> DEFINE B == {S \in SUBSET D : ~(0 <= H[S])}
  <1>3. B = {}
    <2>1. SUFFICES ASSUME B # {} PROVE FALSE
      OBVIOUS
    <2>2. PICK S \in B : \A R \in B : R \subseteq S => R = S
      <3>1. B \in SUBSET (SUBSET D)
        OBVIOUS
      <3> HIDE DEF B
      <3> QED
        BY <2>1, <3>1, LeastSubset
    <2>3. PICK x \in S : TRUE
      <3>1. H[{}] = 0 /\ ~(0 <= H[S])
        BY <1>2, <2>2 DEF IsPartialSum
      <3>2. S # {}
        BY <3>1
      <3> QED
        BY <3>2
    <2>4. H[S] = f[x] + H[S \ {x}] /\ H[S \ {x}] \in Int
      BY <1>2, <2>2, <2>3 DEF IsPartialSum
    <2>5. S \ {x} \notin B
      BY <2>2, <2>3
    <2>6. 0 <= H[S \ {x}]
      BY <2>2, <2>5
    <2>7. f[x] \in Nat
      BY <2>2, <2>3
    <2>8. 0 <= H[S]
      BY <2>4, <2>6, <2>7
    <2> QED
      BY <2>2, <2>8
  <1>4. H[D] = f[e] + H[D \ {e}] /\ H[D \ {e}] \in Int
    BY <1>2 DEF IsPartialSum
  <1>5. 0 <= H[D \ {e}]
    BY <1>3
  <1>6. SumOf(f) = H[D]
    BY <1>1, <1>2, SumIsPartialSum
  <1> QED
    BY <1>4, <1>5, <1>6
=============================================================================
