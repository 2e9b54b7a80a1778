--------------------------- MODULE TurnOrderLemmas ---------------------------
(* Facts about turn numbers and hands, cited by the proofs about the game. *)
EXTENDS Integers, FiniteSetsExt, FiniteSetTheorems, FunctionTheorems,
        WellFoundedInduction, TLAPS

(* Any set of turn numbers with a member has a first one, and Min is it:    *)
(* nextEligibleActivePlayer and transferHost are defined whenever they find *)
(* a candidate.  The first number is the one with the smallest down-set.    *)
LEMMA MinIsFirst ==
  ASSUME NEW S, S \subseteq Nat, S # {}
  PROVE  Min(S) \in S /\ \A y \in S : Min(S) <= y
<1> DEFINE Below(x) == {y \in S : y <= x}
           Downs == {Below(x) : x \in S}
<1>1. Downs \subseteq FiniteSubsetsOf(Nat) /\ Downs # {}
  <2>1. ASSUME NEW x \in S  PROVE  Below(x) \in FiniteSubsetsOf(Nat)
    <3>1. IsFiniteSet(Below(x))
      <4>1. Below(x) \in SUBSET Nat /\ x \in Nat /\ \A y \in Below(x) : y <= x
        OBVIOUS
      <4>. QED  BY <4>1, FS_BoundedSetOfNaturals
    <3>. QED  BY <3>1 DEF FiniteSubsetsOf
  <2>. QED  BY <2>1
<1>2. PICK D \in Downs : \A E \in Downs : <<E, D>> \notin StrictSubsetOrdering(Nat)
  <2>. HIDE DEF Downs
  <2>. QED  BY <1>1, FS_StrictSubsetOrderingWellFounded, WFMin
<1>3. PICK x \in S : D = Below(x)
  BY <1>2
<1>4. ASSUME NEW y \in S, ~(x <= y)  PROVE  FALSE
  <2>1. Below(y) \subseteq Below(x) /\ x \in Below(x) /\ x \notin Below(y)
    <3>1. x \in Nat /\ y \in Nat /\ \A z \in S : z \in Nat
      OBVIOUS
    <3>2. y <= x /\ y # x
      BY <1>4, <3>1
    <3>3. \A z \in S : z <= y => z <= x
      BY <3>1, <3>2
    <3>4. ~(x <= y) /\ x <= x
      BY <1>4, <3>1
    <3>. QED  BY <3>3, <3>4
  <2>2. <<Below(y), Below(x)>> \in StrictSubsetOrdering(Nat)
    BY <2>1 DEF StrictSubsetOrdering
  <2>. QED  BY <1>2, <1>3, <2>2
<1>. QED  BY <1>4 DEF Min

-----------------------------------------------------------------------------
(* Products of naturals are natural. *)
LEMMA ProductIsNat == ASSUME NEW a \in Nat, NEW b \in Nat PROVE a * b \in Nat
OBVIOUS

(* The places 1, 2, ... cut into parts of k. *)
Part(i, k) == ((i - 1) * k + 1) .. (i * k)

LEMMA PartsInOrder ==
  ASSUME NEW k \in Nat, NEW i \in Nat, NEW j \in Nat, i < j
  PROVE  i * k <= (j - 1) * k /\ (j - 1) * k \in Nat /\ i * k \in Nat
<1> DEFINE d == (j - 1) - i
<1>1. d \in Nat /\ j - 1 = i + d /\ j - 1 \in Nat
  OBVIOUS
<1>. HIDE DEF d
<1>2. d * k \in Nat /\ i * k \in Nat /\ (i + d) * k = i * k + d * k
  BY <1>1
<1>. QED  BY <1>1, <1>2

LEMMA PartsAreApart ==
  ASSUME NEW k \in Nat, NEW m \in Nat, NEW i \in 1 .. m
  PROVE  /\ Part(i, k) \subseteq 1 .. m * k
         /\ Cardinality(Part(i, k)) = k
         /\ \A j \in 1 .. m : i # j => Part(i, k) \cap Part(j, k) = {}
<1>1. (i - 1) * k \in Nat /\ i * k = (i - 1) * k + k
  <2>1. i - 1 \in Nat /\ i \in Nat
    OBVIOUS
  <2>2. (i - 1) * k \in Nat
    BY <2>1, ProductIsNat
  <2>3. (i - 1) * k + k = i * k
    BY <2>1
  <2>. QED  BY <2>2, <2>3
<1>2. i * k <= m * k /\ m * k \in Nat
  <2>1. i < m + 1 /\ i \in Nat /\ m + 1 \in Nat /\ (m + 1) - 1 = m
    OBVIOUS
  <2>2. i * k <= ((m + 1) - 1) * k /\ ((m + 1) - 1) * k \in Nat
    BY <2>1, PartsInOrder
  <2>. QED  BY <2>1, <2>2
<1>3. Cardinality(Part(i, k)) = k
  <2> DEFINE a == (i - 1) * k
  <2>1. a \in Nat /\ Part(i, k) = (a + 1) .. (a + k)
    BY <1>1 DEF Part
  <2>. HIDE DEF a
  <2>2. a + 1 \in Int /\ a + k \in Int /\ (a + k) - (a + 1) + 1 = k
        /\ (a + 1 > a + k => k = 0)
    BY <2>1
  <2>3. Cardinality((a + 1) .. (a + k)) = IF a + 1 > a + k THEN 0 ELSE (a + k) - (a + 1) + 1
    BY <2>2, FS_Interval
  <2>. QED  BY <2>1, <2>2, <2>3
<1>4. ASSUME NEW x \in Part(i, k)  PROVE x \in 1 .. m * k
  BY <1>1, <1>2, <1>4 DEF Part
<1>5. ASSUME NEW j \in 1 .. m, i # j, NEW x \in Part(i, k), x \in Part(j, k)  PROVE FALSE
  <2>1. i \in Nat /\ j \in Nat /\ x \in Int
    BY DEF Part
  <2>2. /\ x >= (i - 1) * k + 1 /\ x <= i * k
        /\ x >= (j - 1) * k + 1 /\ x <= j * k
    BY <1>5 DEF Part
  <2>3. CASE i < j
    <3>1. i * k <= (j - 1) * k /\ (j - 1) * k \in Nat /\ i * k \in Nat
      BY <2>1, <2>3, PartsInOrder
    <3>. QED  BY <2>1, <2>2, <3>1
  <2>4. CASE j < i
    <3>1. j * k <= (i - 1) * k /\ (i - 1) * k \in Nat /\ j * k \in Nat
      BY <2>1, <2>4, PartsInOrder
    <3>. QED  BY <2>1, <2>2, <3>1
  <2>. QED  BY <1>5, <2>1, <2>3, <2>4
<1>. QED  BY <1>3, <1>4, <1>5

(* A pool large enough can be shared out: k to each of ps, none to two.    *)
LEMMA PoolCanBeShared ==
  ASSUME NEW ps, NEW pool, IsFiniteSet(ps), IsFiniteSet(pool), NEW k \in Nat,
         Cardinality(pool) >= Cardinality(ps) * k
  PROVE  \E hands \in [ps -> kSubset(k, pool)] :
            \A p, q \in ps : p # q => hands[p] \cap hands[q] = {}
<1> DEFINE m == Cardinality(ps)
           n == Cardinality(pool)
<1>1. m \in Nat /\ n \in Nat /\ m * k \in Nat /\ m * k <= n
  BY FS_CardinalityType, ProductIsNat
<1>2. PICK f \in Bijection(1 .. n, pool) : TRUE
  BY FS_CardinalityType, Fun_ExistsBij
<1>3. PICK g \in Bijection(ps, 1 .. m) : TRUE
  BY FS_CardinalityType, Fun_ExistsBijSymmetric, Fun_ExistsBij
<1>. HIDE DEF m, n
<1>4. g \in [ps -> 1 .. m] /\ \A p, q \in ps : g[p] = g[q] => p = q
  BY Fun_BijectionProperties
<1>5. f \in [1 .. n -> pool] /\ \A x, y \in 1 .. n : f[x] = f[y] => x = y
  BY Fun_BijectionProperties
<1>6. \A i \in 1 .. m : Part(i, k) \subseteq 1 .. n
  <2>1. 1 .. m * k \subseteq 1 .. n
    BY <1>1
  <2>. QED  BY <1>1, <2>1, PartsAreApart
<1> DEFINE dealt(i) == {f[x] : x \in Part(i, k)}
<1>7. ASSUME NEW i \in 1 .. m  PROVE dealt(i) \in kSubset(k, pool)
  <2> DEFINE h == [x \in Part(i, k) |-> f[x]]
  <2>1. dealt(i) \in SUBSET pool
    BY <1>5, <1>6
  <2>2. h \in Bijection(Part(i, k), dealt(i))
    <3>1. h \in [Part(i, k) -> dealt(i)]
      OBVIOUS
    <3>2. \A x, y \in Part(i, k) : h[x] = h[y] => x = y
      BY <1>5, <1>6
    <3>3. \A y \in dealt(i) : \E x \in Part(i, k) : h[x] = y
      OBVIOUS
    <3>. HIDE DEF h, dealt
    <3>. QED  BY <3>1, <3>2, <3>3, Fun_IsBij
  <2>3. ExistsBijection(Part(i, k), dealt(i))
    <3>. HIDE DEF h, dealt
    <3>. QED  BY <2>2, Fun_ExistsBij
  <2>4. IsFiniteSet(Part(i, k)) /\ Cardinality(Part(i, k)) = k
    <3>1. IsFiniteSet(1 .. n)
      BY <1>1, FS_Interval
    <3>. QED  BY <1>1, <1>6, <3>1, FS_Subset, PartsAreApart
  <2>5. Cardinality(dealt(i)) = k
    <3>. HIDE DEF h, dealt
    <3>. QED  BY <2>3, <2>4, FS_Bijection
  <2>. QED  BY <2>1, <2>5 DEF kSubset
<1>8. ASSUME NEW i \in 1 .. m, NEW j \in 1 .. m, i # j  PROVE dealt(i) \cap dealt(j) = {}
  <2>1. Part(i, k) \cap Part(j, k) = {}
    BY <1>1, <1>8, PartsAreApart
  <2>. QED  BY <1>5, <1>6, <2>1
<1>. HIDE DEF dealt
<1> DEFINE hands == [p \in ps |-> dealt(g[p])]
<1>9. hands \in [ps -> kSubset(k, pool)]
  BY <1>4, <1>7
<1>10. \A p, q \in ps : p # q => hands[p] \cap hands[q] = {}
  BY <1>4, <1>8
<1>. QED  BY <1>9, <1>10
=============================================================================
