------------------------------ MODULE NumberSets ------------------------------
(***************************************************************************)
(* Facts about Min and Max of sets of natural numbers, on which the proofs *)
(* of the modules that keep a series as the set of its open times rest.    *)
(***************************************************************************)
EXTENDS Integers, FiniteSets, FiniteSetsExt, FiniteSetTheorems, WellFoundedInduction, TLAPS

(* Every set of natural numbers has a smallest one.                        *)
LEMMA SmallestExists ==
    ASSUME NEW T, T \subseteq Nat, T # {}
    PROVE  \E x \in T : \A y \in T : x <= y
  <1>1. IsWellFoundedOn({ss \in Nat \X Nat : ss[1] < ss[2]}, Nat)
    BY NatLessThanWellFounded DEF OpToRel
  <1>2. PICK x \in T : \A y \in T : ~(<<y, x>> \in {ss \in Nat \X Nat : ss[1] < ss[2]})
    BY <1>1, WFMin
  <1>3. ASSUME NEW y \in T PROVE x <= y
    <2>1. y < x => <<y, x>> \in {ss \in Nat \X Nat : ss[1] < ss[2]}
      OBVIOUS
    <2>2. QED
      BY <1>2, <2>1
  <1>4. QED
    BY <1>3

(* Min is the smallest.                                                    *)
LEMMA MinIsSmallest ==
    ASSUME NEW T, T \subseteq Nat, T # {}
    PROVE  /\ Min(T) \in T
           /\ \A y \in T : Min(T) <= y
  BY SmallestExists DEF Min

(* Max of a bounded set is the largest.                                    *)
LEMMA MaxIsLargest ==
    ASSUME NEW T, T \subseteq Nat, T # {}, NEW n \in Nat, \A t \in T : t <= n
    PROVE  /\ Max(T) \in T
           /\ \A y \in T : Max(T) >= y
  <1> DEFINE Mirror == {n - t : t \in T}
  <1>1. Mirror \subseteq Nat
    OBVIOUS
  <1>2. Mirror # {}
    OBVIOUS
  <1>3. PICK m \in Mirror : \A k \in Mirror : m <= k
    <2> HIDE DEF Mirror
    <2>1. QED
      BY <1>1, <1>2, SmallestExists
  <1>4. PICK x \in T : m = n - x
    OBVIOUS
  <1>5. ASSUME NEW y \in T PROVE x >= y
    <2>1. n - y \in Mirror
      OBVIOUS
    <2>2. n - x <= n - y
      BY <1>3, <1>4, <2>1
    <2>3. QED
      BY <2>2
  <1>6. QED
    BY <1>5 DEF Max

(***************************************************************************)
(* Ranks: how many elements of a finite set have a key up to one's own.    *)
(***************************************************************************)
UpTo(S, key, r) == {s \in S : key[s] <= key[r]}

LEMMA UpToFinite ==
    ASSUME NEW S, IsFiniteSet(S), NEW key, NEW r
    PROVE  /\ IsFiniteSet(UpTo(S, key, r))
           /\ Cardinality(UpTo(S, key, r)) \in Nat
           /\ Cardinality(UpTo(S, key, r)) <= Cardinality(S)
  <1>1. UpTo(S, key, r) \in SUBSET S
    BY DEF UpTo
  <1>2. QED
    BY <1>1, FS_Subset, FS_CardinalityType

(* Ranks are ordered as the keys are.                                      *)
LEMMA RankMonotone ==
    ASSUME NEW S, IsFiniteSet(S), NEW key \in [S -> Int],
           NEW a \in S, NEW b \in S, key[a] <= key[b]
    PROVE  Cardinality(UpTo(S, key, a)) <= Cardinality(UpTo(S, key, b))
  <1>1. UpTo(S, key, a) \in SUBSET UpTo(S, key, b)
    BY DEF UpTo
  <1>2. QED
    BY <1>1, UpToFinite, FS_Subset

LEMMA RankStrict ==
    ASSUME NEW S, IsFiniteSet(S), NEW key \in [S -> Int],
           NEW a \in S, NEW b \in S, key[a] < key[b]
    PROVE  Cardinality(UpTo(S, key, a)) # Cardinality(UpTo(S, key, b))
  <1>1. UpTo(S, key, a) \in SUBSET UpTo(S, key, b)
    BY DEF UpTo
  <1>2. b \in UpTo(S, key, b) /\ b \notin UpTo(S, key, a)
    BY DEF UpTo
  <1>3. QED
    BY <1>1, <1>2, UpToFinite, FS_Subset

(* Every rank is taken.                                                    *)
LEMMA RankOnto ==
    ASSUME NEW S, IsFiniteSet(S), NEW key \in [S -> Int],
           \A a, b \in S : key[a] = key[b] => a = b
    PROVE  \A i \in 1..Cardinality(S) : \E r \in S : Cardinality(UpTo(S, key, r)) = i
  <1> DEFINE n == Cardinality(S)
             rank == [r \in S |-> Cardinality(UpTo(S, key, r))]
  <1>1. n \in Nat
    BY FS_CardinalityType
  <1>2. ASSUME NEW r \in S PROVE rank[r] \in 1..n
    <2>1. r \in UpTo(S, key, r)
      BY DEF UpTo
    <2>2. Cardinality(UpTo(S, key, r)) # 0
      BY <2>1, UpToFinite, FS_EmptySet
    <2>3. QED
      BY <1>1, <2>2, UpToFinite
  <1>3. ASSUME NEW a \in S, NEW b \in S, rank[a] = rank[b] PROVE a = b
    <2>1. ~(key[a] < key[b]) /\ ~(key[b] < key[a])
      BY <1>3, RankStrict
    <2>2. QED
      BY <2>1
  <1>4. rank \in Injection(S, 1..n)
    <2>1. rank \in [S -> 1..n]
      BY <1>2
    <2> HIDE DEF rank
    <2>2. QED
      BY <1>3, <2>1 DEF Injection, IsInjective
  <1>5. IsFiniteSet(1..n) /\ Cardinality(1..n) = n
    BY <1>1, FS_Interval
  <1>6. rank \in Surjection(S, 1..n)
    <2> HIDE DEF rank
    <2>1. QED
      BY <1>4, <1>5, FS_Injection
  <1>7. \A i \in 1..n : \E r \in S : rank[r] = i
    <2> HIDE DEF rank
    <2>1. QED
      BY <1>6 DEF Surjection
  <1>8. QED
    BY <1>7

(* So a finite set of numbers has a least and a greatest, Min and Max.     *)
LEMMA FiniteMinMax ==
    ASSUME NEW T, T \subseteq Int, IsFiniteSet(T), T # {}
    PROVE  /\ Min(T) \in T /\ \A y \in T : Min(T) <= y
           /\ Max(T) \in T /\ \A y \in T : Max(T) >= y
  <1> DEFINE key == [x \in T |-> x]
             n == Cardinality(T)
             rank(r) == Cardinality(UpTo(T, key, r))
  <1>1. key \in [T -> Int] /\ \A a, b \in T : key[a] = key[b] => a = b
    OBVIOUS
  <1>2. n \in Nat /\ n # 0
    BY FS_CardinalityType, FS_EmptySet
  <1>3. \A i \in 1..n : \E r \in T : rank(r) = i
    BY <1>1, RankOnto
  <1>4. ASSUME NEW r \in T PROVE rank(r) \in 1..n
    <2>1. r \in UpTo(T, key, r)
      BY DEF UpTo
    <2>2. rank(r) # 0 /\ rank(r) \in Nat /\ rank(r) <= n
      BY <2>1, UpToFinite, FS_EmptySet
    <2>3. QED
      BY <1>2, <2>2
  <1>5. ASSUME NEW x \in T, NEW y \in T, y < x
        PROVE  rank(y) < rank(x)
    <2>1. key[y] < key[x] /\ key[y] <= key[x]
      BY <1>5
    <2> HIDE DEF key
    <2>2. rank(y) <= rank(x) /\ rank(y) # rank(x)
      BY <1>1, <2>1, RankMonotone, RankStrict
    <2>3. QED
      BY <1>4, <2>2
  <1> HIDE DEF rank
  <1>6. \E x \in T : \A y \in T : x <= y
    <2>1. PICK x \in T : rank(x) = 1
      BY <1>2, <1>3
    <2>2. \A y \in T : x <= y
      BY <1>4, <1>5, <2>1
    <2>3. QED
      BY <2>2
  <1>7. \E x \in T : \A y \in T : x >= y
    <2>1. PICK x \in T : rank(x) = n
      BY <1>2, <1>3
    <2>2. \A y \in T : x >= y
      BY <1>2, <1>4, <1>5, <2>1
    <2>3. QED
      BY <2>2
  <1>8. QED
    BY <1>6, <1>7 DEF Min, Max

(* The image of a finite set is finite and no larger.                      *)
LEMMA ImageFinite ==
    ASSUME NEW I, IsFiniteSet(I), NEW f, DOMAIN f = I
    PROVE  /\ IsFiniteSet({f[i] : i \in I})
           /\ Cardinality({f[i] : i \in I}) <= Cardinality(I)
  <1> DEFINE g == [i \in I |-> f[i]]
             T == {f[i] : i \in I}
  <1>1. g \in Surjection(I, T)
    BY DEF Surjection
  <1> HIDE DEF g, T
  <1>2. IsFiniteSet(T) /\ Cardinality(T) <= Cardinality(I)
    BY <1>1, FS_Surjection
  <1>3. QED
    BY <1>2 DEF T
=============================================================================
