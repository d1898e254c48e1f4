------------------------------ MODULE Induction ------------------------------
(***************************************************************************)
(* Induction over numbers, stated of sets: the library states it of a      *)
(* predicate, which the provers cannot be given.  It rests on the library's *)
(* theorem that the subsets of a finite set are well-founded: the least     *)
(* number of a set is the smallest of the intervals 1..k of its members.    *)
(***************************************************************************)
EXTENDS Integers, FiniteSetTheorems, TLAPS

\* A set of naturals that has a member has a least one.
THEOREM LeastNumber ==
    ASSUME NEW S \in SUBSET Nat, S # {}
    PROVE  \E m \in S : \A k \in S : m <= k
  <1>1. PICK n \in S : TRUE
    OBVIOUS
  <1> DEFINE Below == {k \in S : k <= n}
             Intervals == {1..k : k \in Below}
  <1>2. IsFiniteSet(1..n)
    BY FS_Interval
  <1>3. IsWellFoundedOn(StrictSubsetOrdering(1..n), SUBSET (1..n))
    BY <1>2, FS_StrictSubsetOrderingWellFounded, FS_FiniteSubsetsOfFinite
  <1>4. Intervals \subseteq SUBSET (1..n) /\ Intervals # {}
    BY <1>1
  <1>5. PICK x \in Intervals :
            \A y \in Intervals : <<y, x>> \notin StrictSubsetOrdering(1..n)
    BY <1>3, <1>4, WFMin
  <1>6. PICK m \in Below : x = 1..m
    BY <1>5
  <1>7. ASSUME NEW k \in S, k < m
        PROVE  FALSE
    <2>1. 1..k \in Intervals /\ 1..k \in SUBSET (1..n) /\ 1..m \in SUBSET (1..n)
      BY <1>6, <1>7
    <2>2. 1..k \subseteq 1..m /\ m \in 1..m /\ m \notin 1..k
      BY <1>7
    <2> HIDE DEF Intervals, Below
    <2>3. <<1..k, 1..m>> \in StrictSubsetOrdering(1..n)
      BY <2>1, <2>2 DEF StrictSubsetOrdering
    <2> QED
      BY <1>5, <1>6, <2>1, <2>3
  <1> QED
    BY <1>6, <1>7

\* What holds of 0 and passes from a number to the next holds up to n.
LEMMA InductionUpTo ==
    ASSUME NEW n \in Nat, NEW S, 0 \in S,
           \A k \in 0..(n - 1) : k \in S => k + 1 \in S
    PROVE  0..n \subseteq S
  <1> DEFINE Left == (0..n) \ S
  <1> SUFFICES ASSUME Left # {}
               PROVE  FALSE
    OBVIOUS
  <1>1. Left \in SUBSET Nat
    OBVIOUS
  <1> HIDE DEF Left
  <1>2. PICK m \in Left : \A k \in Left : m <= k
    BY <1>1, LeastNumber
  <1> USE DEF Left
  <1>3. m \in 1..n /\ m - 1 \in 0..(n - 1) /\ m - 1 \notin Left
    BY <1>2
  <1> QED
    BY <1>2, <1>3

\* The members of S up to a number.
Upto(A, k) == {j \in A : j <= k}

\* A number more is one to count, when it is a member.
THEOREM CountOfOneMore ==
    ASSUME NEW S, \A j \in S : j \in Nat, NEW n \in Nat
    PROVE  /\ IsFiniteSet(Upto(S, n)) /\ Cardinality(Upto(S, n)) \in Nat
           /\ n + 1 \in S => Cardinality(Upto(S, n + 1)) = Cardinality(Upto(S, n)) + 1
           /\ n + 1 \notin S => Upto(S, n + 1) = Upto(S, n)
  <1>1. IsFiniteSet(Upto(S, n)) /\ Cardinality(Upto(S, n)) \in Nat
    <2>1. Upto(S, n) \subseteq 0..n
      BY DEF Upto
    <2>2. IsFiniteSet(0..n)
      BY FS_Interval
    <2> QED
      BY <2>1, <2>2, FS_Subset, FS_CardinalityType
  <1>2. ASSUME n + 1 \in S
        PROVE  Cardinality(Upto(S, n + 1)) = Cardinality(Upto(S, n)) + 1
    <2>1. Upto(S, n + 1) = Upto(S, n) \cup {n + 1} /\ n + 1 \notin Upto(S, n)
      BY <1>2 DEF Upto
    <2> QED
      BY <1>1, <2>1, FS_AddElement
  <1>3. ASSUME n + 1 \notin S
        PROVE  Upto(S, n + 1) = Upto(S, n)
    BY <1>3 DEF Upto
  <1> QED
    BY <1>1, <1>2, <1>3

\* The place of a member among the members is one of the places there are.
THEOREM PlaceIsCounted ==
    ASSUME NEW S, \A j \in S : j \in Nat, NEW n \in Nat, NEW m \in S, m <= n
    PROVE  Cardinality(Upto(S, m)) \in 1..Cardinality(Upto(S, n))
  <1>1. IsFiniteSet(Upto(S, n)) /\ IsFiniteSet(Upto(S, m))
    BY CountOfOneMore
  <1>2. Upto(S, m) \in SUBSET Upto(S, n) /\ {m} \in SUBSET Upto(S, m)
    BY DEF Upto
  <1>3. Cardinality({m}) = 1 /\ IsFiniteSet({m})
    BY FS_Singleton
  <1>4. /\ Cardinality({m}) <= Cardinality(Upto(S, m))
        /\ Cardinality(Upto(S, m)) <= Cardinality(Upto(S, n))
    BY <1>1, <1>2, FS_Subset
  <1>5. Cardinality(Upto(S, m)) \in Nat /\ Cardinality(Upto(S, n)) \in Nat
    BY CountOfOneMore
  <1> QED
    BY <1>3, <1>4, <1>5
=============================================================================
