---------------------------- MODULE NumberProofs ----------------------------
(***************************************************************************)
(* A set of natural numbers has a least member, and a greatest one if it   *)
(* is bounded: what the models take with Min and Max is there.             *)
(***************************************************************************)
EXTENDS Integers, FiniteSetsExt, FiniteSetTheorems, TLAPS

(* The least member is found among the finite sets 0..n, one of which does *)
(* not properly contain another.                                           *)
LEMMA Least ==
  ASSUME NEW S \in SUBSET Nat, S # {}
  PROVE  \E m \in S : \A n \in S : m <= n
<1> DEFINE Below == {0..n : n \in S}
<1>1. PICK b \in S : TRUE
  OBVIOUS
<1>2. \A n \in S : IsFiniteSet(0..n)
  BY FS_Interval
<1>3. Below \subseteq FiniteSubsetsOf(Nat)
  BY <1>2 DEF FiniteSubsetsOf
<1>4. IsWellFoundedOn(StrictSubsetOrdering(Nat), FiniteSubsetsOf(Nat))
  BY FS_StrictSubsetOrderingWellFounded
<1>5. PICK x \in Below : \A y \in Below : ~ (<<y, x>> \in StrictSubsetOrdering(Nat))
  <2>1. Below # {}
    BY <1>1
  <2> QED
    BY <1>3, <1>4, <2>1, WFMin
<1>6. PICK m \in S : x = 0..m
  OBVIOUS
<1>7. ASSUME NEW n \in S PROVE m <= n
  <2>1. ~ (<<0..n, 0..m>> \in StrictSubsetOrdering(Nat))
    BY <1>5, <1>6
  <2>2. n < m => 0..n \subseteq 0..m /\ 0..n # 0..m
    <3> SUFFICES ASSUME n < m PROVE 0..n \subseteq 0..m /\ 0..n # 0..m
      OBVIOUS
    <3>1. m \in 0..m /\ m \notin 0..n
      OBVIOUS
    <3> QED
      BY <3>1
  <2>3. 0..n \in SUBSET Nat /\ 0..m \in SUBSET Nat
    OBVIOUS
  <2> QED
    BY <2>1, <2>2, <2>3 DEF StrictSubsetOrdering
<1> QED
  BY <1>7

LEMMA Greatest ==
  ASSUME NEW b \in Nat, NEW S \in SUBSET (0..b), S # {}
  PROVE  \E m \in S : \A n \in S : m >= n
<1> DEFINE T == {b - n : n \in S}
<1>1. T \in SUBSET Nat /\ T # {}
  <2>1. \A n \in S : b - n \in Nat
    OBVIOUS
  <2> QED
    BY <2>1
<1>2. PICK t \in T : \A u \in T : t <= u
  BY <1>1, Least
<1>3. PICK m \in S : t = b - m
  OBVIOUS
<1>4. \A n \in S : b - m <= b - n
  BY <1>2, <1>3
<1>5. \A n \in S : n \in Int
  OBVIOUS
<1> QED
  BY <1>4, <1>5

LEMMA MinIsLeast ==
  ASSUME NEW S \in SUBSET Nat, S # {}
  PROVE  Min(S) \in S /\ \A n \in S : Min(S) <= n
BY Least DEF Min

LEMMA MaxIsGreatest ==
  ASSUME NEW b \in Nat, NEW S \in SUBSET (0..b), S # {}
  PROVE  Max(S) \in S /\ \A n \in S : Max(S) >= n
BY Greatest DEF Max

=============================================================================
