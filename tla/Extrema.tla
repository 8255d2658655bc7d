------------------------------- MODULE Extrema ------------------------------
(***************************************************************************)
(* Least and greatest members of sets of natural numbers: what the proofs  *)
(* use in place of an induction, by the well-foundedness of the order.     *)
(***************************************************************************)
EXTENDS Integers, FiniteSetsExt, WellFoundedInduction, TLAPS

\* A set of natural numbers that is not empty has a least member.
LEMMA MinOfNats ==
    ASSUME NEW T, T \subseteq Nat, T # {}
    PROVE  \E x \in T : \A y \in T : x <= y
  <1> DEFINE R == OpToRel(<, Nat)
  <1>1. IsWellFoundedOn(R, Nat)
    BY NatLessThanWellFounded
  <1>2. \A x, y \in Nat : y < x => <<y, x>> \in R
    BY DEF OpToRel
  <1> HIDE DEF R
  <1>3. PICK x \in T : \A y \in T : ~(<<y, x>> \in R)
    BY <1>1, WFMin
  <1>4. ASSUME NEW y \in T PROVE x <= y
    <2>1. x \in Nat /\ y \in Nat
      OBVIOUS
    <2>2. ~(y < x)
      BY <1>2, <1>3, <2>1, Zenon
    <2> QED
      BY <2>1, <2>2
  <1> QED
    BY <1>4

\* A bounded one has a greatest, and Max finds it.
LEMMA MaxOfBounded ==
    ASSUME NEW T, NEW n \in Nat, T \subseteq 0..n, T # {}
    PROVE  Max(T) \in T /\ \A y \in T : y <= Max(T)
  <1> DEFINE U == {u \in Nat : n - u \in T}
  <1>0. \A y \in T : n - y \in Nat /\ n - (n - y) = y /\ y \in Nat
    OBVIOUS
  <1>1. PICK u \in U : \A y \in U : u <= y
    <2>1. U \subseteq Nat /\ U # {}
      BY <1>0
    <2> HIDE DEF U
    <2> QED
      BY <2>1, MinOfNats
  <1>2. n - u \in T /\ u \in Nat
    OBVIOUS
  <1>3. \A y \in T : n - y \in U
    BY <1>0
  <1> HIDE DEF U
  <1>4. \A y \in T : n - u >= y
    BY <1>0, <1>1, <1>2, <1>3
  <1> QED
    BY <1>2, <1>4 DEF Max

\* Min finds the least.
LEMMA MinIs ==
    ASSUME NEW T, T \subseteq Nat, T # {}
    PROVE  Min(T) \in T /\ \A y \in T : Min(T) <= y
  <1>1. PICK x \in T : \A y \in T : x <= y
    BY MinOfNats
  <1> QED
    BY <1>1 DEF Min

\* A member that no other exceeds is what Max finds.
LEMMA MaxIs ==
    ASSUME NEW T, NEW k \in T, T \subseteq Nat, \A y \in T : y <= k
    PROVE  Max(T) = k
  <1>1. \A x \in T : (\A y \in T : x >= y) => x = k
    OBVIOUS
  <1>2. \A y \in T : k >= y
    OBVIOUS
  <1> QED
    BY <1>1, <1>2 DEF Max

LEMMA MaxGrows ==
    ASSUME NEW T, NEW U, NEW n \in Nat, T \subseteq U, U \subseteq 0..n, T # {}
    PROVE  Max(T) \in Nat /\ Max(U) \in Nat /\ Max(T) <= Max(U)
  <1>1. Max(T) \in T /\ Max(U) \in U /\ \A y \in U : y <= Max(U)
    BY MaxOfBounded
  <1>2. Max(T) \in 0..n /\ Max(U) \in 0..n
    BY <1>1
  <1>3. Max(T) <= Max(U)
    BY <1>1
  <1> QED
    BY <1>2, <1>3

=============================================================================
