---------------------------- MODULE ProofLemmas ----------------------------
(***************************************************************************)
(* Facts about the integers that the proofs of several components use: a   *)
(* set of naturals has a least element, so that an induction over data is  *)
(* a proof that there is no least counterexample.                          *)
(***************************************************************************)
EXTENDS Integers, TLAPS, WellFoundedInduction, FiniteSetsExt

\* A nonempty set of naturals has a least element.
LEMMA LeastNat ==
  ASSUME NEW T \in SUBSET Nat, T # {}
  PROVE  \E n \in T : \A m \in T : n <= m
<1> DEFINE R == OpToRel(<, Nat)
<1>1. IsWellFoundedOn(R, Nat)
  BY NatLessThanWellFounded
<1>2. PICK n \in T : \A m \in T : ~ (<<m, n>> \in R)
  BY <1>1, WFMin
<1>3. \A m \in T : ~ (m < n)
  BY <1>2 DEF OpToRel
<1> QED
  BY <1>3

\* A nonempty set of integers with an upper bound has a maximum.
LEMMA GreatestInt ==
  ASSUME NEW T, NEW b \in Int, T # {}, \A x \in T : x \in Int /\ x <= b
  PROVE  Max(T) \in T /\ \A x \in T : x <= Max(T)
<1> DEFINE D == {n \in Nat : b - n \in T}
<1>1. D # {}
  <2>1. PICK x \in T : TRUE
    OBVIOUS
  <2>2. b - x \in D
    BY <2>1
  <2> QED
    BY <2>2
<1>2. PICK n \in D : \A m \in D : n <= m
  BY <1>1, LeastNat
<1>3. \A x \in T : b - x \in D
  OBVIOUS
<1>4. b - n \in T /\ \A x \in T : b - n >= x
  BY <1>2, <1>3
<1> QED
  BY <1>4 DEF Max
=============================================================================
