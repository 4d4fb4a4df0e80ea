----------------------------- MODULE LeastNumber -----------------------------
(***************************************************************************)
(* Induction for the proofs about walks along lists and through sequences: *)
(* what fails for some number fails for a least one.                       *)
(***************************************************************************)
EXTENDS Naturals, WellFoundedInduction, TLAPS

\* Every set of numbers that is not empty has a least element.
LEMMA Least ==
  ASSUME NEW T \in SUBSET Nat, T # {}
  PROVE  \E m \in T : \A k \in T : m <= k
<1>1. PICK R : /\ IsWellFoundedOn(R, Nat)
               /\ \A k, m \in Nat : k < m => <<k, m>> \in R
  <2>1. \A k, m \in Nat : k < m => <<k, m>> \in OpToRel(<, Nat)
    BY Zenon DEF OpToRel
  <2> QED  BY <2>1, NatLessThanWellFounded, Zenon
<1>2. \E x \in T : \A y \in T : ~ (<<y, x>> \in R)
  <2>1. ASSUME NEW R1, NEW S1, IsWellFoundedOn(R1, S1),
               NEW T1, T1 \subseteq S1, T1 # {}
        PROVE  \E x \in T1 : \A y \in T1 : ~ (<<y, x>> \in R1)
    BY <2>1, WFMin
  <2>2. IsWellFoundedOn(R, Nat) /\ T \subseteq Nat
    BY <1>1
  <2> QED  BY <2>1, <2>2
<1>3. PICK m \in T : \A y \in T : ~ (<<y, m>> \in R)
  BY <1>2
<1>4. ASSUME NEW k \in T
      PROVE  m <= k
  <2>1. ~ (k < m)
    BY <1>1, <1>3, Zenon
  <2> QED  BY <2>1
<1> QED  BY <1>4, Zenon
=============================================================================
