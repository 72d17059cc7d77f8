----------------------------- MODULE LeastNumber ----------------------------
(***************************************************************************)
(* The least number principle, in the form the proofs about recursive      *)
(* functions use it: induction that is over a set and takes no operator.   *)
(***************************************************************************)
EXTENDS Integers, TLAPS, WellFoundedInduction

(* Every set of naturals that is not empty has a least element.            *)
LEMMA LeastNatural ==
    ASSUME NEW T, T \subseteq Nat, T # {}
    PROVE  \E x \in T : \A y \in T : x <= y
<1>1. ASSUME NEW R, IsWellFoundedOn(R, Nat), \A x, y \in Nat : x < y => <<x, y>> \in R
      PROVE  \E x \in T : \A y \in T : x <= y
  <2>1. PICK x \in T : \A y \in T : ~ (<<y, x>> \in R)
    BY <1>1, WFMin, ZenonT(30)
  <2>2. ASSUME NEW y \in T
        PROVE  x <= y
    <3>1. x \in Nat /\ y \in Nat
      OBVIOUS
    <3>2. ~ (<<y, x>> \in R)
      BY <2>1
    <3>3. ~ (y < x)
      BY <1>1, <3>1, <3>2, Zenon
    <3> QED
      BY <3>1, <3>3
  <2> QED
    BY <2>2
<1>2. IsWellFoundedOn(OpToRel(<, Nat), Nat)
  BY NatLessThanWellFounded
<1>3. \A x, y \in Nat : x < y => <<x, y>> \in OpToRel(<, Nat)
  BY DEF OpToRel
<1> QED
  BY <1>1, <1>2, <1>3, Zenon

(* A property of the numbers up to N that every number has if all smaller  *)
(* ones have it, given as the set of the numbers that lack it, is had by   *)
(* every number.                                                           *)
LEMMA NoLeast ==
    ASSUME NEW N \in Nat, NEW T \in SUBSET (0 .. N),
           ASSUME NEW m \in T, \A k \in 0 .. m - 1 : k \notin T PROVE FALSE
    PROVE  T = {}
<1> SUFFICES ASSUME T # {} PROVE FALSE
  OBVIOUS
<1>1. PICK m \in T : \A k \in T : m <= k
  <2>1. T \subseteq Nat
    OBVIOUS
  <2> QED
    BY <2>1, LeastNatural
<1>2. \A k \in 0 .. m - 1 : k \notin T
  BY <1>1
<1> QED
  BY <1>2
=============================================================================
