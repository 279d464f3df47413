---------------------------- MODULE LeastNumber ----------------------------
(***************************************************************************)
(* That a set of natural numbers has a least one, for the proofs about     *)
(* loops that look for the nearest timer and the last entry of a chain.    *)
(***************************************************************************)
EXTENDS Integers, TLAPS, WellFoundedInduction

\* A set of natural numbers that is not empty has a least element.
LEMMA LeastNat ==
    ASSUME NEW S \in SUBSET Nat, S # {}
    PROVE  \E n \in S : \A k \in S : n <= k
<1> DEFINE Smaller == OpToRel(<, Nat)
<1>1. \A n, k \in Nat : k < n => << k, n >> \in Smaller
  BY DEF OpToRel
<1>2. IsWellFoundedOn(Smaller, Nat)
  BY NatLessThanWellFounded
<1> HIDE DEF Smaller
<1>3. PICK n \in S : \A k \in S : << k, n >> \notin Smaller
  BY <1>2, WFMin
<1>4. ASSUME NEW k \in S PROVE n <= k
  <2>1. ~ (k < n)
    BY <1>1, <1>3
  <2> QED
    BY <2>1
<1> QED
  BY <1>4

\* A set of natural numbers with a bound that is not empty has a greatest element.
LEMMA GreatestNat ==
    ASSUME NEW n \in Nat, NEW S \in SUBSET (0 .. n), S # {}
    PROVE  \E m \in S : \A k \in S : k <= m
<1> DEFINE D == {d \in Nat : n - d \in S}
<1>1. D \in SUBSET Nat
  OBVIOUS
<1>2. D # {}
  <2>1. PICK k \in S : TRUE
    OBVIOUS
  <2>2. k \in 0 .. n /\ n - (n - k) = k
    OBVIOUS
  <2>3. n - k \in D
    BY <2>2
  <2> QED
    BY <2>3
<1>3. PICK d \in D : \A e \in D : d <= e
  BY <1>1, <1>2, LeastNat
<1>4. n - d \in S
  OBVIOUS
<1>5. ASSUME NEW k \in S PROVE k <= n - d
  <2>1. k \in 0 .. n /\ n - (n - k) = k
    OBVIOUS
  <2>2. n - k \in D
    BY <2>1
  <2>3. d <= n - k /\ d \in Nat
    BY <1>3, <2>2
  <2> QED
    BY <2>1, <2>3
<1> QED
  BY <1>4, <1>5
=============================================================================
