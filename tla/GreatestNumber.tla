--------------------------- MODULE GreatestNumber ---------------------------
(***************************************************************************)
(* Least and greatest elements of sets of numbers, for the CHOOSEs of the  *)
(* models: a nonempty set of natural numbers has a least element, and one  *)
(* of numbers up to a bound a greatest.                                    *)
(***************************************************************************)
EXTENDS Integers, WellFoundedInduction, TLAPS

Less == {p \in Nat \X Nat : p[1] < p[2]}

(* The natural numbers are well-ordered.                                   *)
LEMMA LeastNatural ==
  ASSUME NEW D \in SUBSET Nat, D # {}
  PROVE  \E d \in D : \A c \in D : d <= c
<1>1. IsWellFoundedOn(Less, Nat)
  BY NatLessThanWellFounded, Zenon DEF OpToRel, Less
<1>2. PICK d \in D : \A c \in D : ~(<<c, d>> \in Less)
  BY <1>1, WFMin
<1>3. ASSUME NEW c \in D, c < d PROVE <<c, d>> \in Less
  BY <1>3 DEF Less
<1>4. \A c \in D : ~(c < d)
  BY <1>2, <1>3, Zenon
<1> QED BY <1>4

(* A nonempty set of numbers from 1 to max has a greatest element.         *)
LEMMA GreatestUpTo ==
  ASSUME NEW max \in Nat, NEW T \in SUBSET (1..max), T # {}
  PROVE  \E e \in T : \A f \in T : f <= e
<1> DEFINE D == {max - t : t \in T}
<1>1. D \in SUBSET Nat /\ D # {}
  <2>1. \A t \in T : max - t \in Nat
    OBVIOUS
  <2> QED BY <2>1
<1>2. PICK d \in D : \A c \in D : d <= c
  <2> HIDE DEF D
  <2> QED BY <1>1, LeastNatural
<1>3. PICK e \in T : d = max - e
  OBVIOUS
<1>4. \A f \in T : max - e <= max - f
  BY <1>2, <1>3
<1> QED BY <1>4
=============================================================================
