---------------------------- MODULE MCBatchStore ----------------------------
(* Three attempts of one cc_pair: the first may store two batches, the     *)
(* second one, and the third has but the batches of the others.            *)
EXTENDS BatchStore

OnePair   == <<2, 2, 2>>
TwoAndOne == <<2, 1, 0>>

(* What comes after two processes of the cc_pair met, or a task died       *)
(* between its count and its end, is not explored: nothing is claimed of   *)
(* it.                                                                     *)
Undisturbed == disturbed = {}
=============================================================================
