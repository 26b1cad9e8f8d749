------------------------ MODULE MCDocumentLifecycle ------------------------
(* Instances of DocumentLifecycle for TLC.                                 *)
EXTENDS DocumentProperties

CONSTANTS p1, p2   (* two cc_pairs                                         *)

NoLinks  == {}
TwoOfOne == {<<p1, 1>>, <<p1, 2>>}
Shared   == {<<p1, 1>>, <<p1, 2>>, <<p2, 2>>}
First    == {<<p1, 1>>}
Second   == {<<p1, 2>>}

(* Bound: no index attempt while the cc_pair is being pruned.              *)
InTurn ==
    \A p \in Pairs :
       prune[p] # "none" =>
         indexer[p].status = "none" /\ indexer[p].at = "idle"
=============================================================================
