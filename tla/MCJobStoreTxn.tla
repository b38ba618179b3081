--------------------------- MODULE MCJobStoreTxn ----------------------------
(* Two connections are enough for a lost or doubled write; a third waits.    *)
EXTENDS JobStoreTxn, TLC

CONSTANTS d1, c1, c2, c3

OneDelivery == {d1}
ThreeConnections == {c1, c2, c3}
ConnectionSymmetry == Permutations(ThreeConnections)
=============================================================================
