------------------------------ MODULE MCDbFix -------------------------------
(* Two incidents about one database.                                         *)
EXTENDS DbFix, TLC

CONSTANTS p1, p2

TwoPlans == {p1, p2}
PlanSymmetry == Permutations(TwoPlans)
=============================================================================
