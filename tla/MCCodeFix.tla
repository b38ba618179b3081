----------------------------- MODULE MCCodeFix ------------------------------
(* Two plans on one checkout: the second one meets what the first has left. *)
EXTENDS CodeFix, TLC

CONSTANTS p1, p2, main, fix1, fix2, f1, f2

TwoPlans == {p1, p2}
TwoFiles == {f1, f2}
OneBase == {main}
TwoBranches == {fix1, fix2}

BothOnMain == [p \in TwoPlans |-> main]
OwnBranches == (p1 :> fix1) @@ (p2 :> fix2)
SharedBranch == [p \in TwoPlans |-> fix1]
SamePaths == [f \in TwoFiles |-> f]

AllCommands == {"branch", "diff", "restore", "add", "cached", "commit", "push", "pr"}
Nothing == {}
=============================================================================
