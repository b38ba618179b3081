------------------------- MODULE RemediationContract ------------------------
(***************************************************************************)
(* What the service promises about a remediation plan, without jobs,       *)
(* memory, tables, crashes or threads (README.md 477-487 and 797): a plan  *)
(* is proposed, a human decides once, and a side effect may be started     *)
(* once, only after an approval and only before the plan is settled.  A    *)
(* proposal that was never stored may be lost; a decision may not.         *)
(***************************************************************************)
CONSTANT Plans

VARIABLE phase    \* plan -> where it is in its life

Phases == {"none", "proposed", "approved", "rejected", "running", "settled"}

ContractTypeOK == phase \in [Plans -> Phases]

ContractInit == phase = [p \in Plans |-> "none"]

Move(p, from, to) == phase[p] \in from /\ phase' = [phase EXCEPT ![p] = to]

Propose(p) == Move(p, {"none"}, "proposed")
Decide(p) == \E verdict \in {"approved", "rejected"} : Move(p, {"proposed"}, verdict)
Run(p) == Move(p, {"approved"}, "running")
Settle(p) == Move(p, {"approved", "running"}, "settled")

\* A crash takes every proposal that was not stored, and nothing else.
Lose(lost) ==
  /\ \A p \in lost : phase[p] = "proposed"
  /\ phase' = [p \in Plans |-> IF p \in lost THEN "none" ELSE phase[p]]

\* A restart settles every plan whose execution it finds cut off, at once.
CutOff(cut) ==
  /\ \A p \in cut : phase[p] \in {"approved", "running"}
  /\ phase' = [p \in Plans |-> IF p \in cut THEN "settled" ELSE phase[p]]

ContractNext ==
  \/ \E p \in Plans : Propose(p) \/ Decide(p) \/ Run(p) \/ Settle(p)
  \/ \E some \in SUBSET Plans : Lose(some) \/ CutOff(some)

\* An approved plan is not left unsettled for ever.
ContractFairness == \A p \in Plans : WF_phase(Settle(p))

Contract == ContractInit /\ [][ContractNext]_phase
FairContract == Contract /\ ContractFairness
=============================================================================
