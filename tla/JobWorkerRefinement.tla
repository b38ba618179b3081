------------------------ MODULE JobWorkerRefinement -------------------------
(***************************************************************************)
(* JobWorker implements RemediationContract: what a human was told about a *)
(* plan, through restarts, is one pass through the contract's phases.      *)
(***************************************************************************)
EXTENDS JobWorker

\* A plan is undecided until a verdict is stored; from then on the stored plan
\* tells whether it is settled.
PhaseOf(p) ==
  CASE verdict[p] = "rejected" -> "rejected"
    [] verdict[p] = "approved" ->
         IF approvals[p] \in Settled THEN "settled"
         ELSE IF effects[p] > 0 THEN "running" ELSE "approved"
    [] OTHER -> IF mem[p] = "none" /\ approvals[p] = "none" THEN "none" ELSE "proposed"

RC == INSTANCE RemediationContract
        WITH Plans <- JobIds, phase <- [p \in JobIds |-> PhaseOf(p)]

\* Every behaviour of the service, with crashes and failing writes, is one that
\* the contract allows (approvals.py, job_worker.py, job_store.recover).
ImplementsContract == RC!Contract

\* Without failing writes it also settles every approved plan.
ImplementsFairContract == RC!FairContract
=============================================================================
