------------------------------ MODULE Approvals -----------------------------
(***************************************************************************)
(* governance/approvals.py: the ApprovalStore.  It keeps the plans in      *)
(* memory (_plans, guarded by _lock) and writes each change through to the *)
(* approvals table.  mem and the table can differ: after a write that      *)
(* raised, and while enqueue_approval holds the lock between its commit    *)
(* and the replacement of the plan in memory.                              *)
(***************************************************************************)
EXTENDS JobStore

VARIABLES
  mem,      \* plan id -> status of the plan in _plans, "none" if there is none
  lock,     \* the plan whose approval has committed and not reached mem yet, or 0
  verdict   \* history: plan id -> the decision of a human that was stored

planVars == <<mem, lock, verdict>>

LockFree == lock = 0

\* "EXECUTED" stands for every status that an executor reports on success: the
\* default of line 165, and the "SUCCESS" of the database agent.  "BLOCKED" is
\* the code fix that refuses to start; "EXECUTION_FAILED" a result with
\* success=False or an error.
Outcomes == {"EXECUTED", "BLOCKED", "EXECUTION_FAILED"}
Settled == Outcomes \cup {"APPROVED_NO_EXECUTOR"}

PlansTypeOK ==
  /\ mem \in [JobIds -> PlanStatuses \cup {"none"}]
  /\ lock \in 0..MaxJobs
  /\ verdict \in [JobIds -> {"none", "approved", "rejected"}]

PlansInit ==
  /\ mem = [p \in JobIds |-> "none"]
  /\ lock = 0
  /\ verdict = [p \in JobIds |-> "none"]

-----------------------------------------------------------------------------
\* A change made in memory and written through (_persist), under the lock.
\* The callers mutate the plan first, so a write that raises leaves the change
\* in memory only.
SetPlan(p, s) ==
  /\ LockFree
  /\ mem' = [mem EXCEPT ![p] = s]
  /\ SaveApproval(p, s)
  /\ UNCHANGED <<lock, verdict>>

SetPlanUnsaved(p, s) ==
  /\ LockFree
  /\ mem' = [mem EXCEPT ![p] = s]
  /\ UNCHANGED <<storeVars, lock, verdict>>

\* Approval that also accepts a plan whose execution failed, as a retry would.
MutApproveFailedToo(p) ==
  /\ LockFree
  /\ mem[p] \in {"WAITING_FOR_APPROVAL", "EXECUTION_FAILED"}
  /\ SaveDecisionAndContinuation(p)
  /\ lock' = p
  /\ verdict' = [verdict EXCEPT ![p] = "approved"]
  /\ UNCHANGED mem

\* enqueue_approval, up to the commit.  The decision is prepared on a copy, so
\* a transaction that raises changes nothing.
ApproveCommit(p) ==
  /\ LockFree
  /\ mem[p] = "WAITING_FOR_APPROVAL"
  /\ SaveDecisionAndContinuation(p)
  /\ lock' = p
  /\ verdict' = [verdict EXCEPT ![p] = "approved"]
  /\ UNCHANGED mem

\* enqueue_approval, after the commit: the copy replaces the plan.
ApproveInstall(p) ==
  /\ lock = p
  /\ mem' = [mem EXCEPT ![p] = "APPROVED"]
  /\ lock' = 0
  /\ UNCHANGED <<verdict, storeVars>>

\* Rejection kept in memory and never stored.
MutRejectInMemory(p) ==
  /\ LockFree
  /\ mem[p] = "WAITING_FOR_APPROVAL"
  /\ mem' = [mem EXCEPT ![p] = "REJECTED"]
  /\ verdict' = [verdict EXCEPT ![p] = "rejected"]
  /\ UNCHANGED <<lock, storeVars>>

\* Rejection that also accepts a plan already approved and queued.
MutRejectApproved(p) ==
  /\ LockFree
  /\ mem[p] \in {"WAITING_FOR_APPROVAL", "APPROVED"}
  /\ mem' = [mem EXCEPT ![p] = "REJECTED"]
  /\ SaveApproval(p, "REJECTED")
  /\ verdict' = [verdict EXCEPT ![p] = "rejected"]
  /\ UNCHANGED lock

RejectPlan(p) ==
  /\ LockFree
  /\ mem[p] = "WAITING_FOR_APPROVAL"
  /\ mem' = [mem EXCEPT ![p] = "REJECTED"]
  /\ SaveApproval(p, "REJECTED")
  /\ verdict' = [verdict EXCEPT ![p] = "rejected"]
  /\ UNCHANGED lock

\* The rejection whose write raises: the caller is told that it failed.
RejectUnsaved(p) ==
  /\ mem[p] = "WAITING_FOR_APPROVAL"
  /\ SetPlanUnsaved(p, "REJECTED")
=============================================================================
