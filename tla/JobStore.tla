------------------------------ MODULE JobStore ------------------------------
(***************************************************************************)
(* storage/job_store.py: the SQLite tables jobs, snapshots and approvals   *)
(* and the transactions on them.  Each method of JobStore opens its own    *)
(* connection and runs one transaction, so each is one action fragment     *)
(* here; JobStoreTxn shows that connections interleaving inside SQLite do  *)
(* implement these atomic steps.                                           *)
(*                                                                         *)
(* Abstractions.  A row's id is its insertion rank (the code's uuid4), so  *)
(* "ORDER BY created" is the order of the ids: the clock is taken not to   *)
(* step back between two inserts.  A plan is named by the incident job     *)
(* whose run proposed it: a run proposes at most one plan, and the plan's  *)
(* session_id, which names its dashboard snapshot, is that job's id.  A    *)
(* snapshot is the "status" of its response.                               *)
(***************************************************************************)
EXTENDS Naturals

CONSTANTS
  Deliveries,   \* dedupe keys: what the webhook hashes a delivery to
  MaxJobs       \* bound on the rows of the jobs table

ASSUME MaxJobsAssumption == MaxJobs \in Nat

VARIABLES
  jobs,         \* job id -> row of the jobs table
  snapshots,    \* job id -> status of the execution the dashboard shows
  approvals     \* plan id -> status of the stored plan

storeVars == <<jobs, snapshots, approvals>>

JobIds == 1..MaxJobs

PlanStatuses ==
  {"WAITING_FOR_APPROVAL", "APPROVED", "REJECTED", "EXECUTED", "BLOCKED",
   "EXECUTION_FAILED", "APPROVED_NO_EXECUTOR"}

JobStatuses == {"pending", "running", "completed", "failed", "interrupted"}

\* "in_progress" stands for the status of a workflow node that is not the last.
SnapshotStatuses ==
  {"pending", "in_progress", "completed", "failed"} \cup PlanStatuses

Absent == [kind |-> "none", key |-> 0, status |-> "absent"]

Rows ==
  {Absent}
    \cup [kind : {"incident"}, key : Deliveries, status : JobStatuses]
    \cup [kind : {"remediation"}, key : JobIds, status : JobStatuses]

StoreTypeOK ==
  /\ jobs \in [JobIds -> Rows]
  /\ snapshots \in [JobIds -> SnapshotStatuses \cup {"none"}]
  /\ approvals \in [JobIds -> PlanStatuses \cup {"none"}]

StoreInit ==
  /\ jobs = [j \in JobIds |-> Absent]
  /\ snapshots = [j \in JobIds |-> "none"]
  /\ approvals = [p \in JobIds |-> "none"]

-----------------------------------------------------------------------------
Row(kind, key, status) == [kind |-> kind, key |-> key, status |-> status]

IsIncident(j) == jobs[j].kind = "incident"
IsContinuationOf(j, p) == jobs[j].kind = "remediation" /\ jobs[j].key = p

\* The next row to be inserted: every lower id is taken.
IsNextId(j) == jobs[j] = Absent /\ \A i \in 1..(j - 1) : jobs[i] # Absent

\* The dedupe clause looks at jobs that have not started yet.
MutHoldsDeliveryPendingOnly(j, d) ==
  IsIncident(j) /\ jobs[j].key = d /\ jobs[j].status = "pending"

\* SELECT ... WHERE kind=? AND dedupe=? AND status NOT IN
\* ('failed','interrupted'): a completed job also holds its delivery.
HoldsDelivery(j, d) ==
  IsIncident(j) /\ jobs[j].key = d /\ jobs[j].status \notin {"failed", "interrupted"}

\* A resubmission that takes up the failed row of the delivery again.
MutEnqueueRevives(d) ==
  \/ /\ \E j \in JobIds :
          /\ IsIncident(j) /\ jobs[j].key = d /\ jobs[j].status = "failed"
          /\ jobs' = [jobs EXCEPT ![j].status = "pending"]
     /\ UNCHANGED <<snapshots, approvals>>
  \/ /\ \A j \in JobIds : ~HoldsDelivery(j, d)
     /\ \E j \in JobIds :
          /\ IsNextId(j)
          /\ jobs' = [jobs EXCEPT ![j] = Row("incident", d, "pending")]
          /\ snapshots' = [snapshots EXCEPT ![j] = "pending"]
     /\ UNCHANGED approvals

\* enqueue("incident", ...): the new row and the snapshot that announces it,
\* or nothing when a job already holds the delivery.
EnqueueIncident(d) ==
  \/ /\ \E j \in JobIds : HoldsDelivery(j, d)
     /\ UNCHANGED storeVars
  \/ /\ \A j \in JobIds : ~HoldsDelivery(j, d)
     /\ \E j \in JobIds :
          /\ IsNextId(j)
          /\ jobs' = [jobs EXCEPT ![j] = Row("incident", d, "pending")]
          /\ snapshots' = [snapshots EXCEPT ![j] = "pending"]
     /\ UNCHANGED approvals

\* claim(): the oldest pending row becomes running.
Claim(j) ==
  /\ jobs[j].status = "pending"
  /\ \A i \in 1..(j - 1) : jobs[i].status # "pending"
  /\ jobs' = [jobs EXCEPT ![j].status = "running"]
  /\ UNCHANGED <<snapshots, approvals>>

\* finish(): an UPDATE by id that does not look at the present status.
Finish(j, s) ==
  /\ jobs' = [jobs EXCEPT ![j].status = s]
  /\ UNCHANGED <<snapshots, approvals>>

SaveSnapshot(j, s) ==
  /\ snapshots' = [snapshots EXCEPT ![j] = s]
  /\ UNCHANGED <<jobs, approvals>>

SaveApproval(p, s) ==
  /\ approvals' = [approvals EXCEPT ![p] = s]
  /\ UNCHANGED <<jobs, snapshots>>

\* The transaction of ApprovalStore.enqueue_approval: the decision and the
\* continuation commit together.  It inserts without looking for an earlier job.
SaveDecisionAndContinuation(p) ==
  /\ approvals' = [approvals EXCEPT ![p] = "APPROVED"]
  /\ \E j \in JobIds :
       /\ IsNextId(j)
       /\ jobs' = [jobs EXCEPT ![j] = Row("remediation", p, "pending")]
  /\ UNCHANGED snapshots

-----------------------------------------------------------------------------
(* recover(): at startup every running job becomes interrupted, the plan of *)
(* a running continuation becomes EXECUTION_FAILED, and the snapshots of    *)
(* both are marked failed; one transaction.                                 *)

Stopped == {j \in JobIds : jobs[j].status = "running"}

\* The plans of all continuations, those that have ended included.
MutPlansOfAll == {p \in JobIds : approvals[p] # "none" /\ \E j \in JobIds : IsContinuationOf(j, p)}

StoppedPlans ==
  {p \in JobIds : approvals[p] # "none" /\ \E j \in Stopped : IsContinuationOf(j, p)}

\* Recovery that puts the running jobs back in the queue.
MutRecoverReplays ==
  /\ jobs' = [j \in JobIds |-> IF j \in Stopped
                               THEN [jobs[j] EXCEPT !.status = "pending"] ELSE jobs[j]]
  /\ UNCHANGED <<snapshots, approvals>>

\* Recovery that forgets the plan of an interrupted continuation.
MutRecoverJobsOnly ==
  /\ jobs' = [j \in JobIds |-> IF j \in Stopped
                               THEN [jobs[j] EXCEPT !.status = "interrupted"] ELSE jobs[j]]
  /\ snapshots' = [j \in JobIds |-> IF j \in Stopped /\ IsIncident(j)
                                    THEN "failed" ELSE snapshots[j]]
  /\ UNCHANGED approvals

Recover ==
  /\ jobs' = [j \in JobIds |->
       IF j \in Stopped THEN [jobs[j] EXCEPT !.status = "interrupted"] ELSE jobs[j]]
  /\ approvals' = [p \in JobIds |->
       IF p \in StoppedPlans THEN "EXECUTION_FAILED" ELSE approvals[p]]
  /\ snapshots' = [j \in JobIds |->
       IF /\ snapshots[j] # "none"
          /\ j \in StoppedPlans \/ (j \in Stopped /\ IsIncident(j))
       THEN "failed" ELSE snapshots[j]]

-----------------------------------------------------------------------------
(* The store on its own: callers finish only a job that they have claimed.   *)

StoreNext ==
  \/ \E d \in Deliveries : EnqueueIncident(d)
  \/ \E j \in JobIds : Claim(j)
  \/ \E j \in JobIds, s \in {"completed", "failed"} :
       jobs[j].status = "running" /\ Finish(j, s)
  \/ \E j \in JobIds, s \in SnapshotStatuses : SaveSnapshot(j, s)
  \/ \E p \in JobIds, s \in PlanStatuses : SaveApproval(p, s)
  \/ \E p \in JobIds : SaveDecisionAndContinuation(p)
  \/ Recover

StoreSpec == StoreInit /\ [][StoreNext]_storeVars
=============================================================================
