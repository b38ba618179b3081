---------------------------- MODULE JobWorkerInv ----------------------------
(***************************************************************************)
(* The inductive invariant behind the safety properties of JobWorker: what *)
(* the stored verdict of a plan says about the plan in memory, the stored  *)
(* plan, its continuation and its executions, and what the worker knows at *)
(* each point of run_next_job.                                             *)
(***************************************************************************)
EXTENDS JobWorker

HasContinuation(p) == \E j \in JobIds : IsContinuationOf(j, p)

\* A plan by its verdict.  Undecided, it may be in memory only (create raised),
\* or rejected in memory only (reject raised).  Approved, it is WAITING in
\* memory only while enqueue_approval holds the lock.
PlanInv(p) ==
  /\ verdict[p] = "none" =>
       /\ approvals[p] \in {"none", "WAITING_FOR_APPROVAL"}
       /\ mem[p] \in {"none", "WAITING_FOR_APPROVAL", "REJECTED"}
  /\ verdict[p] = "rejected" => approvals[p] = "REJECTED" /\ mem[p] \in {"none", "REJECTED"}
  /\ verdict[p] = "approved" =>
       /\ approvals[p] \in {"APPROVED"} \cup Settled
       /\ mem[p] \in {"none", "APPROVED"} \cup Settled \/ lock = p
  /\ verdict[p] # "approved" => effects[p] = 0 /\ ~HasContinuation(p)
  /\ effects[p] \in {0, 1}
  /\ lock = p => /\ up /\ verdict[p] = "approved"
                 /\ approvals[p] = "APPROVED" /\ mem[p] = "WAITING_FOR_APPROVAL"
  /\ upd[p] # "idle" => up /\ mem[p] # "none"

\* The continuation of p may begin: approved on disk, not executed, and approved
\* in memory as soon as the lock is free.
Ready(p) ==
  /\ approvals[p] = "APPROVED"
  /\ effects[p] = 0
  /\ up /\ lock # p => mem[p] = "APPROVED"

\* A job that has not started has proposed nothing.
JobInv(j) ==
  /\ jobs[j].status \in {"absent", "pending"} => mem[j] = "none" /\ approvals[j] = "none"
  /\ jobs[j].kind = "remediation" /\ jobs[j].status = "pending" => Ready(jobs[j].key)

Holds(kind) == jobs[wjob].kind = kind /\ jobs[wjob].status = "running"

WorkerInv ==
  /\ wpc # "idle" => up /\ wjob \in JobIds
  /\ wpc \in {"workflow", "proposed"} => Holds("incident")
  /\ wpc = "workflow" => mem[wjob] = "none" /\ approvals[wjob] = "none"
  /\ wpc \in ContinuationPoints => Holds("remediation")
  /\ wpc = "continuing" => Ready(wplan)
  /\ wpc \in {"announcing", "dispatching"} =>
       effects[wplan] = 0 /\ approvals[wplan] = "APPROVED" /\ mem[wplan] = "APPROVED"
  /\ wpc \in {"finishing", "failing"} => jobs[wjob].status = "running"

\* All of it, with the facts that are properties themselves.
IInv ==
  /\ TypeOK
  /\ \A p \in JobIds : PlanInv(p)
  /\ \A j \in JobIds : JobInv(j)
  /\ WorkerInv
  /\ OneContinuation

-----------------------------------------------------------------------------
(* What the dashboard and the table of plans show of jobs that have ended.  *)

Reporting == {"reporting", "reporting_skipped", "reporting_failure"}
Ended == {"completed", "failed", "interrupted"}

\* The outcome of a continuation is known before its job ends: in memory once
\* the executor was started, on disk unless a write has failed.
OutcomeInv ==
  /\ wpc \in {"executing", "execfailed"} \cup Reporting =>
       mem[wplan] \in {"APPROVED"} \cup Settled
  /\ faults = 0 /\ wpc \in Reporting => approvals[wplan] \in Settled
  /\ faults = 0 /\ wpc \in {"finishing", "failing"} /\ jobs[wjob].kind = "remediation" =>
       approvals[wplan] \in Settled

\* A run that has returned has its result on the dashboard.
ResultInv ==
  wpc = "finishing" /\ IsIncident(wjob) => snapshots[wjob] \notin {"none", "pending", "in_progress"}

\* EndedJobIsShown at every point of the worker: only the except branch is
\* between its two calls.
EndedInv ==
  faults = 0 /\ crashes = 0 =>
    \A j \in JobIds :
      IsIncident(j) /\ jobs[j].status \in Ended =>
        snapshots[j] \notin {"pending", "in_progress"} \/ (wpc = "noting" /\ wjob = j)

ShownInv ==
  /\ OneLiveJobPerDelivery
  /\ OutcomeInv
  /\ ApprovedHasContinuation
  /\ ResultInv
  /\ CompletedJobIsShown
  /\ EndedInv
=============================================================================
