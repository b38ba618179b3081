------------------------------ MODULE JobWorker -----------------------------
(***************************************************************************)
(* workflows/job_worker.py with everything that runs beside it: the one    *)
(* worker thread (run_next_job under worker_loop), the HTTP threads that   *)
(* accept deliveries (server.py) and decisions on plans                    *)
(* (db_fix/api/routes.py), and the start and the crash of the process      *)
(* (workflow_lifespan).  They share the SQLite tables (JobStore) and the   *)
(* plans in memory (Approvals).                                            *)
(*                                                                         *)
(* The workflow graph appears by what it does to that state: it records    *)
(* the stage it is at, it may propose a plan, and it ends with a response  *)
(* or raises.                                                              *)
(***************************************************************************)
EXTENDS Approvals

CONSTANTS
  Unregistered,   \* plans of an agent_type for which no executor is registered
  MaxCrashes,     \* bound on the crashes of the process
  MaxFaults       \* bound on the SQLite calls that raise

ASSUME WorkerAssumption ==
  /\ Unregistered \subseteq JobIds
  /\ MaxCrashes \in Nat
  /\ MaxFaults \in Nat

VARIABLES
  up,        \* is the process running?
  wpc,       \* where run_next_job is
  wjob,      \* the job it has claimed, or 0
  wres,      \* the status it will give the job
  upd,       \* plan id -> the HTTP thread that updates the dashboard after a
             \* decision: "idle", "decided", or the plan status it has read
  effects,   \* history: plan id -> how often its executor was started
  crashes,   \* crashes so far
  faults     \* SQLite calls that raised so far

workerVars == <<wpc, wjob, wres>>
processVars == <<up, crashes>>
vars == <<jobs, snapshots, approvals, mem, lock, verdict,
          up, wpc, wjob, wres, upd, effects, crashes, faults>>

\* Lines of run_next_job and approve_and_execute the worker can be at.
IncidentPoints == {"workflow", "proposed", "noting"}
ContinuationPoints ==
  {"continuing", "announcing", "dispatching", "executing", "execfailed",
   "reporting", "reporting_skipped", "reporting_failure"}
WorkerPoints == {"idle", "finishing", "failing"} \cup IncidentPoints \cup ContinuationPoints

TypeOK ==
  /\ StoreTypeOK
  /\ PlansTypeOK
  /\ up \in BOOLEAN
  /\ wpc \in WorkerPoints
  /\ wjob \in 0..MaxJobs
  /\ wres \in {"completed", "failed"}
  /\ upd \in [JobIds -> {"idle", "decided"} \cup PlanStatuses]
  /\ effects \in [JobIds -> Nat]
  /\ crashes \in 0..MaxCrashes
  /\ faults \in 0..MaxFaults

Init ==
  /\ StoreInit
  /\ PlansInit
  /\ up = TRUE
  /\ wpc = "idle"
  /\ wjob = 0
  /\ wres = "completed"
  /\ upd = [p \in JobIds |-> "idle"]
  /\ effects = [p \in JobIds |-> 0]
  /\ crashes = 0
  /\ faults = 0

-----------------------------------------------------------------------------
(* Fragments shared by the actions.                                         *)

Raise == faults < MaxFaults /\ faults' = faults + 1

\* The plan of the continuation that the worker runs.
wplan == jobs[wjob].key

Goto(pc) == wpc' = pc /\ UNCHANGED <<wjob, wres>>

GoIdle == wpc' = "idle" /\ wjob' = 0 /\ UNCHANGED wres

\* A step of the worker touches neither the other threads nor the process.
WorkerAt(pcs) == wpc \in pcs /\ UNCHANGED <<up, crashes, upd>>

\* A step of an HTTP thread does not touch the worker.
Serving == up /\ UNCHANGED <<up, crashes, wpc, wjob, wres, effects>>

-----------------------------------------------------------------------------
(* run_next_job: claiming.                                                  *)

ClaimJob ==
  /\ up
  /\ WorkerAt({"idle"})
  /\ \E j \in JobIds :
       /\ Claim(j)
       /\ wjob' = j
       /\ wpc' = IF IsIncident(j) THEN "workflow" ELSE "continuing"
  /\ UNCHANGED <<wres, effects, faults, planVars>>

-----------------------------------------------------------------------------
(* run_next_job: an incident.                                               *)

\* _observed_workflow_node and the connector node save where the run is.
RecordStage ==
  /\ WorkerAt({"workflow", "proposed"})
  /\ SaveSnapshot(wjob, "in_progress")
  /\ UNCHANGED <<effects, faults, planVars, workerVars>>

\* run_code_fix or the database agent stores a plan and waits for approval.
ProposePlan ==
  /\ WorkerAt({"workflow"})
  /\ SetPlan(wjob, "WAITING_FOR_APPROVAL")
  /\ Goto("proposed")
  /\ UNCHANGED <<effects, faults>>

\* create() raises after it has put the plan in memory; the node turns that
\* into a status and the run goes on.
ProposeUnsaved ==
  /\ WorkerAt({"workflow"})
  /\ SetPlanUnsaved(wjob, "WAITING_FOR_APPROVAL")
  /\ Raise
  /\ Goto("proposed")
  /\ UNCHANGED effects

\* The response of a run that waits for approval is left to the approval.
MutRecordFinalSkipsProposed ==
  /\ WorkerAt({"workflow", "proposed"})
  /\ \E r \in {"completed", "failed"} :
       /\ IF wpc = "proposed" THEN UNCHANGED storeVars ELSE SaveSnapshot(wjob, r)
       /\ wres' = r
  /\ wpc' = "finishing"
  /\ UNCHANGED <<wjob, effects, faults, planVars>>

\* The final response is recorded under the job's id; its status, by the word
\* "failed" in it, decides the job's.
RecordFinal ==
  /\ WorkerAt({"workflow", "proposed"})
  /\ \E r \in {"completed", "failed"} : SaveSnapshot(wjob, r) /\ wres' = r
  /\ wpc' = "finishing"
  /\ UNCHANGED <<wjob, effects, faults, planVars>>

\* A node raises: an external call, or the recording of a stage.
WorkflowRaises ==
  /\ WorkerAt({"workflow", "proposed"})
  /\ Goto("failing")
  /\ UNCHANGED <<effects, faults, storeVars, planVars>>

FinishJob ==
  /\ WorkerAt({"finishing"})
  /\ Finish(wjob, wres)
  /\ GoIdle
  /\ UNCHANGED <<effects, faults, planVars>>

\* The except branch that marks incidents only.
MutFailJobOfIncidents ==
  /\ WorkerAt({"failing"})
  /\ IF IsIncident(wjob)
     THEN Finish(wjob, "failed") /\ Goto("noting")
     ELSE UNCHANGED storeVars /\ GoIdle
  /\ UNCHANGED <<effects, faults, planVars>>

\* The except branch that leaves the dashboard alone.
MutFailJobSilently ==
  /\ WorkerAt({"failing"})
  /\ Finish(wjob, "failed")
  /\ GoIdle
  /\ UNCHANGED <<effects, faults, planVars>>

\* The except branch: the job first, then the snapshot of an incident.
FailJob ==
  /\ WorkerAt({"failing"})
  /\ Finish(wjob, "failed")
  /\ IF IsIncident(wjob) THEN Goto("noting") ELSE GoIdle
  /\ UNCHANGED <<effects, faults, planVars>>

NoteFailure ==
  /\ WorkerAt({"noting"})
  /\ SaveSnapshot(wjob, "failed")
  /\ GoIdle
  /\ UNCHANGED <<effects, faults, planVars>>

-----------------------------------------------------------------------------
(* run_next_job: a continuation, through execute_approved and               *)
(* approve_and_execute with on_update = _record_remediation_dashboard_update.*)

\* get, then execute_approved: a plan that is missing or not APPROVED raises.
BeginRemediation ==
  /\ WorkerAt({"continuing"})
  /\ LockFree
  /\ IF mem[wplan] = "APPROVED"
     THEN SetPlan(wplan, "APPROVED") /\ Goto("announcing")
     ELSE Goto("failing") /\ UNCHANGED storeVars /\ UNCHANGED planVars
  /\ UNCHANGED <<effects, faults>>

\* on_update before the execution: outside the try of approve_and_execute.
\* The worker reads the plan and writes the snapshot in one step: no other
\* thread changes an approved plan.
Announce ==
  /\ WorkerAt({"announcing"})
  /\ SaveSnapshot(wplan, mem[wplan])
  /\ Goto("dispatching")
  /\ UNCHANGED <<effects, faults, planVars>>

NoExecutor ==
  /\ WorkerAt({"dispatching"})
  /\ wplan \in Unregistered
  /\ SetPlan(wplan, "APPROVED_NO_EXECUTOR")
  /\ Goto("reporting_skipped")
  /\ UNCHANGED <<effects, faults>>

\* From here on a pull request or a database change may exist.
StartExecutor ==
  /\ WorkerAt({"dispatching"})
  /\ wplan \notin Unregistered
  /\ effects' = [effects EXCEPT ![wplan] = @ + 1]
  /\ Goto("executing")
  /\ UNCHANGED <<faults, storeVars, planVars>>

ExecutorReturns ==
  /\ WorkerAt({"executing"})
  /\ \E s \in Outcomes : SetPlan(wplan, s)
  /\ Goto("reporting")
  /\ UNCHANGED <<effects, faults>>

\* An executor that raises leaves the plan as it was, as a crash would.
MutExecutorRaisesPast ==
  /\ WorkerAt({"executing"})
  /\ Goto("failing")
  /\ UNCHANGED <<effects, faults, storeVars, planVars>>

ExecutorRaises ==
  /\ WorkerAt({"executing"})
  /\ Goto("execfailed")
  /\ UNCHANGED <<effects, faults, storeVars, planVars>>

\* The except branch of approve_and_execute.
RecordExecutionFailed ==
  /\ WorkerAt({"execfailed"})
  /\ SetPlan(wplan, "EXECUTION_FAILED")
  /\ Goto("reporting_failure")
  /\ UNCHANGED <<effects, faults>>

\* on_update after the outcome is stored, then the return to run_next_job.
Report ==
  /\ WorkerAt({"reporting", "reporting_skipped"})
  /\ SaveSnapshot(wplan, mem[wplan])
  /\ wres' = IF mem[wplan] \in {"EXECUTION_FAILED", "APPROVED_NO_EXECUTOR"}
             THEN "failed" ELSE "completed"
  /\ wpc' = "finishing"
  /\ UNCHANGED <<wjob, effects, faults, planVars>>

\* on_update in the except branch, which then raises again.
ReportFailure ==
  /\ WorkerAt({"reporting_failure"})
  /\ SaveSnapshot(wplan, mem[wplan])
  /\ Goto("failing")
  /\ UNCHANGED <<effects, faults, planVars>>

-----------------------------------------------------------------------------
(* SQLite calls of the worker that raise (disk full, or a lock held for more *)
(* than the 10 s timeout), by where the exception is caught.                *)

\* Calls that leave nothing behind.  The call in the except branch itself
\* ("failing", "noting") reaches worker_loop, which drops it.
RaisedAt == [pc \in {"continuing", "announcing", "reporting", "reporting_skipped",
                     "reporting_failure", "finishing", "failing", "noting"} |->
  CASE pc = "reporting" -> "execfailed"
    [] pc \in {"failing", "noting"} -> "idle"
    [] OTHER -> "failing"]

StoreRaises ==
  /\ WorkerAt(DOMAIN RaisedAt)
  /\ Raise
  /\ IF RaisedAt[wpc] = "idle" THEN GoIdle ELSE Goto(RaisedAt[wpc])
  /\ UNCHANGED <<effects, storeVars, planVars>>

\* Calls after the plan was changed in memory.
OutcomeUnsaved ==
  /\ WorkerAt({"executing", "execfailed", "dispatching"})
  /\ Raise
  /\ \/ /\ wpc = "executing"
        /\ \E s \in Outcomes : SetPlanUnsaved(wplan, s)
        /\ Goto("execfailed")
     \/ /\ wpc = "execfailed"
        /\ SetPlanUnsaved(wplan, "EXECUTION_FAILED")
        /\ Goto("failing")
     \/ /\ wpc = "dispatching"
        /\ wplan \in Unregistered
        /\ SetPlanUnsaved(wplan, "APPROVED_NO_EXECUTOR")
        /\ Goto("failing")
  /\ UNCHANGED effects

WorkerStep ==
  \/ ClaimJob \/ RecordStage \/ ProposePlan \/ RecordFinal \/ WorkflowRaises
  \/ FinishJob \/ FailJob \/ NoteFailure
  \/ BeginRemediation \/ Announce \/ NoExecutor \/ StartExecutor
  \/ ExecutorReturns \/ ExecutorRaises \/ RecordExecutionFailed
  \/ Report \/ ReportFailure

WorkerFault == ProposeUnsaved \/ StoreRaises \/ OutcomeUnsaved

-----------------------------------------------------------------------------
(* HTTP threads.                                                            *)

\* A webhook delivery, a redelivery or a resubmission.
Submit(d) ==
  /\ Serving
  /\ EnqueueIncident(d)
  /\ UNCHANGED <<upd, faults, planVars>>

\* POST /remediations/{id}/approve, in the two halves of enqueue_approval.
Approve(p) ==
  /\ Serving
  /\ upd[p] = "idle"
  /\ ApproveCommit(p)
  /\ UNCHANGED <<upd, faults>>

ApproveReturns(p) ==
  /\ Serving
  /\ ApproveInstall(p)
  /\ upd' = [upd EXCEPT ![p] = "decided"]
  /\ UNCHANGED faults

\* POST /remediations/{id}/reject.
Reject(p) ==
  /\ Serving
  /\ upd[p] = "idle"
  /\ RejectPlan(p)
  /\ upd' = [upd EXCEPT ![p] = "decided"]
  /\ UNCHANGED faults

RejectFails(p) ==
  /\ Serving
  /\ upd[p] = "idle"
  /\ RejectUnsaved(p)
  /\ Raise
  /\ UNCHANGED upd

\* _record_remediation_dashboard_update on the request's thread reads the
\* shared plan, ...
DecisionRead(p) ==
  /\ Serving
  /\ upd[p] = "decided"
  /\ upd' = [upd EXCEPT ![p] = mem[p]]
  /\ UNCHANGED <<faults, storeVars, planVars>>

\* ... and later writes what it has read.
DecisionWrite(p) ==
  /\ Serving
  /\ upd[p] \in PlanStatuses
  /\ SaveSnapshot(p, upd[p])
  /\ upd' = [upd EXCEPT ![p] = "idle"]
  /\ UNCHANGED <<faults, planVars>>

\* The update raises: the caller gets an error for a decision that was stored.
DecisionRaises(p) ==
  /\ Serving
  /\ upd[p] \in PlanStatuses
  /\ Raise
  /\ upd' = [upd EXCEPT ![p] = "idle"]
  /\ UNCHANGED <<storeVars, planVars>>

RequestStep(p) == ApproveReturns(p) \/ DecisionRead(p) \/ DecisionWrite(p)

-----------------------------------------------------------------------------
(* The process.                                                             *)

Crash ==
  /\ up
  /\ crashes < MaxCrashes
  /\ crashes' = crashes + 1
  /\ up' = FALSE
  /\ mem' = [p \in JobIds |-> "none"]
  /\ lock' = 0
  /\ upd' = [p \in JobIds |-> "idle"]
  /\ GoIdle
  /\ UNCHANGED <<verdict, effects, faults, storeVars>>

\* workflow_lifespan: recover, reload, and only then the worker and requests.
Startup ==
  /\ ~up
  /\ Recover
  /\ mem' = approvals'
  /\ up' = TRUE
  /\ UNCHANGED <<lock, verdict, upd, effects, crashes, faults, workerVars>>

-----------------------------------------------------------------------------
Next ==
  \/ WorkerStep
  \/ WorkerFault
  \/ \E d \in Deliveries : Submit(d)
  \/ \E p \in JobIds : Approve(p) \/ Reject(p) \/ RejectFails(p)
  \/ \E p \in JobIds : RequestStep(p) \/ DecisionRaises(p)
  \/ Crash
  \/ Startup

Spec == Init /\ [][Next]_vars

(* The worker's thread is scheduled, and what it calls (models, git, the     *)
(* databases) returns or raises; a request that has decided runs on to its  *)
(* end; a stopped process is started again.  Nothing obliges anybody to     *)
(* submit, approve or reject, and nothing obliges SQLite to work.           *)
Fairness ==
  /\ WF_vars(WorkerStep)
  /\ \A p \in JobIds : WF_vars(RequestStep(p))
  /\ WF_vars(Startup)

FairSpec == Spec /\ Fairness

-----------------------------------------------------------------------------
(* What the service promises.                                               *)

\* An executor has run only for a plan that a human approved, and never for
\* one whose rejection was stored (approvals.py 101-106, 181-191).
ExecutedOnlyIfApproved ==
  \A p \in JobIds : effects[p] > 0 => verdict[p] = "approved"

\* A plan is executed at most once, whatever crashes, restarts, retries or
\* failing writes happen in between (job_store.py 59-62).
AtMostOneExecution ==
  \A p \in JobIds : effects[p] <= 1

\* Once an approval or a rejection is stored, no restart and no other thread
\* takes the plan back to a state in which it could be decided again.
DecisionIsDurable ==
  \A p \in JobIds :
    /\ verdict[p] = "rejected" => approvals[p] = "REJECTED"
    /\ verdict[p] = "approved" => approvals[p] \in {"APPROVED"} \cup Settled

\* enqueue_approval inserts a continuation without looking for another one;
\* the test of the plan's status is what keeps it single (approvals.py 85-97).
OneContinuation ==
  \A p \in JobIds : \A i, j \in JobIds :
    IsContinuationOf(i, p) /\ IsContinuationOf(j, p) => i = j

\* A worker that claims a continuation finds its plan approved in memory, even
\* when it claims it between the commit of the approval and the change of the
\* plan in memory, or after a restart (approvals.py 94-105).
ContinuationFindsApprovedPlan ==
  wpc = "continuing" /\ LockFree => mem[wplan] = "APPROVED"

\* An approved plan is never forgotten: while it is stored as APPROVED, its
\* continuation is queued or running.  (As long as no write has failed.)
ApprovedHasContinuation ==
  faults = 0 => \A p \in JobIds : approvals[p] = "APPROVED" =>
    \E j \in JobIds : IsContinuationOf(j, p) /\ jobs[j].status \in {"pending", "running"}

\* Two incident jobs that are not failed or interrupted never hold the same
\* delivery, however deliveries, failures and resubmissions follow each other.
OneLiveJobPerDelivery ==
  LET live == {j \in JobIds : /\ IsIncident(j)
                              /\ jobs[j].status \in {"pending", "running", "completed"}}
  IN \A i, j \in live : jobs[i].key = jobs[j].key => i = j

\* A completed incident shows a result on the dashboard: its run recorded one
\* before it finished the job, and no later step goes back to a stage.
CompletedJobIsShown ==
  \A j \in JobIds : IsIncident(j) /\ jobs[j].status = "completed" =>
    snapshots[j] \notin {"none", "pending", "in_progress"}

\* An incident that has ended is not shown at a stage once the worker is back
\* at its queue, whichever way its run ended (README.md 89-90).  (As long as no
\* write has failed; a crash between the two calls of the except branch, lines
\* 84 and 88, leaves a failed job at its stage.)
EndedJobIsShown ==
  faults = 0 /\ crashes = 0 /\ wpc = "idle" =>
    \A j \in JobIds :
      IsIncident(j) /\ jobs[j].status \in {"completed", "failed", "interrupted"} =>
        snapshots[j] \notin {"pending", "in_progress"}

\* A job that has finished is never claimed, finished or recovered again, and
\* once the continuation of a plan has finished, the stored plan keeps the
\* outcome it has: recover() can overwrite it only before (job_store.py 68-80).
FinishedJobsStay ==
  [][\A j \in JobIds : jobs[j].status \in {"completed", "failed", "interrupted"} =>
       /\ jobs'[j] = jobs[j]
       /\ \A p \in JobIds : IsContinuationOf(j, p) => approvals'[p] = approvals[p]]_vars

\* The worker never starts an executor that a stored rejection, or a missing
\* or unfinished approval, should have stopped: at the step that starts it, the
\* plan is approved on disk as well as in memory.
ExecutionStartsApproved ==
  [][\A p \in JobIds : effects'[p] # effects[p] =>
       approvals[p] = "APPROVED" /\ mem[p] = "APPROVED"]_vars

\* Every job that was accepted ends: the worker comes back to the queue after
\* every run, raising or not, and recovery ends what a crash stopped.
EveryJobEnds ==
  \A j \in JobIds : jobs[j].status = "pending" ~>
    jobs[j].status \in {"completed", "failed", "interrupted"}

-----------------------------------------------------------------------------
(* Statements of the documents that the code does not keep.                 *)

\* README.md 547: the dashboard state is in the snapshots table.  A plan that
\* is settled and that no thread is reporting any more is shown as settled.
DashboardShowsOutcome ==
  \A p \in JobIds :
    (/\ up /\ wpc = "idle" /\ upd[p] = "idle"
     /\ approvals[p] \in Settled) => snapshots[p] = approvals[p]
=============================================================================
