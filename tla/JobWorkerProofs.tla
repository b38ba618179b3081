-------------------------- MODULE JobWorkerProofs ---------------------------
(***************************************************************************)
(* The safety properties of JobWorker, for every set of deliveries, every  *)
(* number of jobs, every set of plans without an executor and every number *)
(* of crashes and failing writes.  IInv (JobWorkerInv) is inductive; the   *)
(* properties follow from it.                                              *)
(***************************************************************************)
EXTENDS JobWorkerInv, JobWorkerRefinement, JobStoreTxn, TLAPS

-----------------------------------------------------------------------------
(* What IInv says of one row and of the worker.                             *)

LEMMA RowFacts ==
  ASSUME StoreTypeOK, NEW j \in JobIds
  PROVE  /\ jobs[j].kind \in {"none", "incident", "remediation"}
         /\ jobs[j].status \in JobStatuses \cup {"absent"}
         /\ jobs[j].kind = "remediation" => jobs[j].key \in JobIds
         /\ jobs[j].kind = "none" <=> jobs[j].status = "absent"
         /\ jobs[j].kind = "none" <=> jobs[j] = Absent
  BY DEF StoreTypeOK, Rows, Absent, JobStatuses

LEMMA RowUpdate ==
  ASSUME StoreTypeOK, NEW j \in JobIds, jobs[j].status # "absent",
         NEW s \in JobStatuses
  PROVE  [jobs EXCEPT ![j].status = s] \in [JobIds -> Rows]
  BY DEF StoreTypeOK, Rows, Absent

\* The continuation that the worker runs is the only one of its plan, and the
\* plan is approved and not being approved.
LEMMA ContinuationFacts ==
  ASSUME IInv, wpc \in ContinuationPoints
  PROVE  /\ wjob \in JobIds
         /\ wplan \in JobIds
         /\ IsContinuationOf(wjob, wplan)
         /\ jobs[wjob].status = "running"
         /\ verdict[wplan] = "approved"
         /\ \A j \in JobIds : IsContinuationOf(j, wplan) => j = wjob
<1>1. wjob \in JobIds /\ Holds("remediation")
  BY DEF IInv, WorkerInv, ContinuationPoints
<1>2. wplan \in JobIds /\ IsContinuationOf(wjob, wplan)
  BY <1>1, RowFacts DEF IInv, TypeOK, Holds, IsContinuationOf, wplan
<1>3. verdict[wplan] = "approved"
  BY <1>1, <1>2 DEF IInv, PlanInv, HasContinuation
<1> QED
  BY <1>1, <1>2, <1>3 DEF IInv, OneContinuation, Holds

-----------------------------------------------------------------------------
(* Frames: what groups of actions keep of IInv.                             *)

PlanParts ==
  /\ \A p \in JobIds : PlanInv(p)
  /\ \A j \in JobIds : JobInv(j)
  /\ OneContinuation

\* Steps that only move the worker, save a snapshot or end a request.
LEMMA PlansKept ==
  ASSUME IInv,
         UNCHANGED <<jobs, approvals, planVars, up, effects>>,
         \A p \in JobIds : upd'[p] # "idle" => upd[p] # "idle"
  PROVE  PlanParts'
<1>1. \A p \in JobIds : PlanInv(p)'
  BY DEF IInv, PlanInv, HasContinuation, IsContinuationOf, planVars
<1>2. \A j \in JobIds : JobInv(j)'
  BY DEF IInv, JobInv, Ready, planVars
<1>3. OneContinuation'
  BY DEF IInv, OneContinuation, IsContinuationOf
<1> QED
  BY <1>1, <1>2, <1>3 DEF PlanParts

\* finish() by the worker.
LEMMA FinishKeeps ==
  ASSUME IInv, jobs[wjob].status = "running", wjob \in JobIds,
         NEW s \in {"completed", "failed"}, Finish(wjob, s),
         UNCHANGED <<planVars, up, upd, effects>>
  PROVE  PlanParts' /\ StoreTypeOK'
<1>1. /\ \A j \in JobIds : jobs'[j].kind = jobs[j].kind /\ jobs'[j].key = jobs[j].key
      /\ \A j \in JobIds \ {wjob} : jobs'[j].status = jobs[j].status
      /\ jobs'[wjob].status = s
      /\ StoreTypeOK'
  <2>1. jobs' \in [JobIds -> Rows]
    BY RowUpdate DEF IInv, TypeOK, Finish, JobStatuses
  <2> QED
    BY <2>1 DEF IInv, TypeOK, StoreTypeOK, Finish, Rows, Absent
<1>2. \A p \in JobIds : PlanInv(p)'
  BY <1>1 DEF IInv, PlanInv, HasContinuation, IsContinuationOf, planVars, Finish
<1>3. \A j \in JobIds : JobInv(j)'
  BY <1>1 DEF IInv, JobInv, Ready, planVars, Finish
<1>4. OneContinuation'
  BY <1>1 DEF IInv, OneContinuation, IsContinuationOf
<1> QED
  BY <1>1, <1>2, <1>3, <1>4 DEF PlanParts

\* The worker changes the plan of its continuation, in memory and perhaps on
\* disk: the plan stays an approved one, and no queued continuation is its own.
LEMMA PlanChangeKeeps ==
  ASSUME IInv, wpc \in ContinuationPoints,
         NEW s \in {"APPROVED"} \cup Settled,
         SetPlan(wplan, s) \/ SetPlanUnsaved(wplan, s),
         UNCHANGED <<up, upd, effects>>
  PROVE  PlanParts' /\ StoreTypeOK' /\ PlansTypeOK' /\ UNCHANGED jobs
<1>1. /\ UNCHANGED <<jobs, lock, verdict>>
      /\ lock = 0
      /\ mem' = [mem EXCEPT ![wplan] = s]
      /\ approvals' = [approvals EXCEPT ![wplan] = s] \/ approvals' = approvals
  BY DEF SetPlan, SetPlanUnsaved, SaveApproval, LockFree, storeVars
<1>2. StoreTypeOK' /\ PlansTypeOK'
  BY <1>1, ContinuationFacts DEF IInv, TypeOK, StoreTypeOK, PlansTypeOK, PlanStatuses,
     Settled, Outcomes, SetPlan, SetPlanUnsaved, SaveApproval, storeVars
<1>3. ASSUME NEW p \in JobIds  PROVE PlanInv(p)'
  <2>1. CASE p = wplan
    <3>1. verdict[p] = "approved" /\ mem'[p] = s /\ approvals'[p] \in {s, approvals[p]}
      BY <1>1, <2>1, ContinuationFacts DEF IInv, TypeOK, StoreTypeOK, PlansTypeOK
    <3>2. lock' # p
      BY <1>1, <1>3, MaxJobsAssumption DEF JobIds
    <3> QED
      BY <1>1, <3>1, <3>2 DEF IInv, PlanInv, Settled, Outcomes
  <2>2. CASE p # wplan
    BY <1>1, <2>2, ContinuationFacts DEF IInv, TypeOK, StoreTypeOK, PlansTypeOK, PlanInv,
       HasContinuation, IsContinuationOf
  <2> QED BY <2>1, <2>2
<1>4. ASSUME NEW j \in JobIds  PROVE JobInv(j)'
  <2>1. jobs[j].status \in {"absent", "pending"} => j # wplan
    BY ContinuationFacts DEF IInv, JobInv, PlanInv, Settled, Outcomes
  <2>2. jobs[j].kind = "remediation" /\ jobs[j].status = "pending" => jobs[j].key # wplan
    BY ContinuationFacts DEF IsContinuationOf
  <2> QED
    BY <1>1, <2>1, <2>2, ContinuationFacts, RowFacts
       DEF IInv, TypeOK, StoreTypeOK, PlansTypeOK, JobInv, Ready
<1>5. OneContinuation'
  BY <1>1 DEF IInv, OneContinuation, IsContinuationOf
<1> QED
  BY <1>1, <1>2, <1>3, <1>4, <1>5 DEF PlanParts

LEMMA IInvFromParts ==
  ASSUME TypeOK', PlanParts', WorkerInv'
  PROVE  IInv'
  BY DEF IInv, PlanParts

\* A call of SQLite that raises stays within the bound.
LEMMA RaiseType ==
  ASSUME TypeOK, Raise
  PROVE  faults' \in 0..MaxFaults
  BY WorkerAssumption DEF TypeOK, Raise

-----------------------------------------------------------------------------
(* The steps of the worker.                                                 *)

LEMMA RecordStageStep ==
  ASSUME IInv, RecordStage
  PROVE  IInv'
<1>1. PlanParts'
  BY PlansKept DEF RecordStage, WorkerAt, SaveSnapshot, planVars, storeVars
<1>2. TypeOK'
  BY DEF IInv, TypeOK, StoreTypeOK, PlansTypeOK, RecordStage, WorkerAt, SaveSnapshot, Goto,
     GoIdle, planVars, storeVars, workerVars, WorkerPoints, IncidentPoints, ContinuationPoints,
     SnapshotStatuses
<1>3. WorkerInv'
  BY DEF IInv, WorkerInv, Holds, Ready, RecordStage, WorkerAt, SaveSnapshot, Goto, GoIdle,
     planVars, storeVars, workerVars, ContinuationPoints, wplan
<1> QED
  BY <1>1, <1>2, <1>3, IInvFromParts

LEMMA RecordFinalStep ==
  ASSUME IInv, RecordFinal
  PROVE  IInv'
<1>1. PlanParts'
  BY PlansKept DEF RecordFinal, WorkerAt, SaveSnapshot, planVars, storeVars
<1>2. TypeOK'
  BY DEF IInv, TypeOK, StoreTypeOK, PlansTypeOK, RecordFinal, WorkerAt, SaveSnapshot, Goto,
     GoIdle, planVars, storeVars, workerVars, WorkerPoints, IncidentPoints, ContinuationPoints,
     SnapshotStatuses
<1>3. WorkerInv'
  BY DEF IInv, WorkerInv, Holds, Ready, RecordFinal, WorkerAt, SaveSnapshot, Goto, GoIdle,
     planVars, storeVars, workerVars, ContinuationPoints, wplan
<1> QED
  BY <1>1, <1>2, <1>3, IInvFromParts

LEMMA WorkflowRaisesStep ==
  ASSUME IInv, WorkflowRaises
  PROVE  IInv'
<1>1. PlanParts'
  BY PlansKept DEF WorkflowRaises, WorkerAt, SaveSnapshot, planVars, storeVars
<1>2. TypeOK'
  BY DEF IInv, TypeOK, StoreTypeOK, PlansTypeOK, WorkflowRaises, WorkerAt, SaveSnapshot, Goto,
     GoIdle, planVars, storeVars, workerVars, WorkerPoints, IncidentPoints, ContinuationPoints,
     SnapshotStatuses
<1>3. WorkerInv'
  BY DEF IInv, WorkerInv, Holds, Ready, WorkflowRaises, WorkerAt, SaveSnapshot, Goto, GoIdle,
     planVars, storeVars, workerVars, ContinuationPoints, wplan
<1> QED
  BY <1>1, <1>2, <1>3, IInvFromParts

LEMMA AnnounceStep ==
  ASSUME IInv, Announce
  PROVE  IInv'
<1>1. PlanParts'
  BY PlansKept DEF Announce, WorkerAt, SaveSnapshot, planVars, storeVars
<1>2. TypeOK'
  BY ContinuationFacts DEF IInv, TypeOK, StoreTypeOK, PlansTypeOK, Announce, WorkerAt,
     SaveSnapshot, Goto, GoIdle, planVars, storeVars, workerVars, WorkerPoints, IncidentPoints,
     ContinuationPoints, SnapshotStatuses
<1>3. WorkerInv'
  BY ContinuationFacts DEF IInv, WorkerInv, Holds, Ready, Announce, WorkerAt, SaveSnapshot, Goto,
     GoIdle, planVars, storeVars, workerVars, ContinuationPoints, wplan
<1> QED
  BY <1>1, <1>2, <1>3, IInvFromParts

LEMMA ExecutorRaisesStep ==
  ASSUME IInv, ExecutorRaises
  PROVE  IInv'
<1>1. PlanParts'
  BY PlansKept DEF ExecutorRaises, WorkerAt, SaveSnapshot, planVars, storeVars
<1>2. TypeOK'
  BY DEF IInv, TypeOK, StoreTypeOK, PlansTypeOK, ExecutorRaises, WorkerAt, SaveSnapshot, Goto,
     GoIdle, planVars, storeVars, workerVars, WorkerPoints, IncidentPoints, ContinuationPoints,
     SnapshotStatuses
<1>3. WorkerInv'
  BY DEF IInv, WorkerInv, Holds, Ready, ExecutorRaises, WorkerAt, SaveSnapshot, Goto, GoIdle,
     planVars, storeVars, workerVars, ContinuationPoints, wplan
<1> QED
  BY <1>1, <1>2, <1>3, IInvFromParts

LEMMA ReportStep ==
  ASSUME IInv, Report
  PROVE  IInv'
<1>1. PlanParts'
  BY PlansKept DEF Report, WorkerAt, SaveSnapshot, planVars, storeVars
<1>2. TypeOK'
  BY ContinuationFacts DEF IInv, TypeOK, StoreTypeOK, PlansTypeOK, Report, WorkerAt, SaveSnapshot,
     Goto, GoIdle, planVars, storeVars, workerVars, WorkerPoints, IncidentPoints,
     ContinuationPoints, SnapshotStatuses
<1>3. WorkerInv'
  BY ContinuationFacts DEF IInv, WorkerInv, Holds, Ready, Report, WorkerAt, SaveSnapshot, Goto,
     GoIdle, planVars, storeVars, workerVars, ContinuationPoints, wplan
<1> QED
  BY <1>1, <1>2, <1>3, IInvFromParts

LEMMA ReportFailureStep ==
  ASSUME IInv, ReportFailure
  PROVE  IInv'
<1>1. PlanParts'
  BY PlansKept DEF ReportFailure, WorkerAt, SaveSnapshot, planVars, storeVars
<1>2. TypeOK'
  BY ContinuationFacts DEF IInv, TypeOK, StoreTypeOK, PlansTypeOK, ReportFailure, WorkerAt,
     SaveSnapshot, Goto, GoIdle, planVars, storeVars, workerVars, WorkerPoints, IncidentPoints,
     ContinuationPoints, SnapshotStatuses
<1>3. WorkerInv'
  BY ContinuationFacts DEF IInv, WorkerInv, Holds, Ready, ReportFailure, WorkerAt, SaveSnapshot,
     Goto, GoIdle, planVars, storeVars, workerVars, ContinuationPoints, wplan
<1> QED
  BY <1>1, <1>2, <1>3, IInvFromParts

LEMMA StoreRaisesStep ==
  ASSUME IInv, StoreRaises
  PROVE  IInv'
<1>1. PlanParts'
  BY PlansKept DEF StoreRaises, WorkerAt, SaveSnapshot, planVars, storeVars
<1>2. TypeOK'
  BY RaiseType, MaxJobsAssumption DEF IInv, TypeOK, StoreTypeOK, PlansTypeOK, StoreRaises,
     WorkerAt, SaveSnapshot, Goto, GoIdle, planVars, storeVars, workerVars, WorkerPoints,
     IncidentPoints, ContinuationPoints, SnapshotStatuses, RaisedAt
<1>3. WorkerInv'
  BY RaiseType, MaxJobsAssumption DEF IInv, WorkerInv, Holds, Ready, StoreRaises, WorkerAt,
     SaveSnapshot, Goto, GoIdle, planVars, storeVars, workerVars, ContinuationPoints, wplan,
     RaisedAt
<1> QED
  BY <1>1, <1>2, <1>3, IInvFromParts

LEMMA NoteFailureStep ==
  ASSUME IInv, NoteFailure
  PROVE  IInv'
<1>1. PlanParts'
  BY PlansKept DEF NoteFailure, WorkerAt, SaveSnapshot
<1>2. StoreTypeOK'
  BY DEF IInv, TypeOK, StoreTypeOK, NoteFailure, SaveSnapshot, SnapshotStatuses
<1>3. TypeOK'
  BY <1>2, MaxJobsAssumption DEF IInv, TypeOK, PlansTypeOK, NoteFailure, WorkerAt, GoIdle,
     planVars, WorkerPoints
<1>4. WorkerInv'
  BY DEF WorkerInv, NoteFailure, GoIdle, ContinuationPoints
<1> QED
  BY <1>1, <1>3, <1>4, IInvFromParts

LEMMA FinishJobStep ==
  ASSUME IInv, FinishJob
  PROVE  IInv'
<1>1. wjob \in JobIds /\ jobs[wjob].status = "running" /\ wres \in {"completed", "failed"}
  BY DEF IInv, WorkerInv, TypeOK, FinishJob, WorkerAt
<1>2. PlanParts' /\ StoreTypeOK'
  BY <1>1, FinishKeeps DEF FinishJob, WorkerAt
<1>3. TypeOK'
  BY <1>2, MaxJobsAssumption DEF IInv, TypeOK, PlansTypeOK, FinishJob, WorkerAt, Goto, GoIdle,
     planVars, WorkerPoints, IncidentPoints
<1>4. WorkerInv'
  BY <1>1 DEF IInv, WorkerInv, FinishJob, WorkerAt, Finish, Goto, GoIdle, ContinuationPoints
<1> QED
  BY <1>2, <1>3, <1>4, IInvFromParts

LEMMA FailJobStep ==
  ASSUME IInv, FailJob
  PROVE  IInv'
<1>1. wjob \in JobIds /\ jobs[wjob].status = "running" /\ "failed" \in {"completed", "failed"}
  BY DEF IInv, WorkerInv, TypeOK, FailJob, WorkerAt
<1>2. PlanParts' /\ StoreTypeOK'
  BY <1>1, FinishKeeps DEF FailJob, WorkerAt
<1>3. TypeOK'
  BY <1>2, MaxJobsAssumption DEF IInv, TypeOK, PlansTypeOK, FailJob, WorkerAt, Goto, GoIdle,
     planVars, WorkerPoints, IncidentPoints
<1>4. WorkerInv'
  BY <1>1 DEF IInv, WorkerInv, FailJob, WorkerAt, Finish, Goto, GoIdle, ContinuationPoints
<1> QED
  BY <1>2, <1>3, <1>4, IInvFromParts

LEMMA NoExecutorStep ==
  ASSUME IInv, NoExecutor
  PROVE  IInv'
<1>1. PICK s \in Settled : SetPlan(wplan, s)
  BY DEF NoExecutor, Settled, Outcomes
<1>2. wpc \in ContinuationPoints /\ UNCHANGED <<up, upd, effects>>
  BY DEF NoExecutor, WorkerAt, ContinuationPoints
<1>3. PlanParts' /\ StoreTypeOK' /\ PlansTypeOK' /\ UNCHANGED jobs
  BY <1>1, <1>2, PlanChangeKeeps
<1>4. TypeOK'
  BY <1>3 DEF IInv, TypeOK, NoExecutor, WorkerAt, Goto, WorkerPoints, ContinuationPoints
<1>5. WorkerInv'
  BY <1>3 DEF IInv, WorkerInv, Holds, NoExecutor, WorkerAt, Goto, ContinuationPoints
<1> QED
  BY <1>3, <1>4, <1>5, IInvFromParts

LEMMA ExecutorReturnsStep ==
  ASSUME IInv, ExecutorReturns
  PROVE  IInv'
<1>1. PICK s \in Settled : SetPlan(wplan, s)
  BY DEF ExecutorReturns, Settled, Outcomes
<1>2. wpc \in ContinuationPoints /\ UNCHANGED <<up, upd, effects>>
  BY DEF ExecutorReturns, WorkerAt, ContinuationPoints
<1>3. PlanParts' /\ StoreTypeOK' /\ PlansTypeOK' /\ UNCHANGED jobs
  BY <1>1, <1>2, PlanChangeKeeps
<1>4. TypeOK'
  BY <1>3 DEF IInv, TypeOK, ExecutorReturns, WorkerAt, Goto, WorkerPoints, ContinuationPoints
<1>5. WorkerInv'
  BY <1>3 DEF IInv, WorkerInv, Holds, ExecutorReturns, WorkerAt, Goto, ContinuationPoints
<1> QED
  BY <1>3, <1>4, <1>5, IInvFromParts

LEMMA RecordExecutionFailedStep ==
  ASSUME IInv, RecordExecutionFailed
  PROVE  IInv'
<1>1. PICK s \in Settled : SetPlan(wplan, s)
  BY DEF RecordExecutionFailed, Settled, Outcomes
<1>2. wpc \in ContinuationPoints /\ UNCHANGED <<up, upd, effects>>
  BY DEF RecordExecutionFailed, WorkerAt, ContinuationPoints
<1>3. PlanParts' /\ StoreTypeOK' /\ PlansTypeOK' /\ UNCHANGED jobs
  BY <1>1, <1>2, PlanChangeKeeps
<1>4. TypeOK'
  BY <1>3 DEF IInv, TypeOK, RecordExecutionFailed, WorkerAt, Goto, WorkerPoints, ContinuationPoints
<1>5. WorkerInv'
  BY <1>3 DEF IInv, WorkerInv, Holds, RecordExecutionFailed, WorkerAt, Goto, ContinuationPoints
<1> QED
  BY <1>3, <1>4, <1>5, IInvFromParts

LEMMA BeginRemediationStep ==
  ASSUME IInv, BeginRemediation
  PROVE  IInv'
<1>1. wpc = "continuing" /\ UNCHANGED <<up, upd, effects, crashes, faults>>
  BY DEF BeginRemediation, WorkerAt
<1>2. mem[wplan] = "APPROVED"
  BY <1>1, ContinuationFacts, MaxJobsAssumption DEF BeginRemediation, LockFree, IInv, WorkerInv,
     Ready,
     ContinuationPoints, JobIds
<1>3. SetPlan(wplan, "APPROVED") /\ Goto("announcing")
  BY <1>2 DEF BeginRemediation
<1>4. PlanParts' /\ StoreTypeOK' /\ PlansTypeOK' /\ UNCHANGED jobs
  BY <1>1, <1>3, PlanChangeKeeps DEF ContinuationPoints
<1>5. TypeOK'
  BY <1>1, <1>3, <1>4 DEF IInv, TypeOK, Goto, WorkerPoints, ContinuationPoints
<1>6. WorkerInv'
  BY <1>1, <1>3, <1>4, ContinuationFacts DEF IInv, TypeOK, StoreTypeOK, PlansTypeOK, WorkerInv,
     Holds, Ready, Goto, SetPlan, SaveApproval, ContinuationPoints, wplan
<1> QED
  BY <1>4, <1>5, <1>6, IInvFromParts

\* The step that starts a side effect: the plan is approved, on disk and in
\* memory, and was not executed before.
LEMMA StartExecutorStep ==
  ASSUME IInv, StartExecutor
  PROVE  IInv'
<1>1. /\ wpc = "dispatching"
      /\ UNCHANGED <<jobs, snapshots, approvals, mem, lock, verdict, up, upd, crashes, faults>>
      /\ effects' = [effects EXCEPT ![wplan] = @ + 1]
      /\ Goto("executing")
  BY DEF StartExecutor, WorkerAt, storeVars, planVars
<1>2. effects[wplan] = 0
  BY <1>1 DEF IInv, WorkerInv
<1>3. ASSUME NEW p \in JobIds  PROVE PlanInv(p)'
  BY <1>1, <1>2, ContinuationFacts DEF IInv, TypeOK, PlanInv, HasContinuation, IsContinuationOf,
     ContinuationPoints
<1>4. ASSUME NEW j \in JobIds  PROVE JobInv(j)'
  <2>1. jobs[j].kind = "remediation" /\ jobs[j].status = "pending" => jobs[j].key # wplan
    BY <1>1, ContinuationFacts DEF IsContinuationOf, ContinuationPoints
  <2> QED
    BY <1>1, <2>1, RowFacts DEF IInv, TypeOK, JobInv, Ready
<1>5. OneContinuation'
  BY <1>1 DEF IInv, OneContinuation, IsContinuationOf
<1>6. TypeOK'
  BY <1>1, ContinuationFacts DEF IInv, TypeOK, StoreTypeOK, PlansTypeOK, Goto, WorkerPoints,
     ContinuationPoints
<1>7. WorkerInv'
  BY <1>1 DEF IInv, WorkerInv, Holds, Goto, ContinuationPoints
<1> QED
  BY <1>3, <1>4, <1>5, <1>6, <1>7, IInvFromParts DEF PlanParts

LEMMA ProposeStep ==
  ASSUME IInv, ProposePlan \/ ProposeUnsaved
  PROVE  IInv'
<1> DEFINE w == "WAITING_FOR_APPROVAL"
<1>1. /\ wpc = "workflow" /\ wpc' = "proposed" /\ lock = 0
      /\ UNCHANGED <<jobs, snapshots, lock, verdict, up, upd, crashes, effects, wjob, wres>>
      /\ mem' = [mem EXCEPT ![wjob] = w]
      /\ approvals' = [approvals EXCEPT ![wjob] = w] \/ approvals' = approvals
      /\ faults' \in 0..MaxFaults
  BY RaiseType DEF IInv, TypeOK, ProposePlan, ProposeUnsaved, WorkerAt, SetPlan, SetPlanUnsaved,
     SaveApproval, LockFree, Goto, storeVars
<1>2. /\ wjob \in JobIds
      /\ Holds("incident")
      /\ mem[wjob] = "none" /\ approvals[wjob] = "none"
  BY <1>1 DEF IInv, WorkerInv
<1>3. verdict[wjob] = "none"
  BY <1>2 DEF IInv, TypeOK, PlansTypeOK, PlanInv, Settled, Outcomes
<1>4. ASSUME NEW p \in JobIds  PROVE PlanInv(p)'
  BY <1>1, <1>2, <1>3, MaxJobsAssumption DEF IInv, TypeOK, StoreTypeOK, PlansTypeOK, PlanInv,
     HasContinuation, IsContinuationOf, JobIds
<1>5. ASSUME NEW j \in JobIds  PROVE JobInv(j)'
  <2>1. jobs[j].kind = "remediation" /\ jobs[j].status = "pending" => jobs[j].key # wjob
    BY <1>2 DEF IInv, JobInv, Ready
  <2>2. jobs[j].status \in {"absent", "pending"} => j # wjob
    BY <1>2 DEF Holds
  <2>3. jobs[j].kind = "remediation" => jobs[j].key \in JobIds
    BY RowFacts DEF IInv, TypeOK
  <2>4. \A p \in JobIds \ {wjob} : mem'[p] = mem[p] /\ approvals'[p] = approvals[p]
    BY <1>1 DEF IInv, TypeOK, StoreTypeOK, PlansTypeOK
  <2> QED
    BY <1>1, <2>1, <2>2, <2>3, <2>4 DEF IInv, JobInv, Ready
<1>6. OneContinuation'
  BY <1>1 DEF IInv, OneContinuation, IsContinuationOf
<1>7. TypeOK'
  BY <1>1 DEF IInv, TypeOK, StoreTypeOK, PlansTypeOK, PlanStatuses, WorkerPoints, IncidentPoints
<1>8. WorkerInv'
  BY <1>1, <1>2 DEF IInv, WorkerInv, Holds, ContinuationPoints
<1> QED
  BY <1>4, <1>5, <1>6, <1>7, <1>8, IInvFromParts DEF PlanParts

LEMMA OutcomeUnsavedStep ==
  ASSUME IInv, OutcomeUnsaved
  PROVE  IInv'
<1>1. PICK s \in Settled : SetPlanUnsaved(wplan, s)
  BY DEF OutcomeUnsaved, Settled, Outcomes
<1>2. /\ wpc \in ContinuationPoints
      /\ wpc' \in {"execfailed", "failing"}
      /\ UNCHANGED <<up, upd, crashes, effects, wjob, wres>>
  BY DEF OutcomeUnsaved, WorkerAt, Goto, ContinuationPoints
<1>3. PlanParts' /\ StoreTypeOK' /\ PlansTypeOK' /\ UNCHANGED jobs
  BY <1>1, <1>2, PlanChangeKeeps
<1>4. TypeOK'
  BY <1>2, <1>3, RaiseType DEF IInv, TypeOK, OutcomeUnsaved, WorkerPoints, ContinuationPoints
<1>5. WorkerInv'
  BY <1>2, <1>3 DEF IInv, WorkerInv, Holds, ContinuationPoints
<1> QED
  BY <1>3, <1>4, <1>5, IInvFromParts

LEMMA ClaimJobStep ==
  ASSUME IInv, ClaimJob
  PROVE  IInv'
<1>1. /\ wpc = "idle" /\ up
      /\ UNCHANGED <<snapshots, approvals, mem, lock, verdict, up, upd, crashes, effects, faults, wres>>
  BY DEF ClaimJob, WorkerAt, Claim, planVars
<1>2. PICK j \in JobIds :
        /\ jobs[j].status = "pending"
        /\ jobs' = [jobs EXCEPT ![j].status = "running"]
        /\ wjob' = j
        /\ wpc' = IF IsIncident(j) THEN "workflow" ELSE "continuing"
  BY DEF ClaimJob, Claim
<1>3. jobs' \in [JobIds -> Rows]
  BY <1>2, RowUpdate DEF IInv, TypeOK, JobStatuses
<1>4. /\ \A i \in JobIds : jobs'[i].kind = jobs[i].kind /\ jobs'[i].key = jobs[i].key
      /\ \A i \in JobIds \ {j} : jobs'[i].status = jobs[i].status
      /\ jobs'[j].status = "running"
  BY <1>2 DEF IInv, TypeOK, StoreTypeOK, Rows, Absent
<1>5. PlanParts'
  BY <1>1, <1>4 DEF IInv, PlanParts, PlanInv, HasContinuation, IsContinuationOf, JobInv, Ready,
     OneContinuation
<1>6. TypeOK'
  BY <1>1, <1>2, <1>3 DEF IInv, TypeOK, StoreTypeOK, PlansTypeOK, JobIds, WorkerPoints,
     IncidentPoints, ContinuationPoints
<1>7. WorkerInv'
  BY <1>1, <1>2, <1>4, RowFacts DEF IInv, TypeOK, WorkerInv, Holds, Ready, wplan, JobInv,
     IsIncident,
     ContinuationPoints
<1> QED
  BY <1>5, <1>6, <1>7, IInvFromParts

-----------------------------------------------------------------------------
(* The steps of the requests and of the process.                            *)

LEMMA SubmitStep ==
  ASSUME IInv, NEW d \in Deliveries, Submit(d)
  PROVE  IInv'
<1>1. UNCHANGED <<approvals, mem, lock, verdict, up, wpc, wjob, wres, upd, crashes, effects,
faults>>
  BY DEF Submit, Serving, EnqueueIncident, planVars, storeVars
<1>2. CASE UNCHANGED <<jobs, snapshots>>
  <2>1. PlanParts'
    BY <1>1, <1>2, PlansKept DEF planVars
  <2>2. TypeOK' /\ WorkerInv'
    BY <1>1, <1>2 DEF IInv, TypeOK, StoreTypeOK, PlansTypeOK, WorkerInv, Holds, Ready, wplan
  <2> QED
    BY <2>1, <2>2, IInvFromParts
<1>3. ASSUME NEW n \in JobIds, IsNextId(n),
             jobs' = [jobs EXCEPT ![n] = Row("incident", d, "pending")],
             snapshots' = [snapshots EXCEPT ![n] = "pending"]
      PROVE  IInv'
  <2>1. jobs[n].kind = "none" /\ jobs[n].status = "absent"
    BY <1>3 DEF IsNextId, Absent
  <2>2. StoreTypeOK'
    BY <1>1, <1>3 DEF IInv, TypeOK, StoreTypeOK, Rows, Row, JobStatuses, SnapshotStatuses
  <2>3. /\ jobs'[n].kind = "incident" /\ jobs'[n].status = "pending"
        /\ \A i \in JobIds \ {n} : jobs'[i] = jobs[i]
    BY <1>3 DEF IInv, TypeOK, StoreTypeOK, Row
  <2>4. PlanParts'
    BY <1>1, <2>1, <2>3 DEF IInv, PlanParts, PlanInv, HasContinuation, IsContinuationOf, JobInv,
       Ready, OneContinuation
  <2>5. TypeOK'
    BY <1>1, <2>2 DEF IInv, TypeOK, PlansTypeOK
  <2>6. WorkerInv'
    BY <1>1, <2>1, <2>3 DEF IInv, WorkerInv, Holds, Ready, wplan, ContinuationPoints
  <2> QED
    BY <2>4, <2>5, <2>6, IInvFromParts
<1> QED
  BY <1>2, <1>3 DEF Submit, EnqueueIncident, storeVars

\* Under the lock, a plan that waits for approval is undecided.
LEMMA WaitingIsUndecided ==
  ASSUME IInv, NEW p \in JobIds, LockFree, mem[p] = "WAITING_FOR_APPROVAL"
  PROVE  verdict[p] = "none" /\ effects[p] = 0 /\ ~HasContinuation(p)
<1>1. lock # p
  BY MaxJobsAssumption DEF LockFree, JobIds
<1>2. verdict[p] # "rejected"
  BY DEF IInv, PlanInv
<1>3. verdict[p] # "approved"
  BY <1>1 DEF IInv, PlanInv, Settled, Outcomes
<1>4. verdict[p] \in {"none", "approved", "rejected"}
  BY DEF IInv, TypeOK, PlansTypeOK
<1> QED
  BY <1>2, <1>3, <1>4 DEF IInv, PlanInv

LEMMA ApproveStep ==
  ASSUME IInv, NEW p \in JobIds, Approve(p)
  PROVE  IInv'
<1>1. /\ UNCHANGED <<snapshots, mem, up, wpc, wjob, wres, upd, crashes, effects, faults>>
      /\ up /\ lock = 0 /\ lock' = p
      /\ mem[p] = "WAITING_FOR_APPROVAL"
      /\ approvals' = [approvals EXCEPT ![p] = "APPROVED"]
      /\ verdict' = [verdict EXCEPT ![p] = "approved"]
  BY DEF Approve, Serving, ApproveCommit, SaveDecisionAndContinuation, LockFree
<1>2. PICK n \in JobIds :
        IsNextId(n) /\ jobs' = [jobs EXCEPT ![n] = Row("remediation", p, "pending")]
  BY DEF Approve, ApproveCommit, SaveDecisionAndContinuation
<1>3. verdict[p] = "none" /\ effects[p] = 0 /\ ~HasContinuation(p)
  BY WaitingIsUndecided, <1>1 DEF LockFree
<1>4. jobs[n].kind = "none" /\ jobs[n].status = "absent" /\ mem[n] = "none" /\ n # p
  BY <1>1, <1>2 DEF IInv, JobInv, IsNextId, Absent
<1>5. /\ jobs'[n].kind = "remediation" /\ jobs'[n].key = p /\ jobs'[n].status = "pending"
      /\ \A i \in JobIds \ {n} : jobs'[i] = jobs[i]
      /\ jobs' \in [JobIds -> Rows]
  BY <1>2 DEF IInv, TypeOK, StoreTypeOK, Rows, Row, JobStatuses
<1>6. ASSUME NEW q \in JobIds  PROVE PlanInv(q)'
  <2>1. CASE q = p
    BY <1>1, <2>1, <1>3 DEF IInv, TypeOK, StoreTypeOK, PlansTypeOK, PlanInv
  <2>2. CASE q # p
    <3>1. HasContinuation(q)' => HasContinuation(q)
      BY <1>5, <2>2 DEF HasContinuation, IsContinuationOf
    <3>2. approvals'[q] = approvals[q] /\ verdict'[q] = verdict[q] /\ lock # q /\ lock' # q
      BY <1>1, <2>2, MaxJobsAssumption DEF IInv, TypeOK, StoreTypeOK, PlansTypeOK, JobIds
    <3> QED
      BY <1>1, <3>1, <3>2 DEF IInv, PlanInv
  <2> QED BY <2>1, <2>2
<1>7. ASSUME NEW j \in JobIds  PROVE JobInv(j)'
  <2>1. CASE j = n
    BY <1>1, <1>3, <1>4, <1>5, <2>1 DEF IInv, TypeOK, StoreTypeOK, JobInv, Ready
  <2>2. CASE j # n
    <3>1. jobs[j].kind = "remediation" => jobs[j].key # p /\ jobs[j].key \in JobIds
      BY <1>3, RowFacts DEF IInv, TypeOK, HasContinuation, IsContinuationOf
    <3>2. jobs[j].status \in {"absent", "pending"} => j # p
      BY <1>1 DEF IInv, JobInv
    <3>3. jobs'[j] = jobs[j] /\ \A q \in JobIds \ {p} : approvals'[q] = approvals[q]
      BY <1>1, <1>5, <2>2 DEF IInv, TypeOK, StoreTypeOK
    <3>4. \A q \in JobIds : lock # q
      BY <1>1, MaxJobsAssumption DEF JobIds
    <3> QED
      BY <1>1, <3>1, <3>2, <3>3, <3>4 DEF IInv, JobInv, Ready
  <2> QED BY <2>1, <2>2
<1>8. OneContinuation'
  BY <1>3, <1>4, <1>5 DEF IInv, OneContinuation, HasContinuation, IsContinuationOf
<1>9. TypeOK'
  BY <1>1, <1>5, MaxJobsAssumption DEF IInv, TypeOK, StoreTypeOK, PlansTypeOK, PlanStatuses, JobIds
<1>10. WorkerInv'
  <2>1. wpc \notin {"idle", "noting"} => wjob # n /\ wjob \in JobIds
    BY <1>4 DEF IInv, WorkerInv, Holds, TypeOK, WorkerPoints, IncidentPoints, ContinuationPoints
  <2>2. wpc \in ContinuationPoints => wplan # p /\ wplan \in JobIds
    BY <1>3, ContinuationFacts DEF HasContinuation
  <2>3. wpc = "workflow" => wjob # p
    BY <1>1 DEF IInv, WorkerInv
  <2> QED
    BY <1>1, <1>5, <2>1, <2>2, <2>3, MaxJobsAssumption DEF IInv, TypeOK, StoreTypeOK, PlansTypeOK,
       WorkerInv, Holds, Ready, wplan, ContinuationPoints, JobIds
<1> QED
  BY <1>6, <1>7, <1>8, <1>9, <1>10, IInvFromParts DEF PlanParts

LEMMA ApproveReturnsStep ==
  ASSUME IInv, NEW p \in JobIds, ApproveReturns(p)
  PROVE  IInv'
<1>1. /\ UNCHANGED <<jobs, snapshots, approvals, verdict, up, wpc, wjob, wres, crashes, effects, faults>>
      /\ lock = p /\ lock' = 0
      /\ mem' = [mem EXCEPT ![p] = "APPROVED"]
      /\ upd' = [upd EXCEPT ![p] = "decided"]
  BY DEF ApproveReturns, Serving, ApproveInstall, storeVars
<1>2. verdict[p] = "approved" /\ approvals[p] = "APPROVED" /\ mem[p] = "WAITING_FOR_APPROVAL"
  BY <1>1 DEF IInv, PlanInv
<1>3. ASSUME NEW q \in JobIds  PROVE PlanInv(q)'
  <2>1. lock' # q
    BY <1>1, MaxJobsAssumption DEF JobIds
  <2>2. CASE q = p
    BY <1>1, <1>2, <2>1, <2>2 DEF IInv, TypeOK, PlansTypeOK, PlanInv
  <2>3. CASE q # p
    BY <1>1, <2>1, <2>3 DEF IInv, TypeOK, PlansTypeOK, PlanInv, HasContinuation, IsContinuationOf
  <2> QED BY <2>2, <2>3
<1>4. ASSUME NEW j \in JobIds  PROVE JobInv(j)'
  BY <1>1, <1>2, RowFacts DEF IInv, TypeOK, PlansTypeOK, JobInv, Ready
<1>5. OneContinuation'
  BY <1>1 DEF IInv, OneContinuation, IsContinuationOf
<1>6. TypeOK'
  BY <1>1, MaxJobsAssumption DEF IInv, TypeOK, StoreTypeOK, PlansTypeOK, PlanStatuses
<1>7. WorkerInv'
  BY <1>1, <1>2, ContinuationFacts DEF IInv, TypeOK, PlansTypeOK, WorkerInv, Holds, Ready, wplan,
     ContinuationPoints
<1> QED
  BY <1>3, <1>4, <1>5, <1>6, <1>7, IInvFromParts DEF PlanParts

\* Both ways to reject change an undecided plan to REJECTED.
LEMMA RejectSteps ==
  ASSUME IInv, NEW p \in JobIds, Reject(p) \/ RejectFails(p)
  PROVE  IInv'
<1>1. /\ UNCHANGED <<jobs, snapshots, lock, up, wpc, wjob, wres, crashes, effects>>
      /\ up /\ LockFree /\ mem[p] = "WAITING_FOR_APPROVAL"
      /\ mem' = [mem EXCEPT ![p] = "REJECTED"]
      /\ \/ /\ approvals' = [approvals EXCEPT ![p] = "REJECTED"]
            /\ verdict' = [verdict EXCEPT ![p] = "rejected"]
         \/ UNCHANGED <<approvals, verdict>>
      /\ upd' = [upd EXCEPT ![p] = "decided"] \/ upd' = upd
      /\ faults' \in 0..MaxFaults
  BY RaiseType DEF IInv, TypeOK, Reject, RejectFails, Serving, RejectPlan, RejectUnsaved,
     SetPlanUnsaved,
     SaveApproval, LockFree, storeVars
<1>2. verdict[p] = "none" /\ effects[p] = 0 /\ ~HasContinuation(p)
  BY <1>1, WaitingIsUndecided
<1>3. ASSUME NEW q \in JobIds  PROVE PlanInv(q)'
  <2>1. lock # q /\ (HasContinuation(q)' <=> HasContinuation(q))
    BY <1>1, MaxJobsAssumption DEF LockFree, JobIds, HasContinuation, IsContinuationOf
  <2>2. CASE q = p
    BY <1>1, <1>2, <2>1, <2>2 DEF IInv, TypeOK, StoreTypeOK, PlansTypeOK, PlanInv
  <2>3. CASE q # p
    BY <1>1, <2>1, <2>3 DEF IInv, TypeOK, StoreTypeOK, PlansTypeOK, PlanInv
  <2> QED BY <2>2, <2>3
<1>4. ASSUME NEW j \in JobIds  PROVE JobInv(j)'
  <2>1. jobs[j].kind = "remediation" => jobs[j].key # p /\ jobs[j].key \in JobIds
    BY <1>2, RowFacts DEF IInv, TypeOK, HasContinuation, IsContinuationOf
  <2>2. jobs[j].status \in {"absent", "pending"} => j # p
    BY <1>1 DEF IInv, JobInv
  <2> QED
    BY <1>1, <2>1, <2>2 DEF IInv, TypeOK, StoreTypeOK, PlansTypeOK, JobInv, Ready
<1>5. OneContinuation'
  BY <1>1 DEF IInv, OneContinuation, IsContinuationOf
<1>6. TypeOK'
  BY <1>1 DEF IInv, TypeOK, StoreTypeOK, PlansTypeOK, PlanStatuses
<1>7. WorkerInv'
  <2>1. wpc \in ContinuationPoints => wplan # p /\ wplan \in JobIds
    BY <1>2, ContinuationFacts DEF HasContinuation
  <2>2. wpc = "workflow" => wjob # p
    BY <1>1 DEF IInv, WorkerInv
  <2> QED
    BY <1>1, <2>1, <2>2 DEF IInv, TypeOK, StoreTypeOK, PlansTypeOK, WorkerInv, Holds, Ready, wplan,
       ContinuationPoints
<1> QED
  BY <1>3, <1>4, <1>5, <1>6, <1>7, IInvFromParts DEF PlanParts

LEMMA DecisionSteps ==
  ASSUME IInv, NEW p \in JobIds, DecisionRead(p) \/ DecisionWrite(p) \/ DecisionRaises(p)
  PROVE  IInv'
<1>1. /\ UNCHANGED <<jobs, approvals, mem, lock, verdict, up, wpc, wjob, wres, crashes, effects>>
      /\ upd[p] # "idle"
      /\ upd' = [upd EXCEPT ![p] = mem[p]] \/ upd' = [upd EXCEPT ![p] = "idle"]
      /\ \/ snapshots' = snapshots
         \/ upd[p] \in PlanStatuses /\ snapshots' = [snapshots EXCEPT ![p] = upd[p]]
      /\ faults' \in 0..MaxFaults
  <2> USE DEF Serving, planVars, storeVars
  <2> faults \in 0..MaxFaults
    BY DEF IInv, TypeOK
  <2>1. CASE DecisionRead(p)
    BY <2>1 DEF DecisionRead
  <2>2. CASE DecisionWrite(p)
    BY <2>2 DEF DecisionWrite, SaveSnapshot, PlanStatuses
  <2>3. CASE DecisionRaises(p)
    BY <2>3, RaiseType DEF IInv, DecisionRaises, PlanStatuses
  <2> QED BY <2>1, <2>2, <2>3
<1>2. mem[p] \in PlanStatuses
  BY <1>1 DEF IInv, TypeOK, PlansTypeOK, PlanInv
<1>3. PlanParts'
  BY <1>1, PlansKept DEF IInv, TypeOK, planVars
<1>4. TypeOK'
  BY <1>1, <1>2 DEF IInv, TypeOK, StoreTypeOK, PlansTypeOK, SnapshotStatuses
<1>5. WorkerInv'
  BY <1>1 DEF IInv, WorkerInv, Holds, Ready, wplan
<1> QED
  BY <1>3, <1>4, <1>5, IInvFromParts

LEMMA CrashStep ==
  ASSUME IInv, Crash
  PROVE  IInv'
<1>1. /\ UNCHANGED <<jobs, snapshots, approvals, verdict, wres, effects, faults>>
      /\ up' = FALSE /\ lock' = 0 /\ wpc' = "idle" /\ wjob' = 0
      /\ mem' = [p \in JobIds |-> "none"]
      /\ upd' = [p \in JobIds |-> "idle"]
      /\ crashes' \in 0..MaxCrashes
  BY WorkerAssumption DEF IInv, TypeOK, Crash, GoIdle, storeVars
<1>2. \A p \in JobIds : PlanInv(p)'
  BY <1>1, MaxJobsAssumption DEF IInv, PlanInv, HasContinuation, IsContinuationOf, JobIds
<1>3. \A j \in JobIds : JobInv(j)'
  BY <1>1 DEF IInv, JobInv, Ready
<1>4. OneContinuation'
  BY <1>1 DEF IInv, OneContinuation, IsContinuationOf
<1>5. TypeOK'
  <2>1. StoreTypeOK'
    BY <1>1 DEF IInv, TypeOK, StoreTypeOK
  <2>2. PlansTypeOK'
    BY <1>1, MaxJobsAssumption DEF IInv, TypeOK, PlansTypeOK
  <2>3. up' \in BOOLEAN /\ wpc' \in WorkerPoints
    BY <1>1 DEF WorkerPoints
  <2>5. wjob' \in 0..MaxJobs
    BY <1>1, MaxJobsAssumption
  <2>4. upd' \in [JobIds -> {"idle", "decided"} \cup PlanStatuses]
    BY <1>1
  <2> QED
    BY <1>1, <2>1, <2>2, <2>3, <2>4, <2>5 DEF IInv, TypeOK
<1>6. WorkerInv'
  BY <1>1 DEF WorkerInv, ContinuationPoints
<1> QED
  BY <1>2, <1>3, <1>4, <1>5, <1>6, IInvFromParts DEF PlanParts

\* Recovery settles the plans of the interrupted continuations, which are
\* approved, and the queued continuations are of other plans.
LEMMA StartupStep ==
  ASSUME IInv, Startup
  PROVE  IInv'
<1>1. /\ ~up /\ up' = TRUE /\ mem' = approvals'
      /\ UNCHANGED <<lock, verdict, upd, effects, crashes, faults, wpc, wjob, wres>>
      /\ Recover
  BY DEF Startup, workerVars
<1>2. wpc = "idle" /\ \A p \in JobIds : lock # p
  BY <1>1 DEF IInv, WorkerInv, PlanInv
<1>3. ASSUME NEW j \in JobIds
      PROVE  /\ jobs'[j].kind = jobs[j].kind /\ jobs'[j].key = jobs[j].key
             /\ jobs'[j].status \in {"absent", "pending"} => jobs'[j].status = jobs[j].status
             /\ jobs'[j] \in Rows
  BY <1>1 DEF Recover, Stopped, IInv, TypeOK, StoreTypeOK, Rows, Absent, JobStatuses
<1>4. ASSUME NEW p \in JobIds
      PROVE  \/ approvals'[p] = approvals[p]
             \/ /\ approvals'[p] = "EXECUTION_FAILED" /\ approvals[p] # "none"
                /\ \E j \in JobIds : IsContinuationOf(j, p) /\ jobs[j].status = "running"
  BY <1>1 DEF Recover, StoppedPlans, Stopped
<1>5. ASSUME NEW p \in JobIds  PROVE PlanInv(p)'
  <2>1. HasContinuation(p)' => HasContinuation(p)
    BY <1>3 DEF HasContinuation, IsContinuationOf
  <2>2. approvals'[p] = "none" => approvals[p] = "none"
    BY <1>4
  <2>3. approvals'[p] # approvals[p] => verdict[p] = "approved" /\ approvals'[p] = "EXECUTION_FAILED"
    BY <1>4 DEF IInv, PlanInv, HasContinuation
  <2>4. upd[p] = "idle"
    BY <1>1 DEF IInv, PlanInv
  <2> QED
    BY <1>1, <1>2, <2>1, <2>2, <2>3, <2>4 DEF IInv, PlanInv, Settled, Outcomes
<1>6. ASSUME NEW j \in JobIds  PROVE JobInv(j)'
  <2>1. jobs'[j].status \in {"absent", "pending"} => approvals'[j] = "none"
    BY <1>3, <1>4 DEF IInv, JobInv
  <2>2. ASSUME jobs'[j].kind = "remediation", jobs'[j].status = "pending"
        PROVE  Ready(jobs[j].key)'
    <3>1. jobs[j].key \in JobIds /\ IsContinuationOf(j, jobs[j].key) /\ Ready(jobs[j].key)
      BY <1>3, <2>2, RowFacts DEF IInv, TypeOK, JobInv, IsContinuationOf
    <3>2. approvals'[jobs[j].key] = "APPROVED"
      BY <1>3, <1>4, <2>2, <3>1 DEF IInv, OneContinuation, Ready
    <3> QED
      BY <1>1, <3>1, <3>2, <1>3 DEF Ready
  <2> QED
    BY <1>1, <1>3, <2>1, <2>2 DEF JobInv
<1>7. OneContinuation'
  BY <1>3 DEF IInv, OneContinuation, IsContinuationOf
<1>8. TypeOK'
  BY <1>1, <1>3 DEF IInv, TypeOK, StoreTypeOK, PlansTypeOK, Recover, PlanStatuses, SnapshotStatuses
<1>9. WorkerInv'
  BY <1>1, <1>2 DEF WorkerInv, ContinuationPoints
<1> QED
  BY <1>5, <1>6, <1>7, <1>8, <1>9, IInvFromParts DEF PlanParts

-----------------------------------------------------------------------------
(* IInv is inductive.                                                       *)

LEMMA InitIInv == Init => IInv
<1> SUFFICES ASSUME Init  PROVE IInv
  OBVIOUS
<1> USE DEF Init, StoreInit, PlansInit
<1>1. TypeOK
  BY MaxJobsAssumption, WorkerAssumption DEF TypeOK, StoreTypeOK, PlansTypeOK, Rows, WorkerPoints
<1>2. \A p \in JobIds : PlanInv(p)
  BY MaxJobsAssumption DEF PlanInv, HasContinuation, IsContinuationOf, Absent, JobIds
<1>3. \A j \in JobIds : JobInv(j)
  BY DEF JobInv, Absent
<1>4. WorkerInv /\ OneContinuation
  BY DEF WorkerInv, ContinuationPoints, OneContinuation, IsContinuationOf, Absent
<1> QED
  BY <1>1, <1>2, <1>3, <1>4 DEF IInv

LEMMA NextIInv == IInv /\ [Next]_vars => IInv'
<1> SUFFICES ASSUME IInv, [Next]_vars  PROVE IInv'
  OBVIOUS
<1>1. CASE WorkerStep
  BY <1>1, ClaimJobStep, RecordStageStep, ProposeStep, RecordFinalStep, WorkflowRaisesStep,
     FinishJobStep, FailJobStep, NoteFailureStep, BeginRemediationStep, AnnounceStep,
     NoExecutorStep,
     StartExecutorStep, ExecutorReturnsStep, ExecutorRaisesStep, RecordExecutionFailedStep,
     ReportStep, ReportFailureStep
     DEF WorkerStep
<1>2. CASE WorkerFault
  BY <1>2, ProposeStep, StoreRaisesStep, OutcomeUnsavedStep DEF WorkerFault
<1>3. ASSUME NEW d \in Deliveries, Submit(d)  PROVE IInv'
  BY <1>3, SubmitStep
<1>4. ASSUME NEW p \in JobIds, Approve(p) \/ Reject(p) \/ RejectFails(p)  PROVE IInv'
  BY <1>4, ApproveStep, RejectSteps
<1>5. ASSUME NEW p \in JobIds, RequestStep(p) \/ DecisionRaises(p)  PROVE IInv'
  BY <1>5, ApproveReturnsStep, DecisionSteps DEF RequestStep
<1>6. CASE Crash
  BY <1>6, CrashStep
<1>7. CASE Startup
  BY <1>7, StartupStep
<1>8. CASE UNCHANGED vars
  <2>1. PlanParts'
    BY <1>8, PlansKept DEF vars, planVars
  <2>2. TypeOK' /\ WorkerInv'
    BY <1>8 DEF vars, IInv, TypeOK, StoreTypeOK, PlansTypeOK, WorkerInv, Holds, Ready, wplan
  <2> QED
    BY <2>1, <2>2, IInvFromParts
<1> QED
  BY <1>1, <1>2, <1>3, <1>4, <1>5, <1>6, <1>7, <1>8 DEF Next

\* IInv holds in every reachable state.
THEOREM InductiveInvariant == Spec => []IInv
  BY InitIInv, NextIInv, PTL DEF Spec

-----------------------------------------------------------------------------
(* What has ended, and what is shown of it.                                  *)

\* The steps that change the jobs table.
LEMMA JobChanges ==
  ASSUME [Next]_vars
  PROVE  \/ UNCHANGED jobs
         \/ ClaimJob \/ FinishJob \/ FailJob \/ Startup
         \/ \E d \in Deliveries : Submit(d)
         \/ \E p \in JobIds : Approve(p)
<1>1. CASE WorkerStep
  BY <1>1 DEF WorkerStep, RecordStage, ProposePlan, RecordFinal, WorkflowRaises, NoteFailure,
     BeginRemediation, Announce, NoExecutor, StartExecutor, ExecutorReturns, ExecutorRaises,
     RecordExecutionFailed, Report, ReportFailure, SetPlan, SaveApproval, SaveSnapshot, storeVars
<1>2. CASE WorkerFault
  BY <1>2 DEF WorkerFault, ProposeUnsaved, StoreRaises, OutcomeUnsaved, SetPlanUnsaved, storeVars
<1>3. ASSUME NEW p \in JobIds, Reject(p) \/ RejectFails(p)  PROVE UNCHANGED jobs
  BY <1>3 DEF Reject, RejectFails, RejectPlan, RejectUnsaved, SetPlanUnsaved, SaveApproval,
     storeVars
<1>4. ASSUME NEW p \in JobIds, RequestStep(p) \/ DecisionRaises(p)  PROVE UNCHANGED jobs
  BY <1>4 DEF RequestStep, DecisionRaises, ApproveReturns, ApproveInstall, DecisionRead,
     DecisionWrite,
     SaveSnapshot, storeVars
<1>5. CASE Crash
  BY <1>5 DEF Crash, storeVars
<1>6. CASE UNCHANGED vars
  BY <1>6 DEF vars
<1> QED
  BY <1>1, <1>2, <1>3, <1>4, <1>5, <1>6 DEF Next

SameJob(j) == jobs'[j].kind = jobs[j].kind /\ jobs'[j].key = jobs[j].key

\* A row is inserted as pending and then moves forward only; a new incident is
\* the only row that changes, and nobody holds its delivery.
LEMMA JobMoves ==
  ASSUME IInv, [Next]_vars, NEW j \in JobIds
  PROVE  \/ jobs'[j] = jobs[j]
         \/ SameJob(j) /\ jobs[j].status = "pending" /\ jobs'[j].status = "running"
         \/ SameJob(j) /\ jobs[j].status = "running" /\ jobs'[j].status \in Ended
         \/ /\ jobs[j] = Absent /\ jobs'[j].status = "pending"
            /\ jobs'[j].kind = "incident" =>
                 \A i \in JobIds \ {j} : jobs'[i] = jobs[i] /\ ~HoldsDelivery(i, jobs'[j].key)
<1>0. /\ jobs \in [JobIds -> Rows]
      /\ \A r \in Rows, t \in JobStatuses : LET q == [r EXCEPT !.status = t]
                               IN  q.kind = r.kind /\ q.key = r.key /\ q.status = t
  BY DEF IInv, TypeOK, StoreTypeOK, Rows, Absent
<1>1. CASE ClaimJob
  BY <1>0, <1>1 DEF ClaimJob, Claim, SameJob, JobStatuses
<1>2. CASE FinishJob \/ FailJob
  <2>1. wjob \in JobIds /\ jobs[wjob].status = "running"
    BY <1>2 DEF IInv, WorkerInv, FinishJob, FailJob, WorkerAt
  <2>2. PICK s \in {"completed", "failed"} : jobs' = [jobs EXCEPT ![wjob].status = s]
    BY <1>2 DEF FinishJob, FailJob, Finish, IInv, TypeOK
  <2> QED
    BY <1>0, <2>1, <2>2 DEF SameJob, Ended, JobStatuses
<1>3. CASE Startup
  BY <1>0, <1>3 DEF Startup, Recover, Stopped, SameJob, Ended, JobStatuses
<1>4. ASSUME NEW d \in Deliveries, Submit(d)
      PROVE  \/ jobs'[j] = jobs[j]
             \/ /\ jobs[j] = Absent /\ jobs'[j].status = "pending"
                /\ jobs'[j].kind = "incident" =>
                     \A i \in JobIds \ {j} : jobs'[i] = jobs[i] /\ ~HoldsDelivery(i, jobs'[j].key)
  <2>1. CASE UNCHANGED jobs
    BY <2>1
  <2>2. ASSUME NEW n \in JobIds, IsNextId(n), \A i \in JobIds : ~HoldsDelivery(i, d),
               jobs' = [jobs EXCEPT ![n] = Row("incident", d, "pending")]
        PROVE  \/ jobs'[j] = jobs[j]
               \/ /\ jobs[j] = Absent /\ jobs'[j].status = "pending"
                  /\ \A i \in JobIds \ {j} : jobs'[i] = jobs[i] /\ ~HoldsDelivery(i, jobs'[j].key)
    BY <1>0, <2>2 DEF IsNextId, Row
  <2> QED
    BY <1>4, <2>1, <2>2 DEF Submit, EnqueueIncident, storeVars
<1>5. ASSUME NEW p \in JobIds, Approve(p)
      PROVE  \/ jobs'[j] = jobs[j]
             \/ jobs[j] = Absent /\ jobs'[j].status = "pending" /\ jobs'[j].kind # "incident"
  BY <1>0, <1>5 DEF Approve, ApproveCommit, SaveDecisionAndContinuation, IsNextId, Row
<1> QED
  BY <1>1, <1>2, <1>3, <1>4, <1>5, JobChanges

LEMMA OneLiveJobStep == IInv /\ OneLiveJobPerDelivery /\ [Next]_vars => OneLiveJobPerDelivery'
<1> DEFINE Live == {"pending", "running", "completed"}
<1> SUFFICES ASSUME IInv, OneLiveJobPerDelivery, [Next]_vars,
                    NEW i \in JobIds, NEW j \in JobIds,
                    jobs'[i].kind = "incident", jobs'[j].kind = "incident",
                    jobs'[i].status \in Live, jobs'[j].status \in Live,
                    jobs'[i].key = jobs'[j].key
             PROVE  i = j
  BY DEF OneLiveJobPerDelivery, IsIncident
<1>1. ASSUME NEW m \in JobIds, NEW n \in JobIds, m # n,
             jobs[m] = Absent, jobs'[m] # jobs[m],
             jobs'[m].kind = "incident", jobs'[n].kind = "incident",
             jobs'[n].status \in Live, jobs'[m].key = jobs'[n].key
      PROVE  FALSE
  <2>1. jobs'[n] = jobs[n] /\ ~HoldsDelivery(n, jobs'[m].key)
    BY <1>1, JobMoves DEF Absent, SameJob
  <2> QED
    BY <1>1, <2>1 DEF HoldsDelivery, IsIncident
<1>2. ASSUME NEW m \in JobIds, jobs[m] # Absent \/ jobs'[m] = jobs[m],
             jobs'[m].kind = "incident", jobs'[m].status \in Live
      PROVE  IsIncident(m) /\ jobs[m].status \in Live /\ jobs[m].key = jobs'[m].key
  BY <1>2, JobMoves DEF SameJob, Ended, IsIncident
<1> QED
  BY <1>1, <1>2 DEF OneLiveJobPerDelivery

\* The plan of the running continuation is moved by the worker only.
LEMMA OutcomeStep == IInv /\ OutcomeInv /\ [Next]_vars => OutcomeInv'
<1> SUFFICES ASSUME IInv, OutcomeInv, [Next]_vars PROVE OutcomeInv'
  OBVIOUS
<1> DEFINE Started == {"executing", "execfailed"} \cup Reporting
           Over == {"finishing", "failing"}
<1>1. /\ mem \in [JobIds -> PlanStatuses \cup {"none"}]
      /\ approvals \in [JobIds -> PlanStatuses \cup {"none"}]
      /\ faults \in Nat
  BY WorkerAssumption DEF IInv, TypeOK, StoreTypeOK, PlansTypeOK
<1>2. wpc \in ContinuationPoints => wplan \in JobIds /\ verdict[wplan] = "approved"
  BY ContinuationFacts
<1>3. wpc \in Over /\ jobs[wjob].kind = "remediation" =>
        wplan \in JobIds /\ verdict[wplan] = "approved"
  <2> SUFFICES ASSUME wpc \in Over, jobs[wjob].kind = "remediation"
               PROVE  wplan \in JobIds /\ verdict[wplan] = "approved"
    OBVIOUS
  <2>1. wjob \in JobIds
    BY DEF IInv, WorkerInv
  <2>2. wplan \in JobIds /\ IsContinuationOf(wjob, wplan)
    BY <2>1, RowFacts DEF IInv, TypeOK, wplan, IsContinuationOf
  <2> QED
    BY <2>1, <2>2 DEF IInv, PlanInv, HasContinuation
\* Steps at which the worker stays where it is and its plan as it was.
<1>4. ASSUME UNCHANGED <<wpc, wjob>>, faults' \in {faults, faults + 1},
             wpc \in Started \cup Over =>
               /\ jobs'[wjob].kind = jobs[wjob].kind /\ jobs'[wjob].key = jobs[wjob].key
               /\ wpc \in Started \/ jobs[wjob].kind = "remediation" =>
                    /\ approvals'[wplan] = approvals[wplan]
                    /\ mem'[wplan] \in {mem[wplan], "APPROVED"}
      PROVE  OutcomeInv'
  BY <1>1, <1>4 DEF OutcomeInv, wplan, Reporting
<1> DEFINE Late == wpc \in Started \/ (wpc \in Over /\ jobs[wjob].kind = "remediation")
<1>5. Late => wplan \in JobIds /\ verdict[wplan] = "approved"
  BY <1>2, <1>3 DEF ContinuationPoints, Reporting
<1>6. wpc \in Started \cup Over => wjob \in JobIds /\ jobs[wjob].status = "running"
  BY DEF IInv, WorkerInv, ContinuationPoints, Reporting, Holds
<1>7. CASE ClaimJob \/ FinishJob \/ FailJob \/ RecordStage \/ ProposePlan \/ ProposeUnsaved
           \/ NoteFailure \/ Announce \/ Crash \/ StartExecutor
  <2>1. wpc' \notin Started \cup Over \/ StartExecutor
    BY <1>7 DEF ClaimJob, FinishJob, FailJob, RecordStage, ProposePlan, ProposeUnsaved, NoteFailure,
       Announce, Crash, WorkerAt, Goto, GoIdle, Reporting, workerVars
  <2>2. CASE StartExecutor
    BY <2>2 DEF StartExecutor, WorkerAt, Goto, storeVars, planVars, IInv, WorkerInv, OutcomeInv,
       Reporting, wplan
  <2> QED
    BY <2>1, <2>2 DEF OutcomeInv
<1>8. CASE RecordFinal \/ WorkflowRaises
  BY <1>8 DEF RecordFinal, WorkflowRaises, WorkerAt, Goto, SaveSnapshot, storeVars, IInv, WorkerInv,
     Holds, OutcomeInv, Reporting
<1>9. CASE BeginRemediation
  <2>1. wpc = "continuing" /\ mem[wplan] = "APPROVED"
    BY <1>9, <1>2, MaxJobsAssumption DEF BeginRemediation, WorkerAt, IInv, WorkerInv, Ready,
       LockFree,
       JobIds, ContinuationPoints
  <2>2. wpc' = "announcing"
    BY <1>9, <2>1 DEF BeginRemediation, Goto
  <2> QED
    BY <2>2 DEF OutcomeInv, Reporting
<1>10. CASE NoExecutor \/ ExecutorReturns \/ RecordExecutionFailed
  <2>1. /\ wpc \in ContinuationPoints /\ wpc' \in Reporting /\ UNCHANGED <<jobs, wjob, faults>>
        /\ \E s \in Settled : mem' = [mem EXCEPT ![wplan] = s] /\ approvals' = [approvals EXCEPT ![wplan] = s]
    BY <1>10 DEF NoExecutor, ExecutorReturns, RecordExecutionFailed, WorkerAt, Goto, SetPlan,
       SaveApproval, Settled, Outcomes, ContinuationPoints, Reporting
  <2>2. wplan' = wplan
    BY <2>1 DEF wplan
  <2> QED
    BY <1>1, <1>2, <2>1, <2>2 DEF OutcomeInv, Reporting
<1>11. CASE ExecutorRaises \/ Report \/ ReportFailure
  BY <1>11 DEF ExecutorRaises, Report, ReportFailure, WorkerAt, Goto, SaveSnapshot, storeVars,
     planVars, OutcomeInv, Reporting, wplan
<1>12. CASE StoreRaises
  <2>1. /\ UNCHANGED <<jobs, approvals, mem>> /\ faults' = faults + 1
        /\ wpc' = "execfailed" => wpc = "reporting" /\ wjob' = wjob
        /\ wpc' \notin Reporting \cup {"executing"}
    BY <1>12 DEF StoreRaises, WorkerAt, RaisedAt, Raise, Goto, GoIdle, storeVars, planVars,
       Reporting
  <2> QED
    BY <1>1, <2>1 DEF OutcomeInv, wplan, Reporting
<1>13. CASE OutcomeUnsaved
  <2>1. /\ UNCHANGED <<jobs, wjob>> /\ faults' = faults + 1
        /\ wpc \in ContinuationPoints /\ wpc' \in {"execfailed", "failing"}
        /\ \E s \in Settled : mem' = [mem EXCEPT ![wplan] = s]
    BY <1>13 DEF OutcomeUnsaved, Raise, WorkerAt, Goto, SetPlanUnsaved, storeVars, Settled,
       Outcomes,
       ContinuationPoints
  <2> QED
    BY <1>1, <1>2, <2>1 DEF OutcomeInv, wplan, Reporting
<1>14. ASSUME NEW d \in Deliveries, Submit(d)  PROVE OutcomeInv'
  <2>1. UNCHANGED <<wpc, wjob, approvals, mem, faults>>
    BY <1>14 DEF Submit, Serving, EnqueueIncident, storeVars, planVars
  <2>2. wpc \in Started \cup Over => SameJob(wjob)
    BY <1>6, JobMoves DEF SameJob, Absent
  <2> QED
    BY <1>4, <2>1, <2>2 DEF SameJob
<1>15. ASSUME NEW p \in JobIds, Approve(p) \/ Reject(p)  PROVE OutcomeInv'
  <2>1. /\ UNCHANGED <<wpc, wjob, faults>> /\ LockFree /\ mem[p] = "WAITING_FOR_APPROVAL"
        /\ \A q \in JobIds \ {p} : mem'[q] = mem[q] /\ approvals'[q] = approvals[q]
    BY <1>1, <1>15 DEF Approve, Reject, Serving, ApproveCommit, RejectPlan,
       SaveDecisionAndContinuation,
       SaveApproval
  <2>2. Late => wplan # p
    BY <1>5, <2>1, WaitingIsUndecided
  <2>3. wpc \in Started \cup Over => SameJob(wjob)
    BY <1>6, JobMoves DEF SameJob, Absent
  <2> QED
    BY <1>4, <1>5, <2>1, <2>2, <2>3 DEF SameJob
<1>16. ASSUME NEW p \in JobIds, RejectFails(p)  PROVE OutcomeInv'
  <2>1. /\ UNCHANGED <<wpc, wjob, jobs, approvals>> /\ faults' = faults + 1
        /\ LockFree /\ mem[p] = "WAITING_FOR_APPROVAL"
        /\ \A q \in JobIds \ {p} : mem'[q] = mem[q]
    BY <1>1, <1>16 DEF RejectFails, Serving, RejectUnsaved, SetPlanUnsaved, Raise, storeVars
  <2>2. Late => wplan # p
    BY <1>5, <2>1, WaitingIsUndecided
  <2> QED
    BY <1>4, <1>5, <2>1, <2>2
<1>17. ASSUME NEW p \in JobIds, RequestStep(p) \/ DecisionRaises(p)  PROVE OutcomeInv'
  <2>1. /\ UNCHANGED <<wpc, wjob, jobs, approvals>> /\ faults' \in {faults, faults + 1}
        /\ \A q \in JobIds : mem'[q] \in {mem[q], "APPROVED"}
    BY <1>1, <1>17 DEF RequestStep, DecisionRaises, ApproveReturns, ApproveInstall, DecisionRead,
       DecisionWrite, Serving, SaveSnapshot, Raise, storeVars, planVars
  <2> QED
    BY <1>4, <1>5, <2>1
<1>18. CASE Startup
  <2>1. wpc' = "idle"
    BY <1>18 DEF Startup, workerVars, IInv, WorkerInv
  <2> QED
    BY <2>1 DEF OutcomeInv, Reporting
<1>19. CASE UNCHANGED vars
  BY <1>19 DEF vars, OutcomeInv, wplan
<1> QED
  BY <1>7, <1>8, <1>9, <1>10, <1>11, <1>12, <1>13, <1>14, <1>15, <1>16, <1>17, <1>18, <1>19
     DEF Next, WorkerStep, WorkerFault

\* Only an approval makes a stored plan approved.
LEMMA ApprovedNow ==
  ASSUME IInv, [Next]_vars, NEW p \in JobIds, approvals'[p] = "APPROVED", approvals[p] # "APPROVED"
  PROVE  Approve(p)
<1>1. approvals \in [JobIds -> PlanStatuses \cup {"none"}]
  BY DEF IInv, TypeOK, StoreTypeOK
<1>2. ~UNCHANGED approvals
  OBVIOUS
<1>3. ~WorkerStep
  <2>1. ~BeginRemediation
    BY <1>1 DEF BeginRemediation, WorkerAt, IInv, WorkerInv, Ready, SetPlan, SaveApproval, storeVars
  <2>2. ~(ProposePlan \/ NoExecutor \/ ExecutorReturns \/ RecordExecutionFailed)
    BY <1>1 DEF ProposePlan, NoExecutor, ExecutorReturns, RecordExecutionFailed, SetPlan,
       SaveApproval,
       Outcomes
  <2> QED
    BY <1>2, <2>1, <2>2 DEF WorkerStep, ClaimJob, Claim, RecordStage, RecordFinal, WorkflowRaises,
       FinishJob, FailJob, Finish, NoteFailure, Announce, StartExecutor, ExecutorRaises, Report,
       ReportFailure, SaveSnapshot, storeVars
<1>4. ~WorkerFault
  BY <1>2 DEF WorkerFault, ProposeUnsaved, StoreRaises, OutcomeUnsaved, SetPlanUnsaved, storeVars
<1>5. ASSUME NEW d \in Deliveries  PROVE ~Submit(d)
  BY <1>2 DEF Submit, EnqueueIncident, storeVars
<1>6. ASSUME NEW q \in JobIds
      PROVE  /\ Approve(q) => q = p
             /\ ~(Reject(q) \/ RejectFails(q) \/ RequestStep(q) \/ DecisionRaises(q))
  BY <1>1, <1>2 DEF Approve, ApproveCommit, SaveDecisionAndContinuation, Reject, RejectPlan,
     RejectFails,
     RejectUnsaved, SetPlanUnsaved, SaveApproval, RequestStep, ApproveReturns, ApproveInstall,
     DecisionRead, DecisionWrite, DecisionRaises, SaveSnapshot, storeVars
<1>7. ~Crash
  BY <1>2 DEF Crash, storeVars
<1>8. ~Startup
  BY DEF Startup, Recover
<1>9. ~UNCHANGED vars
  BY <1>2 DEF vars
<1> QED
  BY <1>3, <1>4, <1>5, <1>6, <1>7, <1>8, <1>9 DEF Next

LEMMA FaultsGrow ==
  ASSUME IInv, [Next]_vars
  PROVE  /\ faults' \in {faults, faults + 1} /\ crashes' \in {crashes, crashes + 1}
         /\ faults \in Nat /\ crashes \in Nat
<1>1. faults \in Nat /\ crashes \in Nat
  BY WorkerAssumption DEF IInv, TypeOK
<1>2. CASE WorkerStep
  BY <1>1, <1>2 DEF WorkerStep, ClaimJob, RecordStage, ProposePlan, RecordFinal, WorkflowRaises,
     FinishJob,
     FailJob, NoteFailure, BeginRemediation, Announce, NoExecutor, StartExecutor, ExecutorReturns,
     ExecutorRaises, RecordExecutionFailed, Report, ReportFailure, WorkerAt
<1>3. CASE WorkerFault
  BY <1>1, <1>3 DEF WorkerFault, ProposeUnsaved, StoreRaises, OutcomeUnsaved, WorkerAt, Raise
<1>4. ASSUME NEW d \in Deliveries, Submit(d)  PROVE UNCHANGED <<faults, crashes>>
  BY <1>4 DEF Submit, Serving
<1>5. ASSUME NEW p \in JobIds,
             Approve(p) \/ Reject(p) \/ RejectFails(p) \/ RequestStep(p) \/ DecisionRaises(p)
      PROVE  faults' \in {faults, faults + 1} /\ crashes' = crashes
  BY <1>5 DEF Approve, Reject, RejectFails, RequestStep, ApproveReturns, DecisionRead,
     DecisionWrite,
     DecisionRaises, Serving, Raise
<1>6. CASE Crash \/ Startup
  BY <1>1, <1>6 DEF Crash, Startup
<1>7. CASE UNCHANGED vars
  BY <1>1, <1>7 DEF vars
<1> QED
  BY <1>1, <1>2, <1>3, <1>4, <1>5, <1>6, <1>7 DEF Next

LEMMA ApprovedHasContinuationStep ==
  IInv /\ OutcomeInv /\ ApprovedHasContinuation /\ [Next]_vars => ApprovedHasContinuation'
<1> SUFFICES ASSUME IInv, OutcomeInv, ApprovedHasContinuation, [Next]_vars, faults' = 0,
                    NEW p \in JobIds, approvals'[p] = "APPROVED"
             PROVE  \E j \in JobIds : /\ jobs'[j].kind = "remediation" /\ jobs'[j].key = p
                                      /\ jobs'[j].status \in {"pending", "running"}
  BY DEF ApprovedHasContinuation, IsContinuationOf
<1>1. faults = 0
  BY FaultsGrow
<1>2. CASE approvals[p] = "APPROVED"
  <2>1. PICK j \in JobIds : IsContinuationOf(j, p) /\ jobs[j].status \in {"pending", "running"}
    BY <1>1, <1>2 DEF ApprovedHasContinuation
  <2>2. ASSUME jobs[j].status = "running", jobs'[j].status \in Ended  PROVE FALSE
    <3>1. CASE FinishJob \/ FailJob
      <4>1. wpc \in {"finishing", "failing"} /\ j = wjob
        BY <2>2, <3>1 DEF FinishJob, FailJob, WorkerAt, Finish, Ended, IInv, TypeOK, StoreTypeOK
      <4>2. wplan = p /\ approvals[wplan] \in Settled
        BY <1>1, <2>1, <4>1 DEF OutcomeInv, IsContinuationOf, wplan
      <4> QED
        BY <1>2, <4>2 DEF Settled, Outcomes
    <3>2. CASE Startup
      BY <1>2, <2>1, <2>2, <3>2 DEF Startup, Recover, StoppedPlans, Stopped
    <3>3. CASE ClaimJob
      BY <2>2, <3>3 DEF ClaimJob, Claim, Ended, IInv, TypeOK, StoreTypeOK
    <3>4. ASSUME NEW d \in Deliveries, Submit(d)  PROVE jobs'[j] = jobs[j]
      BY <2>2, <3>4 DEF Submit, EnqueueIncident, IsNextId, Absent, storeVars,
         IInv, TypeOK, StoreTypeOK
    <3>5. ASSUME NEW q \in JobIds, Approve(q)  PROVE jobs'[j] = jobs[j]
      BY <2>2, <3>5 DEF Approve, ApproveCommit, SaveDecisionAndContinuation, IsNextId, Absent,
         IInv, TypeOK, StoreTypeOK
    <3> QED
      BY <2>2, <3>1, <3>2, <3>3, <3>4, <3>5, JobChanges DEF Ended
  <2> QED
    BY <2>1, <2>2, JobMoves DEF SameJob, IsContinuationOf, Absent
<1>3. CASE approvals[p] # "APPROVED"
  <2>1. Approve(p)
    BY <1>3, ApprovedNow
  <2>2. PICK n \in JobIds : jobs' = [jobs EXCEPT ![n] = Row("remediation", p, "pending")]
    BY <2>1 DEF Approve, ApproveCommit, SaveDecisionAndContinuation
  <2> QED
    BY <2>2 DEF IInv, TypeOK, StoreTypeOK, Row
<1> QED
  BY <1>2, <1>3

\* A snapshot goes back to a stage only while its job runs.
LEMMA SnapshotMoves ==
  ASSUME IInv, OutcomeInv, [Next]_vars, NEW j \in JobIds
  PROVE  \/ snapshots'[j] = snapshots[j]
         \/ snapshots'[j] \in {"completed", "failed"} \cup PlanStatuses
         \/ jobs[j].status = "running" /\ RecordStage
         \/ jobs[j] = Absent
<1>0. snapshots \in [JobIds -> SnapshotStatuses \cup {"none"}] /\ upd \in [JobIds -> {"idle", "decided"} \cup PlanStatuses]
  BY DEF IInv, TypeOK, StoreTypeOK
<1>1. CASE RecordStage
  BY <1>0, <1>1 DEF RecordStage, WorkerAt, SaveSnapshot, IInv, WorkerInv, Holds
<1>2. CASE RecordFinal \/ NoteFailure
  BY <1>0, <1>2 DEF RecordFinal, NoteFailure, SaveSnapshot
<1>3. CASE Announce \/ Report \/ ReportFailure
  <2>1. mem[wplan] \in PlanStatuses
    BY <1>3 DEF Announce, Report, ReportFailure, WorkerAt, IInv, WorkerInv, OutcomeInv, Reporting,
       Settled, Outcomes, PlanStatuses
  <2> QED
    BY <1>0, <1>3, <2>1 DEF Announce, Report, ReportFailure, SaveSnapshot
<1>4. CASE ClaimJob \/ ProposePlan \/ WorkflowRaises \/ FinishJob \/ FailJob \/ BeginRemediation
           \/ NoExecutor \/ StartExecutor \/ ExecutorReturns \/ ExecutorRaises \/ RecordExecutionFailed
  BY <1>4 DEF ClaimJob, Claim, ProposePlan, WorkflowRaises, FinishJob, FailJob, Finish,
     BeginRemediation, NoExecutor, StartExecutor, ExecutorReturns, ExecutorRaises,
     RecordExecutionFailed, SetPlan, SaveApproval, storeVars
<1>5. CASE WorkerFault
  BY <1>5 DEF WorkerFault, ProposeUnsaved, StoreRaises, OutcomeUnsaved, SetPlanUnsaved, storeVars
<1>6. ASSUME NEW d \in Deliveries, Submit(d)
      PROVE  snapshots'[j] = snapshots[j] \/ jobs[j] = Absent
  BY <1>0, <1>6 DEF Submit, EnqueueIncident, IsNextId, storeVars
<1>7. ASSUME NEW p \in JobIds, Approve(p) \/ Reject(p) \/ RejectFails(p) \/ DecisionRaises(p)
      PROVE  UNCHANGED snapshots
  BY <1>7 DEF Approve, ApproveCommit, SaveDecisionAndContinuation, Reject, RejectPlan, SaveApproval,
     RejectFails, RejectUnsaved, SetPlanUnsaved, DecisionRaises, storeVars
<1>8. ASSUME NEW p \in JobIds, RequestStep(p)
      PROVE  snapshots'[j] = snapshots[j] \/ snapshots'[j] \in PlanStatuses
  BY <1>0, <1>8 DEF RequestStep, ApproveReturns, ApproveInstall, DecisionRead, DecisionWrite,
     SaveSnapshot, storeVars
<1>9. CASE Crash
  BY <1>9 DEF Crash, storeVars
<1>10. CASE Startup
  BY <1>10 DEF Startup, Recover
<1>11. CASE UNCHANGED vars
  BY <1>11 DEF vars
<1> QED
  BY <1>1, <1>2, <1>3, <1>4, <1>5, <1>6, <1>7, <1>8, <1>9, <1>10, <1>11 DEF Next, WorkerStep

LEMMA WorkerMoves ==
  ASSUME [Next]_vars
  PROVE  WorkerStep \/ WorkerFault \/ Crash \/ UNCHANGED <<wpc, wjob>>
BY DEF Next, Submit, Approve, Reject, RejectFails, RequestStep, ApproveReturns, DecisionRead,
   DecisionWrite, DecisionRaises, Serving, Startup, workerVars, vars

LEMMA ResultStep == IInv /\ OutcomeInv /\ ResultInv /\ [Next]_vars => ResultInv'
<1> SUFFICES ASSUME IInv, OutcomeInv, ResultInv, [Next]_vars,
                    wpc' = "finishing", jobs'[wjob'].kind = "incident"
             PROVE  snapshots'[wjob'] \notin {"none", "pending", "in_progress"}
  BY DEF ResultInv, IsIncident
<1>1. CASE UNCHANGED <<wpc, wjob>>
  <2>1. wpc = "finishing" /\ wjob' = wjob /\ wjob \in JobIds /\ jobs[wjob].status = "running"
    BY <1>1 DEF IInv, WorkerInv
  <2>2. IsIncident(wjob)
    BY <2>1, JobMoves DEF SameJob, Absent, IsIncident
  <2>3. ~RecordStage
    BY <2>1 DEF RecordStage, WorkerAt
  <2> QED
    BY <2>1, <2>2, <2>3, SnapshotMoves DEF ResultInv, PlanStatuses, Absent
<1>2. CASE RecordFinal
  BY <1>2 DEF RecordFinal, SaveSnapshot, WorkerAt, IInv, TypeOK, StoreTypeOK, WorkerInv
<1>3. ~Report
  BY DEF Report, WorkerAt, SaveSnapshot, IInv, WorkerInv, ContinuationPoints, Holds
<1>4. CASE (WorkerStep /\ ~RecordFinal) \/ WorkerFault \/ Crash
  <2>1. ~WorkerFault
    <3>1. ~StoreRaises
      <4>1. \A q \in DOMAIN RaisedAt : RaisedAt[q] \in {"execfailed", "idle", "failing"}
        BY DEF RaisedAt
      <4> QED
        BY <4>1 DEF StoreRaises, WorkerAt, Goto, GoIdle
    <3> QED
      BY <3>1 DEF WorkerFault, ProposeUnsaved, OutcomeUnsaved, Goto
  <2>2. ~Crash
    BY DEF Crash, GoIdle
  <2>3. RecordStage
    BY <1>3, <1>4, <2>1, <2>2 DEF WorkerStep, ClaimJob, ProposePlan, WorkflowRaises, FinishJob,
       FailJob,
       NoteFailure, BeginRemediation, Announce, NoExecutor, StartExecutor, ExecutorReturns,
       ExecutorRaises, RecordExecutionFailed, ReportFailure, Goto, GoIdle
  <2> QED
    BY <2>3 DEF RecordStage, WorkerAt, workerVars
<1> QED
  BY <1>1, <1>2, <1>4, WorkerMoves

LEMMA CompletedJobStep ==
  IInv /\ OutcomeInv /\ ResultInv /\ CompletedJobIsShown /\ [Next]_vars => CompletedJobIsShown'
<1> SUFFICES ASSUME IInv, OutcomeInv, ResultInv, CompletedJobIsShown, [Next]_vars,
                    NEW j \in JobIds, jobs'[j].kind = "incident", jobs'[j].status = "completed"
             PROVE  snapshots'[j] \notin {"none", "pending", "in_progress"}
  BY DEF CompletedJobIsShown, IsIncident
<1>1. CASE jobs'[j] = jobs[j]
  BY <1>1, SnapshotMoves DEF CompletedJobIsShown, IsIncident, PlanStatuses, Absent
<1>2. CASE jobs'[j] # jobs[j]
  <2>1. jobs[j].status = "running" /\ jobs[j].kind = "incident"
    BY <1>2, JobMoves DEF SameJob
  <2>2. FinishJob /\ wpc = "finishing" /\ j = wjob
    <3>0. \A r \in Rows, t \in JobStatuses : [r EXCEPT !.status = t].status = t
      BY DEF Rows, Absent
    <3>1. CASE FinishJob \/ FailJob
      <4>1. PICK s \in {"completed", "failed"} :
              /\ jobs' = [jobs EXCEPT ![wjob].status = s]
              /\ FailJob => s = "failed"
        BY <3>1 DEF FinishJob, FailJob, Finish, IInv, TypeOK
      <4>2. j = wjob /\ jobs'[j].status = s
        BY <1>2, <3>0, <4>1 DEF IInv, TypeOK, StoreTypeOK, JobStatuses
      <4> QED
        BY <3>1, <4>1, <4>2 DEF FinishJob, WorkerAt
    <3>2. CASE Startup
      BY <1>2, <3>2 DEF Startup, Recover, Stopped, IInv, TypeOK, StoreTypeOK, Rows, Absent
    <3>3. CASE ClaimJob
      BY <1>2, <2>1, <3>3 DEF ClaimJob, Claim, IInv, TypeOK, StoreTypeOK
    <3>4. ASSUME NEW d \in Deliveries, Submit(d)  PROVE FALSE
      BY <1>2, <2>1, <3>4 DEF Submit, EnqueueIncident, IsNextId, Absent, storeVars, IInv, TypeOK,
         StoreTypeOK
    <3>5. ASSUME NEW q \in JobIds, Approve(q)  PROVE FALSE
      BY <1>2, <2>1, <3>5 DEF Approve, ApproveCommit, SaveDecisionAndContinuation, IsNextId, Absent,
         IInv, TypeOK, StoreTypeOK
    <3> QED
      BY <1>2, <3>1, <3>2, <3>3, <3>4, <3>5, JobChanges
  <2> QED
    BY <2>1, <2>2 DEF ResultInv, IsIncident, FinishJob, Finish
<1> QED
  BY <1>1, <1>2

LEMMA EndedStep == IInv /\ OutcomeInv /\ ResultInv /\ EndedInv /\ [Next]_vars => EndedInv'
<1> SUFFICES ASSUME IInv, OutcomeInv, ResultInv, EndedInv, [Next]_vars,
                    faults' = 0, crashes' = 0,
                    NEW j \in JobIds, jobs'[j].kind = "incident", jobs'[j].status \in Ended,
                    ~(wpc' = "noting" /\ wjob' = j)
             PROVE  snapshots'[j] \notin {"pending", "in_progress"}
  BY DEF EndedInv, IsIncident
<1>1. faults = 0 /\ crashes = 0
  BY FaultsGrow
<1>2. CASE jobs'[j] = jobs[j]
  <2>1. CASE wpc = "noting" /\ wjob = j
    <3>1. ~Crash /\ ~WorkerFault
      BY <1>1 DEF Crash, WorkerFault, ProposeUnsaved, StoreRaises, OutcomeUnsaved, Raise
    <3>2. WorkerStep
      BY <2>1, <3>1, WorkerMoves
    <3>3. NoteFailure
      BY <2>1, <3>2 DEF WorkerStep, ClaimJob, RecordStage, ProposePlan, RecordFinal, WorkflowRaises,
         FinishJob, FailJob, BeginRemediation, Announce, NoExecutor, StartExecutor, ExecutorReturns,
         ExecutorRaises, RecordExecutionFailed, Report, ReportFailure, WorkerAt
    <3> QED
      BY <2>1, <3>3 DEF NoteFailure, SaveSnapshot, IInv, TypeOK, StoreTypeOK
  <2>2. CASE ~(wpc = "noting" /\ wjob = j)
    BY <1>1, <1>2, <2>2, SnapshotMoves DEF EndedInv, IsIncident, PlanStatuses, Absent, Ended
  <2> QED
    BY <2>1, <2>2
<1>3. CASE jobs'[j] # jobs[j]
  <2>1. jobs[j].status = "running" /\ jobs[j].kind = "incident"
    BY <1>3, JobMoves DEF SameJob, Ended
  <2>2. CASE FinishJob
    <3>1. wpc = "finishing" /\ j = wjob /\ UNCHANGED snapshots
      BY <1>3, <2>2 DEF FinishJob, WorkerAt, Finish, IInv, TypeOK, StoreTypeOK
    <3> QED
      BY <2>1, <3>1 DEF ResultInv, IsIncident
  <2>3. CASE FailJob
    BY <1>3, <2>1, <2>3 DEF FailJob, WorkerAt, Finish, Goto, IsIncident, IInv, TypeOK, StoreTypeOK
  <2>4. CASE Startup
    BY <2>1, <2>4 DEF Startup, Recover, Stopped, IsIncident
  <2>5. CASE ClaimJob
    BY <1>3, <2>1, <2>5 DEF ClaimJob, Claim, IInv, TypeOK, StoreTypeOK
  <2>6. ASSUME NEW d \in Deliveries, Submit(d)  PROVE FALSE
    BY <1>3, <2>1, <2>6 DEF Submit, EnqueueIncident, IsNextId, Absent, storeVars, IInv, TypeOK,
       StoreTypeOK
  <2>7. ASSUME NEW q \in JobIds, Approve(q)  PROVE FALSE
    BY <1>3, <2>1, <2>7 DEF Approve, ApproveCommit, SaveDecisionAndContinuation, IsNextId, Absent,
       IInv, TypeOK, StoreTypeOK
  <2> QED
    BY <1>3, <2>2, <2>3, <2>4, <2>5, <2>6, <2>7, JobChanges
<1> QED
  BY <1>2, <1>3

LEMMA ShownInit == Init => ShownInv
BY DEF Init, StoreInit, PlansInit, ShownInv, OneLiveJobPerDelivery, OutcomeInv,
   ApprovedHasContinuation,
   ResultInv, CompletedJobIsShown, EndedInv, IsIncident, Absent, Reporting

\* With IInv, what is shown is inductive too.
THEOREM ShownInvariant == Spec => []ShownInv
<1>1. IInv /\ ShownInv /\ [Next]_vars => ShownInv'
  BY OneLiveJobStep, OutcomeStep, ApprovedHasContinuationStep, ResultStep, CompletedJobStep,
     EndedStep
     DEF ShownInv
<1> QED
  BY <1>1, ShownInit, InductiveInvariant, PTL DEF Spec

-----------------------------------------------------------------------------
(* The properties.                                                          *)

\* Every variable keeps its type.
THEOREM TypeCorrect == Spec => []TypeOK
<1>1. IInv => TypeOK
  BY DEF IInv
<1> QED
  BY <1>1, InductiveInvariant, PTL

\* A plan never has two continuations in the jobs table.
THEOREM OneContinuationHolds == Spec => []OneContinuation
<1>1. IInv => OneContinuation
  BY DEF IInv
<1> QED
  BY <1>1, InductiveInvariant, PTL

\* Neither a restart nor another thread takes a stored decision back.
THEOREM DecisionIsDurableHolds == Spec => []DecisionIsDurable
<1>1. IInv => DecisionIsDurable
  BY DEF IInv, PlanInv, DecisionIsDurable
<1> QED
  BY <1>1, InductiveInvariant, PTL

\* An executor runs only for a plan whose approval was stored.
THEOREM ExecutedOnlyIfApprovedHolds == Spec => []ExecutedOnlyIfApproved
<1>1. IInv => ExecutedOnlyIfApproved
  BY DEF IInv, PlanInv, ExecutedOnlyIfApproved
<1> QED
  BY <1>1, InductiveInvariant, PTL

\* No sequence of crashes, restarts and failing writes makes an executor run
\* twice for one plan.
THEOREM AtMostOneExecutionHolds == Spec => []AtMostOneExecution
<1>1. IInv => AtMostOneExecution
  BY DEF IInv, PlanInv, AtMostOneExecution
<1> QED
  BY <1>1, InductiveInvariant, PTL

\* A claimed continuation finds its plan approved in memory.
THEOREM ContinuationFindsApprovedPlanHolds == Spec => []ContinuationFindsApprovedPlan
<1>1. IInv => ContinuationFindsApprovedPlan
  <2> SUFFICES ASSUME IInv, wpc = "continuing", LockFree  PROVE mem[wplan] = "APPROVED"
    BY DEF ContinuationFindsApprovedPlan
  <2>1. wplan \in JobIds
    BY ContinuationFacts DEF ContinuationPoints
  <2> QED
    BY <2>1, MaxJobsAssumption DEF IInv, WorkerInv, Ready, LockFree, JobIds
<1> QED
  BY <1>1, InductiveInvariant, PTL

\* The step that starts an executor finds the plan approved in both places.
THEOREM ExecutionStartsApprovedHolds == Spec => ExecutionStartsApproved
<1>1. ASSUME IInv, [Next]_vars, NEW p \in JobIds, effects'[p] # effects[p]
      PROVE  approvals[p] = "APPROVED" /\ mem[p] = "APPROVED"
  <2>1. StartExecutor
    BY <1>1 DEF Next, vars, WorkerStep, WorkerFault, RequestStep, ClaimJob, RecordStage,
       ProposePlan,
       RecordFinal, WorkflowRaises, FinishJob, FailJob, NoteFailure, BeginRemediation, Announce,
       NoExecutor, ExecutorReturns, ExecutorRaises, RecordExecutionFailed, Report, ReportFailure,
       ProposeUnsaved, StoreRaises, OutcomeUnsaved, Submit, Approve, Reject, RejectFails,
       ApproveReturns, DecisionRead, DecisionWrite, DecisionRaises, Serving, Crash, Startup
  <2>2. wpc = "dispatching" /\ effects' = [effects EXCEPT ![wplan] = @ + 1]
    BY <2>1 DEF StartExecutor, WorkerAt
  <2>3. p = wplan
    BY <1>1, <2>2 DEF IInv, TypeOK
  <2> QED
    BY <1>1, <2>2, <2>3 DEF IInv, WorkerInv
<1>2. IInv /\ [Next]_vars =>
        [\A p \in JobIds : effects'[p] # effects[p] =>
           approvals[p] = "APPROVED" /\ mem[p] = "APPROVED"]_vars
  BY <1>1
<1> QED
  BY <1>2, InductiveInvariant, PTL DEF Spec, ExecutionStartsApproved

\* Redeliveries and resubmissions never make two jobs of one delivery that
\* are waiting, running or completed.
THEOREM OneLiveJobPerDeliveryHolds == Spec => []OneLiveJobPerDelivery
<1>1. ShownInv => OneLiveJobPerDelivery
  BY DEF ShownInv
<1> QED
  BY <1>1, ShownInvariant, PTL

\* While no write has failed, a stored approval has its continuation.
THEOREM ApprovedHasContinuationHolds == Spec => []ApprovedHasContinuation
<1>1. ShownInv => ApprovedHasContinuation
  BY DEF ShownInv
<1> QED
  BY <1>1, ShownInvariant, PTL

\* A completed incident has its result on the dashboard.
THEOREM CompletedJobIsShownHolds == Spec => []CompletedJobIsShown
<1>1. ShownInv => CompletedJobIsShown
  BY DEF ShownInv
<1> QED
  BY <1>1, ShownInvariant, PTL

\* Without crashes and failing writes, no ended incident is left at a stage.
THEOREM EndedJobIsShownHolds == Spec => []EndedJobIsShown
<1>1. ShownInv => EndedJobIsShown
  BY DEF ShownInv, EndedInv, Ended, EndedJobIsShown
<1> QED
  BY <1>1, ShownInvariant, PTL

\* A step that changes a stored plan finds no continuation of it that has ended:
\* there is none yet, or it is running.
LEMMA PlanChanges ==
  ASSUME IInv, [Next]_vars, NEW p \in JobIds, approvals'[p] # approvals[p],
         NEW j \in JobIds, IsContinuationOf(j, p)
  PROVE  jobs[j].status = "running"
<1>0. approvals \in [JobIds -> PlanStatuses \cup {"none"}]
  BY DEF IInv, TypeOK, StoreTypeOK
<1>1. ~UNCHANGED approvals
  OBVIOUS
<1>2. HasContinuation(p)
  BY DEF HasContinuation
<1>3. verdict[p] = "approved"
  BY <1>2 DEF IInv, PlanInv
<1>4. CASE BeginRemediation \/ NoExecutor \/ ExecutorReturns \/ RecordExecutionFailed
  <2>1. wpc \in ContinuationPoints
    BY <1>4 DEF BeginRemediation, NoExecutor, ExecutorReturns, RecordExecutionFailed, WorkerAt,
       ContinuationPoints
  <2>2. p = wplan
    BY <1>0, <1>1, <1>4 DEF BeginRemediation, NoExecutor, ExecutorReturns, RecordExecutionFailed,
       SetPlan, SaveApproval, storeVars
  <2> QED
    BY <2>1, <2>2, ContinuationFacts
<1>5. ~ProposePlan
  <2>1. ASSUME ProposePlan  PROVE wjob \in JobIds /\ mem[wjob] = "none" /\ approvals[wjob] = "none"
    BY <2>1 DEF ProposePlan, WorkerAt, IInv, WorkerInv
  <2>2. ASSUME ProposePlan  PROVE p = wjob
    BY <1>0, <2>2 DEF ProposePlan, SetPlan, SaveApproval
  <2> QED
    BY <1>3, <2>1, <2>2 DEF IInv, PlanInv, Settled, Outcomes
<1>6. ASSUME WorkerStep
      PROVE  BeginRemediation \/ NoExecutor \/ ExecutorReturns \/ RecordExecutionFailed
  BY <1>1, <1>5, <1>6 DEF WorkerStep, ClaimJob, Claim, RecordStage, RecordFinal, WorkflowRaises,
     FinishJob, FailJob, Finish, NoteFailure, Announce, StartExecutor, ExecutorRaises, Report,
     ReportFailure, SaveSnapshot, storeVars
<1>7. ~WorkerFault
  BY <1>1 DEF WorkerFault, ProposeUnsaved, StoreRaises, OutcomeUnsaved, SetPlanUnsaved, storeVars
<1>8. ASSUME NEW d \in Deliveries  PROVE ~Submit(d)
  BY <1>1 DEF Submit, EnqueueIncident, storeVars
<1>9. ASSUME NEW q \in JobIds, Approve(q) \/ Reject(q)  PROVE FALSE
  <2>1. q = p
    BY <1>0, <1>9 DEF Approve, ApproveCommit, SaveDecisionAndContinuation, Reject, RejectPlan,
       SaveApproval
  <2>2. LockFree /\ mem[q] = "WAITING_FOR_APPROVAL"
    BY <1>9 DEF Approve, ApproveCommit, Reject, RejectPlan
  <2> QED
    BY <1>2, <2>1, <2>2, WaitingIsUndecided
<1>10. ASSUME NEW q \in JobIds  PROVE ~(RejectFails(q) \/ RequestStep(q) \/ DecisionRaises(q))
  BY <1>1 DEF RejectFails, RejectUnsaved, SetPlanUnsaved, RequestStep, ApproveReturns,
     ApproveInstall,
     DecisionRead, DecisionWrite, DecisionRaises, SaveSnapshot, storeVars
<1>11. ~Crash /\ ~UNCHANGED vars
  BY <1>1 DEF Crash, vars, storeVars
<1>12. ASSUME Startup  PROVE jobs[j].status = "running"
  <2>1. p \in StoppedPlans
    BY <1>12 DEF Startup, Recover
  <2>2. PICK i \in JobIds : jobs[i].status = "running" /\ IsContinuationOf(i, p)
    BY <2>1 DEF StoppedPlans, Stopped
  <2> QED
    BY <2>2 DEF IInv, OneContinuation
<1> QED
  BY <1>4, <1>6, <1>7, <1>8, <1>9, <1>10, <1>11, <1>12 DEF Next

\* No step takes a job up again that has finished, or changes the outcome that
\* is stored for its plan.
THEOREM FinishedJobsStayHolds == Spec => FinishedJobsStay
<1>1. IInv /\ [Next]_vars =>
        [\A j \in JobIds : jobs[j].status \in {"completed", "failed", "interrupted"} =>
           /\ jobs'[j] = jobs[j]
           /\ \A p \in JobIds : IsContinuationOf(j, p) => approvals'[p] = approvals[p]]_vars
  BY JobMoves, PlanChanges DEF Absent
<1> QED
  BY <1>1, InductiveInvariant, PTL DEF Spec, FinishedJobsStay

-----------------------------------------------------------------------------
(* The store as the worker and the requests use it.                          *)

\* What the initial states and the steps of JobWorker are to the tables.
LEMMA StepUsesStore == IInv /\ OutcomeInv /\ [Next]_vars => [StoreNext]_storeVars
<1> SUFFICES ASSUME IInv, OutcomeInv, [Next]_vars PROVE StoreNext \/ UNCHANGED storeVars
  OBVIOUS
<1> DEFINE Saves == \E j \in JobIds, s \in SnapshotStatuses : SaveSnapshot(j, s)
           Plans == \E p \in JobIds, s \in PlanStatuses : SaveApproval(p, s)
<1>0. Saves \/ Plans => StoreNext
  BY DEF StoreNext
<1>1. CASE ClaimJob
  BY <1>1 DEF ClaimJob, StoreNext
<1>2. CASE RecordStage \/ RecordFinal \/ NoteFailure
  <2>1. wjob \in JobIds
    BY <1>2 DEF RecordStage, RecordFinal, NoteFailure, WorkerAt, IInv, WorkerInv
  <2>2. Saves
    BY <1>2, <2>1 DEF RecordStage, RecordFinal, NoteFailure, SnapshotStatuses
  <2> QED
    BY <1>0, <2>2
<1>3. CASE ProposePlan
  <2>1. wjob \in JobIds
    BY <1>3 DEF ProposePlan, WorkerAt, IInv, WorkerInv
  <2> QED
    BY <1>0, <1>3, <2>1 DEF ProposePlan, SetPlan, PlanStatuses
<1>4. CASE FinishJob \/ FailJob
  <2>1. wjob \in JobIds /\ jobs[wjob].status = "running"
    BY <1>4 DEF IInv, WorkerInv, FinishJob, FailJob, WorkerAt
  <2>2. \E s \in {"completed", "failed"} : Finish(wjob, s)
    BY <1>4 DEF FinishJob, FailJob, IInv, TypeOK
  <2> QED
    BY <2>1, <2>2 DEF StoreNext
<1>5. CASE BeginRemediation \/ NoExecutor \/ ExecutorReturns \/ RecordExecutionFailed
  <2>1. wpc \in ContinuationPoints
    BY <1>5 DEF BeginRemediation, NoExecutor, ExecutorReturns, RecordExecutionFailed, WorkerAt,
       ContinuationPoints
  <2>2. wplan \in JobIds
    BY <2>1, ContinuationFacts
  <2>3. Plans \/ UNCHANGED storeVars
    BY <1>5, <2>2 DEF BeginRemediation, NoExecutor, ExecutorReturns, RecordExecutionFailed, SetPlan,
       PlanStatuses, Outcomes
  <2> QED
    BY <1>0, <2>3
<1>6. CASE Announce \/ Report \/ ReportFailure
  <2>1. wpc \in ContinuationPoints
    BY <1>6 DEF Announce, Report, ReportFailure, WorkerAt, ContinuationPoints
  <2>2. wplan \in JobIds
    BY <2>1, ContinuationFacts
  <2>3. mem[wplan] \in {"APPROVED"} \cup Settled
    BY <1>6 DEF Announce, Report, ReportFailure, WorkerAt, IInv, WorkerInv, OutcomeInv, Reporting
  <2>4. mem[wplan] \in SnapshotStatuses
    BY <2>3 DEF Settled, Outcomes, SnapshotStatuses, PlanStatuses
  <2>5. SaveSnapshot(wplan, mem[wplan])
    BY <1>6 DEF Announce, Report, ReportFailure
  <2> QED
    BY <1>0, <2>2, <2>4, <2>5
<1>7. CASE WorkflowRaises \/ StartExecutor \/ ExecutorRaises \/ WorkerFault \/ Crash \/ UNCHANGED vars
  BY <1>7 DEF WorkflowRaises, StartExecutor, ExecutorRaises, WorkerFault, ProposeUnsaved,
     StoreRaises,
     OutcomeUnsaved, SetPlanUnsaved, Crash, vars, storeVars
<1>8. ASSUME NEW d \in Deliveries, Submit(d)  PROVE StoreNext
  BY <1>8 DEF Submit, StoreNext
<1>9. ASSUME NEW p \in JobIds, Approve(p) \/ Reject(p) \/ RejectFails(p)
      PROVE  StoreNext \/ UNCHANGED storeVars
  BY <1>0, <1>9 DEF Approve, ApproveCommit, Reject, RejectPlan, RejectFails, RejectUnsaved,
     SetPlanUnsaved,
     PlanStatuses, StoreNext
<1>10. ASSUME NEW p \in JobIds, RequestStep(p) \/ DecisionRaises(p)
       PROVE  StoreNext \/ UNCHANGED storeVars
  BY <1>0, <1>10 DEF RequestStep, ApproveReturns, ApproveInstall, DecisionRead, DecisionWrite,
     DecisionRaises,
     SnapshotStatuses
<1>11. CASE Startup
  BY <1>11 DEF Startup, StoreNext
<1> QED
  BY <1>1, <1>2, <1>3, <1>4, <1>5, <1>6, <1>7, <1>8, <1>9, <1>10, <1>11 DEF Next, WorkerStep

\* The worker and the requests call the store as JobStore takes it to be called
\* (a job is finished only while it runs): JobStore, which the interleaved
\* statements of JobStoreTxn implement, is what JobWorker runs on.
THEOREM UsesTheStore == Spec => StoreSpec
<1>1. Init => StoreInit
  BY DEF Init
<1>2. ShownInv => OutcomeInv
  BY DEF ShownInv
<1> QED
  BY <1>1, <1>2, StepUsesStore, InductiveInvariant, ShownInvariant, PTL DEF Spec, StoreSpec

-----------------------------------------------------------------------------
(* The contract about plans.                                                 *)

\* A step moves one plan from one of some phases to another, or none.
OneMoves(from, to) ==
  \E p \in JobIds : /\ PhaseOf(p) \in from /\ PhaseOf(p)' = to
                    /\ \A q \in JobIds \ {p} : PhaseOf(q)' = PhaseOf(q)

NoneMoves == \A p \in JobIds : PhaseOf(p)' = PhaseOf(p)

\* A process that does not run has nothing in memory.
DownInv == ~up => \A p \in JobIds : mem[p] = "none"

LEMMA DownStep ==
  ASSUME IInv, DownInv, [Next]_vars
  PROVE  DownInv'
<1>1. CASE up' \/ UNCHANGED <<up, mem>>
  BY <1>1 DEF DownInv
<1>2. CASE Crash
  BY <1>2 DEF Crash, DownInv
<1>3. up \/ wpc = "idle"
  BY DEF IInv, WorkerInv
<1>4. CASE WorkerStep \/ WorkerFault
  BY <1>1, <1>3, <1>4 DEF WorkerStep, WorkerFault, ClaimJob, RecordStage, ProposePlan, RecordFinal,
     WorkflowRaises, FinishJob, FailJob, NoteFailure, BeginRemediation, Announce, NoExecutor,
     StartExecutor, ExecutorReturns, ExecutorRaises, RecordExecutionFailed, Report, ReportFailure,
     ProposeUnsaved, StoreRaises, OutcomeUnsaved, WorkerAt, RaisedAt
<1>5. CASE \/ \E d \in Deliveries : Submit(d)
           \/ \E p \in JobIds : Approve(p) \/ Reject(p) \/ RejectFails(p)
           \/ \E p \in JobIds : RequestStep(p) \/ DecisionRaises(p)
  BY <1>1, <1>5 DEF Submit, Approve, Reject, RejectFails, RequestStep, ApproveReturns, DecisionRead,
     DecisionWrite, DecisionRaises, Serving
<1>6. CASE Startup
  BY <1>1, <1>6 DEF Startup
<1>7. CASE UNCHANGED vars
  BY <1>1, <1>7 DEF vars
<1> QED
  BY <1>2, <1>4, <1>5, <1>6, <1>7 DEF Next

\* Changes in memory of plans that are decided, or that stay proposed.
LEMMA QuietSteps ==
  ASSUME IInv, UNCHANGED <<approvals, verdict, effects>>,
         \A p \in JobIds : verdict[p] = "none" => (mem'[p] = "none" <=> mem[p] = "none")
  PROVE  NoneMoves
<1> SUFFICES ASSUME NEW p \in JobIds  PROVE PhaseOf(p)' = PhaseOf(p)
  BY DEF NoneMoves
<1>1. verdict[p] \in {"none", "approved", "rejected"}
  BY DEF IInv, TypeOK, PlansTypeOK
<1> QED
  BY <1>1 DEF PhaseOf

\* What the worker makes of the plan of its continuation settles it, or stores
\* again what is stored.
LEMMA ContinuationSettles ==
  ASSUME IInv, wpc \in ContinuationPoints, NEW s \in Settled, SetPlan(wplan, s), UNCHANGED effects
  PROVE  NoneMoves \/ OneMoves({"approved", "running"}, "settled")
<1>0. PICK p \in JobIds : p = wplan
  BY ContinuationFacts
<1>1. verdict[p] = "approved"
  BY <1>0, ContinuationFacts
<1>2. /\ verdict' = verdict /\ effects' = effects
      /\ mem' = [mem EXCEPT ![p] = s] /\ approvals' = [approvals EXCEPT ![p] = s]
  BY <1>0 DEF SetPlan, SaveApproval
<1>3. \A q \in JobIds \ {p} : PhaseOf(q)' = PhaseOf(q)
  BY <1>2 DEF PhaseOf, IInv, TypeOK, StoreTypeOK, PlansTypeOK
<1>4. PhaseOf(p)' = "settled"
  BY <1>1, <1>2 DEF PhaseOf, IInv, TypeOK, StoreTypeOK
<1>5. PhaseOf(p) \in {"settled", "approved", "running"}
  BY <1>1 DEF PhaseOf
<1> QED
  BY <1>1, <1>3, <1>4, <1>5 DEF NoneMoves, OneMoves

LEMMA ProposalMoves ==
  ASSUME IInv, ProposePlan \/ ProposeUnsaved
  PROVE  OneMoves({"none"}, "proposed")
<1> DEFINE w == "WAITING_FOR_APPROVAL"
<1>0. PICK p \in JobIds : p = wjob
  BY DEF IInv, WorkerInv, ProposePlan, ProposeUnsaved, WorkerAt
<1>1. /\ wpc = "workflow" /\ UNCHANGED <<verdict, effects>>
      /\ mem' = [mem EXCEPT ![p] = w]
      /\ approvals' = [approvals EXCEPT ![p] = w] \/ approvals' = approvals
  BY <1>0 DEF ProposePlan, ProposeUnsaved, WorkerAt, SetPlan, SetPlanUnsaved, SaveApproval,
     storeVars
<1>2. p \in JobIds /\ mem[p] = "none" /\ approvals[p] = "none"
  BY <1>0, <1>1 DEF IInv, WorkerInv
<1>3. verdict[p] = "none"
  BY <1>2 DEF IInv, TypeOK, PlansTypeOK, PlanInv, Settled, Outcomes
<1>4. \A q \in JobIds \ {p} : PhaseOf(q)' = PhaseOf(q)
  BY <1>1 DEF PhaseOf, IInv, TypeOK, StoreTypeOK, PlansTypeOK
<1>5. PhaseOf(p) = "none" /\ PhaseOf(p)' = "proposed"
  BY <1>1, <1>2, <1>3 DEF PhaseOf, IInv, TypeOK, StoreTypeOK, PlansTypeOK
<1> QED
  BY <1>2, <1>4, <1>5 DEF OneMoves

LEMMA DecisionMoves ==
  ASSUME IInv, NEW p \in JobIds, Approve(p) \/ Reject(p)
  PROVE  OneMoves({"proposed"}, "approved") \/ OneMoves({"proposed"}, "rejected")
<1>1. LockFree /\ mem[p] = "WAITING_FOR_APPROVAL" /\ UNCHANGED effects
  BY DEF Approve, Reject, ApproveCommit, RejectPlan, Serving
<1>2. verdict[p] = "none" /\ effects[p] = 0
  BY <1>1, WaitingIsUndecided
<1>3. PhaseOf(p) = "proposed"
  BY <1>1, <1>2 DEF PhaseOf
<1>4. CASE Approve(p)
  <2>1. /\ mem' = mem /\ verdict' = [verdict EXCEPT ![p] = "approved"]
        /\ approvals' = [approvals EXCEPT ![p] = "APPROVED"]
    BY <1>4 DEF Approve, ApproveCommit, SaveDecisionAndContinuation
  <2>2. \A q \in JobIds \ {p} : PhaseOf(q)' = PhaseOf(q)
    BY <1>1, <2>1 DEF PhaseOf, IInv, TypeOK, StoreTypeOK, PlansTypeOK
  <2>3. PhaseOf(p)' = "approved"
    BY <1>1, <1>2, <2>1 DEF PhaseOf, IInv, TypeOK, StoreTypeOK, PlansTypeOK, Settled, Outcomes
  <2> QED
    BY <1>3, <2>2, <2>3 DEF OneMoves
<1>5. CASE Reject(p)
  <2>1. /\ mem' = [mem EXCEPT ![p] = "REJECTED"] /\ verdict' = [verdict EXCEPT ![p] = "rejected"]
        /\ approvals' = [approvals EXCEPT ![p] = "REJECTED"]
    BY <1>5 DEF Reject, RejectPlan, SaveApproval
  <2>2. \A q \in JobIds \ {p} : PhaseOf(q)' = PhaseOf(q)
    BY <1>1, <2>1 DEF PhaseOf, IInv, TypeOK, StoreTypeOK, PlansTypeOK
  <2>3. PhaseOf(p)' = "rejected"
    BY <2>1 DEF PhaseOf, IInv, TypeOK, StoreTypeOK, PlansTypeOK
  <2> QED
    BY <1>3, <2>2, <2>3 DEF OneMoves
<1> QED
  BY <1>4, <1>5

LEMMA StartMoves ==
  ASSUME IInv, StartExecutor
  PROVE  OneMoves({"approved"}, "running")
<1>0. PICK p \in JobIds : p = wplan
  BY ContinuationFacts DEF StartExecutor, WorkerAt, ContinuationPoints
<1>1. /\ wpc = "dispatching" /\ UNCHANGED <<approvals, mem, verdict>>
      /\ effects' = [effects EXCEPT ![p] = @ + 1]
  BY <1>0 DEF StartExecutor, WorkerAt, storeVars, planVars
<1>2. p \in JobIds /\ verdict[p] = "approved"
  BY <1>0, <1>1, ContinuationFacts DEF ContinuationPoints
<1>3. effects[p] = 0 /\ approvals[p] = "APPROVED"
  BY <1>0, <1>1 DEF IInv, WorkerInv
<1>4. \A q \in JobIds \ {p} : PhaseOf(q)' = PhaseOf(q)
  BY <1>1 DEF PhaseOf, IInv, TypeOK
<1>5. effects'[p] = 1
  BY <1>1, <1>2, <1>3 DEF IInv, TypeOK
<1>6. PhaseOf(p) = "approved" /\ PhaseOf(p)' = "running"
  BY <1>1, <1>2, <1>3, <1>5 DEF PhaseOf, Settled, Outcomes
<1> QED
  BY <1>2, <1>4, <1>6 DEF OneMoves

\* A crash loses the proposals that are in memory only.
LEMMA CrashMoves ==
  ASSUME IInv, Crash, NEW p \in JobIds
  PROVE  PhaseOf(p)' = PhaseOf(p) \/ (PhaseOf(p) = "proposed" /\ PhaseOf(p)' = "none")
<1>1. UNCHANGED <<approvals, verdict, effects>> /\ mem'[p] = "none"
  BY DEF Crash, storeVars
<1>2. verdict[p] \in {"none", "approved", "rejected"}
  BY DEF IInv, TypeOK, PlansTypeOK
<1> QED
  BY <1>1, <1>2 DEF PhaseOf

\* A restart settles the plans whose continuations were running.
LEMMA StartupMoves ==
  ASSUME IInv, DownInv, Startup, NEW p \in JobIds
  PROVE  PhaseOf(p)' = PhaseOf(p) \/ (PhaseOf(p) \in {"approved", "running"} /\ PhaseOf(p)' = "settled")
<1>1. UNCHANGED <<verdict, effects>> /\ mem' = approvals'
      /\ approvals'[p] = IF p \in StoppedPlans THEN "EXECUTION_FAILED" ELSE approvals[p]
  BY DEF Startup, Recover
<1>2. verdict[p] \in {"none", "approved", "rejected"}
  BY DEF IInv, TypeOK, PlansTypeOK
<1>3. p \in StoppedPlans => verdict[p] = "approved"
  BY DEF IInv, PlanInv, HasContinuation, StoppedPlans, Stopped
<1>4. mem[p] = "none"
  BY DEF DownInv, Startup
<1> QED
  BY <1>1, <1>2, <1>3, <1>4 DEF PhaseOf, Settled, Outcomes, Startup

\* Every step is one of the contract, or none of a plan.
LEMMA StepMoves ==
  ASSUME IInv, DownInv, [Next]_vars
  PROVE  \/ NoneMoves
         \/ OneMoves({"none"}, "proposed")
         \/ OneMoves({"proposed"}, "approved") \/ OneMoves({"proposed"}, "rejected")
         \/ OneMoves({"approved"}, "running")
         \/ OneMoves({"approved", "running"}, "settled")
         \/ Crash \/ Startup
<1>1. CASE \/ ClaimJob \/ RecordStage \/ RecordFinal \/ WorkflowRaises \/ FinishJob \/ FailJob
           \/ NoteFailure \/ Announce \/ ExecutorRaises \/ Report \/ ReportFailure \/ StoreRaises
           \/ UNCHANGED vars \/ \E d \in Deliveries : Submit(d)
           \/ \E p \in JobIds : DecisionRead(p) \/ DecisionWrite(p) \/ DecisionRaises(p)
  <2>1. UNCHANGED <<approvals, verdict, effects, mem>>
    BY <1>1 DEF ClaimJob, Claim, RecordStage, RecordFinal, WorkflowRaises, FinishJob, FailJob,
       NoteFailure,
       Announce, ExecutorRaises, Report, ReportFailure, StoreRaises, Submit, DecisionRead,
       DecisionWrite,
       DecisionRaises, Serving, Finish, SaveSnapshot, EnqueueIncident, planVars, storeVars, vars
  <2> QED
    BY <2>1, QuietSteps
<1>2. CASE ProposePlan \/ ProposeUnsaved
  BY <1>2, ProposalMoves
<1>3. CASE BeginRemediation
  <2>0. wpc = "continuing" /\ LockFree /\ UNCHANGED effects
    BY <1>3 DEF BeginRemediation, WorkerAt
  <2>1. PICK p \in JobIds : p = wplan
    BY <2>0, ContinuationFacts DEF ContinuationPoints
  <2>2. mem[p] = "APPROVED" /\ approvals[p] = "APPROVED"
    BY <2>0, <2>1, MaxJobsAssumption DEF LockFree, IInv, WorkerInv, Ready, JobIds
  <2>3. mem' = [mem EXCEPT ![p] = "APPROVED"] /\ approvals' = [approvals EXCEPT ![p] = "APPROVED"]
        /\ verdict' = verdict
    BY <1>3, <2>1, <2>2 DEF BeginRemediation, SetPlan, SaveApproval
  <2>4. mem' = mem /\ approvals' = approvals
    BY <2>2, <2>3 DEF IInv, TypeOK, StoreTypeOK, PlansTypeOK
  <2> QED
    BY <2>0, <2>3, <2>4, QuietSteps
<1>4. CASE NoExecutor \/ ExecutorReturns \/ RecordExecutionFailed
  <2>1. PICK s \in Settled : SetPlan(wplan, s)
    BY <1>4 DEF NoExecutor, ExecutorReturns, RecordExecutionFailed, Settled, Outcomes
  <2>2. wpc \in ContinuationPoints /\ UNCHANGED effects
    BY <1>4 DEF NoExecutor, ExecutorReturns, RecordExecutionFailed, WorkerAt, ContinuationPoints
  <2> QED
    BY <2>1, <2>2, ContinuationSettles
<1>5. CASE StartExecutor
  BY <1>5, StartMoves
<1>6. CASE OutcomeUnsaved
  <2>1. PICK p \in JobIds : p = wplan
    BY <1>6, ContinuationFacts DEF OutcomeUnsaved, WorkerAt, ContinuationPoints
  <2>2. verdict[p] = "approved"
    BY <1>6, <2>1, ContinuationFacts DEF OutcomeUnsaved, WorkerAt, ContinuationPoints
  <2>3. PICK s : mem' = [mem EXCEPT ![p] = s]
    BY <1>6, <2>1 DEF OutcomeUnsaved, SetPlanUnsaved
  <2>4. UNCHANGED <<approvals, verdict, effects>>
    BY <1>6 DEF OutcomeUnsaved, SetPlanUnsaved, storeVars
  <2> QED
    BY <2>2, <2>3, <2>4, QuietSteps DEF IInv, TypeOK, PlansTypeOK
<1>7. CASE \E p \in JobIds : Approve(p) \/ Reject(p)
  BY <1>7, DecisionMoves
<1>8. CASE \E p \in JobIds : RejectFails(p)
  <2>1. PICK p \in JobIds : RejectFails(p)
    BY <1>8
  <2>2. /\ mem[p] = "WAITING_FOR_APPROVAL" /\ mem' = [mem EXCEPT ![p] = "REJECTED"]
        /\ UNCHANGED <<approvals, verdict, effects>>
    BY <2>1 DEF RejectFails, RejectUnsaved, SetPlanUnsaved, Serving, storeVars
  <2> QED
    BY <2>2, QuietSteps DEF IInv, TypeOK, PlansTypeOK
<1>9. CASE \E p \in JobIds : ApproveReturns(p)
  <2>1. PICK p \in JobIds : ApproveReturns(p)
    BY <1>9
  <2>2. /\ lock = p /\ mem' = [mem EXCEPT ![p] = "APPROVED"]
        /\ UNCHANGED <<approvals, verdict, effects>>
    BY <2>1 DEF ApproveReturns, ApproveInstall, Serving, storeVars
  <2>3. verdict[p] = "approved"
    BY <2>2 DEF IInv, PlanInv
  <2> QED
    BY <2>2, <2>3, QuietSteps DEF IInv, TypeOK, PlansTypeOK
<1> QED
  BY <1>1, <1>2, <1>3, <1>4, <1>5, <1>6, <1>7, <1>8, <1>9 DEF Next, WorkerStep, WorkerFault,
     RequestStep

LEMMA StepKeepsContract ==
  ASSUME IInv, DownInv, [Next]_vars
  PROVE  [RC!ContractNext]_([p \in JobIds |-> PhaseOf(p)])
<1> DEFINE phase == [p \in JobIds |-> PhaseOf(p)]
<1>1. ASSUME NEW from, NEW to, OneMoves(from, to)
      PROVE  \E p \in JobIds : RC!Move(p, from, to)
  BY <1>1 DEF OneMoves, RC!Move
<1>2. CASE NoneMoves
  BY <1>2 DEF NoneMoves
<1>3. CASE Crash
  <2> DEFINE lost == {p \in JobIds : PhaseOf(p) = "proposed" /\ PhaseOf(p)' = "none"}
  <2>1. RC!Lose(lost)
    BY <1>3, CrashMoves DEF RC!Lose
  <2> QED
    BY <2>1 DEF RC!ContractNext
<1>4. CASE Startup
  <2> DEFINE cut == {p \in JobIds : PhaseOf(p) \in {"approved", "running"} /\ PhaseOf(p)' = "settled"}
  <2>1. RC!CutOff(cut)
    BY <1>4, StartupMoves DEF RC!CutOff
  <2> QED
    BY <2>1 DEF RC!ContractNext
<1> QED
  BY <1>1, <1>2, <1>3, <1>4, StepMoves DEF RC!ContractNext, RC!Propose, RC!Decide, RC!Run, RC!Settle

\* Whatever crashes, restarts, failing writes and threads do, what a human was
\* told about a plan is one pass through the contract.
THEOREM ImplementsContractHolds == Spec => ImplementsContract
<1>1. Init => RC!ContractInit
  BY DEF Init, StoreInit, PlansInit, RC!ContractInit, PhaseOf
<1>2. Init => DownInv
  BY DEF Init, DownInv
<1>3. IInv /\ DownInv /\ [Next]_vars => DownInv' /\ [RC!ContractNext]_([p \in JobIds |-> PhaseOf(p)])
  BY DownStep, StepKeepsContract
<1> QED
  BY <1>1, <1>2, <1>3, InductiveInvariant, PTL DEF Spec, ImplementsContract, RC!Contract
-----------------------------------------------------------------------------
(* The transactions of the store: JobStoreTxn implements JobStore, for every *)
(* number of connections, jobs and deliveries and any crashes.  Each commit  *)
(* is one of the atomic steps of JobStore, every other statement a           *)
(* stuttering one.                                                           *)


\* Who has read or written holds the write lock; a finish takes it with its
\* only statement.
LockInv ==
  \A c \in Connections :
    /\ stage[c] # "idle" => op[c] # NoOp
    /\ stage[c] \in {"begin", "select", "write2"} => op[c].name # "finish"
    /\ stage[c] = "write2" => op[c].name \in {"enqueue", "approve"}
    /\ stage[c] \in {"select", "write2", "commit"} => writer = c
    /\ stage[c] = "write" => (writer = c <=> op[c].name # "finish")
    /\ writer = c => stage[c] \in {"select", "write", "write2", "commit"}

\* What the SELECT of c has found still holds, and there is work to do.
Current(c) == seen[c] = Asked(op[c], Tables) /\ ~NoWork(op[c], seen[c])

\* What c commits: nothing, or all that its call writes.
Complete(c) ==
  \/ draft = Tables
  \/ /\ op[c].name = "claim" /\ Current(c)
     /\ draft \in Written(op[c], seen[c], Tables)
  \/ /\ op[c].name = "finish"
     /\ draft \in Written(op[c], seen[c], Tables)
  \/ /\ op[c].name \in {"enqueue", "approve"} /\ Current(c)
     /\ \E t \in Written(op[c], seen[c], Tables) : draft \in WrittenNext(op[c], t)

\* The transaction of the writer, statement by statement, over the tables as
\* they are: nobody else has committed since it began.
DraftOf(c) ==
  /\ stage[c] \in {"select", "write"} => draft = Tables
  /\ stage[c] \in {"write", "write2"} => Current(c)
  /\ stage[c] = "write2" => draft \in Written(op[c], seen[c], Tables)
  /\ stage[c] = "commit" => Complete(c)

DraftInv == \A c \in Connections : writer = c => DraftOf(c)

\* A job is finished by one caller, while it runs.
FinishInv ==
  \A c \in Connections : op[c].name = "finish" =>
    /\ jobs[op[c].arg].status = "running"
    /\ \A e \in Connections : op[e] = op[c] => e = c

\* Ids are given in order, so the row that was inserted is the newest.
PrefixInv ==
  \A i, j \in JobIds : i < j /\ jobs[i] = Absent => jobs[j] = Absent

TxnInv == TxnTypeOK /\ LockInv /\ DraftInv /\ FinishInv /\ PrefixInv

-----------------------------------------------------------------------------
(* Commits.                                                                  *)

LEMMA OpFacts ==
  ASSUME TxnTypeOK, NEW c \in Connections
  PROVE  /\ op[c] = NoOp \/ op[c].name \in {"enqueue", "claim", "finish", "approve"}
         /\ NoOp.name = "none"
         /\ op[c].name = "enqueue" => op[c].arg \in Deliveries
         /\ op[c].name \in {"finish", "approve"} => op[c].arg \in JobIds
  BY DEF TxnTypeOK, Ops, NoOp

\* An insertion, as the abstract store has it.
LEMMA InsertedIsNext ==
  ASSUME NEW t, NEW row, NEW new \in Inserted(t, row)
  PROVE  \E j \in JobIds : /\ new = [t EXCEPT !.jobs[j] = row]
                           /\ t.jobs[j] = Absent /\ \A i \in 1..(j - 1) : t.jobs[i] # Absent
  BY DEF Inserted

LEMMA EnqueueCommitted ==
  ASSUME TxnInv, NEW c \in Connections, op[c].name = "enqueue", Current(c),
         NEW t \in Written(op[c], seen[c], Tables), NEW new \in WrittenNext(op[c], t),
         jobs' = new.jobs, snapshots' = new.snapshots, approvals' = new.approvals
  PROVE  EnqueueIncident(op[c].arg)
<1> DEFINE d == op[c].arg
<1>1. \A j \in JobIds : ~HoldsDelivery(j, d)
  BY DEF Current, NoWork, Asked, Tables, HoldsDelivery, IsIncident
<1>2. t \in Inserted(Tables, Row("incident", d, "pending"))
  BY DEF Written
<1>3. PICK j \in JobIds : /\ t = [Tables EXCEPT !.jobs[j] = Row("incident", d, "pending")]
                          /\ Tables.jobs[j] = Absent /\ \A i \in 1..(j - 1) : Tables.jobs[i] # Absent
  BY <1>2, InsertedIsNext
<1>4. /\ t.jobs = [jobs EXCEPT ![j] = Row("incident", d, "pending")]
      /\ t.snapshots = snapshots /\ t.approvals = approvals /\ IsNextId(j)
  BY <1>3 DEF Tables, IsNextId
<1>5. PICK i \in JobIds : /\ new = [t EXCEPT !.snapshots[i] = "pending"]
                          /\ t.jobs[i] # Absent /\ \A h \in JobIds : h > i => t.jobs[h] = Absent
  BY DEF WrittenNext
<1>6. jobs \in [JobIds -> Rows]
  BY DEF TxnInv, TxnTypeOK, StoreTypeOK
<1>7. t.jobs[j] # Absent /\ \A k \in JobIds \ {j} : t.jobs[k] = jobs[k]
  BY <1>4, <1>6 DEF Row, Absent
<1>8. ~(j > i) /\ ~(i > j)
  BY <1>4, <1>5, <1>7 DEF IsNextId, TxnInv, PrefixInv
<1>9. i = j
  BY <1>8 DEF JobIds
<1>10. /\ jobs' = [jobs EXCEPT ![j] = Row("incident", d, "pending")]
       /\ snapshots' = [snapshots EXCEPT ![j] = "pending"]
       /\ approvals' = approvals
  <2>1. t = [jobs |-> t.jobs, snapshots |-> t.snapshots, approvals |-> t.approvals]
    BY <1>3 DEF Tables
  <2> QED
    BY <1>4, <1>5, <1>9, <2>1
<1> QED
  BY <1>1, <1>4, <1>10 DEF EnqueueIncident

LEMMA ApproveCommitted ==
  ASSUME TxnInv, NEW c \in Connections, op[c].name = "approve",
         NEW t \in Written(op[c], seen[c], Tables), NEW new \in WrittenNext(op[c], t),
         jobs' = new.jobs, snapshots' = new.snapshots, approvals' = new.approvals
  PROVE  SaveDecisionAndContinuation(op[c].arg)
<1> DEFINE p == op[c].arg
<1>1. t = [Tables EXCEPT !.approvals[p] = "APPROVED"]
  BY DEF Written
<1>2. t = [jobs |-> jobs, snapshots |-> snapshots, approvals |-> [approvals EXCEPT ![p] = "APPROVED"]]
  BY <1>1 DEF Tables
<1>3. new \in Inserted(t, Row("remediation", p, "pending"))
  BY DEF WrittenNext
<1>4. PICK j \in JobIds : /\ new = [t EXCEPT !.jobs[j] = Row("remediation", p, "pending")]
                          /\ t.jobs[j] = Absent /\ \A i \in 1..(j - 1) : t.jobs[i] # Absent
  BY <1>3, InsertedIsNext
<1>5. IsNextId(j) /\ jobs' = [jobs EXCEPT ![j] = Row("remediation", p, "pending")]
  BY <1>2, <1>4 DEF IsNextId
<1> QED
  BY <1>2, <1>4, <1>5 DEF SaveDecisionAndContinuation

LEMMA ClaimCommitted ==
  ASSUME NEW c \in Connections, op[c].name = "claim", Current(c),
         NEW new \in Written(op[c], seen[c], Tables),
         jobs' = new.jobs, snapshots' = new.snapshots, approvals' = new.approvals
  PROVE  \E j \in JobIds : Claim(j)
<1>1. PICK j \in seen[c] : new = [Tables EXCEPT !.jobs[j].status = "running"]
  BY DEF Written
<1>2. /\ j \in JobIds /\ jobs[j].status = "pending"
      /\ \A i \in 1..(j - 1) : jobs[i].status # "pending"
  BY <1>1 DEF Current, Asked, Tables
<1>3. new = [jobs |-> [jobs EXCEPT ![j].status = "running"], snapshots |-> snapshots,
             approvals |-> approvals]
  BY <1>1 DEF Tables
<1> QED
  BY <1>2, <1>3 DEF Claim

LEMMA FinishCommitted ==
  ASSUME NEW c \in Connections, op[c].name = "finish",
         NEW new \in Written(op[c], seen[c], Tables),
         jobs' = new.jobs, snapshots' = new.snapshots, approvals' = new.approvals
  PROVE  \E s \in {"completed", "failed"} : Finish(op[c].arg, s)
<1>1. PICK s \in {"completed", "failed"} : new = [Tables EXCEPT !.jobs[op[c].arg].status = s]
  BY DEF Written
<1>2. new = [jobs |-> [jobs EXCEPT ![op[c].arg].status = s], snapshots |-> snapshots,
             approvals |-> approvals]
  BY <1>1 DEF Tables
<1> QED
  BY <1>2 DEF Finish

\* What a commit does is what the call does at once.
LEMMA CommitIsAtomic ==
  ASSUME TxnInv, NEW c \in Connections, Commit(c)
  PROVE  \/ UNCHANGED storeVars
         \/ op[c].name = "enqueue" /\ EnqueueIncident(op[c].arg)
         \/ op[c].name = "claim" /\ \E j \in JobIds : Claim(j)
         \/ op[c].name = "finish" /\ \E s \in {"completed", "failed"} : Finish(op[c].arg, s)
         \/ op[c].name = "approve" /\ SaveDecisionAndContinuation(op[c].arg)
<1>1. writer = c /\ Complete(c)
  BY DEF Commit, TxnInv, LockInv, DraftInv, DraftOf
<1>2. jobs' = draft.jobs /\ snapshots' = draft.snapshots /\ approvals' = draft.approvals
  BY <1>1 DEF Commit
<1>3. CASE draft = Tables
  BY <1>2, <1>3 DEF Tables, storeVars
<1>4. CASE op[c].name = "claim" /\ Current(c) /\ draft \in Written(op[c], seen[c], Tables)
  BY <1>2, <1>4, ClaimCommitted
<1>5. CASE op[c].name = "finish" /\ draft \in Written(op[c], seen[c], Tables)
  BY <1>2, <1>5, FinishCommitted
<1>6. CASE /\ op[c].name \in {"enqueue", "approve"} /\ Current(c)
           /\ \E t \in Written(op[c], seen[c], Tables) : draft \in WrittenNext(op[c], t)
  BY <1>2, <1>6, EnqueueCommitted, ApproveCommitted
<1> QED
  BY <1>1, <1>3, <1>4, <1>5, <1>6 DEF Complete

\* Commits keep the types and the order of the rows, and only the caller that
\* finishes a job ends it.
LEMMA CommitKeeps ==
  ASSUME TxnInv, NEW c \in Connections, Commit(c)
  PROVE  /\ StoreTypeOK'
         /\ PrefixInv'
         /\ \A j \in JobIds : jobs[j].status = "running" /\ jobs'[j].status # "running" =>
              op[c].name = "finish" /\ op[c].arg = j
<1> USE DEF TxnInv, PrefixInv
<1>0. /\ jobs \in [JobIds -> Rows]
      /\ snapshots \in [JobIds -> SnapshotStatuses \cup {"none"}]
      /\ approvals \in [JobIds -> PlanStatuses \cup {"none"}]
      /\ \A r \in Rows : r = Absent <=> r.status = "absent"
      /\ \A r \in Rows \ {Absent}, t \in JobStatuses :
           [r EXCEPT !.status = t] \in Rows /\ [r EXCEPT !.status = t].status = t
  BY DEF TxnTypeOK, StoreTypeOK, Rows, Absent, JobStatuses
<1>1. CASE UNCHANGED storeVars
  BY <1>0, <1>1 DEF storeVars, StoreTypeOK
\* One row changes its status ...
<1>2. ASSUME NEW j \in JobIds, NEW s \in {"running", "completed", "failed"}, jobs[j] # Absent,
             jobs' = [jobs EXCEPT ![j].status = s], UNCHANGED <<snapshots, approvals>>
      PROVE  StoreTypeOK' /\ PrefixInv'
  <2>r. jobs[j] \in Rows \ {Absent} /\ s \in JobStatuses
    BY <1>0, <1>2 DEF JobStatuses
  <2>0. /\ [jobs[j] EXCEPT !.status = s] \in Rows
        /\ [jobs[j] EXCEPT !.status = s].status = s
    BY <1>0, <2>r
  <2>1. [jobs[j] EXCEPT !.status = s] # Absent
    BY <1>0, <2>0
  <2>2. \A k \in JobIds : jobs'[k] = IF k = j THEN [jobs[j] EXCEPT !.status = s] ELSE jobs[k]
    BY <1>0, <1>2
  <2>3. jobs' \in [JobIds -> Rows] /\ \A k \in JobIds : jobs'[k] = Absent <=> jobs[k] = Absent
    BY <1>0, <1>2, <2>0, <2>1, <2>2
  <2> QED
    BY <1>0, <1>2, <2>3 DEF StoreTypeOK
\* ... or one is inserted.
<1>3. ASSUME NEW j \in JobIds, IsNextId(j), NEW r \in Rows \ {Absent},
             jobs' = [jobs EXCEPT ![j] = r]
      PROVE  /\ jobs' \in [JobIds -> Rows] /\ PrefixInv'
             /\ \A k \in JobIds : jobs[k].status = "running" => jobs'[k] = jobs[k]
  <2>1. jobs' \in [JobIds -> Rows] /\ \A k \in JobIds : jobs'[k] = IF k = j THEN r ELSE jobs[k]
    BY <1>0, <1>3
  <2>2. ASSUME NEW i \in JobIds, NEW k \in JobIds, i < k, jobs'[i] = Absent  PROVE jobs'[k] = Absent
    <3>1. i # j /\ jobs[i] = Absent
      BY <1>3, <2>1, <2>2
    <3>2. k # j
      BY <1>3, <2>2, <3>1 DEF IsNextId, JobIds
    <3> QED
      BY <2>1, <2>2, <3>1, <3>2
  <2> QED
    BY <1>3, <2>1, <2>2 DEF IsNextId, Absent
<1>4. CASE op[c].name = "enqueue" /\ EnqueueIncident(op[c].arg)
  <2>1. CASE UNCHANGED storeVars
    BY <1>1, <2>1 
  <2>2. CASE ~UNCHANGED storeVars
    <3>1. PICK j \in JobIds :
            /\ IsNextId(j)
            /\ jobs' = [jobs EXCEPT ![j] = Row("incident", op[c].arg, "pending")]
            /\ snapshots' = [snapshots EXCEPT ![j] = "pending"]
      BY <1>4, <2>2 DEF EnqueueIncident
    <3>2. Row("incident", op[c].arg, "pending") \in Rows \ {Absent}
      BY <1>4, OpFacts DEF Row, Rows, Absent, JobStatuses
    <3>3. snapshots' \in [JobIds -> SnapshotStatuses \cup {"none"}] /\ approvals' = approvals
      BY <1>0, <1>4, <2>2, <3>1 DEF EnqueueIncident, SnapshotStatuses
    <3> QED
      BY <1>0, <1>3, <3>1, <3>2, <3>3 DEF StoreTypeOK
  <2> QED
    BY <2>1, <2>2
<1>5. CASE op[c].name = "claim" /\ \E j \in JobIds : Claim(j)
  <2>1. PICK j \in JobIds : /\ jobs[j].status = "pending"
                            /\ jobs' = [jobs EXCEPT ![j].status = "running"]
                            /\ UNCHANGED <<snapshots, approvals>>
    BY <1>5 DEF Claim
  <2>2. jobs[j] # Absent
    BY <2>1 DEF Absent
  <2>3. \A k \in JobIds : jobs[k].status = "running" => jobs'[k].status = "running"
    BY <1>0, <2>1
  <2> QED
    BY <1>2, <2>1, <2>2, <2>3
<1>6. CASE op[c].name = "finish" /\ \E s \in {"completed", "failed"} : Finish(op[c].arg, s)
  <2>1. PICK s \in {"completed", "failed"} :
          jobs' = [jobs EXCEPT ![op[c].arg].status = s] /\ UNCHANGED <<snapshots, approvals>>
    BY <1>6 DEF Finish
  <2>2. op[c].arg \in JobIds /\ jobs[op[c].arg] # Absent
    BY <1>6, OpFacts DEF FinishInv, Absent
  <2>3. \A k \in JobIds : jobs'[k].status # jobs[k].status => k = op[c].arg
    BY <1>0, <2>1
  <2> QED
    BY <1>2, <1>6, <2>1, <2>2, <2>3
<1>7. CASE op[c].name = "approve" /\ SaveDecisionAndContinuation(op[c].arg)
  <2>1. PICK j \in JobIds :
          IsNextId(j) /\ jobs' = [jobs EXCEPT ![j] = Row("remediation", op[c].arg, "pending")]
    BY <1>7 DEF SaveDecisionAndContinuation
  <2>2. Row("remediation", op[c].arg, "pending") \in Rows \ {Absent}
    BY <1>7, OpFacts DEF Row, Rows, Absent, JobStatuses
  <2>3. approvals' \in [JobIds -> PlanStatuses \cup {"none"}] /\ snapshots' = snapshots
    BY <1>0, <1>7 DEF SaveDecisionAndContinuation, PlanStatuses
  <2> QED
    BY <1>0, <1>3, <2>1, <2>2, <2>3 DEF StoreTypeOK
<1> QED
  BY <1>1, <1>4, <1>5, <1>6, <1>7, CommitIsAtomic

\* Every other step leaves the tables alone.
LEMMA OthersKeep ==
  ASSUME TxnTypeOK, [TxnNext]_txnVars
  PROVE  (\E c \in Connections : Commit(c)) \/ UNCHANGED <<jobs, snapshots, approvals>>
  BY DEF TxnNext, ConnectionStep, Call, Begin, TimeOut, Select, Write, Write2, WriteStatement,
     NextStage,
     TxnCrash, storeVars, txnVars

-----------------------------------------------------------------------------
(* The invariant, action by action.                                          *)

LEMMA InitTxnInv == TxnInit => TxnInv
<1> SUFFICES ASSUME TxnInit PROVE TxnInv
  OBVIOUS
<1> USE ConnectionAssumption DEF TxnInit, StoreInit
<1>1. TxnTypeOK
  BY DEF TxnTypeOK, StoreTypeOK, Rows, Ops, Stages, Tables
<1>2. LockInv /\ DraftInv
  BY DEF LockInv, DraftInv, DraftOf
<1>3. FinishInv
  BY DEF FinishInv, NoOp
<1>4. PrefixInv
  BY DEF PrefixInv
<1> QED
  BY <1>1, <1>2, <1>3, <1>4 DEF TxnInv

\* What is written has the type of the tables.
LEMMA WrittenType ==
  ASSUME TxnInv, NEW c \in Connections, writer \in {c, NoConnection},
         \/ stage[c] = "write" /\ draft' \in Written(op[c], seen[c], View(c))
         \/ stage[c] = "write2" /\ draft' \in WrittenNext(op[c], View(c))
  PROVE  draft' \in [jobs : [JobIds -> Rows], snapshots : [JobIds -> SnapshotStatuses \cup {"none"}],
                     approvals : [JobIds -> PlanStatuses \cup {"none"}]]
<1> DEFINE TableSet == [jobs : [JobIds -> Rows], snapshots : [JobIds -> SnapshotStatuses \cup {"none"}],
                        approvals : [JobIds -> PlanStatuses \cup {"none"}]]
<1>1. View(c) \in TableSet
  BY DEF View, Tables, TxnInv, TxnTypeOK, StoreTypeOK
<1>2. ASSUME NEW t \in TableSet, NEW j \in JobIds, NEW r \in Rows
      PROVE  [t EXCEPT !.jobs[j] = r] \in TableSet
  BY <1>2
<1>3. ASSUME NEW t \in TableSet, NEW j \in JobIds, t.jobs[j] # Absent, NEW s \in JobStatuses
      PROVE  [t EXCEPT !.jobs[j].status = s] \in TableSet
  <2>1. [t.jobs[j] EXCEPT !.status = s] \in Rows
    BY <1>3 DEF Rows, Absent
  <2> QED
    BY <1>3, <2>1
<1>4. \A t \in TableSet, r \in Rows : Inserted(t, r) \subseteq TableSet
  BY <1>2 DEF Inserted
<1>5. CASE stage[c] = "write" /\ draft' \in Written(op[c], seen[c], View(c))
  <2>1. CASE op[c].name = "enqueue"
    <3>1. Row("incident", op[c].arg, "pending") \in Rows
      BY <2>1, OpFacts DEF TxnInv, Row, Rows, JobStatuses
    <3> QED
      BY <1>1, <1>4, <1>5, <2>1, <3>1 DEF Written
  <2>2. CASE op[c].name = "approve"
    <3>1. op[c].arg \in JobIds /\ draft' = [View(c) EXCEPT !.approvals[op[c].arg] = "APPROVED"]
      BY <1>5, <2>2, OpFacts DEF TxnInv, Written
    <3> QED
      BY <1>1, <3>1 DEF PlanStatuses
  <2>3. CASE op[c].name = "claim"
    <3>1. PICK j \in seen[c] : draft' = [View(c) EXCEPT !.jobs[j].status = "running"]
      BY <1>5, <2>3 DEF Written
    <3>2. View(c) = Tables /\ Current(c)
      BY <1>5, <2>3 DEF View, TxnInv, LockInv, DraftInv, DraftOf
    <3>3. j \in JobIds /\ View(c).jobs[j] # Absent
      BY <2>3, <3>2 DEF Current, Asked, Absent
    <3> QED
      BY <1>1, <1>3, <3>1, <3>3 DEF JobStatuses
  <2>4. CASE op[c].name = "finish"
    <3>1. PICK s \in {"completed", "failed"} : draft' = [View(c) EXCEPT !.jobs[op[c].arg].status = s]
      BY <1>5, <2>4 DEF Written
    <3>2. op[c].arg \in JobIds /\ jobs[op[c].arg] # Absent
      BY <2>4, OpFacts DEF TxnInv, FinishInv, Absent
    <3>3. View(c) = Tables
      BY <1>5, <2>4 DEF View, TxnInv, LockInv
    <3>4. View(c).jobs[op[c].arg] # Absent
      BY <3>2, <3>3 DEF Tables
    <3> QED
      BY <1>1, <1>3, <3>1, <3>2, <3>4 DEF JobStatuses
  <2> QED
    BY <1>5, <2>1, <2>2, <2>3, <2>4, OpFacts DEF TxnInv, LockInv
<1>6. CASE stage[c] = "write2" /\ draft' \in WrittenNext(op[c], View(c))
  <2>1. CASE op[c].name = "approve"
    <3>1. Row("remediation", op[c].arg, "pending") \in Rows
      BY <2>1, OpFacts DEF TxnInv, Row, Rows, JobStatuses
    <3> QED
      BY <1>1, <1>4, <1>6, <2>1, <3>1 DEF WrittenNext
  <2>2. CASE op[c].name # "approve"
    <3>1. PICK j \in JobIds : draft' = [View(c) EXCEPT !.snapshots[j] = "pending"]
      BY <1>6, <2>2 DEF WrittenNext
    <3> QED
      BY <1>1, <3>1 DEF SnapshotStatuses
  <2> QED
    BY <2>1, <2>2
<1> QED
  BY <1>5, <1>6

LEMMA TypeStep ==
  ASSUME TxnInv, [TxnNext]_txnVars
  PROVE  TxnTypeOK'
<1> DEFINE TableSet == [jobs : [JobIds -> Rows], snapshots : [JobIds -> SnapshotStatuses \cup {"none"}],
                        approvals : [JobIds -> PlanStatuses \cup {"none"}]]
<1>0. TxnTypeOK /\ Tables \in TableSet
  BY DEF TxnInv, TxnTypeOK, StoreTypeOK, Tables
<1>1. StoreTypeOK'
  BY <1>0, OthersKeep, CommitKeeps DEF StoreTypeOK, TxnTypeOK
<1>2. /\ op' \in [Connections -> Ops] /\ stage' \in [Connections -> Stages]
      /\ writer' \in Connections \cup {NoConnection}
  BY <1>0 DEF TxnTypeOK, TxnNext, ConnectionStep, Call, Begin, TimeOut, Select, Write, Write2,
    WriteStatement, NextStage, Commit, TxnCrash, txnVars, Stages, Ops
<1>3. seen' \in [Connections -> SUBSET JobIds]
  <2>1. \A o \in Ops : \A t : Asked(o, t) \in SUBSET JobIds
    BY DEF Asked
  <2>2. \A c \in Connections : op[c] \in Ops
    BY <1>0 DEF TxnTypeOK
  <2> QED
    BY <1>0, <2>1, <2>2 DEF TxnTypeOK, TxnNext, ConnectionStep, Call, Begin, TimeOut, Select,
       Write, Write2,
      WriteStatement, NextStage, Commit, TxnCrash, txnVars
<1>4. draft' \in TableSet
  <2>1. CASE \E c \in Connections : Write(c) \/ Write2(c)
    BY <2>1, WrittenType DEF Write, Write2, WriteStatement
  <2>2. CASE ~\E c \in Connections : Write(c) \/ Write2(c)
    <3>1. draft' = draft \/ draft' = Tables
      BY <2>2 DEF TxnNext, ConnectionStep, Call, Begin, TimeOut, Select, Commit, TxnCrash, txnVars
    <3> QED
      BY <1>0, <3>1 DEF TxnTypeOK
  <2> QED
    BY <2>1, <2>2
<1>5. returned' \in [JobIds -> Nat]
  BY <1>0 DEF TxnTypeOK, TxnNext, ConnectionStep, Call, Begin, TimeOut, Select, Write, Write2,
    WriteStatement, NextStage, Commit, TxnCrash, txnVars
<1> QED
  BY <1>1, <1>2, <1>3, <1>4, <1>5 DEF TxnTypeOK

LEMMA LockStep ==
  ASSUME TxnInv, [TxnNext]_txnVars
  PROVE  LockInv'
<1> USE ConnectionAssumption DEF LockInv
<1>0. /\ op \in [Connections -> Ops] /\ stage \in [Connections -> Stages]
      /\ NoOp.name = "none" /\ LockInv
  BY DEF TxnInv, TxnTypeOK, NoOp
<1>a. \A c \in Connections : op[c] # NoOp => op[c].name \in {"enqueue", "claim", "finish", "approve"}
  BY OpFacts DEF TxnInv
<1>1. ASSUME NEW c \in Connections, NEW o \in Ops \ {NoOp}, Call(c, o)  PROVE LockInv'
  BY <1>0, <1>1 DEF Call
<1>2. ASSUME NEW c \in Connections, Begin(c)  PROVE LockInv'
  BY <1>0, <1>2 DEF Begin, NextStage
<1>3. ASSUME NEW c \in Connections, TimeOut(c)  PROVE LockInv'
  BY <1>0, <1>3 DEF TimeOut
<1>4. ASSUME NEW c \in Connections, Select(c)  PROVE LockInv'
  BY <1>0, <1>4 DEF Select
<1>5. ASSUME NEW c \in Connections, Write(c)  PROVE LockInv'
  <2>1. /\ writer' = c /\ writer \in {c, NoConnection} /\ op' = op
        /\ stage' = [stage EXCEPT ![c] = IF op[c].name \in {"claim", "finish"} THEN "commit" ELSE "write2"]
    BY <1>5 DEF Write, WriteStatement, NextStage
  <2>2. op[c].name \in {"enqueue", "claim", "finish", "approve"}
    BY <1>0, <1>5, <1>a DEF Write
  <2> QED
    BY <1>0, <2>1, <2>2
<1>6. ASSUME NEW c \in Connections, Write2(c)  PROVE LockInv'
  BY <1>0, <1>6 DEF Write2, WriteStatement, NextStage
<1>7. ASSUME NEW c \in Connections, Commit(c)  PROVE LockInv'
  BY <1>0, <1>7 DEF Commit
<1>8. CASE TxnCrash
  BY <1>0, <1>8 DEF TxnCrash
<1>9. CASE UNCHANGED txnVars
  BY <1>0, <1>9 DEF txnVars
<1> QED
  BY <1>1, <1>2, <1>3, <1>4, <1>5, <1>6, <1>7, <1>8, <1>9 DEF TxnNext, ConnectionStep

\* The definitions over the tables mean the same after a step that leaves these
\* and the call of c alone.
LEMMA SameDraft ==
  ASSUME NEW c \in Connections, UNCHANGED <<jobs, snapshots, approvals, draft>>,
         op'[c] = op[c], seen'[c] = seen[c]
  PROVE  /\ Tables' = Tables
         /\ Current(c)' <=> Current(c)
         /\ Complete(c)' <=> Complete(c)
<1>1. Tables' = Tables
  BY DEF Tables
<1> QED
  BY <1>1 DEF Current, Complete

LEMMA DraftStep ==
  ASSUME TxnInv, [TxnNext]_txnVars
  PROVE  DraftInv'
<1> SUFFICES ASSUME NEW c \in Connections, writer' = c
             PROVE  DraftOf(c)'
  BY DEF DraftInv
<1> USE DEF DraftOf
<1> USE ConnectionAssumption
<1>0. /\ op \in [Connections -> Ops] /\ stage \in [Connections -> Stages]
      /\ seen \in [Connections -> SUBSET JobIds]
      /\ LockInv /\ DraftInv
  BY DEF TxnInv, TxnTypeOK
\* A step that leaves the tables and the transaction of c as they are.
<1>1. CASE /\ writer = c /\ op'[c] = op[c] /\ seen'[c] = seen[c] /\ stage'[c] = stage[c]
           /\ UNCHANGED <<jobs, snapshots, approvals, draft>>
  BY <1>0, <1>1, SameDraft DEF DraftInv, DraftOf
<1>2. ASSUME NEW e \in Connections, NEW o \in Ops \ {NoOp}, Call(e, o)  PROVE DraftOf(c)'
  BY <1>0, <1>1, <1>2 DEF Call, LockInv, storeVars
<1>3. ASSUME NEW e \in Connections, Begin(e)  PROVE DraftOf(c)'
  BY <1>0, <1>3 DEF Begin, NextStage, Tables, storeVars
<1>4. ASSUME NEW e \in Connections, TimeOut(e)  PROVE DraftOf(c)'
  BY <1>0, <1>1, <1>4 DEF TimeOut, storeVars
<1>5. ASSUME NEW e \in Connections, Select(e)  PROVE DraftOf(c)'
  <2>1. e = c /\ writer = c /\ draft = Tables /\ View(c) = Tables
    BY <1>0, <1>5 DEF Select, LockInv, DraftInv, DraftOf, View
  <2>2. /\ op' = op /\ seen'[c] = Asked(op[c], Tables) /\ draft' = Tables
        /\ stage'[c] = IF NoWork(op[c], seen'[c]) THEN "commit" ELSE "write"
        /\ Tables' = Tables
    BY <1>0, <1>5, <2>1 DEF Select, storeVars, Tables
  <2> QED
    BY <2>2 DEF Current, Complete
<1>6. ASSUME NEW e \in Connections, Write(e)  PROVE DraftOf(c)'
  <2>1. /\ e = c /\ stage[c] = "write" /\ op' = op /\ seen' = seen /\ Tables' = Tables
        /\ draft' \in Written(op[c], seen[c], View(c))
        /\ stage'[c] = IF op[c].name \in {"claim", "finish"} THEN "commit" ELSE "write2"
        /\ writer \in {c, NoConnection}
    BY <1>0, <1>6 DEF Write, WriteStatement, NextStage, Tables, storeVars
  <2>2. View(c) = Tables
    BY <1>0, <2>1 DEF LockInv, DraftInv, DraftOf, View
  <2>3. op[c].name # "finish" => Current(c)
    BY <1>0, <2>1 DEF LockInv, DraftInv, DraftOf
  <2>4. op[c].name # "finish" => Current(c)'
    BY <2>1, <2>3 DEF Current
  <2> QED
    BY <2>1, <2>2, <2>4 DEF Complete
<1>7. ASSUME NEW e \in Connections, Write2(e)  PROVE DraftOf(c)'
  <2>1. /\ e = c /\ stage[c] = "write2" /\ op' = op /\ seen' = seen /\ Tables' = Tables
        /\ draft' \in WrittenNext(op[c], View(c)) /\ stage'[c] = "commit"
    BY <1>0, <1>7 DEF Write2, WriteStatement, NextStage, Tables, storeVars
  <2>2. /\ View(c) = draft /\ Current(c) /\ draft \in Written(op[c], seen[c], Tables)
        /\ op[c].name \in {"enqueue", "approve"}
    BY <1>0, <2>1 DEF LockInv, DraftInv, DraftOf, View
  <2>3. Current(c)'
    BY <2>1, <2>2 DEF Current
  <2> QED
    BY <2>1, <2>2, <2>3 DEF Complete
<1>8. ASSUME NEW e \in Connections, Commit(e)  PROVE FALSE
  BY <1>0, <1>8 DEF Commit, LockInv
<1>9. CASE TxnCrash
  BY <1>9 DEF TxnCrash
<1>10. CASE UNCHANGED txnVars
  BY <1>1, <1>10 DEF txnVars
<1> QED
  BY <1>2, <1>3, <1>4, <1>5, <1>6, <1>7, <1>8, <1>9, <1>10 DEF TxnNext, ConnectionStep

LEMMA FinishStep ==
  ASSUME TxnInv, [TxnNext]_txnVars
  PROVE  FinishInv'
<1>0. op \in [Connections -> Ops] /\ FinishInv /\ NoOp.name = "none"
  BY DEF TxnInv, TxnTypeOK, NoOp
<1>1. ASSUME NEW e \in Connections, NEW o \in Ops \ {NoOp}, Call(e, o)  PROVE FinishInv'
  <2>1. /\ op' = [op EXCEPT ![e] = o] /\ jobs' = jobs
        /\ o.name = "finish" => /\ jobs[o.arg].status = "running"
                               /\ \A c \in Connections : op[c] # o
    BY <1>1 DEF Call, MayCall, storeVars
  <2> QED
    BY <1>0, <2>1 DEF FinishInv
<1>2. ASSUME NEW e \in Connections, Commit(e)  PROVE FinishInv'
  <2>1. op' = [op EXCEPT ![e] = NoOp]
    BY <1>2 DEF Commit
  <2>2. ASSUME NEW c \in Connections, op'[c].name = "finish"
        PROVE  jobs'[op[c].arg].status = "running" /\ op'[c] = op[c] /\ c # e
    <3>1. c # e /\ op'[c] = op[c]
      BY <1>0, <2>1, <2>2
    <3>2. op[c].arg \in JobIds /\ jobs[op[c].arg].status = "running"
      BY <1>0, <2>2, <3>1, OpFacts DEF TxnInv, FinishInv
    <3>3. op[e].name = "finish" /\ op[e].arg = op[c].arg => op[e] = op[c]
      BY <1>0, <2>2, <3>1 DEF Ops, NoOp
    <3>4. ~(op[e].name = "finish" /\ op[e].arg = op[c].arg)
      BY <1>0, <2>2, <3>1, <3>3 DEF FinishInv
    <3> QED
      BY <1>2, <3>1, <3>2, <3>4, CommitKeeps
  <2> QED
    BY <1>0, <2>1, <2>2 DEF FinishInv
<1>3. CASE UNCHANGED jobs /\ \A c \in Connections : op'[c] = op[c] \/ op'[c] = NoOp
  BY <1>0, <1>3 DEF FinishInv
<1>4. ASSUME NEW e \in Connections, Begin(e) \/ TimeOut(e) \/ Select(e) \/ Write(e) \/ Write2(e)
      PROVE  FinishInv'
  BY <1>0, <1>3, <1>4 DEF Begin, TimeOut, Select, Write, Write2, WriteStatement, NextStage,
     storeVars
<1>5. CASE TxnCrash \/ UNCHANGED txnVars
  BY <1>0, <1>3, <1>5 DEF TxnCrash, storeVars, txnVars
<1> QED
  BY <1>1, <1>2, <1>4, <1>5 DEF TxnNext, ConnectionStep

LEMMA PrefixStep ==
  ASSUME TxnInv, [TxnNext]_txnVars
  PROVE  PrefixInv'
  BY OthersKeep, CommitKeeps DEF TxnInv, PrefixInv

LEMMA NextTxnInv ==
  ASSUME TxnInv, [TxnNext]_txnVars
  PROVE  TxnInv'
  BY TypeStep, LockStep, DraftStep, FinishStep, PrefixStep DEF TxnInv

-----------------------------------------------------------------------------
(* What holds in every run.                                                  *)

\* The write lock has the connection that has read, the work it has found is
\* still there, and its draft is the committed tables with its own writes.
THEOREM TxnInvariant == TxnSpec => []TxnInv
  BY InitTxnInv, NextTxnInv, PTL DEF TxnSpec

\* The types, in every state of every interleaving.
THEOREM TxnTypeCorrect == TxnSpec => []TxnTypeOK
<1>1. TxnInv => TxnTypeOK
  BY DEF TxnInv
<1> QED
  BY TxnInvariant, <1>1, PTL

\* Each step of a connection is a step of the atomic store or none.
LEMMA StepIsAtomic ==
  ASSUME TxnInv, [TxnNext]_txnVars
  PROVE  [StoreNext]_storeVars
<1>1. CASE UNCHANGED <<jobs, snapshots, approvals>>
  BY <1>1 DEF storeVars
<1>2. ASSUME NEW c \in Connections, Commit(c)  PROVE StoreNext \/ UNCHANGED storeVars
  <2>1. CASE op[c].name = "finish" /\ \E s \in {"completed", "failed"} : Finish(op[c].arg, s)
    <3>1. op[c].arg \in JobIds /\ jobs[op[c].arg].status = "running"
      BY <2>1, OpFacts DEF TxnInv, FinishInv
    <3> QED
      BY <2>1, <3>1 DEF StoreNext
  <2>2. /\ op[c].name = "enqueue" => op[c].arg \in Deliveries
        /\ op[c].name = "approve" => op[c].arg \in JobIds
    BY OpFacts DEF TxnInv
  <2> QED
    BY <1>2, <2>1, <2>2, CommitIsAtomic DEF StoreNext
<1> QED
  BY <1>1, <1>2, OthersKeep DEF TxnInv

\* Connections that SQLite interleaves statement by statement, that time out
\* and that a crash stops anywhere, do what the atomic transactions of JobStore
\* do: one job per delivery, a decision together with its continuation.
THEOREM ImplementsJobStoreHolds == TxnSpec => ImplementsJobStore
<1>1. TxnInit => StoreInit
  BY DEF TxnInit
<1>2. TxnInv /\ [TxnNext]_txnVars => [StoreNext]_storeVars
  BY StepIsAtomic
<1> QED
  BY TxnInvariant, <1>1, <1>2, PTL DEF TxnSpec, StoreSpec, ImplementsJobStore
=============================================================================
