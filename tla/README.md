# A TLA+ model of the incident monitoring service

The repository turns an incident (a webhook of a ticketing system) into a root
cause report and, after a human approval, into a pull request or a database
repair. These modules specify the part of it that has to be right when
processes crash, writes fail and threads interleave, check it with TLC and
prove its main safety properties with TLAPS.

## The system

    delivery -> gateway (server.py) -> jobs table -> one worker -> workflow graph
                                                         |             |
                                     approvals table <- plan        snapshots table
                                          |                            |
    human -> approve / reject routes -> continuation -> executor    dashboard

| Part | State | Operations | What makes it correct |
| --- | --- | --- | --- |
| Job store `storage/job_store.py` | SQLite tables `jobs`, `snapshots`, `approvals` | enqueue, claim, finish, recover, save/load | one live job per delivery; a job is claimed once; finished jobs stay; a restart ends what was running and replays no side effect |
| Approval store `governance/approvals.py` | plans in memory under a lock, written through to the table | create, enqueue_approval, reject, execute_approved, approve_and_execute | one decision per plan, durable; at most one execution, only after an approval; decision and continuation appear together |
| Worker `workflows/job_worker.py` | a thread, a file lock that keeps it the only one | worker_loop, run_next_job, workflow_lifespan | every accepted job ends; recovery before work |
| Gateway and routes `server.py`, `db_fix/api/routes.py` | none of their own | accept a delivery, approve, reject, update the dashboard | acknowledged deliveries are stored; a decision is answered by what was stored |
| Dashboard state `dashboard_state.py` | latest executions (in `snapshots`), subscribers' queues | record_execution, snapshot, subscribe | shows the outcome of what ended |
| Intake workflow `workflows/intake_categorisation_workflow.py` | the graph's state during one run | ingest, categorise, L2, L3, fix agent, final response | routes to one analysis; a run that failed does not complete its job; its nodes store at most one plan |
| Code fix agent `agents/code_fix.py` | a shared git checkout, branches, pull requests | gates, plan, branch, model edit, scope check, commit, push, pull request | a branch holds only its plan's change, in scope; nothing is left behind by a failure |
| Database agent `db_fix/` | the target database, the incident history | diagnose, decide, plan, execute, verify | executes what was approved; reports what happened |
| Guardrails `governance/guardrails.py` | none | validate_guardrails | an event with a secret or a dangerous request is analysed by nobody |
| L3 agent `agents/l3_rca/`, gates of `agents/code_fix.py` | the evidence, the diagnosis and its review, of one analysis | read evidence, bind, review, correct, score, gate | a fix is started only from the diagnosis that was reviewed, for lines that are in evidence |
| L2 agent `l2_rca/` | none | diagnose, call the agent of the domain | a report or an error; no plan without a completed analysis |
| Categorisation `categorization_layer/` | the incidents of the last ten minutes | rules, check_duplicate, validate, classify, merge, review, route | nothing weak, critical or repeated is analysed without a person; nobody is forgotten |
| Connectors, normalisers and file queue `issuelayer/` | a JSON file under a lock | the handlers; push, claim_next, update_status, delete, clear, reset_interrupted | an event that was taken is kept and worked on; a duplicate is one |
| Scan `phases/`, indexing `rag/` | caches on disk, Neo4j graph, lexical index, vectors | scan, analyse, summarise, build the hierarchy, ingest, index | what an analysis reads is of the current source, whatever earlier ingestions left |
| Retrieval `rag/`, parsers `parsers/` | none | fuse and rank, parse | - |
| Observability, RCA report store, frontend | traces, counters, one insert | record | - |

An L3 incident passes through four parts one after the other: `phases/` and
`rag/` bring what is known of its repository up to date, the L3 agent reads the
checkout and diagnoses, `run_codefix` plans a repair, and after the approval
repairs. The connectors are an intake of their own: the gateway enqueues into
the jobs table and never touches their file queue.

The parts interact through the three tables and the plans in memory. Request
threads of the HTTP server, the one worker thread and the start of a process
all write them; that is where the hard behaviour is: a crash between two
writes, a write that raises after the memory has changed, an approval that
races the worker, a late write of something read before. `PROJECT.json` lists
these hazards at their lines.

## Modules

| Module | Models | State to code |
| --- | --- | --- |
| `JobStore` | `storage/job_store.py` as atomic transactions | `jobs`, `snapshots`, `approvals`: the tables; a job id is the insertion rank of its row, a plan is named by the incident job that proposed it, a snapshot by the status of its response |
| `Approvals` (extends `JobStore`) | `governance/approvals.py` | `mem`: `_plans`; `lock`: `_lock`, while it is held between a commit and the change in memory; `verdict`: history, the stored human decision |
| `JobWorker` (extends `Approvals`) | `workflows/job_worker.py`, the routes, the process | `wpc`, `wjob`, `wres`: the point, job and result of `run_next_job`; `upd`: for each plan the request thread that updates the dashboard; `effects`: history, starts of an executor; `up`, `crashes`, `faults` |
| `RemediationContract` | what is promised about a plan, with no jobs, memory or crashes | `phase` of a plan |
| `JobWorkerRefinement` | the refinement mapping from `JobWorker` to the contract | `PhaseOf` |
| `JobWorkerInv`, `JobWorkerProofs` | the inductive invariant and the proofs, those about `JobStoreTxn` included | |
| `JobStoreTxn` (extends `JobStore`) | the statements of the calls of `JobStore` on interleaving SQLite connections | `op`, `stage`, `seen`: each connection's call; `writer`, `draft`: SQLite's write lock and open transaction (external) |
| `RunContract` | what `run_next_job` relies on when it runs an incident | `current`: the run that the worker is in; `proposed`: how many plans each run has stored |
| `IntakeWorkflow` | `workflows/intake_categorisation_workflow.py`, around it the queue, the duplicate memory and resubmissions | `st`: the state LangGraph hands on; `node`: the node that is next; `recent`: `RECENT_INCIDENTS`; `runs`, `response`: per incident and attempt; `plans`, `posted`: how many plans the nodes of a run, and its requests to the agent API, have stored; `requests`: those that are not served yet |
| `IntakeWorkflowProofs` | the inductive invariant of `IntakeWorkflow` and its proof | |
| `CodeFix` | `agents/code_fix.py` and the checkout of `_ensure_repo_checkout` | `branches`, `head`, `tip`, `index`, `work`: the shared checkout; `origin`, `pushed`, `prs`: the remote; `pc`, `cur`: the point of the run |
| `CodeFixProofs` | the inductive invariant of `CodeFix` and its proof | |
| `DbFix` | `db_fix/agents/db_fix_agent.py` and the services it calls | `row`, `rules`, `history`: tables of the target database; `offered`, `status`, `result`: plans; `run`: local variables of `execute` |
| `DbFixProofs` | the inductive invariant of `DbFix` and its proof | |
| `Categorisation` | `governance/guardrails.py`, `categorization_layer/`, the node of the graph that follows | `recent`: `RECENT_INCIDENTS`; `decision`: level, technology, confidence and duplicate of the event; `outcome`: the next node and whether a person reviews; `automatic`: history, what was analysed without one |
| `CategorisationProofs` | the inductive invariant of `Categorisation` and its proof | |
| `L3Analysis` | `agents/l3_rca/`, the gates at the start of `run_codefix` | `source`: the checkout; `records`: `SourceEvidence.records`; `diagnosis`, `bound`, `review`, `result`: what `_verify_result` and the scoring make of an answer; `outcome`: what `run_codefix` makes of the report |
| `L3AnalysisProofs` | the inductive invariant of `L3Analysis` and its proof | |
| `CodeKnowledge` | the checkout of `prepare_l3_context`, `phases/`, `rag/indexing` | `disk`: the caches; `write`: the one being written; `graph`: Neo4j; `vectors`: the vector store; `infos`: the `FileInfo` in memory; `pc`, `todo`: the point of the ingestion |
| `CodeKnowledgeProofs` | the inductive invariant of `CodeKnowledge` and its proof | |
| `EventQueue` | `issuelayer/intake/queue.py` | `rows`, `torn`: the file; `op`: the call that holds the lock and writes; `holds`: what each worker has claimed |
| `QueueContract` | what the file queue promises its callers, with no file, lock or threads | `stage` of an event, `alive` |
| `Connectors` (extends `EventQueue`) | `issuelayer/connectors/`, `issuelayer/intake/normalizers/` | `queued`, `deduped`: history of what the handlers answered |
| `ConnectorsProofs` | the inductive invariant of `EventQueue` and `Connectors` and its proof | |
| `MCJobWorker`, `MCJobStoreTxn`, `MCCodeFix`, `MCIntakeWorkflow`, `MCDbFix`, `MCCategorisation`, `MCL3Analysis`, `MCCodeKnowledge`, `MCConnectors` | instances for TLC | |

How the modules fit together. `JobWorker` knows a run of the workflow by
`RunContract` only: it proposes at most one plan and ends. `IntakeWorkflow`, the
graph itself, implements `RunContract` (`ImplementsRun`). `JobWorker` knows an
executor only by its result; `CodeFix` and `DbFix` are the two executors. The
three meet in `RemediationContract`: in each of them a plan passes once through
its phases (`ImplementsContract` of each module), and the executors have effects
on branches, pull requests, the database and its audit only while the plan is in
the phase that `JobWorker` enters at most once, after an approval
(`EffectsWhileRunning`). Below, `JobWorker` calls the tables only as `JobStore`
says (`UsesTheStore`), and the statements of `JobStoreTxn` implement `JobStore`.
`IntakeWorkflow` takes the result of categorisation, of the L3 analysis and of
the preparation of its context as choices; `Categorisation`, `L3Analysis` and
`CodeKnowledge` are what stands behind them: `NextNode` of `Categorisation` is
the choice of a route, `outcome` of `L3Analysis` decides whether `run_codefix`
has a plan to offer, and an ingestion that raises in `CodeKnowledge` is the
failure of `prepare_l3_context`. `Connectors` composes the three handlers with
the queue they share, and that queue implements `QueueContract`
(`ImplementsQueue`): events are begun in the order in which they came, each is
ended once, a restart gives back all that was in work, and only a write that
is cut off, by the end of the process or by an exception, loses anything.

`JobWorker` has one action per stretch of code between two writes to shared
state. `ClaimJob` ... `NoteFailure` are `run_next_job` for an incident;
`BeginRemediation` ... `ReportFailure` are `approve_and_execute` for a
continuation; `Submit`, `Approve`, `ApproveReturns`, `Reject`, `DecisionRead`
and `DecisionWrite` are the request threads; `Crash` and `Startup` the process.
`ProposeUnsaved`, `StoreRaises`, `OutcomeUnsaved`, `RejectFails` and
`DecisionRaises` are SQLite calls that raise, each with the effect of the
`except` that catches it. The workflow graph appears in `JobWorker` by its
effects only: it records stages, may propose a plan, and returns a completed or
a failed response or raises.

`CodeFix` has one action per git command that changes something: switching and
pulling the base for an incident, the branch of a fix, the dirty test, the
agent's writes, the two scope checks with the discard, `add`, `commit`, `push`
and the pull request, each with its failure. `IntakeWorkflow` has one action per
node; what a node calls (a model, a repository, an agent) returns any of its
results, and `RunRaises` is an exception at any point. `DbFix` has one action
per transaction on the target database and per state of the plan; `LoadChanges`
and `RuleChanges` are the other users of that database.

Writing a file is two steps in `EventQueue` and `CodeKnowledge`, because
`open(..., "w")` empties it before anything is written: `StartWrite` and
`FinishWrite`, with a crash possible between them. `CodeKnowledge` has one action
per file analysed, summarised or embedded and one per transaction on Neo4j.
`L3Analysis` has one action per call of a model or of the ledger and lets the
checkout change between any two. `Categorisation` has one action per stretch
between two calls of the model.

## Runs

| Run | Instance | Shows |
| --- | --- | --- |
| `jobs` | 2 deliveries, 3 jobs, 1 crash, 1 failing write anywhere, a plan without an executor (940 000 states) | the safety of decisions, executions and jobs, what holds in addition while no write has failed, and that the service implements `RemediationContract` |
| `live` | 1 delivery, 3 jobs, 1 crash (51 000 states) | every job ends and every approved plan is settled |
| `txn` | 3 connections, 3 rows, crashes anywhere (10 000 states) | interleaved statements implement the atomic steps of `JobStore` |
| `intake` | 2 incidents with one title, one of them with 2 runs, 3 kinds of domain, the agent API on this server, 1 crash (890 000 states) | plans are grounded, a failure fails the job, the response tells of the plan, twins are reviewed, and `RunContract` |
| `triage` | 164 incidents of two titles, 15 answers of the classifier, every answer of the validator, expiry and crashes at any time (180 000 states) | what reaches an analysis without a person, and that the tables of levels, agents, actions and nodes agree |
| `knowledge` | 2 Java files, a Python file and one in a language without a parser, 2 versions each, 2 pushes, 1 failure of an external system, 1 crash, ingestions without end (1 580 000 states) | a completed ingestion repairs what earlier ones left, calls are of one ingestion, ingestions get through again |
| `l3` | 2 files, 2 records, 1 follow-up, 1 citation and 1 line per diagnosis, 1 change of the checkout (270 000 states) | a repair is planned only for the diagnosis that was reviewed, readiness and confidence agree, the analysis ends |
| `codefix` | 2 plans whose ids share a branch name, 2 files, 8 kinds of command failing once each, 1 crash (195 000 states) | what is committed was checked and is the plan's own, base branches get no fix but by a merge, an executed plan has its pull request |
| `dbfix` | 2 plans, 3 kinds of issue, any statement failing, 1 change by others (450 000 states) | a resolved incident was repaired, the audit is true, repairs are not repeated, a complete repair verifies |
| `queue` | 5 deliveries of 3 sources, 2 events, 2 workers, writes that fail, 1 crash (345 000 states) | what the queue file keeps, what counts as the same error, that it gives out events in order and each to one worker, that every event is worked on |
| `stale_dashboard`, `codefix_foreign` | the smallest instance that shows it | statements of the documents that the code does not keep, see below |

Each module states a `TypeOK`. It is proved where the module has a proof and
holds on the instances of the others as well (add `INVARIANT TypeOK` to the
configuration); no run repeats it, nor the inductive invariants that the proofs
rest on, which were checked the same way before they were proved.

Bounds. `MaxJobs` bounds the rows of the jobs table: three rows are an
incident, its continuation and either a second incident or the resubmission
after a failure, so every pair of jobs that can touch one plan or one delivery
occurs. A fourth row adds a second continuation; that instance passes as well
without crashes (715 000 states). `MaxCrashes` and `MaxFaults` bound the events
that nobody controls; the proofs have no such bound. `failed` in `CodeFix` lets
each kind of command fail once: `checkout`, the `diff` of the dirty gate, `restore`
with the checkout tried instead, `add`, `diff --cached`, `commit`, `push` and the
request for the pull request. Two plans are what it takes for one plan to
meet what another has left, two incidents and two attempts of one of them
(`Retried`) for a duplicate and a resubmission. Three issues are the pool, which is special, and two others;
the statements for the remaining issues have the same form, and one change by
others is enough to make an issue come back between two executions.
In `l3` one citation and one defect line with its evidence are enough for a
diagnosis to cite what was never read, what was read of another version, of
another file, or of other lines; one change of the checkout lets any step see
another version than the one before it. In `knowledge` a call between two Java
files, one of which moves the function that is called, is what a stale edge
needs, and a second push may undo or follow the first. The incidents of
`triage` are the combinations that fall on different sides of every threshold
the properties depend on. In `queue` two events are what one can take the
place, the worker or the fingerprint of, and five deliveries make every pair
that the fingerprint must tell apart and two that it does not.
`CHECK_DEADLOCK` is off where an instance may have nothing left to do when its
bounds are used up; `triage`, `knowledge` and `l3` check for deadlock.
Deliveries and the plans of `DbFix` are symmetric; job ids are not.

Fairness (`FairSpec`). The worker's thread is scheduled and what it calls
returns or raises, a request that has decided runs to its end, a stopped
process is started again (`render.yaml` and the Dockerfile run it under a
supervisor). No fairness is assumed of deliveries, decisions or crashes. In
`IntakeWorkflow` the only assumption is that a run keeps taking steps: what its
nodes call returns or raises; `L3Analysis` assumes the same of an analysis and
`CodeKnowledge` of the ingestions, of which every further incident of the
repository starts one. In `Connectors` a write ends, a stopped process is
started again, a worker without an event claims one if there is one, and a
worker ends the event it has. Nothing is assumed of deliveries, failures,
pushes or edits.

What the violated statements say about the code:

* `DashboardShowsOutcome`: the approve route reads the plan and writes the
  snapshot after the continuation is queued; the worker can finish in between
  and the late write puts `APPROVED` back for good.
* `PrHoldsOnlyItsFix`: `git checkout -b` has no start point, so a fix branch
  starts at the previous plan's branch, and its pull request carries that
  plan's commit too.

What else a reader of the models meets, because the code does it, and what the
properties have to leave out:

* Recovery turns a stored `EXECUTED` into `EXECUTION_FAILED` when only the job's
  own status was missing (`job_store.py` 73).
* A diagnosis whose domain has no agent is a failed analysis, or ends with no
  word of the skipped step (README 525). A failed incident submitted again
  within ten minutes is taken for a duplicate of itself.
* The nodes of L2 and of its agent turn every failure into a status that says
  completed (`intake_categorisation_workflow.py` 706-710 and 742-748): the job is
  completed and the delivery cannot be submitted again, the exception of
  `FailuresFailTheJob`.
* With `DB_FIX_AGENT_URL` the address of this server, an L2 incident has two
  plans: `AgentExecutor` posts the diagnosis to `/api/v1/execute`, which stores
  one, and the graph's `fix_agent` node stores another. After 120 seconds the
  analysis goes on while the request is still served, so the first plan can be
  stored when the run has failed, or is over. `ImplementsRun` speaks of the plans
  of the nodes, `PlansAreGrounded` of both.
* Three return codes of git are not read (`code_fix.py` 115, 134-136 and
  180-183). A failing `git diff` at the dirty gate passes for a clean checkout,
  so edits that a crash or a failed discard has left are committed for another
  plan: the exception of `PatchIsOwn`, and with a failing `git add` of the last
  conjunct of `ExecutedHasItsPr`. The scope check still holds for them
  (`CommittedWasChecked`).
* The database agent derives its actions again when it executes; they may be
  others than those approved.
* A GitHub event's fingerprint knows neither issue nor repository, so an error
  of one repository hides the same error of another (`github_normaliser.py`
  120): the exception of `DedupedWasQueued`. Comments
  can change the error that is found in an issue, because `extract_traceback`
  searches code fences before plain text and Python before Java
  (`common.py` 21-27), and because the message of a text in the form of an
  incident is cut from body and comments (`github_normaliser.py` 98 and 108-113):
  such an issue can be queued twice when its comments are read differently, and
  so can one whose RCA was done when a restart reset it: the exceptions of
  `OneActivePerDelivery`.
* A queue file that a crash or a full disk has torn is read as an empty queue, and the next
  write makes that permanent (`queue.py` 78 and 100): the exception of
  `EventsSurvive` and `EventsEnd`.
* A torn cache of `phases/` makes every later ingestion of the repository raise
  until somebody deletes it, and so does a Java file that does not parse, or is
  gone after the first scan: `Poisoned`, the exception of `IngestsAgain`. So does
  every JavaScript, TypeScript or Go file: `get_parser` imports
  `parsers.typescript_parser` and `parsers.go_parser` (`file_analysis.py` 30-40,
  called at 121 outside any `try`), and there are only a Python and a Java
  parser, though the repository's README (278-280, 303-304) names five. The
  list of files is never scanned again, and nodes, imports and vectors are
  never deleted.
* With the model unreachable the confidence is 0, but with `AUTO_ROUTE_L2` an
  L2 incident is analysed all the same: the exception of
  `WeakEvidenceIsReviewed` and `AutomaticOnce`. A classifier that answers with
  the level REJECT ends the event without an analysis or a person: the
  exception of `NobodyIsForgotten`. The risk CRITICAL is out of reach, because
  no event of the intake carries a severity.
* A warning about the place of the defect replaces the
  readiness "blocked" with "needs_investigation"; both stop the repair.

Other properties that hold up to a known exception name it in their condition:
`ApprovedHasContinuation` while no write has failed (a `finish` in the `except`
branch that raises leaves a job running, for one), `EndedJobIsShown` without
crashes between finishing a job and writing its snapshot, `CommitStaysInScope`
but for what a plan that has failed since left staged, `TwinsAreReviewed` without expiry,
restart or `AUTO_ROUTE_L2`, `ResolvedMeansRepaired` for pools of more than 45
connections.

## Proofs

`JobWorkerProofs` proves for every set of deliveries, every number of jobs,
crashes and failing writes, from the assumptions of `JobStore` and `JobWorker`
(`MaxJobsAssumption`, `WorkerAssumption`), that `IInv` of `JobWorkerInv` is
inductive, and from it `TypeOK`, `OneContinuation`, `DecisionIsDurable`,
`ExecutedOnlyIfApproved`, `AtMostOneExecution`, `ContinuationFindsApprovedPlan`
and `ExecutionStartsApproved`; that with it `ShownInv` is inductive, and from
that `OneLiveJobPerDelivery`, `ApprovedHasContinuation`, `CompletedJobIsShown`
and `EndedJobIsShown`; that no step touches a finished job, or what is stored of
its plan (`FinishedJobsStay`); that the service implements the contract about
plans (`ImplementsContract`); and that it uses the tables by the steps of
`JobStore` only (`UsesTheStore`).

Why the strengthening is needed. `AtMostOneExecution` depends on the worker
meeting a plan once, so on there being one continuation; that depends on no
approval being accepted after a first one, so on the plan in memory never
going back to `WAITING_FOR_APPROVAL`, through restarts (memory is reloaded from
the table) and through writes that raised (memory and table differ). `PlanInv`
ties the stored verdict to memory, table, continuation and executions; `Ready`
says what holds from the commit of an approval to the claim of its
continuation; `WorkerInv` carries that through the points of `run_next_job`;
`JobInv` says that a job which has not started has no plan, so that a new row
never meets an old plan of the same number. The proof goes action by action;
actions that touch neither plans nor jobs share one lemma. For what is shown,
`JobMoves`, `PlanChanges` and `SnapshotMoves` say once how a row, a stored plan
and a snapshot can change;
`OutcomeInv` says that the outcome of a continuation is stored before its job
ends, `ResultInv` that the result of a run is shown before its job is completed,
and `EndedInv` is `EndedJobIsShown` between the two calls of the except branch.
For the contract, `StepMoves` says that a step moves one plan from one phase to
the next, or none, unless it is a crash, which may lose proposals (`CrashMoves`),
or a restart, which may settle several plans at once (`StartupMoves`): after two
failing writes a continuation stays marked as running while the worker takes the
next one. That needs more rows and faults than the instance of `jobs` has; the
contract allows it by `CutOff`. `DownInv` says that a stopped process has no plan
in memory.

`CodeFixProofs` proves for every set of plans, branches and files, every failing
command and every number of crashes that `FixInv` is inductive, and from it
`TypeOK`, `CommittedWasChecked`, `PatchIsOwn` and `BasesFollowOrigin`; with it
`PrInv` and `StageInv` are inductive, and give `ExecutedHasItsPr` and
`CommitStaysInScope`. The strengthening says that every edit that is staged,
committed or pushed has passed a scope check, that an execution stands on its
own branch from the switch to the push, and that the file of a plan's analysis
is fixed before its first edit is stored, so that a scope once passed stays
passed. An edit is the plan's own unless the `git diff` of a dirty gate has
failed; then it is one that the scope check of the plan accepts (`Accepted`).
`PrInv` follows the plan's own edit from the work tree to the remote branch,
unless one of the two commands of `PatchUnsure` has failed, and `StageInv` says
that what is staged outside a commit was left by a plan whose scope check it
passed and that has failed since (`LeftStaged`). `ImplementsContract` and `EffectsWhileRunning` follow from `FixInv`:
an execution has the status that its point says, ends once (`EndMoves`), and
stands on its own branch when it changes one.

`DbFixProofs` proves for every set of plans, every number of issues and of
changes by others that `DbInv` is inductive, and from it `TypeOK`,
`ResolvedMeansRepaired`, `RepeatedRepairsFollowRelapses`, `AuditIsTrue` and
`CompleteRepairVerifies`. The strengthening ties what is changed and recorded of
the plan in execution to the local variables of `execute` (`ProgressInv`), says
that a plan outside an execution is either untouched or finished with its
record (`PlanInv`), that a repaired issue is over its threshold again only
after others have brought it back (`RelapseInv`), and that undisturbed each
UPDATE leaves exactly the issues still to do (`UndisturbedInv`), which is why
the last of them finds the other metrics repaired. `ImplementsContract` and
`EffectsWhileRunning` follow as for the code fix agent.

`CategorisationProofs` proves for every set of incidents, of answers of the
classifier and every bound on the memory that `TriageInv` is inductive, and from
it `TypeOK`, `WeakEvidenceIsReviewed`, `NobodyIsForgotten` and the action
property `AutomaticOnce`. The properties speak of the outcome, the code decides
before it: the strengthening says at each point of the event where its level,
its confidence and its duplicate flag come from (the rules alone, before the
model is asked; the rules or a confirmed classification, at the review), and
that what went to an analysis is still remembered, which makes a repetition a
duplicate.

`L3AnalysisProofs` proves for every set of files and ranges, every budget and
any number of changes of the checkout that its invariant is inductive, and from
it `TypeOK`, `PlansAreVerified` and `ReadyIsNotLow`. The strengthening says that
from the review on the binding is the one of the current diagnosis and its
records are of one version per file, that a review which lets a repair through
is of the current diagnosis, and that a bound line has a record behind it, so
that such a report scores at least 50 points. `DiagnosisAssumption` says that
`NoDiagnosis` is none of the diagnoses.

`IntakeWorkflowProofs` proves for every set of incidents, titles and domains,
every routing table and any number of attempts and crashes that `RunInv` is
inductive, and from it `TypeOK`, `PlansAreGrounded`, `FailuresFailTheJob`,
`ResponseTellsOfPlan` and `TwinsAreReviewed`. The
strengthening says that an attempt exists only when the ones before it are to be
redone (`QueueInv`), that the running incident owns the only running job
(`OwnerInv`), what the state holds when each node is next (`PointInv`), that a
run proposes as its last act and that its status says so (`ProposalInv`), that
the status of a run with a failure tells of it or is one of L2 (`ReportInv`),
that the agent API is called for a completed analysis (`RequestInv`), and that
the memory holds a title once and whoever was analysed, unless the
conditions that the property excepts hold (`RecentInv`). `IntakeAssumption` says
that no incident is the one for none. `ImplementsRunSafety` is the safety part of
`ImplementsRun`: a step begins a run that has stored nothing, is in one, stores
its first plan, or ends it (`StepOfARun`). `create` gives each plan an id of its
own, so plans are counted, and a second one of a run would be a step that the
contract does not have.

`CodeKnowledgeProofs` proves for every set of files, versions, declarations and
calls, and any number of pushes, failures and crashes that `KnowledgeInv` is
inductive, and from it `TypeOK`, `IngestionRepairs` and `CallsAreOfOneSnapshot`.
The strengthening says that a summary on disk is of the version it stands with
(`CacheInv`), that what an ingestion has in memory is about the checkout
(`InfoInv`), what it has stored by each of its steps (`StoreInv`), and that
every ingestion is of the files of the first scan (`ScanInv`): only so does the
replacement of the calls reach every file with an older one.
`KnowledgeAssumption`, `DeclsAssumption` and `CacheAssumption` are the types of
the constants.

`JobWorkerProofs` also proves for every set of connections and deliveries and every
number of rows, with crashes and lock timeouts anywhere, that `JobStoreTxn`
implements `JobStore` (`ImplementsJobStore`). `TxnInv` says that who has read or
written in a call holds the write lock (`LockInv`), that the committed tables are
then still those the call has read, its draft being these with its own writes
(`DraftInv`), that a job is finished by one caller, while it runs (`FinishInv`),
and that ids have no gap, so that the newest row is the one just inserted
(`PrefixInv`). With it each commit is one step of `JobStore` (`CommitIsAtomic`)
and every other statement none. `ConnectionAssumption` says that `NoConnection`
is no connection. `UsesTheStore` is the other half: what `JobStore` assumes of
its callers, that only a running job is finished, is what the worker does.

`ConnectorsProofs` proves for every set of deliveries and fingerprints, every
number of events, workers and crashes that `QueueInv` is inductive, and from it
`TypeOK`, `EventsSurvive`, `OneActivePerDelivery`, `DedupedWasQueued` and
`ImplementsQueue`. The lock is held over a write in two steps, so the parts of
the strengthening are said of what the file holds and of what the call is about
to write, its `Content`: each row is an event that was pushed, with its
fingerprint, and the rows are in the order of the pushes (`Wellformed`); no two
active rows have one fingerprint, unless a restart has reset an event whose RCA
was done (`OneActive`); the file is torn while a call writes it in a running
process, or because a write was cut off (`LockInv`); an event is with one worker at
most, and in work as long as it is with one or being claimed (`WorkInv`); what
is deleted is not there any more (`DroppedInv`); and an event in the history is
what its delivery is normalised to (`HistoryInv`), so that equal deliveries mean
equal fingerprints wherever the comments of an issue decide nothing
(`OneEvent`). `RemoveAtFacts` says what is left of a row that is deleted.

For the refinement the stage of an event is read off its row in `Content`
(`StageOf`), so that a call takes effect when it gets the lock. That a row is
at one stage needs the order of the rows; that the first pending row is the
oldest event that waits needs it too (`ClaimImplements`); that the call of a
worker never ends an event a second time, or one that waits again, needs
`WorkInv` (`EndImplements`); and that a write that is cut off loses what was there
and does not bring back what was deleted needs `DroppedInv` and `LockInv`
(`CrashImplements`, `WriteFailsImplements`). `QueueAssumption`, `DeliveryAssumption` and
`PrintAssumption` are the types of the constants.

Every theorem rests on the named assumptions about the constants of its module
only.

Only model-checked: liveness and fairness (`EveryJobEnds`,
`ImplementsFairContract`, `EventsEnd`,
`IngestsAgain`, `AnalysisEnds`, and the liveness of the two contracts). Liveness
under fairness and `ENABLED` are out of TLAPS's reach, as is induction over data
for recursive definitions; those stay with TLC. Every safety property of a
passing run is proved.

## Abstractions

Ids are insertion ranks, so the order by `created` is the order of insertion:
the clock is taken not to step back. A plan carries only its status; every
status that an executor reports on success is `EXECUTED`. A snapshot is one
status per job, and the history limit of 100 executions is not reached. Only one
process runs at a time: `worker_lock` refuses a second worker. A SQLite call is
taken to raise before it has committed. In `CodeFix` an edit is a file and the
plan that made it; paths are normalised names. In `IntakeWorkflow` a title
stands for title and technology, a confidence or a risk for whether it asks for
a review; a POST of the L2 agent is a request that is served later, or never, and
one to another server is left out, as is the model call's key rotation. The
plans that such requests store pass through `JobWorker`'s contract like others
once they are approved, but `JobWorker` does not create them. In `Connectors` a
text is known by the error in the traceback that `extract_traceback` takes and by
the first 300 characters of a text in the form of an incident; a delivery of
GitHub has one or more texts, one for each state of its comments. In `EventQueue` `stats` is left out: it
reads without the lock and changes nothing; so is the deletion of an event that
is not there and the clearing of an empty queue, which write what is there again; the branch of the handlers that
answers `received_not_queued` is reached by no event; the workers are outside
the repository and follow the doc strings of the queue. In `Categorisation`
lists of keywords are choices of the incident and confidences are percents;
`Expire` happens between events, because one is categorised in far less than the
ten minutes. In `L3Analysis` a digest is a version, evidence is a file, its
version and a range, and whatever a model is asked it may answer. In
`CodeKnowledge` the content of a file is a version, of which the constants say
what it declares, calls and imports; classes, exports and folders are written
like functions and imports. In `DbFix` a metric is over its threshold or not,
`automated` is left out because the execution does not read it, and whoever
fills `database_health` is taken to call a row healthy only when it is.

## Not modelled

* The event stream of the dashboard (record, publish, the bounded queues): a
  subscriber that misses an event reads the whole snapshot with its next
  request, which is what the models have.
* `IntakeDedupe`, the Redis claim: nothing in the repository calls it.
* Retrieval: one pass from an incident to ranked chunks, without state of its
  own. `L3Analysis` takes what it finds as a choice.
* Parsers, prompts, skills, embeddings: text in, text or records out.
* `phases/vector_ingest.py` and the older RCA agent: not on the way of an incident.
* Observability, the RCA report store, reports and notes of the database agent:
  written, and read by no step.
* Configuration, frontend, evaluation and scripts: constants, rendering and
  offline tools.

Left to do: proofs that tie the choices of `IntakeWorkflow` to `Categorisation`
and `L3Analysis`. Liveness stays with TLC.
