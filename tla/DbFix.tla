------------------------------- MODULE DbFix --------------------------------
(***************************************************************************)
(* db_fix/agents/db_fix_agent.py: plans for one target database, from the  *)
(* reading of its health to the update of the ServiceNow incident.         *)
(*                                                                         *)
(* The agent runs twice for a plan: once to offer actions to a human, and  *)
(* once, after the approval, to execute.  The second run reads the health  *)
(* and derives the actions again.  Every statement is a transaction on a   *)
(* connection of its own, and every one of them can raise.                 *)
(*                                                                         *)
(* An issue is the number of its threshold in DiagnosisService.  The CASE  *)
(* of every UPDATE of ExecutionService negates the other four thresholds;  *)
(* a metric is therefore modelled by whether it exceeds its threshold.     *)
(***************************************************************************)
EXTENDS Naturals

CONSTANTS
  Plans,        \* remediation plans for the database, one per incident
  IssueCount,   \* thresholds of DiagnosisService
  PoolFits,     \* max_connections > 45, what the repair of the pool leaves
  NoPlan,
  MaxChanges    \* bound on what others do to the database

ASSUME DbFixAssumption ==
  /\ IssueCount \in Nat \ {0}
  /\ PoolFits \in BOOLEAN
  /\ NoPlan \notin Plans
  /\ MaxChanges \in Nat

Issues == 1..IssueCount
Pool == 1       \* CONNECTION_POOL_EXHAUSTED

VARIABLES
  row,        \* the row of database_health: metrics over threshold, status
  rules,      \* issues with a row in remediation_rules
  status,     \* plan -> status
  offered,    \* plan -> its actions, as the human sees them
  run,        \* the execution of the worker, or NoRun
  result,     \* plan -> the verification in its execution_result
  history,    \* incident_history: <<plan, issue>>, all with status SUCCESS
  resolved,   \* plans whose ServiceNow incident was set to resolved
  changed,    \* history: <<plan, issue>> of the updates that were committed
  relapsed,   \* history: issues that came back
  changes     \* what others have done so far

vars == <<row, rules, status, offered, run, result, history, resolved, changed,
          relapsed, changes>>

Rows == [bad : SUBSET Issues, status : {"HEALTHY", "CRITICAL"}]

\* Whoever fills the table calls a row HEALTHY only when no metric is over.
Consistent(r) == r.status = "HEALTHY" => r.bad = {}

PlanStatuses == {"none", "planning", "dropped", "WAITING_FOR_APPROVAL", "APPROVED",
                 "REJECTED", "SUCCESS", "EXECUTION_FAILED"}

Runs ==
  [plan      : Plans \cup {NoPlan},
   at        : {"idle", "read", "rules", "execute", "save", "report"},
   issues    : SUBSET Issues,
   actions   : SUBSET Issues,
   todo      : SUBSET Issues,
   saved     : SUBSET Issues,
   verified  : Rows,
   disturbed : BOOLEAN]         \* history: others changed the database meanwhile

Unread == [bad |-> {}, status |-> "CRITICAL"]

NoRun ==
  [plan |-> NoPlan, at |-> "idle", issues |-> {}, actions |-> {}, todo |-> {},
   saved |-> {}, verified |-> Unread, disturbed |-> FALSE]

TypeOK ==
  /\ row \in Rows
  /\ rules \subseteq Issues
  /\ status \in [Plans -> PlanStatuses]
  /\ offered \in [Plans -> SUBSET Issues]
  /\ run \in Runs
  /\ result \in [Plans -> Rows]
  /\ history \subseteq Plans \X Issues
  /\ resolved \subseteq Plans
  /\ changed \subseteq Plans \X Issues
  /\ relapsed \subseteq Issues
  /\ changes \in 0..MaxChanges

Init ==
  /\ row \in {r \in Rows : Consistent(r)}
  /\ rules \in SUBSET Issues
  /\ status = [p \in Plans |-> "none"]
  /\ offered = [p \in Plans |-> {}]
  /\ run = NoRun
  /\ result = [p \in Plans |-> Unread]
  /\ history = {}
  /\ resolved = {}
  /\ changed = {}
  /\ relapsed = {}
  /\ changes = 0

target == <<row, rules, changes, relapsed>>
records == <<result, history, resolved, changed>>
SetStatus(p, s) == status' = [status EXCEPT ![p] = s]

-----------------------------------------------------------------------------
(* The plan for the human: execute with require_approval.                   *)

\* The health is read and diagnosed ...
PlanRead(p) ==
  /\ status[p] = "none"
  /\ SetStatus(p, "planning")
  /\ offered' = [offered EXCEPT ![p] = row.bad]
  /\ UNCHANGED <<run, target, records>>

\* ... and each issue that has a rule becomes an action.
Offer(p) ==
  /\ status[p] = "planning"
  /\ SetStatus(p, "WAITING_FOR_APPROVAL")
  /\ offered' = [offered EXCEPT ![p] = @ \cap rules]
  /\ UNCHANGED <<run, target, records>>

PlanFails(p) ==
  /\ status[p] = "planning"
  /\ SetStatus(p, "dropped")
  /\ offered' = [offered EXCEPT ![p] = {}]
  /\ UNCHANGED <<run, target, records>>

Decide(p) ==
  /\ status[p] = "WAITING_FOR_APPROVAL"
  /\ \E s \in {"APPROVED", "REJECTED"} : SetStatus(p, s)
  /\ UNCHANGED <<offered, run, target, records>>

-----------------------------------------------------------------------------
(* The execution, on the worker's thread.                                   *)

\* One execution at a time.
Begin(p) ==
  /\ run.at = "idle"
  /\ status[p] = "APPROVED"
  /\ run' = [NoRun EXCEPT !.plan = p, !.at = "read"]
  /\ UNCHANGED <<status, offered, target, records>>

ReadHealth ==
  /\ run.at = "read"
  /\ run' = [run EXCEPT !.at = "rules", !.issues = row.bad]
  /\ UNCHANGED <<status, offered, target, records>>

\* An execution of the actions that were approved, whatever the health is now.
MutGeneratePlan ==
  /\ run.at = "rules"
  /\ run' = [run EXCEPT !.at = "execute", !.actions = offered[run.plan],
                        !.todo = offered[run.plan]]
  /\ UNCHANGED <<status, offered, target, records>>

GeneratePlan ==
  /\ run.at = "rules"
  /\ LET actions == run.issues \cap rules
     IN run' = [run EXCEPT !.at = "execute", !.actions = actions, !.todo = actions]
  /\ UNCHANGED <<status, offered, target, records>>

\* An UPDATE that calls the row healthy whatever the other metrics are.
MutRepaired(r, i) == [bad |-> r.bad \ {i}, status |-> "HEALTHY"]

\* An UPDATE whose CASE asks for the metric that it is about to set, too.
MutRepairedLate(r, i) ==
  [bad |-> r.bad \ {i}, status |-> IF r.bad = {} THEN "HEALTHY" ELSE r.status]

\* The UPDATE for an issue: the metric gets a value under its threshold, unless
\* the pool is smaller than that, and the CASE looks at the others.
Repaired(r, i) ==
  [bad    |-> IF i = Pool /\ ~PoolFits THEN r.bad ELSE r.bad \ {i},
   status |-> IF r.bad \ {i} = {} THEN "HEALTHY" ELSE r.status]

RepairNext(i) ==
  /\ run.at = "execute"
  /\ i \in run.todo
  /\ \A j \in run.todo : i <= j
  /\ row' = Repaired(row, i)
  /\ changed' = changed \cup {<<run.plan, i>>}
  /\ UNCHANGED <<offered, rules, changes, relapsed, result, history, resolved>>

Repair ==
  /\ \E i \in Issues : RepairNext(i) /\ run' = [run EXCEPT !.todo = @ \ {i}]
  /\ UNCHANGED status

\* The statement was committed, but the client raises.
RepairUnconfirmed ==
  /\ \E i \in Issues : RepairNext(i)
  /\ SetStatus(run.plan, "EXECUTION_FAILED")
  /\ run' = NoRun

Verify ==
  /\ run.at = "execute"
  /\ run.todo = {}
  /\ run' = [run EXCEPT !.at = "save", !.verified = row]
  /\ UNCHANGED <<status, offered, target, records>>

\* The audit written as the actions are planned.
MutSave ==
  /\ run.at \in {"execute", "save"}
  /\ \E i \in run.actions \ run.saved :
       /\ \A j \in run.actions \ run.saved : i <= j
       /\ history' = history \cup {<<run.plan, i>>}
       /\ run' = [run EXCEPT !.saved = @ \cup {i}]
  /\ UNCHANGED <<status, offered, target, result, resolved, changed>>

\* One row per action.
Save ==
  /\ run.at = "save"
  /\ \E i \in run.actions \ run.saved :
       /\ \A j \in run.actions \ run.saved : i <= j
       /\ history' = history \cup {<<run.plan, i>>}
       /\ run' = [run EXCEPT !.saved = @ \cup {i}]
  /\ UNCHANGED <<status, offered, target, result, resolved, changed>>

Verified(r) == r.status = "HEALTHY"

\* The notification resolves the incident of a verified repair.  It may not get
\* through, and that raises nothing.
Notify ==
  /\ run.at = "save"
  /\ run.saved = run.actions
  /\ run' = [run EXCEPT !.at = "report"]
  /\ \/ resolved' = IF Verified(run.verified) THEN resolved \cup {run.plan} ELSE resolved
     \/ UNCHANGED resolved
  /\ UNCHANGED <<status, offered, target, result, history, changed>>

\* The response says SUCCESS, whatever the verification has found.
Report ==
  /\ run.at = "report"
  /\ result' = [result EXCEPT ![run.plan] = run.verified]
  /\ SetStatus(run.plan, "SUCCESS")
  /\ run' = NoRun
  /\ UNCHANGED <<offered, target, history, resolved, changed>>

\* A step raises, or the process stops and JobStore's recover ends the plan.
Stop ==
  /\ run.at # "idle"
  /\ SetStatus(run.plan, "EXECUTION_FAILED")
  /\ run' = NoRun
  /\ UNCHANGED <<offered, target, records>>

-----------------------------------------------------------------------------
(* The database has other users.                                            *)

Disturb ==
  /\ changes < MaxChanges
  /\ changes' = changes + 1
  /\ run' = IF run.at = "idle" THEN run ELSE [run EXCEPT !.disturbed = TRUE]
  /\ UNCHANGED <<status, offered, records>>

LoadChanges ==
  /\ Disturb
  /\ \E r \in {s \in Rows : Consistent(s)} :
       row' = r /\ relapsed' = relapsed \cup (r.bad \ row.bad)
  /\ UNCHANGED rules

RuleChanges ==
  /\ Disturb
  /\ \E i \in Issues : rules' = IF i \in rules THEN rules \ {i} ELSE rules \cup {i}
  /\ UNCHANGED <<row, relapsed>>

-----------------------------------------------------------------------------
Next ==
  \/ \E p \in Plans : PlanRead(p) \/ Offer(p) \/ PlanFails(p) \/ Decide(p) \/ Begin(p)
  \/ ReadHealth \/ GeneratePlan \/ Repair \/ RepairUnconfirmed \/ Verify
  \/ Save \/ Notify \/ Report \/ Stop
  \/ LoadChanges \/ RuleChanges

Spec == Init /\ [][Next]_vars

-----------------------------------------------------------------------------
\* An incident is resolved only if no metric was over its threshold when the
\* repair was verified: the five statements and the diagnosis agree about what
\* is healthy (execution_service.py, servicenow_notification_service.py 80-90).
\* A pool of at most 45 connections is the exception.
ResolvedMeansRepaired ==
  PoolFits => \A p \in resolved :
    /\ status[p] = "SUCCESS" => result[p].bad = {}
    /\ run.plan = p => run.verified.bad = {}

\* Two plans repair the same issue only if it came back in between: the actions
\* are those that the health calls for when they are executed.
RepeatedRepairsFollowRelapses ==
  PoolFits => \A p, q \in Plans, i \in Issues :
    p # q /\ <<p, i>> \in changed /\ <<q, i>> \in changed => i \in relapsed

\* A row of the audit tells of an update that was committed, and an executed
\* plan has a row for each of its updates (agent, step 9).
AuditIsTrue ==
  /\ history \subseteq changed
  /\ \A p \in Plans : status[p] = "SUCCESS" =>
       \A i \in Issues : <<p, i>> \in changed => <<p, i>> \in history

\* A repair of every issue that the diagnosis found is verified, if nobody
\* else changes the database meanwhile: the last of the statements finds the
\* other metrics repaired.
CompleteRepairVerifies ==
  /\ PoolFits
  /\ run.at \in {"save", "report"}
  /\ ~run.disturbed
  /\ run.issues # {} /\ run.actions = run.issues
  => Verified(run.verified)

-----------------------------------------------------------------------------
(* What the executor owes the worker that starts it (JobWorker).            *)

\* A plan that the worker has taken up still has the status APPROVED.
PhaseOf(p) ==
  CASE status[p] \in {"none", "planning", "dropped"} -> "none"
    [] status[p] = "WAITING_FOR_APPROVAL" -> "proposed"
    [] status[p] = "REJECTED" -> "rejected"
    [] status[p] = "APPROVED" -> IF run.plan = p THEN "running" ELSE "approved"
    [] OTHER -> "settled"

RC == INSTANCE RemediationContract WITH phase <- [p \in Plans |-> PhaseOf(p)]

\* Whatever raises or changes meanwhile, a plan passes once through the contract.
ImplementsContract == RC!Contract

\* The database is repaired, the audit written and the incident resolved for a
\* plan only while it runs (db_fix_agent.py, steps 7 to 11).
EffectsWhileRunning ==
  [][\A p \in Plans :
       (\/ \E i \in Issues : <<p, i>> \in (changed' \ changed) \cup (history' \ history)
        \/ p \in resolved' \ resolved) => PhaseOf(p) = "running"]_vars

-----------------------------------------------------------------------------
(* The invariant behind them.                                               *)

\* The plan that is executed was approved, and how far its run is.
RunInv ==
  /\ run.at = "idle" <=> run.plan = NoPlan
  /\ run.at # "idle" => status[run.plan] = "APPROVED"
  /\ run.actions \subseteq run.issues
  /\ run.todo \subseteq run.actions
  /\ run.at # "execute" => run.todo = {}
  /\ run.at \in {"read", "rules"} => run.actions = {}
  /\ run.at = "report" => run.saved = run.actions
  /\ Consistent(run.verified) \/ ~PoolFits

\* A plan that is not executed yet has changed and recorded nothing.
Untouched(p) ==
  /\ \A i \in Issues : <<p, i>> \notin changed /\ <<p, i>> \notin history
  /\ p \notin resolved

\* What the plan in execution has changed, recorded and resolved so far.
ProgressInv ==
  LET p == run.plan IN
  run.at # "idle" =>
    /\ \A i \in Issues : <<p, i>> \in changed <=> i \in run.actions \ run.todo
    /\ \A i \in Issues : <<p, i>> \in history <=> i \in run.saved
    /\ run.saved \subseteq run.actions \ run.todo
    /\ run.saved # {} => run.at \in {"save", "report"}
    /\ p \in resolved => run.at = "report" /\ Verified(run.verified)

PlanInv ==
  /\ history \subseteq changed
  /\ \A p \in Plans :
       /\ status[p] \notin {"SUCCESS", "EXECUTION_FAILED"} /\ p # run.plan => Untouched(p)
       /\ status[p] = "SUCCESS" =>
            /\ \A i \in Issues : <<p, i>> \in changed => <<p, i>> \in history
            /\ p \in resolved => Verified(result[p])
       /\ Consistent(result[p]) \/ ~PoolFits

\* An issue that was repaired is over its threshold again only as a relapse.
RelapseInv ==
  PoolFits =>
    /\ Consistent(row)
    /\ \A p \in Plans, i \in Issues : <<p, i>> \in changed =>
         \/ i \in relapsed
         \/ i \notin row.bad /\ (i \in run.issues => p = run.plan)
    /\ RepeatedRepairsFollowRelapses

\* While nobody else changes the database, the agent knows what is left to do.
UndisturbedInv ==
  PoolFits /\ ~run.disturbed =>
    /\ run.at = "rules" => row.bad = run.issues
    /\ run.at = "execute" =>
         /\ row.bad = (run.issues \ run.actions) \cup run.todo
         /\ run.todo = {} /\ run.actions = run.issues /\ run.issues # {} => Verified(row)

DbInv ==
  /\ TypeOK
  /\ RunInv
  /\ ProgressInv
  /\ PlanInv
  /\ RelapseInv
  /\ UndisturbedInv
  /\ CompleteRepairVerifies
=============================================================================
