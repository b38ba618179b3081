--------------------------- MODULE IntakeWorkflow ---------------------------
(***************************************************************************)
(* workflows/intake_categorisation_workflow.py: the graph that the worker  *)
(* runs for an incident, node by node, with the categorisation's memory of *)
(* recent incidents and the analyses and agents by what they return.  A    *)
(* run that failed or was interrupted can be submitted again.              *)
(*                                                                         *)
(* st is the state that LangGraph hands from node to node; a node returns  *)
(* {**state, ...} with the keys it sets.  _observed_workflow_node records  *)
(* the stage after every node and, like most nodes, can raise; then the    *)
(* worker fails the job, and what the node has done stays done.            *)
(*                                                                         *)
(* approvals.create gives every plan an id of its own, so plans are        *)
(* counted.  Besides the nodes, the agent API of this server stores plans  *)
(* (POST /api/v1/execute), and the L2 analysis calls that API before the   *)
(* graph calls the same agent in a node.                                   *)
(***************************************************************************)
EXTENDS Naturals

CONSTANTS
  Incidents,      \* deliveries
  Titles,         \* pairs of title and technology
  TitleOf,        \* incident -> its title
  Domains,        \* problem domains that the L2 model may name
  AgentOf,        \* domain -> agent of l2_rca's routing table
  Registered,     \* domains with an entry in AGENT_REGISTRY
  AutoRouteL2,    \* AUTO_ROUTE_L2_WITHOUT_HUMAN_REVIEW
  CallsItself,    \* DB_FIX_AGENT_URL is the address of this server
  NoIncident,
  MaxAttempts,    \* bound on the runs of one incident
  Retried,        \* bound: the incidents that have more than one run
  MaxCrashes      \* bound on the crashes of the process

Attempts == 1..MaxAttempts
Runs == Incidents \X Attempts

ASSUME IntakeAssumption ==
  /\ TitleOf \in [Incidents -> Titles]
  /\ AgentOf \in [Domains -> {"db_fix_agent", "manual_review", "unknown_agent"}]
  /\ Registered \subseteq Domains
  /\ {AutoRouteL2, CallsItself} \subseteq BOOLEAN
  /\ NoIncident \notin Incidents /\ NoIncident \notin Runs
  /\ Retried \subseteq Incidents
  /\ MaxAttempts \in Nat \ {0}
  /\ MaxCrashes \in Nat

VARIABLES
  runs,      \* incident -> attempt -> status of its job
  response,  \* incident -> attempt -> status of the run's response
  plans,     \* run -> how many plans its nodes have stored
  requests,  \* runs whose POST to the agent API is not served yet
  posted,    \* run -> how many plans such requests have stored
  recent,    \* RECENT_INCIDENTS: titles, and the incident that put them there
  cur,       \* the incident that runs
  node,      \* the node that is next
  st,        \* the graph's state
  analysed,  \* history: incidents whose analysis was started
  failed,    \* history: runs of which a node has reported a failure
  expired,   \* history: an entry of recent has expired
  crashes    \* crashes so far

jobVars == <<runs, response>>
planVars == <<plans, requests, posted>>
vars == <<runs, response, plans, requests, posted, recent, cur, node, st, analysed,
          failed, expired, crashes>>

JobStatuses == {"none", "pending", "running", "completed", "failed", "interrupted"}

Nodes == {"connector", "normalizer", "guardrails", "categorisation", "l1_placeholder",
          "l2_rca", "fix_agent", "prepare_l3_context", "l3_rca", "save_l3_report",
          "codefix", "build_response"}

RunStatuses ==
  {"none", "source_event_created", "normalised_event_ignored", "normalised",
   "guardrails_passed", "guardrails_blocked", "categorised",
   "l1_placeholder_completed", "l2_rca_completed", "fix_agent_completed",
   "missing_repo_mapping", "ready_for_l3_rca", "l3_rca_completed", "l3_rca_failed",
   "l3_rca_report_saved", "codefix_waiting_for_approval", "codefix_failed"}

\* The keys of IntakeCategorisationState that routes and results depend on;
\* diagnosis is the domain that the L2 model has named.
States ==
  [event     : {"none", "unmapped", "mapped"},
   allowed   : BOOLEAN,
   cat       : {"none", "reject", "review", "L1", "L2", "L3", "other"},
   diagnosis : Domains \cup {"none"},
   l2        : {"none", "completed", "failed"},
   fix       : {"none", "waiting", "failed", "skipped"},
   report    : BOOLEAN,
   codefix   : {"none", "waiting", "failed"},
   status    : RunStatuses]

NoState ==
  [event |-> "none", allowed |-> FALSE, cat |-> "none", diagnosis |-> "none",
   l2 |-> "none", fix |-> "none", report |-> FALSE, codefix |-> "none",
   status |-> "none"]

TypeOK ==
  /\ runs \in [Incidents -> [Attempts -> JobStatuses]]
  /\ response \in [Incidents -> [Attempts -> RunStatuses]]
  /\ {plans, posted} \subseteq [Runs -> Nat]
  /\ requests \subseteq Runs
  /\ recent \subseteq [title : Titles, by : Incidents]
  /\ cur \in Incidents \cup {NoIncident}
  /\ node \in Nodes \cup {"idle", "returned"}
  /\ st \in States
  /\ analysed \subseteq Incidents
  /\ failed \subseteq Runs
  /\ expired \in BOOLEAN
  /\ crashes \in 0..MaxCrashes

Init ==
  /\ runs = [i \in Incidents |-> [n \in Attempts |-> "none"]]
  /\ response = [i \in Incidents |-> [n \in Attempts |-> "none"]]
  /\ plans = [r \in Runs |-> 0] /\ posted = [r \in Runs |-> 0]
  /\ requests = {}
  /\ recent = {}
  /\ cur = NoIncident
  /\ node = "idle"
  /\ st = NoState
  /\ analysed = {}
  /\ failed = {}
  /\ expired = FALSE
  /\ crashes = 0

-----------------------------------------------------------------------------
(* The queue, as JobStore keeps it, and the worker around a run.            *)

Unfinished == {"pending", "running"}
Redone == {"failed", "interrupted"}

\* The attempt that the worker runs, and the run.
Attempt == CHOOSE n \in Attempts : runs[cur][n] = "running"
Own == <<cur, Attempt>>

\* A delivery that no live or completed job holds.
Submit(i) ==
  /\ \E n \in IF i \in Retried THEN Attempts ELSE {1} :
       /\ runs[i][n] = "none"
       /\ \A m \in 1..(n - 1) : runs[i][m] \in Redone
       /\ runs' = [runs EXCEPT ![i][n] = "pending"]
  /\ UNCHANGED <<response, planVars, recent, cur, node, st, analysed, failed, expired, crashes>>

Claim(i) ==
  /\ cur = NoIncident
  /\ \E n \in Attempts :
       /\ runs[i][n] = "pending"
       /\ runs' = [runs EXCEPT ![i][n] = "running"]
  /\ cur' = i
  /\ node' = "connector"
  /\ st' = NoState
  /\ UNCHANGED <<response, planVars, recent, analysed, failed, expired, crashes>>

\* A list that forgets a status.
MutFailedStatuses == {"l3_rca_failed"}

\* run_next_job: the word "failed" in the response's status fails the job.
FailedStatuses == {"l3_rca_failed", "codefix_failed"}

EndRun(jobStatus) ==
  /\ runs' = [runs EXCEPT ![cur][Attempt] = jobStatus]
  /\ cur' = NoIncident
  /\ node' = "idle"
  /\ st' = NoState

Return ==
  /\ node = "returned"
  /\ EndRun(IF st.status \in FailedStatuses THEN "failed" ELSE "completed")
  /\ response' = [response EXCEPT ![cur][Attempt] = st.status]
  /\ UNCHANGED <<planVars, recent, analysed, failed, expired, crashes>>

\* A node, a call that nothing catches, or the recording of a stage raises.
RunRaises ==
  /\ cur # NoIncident
  /\ EndRun("failed")
  /\ UNCHANGED <<response, planVars, recent, analysed, failed, expired, crashes>>

\* The process stops: the restart interrupts the run (JobStore's Recover), and
\* what the categorisation remembered in memory is gone, with the requests that
\* were served.
Crash ==
  /\ crashes < MaxCrashes
  /\ crashes' = crashes + 1
  /\ recent' = {} /\ requests' = {}
  /\ IF cur = NoIncident THEN UNCHANGED <<runs, cur, node, st>> ELSE EndRun("interrupted")
  /\ UNCHANGED <<response, plans, posted, analysed, failed, expired>>

-----------------------------------------------------------------------------
(* Routing.                                                                 *)

\* _is_rejected_or_review comes before the level.
Cleared(s) == s.cat \notin {"none", "reject", "review"}

\* The route that looks at the level alone.
MutAfterCategorisation(s) ==
  IF s.cat = "L1" THEN "l1_placeholder"
  ELSE IF s.cat \in {"L2", "review"} THEN "l2_rca"
  ELSE IF s.cat = "L3" THEN "prepare_l3_context" ELSE "build_response"

AfterCategorisation(s) ==
  CASE Cleared(s) /\ s.cat = "L1" -> "l1_placeholder"
    [] Cleared(s) /\ s.cat = "L2" -> "l2_rca"
    [] Cleared(s) /\ s.cat = "L3" -> "prepare_l3_context"
    [] OTHER -> "build_response"

AfterL3(s) == IF s.status = "l3_rca_completed" THEN "save_l3_report" ELSE "build_response"

RouteAfter(n, s) ==
  CASE n = "connector" -> "normalizer"
    [] n = "normalizer" /\ s.event # "none" -> "guardrails"
    [] n = "guardrails" /\ s.allowed -> "categorisation"
    [] n = "categorisation" -> AfterCategorisation(s)
    [] n = "l2_rca" /\ s.l2 = "completed" /\ s.diagnosis \in Registered -> "fix_agent"
    [] n = "prepare_l3_context" /\ s.status = "ready_for_l3_rca" -> "l3_rca"
    [] n = "l3_rca" -> AfterL3(s)
    [] n = "save_l3_report" /\ s.status = "l3_rca_report_saved" -> "codefix"
    [] n = "build_response" -> "returned"
    [] OTHER -> "build_response"

At(n) == node = n /\ UNCHANGED <<cur, expired, crashes, jobVars>>

\* A node has reported a failure in its result or its status.
Failing(s) == s.l2 = "failed" \/ s.fix = "failed" \/ s.codefix = "failed"
                \/ s.status = "l3_rca_failed"

\* _observed_workflow_node: the new state, and the route it takes.
Observed(s) ==
  /\ st' = s
  /\ node' = RouteAfter(node, s)
  /\ failed' = IF Failing(s) THEN failed \cup {Own} ELSE failed

NothingStored == UNCHANGED planVars

SideEffectFree == NothingStored /\ UNCHANGED <<recent, analysed>>

-----------------------------------------------------------------------------
(* The nodes.                                                               *)

Connector ==
  /\ At("connector")
  /\ Observed([st EXCEPT !.status = "source_event_created"])
  /\ SideEffectFree

\* No event: an ignored payload.  A mapped event names its repository.
Normalizer ==
  /\ At("normalizer")
  /\ \/ Observed([st EXCEPT !.status = "normalised_event_ignored"])
     \/ \E e \in {"unmapped", "mapped"} :
          Observed([st EXCEPT !.event = e, !.status = "normalised"])
  /\ SideEffectFree

Guardrails ==
  /\ At("guardrails")
  /\ \E allowed \in BOOLEAN :
       Observed([st EXCEPT !.allowed = allowed,
                 !.status = IF allowed THEN "guardrails_passed" ELSE "guardrails_blocked"])
  /\ SideEffectFree

\* categorize: the validation rules reject before anything is remembered.
CategoriseInvalid ==
  /\ At("categorisation")
  /\ Observed([st EXCEPT !.cat = "reject", !.status = "categorised"])
  /\ SideEffectFree

Twins == {e \in recent : e.title = TitleOf[cur]}

\* A duplicate check that forgets what it has seen.
MutRemember == UNCHANGED recent

\* check_duplicate: a title that is not there yet is remembered.
Remember ==
  recent' = IF Twins = {} THEN recent \cup {[title |-> TitleOf[cur], by |-> cur]} ELSE recent

\* categorize: after the duplicate check the model may reject, and confidence,
\* risk or a duplicate ask for a review, which L2 may be configured to skip.
Categorise ==
  /\ At("categorisation")
  /\ Remember
  /\ \E level \in {"reject", "L1", "L2", "L3", "other"}, doubtful \in BOOLEAN :
       LET review == /\ doubtful \/ Twins # {}
                     /\ ~(level = "L2" /\ AutoRouteL2)
       IN Observed([st EXCEPT
            !.cat = IF level # "reject" /\ review THEN "review" ELSE level,
            !.status = "categorised"])
  /\ NothingStored /\ UNCHANGED analysed

L1Placeholder ==
  /\ At("l1_placeholder")
  /\ Observed([st EXCEPT !.status = "l1_placeholder_completed"])
  /\ SideEffectFree

\* AgentExecutor: a POST to the database agent.  After 120 seconds the analysis
\* goes on without an answer, while the request may still be served.
Post(domain) ==
  requests' = IF CallsItself /\ AgentOf[domain] = "db_fix_agent"
              THEN requests \cup {Own} ELSE requests

\* L2RCAAgent.analyze: a diagnosis, a report, and then the agent that the
\* routing table names for its domain; one that it cannot call raises, and the
\* node turns every exception into a result.
L2Rca ==
  /\ At("l2_rca")
  /\ \/ /\ Observed([st EXCEPT !.l2 = "failed", !.status = "l2_rca_completed"])
        /\ UNCHANGED requests
     \/ \E d \in Domains :
          /\ Observed([st EXCEPT
               !.diagnosis = d,
               !.l2 = IF AgentOf[d] = "unknown_agent" THEN "failed" ELSE "completed",
               !.status = "l2_rca_completed"])
          /\ Post(d)
  /\ analysed' = analysed \cup {cur}
  /\ UNCHANGED <<plans, posted, recent>>

\* POST /api/v1/execute, in a thread of its own and without a session: the agent
\* stores a plan, or raises before it has.
ServeRequest(r) ==
  /\ requests' = requests \ {r}
  /\ posted' \in {posted, [posted EXCEPT ![r] = @ + 1]}
  /\ UNCHANGED <<plans, recent, cur, node, st, analysed, failed, expired, crashes, jobVars>>

\* create: another plan, with an id of its own.
Proposal == plans' = [plans EXCEPT ![Own] = @ + 1] /\ UNCHANGED <<requests, posted>>

\* A node that calls the agent a second time when the first has failed.
MutFixAgent ==
  /\ At("fix_agent")
  /\ \E r \in {"waiting", "failed"}, k \in 0..2 :
       /\ r = "waiting" => k > 0
       /\ plans' = [plans EXCEPT ![Own] = @ + k]
       /\ Observed([st EXCEPT !.fix = r, !.status = "fix_agent_completed"])
  /\ UNCHANGED <<requests, posted, recent, analysed>>

\* The database agent stores a plan, or raises before or after it has.
FixAgent ==
  /\ At("fix_agent")
  /\ \/ Proposal /\ \E r \in {"waiting", "failed"} :
          Observed([st EXCEPT !.fix = r, !.status = "fix_agent_completed"])
     \/ NothingStored /\ Observed([st EXCEPT !.fix = "failed", !.status = "fix_agent_completed"])
  /\ UNCHANGED <<recent, analysed>>

\* Checkout and ingestion, for an incident that names its repository.
PrepareL3Context ==
  /\ At("prepare_l3_context")
  /\ Observed([st EXCEPT !.status =
       IF st.event = "mapped" THEN "ready_for_l3_rca" ELSE "missing_repo_mapping"])
  /\ SideEffectFree

L3Rca ==
  /\ At("l3_rca")
  /\ \E r \in {"l3_rca_completed", "l3_rca_failed"} : Observed([st EXCEPT !.status = r])
  /\ analysed' = analysed \cup {cur}
  /\ NothingStored /\ UNCHANGED recent

SaveL3Report ==
  /\ At("save_l3_report")
  /\ IF st.status # "l3_rca_completed" THEN Observed(st)
     ELSE Observed([st EXCEPT !.report = TRUE, !.status = "l3_rca_report_saved"])
  /\ SideEffectFree

\* A node that takes every result of run_code_fix for a success.
MutCodeFix ==
  /\ At("codefix")
  /\ \/ Proposal
     \/ NothingStored
  /\ Observed([st EXCEPT !.codefix = "waiting", !.status = "codefix_waiting_for_approval"])
  /\ UNCHANGED <<recent, analysed>>

\* run_code_fix stores a plan and waits, or fails before or after it has.
CodeFix ==
  /\ At("codefix")
  /\ \/ /\ Proposal
        /\ Observed([st EXCEPT !.codefix = "waiting", !.status = "codefix_waiting_for_approval"])
     \/ /\ Proposal \/ NothingStored
        /\ Observed([st EXCEPT !.codefix = "failed", !.status = "codefix_failed"])
  /\ UNCHANGED <<recent, analysed>>

BuildResponse ==
  /\ At("build_response")
  /\ Observed(st)
  /\ SideEffectFree

\* Ten minutes after it was put there, an entry of recent is dropped.
Expire(e) ==
  /\ recent' = recent \ {e}
  /\ expired' = TRUE
  /\ UNCHANGED <<planVars, cur, node, st, analysed, failed, crashes, jobVars>>

-----------------------------------------------------------------------------
RunStep ==
  \/ Connector \/ Normalizer \/ Guardrails \/ CategoriseInvalid \/ Categorise
  \/ L1Placeholder \/ L2Rca \/ FixAgent
  \/ PrepareL3Context \/ L3Rca \/ SaveL3Report \/ CodeFix
  \/ BuildResponse \/ Return

Next ==
  \/ RunStep \/ RunRaises \/ Crash
  \/ \E i \in Incidents : Submit(i) \/ Claim(i)
  \/ \E e \in recent : Expire(e)
  \/ \E r \in requests : ServeRequest(r)

Spec == Init /\ [][Next]_vars

\* The worker's thread is scheduled, and what a node calls returns or raises.
FairSpec == Spec /\ WF_vars(RunStep)

-----------------------------------------------------------------------------
(* What a run guarantees.                                                   *)

\* Nothing is analysed, fixed or planned for an incident that the guardrails
\* blocked, or that the categorisation rejected or gave to a human (lines 248
\* and 859-873); a plan is about an analysis that succeeded: a saved report of
\* L3, or a domain of L2 with an agent, whether a node has stored it or a
\* request that was served in the meantime.
PlansAreGrounded ==
  /\ st.l2 # "none" \/ st.fix # "none" \/ st.report \/ st.codefix # "none" =>
       st.allowed /\ Cleared(st)
  /\ node # "idle" =>
       /\ plans[Own] > 0 =>
            \/ st.report /\ st.codefix # "none"
            \/ st.l2 = "completed" /\ st.diagnosis \in Registered /\ st.fix # "none"
       /\ posted[Own] > 0 =>
            st.l2 = "completed" /\ AgentOf[st.diagnosis] = "db_fix_agent"

\* A run of which a node has reported a failure fails its job, so that the
\* delivery is taken again.  The exception is L2: its node and that of its agent
\* turn every failure into a status that says completed (lines 706-710 and
\* 742-748), and the delivery is a duplicate from then on.
FailuresFailTheJob ==
  \A i \in Incidents, n \in Attempts :
    <<i, n>> \in failed /\ runs[i][n] = "completed" =>
      response[i][n] \in {"l2_rca_completed", "fix_agent_completed"}

\* The response of a completed run tells of its plan, and one that says it is
\* waiting for an approval has a plan to approve (lines 745-757, and
\* job_worker.py 66-68).
ResponseTellsOfPlan ==
  \A i \in Incidents, n \in Attempts : runs[i][n] = "completed" =>
    /\ plans[<<i, n>>] > 0 =>
         response[i][n] \in {"codefix_waiting_for_approval", "fix_agent_completed"}
    /\ response[i][n] = "codefix_waiting_for_approval" => plans[<<i, n>>] > 0

\* Of two incidents with one title, the second goes to a human and not to
\* another analysis, unless ten minutes or a restart lie between them, or L2 is
\* configured to skip reviews (duplicate_service.py 14-92).
TwinsAreReviewed ==
  \A i, j \in analysed : i # j /\ TitleOf[i] = TitleOf[j] =>
    expired \/ crashes > 0 \/ AutoRouteL2

-----------------------------------------------------------------------------
(* What JobWorker assumes of a run.                                         *)

Contract == INSTANCE RunContract
  WITH NoRun <- NoIncident,
       current <- IF cur = NoIncident THEN NoIncident ELSE Own,
       proposed <- plans

\* The nodes of a run store at most one plan, only while it runs, and it ends.
\* What a request stores is not the run's: it has no session, and may come when
\* the run is over.
ImplementsRun == Contract!Run
=============================================================================
