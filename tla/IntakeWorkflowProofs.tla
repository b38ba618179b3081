------------------------ MODULE IntakeWorkflowProofs ------------------------
(***************************************************************************)
(* What IntakeWorkflow guarantees holds for every set of incidents, titles *)
(* and domains, every routing table, any number of attempts and crashes.   *)
(***************************************************************************)
EXTENDS IntakeWorkflow, TLAPS

\* No analysis has said anything yet.
Untouched == st.l2 = "none" /\ st.fix = "none" /\ ~st.report /\ st.codefix = "none"

\* An attempt exists only when the ones before it are to be redone.
QueueInv ==
  \A i \in Incidents, m, n \in Attempts :
    m < n /\ runs[i][n] # "none" => runs[i][m] \in Redone

\* The incident that runs owns the only running job.
OwnerInv ==
  /\ cur = NoIncident <=> node = "idle"
  /\ \A i \in Incidents, n \in Attempts : runs[i][n] = "running" => i = cur
  /\ cur # NoIncident => \E n \in Attempts : runs[cur][n] = "running"

\* What is known of a run: that it has stored a plan, called the agent's API or
\* reported a failure.
Left(r) == plans[r] > 0 \/ posted[r] > 0 \/ r \in requests \/ r \in failed

\* Only a job that was started has left anything.
PlanInv ==
  \A i \in Incidents, n \in Attempts :
    Left(<<i, n>>) => runs[i][n] \notin {"none", "pending"}

Planned == plans[Own] > 0
Called == Own \in requests \/ posted[Own] > 0

\* What is known of the state when a node is next.
PointInv ==
  /\ node \in {"connector", "normalizer", "guardrails", "categorisation", "l1_placeholder",
               "l2_rca", "prepare_l3_context", "l3_rca", "save_l3_report"} => Untouched
  /\ node \in {"categorisation", "l1_placeholder", "l2_rca", "prepare_l3_context", "l3_rca",
               "save_l3_report", "fix_agent", "codefix"} => st.allowed
  /\ node \in {"l1_placeholder", "l2_rca", "prepare_l3_context", "l3_rca", "save_l3_report",
               "fix_agent", "codefix"} => Cleared(st)
  /\ node = "save_l3_report" => st.status = "l3_rca_completed"
  /\ node = "fix_agent" =>
       /\ st.l2 = "completed" /\ st.diagnosis \in Registered
       /\ st.fix = "none" /\ ~st.report /\ st.codefix = "none"
  /\ node = "codefix" => st.l2 = "none" /\ st.fix = "none" /\ st.report /\ st.codefix = "none"

Ends == {"build_response", "returned"}

\* A run proposes as its last act, and its status says so.
ProposalInv ==
  /\ node \notin Ends \cup {"idle"} =>
       ~Planned /\ st.status # "codefix_waiting_for_approval"
  /\ node \in Ends =>
       /\ Planned => st.status \in {"codefix_waiting_for_approval", "codefix_failed",
                                    "fix_agent_completed"}
       /\ st.status = "codefix_waiting_for_approval" => Planned

\* The status of a run that is over tells of its failures, or is one of L2.
Told == FailedStatuses \cup {"l2_rca_completed", "fix_agent_completed"}

ReportInv ==
  /\ node \notin Ends \cup {"idle"} => ~Failing(st) /\ Own \notin failed
  /\ node \in Ends => (Failing(st) \/ Own \in failed => st.status \in Told)

\* The agent's API is called for a domain of that agent, of an analysis that
\* is completed then.
RequestInv ==
  node # "idle" /\ Called =>
    st.l2 = "completed" /\ AgentOf[st.diagnosis] = "db_fix_agent"

\* What the property of twins excepts.
Excused == expired \/ crashes > 0 \/ AutoRouteL2

Entry(i) == [title |-> TitleOf[i], by |-> i]

\* The memory holds a title once; whoever was analysed is in it, and whoever is
\* about to be.
RecentInv ==
  /\ \A e, f \in recent : e.title = f.title => e = f
  /\ Excused \/ \A i \in analysed : Entry(i) \in recent
  /\ node \in {"l1_placeholder", "l2_rca", "prepare_l3_context", "l3_rca"} =>
       Excused \/ Entry(cur) \in recent

RunInv ==
  /\ TypeOK
  /\ QueueInv
  /\ OwnerInv
  /\ PlanInv
  /\ PointInv
  /\ ProposalInv
  /\ ReportInv
  /\ RequestInv
  /\ RecentInv
  /\ PlansAreGrounded
  /\ FailuresFailTheJob
  /\ ResponseTellsOfPlan

-----------------------------------------------------------------------------
(* Attempts, routes and states.                                             *)

LEMMA RunsAreRuns ==
  /\ \A i \in Incidents, n \in Attempts : <<i, n>> \in Runs
  /\ \A r \in Runs : \E i \in Incidents, n \in Attempts : r = <<i, n>>
  BY DEF Runs

\* While an incident runs, its attempt is the job that is running.
LEMMA AttemptRuns ==
  ASSUME QueueInv, OwnerInv, cur \in Incidents, cur # NoIncident
  PROVE  /\ Attempt \in Attempts
         /\ runs[cur][Attempt] = "running"
         /\ \A n \in Attempts : runs[cur][n] = "running" => n = Attempt
<1>1. PICK n \in Attempts : runs[cur][n] = "running"
  BY DEF OwnerInv
<1>2. Attempt \in Attempts /\ runs[cur][Attempt] = "running"
  BY <1>1 DEF Attempt
<1>3. ASSUME NEW m \in Attempts, NEW k \in Attempts,
             runs[cur][m] = "running", runs[cur][k] = "running", m < k
      PROVE  FALSE
  BY <1>3 DEF QueueInv, Redone
<1>4. \A m, k \in Attempts : m < k \/ k < m \/ m = k
  BY DEF Attempts
<1> QED
  BY <1>2, <1>3, <1>4

\* Where the routes lead.
LEMMA Routes ==
  ASSUME NEW s
  PROVE  /\ RouteAfter("connector", s) = "normalizer"
         /\ RouteAfter("normalizer", s) \in {"guardrails", "build_response"}
         /\ RouteAfter("guardrails", s) = IF s.allowed THEN "categorisation" ELSE "build_response"
         /\ RouteAfter("categorisation", s) = AfterCategorisation(s)
         /\ RouteAfter("l1_placeholder", s) = "build_response"
         /\ RouteAfter("l2_rca", s) =
              IF s.l2 = "completed" /\ s.diagnosis \in Registered THEN "fix_agent"
              ELSE "build_response"
         /\ RouteAfter("fix_agent", s) = "build_response"
         /\ RouteAfter("prepare_l3_context", s) =
              IF s.status = "ready_for_l3_rca" THEN "l3_rca" ELSE "build_response"
         /\ RouteAfter("l3_rca", s) =
              IF s.status = "l3_rca_completed" THEN "save_l3_report" ELSE "build_response"
         /\ RouteAfter("save_l3_report", s) =
              IF s.status = "l3_rca_report_saved" THEN "codefix" ELSE "build_response"
         /\ RouteAfter("codefix", s) = "build_response"
         /\ RouteAfter("build_response", s) = "returned"
  BY DEF RouteAfter, AfterL3

LEMMA RoutesOfCategories ==
  ASSUME NEW s
  PROVE  /\ AfterCategorisation(s) \in
              {"l1_placeholder", "l2_rca", "prepare_l3_context", "build_response"}
         /\ AfterCategorisation(s) # "build_response" =>
              Cleared(s) /\ s.cat \in {"L1", "L2", "L3"}
         /\ s.cat = "reject" => AfterCategorisation(s) = "build_response"
  BY DEF AfterCategorisation, Cleared

-----------------------------------------------------------------------------
(* The invariant, conjunct by conjunct for the steps of the graph.          *)

LEMMA RunInvInit == Init => RunInv
<1> SUFFICES ASSUME Init PROVE RunInv
  OBVIOUS
<1>1. NoState \in States
  BY DEF NoState, States, RunStatuses
<1>2. TypeOK
  <2>1. /\ runs \in [Incidents -> [Attempts -> JobStatuses]]
        /\ response \in [Incidents -> [Attempts -> RunStatuses]]
    BY DEF Init, JobStatuses, RunStatuses
  <2>2. crashes \in 0..MaxCrashes
    BY IntakeAssumption DEF Init
  <2>3. {plans, posted} \subseteq [Runs -> Nat] /\ requests \subseteq Runs /\ failed \subseteq Runs
    BY DEF Init
  <2> QED
    BY <1>1, <2>1, <2>2, <2>3 DEF Init, TypeOK
<1>3. QueueInv /\ OwnerInv /\ PlanInv
  <2>1. \A r \in Runs : ~Left(r)
    BY DEF Init, Left
  <2> QED
    BY <2>1, RunsAreRuns DEF Init, QueueInv, OwnerInv, PlanInv
<1>4. PointInv /\ ProposalInv /\ ReportInv /\ RequestInv /\ RecentInv
  BY DEF Init, PointInv, ProposalInv, ReportInv, RequestInv, RecentInv, Ends
<1>5. PlansAreGrounded /\ FailuresFailTheJob /\ ResponseTellsOfPlan
  BY DEF Init, PlansAreGrounded, FailuresFailTheJob, ResponseTellsOfPlan, NoState
<1> QED
  BY <1>2, <1>3, <1>4, <1>5 DEF RunInv

\* A step of the graph changes no job, and nothing but what its own run leaves.
LEMMA NodeStepKeepsJobs ==
  ASSUME RunInv, UNCHANGED <<runs, response, cur, posted>>, node # "idle", node' # "idle",
         plans' = plans \/ Proposal,
         requests' = requests \/ requests' = requests \cup {Own},
         failed' = failed \/ failed' = failed \cup {Own}
  PROVE  /\ QueueInv' /\ OwnerInv' /\ PlanInv' /\ ResponseTellsOfPlan' /\ FailuresFailTheJob'
         /\ {plans', posted'} \subseteq [Runs -> Nat]
         /\ requests' \subseteq Runs /\ failed' \subseteq Runs
         /\ Own' = Own /\ cur \in Incidents
         /\ IF Proposal THEN plans'[Own] = plans[Own] + 1 ELSE plans'[Own] = plans[Own]
<1>1. cur \in Incidents /\ cur # NoIncident
  BY DEF RunInv, TypeOK, OwnerInv
<1>2. Attempt \in Attempts /\ runs[cur][Attempt] = "running"
  BY <1>1, AttemptRuns DEF RunInv
<1>3. Own' = Own /\ Own \in Runs
  BY <1>1, <1>2, RunsAreRuns DEF Attempt, Own
<1>4. QueueInv' /\ OwnerInv'
  BY DEF RunInv, QueueInv, OwnerInv
<1>5. plans \in [Runs -> Nat] /\ posted \in [Runs -> Nat]
      /\ requests \subseteq Runs /\ failed \subseteq Runs
  BY DEF RunInv, TypeOK
<1>6. /\ plans' \in [Runs -> Nat]
      /\ \A r \in Runs : r # Own => plans'[r] = plans[r]
      /\ IF Proposal THEN plans'[Own] = plans[Own] + 1 ELSE plans'[Own] = plans[Own]
  <2>1. CASE Proposal
    BY <1>3, <1>5, <2>1 DEF Proposal
  <2>2. CASE ~Proposal
    BY <1>5, <2>2
  <2> QED
    BY <2>1, <2>2
<1>7. \A i \in Incidents, n \in Attempts :
        /\ <<i, n>> = Own \/ (Left(<<i, n>>)' => Left(<<i, n>>))
        /\ <<i, n>> = Own => runs[i][n] = "running"
        /\ runs[i][n] = "completed" =>
             plans'[<<i, n>>] = plans[<<i, n>>] /\ (<<i, n>> \in failed' => <<i, n>> \in failed)
  <2>1. \A r \in Runs : r # Own => /\ Left(r)' => Left(r)
                                   /\ plans'[r] = plans[r]
                                   /\ r \in failed' => r \in failed
    BY <1>6 DEF Left
  <2>2. \A i \in Incidents, n \in Attempts : <<i, n>> = Own => i = cur /\ n = Attempt
    BY DEF Own
  <2>3. \A i \in Incidents, n \in Attempts : <<i, n>> = Own => runs[i][n] = "running"
    BY <1>2, <2>2
  <2> QED
    BY <2>1, <2>3, RunsAreRuns
<1>8. PlanInv'
  <2> SUFFICES ASSUME NEW i \in Incidents, NEW n \in Attempts, Left(<<i, n>>)'
               PROVE  runs[i][n] \notin {"none", "pending"}
    BY DEF PlanInv
  <2> QED
    BY <1>7 DEF RunInv, PlanInv
<1>9. ResponseTellsOfPlan' /\ FailuresFailTheJob'
  BY <1>7 DEF RunInv, ResponseTellsOfPlan, FailuresFailTheJob
<1>10. requests' \subseteq Runs /\ failed' \subseteq Runs
  BY <1>3, <1>5
<1> QED
  BY <1>1, <1>3, <1>4, <1>5, <1>6, <1>8, <1>9, <1>10

\* Every node has its failures noted.
LEMMA NodesReport ==
  ASSUME \/ Connector \/ Normalizer \/ Guardrails \/ CategoriseInvalid \/ Categorise
         \/ L1Placeholder \/ L2Rca \/ PrepareL3Context \/ L3Rca \/ SaveL3Report
         \/ FixAgent \/ CodeFix \/ BuildResponse
  PROVE  failed' = IF Failing(st') THEN failed \cup {Own} ELSE failed
<1>1. \A s : Observed(s) => failed' = IF Failing(st') THEN failed \cup {Own} ELSE failed
  BY DEF Observed
<1> QED
  BY <1>1 DEF Connector, Normalizer, Guardrails, CategoriseInvalid, Categorise, L1Placeholder,
     L2Rca,
     PrepareL3Context, L3Rca, SaveL3Report, FixAgent, CodeFix, BuildResponse

\* The nodes before an analysis.
LEMMA BeforeAnalysis ==
  ASSUME RunInv, Connector \/ Normalizer \/ Guardrails
  PROVE  RunInv'
<1>1. node # "idle" /\ UNCHANGED <<runs, response, cur, plans, requests, posted>>
  BY DEF Connector, Normalizer, Guardrails, At, SideEffectFree, NothingStored, planVars, jobVars
<1>2. /\ st' \in States /\ Untouched'
      /\ node' \in {"normalizer", "guardrails", "categorisation", "build_response"}
      /\ node' = "categorisation" => st'.allowed
      /\ st'.status \notin {"codefix_waiting_for_approval", "l3_rca_failed"}
  <2>1. CASE Connector
    BY <2>1, Routes DEF Connector, At, Observed, RunInv, TypeOK, PointInv, Untouched, States,
       RunStatuses
  <2>2. CASE Normalizer
    <3>1. node = "normalizer" /\ Untouched /\ st \in States
      BY <2>2 DEF Normalizer, At, RunInv, TypeOK, PointInv
    <3>2. CASE Observed([st EXCEPT !.status = "normalised_event_ignored"])
      BY <3>1, <3>2, Routes DEF Observed, Untouched, States, RunStatuses
    <3>3. ASSUME NEW e \in {"unmapped", "mapped"},
                 Observed([st EXCEPT !.event = e, !.status = "normalised"])
          PROVE  /\ st' \in States /\ Untouched' /\ st'.status = "normalised"
                 /\ node' \in {"guardrails", "build_response"}
      BY <3>1, <3>3, Routes DEF Observed, Untouched, States, RunStatuses
    <3> QED
      BY <2>2, <3>2, <3>3 DEF Normalizer
  <2>3. CASE Guardrails
    <3>1. PICK allowed \in BOOLEAN :
            Observed([st EXCEPT !.allowed = allowed,
              !.status = IF allowed THEN "guardrails_passed" ELSE "guardrails_blocked"])
      BY <2>3 DEF Guardrails
    <3>2. node = "guardrails" /\ Untouched /\ st \in States
      BY <2>3 DEF Guardrails, At, RunInv, TypeOK, PointInv
    <3>3. CASE allowed
      BY <3>1, <3>2, <3>3, Routes DEF Observed, Untouched, States, RunStatuses
    <3>4. CASE ~allowed
      BY <3>1, <3>2, <3>4, Routes DEF Observed, Untouched, States, RunStatuses
    <3> QED
      BY <3>3, <3>4
  <2> QED
    BY <2>1, <2>2, <2>3
<1>3. node \notin Ends /\ ~Failing(st') /\ failed' = failed
  <2>1. node \notin Ends
    BY DEF Connector, Normalizer, Guardrails, At, Ends
  <2>2. ~Failing(st')
    <3>1. st'.status # "l3_rca_failed"
      BY <1>2
    <3> QED
      BY <1>2, <3>1 DEF Failing, Untouched
  <2> QED
    BY <2>1, <2>2, NodesReport
<1>4. /\ QueueInv' /\ OwnerInv' /\ PlanInv' /\ ResponseTellsOfPlan' /\ FailuresFailTheJob'
      /\ Own' = Own
  BY <1>1, <1>2, <1>3, NodeStepKeepsJobs
<1>5. ~Planned' /\ Own' \notin failed' /\ ~Called'
  <2>1. ~Planned /\ Own \notin failed
    BY <1>1, <1>3 DEF RunInv, ProposalInv, ReportInv
  <2>2. ~Called
    BY <1>1 DEF RunInv, RequestInv, PointInv, Untouched, Connector, Normalizer, Guardrails, At
  <2> QED
    BY <1>1, <1>3, <1>4, <2>1, <2>2 DEF Planned, Called
<1>6. UNCHANGED <<recent, analysed, expired, crashes>>
  BY DEF Connector, Normalizer, Guardrails, At, SideEffectFree
<1>7. TypeOK'
  BY <1>1, <1>2, <1>3, <1>6 DEF RunInv, TypeOK, Nodes
<1>8. PointInv' /\ RecentInv'
  BY <1>1, <1>2, <1>6 DEF RunInv, PointInv, RecentInv, Untouched, Excused, Entry
<1>9. ProposalInv' /\ ReportInv' /\ RequestInv' /\ PlansAreGrounded'
  BY <1>2, <1>3, <1>5
     DEF ProposalInv, ReportInv, RequestInv, PlansAreGrounded, Planned, Called, Untouched, Ends
<1> QED
  BY <1>4, <1>7, <1>8, <1>9 DEF RunInv

\* check_duplicate keeps one entry of a title, and a run that goes on to an
\* analysis has found none, or is excepted.
LEMMA RememberKeepsRecent ==
  ASSUME RunInv, Remember, cur \in Incidents
  PROVE  /\ recent' \subseteq [title : Titles, by : Incidents]
         /\ recent \subseteq recent'
         /\ \A e, f \in recent' : e.title = f.title => e = f
         /\ Twins = {} => Entry(cur) \in recent'
<1>1. TitleOf[cur] \in Titles
  BY IntakeAssumption
<1>2. CASE Twins = {}
  <2>1. recent' = recent \cup {Entry(cur)}
    BY <1>2 DEF Remember, Entry
  <2>2. \A e \in recent : e.title # TitleOf[cur]
    BY <1>2 DEF Twins
  <2> QED
    BY <1>1, <2>1, <2>2 DEF RunInv, TypeOK, RecentInv, Entry
<1>3. CASE Twins # {}
  BY <1>3 DEF Remember, RunInv, TypeOK, RecentInv
<1> QED
  BY <1>2, <1>3

LEMMA Categorising ==
  ASSUME RunInv, CategoriseInvalid \/ Categorise
  PROVE  RunInv'
<1>1. /\ node = "categorisation"
      /\ UNCHANGED <<runs, response, cur, plans, requests, posted, analysed, expired, crashes>>
  BY DEF CategoriseInvalid, Categorise, At, SideEffectFree, NothingStored, planVars, jobVars
<1>2. Untouched /\ st.allowed /\ st \in States /\ cur \in Incidents
  BY <1>1 DEF RunInv, PointInv, TypeOK, OwnerInv
<1>3. /\ st' \in States /\ Untouched' /\ st'.allowed
      /\ st'.status = "categorised"
      /\ node' \in {"l1_placeholder", "l2_rca", "prepare_l3_context", "build_response"}
      /\ node' # "build_response" => Cleared(st')
      /\ node' # "build_response" => Categorise /\ (Twins = {} \/ AutoRouteL2)
  <2>1. CASE CategoriseInvalid
    <3>1. Observed([st EXCEPT !.cat = "reject", !.status = "categorised"])
      BY <2>1 DEF CategoriseInvalid
    <3>2. /\ st' \in States /\ Untouched' /\ st'.allowed
          /\ st'.status = "categorised" /\ st'.cat = "reject"
      BY <1>2, <3>1 DEF Observed, Untouched, States, RunStatuses
    <3>3. node' = AfterCategorisation(st')
      BY <1>1, <3>1, Routes DEF Observed
    <3> QED
      BY <3>2, <3>3, RoutesOfCategories DEF Cleared
  <2>2. CASE Categorise
    <3>1. PICK level \in {"reject", "L1", "L2", "L3", "other"}, doubtful \in BOOLEAN :
            LET review == /\ doubtful \/ Twins # {}
                          /\ ~(level = "L2" /\ AutoRouteL2)
            IN Observed([st EXCEPT
                 !.cat = IF level # "reject" /\ review THEN "review" ELSE level,
                 !.status = "categorised"])
      BY <2>2 DEF Categorise
    <3> DEFINE review == (doubtful \/ Twins # {}) /\ ~(level = "L2" /\ AutoRouteL2)
               cat == IF level # "reject" /\ review THEN "review" ELSE level
    <3>2. Observed([st EXCEPT !.cat = cat, !.status = "categorised"])
      BY <3>1
    <3>3. cat \in {"reject", "review", "L1", "L2", "L3", "other"}
      OBVIOUS
    <3>4. cat \notin {"reject", "review"} => Twins = {} \/ AutoRouteL2
      OBVIOUS
    <3> HIDE DEF cat
    <3>5. /\ st' \in States /\ st'.status = "categorised" /\ st'.cat = cat
          /\ Untouched' /\ st'.allowed
          /\ node' = AfterCategorisation(st')
      BY <1>1, <1>2, <3>2, <3>3, Routes DEF Observed, Untouched, States, RunStatuses
    <3> QED
      BY <2>2, <3>4, <3>5, RoutesOfCategories DEF Cleared
  <2> QED
    BY <2>1, <2>2
<1>4. /\ failed' = failed /\ ~Failing(st')
      /\ QueueInv' /\ OwnerInv' /\ PlanInv' /\ ResponseTellsOfPlan' /\ FailuresFailTheJob'
      /\ Own' = Own
  <2>1. ~Failing(st')
    BY <1>3 DEF Failing, Untouched
  <2>2. failed' = failed
    BY <2>1, NodesReport
  <2> QED
    BY <1>1, <1>3, <2>1, <2>2, NodeStepKeepsJobs
<1>5. ~Planned' /\ Own' \notin failed' /\ ~Called'
  <2>1. ~Planned /\ Own \notin failed /\ ~Called
    BY <1>1, <1>2 DEF RunInv, ProposalInv, ReportInv, RequestInv, Untouched, Ends
  <2> QED
    BY <1>1, <1>4, <2>1 DEF Planned, Called
<1>6. /\ recent' \subseteq [title : Titles, by : Incidents]
      /\ RecentInv'
  <2>1. CASE Remember
    <3>1. /\ recent' \subseteq [title : Titles, by : Incidents]
          /\ recent \subseteq recent'
          /\ \A e, f \in recent' : e.title = f.title => e = f
          /\ Twins = {} => Entry(cur) \in recent'
      BY <1>2, <2>1, RememberKeepsRecent
    <3>2. Entry(cur)' = Entry(cur) /\ Excused' = Excused
      BY <1>1 DEF Entry, Excused
    <3>3. node' # "build_response" => Excused' \/ Entry(cur)' \in recent'
      BY <1>3, <3>1, <3>2 DEF Excused
    <3>4. Excused' \/ \A i \in analysed' : Entry(i) \in recent'
      BY <1>1, <3>1, <3>2 DEF RunInv, RecentInv
    <3> QED
      BY <3>1, <3>3, <3>4 DEF RecentInv, Excused, Entry
  <2>2. CASE UNCHANGED recent /\ node' = "build_response"
    BY <1>1, <2>2 DEF RunInv, TypeOK, RecentInv, Excused, Entry
  <2>3. CategoriseInvalid => UNCHANGED recent
    BY DEF CategoriseInvalid, SideEffectFree
  <2>4. CategoriseInvalid => node' = "build_response"
    <3>1. CategoriseInvalid => st'.cat = "reject" /\ node' = AfterCategorisation(st')
      BY <1>1, <1>2, Routes DEF CategoriseInvalid, Observed, States
    <3> QED
      BY <3>1, RoutesOfCategories
  <2> QED
    BY <2>1, <2>2, <2>3, <2>4 DEF Categorise
<1>7. TypeOK'
  BY <1>1, <1>3, <1>4, <1>6 DEF RunInv, TypeOK, Nodes
<1>8. PointInv'
  BY <1>3 DEF PointInv, Untouched
<1>9. ProposalInv' /\ ReportInv' /\ RequestInv' /\ PlansAreGrounded'
  BY <1>3, <1>4, <1>5
     DEF ProposalInv, ReportInv, RequestInv, PlansAreGrounded, Planned, Called, Untouched, Ends
<1> QED
  BY <1>4, <1>6, <1>7, <1>8, <1>9 DEF RunInv

\* The analyses: nothing is proposed, and only a cleared incident goes on.
LEMMA Analysing ==
  ASSUME RunInv, L1Placeholder \/ L2Rca \/ PrepareL3Context \/ L3Rca \/ SaveL3Report
  PROVE  RunInv'
<1>1. /\ node \in {"l1_placeholder", "l2_rca", "prepare_l3_context", "l3_rca", "save_l3_report"}
      /\ UNCHANGED <<runs, response, cur, plans, posted, recent, expired, crashes>>
  BY DEF L1Placeholder, L2Rca, PrepareL3Context, L3Rca, SaveL3Report, At, SideEffectFree,
     NothingStored, planVars, jobVars
<1>2. Untouched /\ st.allowed /\ Cleared(st) /\ st \in States /\ cur \in Incidents
  BY <1>1 DEF RunInv, PointInv, TypeOK, OwnerInv
<1>3. /\ st' \in States /\ st'.allowed /\ Cleared(st')
      /\ st'.status # "codefix_waiting_for_approval"
      /\ st'.fix = "none" /\ st'.codefix = "none"
      /\ Failing(st') => node' = "build_response" /\ st'.status \in Told
      /\ \/ node' = "build_response"
         \/ node' = "l3_rca" /\ Untouched'
         \/ node' = "save_l3_report" /\ Untouched'
         \/ node' = "codefix" /\ st'.report /\ st'.l2 = "none"
         \/ /\ node' = "fix_agent" /\ st'.l2 = "completed" /\ st'.diagnosis \in Registered
            /\ ~st'.report
      /\ node' = "l3_rca" => node = "prepare_l3_context"
      /\ node' = "save_l3_report" => st'.status = "l3_rca_completed"
      /\ requests' = requests
           \/ /\ requests' = requests \cup {Own}
              /\ st'.l2 = "completed" /\ AgentOf[st'.diagnosis] = "db_fix_agent"
  <2> USE DEF Failing, Told, FailedStatuses
  <2>1. CASE L1Placeholder
    BY <1>2, <2>1, Routes
       DEF L1Placeholder, At, Observed, SideEffectFree, NothingStored, planVars, Untouched, Cleared,
           States, RunStatuses
  <2>2. CASE L2Rca
    <3>1. node = "l2_rca"
      BY <2>2 DEF L2Rca, At
    <3>2. CASE /\ Observed([st EXCEPT !.l2 = "failed", !.status = "l2_rca_completed"])
               /\ UNCHANGED requests
      BY <1>2, <3>1, <3>2, Routes DEF Observed, Untouched, Cleared, States, RunStatuses
    <3>3. ASSUME NEW d \in Domains, Post(d),
                 Observed([st EXCEPT
                   !.diagnosis = d,
                   !.l2 = IF AgentOf[d] = "unknown_agent" THEN "failed" ELSE "completed",
                   !.status = "l2_rca_completed"])
          PROVE  /\ st' \in States /\ st'.allowed /\ Cleared(st')
                 /\ st'.diagnosis = d
                 /\ st'.l2 = IF AgentOf[d] = "unknown_agent" THEN "failed" ELSE "completed"
                 /\ st'.status = "l2_rca_completed"
                 /\ st'.fix = "none" /\ st'.codefix = "none" /\ ~st'.report
                 /\ node' = IF st'.l2 = "completed" /\ st'.diagnosis \in Registered
                            THEN "fix_agent" ELSE "build_response"
                 /\ requests' = requests
                      \/ (requests' = requests \cup {Own} /\ AgentOf[d] = "db_fix_agent")
      <4> DEFINE r == IF AgentOf[d] = "unknown_agent" THEN "failed" ELSE "completed"
      <4>1. Observed([st EXCEPT !.diagnosis = d, !.l2 = r, !.status = "l2_rca_completed"])
        BY <3>3
      <4>2. r \in {"failed", "completed"}
        OBVIOUS
      <4> HIDE DEF r
      <4>3. /\ st' \in States /\ st'.allowed /\ Cleared(st')
            /\ st'.diagnosis = d /\ st'.l2 = r /\ st'.status = "l2_rca_completed"
            /\ st'.fix = "none" /\ st'.codefix = "none" /\ ~st'.report
        BY <1>2, <4>1, <4>2 DEF Observed, Untouched, Cleared, States, RunStatuses
      <4>4. node' = IF st'.l2 = "completed" /\ st'.diagnosis \in Registered
                    THEN "fix_agent" ELSE "build_response"
        BY <3>1, <4>1, Routes DEF Observed
      <4>5. requests' = requests
              \/ (requests' = requests \cup {Own} /\ AgentOf[d] = "db_fix_agent")
        BY <3>3 DEF Post
      <4> QED
        BY <4>3, <4>4, <4>5 DEF r
    <3>4. CASE \E d \in Domains :
                 /\ Observed([st EXCEPT
                      !.diagnosis = d,
                      !.l2 = IF AgentOf[d] = "unknown_agent" THEN "failed" ELSE "completed",
                      !.status = "l2_rca_completed"])
                 /\ Post(d)
      <4>1. PICK d \in Domains :
              /\ st' \in States /\ st'.allowed /\ Cleared(st')
              /\ st'.diagnosis = d
              /\ st'.l2 = IF AgentOf[d] = "unknown_agent" THEN "failed" ELSE "completed"
              /\ st'.status = "l2_rca_completed"
              /\ st'.fix = "none" /\ st'.codefix = "none" /\ ~st'.report
              /\ node' = IF st'.l2 = "completed" /\ st'.diagnosis \in Registered
                         THEN "fix_agent" ELSE "build_response"
              /\ requests' = requests
                   \/ (requests' = requests \cup {Own} /\ AgentOf[d] = "db_fix_agent")
        BY <3>3, <3>4
      <4> QED
        BY <4>1
    <3> QED
      BY <2>2, <3>2, <3>4 DEF L2Rca
  <2>3. CASE PrepareL3Context
    <3>1. PICK r \in {"ready_for_l3_rca", "missing_repo_mapping"} :
            Observed([st EXCEPT !.status = r])
      BY <2>3 DEF PrepareL3Context
    <3> QED
      BY <1>2, <2>3, <3>1, Routes
         DEF PrepareL3Context, At, Observed, SideEffectFree, NothingStored, planVars, Untouched,
             Cleared, States, RunStatuses
  <2>4. CASE L3Rca
    <3>1. PICK r \in {"l3_rca_completed", "l3_rca_failed"} : Observed([st EXCEPT !.status = r])
      BY <2>4 DEF L3Rca
    <3> QED
      BY <1>2, <2>4, <3>1, Routes
         DEF L3Rca, At, Observed, NothingStored, planVars, Untouched, Cleared, States, RunStatuses
  <2>5. CASE SaveL3Report
    <3>1. node = "save_l3_report" /\ st.status = "l3_rca_completed"
      BY <2>5 DEF SaveL3Report, At, RunInv, PointInv
    <3>2. Observed([st EXCEPT !.report = TRUE, !.status = "l3_rca_report_saved"])
      BY <2>5, <3>1 DEF SaveL3Report
    <3>3. requests' = requests
      BY <2>5 DEF SaveL3Report, SideEffectFree, NothingStored, planVars
    <3> QED
      BY <1>2, <3>1, <3>2, <3>3, Routes DEF Observed, Untouched, Cleared, States, RunStatuses
  <2> QED
    BY <2>1, <2>2, <2>3, <2>4, <2>5
<1>4. node # "idle" /\ node' # "idle"
  BY <1>1, <1>3
<1>5. /\ failed' = IF Failing(st') THEN failed \cup {Own} ELSE failed
      /\ QueueInv' /\ OwnerInv' /\ PlanInv' /\ ResponseTellsOfPlan' /\ FailuresFailTheJob'
      /\ requests' \subseteq Runs /\ failed' \subseteq Runs
      /\ Own' = Own
  <2>1. failed' = IF Failing(st') THEN failed \cup {Own} ELSE failed
    BY NodesReport
  <2> QED
    BY <1>1, <1>3, <1>4, <2>1, NodeStepKeepsJobs
<1>6. /\ ~Planned' /\ (Own' \in failed' => Failing(st'))
      /\ Called' => st'.l2 = "completed" /\ AgentOf[st'.diagnosis] = "db_fix_agent"
  <2>1. ~Planned /\ Own \notin failed /\ ~Called
    BY <1>1, <1>2 DEF RunInv, ProposalInv, ReportInv, RequestInv, Untouched, Ends
  <2>2. ~Planned' /\ (Own' \in failed' => Failing(st'))
    BY <1>1, <1>5, <2>1 DEF Planned
  <2>3. Called' => Own \in requests'
    BY <1>1, <1>5, <2>1 DEF Called
  <2> QED
    BY <1>3, <2>1, <2>2, <2>3 DEF Called
<1>7. analysed' = analysed \/ /\ analysed' = analysed \cup {cur}
                              /\ node \in {"l2_rca", "l3_rca"}
  <2>1. L2Rca \/ L3Rca => analysed' = analysed \cup {cur} /\ node \in {"l2_rca", "l3_rca"}
    BY DEF L2Rca, L3Rca, At
  <2>2. L1Placeholder \/ PrepareL3Context \/ SaveL3Report => analysed' = analysed
    BY DEF L1Placeholder, PrepareL3Context, SaveL3Report, SideEffectFree
  <2> QED
    BY <2>1, <2>2
<1>8. TypeOK'
  BY <1>1, <1>2, <1>3, <1>5, <1>7 DEF RunInv, TypeOK, Nodes
<1>9. RecentInv'
  BY <1>1, <1>3, <1>7 DEF RunInv, RecentInv, Excused, Entry
<1>10. PointInv' /\ ProposalInv' /\ ReportInv' /\ RequestInv'
  BY <1>3, <1>6 DEF PointInv, ProposalInv, ReportInv, RequestInv, Untouched, Ends
<1>11. PlansAreGrounded'
  BY <1>3, <1>4, <1>6 DEF PlansAreGrounded, Planned, Called
<1> QED
  BY <1>5, <1>8, <1>9, <1>10, <1>11 DEF RunInv

\* The two nodes that can propose, and the end of the graph.
LEMMA Proposing ==
  ASSUME RunInv, FixAgent \/ CodeFix
  PROVE  RunInv'
<1>1. /\ node \in {"fix_agent", "codefix"}
      /\ UNCHANGED <<runs, response, cur, requests, posted, recent, analysed, expired, crashes>>
      /\ plans' = plans \/ Proposal
  BY DEF FixAgent, CodeFix, Proposal, NothingStored, planVars, At, jobVars
<1>2. /\ st.allowed /\ Cleared(st) /\ st \in States /\ cur # NoIncident
      /\ node = "fix_agent" => st.l2 = "completed" /\ st.diagnosis \in Registered
                                 /\ ~st.report /\ st.codefix = "none"
      /\ node = "codefix" =>
           st.report /\ st.codefix = "none" /\ st.l2 = "none" /\ st.fix = "none"
  BY <1>1 DEF RunInv, PointInv, TypeOK, OwnerInv
<1>3. /\ st' \in States /\ st'.allowed /\ Cleared(st') /\ node' = "build_response"
      /\ st'.l2 = st.l2 /\ st'.diagnosis = st.diagnosis
      /\ \/ /\ st'.l2 = "completed" /\ st'.diagnosis \in Registered /\ st'.fix # "none"
            /\ st'.status = "fix_agent_completed"
         \/ /\ st'.report /\ st'.codefix # "none"
            /\ st'.status = "codefix_failed"
         \/ /\ st'.report /\ st'.codefix # "none" /\ Proposal /\ ~Failing(st')
            /\ st'.status = "codefix_waiting_for_approval"
  <2>1. CASE FixAgent
    <3>1. PICK r \in {"waiting", "failed"} :
            Observed([st EXCEPT !.fix = r, !.status = "fix_agent_completed"])
      BY <2>1 DEF FixAgent
    <3>2. node = "fix_agent"
      BY <2>1 DEF FixAgent, At
    <3> QED
      BY <1>2, <3>1, <3>2, Routes DEF Observed, Cleared, States, RunStatuses
  <2>2. CASE CodeFix
    <3>1. node = "codefix"
      BY <2>2 DEF CodeFix, At
    <3>2. CASE Proposal /\ Observed([st EXCEPT !.codefix = "waiting",
                                               !.status = "codefix_waiting_for_approval"])
      BY <1>2, <3>1, <3>2, Routes DEF Observed, Cleared, Failing, States, RunStatuses
    <3>3. CASE Observed([st EXCEPT !.codefix = "failed", !.status = "codefix_failed"])
      BY <1>2, <3>1, <3>3, Routes DEF Observed, Cleared, States, RunStatuses
    <3> QED
      BY <2>2, <3>2, <3>3 DEF CodeFix
  <2> QED
    BY <2>1, <2>2
<1>4. /\ QueueInv' /\ OwnerInv' /\ PlanInv' /\ ResponseTellsOfPlan' /\ FailuresFailTheJob'
      /\ {plans', posted'} \subseteq [Runs -> Nat] /\ failed' \subseteq Runs
      /\ Own' = Own
      /\ Proposal => plans'[Own] = plans[Own] + 1
  <2>1. failed' = failed \/ failed' = failed \cup {Own}
    BY NodesReport
  <2> QED
    BY <1>1, <1>3, <2>1, NodeStepKeepsJobs
<1>5. Proposal => Planned'
  <2>1. Own \in Runs /\ plans[Own] \in Nat
    <3>1. cur \in Incidents /\ Attempt \in Attempts
      BY <1>2, AttemptRuns DEF RunInv, TypeOK
    <3> QED
      BY <3>1, RunsAreRuns DEF Own, RunInv, TypeOK
  <2> QED
    BY <1>4, <2>1 DEF Planned
<1>6. TypeOK'
  BY <1>1, <1>3, <1>4 DEF RunInv, TypeOK, Nodes
<1>7. PointInv' /\ RecentInv'
  BY <1>1, <1>3 DEF RunInv, PointInv, RecentInv, Excused, Entry
<1>8. ProposalInv' /\ ReportInv'
  <2>1. node' \in Ends /\ node' # "idle"
    BY <1>3 DEF Ends
  <2>2. CASE st'.status \in {"fix_agent_completed", "codefix_failed"}
    <3>1. st'.status \in Told /\ st'.status # "codefix_waiting_for_approval"
      BY <2>2 DEF Told, FailedStatuses
    <3> QED
      BY <2>1, <2>2, <3>1 DEF ProposalInv, ReportInv
  <2>3. CASE st'.status = "codefix_waiting_for_approval"
    <3>1. Planned' /\ ~Failing(st')
      BY <1>3, <1>5, <2>3
    <3>2. failed' = failed /\ Own' \notin failed
      BY <1>1, <1>4, <3>1, NodesReport DEF RunInv, ReportInv, Ends
    <3> QED
      BY <2>1, <2>3, <3>1, <3>2 DEF ProposalInv, ReportInv
  <2> QED
    BY <1>3, <2>2, <2>3
<1>9. RequestInv'
  BY <1>1, <1>3, <1>4 DEF RunInv, RequestInv, Called
<1>10. PlansAreGrounded'
  BY <1>3, <1>9 DEF PlansAreGrounded, RequestInv, Called
<1> QED
  BY <1>4, <1>6, <1>7, <1>8, <1>9, <1>10 DEF RunInv

LEMMA Responding ==
  ASSUME RunInv, BuildResponse
  PROVE  RunInv'
<1>1. /\ node = "build_response" /\ node' = "returned" /\ st' = st
      /\ UNCHANGED <<runs, response, cur, plans, requests, posted, recent, analysed, expired,
                     crashes>>
  BY Routes DEF BuildResponse, At, Observed, SideEffectFree, NothingStored, planVars, jobVars
<1>2. failed' = IF Failing(st) THEN failed \cup {Own} ELSE failed
  BY <1>1, NodesReport DEF Failing
<1>3. /\ QueueInv' /\ OwnerInv' /\ PlanInv' /\ ResponseTellsOfPlan' /\ FailuresFailTheJob'
      /\ failed' \subseteq Runs
      /\ Own' = Own
  BY <1>1, <1>2, NodeStepKeepsJobs
<1>4. TypeOK' /\ PointInv' /\ RecentInv'
  BY <1>1, <1>3 DEF RunInv, TypeOK, Nodes, PointInv, RecentInv, Excused, Entry
<1>5. ProposalInv' /\ RequestInv' /\ PlansAreGrounded'
  BY <1>1, <1>3 DEF RunInv, ProposalInv, RequestInv, PlansAreGrounded, Planned, Called, Ends
<1>6. ReportInv'
  BY <1>1, <1>2, <1>3 DEF RunInv, ReportInv, Failing, Ends
<1> QED
  BY <1>3, <1>4, <1>5, <1>6 DEF RunInv

-----------------------------------------------------------------------------
(* The steps of the queue, the worker and the process.                      *)

\* The only running job is the one that CHOOSE finds.
LEMMA ChosenAttempt ==
  ASSUME NEW f, NEW k \in Attempts, f[k] = "running",
         \A n \in Attempts : f[n] = "running" => n = k
  PROVE  (CHOOSE n \in Attempts : f[n] = "running") = k
  OBVIOUS

\* The attempt stays while the same jobs of the incident run.
LEMMA SameAttempt ==
  ASSUME RunInv, cur # NoIncident, cur' = cur,
         \A n \in Attempts : runs'[cur][n] = "running" <=> runs[cur][n] = "running"
  PROVE  Own' = Own
<1>1. cur \in Incidents
  BY DEF RunInv, TypeOK
<1>2. /\ Attempt \in Attempts /\ runs[cur][Attempt] = "running"
      /\ \A n \in Attempts : runs[cur][n] = "running" => n = Attempt
  BY <1>1, AttemptRuns DEF RunInv
<1>3. (CHOOSE n \in Attempts : runs'[cur][n] = "running") = Attempt
  BY <1>2, ChosenAttempt
<1> QED
  BY <1>3 DEF Own, Attempt

LEMMA Submitting ==
  ASSUME RunInv, NEW i \in Incidents, Submit(i)
  PROVE  RunInv'
<1>1. PICK n \in Attempts :
        /\ runs[i][n] = "none"
        /\ \A m \in 1..(n - 1) : runs[i][m] \in Redone
        /\ runs' = [runs EXCEPT ![i][n] = "pending"]
  <2>1. 1 \in Attempts
    BY IntakeAssumption DEF Attempts
  <2> QED
    BY <2>1 DEF Submit
<1>2. UNCHANGED <<response, plans, requests, posted, recent, cur, node, st, analysed, failed,
                  expired, crashes>>
  BY DEF Submit, planVars
<1>3. runs \in [Incidents -> [Attempts -> JobStatuses]]
  BY DEF RunInv, TypeOK
<1>4. runs' \in [Incidents -> [Attempts -> JobStatuses]]
  BY <1>1, <1>3 DEF JobStatuses
<1>5. \A j \in Incidents, k \in Attempts :
        runs'[j][k] = IF j = i /\ k = n THEN "pending" ELSE runs[j][k]
  BY <1>1, <1>3
<1>6. QueueInv'
  <2>1. \A m \in Attempts : m < n => m \in 1..(n - 1)
    BY DEF Attempts
  <2> QED
    BY <1>1, <1>5, <2>1 DEF RunInv, QueueInv, Redone
<1>7. OwnerInv'
  BY <1>1, <1>2, <1>5 DEF RunInv, OwnerInv, TypeOK
<1>8. PlanInv'
  BY <1>1, <1>2, <1>5 DEF RunInv, PlanInv, Left
<1>9. cur # NoIncident => Own' = Own
  BY <1>1, <1>2, <1>5, SameAttempt DEF RunInv, TypeOK
<1>10. TypeOK' /\ PointInv' /\ RecentInv'
  BY <1>2, <1>4 DEF RunInv, TypeOK, PointInv, RecentInv, Untouched, Excused, Entry
<1>11. ProposalInv' /\ ReportInv' /\ RequestInv' /\ PlansAreGrounded'
  <2>1. CASE cur # NoIncident
    BY <1>2, <1>9, <2>1
       DEF RunInv, ProposalInv, ReportInv, RequestInv, PlansAreGrounded, Planned, Called, Failing,
           Cleared, Ends
  <2>2. CASE cur = NoIncident
    <3>1. node' = "idle" /\ st' = st
      BY <1>2, <2>2 DEF RunInv, OwnerInv
    <3> QED
      BY <1>2, <3>1 DEF RunInv, ProposalInv, ReportInv, RequestInv, PlansAreGrounded, Cleared, Ends
  <2> QED
    BY <2>1, <2>2
<1>12. ResponseTellsOfPlan' /\ FailuresFailTheJob'
  BY <1>1, <1>2, <1>5 DEF RunInv, ResponseTellsOfPlan, FailuresFailTheJob
<1> QED
  BY <1>6, <1>7, <1>8, <1>10, <1>11, <1>12 DEF RunInv

LEMMA Claiming ==
  ASSUME RunInv, NEW i \in Incidents, Claim(i)
  PROVE  RunInv'
<1>1. PICK n \in Attempts :
        /\ runs[i][n] = "pending"
        /\ runs' = [runs EXCEPT ![i][n] = "running"]
  BY DEF Claim
<1>2. /\ cur = NoIncident /\ cur' = i /\ node' = "connector" /\ st' = NoState
      /\ UNCHANGED <<response, plans, requests, posted, recent, analysed, failed, expired, crashes>>
  BY DEF Claim, planVars
<1>3. runs \in [Incidents -> [Attempts -> JobStatuses]]
  BY DEF RunInv, TypeOK
<1>4. runs' \in [Incidents -> [Attempts -> JobStatuses]]
  BY <1>1, <1>3 DEF JobStatuses
<1>5. \A j \in Incidents, k \in Attempts :
        runs'[j][k] = IF j = i /\ k = n THEN "running" ELSE runs[j][k]
  BY <1>1, <1>3
<1>6. \A j \in Incidents, k \in Attempts : runs[j][k] # "running"
  BY <1>2, IntakeAssumption DEF RunInv, OwnerInv
<1>7. QueueInv'
  BY <1>1, <1>5 DEF RunInv, QueueInv, Redone
<1>8. OwnerInv'
  BY <1>1, <1>2, <1>5, <1>6, IntakeAssumption DEF OwnerInv
<1>9. PlanInv'
  BY <1>1, <1>2, <1>5 DEF RunInv, PlanInv, Left
<1>10. Own' = <<i, n>>
  <2>1. /\ runs'[i][n] = "running"
        /\ \A m \in Attempts : runs'[i][m] = "running" => m = n
    BY <1>5, <1>6
  <2>2. (CHOOSE m \in Attempts : runs'[i][m] = "running") = n
    BY <2>1, ChosenAttempt
  <2> QED
    BY <1>2, <2>2 DEF Own, Attempt
<1>11. ~Planned' /\ ~Called' /\ Own' \notin failed'
  BY <1>1, <1>2, <1>10 DEF RunInv, PlanInv, Planned, Called, Left
<1>12. NoState \in States
  BY DEF NoState, States, RunStatuses
<1>13. TypeOK' /\ RecentInv'
  BY <1>2, <1>4, <1>12 DEF RunInv, TypeOK, RecentInv, Nodes, Excused, Entry
<1>14. PointInv' /\ ProposalInv' /\ ReportInv' /\ RequestInv' /\ PlansAreGrounded'
  BY <1>2, <1>11
     DEF PointInv, ProposalInv, ReportInv, RequestInv, PlansAreGrounded, Planned, Called, Failing,
         Untouched, Ends, NoState
<1>15. ResponseTellsOfPlan' /\ FailuresFailTheJob'
  BY <1>1, <1>2, <1>5 DEF RunInv, ResponseTellsOfPlan, FailuresFailTheJob
<1> QED
  BY <1>7, <1>8, <1>9, <1>13, <1>14, <1>15 DEF RunInv

\* The end of a run, whatever its job becomes.
LEMMA RunEnds ==
  ASSUME RunInv, cur # NoIncident, NEW s \in {"completed", "failed", "interrupted"},
         EndRun(s), UNCHANGED <<plans, posted, analysed, failed>>,
         requests' \subseteq requests
  PROVE  /\ runs' \in [Incidents -> [Attempts -> JobStatuses]]
         /\ cur \in Incidents /\ Attempt \in Attempts
         /\ \A j \in Incidents, k \in Attempts :
              runs'[j][k] = IF j = cur /\ k = Attempt THEN s ELSE runs[j][k]
         /\ st' \in States /\ cur' = NoIncident /\ node' = "idle"
         /\ QueueInv' /\ OwnerInv' /\ PlanInv' /\ PointInv' /\ ProposalInv'
         /\ ReportInv' /\ RequestInv' /\ PlansAreGrounded'
<1>1. cur \in Incidents /\ runs \in [Incidents -> [Attempts -> JobStatuses]]
  BY DEF RunInv, TypeOK
<1>2. /\ Attempt \in Attempts /\ runs[cur][Attempt] = "running"
      /\ \A m \in Attempts : runs[cur][m] = "running" => m = Attempt
  BY <1>1, AttemptRuns DEF RunInv
<1>3. /\ runs' = [runs EXCEPT ![cur][Attempt] = s]
      /\ cur' = NoIncident /\ node' = "idle" /\ st' = NoState
  BY DEF EndRun
<1>4. runs' \in [Incidents -> [Attempts -> JobStatuses]]
  BY <1>1, <1>2, <1>3 DEF JobStatuses
<1>5. \A j \in Incidents, k \in Attempts :
        runs'[j][k] = IF j = cur /\ k = Attempt THEN s ELSE runs[j][k]
  BY <1>1, <1>2, <1>3
<1>6. QueueInv'
  BY <1>1, <1>2, <1>5 DEF RunInv, QueueInv, Redone
<1>7. \A j \in Incidents, k \in Attempts : runs'[j][k] # "running"
  BY <1>2, <1>5 DEF RunInv, OwnerInv
<1>8. OwnerInv'
  BY <1>3, <1>7 DEF OwnerInv
<1>9. PlanInv'
  BY <1>2, <1>5 DEF RunInv, PlanInv, Left
<1>10. st' \in States
  BY <1>3 DEF NoState, States, RunStatuses
<1>11. PointInv' /\ ProposalInv' /\ ReportInv' /\ RequestInv' /\ PlansAreGrounded'
  BY <1>3 DEF PointInv, ProposalInv, ReportInv, RequestInv, PlansAreGrounded, Ends, NoState
<1> QED
  BY <1>1, <1>2, <1>3, <1>4, <1>5, <1>6, <1>8, <1>9, <1>10, <1>11

LEMMA Returning ==
  ASSUME RunInv, Return
  PROVE  RunInv'
<1> DEFINE s == IF st.status \in FailedStatuses THEN "failed" ELSE "completed"
<1>1. /\ node = "returned" /\ cur # NoIncident /\ EndRun(s)
      /\ response' = [response EXCEPT ![cur][Attempt] = st.status]
      /\ UNCHANGED <<plans, requests, posted, recent, analysed, failed, expired, crashes>>
  BY DEF Return, planVars, RunInv, OwnerInv
<1>2. s \in {"completed", "failed", "interrupted"}
  OBVIOUS
<1>3. s = "completed" => st.status \notin FailedStatuses
  OBVIOUS
<1> HIDE DEF s
<1>4. /\ runs' \in [Incidents -> [Attempts -> JobStatuses]]
      /\ cur \in Incidents /\ Attempt \in Attempts
      /\ \A j \in Incidents, k \in Attempts :
           runs'[j][k] = IF j = cur /\ k = Attempt THEN s ELSE runs[j][k]
      /\ st' \in States /\ cur' = NoIncident /\ node' = "idle"
      /\ QueueInv' /\ OwnerInv' /\ PlanInv' /\ PointInv' /\ ProposalInv'
      /\ ReportInv' /\ RequestInv' /\ PlansAreGrounded'
  BY <1>1, <1>2, RunEnds
<1>5. response \in [Incidents -> [Attempts -> RunStatuses]] /\ st.status \in RunStatuses
  BY DEF RunInv, TypeOK, States
<1>6. /\ response' \in [Incidents -> [Attempts -> RunStatuses]]
      /\ \A j \in Incidents, k \in Attempts :
           response'[j][k] = IF j = cur /\ k = Attempt THEN st.status ELSE response[j][k]
  BY <1>1, <1>4, <1>5
<1>7. TypeOK' /\ RecentInv'
  BY <1>1, <1>4, <1>6 DEF RunInv, TypeOK, RecentInv, Excused, Entry
<1>8. ResponseTellsOfPlan'
  <2>1. /\ Planned => st.status \in {"codefix_waiting_for_approval", "codefix_failed",
                                     "fix_agent_completed"}
        /\ st.status = "codefix_waiting_for_approval" => Planned
    BY <1>1 DEF RunInv, ProposalInv, Ends
  <2> SUFFICES ASSUME NEW i \in Incidents, NEW n \in Attempts, runs'[i][n] = "completed"
               PROVE  /\ plans[<<i, n>>] > 0 => response'[i][n] \in
                           {"codefix_waiting_for_approval", "fix_agent_completed"}
                      /\ response'[i][n] = "codefix_waiting_for_approval" => plans[<<i, n>>] > 0
    BY <1>1 DEF ResponseTellsOfPlan
  <2>2. CASE i = cur /\ n = Attempt
    <3>1. <<i, n>> = Own /\ s = "completed" /\ response'[i][n] = st.status
      BY <1>4, <1>6, <2>2 DEF Own
    <3> QED
      BY <1>3, <2>1, <3>1 DEF Planned, FailedStatuses
  <2>3. CASE ~(i = cur /\ n = Attempt)
    BY <1>4, <1>6, <2>3 DEF RunInv, ResponseTellsOfPlan
  <2> QED
    BY <2>2, <2>3
<1>9. FailuresFailTheJob'
  <2>1. Own \in failed => st.status \in Told
    BY <1>1 DEF RunInv, ReportInv, Ends
  <2> SUFFICES ASSUME NEW i \in Incidents, NEW n \in Attempts,
                      <<i, n>> \in failed, runs'[i][n] = "completed"
               PROVE  response'[i][n] \in {"l2_rca_completed", "fix_agent_completed"}
    BY <1>1 DEF FailuresFailTheJob
  <2>2. CASE i = cur /\ n = Attempt
    <3>1. <<i, n>> = Own /\ s = "completed" /\ response'[i][n] = st.status
      BY <1>4, <1>6, <2>2 DEF Own
    <3> QED
      BY <1>3, <2>1, <3>1 DEF Told
  <2>3. CASE ~(i = cur /\ n = Attempt)
    BY <1>4, <1>6, <2>3 DEF RunInv, FailuresFailTheJob
  <2> QED
    BY <2>2, <2>3
<1> QED
  BY <1>4, <1>7, <1>8, <1>9 DEF RunInv

LEMMA Raising ==
  ASSUME RunInv, RunRaises
  PROVE  RunInv'
<1>1. /\ cur # NoIncident /\ EndRun("failed")
      /\ UNCHANGED <<response, plans, requests, posted, recent, analysed, failed, expired, crashes>>
  BY DEF RunRaises, planVars
<1>2. /\ runs' \in [Incidents -> [Attempts -> JobStatuses]]
      /\ cur \in Incidents /\ Attempt \in Attempts
      /\ \A j \in Incidents, k \in Attempts :
           runs'[j][k] = IF j = cur /\ k = Attempt THEN "failed" ELSE runs[j][k]
      /\ st' \in States /\ cur' = NoIncident /\ node' = "idle"
      /\ QueueInv' /\ OwnerInv' /\ PlanInv' /\ PointInv' /\ ProposalInv'
      /\ ReportInv' /\ RequestInv' /\ PlansAreGrounded'
  BY <1>1, RunEnds
<1>3. TypeOK' /\ RecentInv'
  BY <1>1, <1>2 DEF RunInv, TypeOK, RecentInv, Excused, Entry
<1>4. ResponseTellsOfPlan' /\ FailuresFailTheJob'
  BY <1>1, <1>2 DEF RunInv, ResponseTellsOfPlan, FailuresFailTheJob
<1> QED
  BY <1>2, <1>3, <1>4 DEF RunInv

LEMMA Crashing ==
  ASSUME RunInv, Crash
  PROVE  RunInv'
<1>1. /\ crashes < MaxCrashes /\ crashes' = crashes + 1 /\ recent' = {} /\ requests' = {}
      /\ UNCHANGED <<response, plans, posted, analysed, failed, expired>>
  BY DEF Crash
<1>2. crashes' \in 0..MaxCrashes /\ crashes' > 0
  BY <1>1, IntakeAssumption DEF RunInv, TypeOK
<1>3. RecentInv'
  <2>1. Excused'
    BY <1>2 DEF Excused
  <2> QED
    BY <1>1, <2>1 DEF RecentInv
<1>4. CASE cur = NoIncident
  <2>1. UNCHANGED <<runs, cur, node, st>> /\ node = "idle"
    BY <1>4 DEF Crash, RunInv, OwnerInv
  <2>2. TypeOK'
    BY <1>1, <1>2, <2>1 DEF RunInv, TypeOK
  <2>3. QueueInv' /\ OwnerInv' /\ PlanInv' /\ ResponseTellsOfPlan' /\ FailuresFailTheJob'
    BY <1>1, <2>1
       DEF RunInv, QueueInv, OwnerInv, PlanInv, Left, ResponseTellsOfPlan, FailuresFailTheJob
  <2>4. PointInv' /\ ProposalInv' /\ ReportInv' /\ RequestInv' /\ PlansAreGrounded'
    BY <2>1
       DEF RunInv, PointInv, ProposalInv, ReportInv, RequestInv, PlansAreGrounded, Cleared, Ends
  <2> QED
    BY <1>3, <2>2, <2>3, <2>4 DEF RunInv
<1>5. CASE cur # NoIncident
  <2>1. EndRun("interrupted")
    BY <1>5 DEF Crash
  <2>2. /\ runs' \in [Incidents -> [Attempts -> JobStatuses]]
        /\ cur \in Incidents /\ Attempt \in Attempts
        /\ \A j \in Incidents, k \in Attempts :
             runs'[j][k] = IF j = cur /\ k = Attempt THEN "interrupted" ELSE runs[j][k]
        /\ st' \in States /\ cur' = NoIncident /\ node' = "idle"
        /\ QueueInv' /\ OwnerInv' /\ PlanInv' /\ PointInv' /\ ProposalInv'
        /\ ReportInv' /\ RequestInv' /\ PlansAreGrounded'
    BY <1>1, <1>5, <2>1, RunEnds
  <2>3. TypeOK'
    BY <1>1, <1>2, <2>2 DEF RunInv, TypeOK
  <2>4. ResponseTellsOfPlan' /\ FailuresFailTheJob'
    BY <1>1, <2>2 DEF RunInv, ResponseTellsOfPlan, FailuresFailTheJob
  <2> QED
    BY <1>3, <2>2, <2>3, <2>4 DEF RunInv
<1> QED
  BY <1>4, <1>5

\* What changes neither jobs nor the run: an entry expires, a request is served,
\* or nothing happens.
LEMMA Waiting ==
  ASSUME RunInv, UNCHANGED <<runs, response, plans, cur, node, st, analysed, failed, crashes>>,
         recent' \subseteq recent, expired' \in BOOLEAN,
         expired' \/ UNCHANGED <<recent, expired>>,
         posted' \in [Runs -> Nat], requests' \subseteq requests,
         \A r \in Runs : posted'[r] > 0 => posted[r] > 0 \/ r \in requests
  PROVE  RunInv'
<1>1. Own' = Own
  BY DEF Own, Attempt
<1>2. cur # NoIncident => Own \in Runs
  BY AttemptRuns, RunsAreRuns DEF Own, RunInv, TypeOK
<1>3. TypeOK'
  BY DEF RunInv, TypeOK
<1>4. QueueInv' /\ OwnerInv' /\ ResponseTellsOfPlan' /\ FailuresFailTheJob'
  BY DEF RunInv, QueueInv, OwnerInv, ResponseTellsOfPlan, FailuresFailTheJob
<1>5. PlanInv'
  BY RunsAreRuns DEF RunInv, PlanInv, Left
<1>6. PointInv' /\ ProposalInv' /\ ReportInv'
  BY <1>1 DEF RunInv, PointInv, ProposalInv, ReportInv, Planned, Failing, Untouched, Cleared, Ends
<1>7. RequestInv'
  <2>1. node # "idle" => (Called' => Called)
    BY <1>1, <1>2 DEF Called, RunInv, OwnerInv
  <2> QED
    BY <2>1 DEF RunInv, RequestInv
<1>8. PlansAreGrounded'
  BY <1>1, <1>7 DEF RunInv, PlansAreGrounded, RequestInv, Called, Cleared
<1>9. RecentInv'
  BY DEF RunInv, RecentInv, Excused, Entry
<1> QED
  BY <1>3, <1>4, <1>5, <1>6, <1>7, <1>8, <1>9 DEF RunInv

LEMMA RunInvNext == RunInv /\ [Next]_vars => RunInv'
<1> SUFFICES ASSUME RunInv, [Next]_vars PROVE RunInv'
  OBVIOUS
<1>1. CASE Connector \/ Normalizer \/ Guardrails
  BY <1>1, BeforeAnalysis
<1>2. CASE CategoriseInvalid \/ Categorise
  BY <1>2, Categorising
<1>3. CASE L1Placeholder \/ L2Rca \/ PrepareL3Context \/ L3Rca \/ SaveL3Report
  BY <1>3, Analysing
<1>4. CASE FixAgent \/ CodeFix
  BY <1>4, Proposing
<1>5. CASE BuildResponse
  BY <1>5, Responding
<1>6. CASE Return
  BY <1>6, Returning
<1>7. CASE RunRaises
  BY <1>7, Raising
<1>8. CASE Crash
  BY <1>8, Crashing
<1>9. CASE \E i \in Incidents : Submit(i)
  BY <1>9, Submitting
<1>10. CASE \E i \in Incidents : Claim(i)
  BY <1>10, Claiming
<1>11. CASE \E e \in recent : Expire(e)
  <2>1. /\ UNCHANGED <<runs, response, plans, cur, node, st, analysed, failed, crashes>>
        /\ UNCHANGED <<posted, requests>> /\ posted \in [Runs -> Nat]
        /\ recent' \subseteq recent /\ expired'
    BY <1>11 DEF Expire, planVars, jobVars, RunInv, TypeOK
  <2> QED
    BY <2>1, Waiting
<1>12. ASSUME NEW r \in requests, ServeRequest(r)
       PROVE  RunInv'
  <2>1. /\ UNCHANGED <<runs, response, plans, cur, node, st, analysed, failed, crashes>>
        /\ UNCHANGED <<recent, expired>> /\ expired \in BOOLEAN
        /\ requests' \subseteq requests
        /\ posted' \in {posted, [posted EXCEPT ![r] = @ + 1]}
    BY <1>12 DEF ServeRequest, jobVars, RunInv, TypeOK
  <2>2. /\ posted' \in [Runs -> Nat]
        /\ \A q \in Runs : posted'[q] > 0 => posted[q] > 0 \/ q \in requests
    <3>1. posted \in [Runs -> Nat] /\ r \in Runs
      BY DEF RunInv, TypeOK
    <3>2. CASE posted' = posted
      BY <3>1, <3>2
    <3>3. CASE posted' = [posted EXCEPT ![r] = @ + 1]
      BY <3>1, <3>3
    <3> QED
      BY <2>1, <3>2, <3>3
  <2> QED
    BY <2>1, <2>2, Waiting
<1>13. CASE UNCHANGED vars
  <2>1. /\ UNCHANGED <<runs, response, plans, cur, node, st, analysed, failed, crashes>>
        /\ UNCHANGED <<posted, requests, recent, expired>> /\ expired \in BOOLEAN
        /\ posted \in [Runs -> Nat]
    BY <1>13 DEF vars, RunInv, TypeOK
  <2> QED
    BY <2>1, Waiting
<1> QED
  BY <1>1, <1>2, <1>3, <1>4, <1>5, <1>6, <1>7, <1>8, <1>9, <1>10, <1>11, <1>12, <1>13
     DEF Next, RunStep

-----------------------------------------------------------------------------
(* The theorems.                                                            *)

\* The strengthening holds in every state the graph and its queue reach.
THEOREM RunInvariant == Spec => []RunInv
  BY RunInvInit, RunInvNext, PTL DEF Spec

\* All variables keep their types.
THEOREM RunTypeCorrect == Spec => []TypeOK
<1>1. RunInv => TypeOK
  BY DEF RunInv
<1> QED
  BY <1>1, RunInvariant, PTL

\* No node behind the guardrails and the review touches an incident that they
\* stopped, and a plan rests on an analysis that succeeded.
THEOREM PlansAreGroundedHolds == Spec => []PlansAreGrounded
<1>1. RunInv => PlansAreGrounded
  BY DEF RunInv
<1> QED
  BY <1>1, RunInvariant, PTL

\* A job whose run has reported a failure is not taken for completed, unless the
\* failure is one of L2, which the graph turns into a result.
THEOREM FailuresFailTheJobHolds == Spec => []FailuresFailTheJob
<1>1. RunInv => FailuresFailTheJob
  BY DEF RunInv
<1> QED
  BY <1>1, RunInvariant, PTL

\* The response of a completed run and the stored plans agree.
THEOREM ResponseTellsOfPlanHolds == Spec => []ResponseTellsOfPlan
<1>1. RunInv => ResponseTellsOfPlan
  BY DEF RunInv
<1> QED
  BY <1>1, RunInvariant, PTL

\* Among any number of incidents, no two of one title are analysed without a
\* person in between.
THEOREM TwinsAreReviewedHolds == Spec => []TwinsAreReviewed
<1>1. RunInv => TwinsAreReviewed
  <2> SUFFICES ASSUME RunInv, NEW i \in analysed, NEW j \in analysed,
                      i # j, TitleOf[i] = TitleOf[j], ~Excused
               PROVE  FALSE
    BY DEF TwinsAreReviewed, Excused
  <2>1. Entry(i) \in recent /\ Entry(j) \in recent
    BY DEF RunInv, RecentInv
  <2>2. Entry(i) = Entry(j)
    BY <2>1 DEF RunInv, RecentInv, Entry
  <2> QED
    BY <2>2 DEF Entry
<1> QED
  BY <1>1, RunInvariant, PTL

-----------------------------------------------------------------------------
(* The contract of a run.                                                   *)

\* What a step is to the worker: it begins a run, is in one, stores its plan, or
\* ends it.
LEMMA StepOfARun ==
  ASSUME RunInv, [Next]_vars
  PROVE  \/ plans' = plans /\ cur' = cur /\ (cur # NoIncident => Own' = Own)
         \/ /\ Proposal /\ ~Planned
            /\ cur # NoIncident /\ cur' = cur /\ Own' = Own
         \/ plans' = plans /\ cur # NoIncident /\ cur' = NoIncident
         \/ /\ plans' = plans /\ ~Planned'
            /\ cur = NoIncident /\ cur' # NoIncident /\ Own' \in Runs
<1>1. CASE \/ Connector \/ Normalizer \/ Guardrails \/ CategoriseInvalid \/ Categorise
           \/ L1Placeholder \/ L2Rca \/ PrepareL3Context \/ L3Rca \/ SaveL3Report \/ BuildResponse
           \/ (\E e \in recent : Expire(e)) \/ (\E r \in requests : ServeRequest(r))
           \/ UNCHANGED vars
  <2>1. UNCHANGED <<plans, cur, runs>>
    BY <1>1 DEF Connector, Normalizer, Guardrails, CategoriseInvalid, Categorise, L1Placeholder,
       L2Rca,
       PrepareL3Context, L3Rca, SaveL3Report, BuildResponse, Expire, ServeRequest, At,
       SideEffectFree,
       NothingStored, planVars, jobVars, vars
  <2> QED
    BY <2>1 DEF Own, Attempt
<1>2. CASE FixAgent \/ CodeFix
  <2>1. /\ node \in {"fix_agent", "codefix"} /\ UNCHANGED <<cur, runs>>
        /\ plans' = plans \/ Proposal
    BY <1>2 DEF FixAgent, CodeFix, At, NothingStored, planVars, jobVars
  <2>2. ~Planned /\ cur # NoIncident
    BY <2>1 DEF RunInv, ProposalInv, OwnerInv, Ends
  <2> QED
    BY <2>1, <2>2 DEF Own, Attempt
<1>3. CASE Return \/ RunRaises
  <2>1. cur # NoIncident
    BY <1>3 DEF Return, RunRaises, RunInv, OwnerInv
  <2> QED
    BY <1>3, <2>1 DEF Return, RunRaises, EndRun, planVars
<1>4. CASE Crash
  BY <1>4 DEF Crash, EndRun
<1>5. ASSUME NEW i \in Incidents, Submit(i)
      PROVE  plans' = plans /\ cur' = cur /\ (cur # NoIncident => Own' = Own)
  <2>1. \E n \in Attempts : runs[i][n] = "none" /\ runs' = [runs EXCEPT ![i][n] = "pending"]
    <3>1. 1 \in Attempts
      BY IntakeAssumption DEF Attempts
    <3> QED
      BY <1>5, <3>1 DEF Submit
  <2>2. UNCHANGED <<plans, cur>>
    BY <1>5 DEF Submit, planVars
  <2>3. \A j \in Incidents, k \in Attempts :
          runs'[j][k] = "running" <=> runs[j][k] = "running"
    BY <2>1 DEF RunInv, TypeOK
  <2> QED
    BY <2>2, <2>3, SameAttempt DEF RunInv, TypeOK
<1>6. ASSUME NEW i \in Incidents, Claim(i)
      PROVE  /\ plans' = plans /\ ~Planned'
             /\ cur = NoIncident /\ cur' # NoIncident /\ Own' \in Runs
  <2>1. plans' = plans /\ cur = NoIncident /\ cur' = i /\ node' = "connector"
    BY <1>6 DEF Claim, planVars
  <2>2. RunInv'
    BY RunInvNext
  <2>3. ~Planned'
    BY <2>1, <2>2 DEF RunInv, ProposalInv, Ends
  <2>4. cur' # NoIncident /\ cur' \in Incidents
    BY <2>1, IntakeAssumption
  <2>5. PICK n \in Attempts : runs'[cur'][n] = "running"
    BY <2>2, <2>4 DEF RunInv, OwnerInv
  <2>6. Attempt' \in Attempts
    BY <2>5 DEF Attempt
  <2>7. Own' \in Runs
    BY <2>4, <2>6 DEF Own, Runs, Attempts
  <2> QED
    BY <2>1, <2>3, <2>4, <2>7
<1> QED
  BY <1>1, <1>2, <1>3, <1>4, <1>5, <1>6 DEF Next, RunStep

LEMMA StepKeepsRunContract ==
  ASSUME RunInv, [Next]_vars
  PROVE  [Contract!RunNext]_(Contract!run)
<1>1. plans \in [Runs -> Nat] /\ NoIncident \notin Runs
  BY IntakeAssumption DEF RunInv, TypeOK
<1>2. cur # NoIncident => Own \in Runs
  BY AttemptRuns, RunsAreRuns DEF Own, RunInv, TypeOK
<1>3. CASE plans' = plans /\ cur' = cur /\ (cur # NoIncident => Own' = Own)
  BY <1>3 DEF Contract!run
<1>4. CASE /\ Proposal /\ ~Planned
           /\ cur # NoIncident /\ cur' = cur /\ Own' = Own
  <2>1. plans[Own] = 0
    BY <1>1, <1>2, <1>4 DEF Planned
  <2>2. plans' = [plans EXCEPT ![Own] = 1]
    BY <1>1, <1>2, <1>4, <2>1 DEF Proposal
  <2>3. Contract!Propose
    BY <1>1, <1>2, <1>4, <2>1, <2>2 DEF Contract!Propose
  <2> QED
    BY <2>3 DEF Contract!RunNext
<1>5. CASE plans' = plans /\ cur # NoIncident /\ cur' = NoIncident
  BY <1>1, <1>2, <1>5 DEF Contract!End, Contract!RunNext
<1>6. CASE /\ plans' = plans /\ ~Planned'
           /\ cur = NoIncident /\ cur' # NoIncident /\ Own' \in Runs
  <2>1. plans[Own'] = 0
    BY <1>1, <1>6 DEF Planned
  <2> QED
    BY <1>6, <2>1 DEF Contract!Begin, Contract!RunNext
<1> QED
  BY <1>3, <1>4, <1>5, <1>6, StepOfARun

\* However nodes, failures, requests, crashes and resubmissions follow each
\* other, the nodes of a run store at most one plan, and only while the worker
\* runs it: what JobWorker assumes of the graph.
THEOREM ImplementsRunSafety == Spec => Contract!RunSafety
<1>1. Init => Contract!RunInit
  BY DEF Init, Contract!RunInit
<1>2. RunInv /\ [Next]_vars => [Contract!RunNext]_(Contract!run)
  BY StepKeepsRunContract
<1> QED
  BY <1>1, <1>2, RunInvariant, PTL DEF Spec, Contract!RunSafety
=============================================================================
