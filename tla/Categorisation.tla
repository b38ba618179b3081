--------------------------- MODULE Categorisation ---------------------------
(***************************************************************************)
(* The guardrails and the categorisation of one event after another, up to *)
(* the node of the intake workflow that is next: the rules score the text, *)
(* a weak score is put to a language model, and what is still weak,        *)
(* critical or a repetition goes to a person.                              *)
(*                                                                         *)
(* An incident is what the rules see of an event: how many keywords of     *)
(* each level its text holds, its technology, impact, priority and so on.  *)
(* Confidences are in percent: the code adds the same fractions and rounds *)
(* to two digits before it compares.                                       *)
(***************************************************************************)
EXTENDS Integers, FiniteSets, FiniteSetsExt

CONSTANTS
  Incidents,      \* the incidents that may arrive
  Classified,     \* answers [level, technology, confidence] of the classifier
  AutoRouteL2,    \* AUTO_ROUTE_L2_WITHOUT_HUMAN_REVIEW
  MaxRecent       \* bound on the incidents remembered at a time

ASSUME CategorisationAssumption ==
  /\ AutoRouteL2 \in BOOLEAN /\ MaxRecent \in Nat
  /\ \A i \in Incidents : {i.l1, i.l2, i.l3} \subseteq Nat
  /\ \A a \in Classified : a.confidence \in 0..100

VARIABLES
  pc,         \* what is done next with the event
  incident,   \* the event, once one has arrived
  recent,     \* RECENT_INCIDENTS: keys <<title, technology>>
  decision,   \* support level, technology, confidence, duplicate
  answers,    \* history: what the model said of this event
  outcome,    \* the node of the workflow that is next, and whether it is reviewed
  automatic   \* history: keys that went to an analysis without a person

vars == <<pc, incident, recent, decision, answers, outcome, automatic>>

-----------------------------------------------------------------------------
(* The rules.                                                               *)

\* validate_guardrails: secrets and dangerous requests stop an event; a
\* missing repository or configuration item only raises the risk.
Allowed(i) == ~i.secret /\ ~i.dangerous
GuardrailRisk(i) ==
  IF ~Allowed(i) THEN "blocked" ELSE IF i.context THEN "low" ELSE "medium"

\* l1_rules, l2_rules, l3_rules, and the bonus for a traceback or a file.
L3Score(i) == IF i.code THEN i.l3 + 3 ELSE i.l3
SupportScore(i) == Max({i.l1, i.l2, L3Score(i)})
SupportLevel(i) ==
  CASE i.l1 = SupportScore(i)  -> "L1"
    [] i.l1 # SupportScore(i) /\ i.l2 >= L3Score(i) -> "L2"
    [] OTHER -> "L3"

\* calculate_confidence_breakdown.
ScoreDelta(score) ==
  CASE score >= 3 -> 20 [] score = 2 -> 10 [] score = 1 -> 5 [] OTHER -> -20
ImpactDelta(impact) ==
  CASE impact = "HIGH" -> 5 [] impact = "CRITICAL" -> 10
    [] impact = "UNKNOWN" -> -15 [] OTHER -> 0
Clamped(n) == Max({0, Min({n, 100})})
RuleConfidence(i) ==
  Clamped(95 + ScoreDelta(SupportScore(i))
             + (IF i.technology # "General" THEN 10 ELSE -20)
             + ImpactDelta(i.impact))

\* evaluate_business_criticality.
Criticality(i) ==
  LET score == (CASE i.environment = "production" -> 30 [] i.environment = "uat" -> 15
                  [] i.environment = "dev" -> 5 [] OTHER -> 0)
             + (CASE i.priority = "P1" -> 30 [] i.priority = "P2" -> 20
                  [] i.priority = "P3" -> 10 [] OTHER -> 0)
             + (IF i.service THEN 25 ELSE 0) + (IF i.customer THEN 20 ELSE 0)
  IN  CASE score >= 80 -> "CRITICAL" [] score \in 60..79 -> "HIGH"
        [] score \in 40..59 -> "MEDIUM" [] OTHER -> "LOW"

\* evaluate_risk; the events of the intake carry no severity.
Risk(i) ==
  LET score == (CASE i.priority = "P1" -> 40 [] i.priority = "P2" -> 30
                  [] i.priority = "P3" -> 20 [] i.priority = "P4" -> 10
                  [] i.priority = "P5" -> 5 [] OTHER -> 0)
             + (IF i.technology \in {"Infrastructure", "Database", "Cloud", "Kubernetes"}
                THEN 20 ELSE 0)
             + (CASE Criticality(i) = "CRITICAL" -> 20 [] Criticality(i) = "HIGH" -> 10
                  [] OTHER -> 0)
  IN  CASE score >= 90 -> "CRITICAL" [] score \in 70..89 -> "HIGH"
        [] score \in 40..69 -> "MEDIUM" [] OTHER -> "LOW"

\* What check_duplicate compares: the technology is the one of the rules.
Key(i) == <<i.title, i.technology>>
Known(i) == Key(i) \in recent

\* policy["confidence_threshold"] and the same number in requires_human_review.
Threshold == 70

-----------------------------------------------------------------------------
(* The model, the review and the route.                                     *)

\* The answer of the classifier replaces the decision, the duplicate with it.
MutMerged(d, a) ==
  IF d.confidence < 90 /\ a.confidence > d.confidence
  THEN [level |-> a.level, technology |-> a.technology,
        confidence |-> a.confidence, duplicate |-> FALSE]
  ELSE d

\* merge_decision: the answer of the classifier wins with a higher confidence.
Merged(d, a) ==
  IF d.confidence < 90 /\ a.confidence > d.confidence
  THEN [d EXCEPT !.level = a.level, !.technology = a.technology,
                 !.confidence = a.confidence]
  ELSE d

\* A threshold of the review of its own: human_review_threshold of the policy.
MutNeedsReview(i, d) ==
  /\ \/ d.confidence < 60
     \/ Criticality(i) = "CRITICAL"
     \/ Risk(i) = "CRITICAL"
     \/ d.duplicate
  /\ ~(d.level = "L2" /\ AutoRouteL2)

\* requires_human_review, and the override for L2.
NeedsReview(i, d) ==
  /\ \/ d.confidence < Threshold
     \/ Criticality(i) = "CRITICAL"
     \/ Risk(i) = "CRITICAL"
     \/ d.duplicate
  /\ ~(d.level = "L2" /\ AutoRouteL2)

\* select_agent looks the level up; ROUTES has no other keys.
HasRoute(d) == d.level \in {"L1", "L2", "L3", "REJECT"}

\* _recommended_action.
RecommendedAction(d, review) ==
  IF review THEN "human_review"
  ELSE IF d.level = "L1" THEN "run_l1_rca"
  ELSE IF d.level = "L2" THEN "run_l2_rca"
  ELSE IF d.level = "L3" THEN "run_l3_rca"
  ELSE "human_review"

\* _should_route_to_l3 without the level.
MutNextNode(d, review) ==
  IF review THEN "build_response"
  ELSE IF d.level = "L1" THEN "l1_placeholder"
  ELSE IF d.level = "L2" THEN "l2_rca"
  ELSE "build_response"

\* route_after_categorisation, of an incident that is not rejected.
NextNode(d, review) ==
  IF review THEN "build_response"
  ELSE IF d.level = "L1" THEN "l1_placeholder"
  ELSE IF d.level = "L2" \/ RecommendedAction(d, review) = "run_l2_rca" THEN "l2_rca"
  ELSE IF d.level = "L3" \/ RecommendedAction(d, review) = "run_l3_rca" THEN "prepare_l3_context"
  ELSE "build_response"

Analyses == {"l1_placeholder", "l2_rca", "prepare_l3_context"}

-----------------------------------------------------------------------------

NoIncident == [title |-> "none"]
NoDecision == [level |-> "NONE", technology |-> "General", confidence |-> 0,
               duplicate |-> FALSE]
NoAnswers == [validator |-> "none", classifier |-> [level |-> "NONE", confidence |-> 0]]
NoOutcome == [node |-> "none", review |-> FALSE, reason |-> "none"]

Init ==
  /\ pc = "idle"
  /\ incident = NoIncident
  /\ recent = {}
  /\ decision = NoDecision /\ answers = NoAnswers /\ outcome = NoOutcome
  /\ automatic = {}

Arrive(i) ==
  /\ pc = "idle"
  /\ pc' = "guardrails"
  /\ incident' = i
  /\ decision' = NoDecision /\ answers' = NoAnswers /\ outcome' = NoOutcome
  /\ UNCHANGED <<recent, automatic>>

\* Every way to stop without an analysis or a review.
Stop(reason) ==
  /\ pc' = "idle"
  /\ outcome' = [node |-> "build_response", review |-> FALSE, reason |-> reason]

\* guardrails_node and route_after_guardrails.
Guardrails ==
  /\ pc = "guardrails"
  /\ \/ GuardrailRisk(incident) = "blocked" /\ Stop("blocked")
     \/ GuardrailRisk(incident) # "blocked" /\ pc' = "rules" /\ UNCHANGED outcome
  /\ UNCHANGED <<incident, recent, decision, answers, automatic>>

\* validate finds a keyword of its list.
Reject ==
  /\ pc = "rules" /\ incident.rejected
  /\ Stop("rejected")
  /\ UNCHANGED <<incident, recent, decision, answers, automatic>>

\* The rules of categorize, check_duplicate among them: it remembers an
\* incident that it does not know, before the model is asked.
Rules ==
  /\ pc = "rules" /\ ~incident.rejected
  /\ Known(incident) \/ Cardinality(recent) < MaxRecent
  /\ recent' = recent \cup {Key(incident)}
  /\ decision' = [level |-> SupportLevel(incident), technology |-> incident.technology,
                  confidence |-> RuleConfidence(incident), duplicate |-> Known(incident)]
  /\ pc' = IF RuleConfidence(incident) < Threshold THEN "validator" ELSE "review"
  /\ UNCHANGED <<incident, answers, outcome, automatic>>

\* validate_incident: what the model can answer, or that it cannot be asked; an
\* answer that parses but has no is_incident is malformed.
ValidatorAnswers == {"incident", "other", "unavailable", "malformed"}

\* An exception sets the confidence to 0 and skips the classifier; a malformed
\* answer is an exception of categorize itself.
Validator(answer) ==
  /\ pc = "validator"
  /\ answers' = [answers EXCEPT !.validator = answer]
  /\ \/ answer = "incident" /\ pc' = "classifier" /\ UNCHANGED <<decision, outcome>>
     \/ /\ answer = "unavailable"
        /\ decision' = [decision EXCEPT !.confidence = 0]
        /\ pc' = "review" /\ UNCHANGED outcome
     \/ answer = "other" /\ Stop("rejected") /\ UNCHANGED decision
     \/ answer = "malformed" /\ Stop("raised") /\ UNCHANGED decision
  /\ UNCHANGED <<incident, recent, automatic>>

\* classify_incident and merge_decision.
Classifier(a) ==
  /\ pc = "classifier"
  /\ answers' = [answers EXCEPT !.classifier = [level |-> a.level, confidence |-> a.confidence]]
  /\ decision' = Merged(decision, a)
  /\ pc' = "review"
  /\ UNCHANGED <<incident, recent, outcome, automatic>>

\* Nobody catches an exception of the classifier.
ClassifierRaises ==
  /\ pc = "classifier"
  /\ Stop("raised")
  /\ UNCHANGED <<incident, recent, decision, answers, automatic>>

\* CategorizationResult, as far as the workflow routes by it.
Result(node, review) == [node |-> node, review |-> review, reason |-> "categorised"]

\* Review, route and result; a level without a route is a KeyError.
Review ==
  /\ pc = "review"
  /\ LET review == NeedsReview(incident, decision)
         node == NextNode(decision, review)
     IN  \/ /\ HasRoute(decision)
            /\ pc' = "idle"
            /\ outcome' = Result(node, review)
            /\ automatic' = IF node \in Analyses THEN automatic \cup {Key(incident)}
                            ELSE automatic
         \/ ~HasRoute(decision) /\ Stop("raised") /\ UNCHANGED automatic
  /\ UNCHANGED <<incident, recent, decision, answers>>

\* Ten minutes after check_duplicate remembered it. An event is categorised
\* in less.
Expire(key) ==
  /\ pc = "idle" /\ key \in recent
  /\ recent' = recent \ {key}
  /\ automatic' = automatic \ {key}
  /\ UNCHANGED <<pc, incident, decision, answers, outcome>>

\* The list is in memory: with the process, what it remembers is gone.
Crash ==
  /\ pc' = "idle"
  /\ incident' = NoIncident /\ recent' = {} /\ automatic' = {}
  /\ decision' = NoDecision /\ answers' = NoAnswers /\ outcome' = NoOutcome

Next ==
  \/ \E i \in Incidents : Arrive(i)
  \/ Guardrails \/ Reject \/ Rules
  \/ \E answer \in ValidatorAnswers : Validator(answer)
  \/ \E a \in Classified : Classifier(a)
  \/ ClassifierRaises \/ Review
  \/ \E key \in recent : Expire(key)
  \/ Crash

Spec == Init /\ [][Next]_vars

-----------------------------------------------------------------------------
(* Properties.                                                              *)

TypeOK ==
  /\ pc \in {"idle", "guardrails", "rules", "validator", "classifier", "review"}
  /\ pc # "idle" => incident \in Incidents
  /\ decision.confidence \in 0..100 /\ decision.duplicate \in BOOLEAN
  /\ automatic \subseteq recent

\* An analysis starts without a person only on evidence: the rules are
\* confident, or the model confirmed the incident and classified it with
\* confidence. That the model cannot be reached, that it contradicts the
\* rules weakly, that it only confirms, are none. Only the override of L2 is
\* above this (categorization_agent.py 785-1003, route_after_categorisation).
WeakEvidenceIsReviewed ==
  outcome.node \in Analyses =>
    \/ outcome.node = "l2_rca" /\ AutoRouteL2
    \/ RuleConfidence(incident) >= Threshold
    \/ /\ answers.validator = "incident"
       /\ answers.classifier.confidence >= Threshold

\* An incident that the list still remembers as sent to an analysis is not
\* sent to one again without a person, whatever level and technology the model
\* gives it this time; the override of L2 is again the exception
\* (check_duplicate before the model, requires_human_review after it).
AutomaticOnce ==
  [][(incident' = incident /\ outcome' # outcome /\ outcome'.node \in Analyses)
       => \/ Key(incident) \notin automatic
          \/ outcome'.node = "l2_rca" /\ AutoRouteL2]_vars

\* The tables of the levels agree: an incident that was categorised ends with
\* an analysis or with a person, unless the classifier answers with the level
\* REJECT, which no table between it and build_response treats as a rejection.
NobodyIsForgotten ==
  (outcome.reason = "categorised" /\ outcome.node = "build_response" /\ ~outcome.review)
    => answers.classifier.level = "REJECT"

=============================================================================
