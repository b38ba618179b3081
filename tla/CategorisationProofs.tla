------------------------ MODULE CategorisationProofs ------------------------
(***************************************************************************)
(* What Categorisation guarantees holds for every set of incidents and of  *)
(* answers of the classifier, with or without the override of L2. The      *)
(* rules enter only by the range of their confidence; what matters is the  *)
(* order in which the model, the merge and the review change a decision.   *)
(***************************************************************************)
EXTENDS Categorisation, TLAPS

\* The points at which the decision of an event is there and not yet used.
DecidedPoints == {"validator", "classifier", "review"}

\* The model has confirmed the incident and classified it with confidence.
ModelIsConfident ==
  answers.validator = "incident" /\ answers.classifier.confidence >= Threshold

\* While an event is worked on nothing is known of its outcome.
OutcomeInv == pc # "idle" => outcome = NoOutcome

\* Confidence over the threshold has its reason.
ConfidenceInv ==
  /\ pc \in {"validator", "classifier"} => decision.confidence = RuleConfidence(incident)
  /\ pc = "classifier" => answers.validator = "incident"
  /\ pc = "review" /\ decision.confidence >= Threshold =>
       RuleConfidence(incident) >= Threshold \/ ModelIsConfident

\* The level of a decision is one of the rules' or the classifier's.
LevelInv ==
  /\ pc \in {"validator", "classifier"} => decision.level \in {"L1", "L2", "L3"}
  /\ pc = "review" => decision.level \in {"L1", "L2", "L3", answers.classifier.level}

\* An event that was automatic before and is remembered is marked a duplicate.
DuplicateInv ==
  pc \in DecidedPoints =>
    /\ Key(incident) \in recent
    /\ ~decision.duplicate => Key(incident) \notin automatic

\* What the records of the run look like.
ShapeInv ==
  /\ decision = [level |-> decision.level, technology |-> decision.technology,
                 confidence |-> decision.confidence, duplicate |-> decision.duplicate]
  /\ answers = [validator |-> answers.validator, classifier |-> answers.classifier]

TriageInv ==
  /\ TypeOK
  /\ ShapeInv
  /\ OutcomeInv
  /\ ConfidenceInv
  /\ LevelInv
  /\ DuplicateInv
  /\ WeakEvidenceIsReviewed
  /\ NobodyIsForgotten

-----------------------------------------------------------------------------

\* The greater and the smaller of two integers.
LEMMA MaxOfTwo == ASSUME NEW x \in Int, NEW y \in Int
                  PROVE  Max({x, y}) \in {x, y} /\ Max({x, y}) >= x /\ Max({x, y}) >= y
<1>1. \E m \in {x, y} : \A n \in {x, y} : m >= n
  <2>1. CASE x >= y
    BY <2>1
  <2>2. CASE ~(x >= y)
    BY <2>2
  <2> QED
    BY <2>1, <2>2
<1> QED
  BY <1>1 DEF Max

LEMMA MinOfTwo == ASSUME NEW x \in Int, NEW y \in Int
                  PROVE  Min({x, y}) \in {x, y} /\ Min({x, y}) <= x /\ Min({x, y}) <= y
<1>1. \E m \in {x, y} : \A n \in {x, y} : m =< n
  <2>1. CASE x <= y
    BY <2>1
  <2>2. CASE ~(x <= y)
    BY <2>2
  <2> QED
    BY <2>1, <2>2
<1> QED
  BY <1>1 DEF Min

\* Whatever is added up, the confidence of the rules is a percentage.
LEMMA ClampedIsPercentage == ASSUME NEW n \in Int PROVE Clamped(n) \in 0..100
<1>1. Min({n, 100}) \in Int /\ Min({n, 100}) <= 100
  BY MinOfTwo
<1>2. Max({0, Min({n, 100})}) \in {0, Min({n, 100})} /\ Max({0, Min({n, 100})}) >= 0
  BY <1>1, MaxOfTwo
<1> QED
  BY <1>1, <1>2 DEF Clamped

LEMMA RuleConfidenceIsPercentage ==
  ASSUME NEW i PROVE RuleConfidence(i) \in 0..100
<1>1. ScoreDelta(SupportScore(i)) \in Int
  BY DEF ScoreDelta
<1>2. ImpactDelta(i.impact) \in Int
  BY DEF ImpactDelta
<1>3. (IF i.technology # "General" THEN 10 ELSE -20) \in Int
  OBVIOUS
<1> QED
  BY <1>1, <1>2, <1>3, ClampedIsPercentage DEF RuleConfidence

\* The rules know three levels.
LEMMA LevelOfRules == ASSUME NEW i PROVE SupportLevel(i) \in {"L1", "L2", "L3"}
  BY DEF SupportLevel

\* The route of a decision, case by case.
LEMMA Routes ==
  ASSUME NEW d, NEW review \in BOOLEAN
  PROVE  /\ review => NextNode(d, review) = "build_response"
         /\ ~review /\ d.level = "L1" => NextNode(d, review) = "l1_placeholder"
         /\ ~review /\ d.level = "L2" => NextNode(d, review) = "l2_rca"
         /\ ~review /\ d.level = "L3" => NextNode(d, review) = "prepare_l3_context"
  BY DEF NextNode, RecommendedAction

-----------------------------------------------------------------------------
(* The invariant holds initially, and each conjunct is preserved.           *)

LEMMA TriageInvInit == Init => TriageInv
  BY DEF Init, TriageInv, TypeOK, ShapeInv, OutcomeInv, ConfidenceInv, LevelInv, DuplicateInv,
     WeakEvidenceIsReviewed, NobodyIsForgotten, NoDecision, NoAnswers, NoOutcome, NoIncident,
     DecidedPoints, Analyses

\* A decision is made of one by the rules or the classifier.
LEMMA TypeOKStep == TriageInv /\ [Next]_vars => TypeOK'
<1> SUFFICES ASSUME TriageInv, [Next]_vars PROVE TypeOK'
  OBVIOUS
<1> USE DEF TriageInv, TypeOK, ShapeInv, DuplicateInv, DecidedPoints, NoDecision
<1>1. ASSUME NEW i \in Incidents, Arrive(i) PROVE TypeOK'
  BY <1>1 DEF Arrive
<1>2. CASE Guardrails
  BY <1>2 DEF Guardrails, Stop
<1>3. CASE Reject
  BY <1>3 DEF Reject, Stop
<1>4. CASE Rules
  BY <1>4, RuleConfidenceIsPercentage DEF Rules, Known
<1>5. ASSUME NEW answer \in ValidatorAnswers, Validator(answer) PROVE TypeOK'
  BY <1>5 DEF Validator, Stop, ValidatorAnswers
<1>6. ASSUME NEW a \in Classified, Classifier(a) PROVE TypeOK'
  BY <1>6, CategorisationAssumption DEF Classifier, Merged
<1>7. CASE ClassifierRaises
  BY <1>7 DEF ClassifierRaises, Stop
<1>8. CASE Review
  BY <1>8 DEF Review, Stop, Result
<1>9. ASSUME NEW key \in recent, Expire(key) PROVE TypeOK'
  BY <1>9 DEF Expire
<1>10. CASE Crash
  BY <1>10 DEF Crash
<1>11. CASE UNCHANGED vars
  BY <1>11 DEF vars
<1> QED
  BY <1>1, <1>2, <1>3, <1>4, <1>5, <1>6, <1>7, <1>8, <1>9, <1>10, <1>11 DEF Next

\* The records keep their fields.
LEMMA ShapeInvStep == TriageInv /\ [Next]_vars => ShapeInv'
<1> SUFFICES ASSUME TriageInv, [Next]_vars PROVE ShapeInv'
  OBVIOUS
<1> USE DEF TriageInv, ShapeInv, NoDecision, NoAnswers
<1>1. ASSUME NEW i \in Incidents, Arrive(i) PROVE ShapeInv'
  BY <1>1 DEF Arrive
<1>2. CASE Guardrails
  BY <1>2 DEF Guardrails, Stop
<1>3. CASE Reject
  BY <1>3 DEF Reject, Stop
<1>4. CASE Rules
  BY <1>4 DEF Rules, Known
<1>5. ASSUME NEW answer \in ValidatorAnswers, Validator(answer) PROVE ShapeInv'
  BY <1>5 DEF Validator, Stop, ValidatorAnswers
<1>6. ASSUME NEW a \in Classified, Classifier(a) PROVE ShapeInv'
  BY <1>6 DEF Classifier, Merged
<1>7. CASE ClassifierRaises
  BY <1>7 DEF ClassifierRaises, Stop
<1>8. CASE Review
  BY <1>8 DEF Review, Stop, Result
<1>9. ASSUME NEW key \in recent, Expire(key) PROVE ShapeInv'
  BY <1>9 DEF Expire
<1>10. CASE Crash
  BY <1>10 DEF Crash
<1>11. CASE UNCHANGED vars
  BY <1>11 DEF vars
<1> QED
  BY <1>1, <1>2, <1>3, <1>4, <1>5, <1>6, <1>7, <1>8, <1>9, <1>10, <1>11 DEF Next

\* Only the steps that end an event set its outcome.
LEMMA OutcomeInvStep == TriageInv /\ [Next]_vars => OutcomeInv'
<1> SUFFICES ASSUME TriageInv, [Next]_vars PROVE OutcomeInv'
  OBVIOUS
<1> USE DEF TriageInv, OutcomeInv, NoOutcome
<1>1. ASSUME NEW i \in Incidents, Arrive(i) PROVE OutcomeInv'
  BY <1>1 DEF Arrive
<1>2. CASE Guardrails
  BY <1>2 DEF Guardrails, Stop
<1>3. CASE Reject
  BY <1>3 DEF Reject, Stop
<1>4. CASE Rules
  BY <1>4 DEF Rules, Known
<1>5. ASSUME NEW answer \in ValidatorAnswers, Validator(answer) PROVE OutcomeInv'
  BY <1>5 DEF Validator, Stop, ValidatorAnswers
<1>6. ASSUME NEW a \in Classified, Classifier(a) PROVE OutcomeInv'
  BY <1>6 DEF Classifier, Merged
<1>7. CASE ClassifierRaises
  BY <1>7 DEF ClassifierRaises, Stop
<1>8. CASE Review
  BY <1>8 DEF Review, Stop, Result
<1>9. ASSUME NEW key \in recent, Expire(key) PROVE OutcomeInv'
  BY <1>9 DEF Expire
<1>10. CASE Crash
  BY <1>10 DEF Crash
<1>11. CASE UNCHANGED vars
  BY <1>11 DEF vars
<1> QED
  BY <1>1, <1>2, <1>3, <1>4, <1>5, <1>6, <1>7, <1>8, <1>9, <1>10, <1>11 DEF Next

\* Confidence is raised by the rules and the classifier only.
LEMMA ConfidenceInvStep == TriageInv /\ [Next]_vars => ConfidenceInv'
<1> SUFFICES ASSUME TriageInv, [Next]_vars PROVE ConfidenceInv'
  OBVIOUS
<1> USE DEF TriageInv, TypeOK, ShapeInv, ConfidenceInv, ModelIsConfident, Threshold
<1>1. ASSUME NEW i \in Incidents, Arrive(i) PROVE ConfidenceInv'
  BY <1>1 DEF Arrive
<1>2. CASE Guardrails
  BY <1>2 DEF Guardrails, Stop
<1>3. CASE Reject
  BY <1>3 DEF Reject, Stop
<1>4. CASE Rules
  BY <1>4, RuleConfidenceIsPercentage DEF Rules, Known
<1>5. ASSUME NEW answer \in ValidatorAnswers, Validator(answer) PROVE ConfidenceInv'
  BY <1>5 DEF Validator, Stop, ValidatorAnswers
<1>6. ASSUME NEW a \in Classified, Classifier(a) PROVE ConfidenceInv'
  BY <1>6, RuleConfidenceIsPercentage, CategorisationAssumption DEF Classifier, Merged
<1>7. CASE ClassifierRaises
  BY <1>7 DEF ClassifierRaises, Stop
<1>8. CASE Review
  BY <1>8 DEF Review, Stop, Result
<1>9. ASSUME NEW key \in recent, Expire(key) PROVE ConfidenceInv'
  BY <1>9 DEF Expire
<1>10. CASE Crash
  BY <1>10 DEF Crash
<1>11. CASE UNCHANGED vars
  BY <1>11 DEF vars
<1> QED
  BY <1>1, <1>2, <1>3, <1>4, <1>5, <1>6, <1>7, <1>8, <1>9, <1>10, <1>11 DEF Next

\* A level comes from the rules or from the classifier.
LEMMA LevelInvStep == TriageInv /\ [Next]_vars => LevelInv'
<1> SUFFICES ASSUME TriageInv, [Next]_vars PROVE LevelInv'
  OBVIOUS
<1> USE DEF TriageInv, ShapeInv, LevelInv, DecidedPoints
<1>1. ASSUME NEW i \in Incidents, Arrive(i) PROVE LevelInv'
  BY <1>1 DEF Arrive
<1>2. CASE Guardrails
  BY <1>2 DEF Guardrails, Stop
<1>3. CASE Reject
  BY <1>3 DEF Reject, Stop
<1>4. CASE Rules
  BY <1>4, LevelOfRules DEF Rules, Known
<1>5. ASSUME NEW answer \in ValidatorAnswers, Validator(answer) PROVE LevelInv'
  BY <1>5 DEF Validator, Stop, ValidatorAnswers
<1>6. ASSUME NEW a \in Classified, Classifier(a) PROVE LevelInv'
  BY <1>6 DEF Classifier, Merged
<1>7. CASE ClassifierRaises
  BY <1>7 DEF ClassifierRaises, Stop
<1>8. CASE Review
  BY <1>8 DEF Review, Stop, Result
<1>9. ASSUME NEW key \in recent, Expire(key) PROVE LevelInv'
  BY <1>9 DEF Expire
<1>10. CASE Crash
  BY <1>10 DEF Crash
<1>11. CASE UNCHANGED vars
  BY <1>11 DEF vars
<1> QED
  BY <1>1, <1>2, <1>3, <1>4, <1>5, <1>6, <1>7, <1>8, <1>9, <1>10, <1>11 DEF Next

\* What was automatic is remembered, and found by the rules.
LEMMA DuplicateInvStep == TriageInv /\ [Next]_vars => DuplicateInv'
<1> SUFFICES ASSUME TriageInv, [Next]_vars PROVE DuplicateInv'
  OBVIOUS
<1> USE DEF TriageInv, TypeOK, ShapeInv, DuplicateInv, DecidedPoints
<1>1. ASSUME NEW i \in Incidents, Arrive(i) PROVE DuplicateInv'
  BY <1>1 DEF Arrive
<1>2. CASE Guardrails
  BY <1>2 DEF Guardrails, Stop
<1>3. CASE Reject
  BY <1>3 DEF Reject, Stop
<1>4. CASE Rules
  BY <1>4 DEF Rules, Known
<1>5. ASSUME NEW answer \in ValidatorAnswers, Validator(answer) PROVE DuplicateInv'
  BY <1>5 DEF Validator, Stop, ValidatorAnswers
<1>6. ASSUME NEW a \in Classified, Classifier(a) PROVE DuplicateInv'
  BY <1>6 DEF Classifier, Merged
<1>7. CASE ClassifierRaises
  BY <1>7 DEF ClassifierRaises, Stop
<1>8. CASE Review
  BY <1>8 DEF Review, Stop, Result
<1>9. ASSUME NEW key \in recent, Expire(key) PROVE DuplicateInv'
  BY <1>9 DEF Expire
<1>10. CASE Crash
  BY <1>10 DEF Crash
<1>11. CASE UNCHANGED vars
  BY <1>11 DEF vars
<1> QED
  BY <1>1, <1>2, <1>3, <1>4, <1>5, <1>6, <1>7, <1>8, <1>9, <1>10, <1>11 DEF Next

\* An analysis without a person: confidence over the threshold, and its reason.
LEMMA WeakEvidenceStep == TriageInv /\ [Next]_vars => WeakEvidenceIsReviewed'
<1> SUFFICES ASSUME TriageInv, [Next]_vars PROVE WeakEvidenceIsReviewed'
  OBVIOUS
<1> USE DEF TriageInv, OutcomeInv, NoOutcome, Analyses, WeakEvidenceIsReviewed
<1>1. ASSUME NEW i \in Incidents, Arrive(i) PROVE WeakEvidenceIsReviewed'
  BY <1>1 DEF Arrive
<1>2. CASE Guardrails
  BY <1>2 DEF Guardrails, Stop
<1>3. CASE Reject
  BY <1>3 DEF Reject, Stop
<1>4. CASE Rules
  BY <1>4 DEF Rules
<1>5. ASSUME NEW answer \in ValidatorAnswers, Validator(answer) PROVE WeakEvidenceIsReviewed'
  BY <1>5 DEF Validator, Stop
<1>6. ASSUME NEW a \in Classified, Classifier(a) PROVE WeakEvidenceIsReviewed'
  BY <1>6 DEF Classifier
<1>7. CASE ClassifierRaises
  BY <1>7 DEF ClassifierRaises, Stop
<1>8. CASE Review
  <2> DEFINE review == NeedsReview(incident, decision)
             node == NextNode(decision, review)
  <2> SUFFICES ASSUME outcome'.node \in Analyses
               PROVE  \/ outcome'.node = "l2_rca" /\ AutoRouteL2
                      \/ RuleConfidence(incident) >= Threshold
                      \/ ModelIsConfident
    BY <1>8 DEF Review, ModelIsConfident
  <2>1. pc = "review" /\ outcome'.node = node
    BY <1>8 DEF Review, Stop, Result
  <2>2. ~review
    BY <2>1 DEF NextNode
  <2>3. CASE decision.level = "L2" /\ AutoRouteL2
    BY <2>1, <2>2, <2>3 DEF NextNode
  <2>4. CASE ~(decision.level = "L2" /\ AutoRouteL2)
    <3>1. ~(decision.confidence < Threshold)
      BY <2>2, <2>4 DEF NeedsReview
    <3>2. decision.confidence >= Threshold
      BY <3>1, <2>1 DEF TypeOK, Threshold
    <3> QED
      BY <2>1, <3>2 DEF ConfidenceInv
  <2> QED
    BY <2>3, <2>4
<1>9. ASSUME NEW key \in recent, Expire(key) PROVE WeakEvidenceIsReviewed'
  BY <1>9 DEF Expire
<1>10. CASE Crash
  BY <1>10 DEF Crash
<1>11. CASE UNCHANGED vars
  BY <1>11 DEF vars
<1> QED
  BY <1>1, <1>2, <1>3, <1>4, <1>5, <1>6, <1>7, <1>8, <1>9, <1>10, <1>11 DEF Next

\* A level with a route is one that the workflow knows, or REJECT.
LEMMA NobodyIsForgottenStep == TriageInv /\ [Next]_vars => NobodyIsForgotten'
<1> SUFFICES ASSUME TriageInv, [Next]_vars PROVE NobodyIsForgotten'
  OBVIOUS
<1> USE DEF TriageInv, OutcomeInv, NoOutcome, NobodyIsForgotten
<1>1. ASSUME NEW i \in Incidents, Arrive(i) PROVE NobodyIsForgotten'
  BY <1>1 DEF Arrive
<1>2. CASE Guardrails
  BY <1>2 DEF Guardrails, Stop
<1>3. CASE Reject
  BY <1>3 DEF Reject, Stop
<1>4. CASE Rules
  BY <1>4 DEF Rules
<1>5. ASSUME NEW answer \in ValidatorAnswers, Validator(answer) PROVE NobodyIsForgotten'
  BY <1>5 DEF Validator, Stop
<1>6. ASSUME NEW a \in Classified, Classifier(a) PROVE NobodyIsForgotten'
  BY <1>6 DEF Classifier
<1>7. CASE ClassifierRaises
  BY <1>7 DEF ClassifierRaises, Stop
<1>8. CASE Review
  <2> DEFINE review == NeedsReview(incident, decision)
             node == NextNode(decision, review)
  <2> SUFFICES ASSUME outcome'.reason = "categorised", node = "build_response", ~review
               PROVE  answers.classifier.level = "REJECT"
    BY <1>8 DEF Review, Stop, Result
  <2>1. pc = "review" /\ HasRoute(decision)
    BY <1>8 DEF Review, Stop
  <2>2. decision.level \notin {"L1", "L2", "L3"}
    <3> HIDE DEF review
    <3> QED
      BY Routes DEF NextNode
  <2> QED
    BY <2>1, <2>2 DEF LevelInv, HasRoute
<1>9. ASSUME NEW key \in recent, Expire(key) PROVE NobodyIsForgotten'
  BY <1>9 DEF Expire
<1>10. CASE Crash
  BY <1>10 DEF Crash
<1>11. CASE UNCHANGED vars
  BY <1>11 DEF vars
<1> QED
  BY <1>1, <1>2, <1>3, <1>4, <1>5, <1>6, <1>7, <1>8, <1>9, <1>10, <1>11 DEF Next

-----------------------------------------------------------------------------

\* The invariant of the categorisation.
THEOREM TriageInvariant == Spec => []TriageInv
<1>1. TriageInv /\ [Next]_vars => TriageInv'
  BY TypeOKStep, ShapeInvStep, OutcomeInvStep, ConfidenceInvStep, LevelInvStep,
     DuplicateInvStep, WeakEvidenceStep, NobodyIsForgottenStep DEF TriageInv
<1> QED
  BY TriageInvInit, <1>1, PTL DEF Spec

\* Every variable keeps its type.
THEOREM TriageTypeCorrect == Spec => []TypeOK
<1>1. TriageInv => TypeOK
  BY DEF TriageInv
<1> QED
  BY TriageInvariant, <1>1, PTL

\* No analysis starts without a person on a weak score, whatever the rules, the
\* validator and the classifier say and in whatever order they fail.
THEOREM WeakEvidenceIsReviewedHolds == Spec => []WeakEvidenceIsReviewed
<1>1. TriageInv => WeakEvidenceIsReviewed
  BY DEF TriageInv
<1> QED
  BY TriageInvariant, <1>1, PTL

\* Only the level REJECT of the classifier loses an incident.
THEOREM NobodyIsForgottenHolds == Spec => []NobodyIsForgotten
<1>1. TriageInv => NobodyIsForgotten
  BY DEF TriageInv
<1> QED
  BY TriageInvariant, <1>1, PTL

\* No incident that is remembered as automatic is analysed again without a
\* person: the flag of the duplicate outlives the answer of the model.
THEOREM AutomaticOnceHolds == Spec => AutomaticOnce
<1> DEFINE Once == (incident' = incident /\ outcome' # outcome /\ outcome'.node \in Analyses)
                     => \/ Key(incident) \notin automatic
                        \/ outcome'.node = "l2_rca" /\ AutoRouteL2
<1>1. TriageInv /\ [Next]_vars => [Once]_vars
  <2> SUFFICES ASSUME TriageInv, Next, outcome' # outcome, outcome'.node \in Analyses
               PROVE  \/ Key(incident) \notin automatic
                      \/ outcome'.node = "l2_rca" /\ AutoRouteL2
    BY DEF vars
  <2>1. Review
    <3>1. ASSUME NEW i \in Incidents, Arrive(i) PROVE FALSE
      BY <3>1 DEF Arrive, NoOutcome, Analyses
    <3>2. ASSUME NEW answer \in ValidatorAnswers, Validator(answer) PROVE FALSE
      BY <3>2 DEF Validator, Stop, Analyses
    <3>3. ~Guardrails /\ ~Reject /\ ~Rules /\ ~ClassifierRaises
      BY DEF Guardrails, Reject, Rules, ClassifierRaises, Stop, Analyses
    <3>4. ASSUME NEW a \in Classified, Classifier(a) PROVE FALSE
      BY <3>4 DEF Classifier
    <3>5. ASSUME NEW key \in recent, Expire(key) PROVE FALSE
      BY <3>5 DEF Expire
    <3>6. ~Crash
      BY DEF Crash, NoOutcome, Analyses
    <3> QED
      BY <3>1, <3>2, <3>3, <3>4, <3>5, <3>6 DEF Next
  <2> DEFINE review == NeedsReview(incident, decision)
             node == NextNode(decision, review)
  <2>2. pc = "review" /\ outcome'.node = node
    BY <2>1 DEF Review, Stop, Result, Analyses
  <2>3. ~review
    BY <2>2 DEF NextNode, Analyses
  <2>4. CASE decision.level = "L2" /\ AutoRouteL2
    BY <2>2, <2>3, <2>4 DEF NextNode
  <2>5. CASE ~(decision.level = "L2" /\ AutoRouteL2)
    <3>1. ~decision.duplicate
      BY <2>3, <2>5 DEF NeedsReview
    <3> QED
      BY <2>2, <3>1 DEF TriageInv, DuplicateInv, DecidedPoints
  <2> QED
    BY <2>4, <2>5
<1> QED
  BY TriageInvariant, <1>1, PTL DEF Spec, AutomaticOnce
=============================================================================
