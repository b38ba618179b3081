-------------------------- MODULE L3AnalysisProofs --------------------------
(***************************************************************************)
(* A repair is planned only for what was reviewed, and what is ready is    *)
(* never of low confidence: for every number of files, lines and records,  *)
(* every budget and every number of changes of the checkout.               *)
(***************************************************************************)
EXTENDS L3Analysis, TLAPS

\* The binding is of the diagnosis, and not of one that was corrected since.
IsBound ==
  \/ pc \in {"review", "correct", "score"}
  \/ pc \in {"gate", "done"} /\ result.versioned

\* The review is of the diagnosis.
IsReviewed == pc = "score" \/ (pc \in {"gate", "done"} /\ result.versioned)

\* A binding rests on records, each of a file's lines covered by one of that
\* file, and on one state of every file.
BindingInv ==
  /\ bound.cited \subseteq records
  /\ bound.lines # {} => records # {}
  /\ IsBound =>
       /\ \A l \in bound.lines :
            \E r \in bound.cited : r.file = diagnosis.file /\ l \in r.range
       /\ \A r, s \in bound.cited : r.file = s.file => r.version = s.version

\* The fields of a review.
ReviewShapeInv ==
  review = [verdict |-> review.verdict, location |-> review.location,
            readiness |-> review.readiness, valid |-> review.valid]

\* A review that lets a repair through is of the diagnosis.
ConfirmedInv ==
  /\ IsReviewed /\ review.verdict = "supported" /\ review.readiness = "ready" =>
       confirmed = diagnosis /\ ~diagnosis.warned
  /\ IsBound \/ pc = "bind" => diagnosis \in Diagnoses
  /\ confirmed # NoDiagnosis => confirmed \in Diagnoses

\* The level follows from the review and the binding; a fallback report is low.
LevelInv ==
  pc \in {"gate", "done"} =>
    /\ ~result.versioned => result.level = "low"
    /\ result.versioned /\ review.verdict = "supported" /\ bound.lines # {} =>
         result.level # "low"

\* What is planned was not blocked.
OutcomeInv ==
  outcome = "planned" => pc = "done" /\ result.versioned /\ ~Blocked

AnalysisInv ==
  /\ TypeOK
  /\ BindingInv
  /\ ReviewShapeInv
  /\ ConfirmedInv
  /\ LevelInv
  /\ OutcomeInv

-----------------------------------------------------------------------------
(* The invariant holds initially, and each conjunct is preserved.           *)

LEMMA AnalysisInvInit == Init => AnalysisInv
<1> SUFFICES ASSUME Init PROVE AnalysisInv
  OBVIOUS
<1> USE DEF Init
<1>1. TypeOK
  BY AnalysisAssumption DEF TypeOK, Versions, NoBinding
<1>2. BindingInv /\ ReviewShapeInv /\ ConfirmedInv /\ LevelInv /\ OutcomeInv
  BY DEF BindingInv, ReviewShapeInv, ConfirmedInv, LevelInv, OutcomeInv, NoBinding, NoReview,
     IsBound, IsReviewed
<1> QED
  BY <1>1, <1>2 DEF AnalysisInv

\* What is read is a record, and a diagnosis refers to records.
LEMMA ReadIsRecord ==
  ASSUME TypeOK, NEW f \in Files, NEW range \in Ranges
  PROVE  Remembered(f, range) \subseteq Records /\ records \subseteq Remembered(f, range)
  BY DEF TypeOK, Remembered, Current, Records

LEMMA AnswersAreDiagnoses == ASSUME TypeOK PROVE Answers \subseteq Diagnoses
  BY DEF TypeOK, Answers, Diagnoses, Ids

\* Every variable keeps its type.
LEMMA TypeOKStep == AnalysisInv /\ [Next]_vars => TypeOK'
<1> SUFFICES ASSUME AnalysisInv, [Next]_vars PROVE TypeOK'
  OBVIOUS
<1> USE DEF AnalysisInv, TypeOK
<1>1. CASE EndSeed
  BY <1>1 DEF EndSeed
<1>2. CASE Fail
  BY <1>2 DEF Fail
<1>3. CASE Bind
  BY <1>3 DEF Bind, Verified
<1>4. CASE ReviewWithoutEvidence
  BY <1>4, AnalysisAssumption DEF ReviewWithoutEvidence, Conclude, WithWarnings, LastAttempt
<1>5. CASE ReviewFails
  BY <1>5, AnalysisAssumption DEF ReviewFails, Conclude, WithWarnings, LastAttempt
<1>6. CASE CorrectionFails
  BY <1>6 DEF CorrectionFails
<1>7. ASSUME NEW d \in Answers, Answer(d) PROVE TypeOK'
  BY <1>7, AnswersAreDiagnoses DEF Answer
<1>8. ASSUME NEW d \in Answers, Correct(d) PROVE TypeOK'
  BY <1>8, AnswersAreDiagnoses DEF Correct
<1>9. ASSUME NEW a \in Reviews, Review(a) PROVE TypeOK'
  BY <1>9, AnalysisAssumption DEF Review, Conclude, WithWarnings, Assessed, LastAttempt, Reviews
<1>10. ASSUME NEW f \in Files, NEW range \in Ranges, FollowUp(f, range) PROVE TypeOK'
  BY <1>10, ReadIsRecord, AnalysisAssumption DEF FollowUp
<1>11. ASSUME NEW c \in Contexts, Score(c) PROVE TypeOK'
  BY <1>11 DEF Score
<1>12. ASSUME NEW token \in BOOLEAN, NEW checkout \in BOOLEAN, Gate(token, checkout) PROVE TypeOK'
  BY <1>12 DEF Gate
<1>13. ASSUME NEW f \in Files, Edit(f) PROVE TypeOK'
  BY <1>13 DEF Edit
<1>14. ASSUME NEW f \in Files, NEW range \in Ranges, Read(f, range) PROVE TypeOK'
  BY <1>14, ReadIsRecord DEF Read
<1>15. CASE Done
  BY <1>15 DEF Done, vars
<1>16. CASE UNCHANGED vars
  BY <1>16 DEF vars
<1> QED
  BY <1>1, <1>2, <1>3, <1>4, <1>5, <1>6, <1>7, <1>8, <1>9,
     <1>10, <1>11, <1>12, <1>13, <1>14, <1>15, <1>16 DEF Next, Steps

\* Records stay; a binding is made of records and keeps to the diagnosis.
LEMMA BindingInvStep == AnalysisInv /\ [Next]_vars => BindingInv'
<1> SUFFICES ASSUME AnalysisInv, [Next]_vars PROVE BindingInv'
  OBVIOUS
<1> USE DEF AnalysisInv, TypeOK, BindingInv, IsBound
<1>1. CASE EndSeed
  BY <1>1 DEF EndSeed
<1>2. CASE Fail
  BY <1>2 DEF Fail
<1>3. CASE Bind
  BY <1>3 DEF Bind, Verified, Placed
<1>4. CASE ReviewWithoutEvidence
  BY <1>4 DEF ReviewWithoutEvidence, Conclude, WithWarnings, LastAttempt
<1>5. CASE ReviewFails
  BY <1>5 DEF ReviewFails, Conclude, WithWarnings, LastAttempt
<1>6. CASE CorrectionFails
  BY <1>6 DEF CorrectionFails
<1>7. ASSUME NEW d \in Answers, Answer(d) PROVE BindingInv'
  BY <1>7 DEF Answer
<1>8. ASSUME NEW d \in Answers, Correct(d) PROVE BindingInv'
  BY <1>8 DEF Correct
<1>9. ASSUME NEW a \in Reviews, Review(a) PROVE BindingInv'
  BY <1>9 DEF Review, Conclude, WithWarnings, Assessed, LastAttempt
<1>10. ASSUME NEW f \in Files, NEW range \in Ranges, FollowUp(f, range) PROVE BindingInv'
  BY <1>10, ReadIsRecord DEF FollowUp
<1>11. ASSUME NEW c \in Contexts, Score(c) PROVE BindingInv'
  BY <1>11 DEF Score
<1>12. ASSUME NEW token \in BOOLEAN, NEW checkout \in BOOLEAN, Gate(token, checkout) PROVE BindingInv'
  BY <1>12 DEF Gate
<1>13. ASSUME NEW f \in Files, Edit(f) PROVE BindingInv'
  BY <1>13 DEF Edit
<1>14. ASSUME NEW f \in Files, NEW range \in Ranges, Read(f, range) PROVE BindingInv'
  BY <1>14, ReadIsRecord DEF Read
<1>15. CASE Done
  BY <1>15 DEF Done, vars
<1>16. CASE UNCHANGED vars
  BY <1>16 DEF vars
<1> QED
  BY <1>1, <1>2, <1>3, <1>4, <1>5, <1>6, <1>7, <1>8, <1>9,
     <1>10, <1>11, <1>12, <1>13, <1>14, <1>15, <1>16 DEF Next, Steps

\* A review keeps its fields.
LEMMA ReviewShapeInvStep == AnalysisInv /\ [Next]_vars => ReviewShapeInv'
<1> SUFFICES ASSUME AnalysisInv, [Next]_vars PROVE ReviewShapeInv'
  OBVIOUS
<1> USE DEF AnalysisInv, ReviewShapeInv
<1>1. CASE EndSeed
  BY <1>1 DEF EndSeed
<1>2. CASE Fail
  BY <1>2 DEF Fail
<1>3. CASE Bind
  BY <1>3 DEF Bind
<1>4. CASE ReviewWithoutEvidence
  BY <1>4 DEF ReviewWithoutEvidence, Conclude, WithWarnings, LastAttempt
<1>5. CASE ReviewFails
  BY <1>5 DEF ReviewFails, Conclude, WithWarnings, LastAttempt
<1>6. CASE CorrectionFails
  BY <1>6 DEF CorrectionFails
<1>7. ASSUME NEW d \in Answers, Answer(d) PROVE ReviewShapeInv'
  BY <1>7 DEF Answer
<1>8. ASSUME NEW d \in Answers, Correct(d) PROVE ReviewShapeInv'
  BY <1>8 DEF Correct
<1>9. ASSUME NEW a \in Reviews, Review(a) PROVE ReviewShapeInv'
  BY <1>9 DEF Review, Conclude, WithWarnings, Assessed, LastAttempt
<1>10. ASSUME NEW f \in Files, NEW range \in Ranges, FollowUp(f, range) PROVE ReviewShapeInv'
  BY <1>10 DEF FollowUp
<1>11. ASSUME NEW c \in Contexts, Score(c) PROVE ReviewShapeInv'
  BY <1>11 DEF Score
<1>12. ASSUME NEW token \in BOOLEAN, NEW checkout \in BOOLEAN, Gate(token, checkout) PROVE ReviewShapeInv'
  BY <1>12 DEF Gate
<1>13. ASSUME NEW f \in Files, Edit(f) PROVE ReviewShapeInv'
  BY <1>13 DEF Edit
<1>14. ASSUME NEW f \in Files, NEW range \in Ranges, Read(f, range) PROVE ReviewShapeInv'
  BY <1>14 DEF Read
<1>15. CASE Done
  BY <1>15 DEF Done, vars
<1>16. CASE UNCHANGED vars
  BY <1>16 DEF vars
<1> QED
  BY <1>1, <1>2, <1>3, <1>4, <1>5, <1>6, <1>7, <1>8, <1>9,
     <1>10, <1>11, <1>12, <1>13, <1>14, <1>15, <1>16 DEF Next, Steps

\* What the last review lets through is what the reviewer was shown.
LEMMA ConfirmedInvStep == AnalysisInv /\ [Next]_vars => ConfirmedInv'
<1> SUFFICES ASSUME AnalysisInv, [Next]_vars PROVE ConfirmedInv'
  OBVIOUS
<1> USE DEF AnalysisInv, TypeOK, ReviewShapeInv, ConfirmedInv, IsBound, IsReviewed
<1>1. CASE EndSeed
  BY <1>1 DEF EndSeed
<1>2. CASE Fail
  BY <1>2 DEF Fail
<1>3. CASE Bind
  BY <1>3 DEF Bind
<1>4. CASE ReviewWithoutEvidence
  BY <1>4 DEF ReviewWithoutEvidence, Conclude, WithWarnings, LastAttempt
<1>5. CASE ReviewFails
  BY <1>5 DEF ReviewFails, Conclude, WithWarnings, LastAttempt
<1>6. CASE CorrectionFails
  BY <1>6 DEF CorrectionFails
<1>7. ASSUME NEW d \in Answers, Answer(d) PROVE ConfirmedInv'
  BY <1>7, AnswersAreDiagnoses DEF Answer
<1>8. ASSUME NEW d \in Answers, Correct(d) PROVE ConfirmedInv'
  BY <1>8, AnswersAreDiagnoses DEF Correct
<1>9. ASSUME NEW a \in Reviews, Review(a) PROVE ConfirmedInv'
  BY <1>9 DEF Review, Conclude, WithWarnings, Assessed, LastAttempt
<1>10. ASSUME NEW f \in Files, NEW range \in Ranges, FollowUp(f, range) PROVE ConfirmedInv'
  BY <1>10 DEF FollowUp
<1>11. ASSUME NEW c \in Contexts, Score(c) PROVE ConfirmedInv'
  BY <1>11 DEF Score
<1>12. ASSUME NEW token \in BOOLEAN, NEW checkout \in BOOLEAN, Gate(token, checkout) PROVE ConfirmedInv'
  BY <1>12 DEF Gate
<1>13. ASSUME NEW f \in Files, Edit(f) PROVE ConfirmedInv'
  BY <1>13 DEF Edit
<1>14. ASSUME NEW f \in Files, NEW range \in Ranges, Read(f, range) PROVE ConfirmedInv'
  BY <1>14 DEF Read
<1>15. CASE Done
  BY <1>15 DEF Done, vars
<1>16. CASE UNCHANGED vars
  BY <1>16 DEF vars
<1> QED
  BY <1>1, <1>2, <1>3, <1>4, <1>5, <1>6, <1>7, <1>8, <1>9,
     <1>10, <1>11, <1>12, <1>13, <1>14, <1>15, <1>16 DEF Next, Steps

\* Evidence and a defect line make more than half of the points.
LEMMA ReadyScores ==
  ASSUME BindingInv, review.verdict = "supported", bound.lines # {}, NEW c \in Contexts
  PROVE  Level(c) # "low"
<1>1. SourceRead
  BY DEF BindingInv, SourceRead
<1>2. CoverageScore(c) \in Int /\ CoverageScore(c) >= 50
  BY <1>1 DEF CoverageScore, Points
<1> QED
  BY <1>2 DEF Level

\* What is ready has its points.
LEMMA LevelInvStep == AnalysisInv /\ [Next]_vars => LevelInv'
<1> SUFFICES ASSUME AnalysisInv, [Next]_vars PROVE LevelInv'
  OBVIOUS
<1> USE DEF AnalysisInv, LevelInv, BindingInv
<1>1. CASE EndSeed
  BY <1>1 DEF EndSeed
<1>2. CASE Fail
  BY <1>2 DEF Fail
<1>3. CASE Bind
  BY <1>3 DEF Bind
<1>4. CASE ReviewWithoutEvidence
  BY <1>4 DEF ReviewWithoutEvidence, Conclude, WithWarnings, LastAttempt
<1>5. CASE ReviewFails
  BY <1>5 DEF ReviewFails, Conclude, WithWarnings, LastAttempt
<1>6. CASE CorrectionFails
  BY <1>6 DEF CorrectionFails
<1>7. ASSUME NEW d \in Answers, Answer(d) PROVE LevelInv'
  BY <1>7 DEF Answer
<1>8. ASSUME NEW d \in Answers, Correct(d) PROVE LevelInv'
  BY <1>8 DEF Correct
<1>9. ASSUME NEW a \in Reviews, Review(a) PROVE LevelInv'
  BY <1>9 DEF Review, Conclude, WithWarnings, Assessed, LastAttempt
<1>10. ASSUME NEW f \in Files, NEW range \in Ranges, FollowUp(f, range) PROVE LevelInv'
  BY <1>10 DEF FollowUp
<1>11. ASSUME NEW c \in Contexts, Score(c) PROVE LevelInv'
  BY <1>11, ReadyScores DEF Score
<1>12. ASSUME NEW token \in BOOLEAN, NEW checkout \in BOOLEAN, Gate(token, checkout) PROVE LevelInv'
  BY <1>12 DEF Gate
<1>13. ASSUME NEW f \in Files, Edit(f) PROVE LevelInv'
  BY <1>13 DEF Edit
<1>14. ASSUME NEW f \in Files, NEW range \in Ranges, Read(f, range) PROVE LevelInv'
  BY <1>14 DEF Read
<1>15. CASE Done
  BY <1>15 DEF Done, vars
<1>16. CASE UNCHANGED vars
  BY <1>16 DEF vars
<1> QED
  BY <1>1, <1>2, <1>3, <1>4, <1>5, <1>6, <1>7, <1>8, <1>9,
     <1>10, <1>11, <1>12, <1>13, <1>14, <1>15, <1>16 DEF Next, Steps

\* The gates are passed by what is not blocked.
LEMMA OutcomeInvStep == AnalysisInv /\ [Next]_vars => OutcomeInv'
<1> SUFFICES ASSUME AnalysisInv, [Next]_vars PROVE OutcomeInv'
  OBVIOUS
<1> USE DEF AnalysisInv, OutcomeInv, LevelInv
<1>1. CASE EndSeed
  BY <1>1 DEF EndSeed
<1>2. CASE Fail
  BY <1>2 DEF Fail
<1>3. CASE Bind
  BY <1>3 DEF Bind
<1>4. CASE ReviewWithoutEvidence
  BY <1>4 DEF ReviewWithoutEvidence, Conclude, WithWarnings, LastAttempt
<1>5. CASE ReviewFails
  BY <1>5 DEF ReviewFails, Conclude, WithWarnings, LastAttempt
<1>6. CASE CorrectionFails
  BY <1>6 DEF CorrectionFails
<1>7. ASSUME NEW d \in Answers, Answer(d) PROVE OutcomeInv'
  BY <1>7 DEF Answer
<1>8. ASSUME NEW d \in Answers, Correct(d) PROVE OutcomeInv'
  BY <1>8 DEF Correct
<1>9. ASSUME NEW a \in Reviews, Review(a) PROVE OutcomeInv'
  BY <1>9 DEF Review, Conclude, WithWarnings, Assessed, LastAttempt
<1>10. ASSUME NEW f \in Files, NEW range \in Ranges, FollowUp(f, range) PROVE OutcomeInv'
  BY <1>10 DEF FollowUp
<1>11. ASSUME NEW c \in Contexts, Score(c) PROVE OutcomeInv'
  BY <1>11 DEF Score
<1>12. ASSUME NEW token \in BOOLEAN, NEW checkout \in BOOLEAN, Gate(token, checkout) PROVE OutcomeInv'
  BY <1>12 DEF Gate, Blocked
<1>13. ASSUME NEW f \in Files, Edit(f) PROVE OutcomeInv'
  BY <1>13 DEF Edit, Blocked
<1>14. ASSUME NEW f \in Files, NEW range \in Ranges, Read(f, range) PROVE OutcomeInv'
  BY <1>14 DEF Read
<1>15. CASE Done
  BY <1>15 DEF Done, vars, Blocked
<1>16. CASE UNCHANGED vars
  BY <1>16 DEF vars, Blocked
<1> QED
  BY <1>1, <1>2, <1>3, <1>4, <1>5, <1>6, <1>7, <1>8, <1>9,
     <1>10, <1>11, <1>12, <1>13, <1>14, <1>15, <1>16 DEF Next, Steps

-----------------------------------------------------------------------------

\* The invariant of an analysis.
THEOREM AnalysisInvariant == Spec => []AnalysisInv
<1>1. AnalysisInv /\ [Next]_vars => AnalysisInv'
  BY TypeOKStep, BindingInvStep, ReviewShapeInvStep, ConfirmedInvStep, LevelInvStep,
     OutcomeInvStep DEF AnalysisInv
<1> QED
  BY AnalysisInvInit, <1>1, PTL DEF Spec

\* Every variable keeps its type.
THEOREM AnalysisTypeCorrect == Spec => []TypeOK
<1>1. AnalysisInv => TypeOK
  BY DEF AnalysisInv
<1> QED
  BY AnalysisInvariant, <1>1, PTL

\* A repair is planned for what the reviewer supported, on lines that evidence
\* of that file covers, and on one state of every file.
THEOREM PlansAreVerifiedHolds == Spec => []PlansAreVerified
<1>1. AnalysisInv => PlansAreVerified
  <2> SUFFICES ASSUME AnalysisInv, outcome = "planned" PROVE PlansAreVerified
    BY DEF PlansAreVerified
  <2>1. /\ pc = "done" /\ result.versioned /\ review.verdict = "supported" /\ review.readiness = "ready"
        /\ bound.lines # {}
    BY DEF AnalysisInv, OutcomeInv, Blocked
  <2>2. confirmed = diagnosis /\ ~diagnosis.warned /\ diagnosis # NoDiagnosis
    BY <2>1, DiagnosisAssumption DEF AnalysisInv, ConfirmedInv, IsReviewed, IsBound
  <2>3. /\ \A l \in bound.lines : \E r \in records :
             r \in bound.cited /\ r.file = diagnosis.file /\ l \in r.range
        /\ \A r, s \in bound.cited : r.file = s.file => r.version = s.version
    BY <2>1 DEF AnalysisInv, BindingInv, IsBound
  <2> QED
    BY <2>1, <2>2, <2>3 DEF PlansAreVerified
<1> QED
  BY AnalysisInvariant, <1>1, PTL

\* Readiness and score agree.
THEOREM ReadyIsNotLowHolds == Spec => []ReadyIsNotLow
<1>1. AnalysisInv => ReadyIsNotLow
  BY DEF AnalysisInv, LevelInv, ReadyIsNotLow, Blocked
<1> QED
  BY AnalysisInvariant, <1>1, PTL
=============================================================================
