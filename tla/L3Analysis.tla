----------------------------- MODULE L3Analysis -----------------------------
(***************************************************************************)
(* One analysis of agents/l3_rca: the evidence read from the checkout, the *)
(* diagnosis that the model answers with, at most two rounds of binding    *)
(* and review with one correction between them, the confidence, and the    *)
(* gates at the start of run_codefix.                                      *)
(*                                                                         *)
(* A record of the evidence is a range of lines of one version of a file;  *)
(* its identifier is derived from the three, so the record is its own      *)
(* identifier. A diagnosis names a file, the evidence that it rests on and *)
(* defect lines with the evidence of each.                                 *)
(***************************************************************************)
EXTENDS FiniteSets, Integers

CONSTANTS
  Files, Lines,
  Ranges,         \* sets of lines that can be read at once
  Unknown,        \* an identifier of no record
  NoDiagnosis,
  MaxRecords,     \* the budget of SourceEvidence (20 records in the code)
  MaxFollowUps,   \* ranges that a review may ask for (3 in the code)
  MaxCited,       \* bound on the evidence and on the defect lines of a diagnosis
  MaxEdits        \* bound on the changes of the checkout during the analysis

ASSUME AnalysisAssumption ==
  /\ Ranges \subseteq SUBSET Lines
  /\ {MaxRecords, MaxFollowUps, MaxCited, MaxEdits} \subseteq Nat

VARIABLES
  source,     \* file -> its version in the checkout
  records,    \* SourceEvidence.records
  pc,         \* the step that is next
  attempt,    \* 0, or 1 after the correction
  diagnosis,  \* parsed
  bound,      \* what bind made of it: cited records, defect lines, errors
  review,     \* context["causal_review"]
  requests,   \* follow-up ranges still to be read
  confirmed,  \* history: what the reviewer last supported, or NoDiagnosis
  result,     \* level of confidence, and whether the report is of version 2
  outcome     \* what run_codefix makes of it

vars == <<source, records, pc, attempt, diagnosis, bound, review, requests,
          confirmed, result, outcome>>

Versions == 1..(MaxEdits + 1)
Records == [file : Files, version : Versions, range : Ranges]
Ids == Records \cup {Unknown}

\* The diagnoses that the model can answer with; "warned" is one that
\* _semantic_validation_warnings objects to.
Diagnoses ==
  [file : Files, ids : SUBSET Ids, locations : SUBSET (Lines \X Ids), warned : BOOLEAN]

Answers ==
  LET known == records \cup {Unknown} IN
  [file : Files,
   ids : {s \in SUBSET known : Cardinality(s) <= MaxCited},
   locations : {s \in SUBSET (Lines \X known) : Cardinality(s) <= MaxCited},
   warned : BOOLEAN]

ASSUME DiagnosisAssumption == NoDiagnosis \notin Diagnoses

Verdicts == {"supported", "contradicted", "insufficient"}

\* CausalReview: what the reviewer answers.
Reviews ==
  [verdict : Verdicts, uncertain : BOOLEAN, location : Verdicts, indexed : BOOLEAN,
   readiness : {"ready", "needs_investigation", "blocked"}, requests : 0..MaxFollowUps]

NoBinding == [cited |-> {}, lines |-> {}, valid |-> FALSE, misplaced |-> FALSE]
NoReview == [verdict |-> "insufficient", location |-> "insufficient",
             readiness |-> "needs_investigation", valid |-> FALSE]
NoResult == [level |-> "low", versioned |-> FALSE]

Init ==
  /\ source = [f \in Files |-> 1]
  /\ records = {}
  /\ pc = "seed" /\ attempt = 0
  /\ diagnosis = NoDiagnosis /\ bound = NoBinding /\ review = NoReview
  /\ requests = 0
  /\ confirmed = NoDiagnosis
  /\ result = NoResult /\ outcome = "none"

-----------------------------------------------------------------------------
(* Evidence.                                                                *)

Current(f, range) == [file |-> f, version |-> source[f], range |-> range]

\* SourceEvidence._read, of a range that exists; a known record costs nothing.
Remembered(f, range) ==
  IF Current(f, range) \in records \/ Cardinality(records) < MaxRecords
  THEN records \cup {Current(f, range)}
  ELSE records

\* seed_source_evidence for what the retrieval and the traceback point at, and
\* read_source_evidence for the model.
Read(f, range) ==
  /\ pc \in {"seed", "agent"}
  /\ records' = Remembered(f, range)
  /\ UNCHANGED <<source, pc, attempt, diagnosis, bound, review, requests, confirmed,
                 result, outcome>>

\* Somebody else writes to the checkout; versions are numbered over all files.
Edit(f) ==
  /\ pc # "done"
  /\ \E v \in Versions : /\ \A g \in Files : source[g] < v
                          /\ source' = [source EXCEPT ![f] = v]
  /\ UNCHANGED <<records, pc, attempt, diagnosis, bound, review, requests, confirmed,
                 result, outcome>>

EndSeed ==
  /\ pc = "seed"
  /\ pc' = "agent"
  /\ UNCHANGED <<source, records, attempt, diagnosis, bound, review, requests, confirmed,
                 result, outcome>>

\* agent.invoke and the parsing of its answer.
Answer(d) ==
  /\ pc = "agent"
  /\ diagnosis' = d
  /\ pc' = "bind"
  /\ UNCHANGED <<source, records, attempt, bound, review, requests, confirmed,
                 result, outcome>>

\* An exception on the way there: _fallback_result, a report without a version.
Fail ==
  /\ pc \in {"seed", "agent"}
  /\ pc' = "gate"
  /\ result' = [level |-> "low", versioned |-> FALSE]
  /\ UNCHANGED <<source, records, attempt, diagnosis, bound, review, requests, confirmed,
                 outcome>>

-----------------------------------------------------------------------------
(* Binding and review: _verify_result.                                      *)

Cited(d) == d.ids \cup {location[2] : location \in d.locations}

\* A record is still evidence when the file has the digest that it had then.
Verified(d) == {r \in Cited(d) \cap records : r.version = source[r.file]}

\* The mutant forgets that evidence of another file places no line in this one.
MutPlaced(d, location) ==
  location[2] \in Verified(d) /\ location[1] \in location[2].range

Placed(d, location) ==
  /\ location[2] \in Verified(d)
  /\ location[2].file = d.file
  /\ location[1] \in location[2].range

\* SourceEvidence.bind.
Bind ==
  /\ pc = "bind"
  /\ bound' = [cited |-> Verified(diagnosis),
               lines |-> {l \in Lines : \E location \in diagnosis.locations :
                             location[1] = l /\ Placed(diagnosis, location)},
               valid |-> Cited(diagnosis) = Verified(diagnosis) /\ Verified(diagnosis) # {},
               misplaced |-> \E location \in diagnosis.locations : ~Placed(diagnosis, location)]
  /\ pc' = "review"
  /\ UNCHANGED <<source, records, attempt, diagnosis, review, requests, confirmed,
                 result, outcome>>

Changed == \E r \in bound.cited : r.version # source[r.file]

\* assess_cause after the reviewer has answered.
Assessed(a) ==
  LET verdict == IF a.uncertain THEN "insufficient" ELSE a.verdict IN
  IF verdict = "supported" /\ ~a.indexed
  THEN [verdict |-> "insufficient", location |-> "insufficient",
        readiness |-> "blocked", valid |-> TRUE]
  ELSE [verdict |-> verdict, location |-> a.location, valid |-> TRUE,
        readiness |-> IF verdict # "supported" \/ a.location # "supported" \/ bound.lines = {}
                      THEN "needs_investigation" ELSE a.readiness]

\* Warnings about the place of the defect come after the review and replace
\* its judgement, "blocked" too.
WithWarnings(r) ==
  IF bound.misplaced \/ diagnosis.warned
  THEN [r EXCEPT !.readiness = "needs_investigation"] ELSE r

MutLastAttempt == FALSE

\* One correction at most.
LastAttempt == attempt = 1

Conclude(r, asked) ==
  /\ review' = r
  /\ IF LastAttempt \/ (r.verdict = "supported" /\ r.readiness = "ready")
     THEN pc' = "score" /\ requests' = 0
     ELSE pc' = "correct" /\ requests' = asked
  /\ UNCHANGED <<source, records, attempt, diagnosis, bound, result, outcome>>

\* Citations that do not hold end the review before the reviewer is asked; a
\* change of the file after bind shows only when it is in the cited lines.
ReviewWithoutEvidence ==
  /\ pc = "review"
  /\ ~bound.valid \/ Changed
  /\ confirmed' = NoDiagnosis
  /\ Conclude(WithWarnings([verdict |-> "insufficient", location |-> "insufficient",
                            readiness |-> "blocked", valid |-> FALSE]), 0)

Review(a) ==
  /\ pc = "review" /\ bound.valid
  /\ confirmed' =
       IF /\ a.verdict = "supported" /\ ~a.uncertain /\ a.indexed
          /\ a.location = "supported" /\ a.readiness = "ready"
       THEN diagnosis ELSE NoDiagnosis
  /\ Conclude(WithWarnings(Assessed(a)), a.requests)

\* The call of the reviewer raises.
ReviewFails ==
  /\ pc = "review" /\ bound.valid
  /\ confirmed' = NoDiagnosis
  /\ Conclude(WithWarnings([verdict |-> "insufficient", location |-> "insufficient",
                            readiness |-> "blocked", valid |-> TRUE]), 0)

\* A range that the reviewer asked for; one that cannot be read is skipped.
FollowUp(f, range) ==
  /\ pc = "correct" /\ requests > 0
  /\ requests' = requests - 1
  /\ records' \in {records, Remembered(f, range)}
  /\ UNCHANGED <<source, pc, attempt, diagnosis, bound, review, confirmed, result, outcome>>

\* _review_semantic_result: the revised diagnosis is bound and reviewed again.
Correct(d) ==
  /\ pc = "correct" /\ requests = 0
  /\ diagnosis' = d
  /\ attempt' = 1
  /\ pc' = "bind"
  /\ UNCHANGED <<source, records, bound, review, requests, confirmed, result, outcome>>

CorrectionFails ==
  /\ pc = "correct" /\ requests = 0
  /\ review' = [review EXCEPT !.readiness = "blocked"]
  /\ pc' = "score"
  /\ UNCHANGED <<source, records, attempt, diagnosis, bound, requests, confirmed,
                 result, outcome>>

-----------------------------------------------------------------------------
(* Confidence and gates.                                                    *)

\* The mutant looks only at failing_range, which the prefetch no longer fills.
MutSourceRead == FALSE
SourceRead == records # {}

Points(holds, n) == IF holds THEN n ELSE 0

\* _calculate_confidence, in percent. c holds what only it looks at: traceback,
\* rag, mentions, connected, complete.
CoverageScore(c) ==
    (IF c.traceback THEN 25 ELSE Points(c.rag, 10))
  + (IF SourceRead THEN 25 ELSE Points(c.rag, 15))
  + Points(c.mentions \/ SourceRead \/ c.rag, 20)
  + Points(c.connected, 15)
  + Points(bound.lines # {}, 10)
  + Points(c.complete, 5)

\* _confidence_level: what is not supported is capped at 49, and who reads the
\* level asks only whether it is low.
Level(c) == IF review.verdict # "supported" \/ CoverageScore(c) < 50 THEN "low" ELSE "enough"

Contexts == [traceback : BOOLEAN, rag : BOOLEAN, mentions : BOOLEAN, connected : BOOLEAN,
             complete : BOOLEAN]

Score(c) ==
  /\ pc = "score"
  /\ result' = [level |-> Level(c), versioned |-> TRUE]
  /\ pc' = "gate"
  /\ UNCHANGED <<source, records, attempt, diagnosis, bound, review, requests, confirmed,
                 outcome>>

\* remediation_block_reason: only reports of version 2 carry a readiness.
Blocked ==
  /\ result.versioned
  /\ \/ ~review.valid \/ review.verdict # "supported"
     \/ review.readiness # "ready" \/ review.location # "supported" \/ bound.lines = {}

\* The start of run_codefix: readiness, token, checkout, confidence.
Gate(token, checkout) ==
  /\ pc = "gate"
  /\ pc' = "done"
  /\ outcome' = IF Blocked THEN "blocked"
                ELSE IF ~(token /\ checkout) THEN "failed"
                ELSE IF result.level = "low" THEN "low"
                ELSE "planned"
  /\ UNCHANGED <<source, records, attempt, diagnosis, bound, review, requests, confirmed,
                 result>>

Done == pc = "done" /\ UNCHANGED vars

Steps ==
  \/ EndSeed \/ Fail \/ Bind \/ ReviewWithoutEvidence \/ ReviewFails \/ CorrectionFails
  \/ \E d \in Answers : Answer(d) \/ Correct(d)
  \/ \E a \in Reviews : Review(a)
  \/ \E f \in Files, range \in Ranges : FollowUp(f, range)
  \/ \E c \in Contexts : Score(c)
  \/ \E token, checkout \in BOOLEAN : Gate(token, checkout)

Next ==
  \/ Steps
  \/ \E f \in Files : Edit(f) \/ \E range \in Ranges : Read(f, range)
  \/ Done

Spec == Init /\ [][Next]_vars

\* The worker goes on, and every call of a model answers or raises.
FairSpec == Spec /\ WF_vars(Steps)

-----------------------------------------------------------------------------
(* Properties.                                                              *)

TypeOK ==
  /\ source \in [Files -> Versions]
  /\ records \subseteq Records
  /\ pc \in {"seed", "agent", "bind", "review", "correct", "score", "gate", "done"}
  /\ attempt \in 0..1
  /\ diagnosis \in Diagnoses \cup {NoDiagnosis}
  /\ bound.cited \subseteq Records /\ bound.lines \subseteq Lines
  /\ requests \in 0..MaxFollowUps

\* A repair is planned for exactly the diagnosis that the reviewer was last
\* shown and supported, without an uncertainty or a warning; each defect line
\* that it will patch is in evidence of the file that it will patch, and all
\* evidence was of one state of the checkout when it was bound
\* (agent.py 569-610, source_evidence.py 60-95, code_fix.py 386-457).
PlansAreVerified ==
  outcome = "planned" =>
    /\ confirmed = diagnosis /\ diagnosis # NoDiagnosis /\ ~diagnosis.warned
    /\ bound.lines # {}
    /\ \A l \in bound.lines : \E r \in records :
          r \in bound.cited /\ r.file = diagnosis.file /\ l \in r.range
    /\ \A r, s \in bound.cited : r.file = s.file => r.version = s.version

\* The two judgements agree: what the readiness of a report lets through never
\* has so few points that run_codefix then stops it as of low confidence.
ReadyIsNotLow == (pc = "gate" /\ result.versioned /\ ~Blocked) => result.level # "low"

\* However the model and the reviewer answer, the analysis comes to an end.
AnalysisEnds == <>(pc = "done")

=============================================================================
