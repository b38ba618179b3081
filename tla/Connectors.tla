----------------------------- MODULE Connectors -----------------------------
(***************************************************************************)
(* issuelayer/connectors/ and issuelayer/intake/normalizers/: deliveries   *)
(* of GitHub, Jira and ServiceNow that are checked, normalised to an error *)
(* event and pushed on the queue.  A delivery is a record of what the      *)
(* checks and the normalisers look at; each may arrive any number of       *)
(* times.  A text is known by what the regular expressions find in it.     *)
(***************************************************************************)
EXTENDS EventQueue

CONSTANTS
  Deliveries,  \* records, see DeliveryAssumption
  None         \* what is not found in a text, the empty part of a fingerprint

VARIABLES
  queued,      \* history: event -> the delivery and the error event it became
  deduped      \* history: the last delivery answered "deduplicated", with its error

vars == <<queueVars, queued, deduped>>

Sources == {"github_issue", "jira", "servicenow"}

\* GitHub: an issue event, "opened", with one of the labels of a bug and with
\* the fields of its repository.
Flags == {"authentic", "opened", "labelled", "located"}

\* texts: what full_text can be when the delivery is normalised.
Fields == {"source", "issue", "title", "texts"}

\* What is found in a text: the error in the traceback that extract_traceback
\* takes, and, if it has the form of an incident, its first 300 characters.
\* The text of Jira and of ServiceNow is all in the payload.  GitHub's has the
\* comments of the issue, which are fetched when the event is normalised: none
\* without a token or when GitHub fails, and more of them later.  Comments can
\* change all that is found, for a traceback in a code fence is taken before
\* one in plain text, and a Python one before a Java one, wherever they are.
ASSUME DeliveryAssumption ==
  \A d \in Deliveries : /\ DOMAIN d = Flags \cup Fields
                        /\ d.source \in Sources
                        /\ \A f \in Flags : d[f] \in BOOLEAN
                        /\ \A t \in d.texts : DOMAIN t = {"traceback", "incident"}
                        /\ d.source # "github_issue" => \A s, t \in d.texts : s = t

-----------------------------------------------------------------------------
(* The normalisers.                                                         *)

Or(x, y) == IF x = None THEN y ELSE x

\* extract_error_type_message: without a traceback the title tells the error.
ErrorOf(d, text) == Or(text.traceback, d.title)

\* GitHub: of a text in the form of an incident, the beginning tells it.
GithubErrorOf(d, text) == Or(text.traceback, Or(text.incident, d.title))

\* Fingerprints of the error alone, for every source.
MutFingerprint(source, seed, error) == <<source, None, error>>

\* make_fingerprint.
Fingerprint(source, seed, error) == <<source, seed, error>>

\* The ErrorEvent of a delivery, as far as the queue and its callers look at it;
\* "seed" is what is part of the fingerprint beside the error.
ErrorEvent(d, error, seed) ==
  [external |-> d.issue, error |-> error, print |-> Fingerprint(d.source, seed, error)]

\* normalise_github_issue: the issue is not part of the fingerprint.
GithubEvents(d) == {ErrorEvent(d, GithubErrorOf(d, text), None) : text \in d.texts}

\* normalise_jira_issue.
JiraEvents(d) == {ErrorEvent(d, ErrorOf(d, text), d.issue) : text \in d.texts}

\* normalise_servicenow_incident.
ServiceNowEvents(d) == {ErrorEvent(d, ErrorOf(d, text), d.issue) : text \in d.texts}

\* normalise_source_event.  GitHub's returns nothing without the repository or
\* a label; the other two always return an event.
Normalised(d) ==
  CASE d.source = "jira"         -> JiraEvents(d)
    [] d.source = "servicenow"   -> ServiceNowEvents(d)
    [] d.source = "github_issue" -> IF d.located /\ d.labelled THEN GithubEvents(d) ELSE {}

\* Prints are fingerprints.
ASSUME PrintAssumption == \A d \in Deliveries : \A e \in Normalised(d) : e.print \in Prints

-----------------------------------------------------------------------------
(* The handlers.  What they refuse or ignore changes nothing.               *)

\* queue.push of one of the events that the delivery can become.
QueueOrDeduplicate(d) ==
  \E e \in Normalised(d) :
    \/ /\ Push(e.print)
       /\ queued' = [queued EXCEPT ![pushed + 1] = [delivery |-> d, event |-> e]]
       /\ UNCHANGED deduped
    \/ /\ LockFree /\ e.print \in ActivePrints
       /\ deduped' = [delivery |-> d, error |-> e.error]
       /\ UNCHANGED <<queueVars, queued>>

\* handle_github_issue_event: only of an issue that was opened.
HandleGithub(d) ==
  /\ d.source = "github_issue" /\ d.authentic /\ d.opened
  /\ QueueOrDeduplicate(d)

\* handle_jira_event.
HandleJira(d) ==
  /\ d.source = "jira" /\ d.authentic
  /\ QueueOrDeduplicate(d)

\* handle_servicenow_event.
HandleServiceNow(d) ==
  /\ d.source = "servicenow" /\ d.authentic
  /\ QueueOrDeduplicate(d)

Init ==
  /\ QueueInit
  /\ queued = [i \in Ids |-> NoEvent]
  /\ deduped = NoEvent

QueueStep ==
  /\ \/ FinishWrite \/ WriteFails \/ Clear \/ Crash \/ Restart
     \/ \E w \in Workers : WorkerStep(w)
     \/ \E i \in Ids : Delete(i)
  /\ UNCHANGED <<queued, deduped>>

Next ==
  \/ QueueStep
  \/ \E d \in Deliveries : HandleGithub(d) \/ HandleJira(d) \/ HandleServiceNow(d)

Spec == Init /\ [][Next]_vars

\* A write ends, a worker's thread is scheduled and what it calls returns, and
\* a stopped process is started again.
FairSpec ==
  /\ Spec
  /\ WF_vars(FinishWrite /\ UNCHANGED <<queued, deduped>>)
  /\ WF_vars(Restart /\ UNCHANGED <<queued, deduped>>)
  /\ \A w \in Workers :
       /\ WF_vars(Claim(w) /\ UNCHANGED <<queued, deduped>>)
       /\ WF_vars(EndEvent(w) /\ UNCHANGED <<queued, deduped>>)

TypeOK ==
  /\ QueueTypeOK
  /\ DOMAIN queued = Ids
  /\ \A i \in Ids : i > pushed => queued[i] = NoEvent
  /\ \A i \in 1..pushed : queued[i].delivery \in Deliveries
  /\ deduped # NoEvent => deduped.delivery \in Deliveries

-----------------------------------------------------------------------------
(* What the intake guarantees.                                              *)

\* A delivery that is answered as a duplicate is about an issue that was
\* queued with the same error.  For GitHub this does not hold: its fingerprint
\* knows neither the issue nor the repository, so an error of one repository
\* hides the same error of another (github_normaliser.py 120).
DedupedWasQueued ==
  deduped # NoEvent =>
    \E i \in 1..pushed :
      /\ queued[i].event.error = deduped.error
      /\ deduped.delivery.source # "github_issue" =>
           queued[i].event.external = deduped.delivery.issue

\* One delivery is never twice among the events that are waiting or in work,
\* with two exceptions: a restart has reset an event whose RCA was done, for
\* it does not count as active and its twin may have been pushed (queue.py 62
\* to 67, 112); and the comments of a GitHub issue, fetched each time that the
\* delivery is normalised, have made another error of it (github_normaliser.py
\* 62, 97 to 113), so that it has another fingerprint.
OneActivePerDelivery ==
  ~again.reset =>
    \A i, j \in DOMAIN rows :
      LET a == queued[rows[i].id]
          b == queued[rows[j].id]
      IN /\ i # j
         /\ {rows[i].status, rows[j].status} \subseteq Active
         /\ a.delivery = b.delivery
         => a.delivery.source = "github_issue" /\ a.event.error # b.event.error

\* Every event that is queued is worked on to its end, through restarts, unless
\* it is deleted or lost with the file.
EventsEnd ==
  \A i \in Ids :
    (i <= pushed) ~>
      (\/ again.torn \/ i \in dropped
       \/ \E e \in ToSet(rows) : e.id = i /\ e.status \in {"done", "failed"})
=============================================================================
