---------------------------- MODULE RunContract -----------------------------
(***************************************************************************)
(* What workflows/job_worker.py relies on when it runs an incident: a run  *)
(* stores at most one plan, only while it runs, and it ends.  JobWorker    *)
(* models the intake workflow by this contract; IntakeWorkflow, the graph  *)
(* itself, implements it.                                                  *)
(***************************************************************************)
EXTENDS Naturals

CONSTANTS Runs, NoRun

VARIABLES
  current,   \* the run that the worker is in, or NoRun
  proposed   \* run -> how many plans it has stored

run == <<current, proposed>>

RunInit == current = NoRun /\ proposed = [r \in Runs |-> 0]

Begin ==
  /\ current = NoRun
  /\ current' \in {r \in Runs : proposed[r] = 0}
  /\ UNCHANGED proposed

Propose ==
  /\ current # NoRun /\ proposed[current] = 0
  /\ proposed' = [proposed EXCEPT ![current] = 1]
  /\ UNCHANGED current

\* With a response, by raising, or because the process stops.
End == current # NoRun /\ current' = NoRun /\ UNCHANGED proposed

RunNext == Begin \/ Propose \/ End

RunSafety == RunInit /\ [][RunNext]_run

Run == RunSafety /\ WF_run(End)
=============================================================================
