--------------------------- MODULE QueueContract ---------------------------
(***************************************************************************)
(* What the intake queue promises its callers (the doc strings of          *)
(* issuelayer/intake/queue.py), without a file, a lock or threads: events  *)
(* are begun in the order in which they came, each is ended once, and a    *)
(* restart gives back, at once, all that was in work.  Only a call or a    *)
(* process that is cut off may lose events, and then the whole queue.      *)
(***************************************************************************)
EXTENDS Naturals

CONSTANT Ids      \* the events, numbered as they come

VARIABLES
  stage,  \* event -> where it is in its life
  alive   \* the process runs

Present == {"waiting", "working", "over"}

Stages == {"none", "gone", "lost"} \cup Present

ContractTypeOK == stage \in [Ids -> Stages] /\ alive \in BOOLEAN

ContractInit ==
  /\ stage = [i \in Ids |-> "none"]
  /\ alive = TRUE

Older(i) == {j \in Ids : j < i}

Move(i, from, to) ==
  /\ alive /\ stage[i] = from
  /\ stage' = [stage EXCEPT ![i] = to]
  /\ UNCHANGED alive

Enter(i) == Move(i, "none", "waiting") /\ \A j \in Older(i) : stage[j] # "none"
Begin(i) == Move(i, "waiting", "working") /\ \A j \in Older(i) : stage[j] # "waiting"
End(i) == Move(i, "working", "over")

\* The stages after all of "some" have gone to one stage.
Moved(some, to) == [i \in Ids |-> IF i \in some THEN to ELSE stage[i]]

InStages(stages) == {i \in Ids : stage[i] \in stages}

\* Somebody deletes events, whatever has become of them.
Remove(some) ==
  /\ alive /\ some \subseteq InStages(Present)
  /\ stage' = Moved(some, "gone")
  /\ UNCHANGED alive

\* A call is cut off.
Lose ==
  /\ alive /\ UNCHANGED alive
  /\ stage' = Moved(InStages(Present), "lost")

Stop ==
  /\ alive /\ alive' = FALSE
  /\ stage' \in {stage, Moved(InStages(Present), "lost")}

Start ==
  /\ ~alive /\ alive' = TRUE
  /\ stage' = Moved(InStages({"working"}), "waiting")

ContractNext ==
  \/ \E i \in Ids : Enter(i) \/ Begin(i) \/ End(i)
  \/ \E some \in SUBSET Ids : Remove(some)
  \/ Lose \/ Stop \/ Start

Contract == ContractInit /\ [][ContractNext]_<<stage, alive>>
=============================================================================
