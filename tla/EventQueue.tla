----------------------------- MODULE EventQueue -----------------------------
(***************************************************************************)
(* issuelayer/intake/queue.py: the queue of error events in one JSON file. *)
(* Every call but stats holds the queue's lock, reads the whole file and,  *)
(* when it changes something, writes the whole file again.  Opening the    *)
(* file for that empties it first, so a write that is cut off, by the end  *)
(* of the process or by a full disk, leaves a file that does not parse,    *)
(* which _read takes for an empty one.                                     *)
(*                                                                         *)
(* The workers are outside src/: they use the queue as its doc strings     *)
(* say, from claim_next over rca_done to done or failed.                   *)
(***************************************************************************)
EXTENDS Naturals, SequencesExt

CONSTANTS
  Prints,      \* fingerprints
  Workers,     \* threads that take events from the queue
  NoEvent,
  MaxEvents,   \* bound on the events that are ever pushed
  MaxCrashes   \* bound on the crashes of the process

ASSUME QueueAssumption ==
  /\ NoEvent \notin Nat
  /\ MaxEvents \in Nat \ {0}
  /\ MaxCrashes \in Nat

Ids == 1..MaxEvents

VARIABLES
  rows,     \* the events in the file, in their order there
  torn,     \* the file has been emptied and not yet written
  op,       \* the call that holds the lock while it writes, or Idle
  holds,    \* worker -> the event it works on
  up,       \* the process runs
  pushed,   \* events pushed so far
  crashes,  \* crashes so far
  dropped,  \* history: events that were deleted
  again     \* history: an event was reset after its RCA; a write was cut off

queueVars == <<rows, torn, op, holds, up, pushed, crashes, dropped, again>>

Statuses == {"pending", "running", "rca_done", "done", "failed"}
Active == {"pending", "running"}
Events == [id : Ids, print : Prints, status : Statuses]

\* The write of a call: the new content, and who claims which event with it.
Idle == [writes |-> FALSE, rows |-> <<>>, by |-> {}, claims |-> NoEvent]

QueueTypeOK ==
  /\ rows \in Seq(Events) /\ Len(rows) <= MaxEvents
  /\ torn \in BOOLEAN
  /\ op.writes \in BOOLEAN /\ op.rows \in Seq(Events)
  /\ op.by \subseteq Workers /\ op.claims \in Ids \cup {NoEvent}
  /\ holds \in [Workers -> Ids \cup {NoEvent}]
  /\ up \in BOOLEAN
  /\ pushed \in 0..MaxEvents
  /\ crashes \in 0..MaxCrashes
  /\ dropped \subseteq Ids
  /\ again \in [reset : BOOLEAN, torn : BOOLEAN]

QueueInit ==
  /\ rows = <<>>
  /\ torn = FALSE
  /\ op = Idle
  /\ holds = [w \in Workers |-> NoEvent]
  /\ up = TRUE
  /\ pushed = 0
  /\ crashes = 0
  /\ dropped = {}
  /\ again = [reset |-> FALSE, torn |-> FALSE]

-----------------------------------------------------------------------------
(* Reading and writing the file.                                            *)

\* What json.load finds, or the exception that _read catches.
Read == IF torn THEN <<>> ELSE rows

\* Calls do not wait for each other.
MutLockFree == up

LockFree == up /\ op = Idle

\* _write: open(..., "w") empties the file.
StartWrite(content) ==
  /\ LockFree
  /\ op' = [Idle EXCEPT !.writes = TRUE, !.rows = content]
  /\ torn' = TRUE
  /\ UNCHANGED rows

\* The new content is there, the lock is released and the call returns; a
\* claim hands the event to its worker.
FinishWrite ==
  /\ op.writes
  /\ rows' = op.rows
  /\ torn' = FALSE
  /\ op' = Idle
  /\ holds' = [w \in Workers |-> IF w \in op.by THEN op.claims ELSE holds[w]]
  /\ UNCHANGED <<up, pushed, crashes, dropped, again>>

\* json.dump raises, on a full disk: the file stays as far as it got, the lock
\* is released, and the caller has the exception instead of an event.
WriteFails ==
  /\ op.writes
  /\ op' = Idle
  /\ again' = [again EXCEPT !.torn = TRUE]
  /\ UNCHANGED <<rows, torn, holds, up, pushed, crashes, dropped>>

\* A claim that is not written back.
MutWithStatus(events, i, status) ==
  [k \in DOMAIN events |->
     IF events[k].id = i /\ status # "running" THEN [events[k] EXCEPT !.status = status]
     ELSE events[k]]

\* The rows with another status for event i, if it is there.
WithStatus(events, i, status) ==
  [k \in DOMAIN events |->
     IF events[k].id = i THEN [events[k] EXCEPT !.status = status] ELSE events[k]]

-----------------------------------------------------------------------------
(* The operations.                                                          *)

\* Only events that wait count as active.
MutActivePrints == {e.print : e \in {e \in ToSet(Read) : e.status = "pending"}}

\* Fingerprints that are pending or running.
ActivePrints == {e.print : e \in {e \in ToSet(Read) : e.status \in Active}}

\* push: an event with the fingerprint of an active one is not added.
Push(print) ==
  /\ pushed < MaxEvents
  /\ print \notin ActivePrints
  /\ StartWrite(Append(Read, [id |-> pushed + 1, print |-> print, status |-> "pending"]))
  /\ pushed' = pushed + 1
  /\ UNCHANGED <<holds, up, crashes, dropped, again>>

\* claim_next: the first pending event in the file.
Claim(w) ==
  /\ LockFree /\ holds[w] = NoEvent
  /\ \E k \in DOMAIN Read :
       /\ Read[k].status = "pending" /\ \A l \in 1..(k - 1) : Read[l].status # "pending"
       /\ op' = [writes |-> TRUE, rows |-> WithStatus(Read, Read[k].id, "running"),
                 by |-> {w}, claims |-> Read[k].id]
  /\ torn' = TRUE
  /\ UNCHANGED <<rows, holds, up, pushed, crashes, dropped, again>>

\* update_status: an event that is gone is not updated, the file is written.
UpdateStatus(i, status) == StartWrite(WithStatus(Read, i, status))

\* The worker has the RCA; it goes on with the fix.
RcaDone(w) ==
  /\ holds[w] # NoEvent
  /\ \E e \in ToSet(Read) : e.id = holds[w] /\ e.status = "running"
  /\ UpdateStatus(holds[w], "rca_done")
  /\ UNCHANGED <<holds, up, pushed, crashes, dropped, again>>

\* The worker is through with the event, with or without success.
EndEvent(w) ==
  /\ holds[w] # NoEvent
  /\ \E status \in {"done", "failed"} : UpdateStatus(holds[w], status)
  /\ holds' = [holds EXCEPT ![w] = NoEvent]
  /\ UNCHANGED <<up, pushed, crashes, dropped, again>>

\* delete: of an event that is there.
Delete(i) ==
  /\ \E k \in DOMAIN Read : Read[k].id = i /\ StartWrite(RemoveAt(Read, k))
  /\ dropped' = dropped \cup {i}
  /\ UNCHANGED <<holds, up, pushed, crashes, again>>

\* clear: of a queue that holds something.
Clear ==
  /\ Read # <<>>
  /\ StartWrite(<<>>)
  /\ dropped' = dropped \cup {e.id : e \in ToSet(Read)}
  /\ UNCHANGED <<holds, up, pushed, crashes, again>>

-----------------------------------------------------------------------------
(* The process.                                                             *)

\* What was being written is lost, and the file with it.
Crash ==
  /\ up
  /\ crashes < MaxCrashes
  /\ crashes' = crashes + 1
  /\ up' = FALSE
  /\ op' = Idle
  /\ holds' = [w \in Workers |-> NoEvent]
  /\ again' = [again EXCEPT !.torn = @ \/ op # Idle]
  /\ UNCHANGED <<rows, torn, pushed, dropped>>

\* Events whose RCA was running are not taken up again.
MutInterrupted == {"rca_done"}

Interrupted == {"running", "rca_done"}

\* reset_interrupted: what was in work is pending again.
Reset == [k \in DOMAIN Read |->
            IF Read[k].status \in Interrupted THEN [Read[k] EXCEPT !.status = "pending"]
            ELSE Read[k]]

\* The process starts: EventQueue() finds its file, and reset_interrupted
\* writes it if there is something to reset.
Restart ==
  /\ ~up
  /\ up' = TRUE
  /\ IF Reset = Read THEN UNCHANGED <<op, torn>>
     ELSE op' = [Idle EXCEPT !.writes = TRUE, !.rows = Reset] /\ torn' = TRUE
  /\ again' = [again EXCEPT !.reset = @ \/ \E e \in ToSet(Read) : e.status = "rca_done"]
  /\ UNCHANGED <<rows, holds, pushed, crashes, dropped>>

WorkerStep(w) == Claim(w) \/ RcaDone(w) \/ EndEvent(w)

-----------------------------------------------------------------------------
(* What the queue guarantees.                                               *)

\* No event disappears: what was pushed and not deleted is in the file, through
\* resets and restarts, unless a write of the file was cut off.
EventsSurvive ==
  op = Idle /\ ~again.torn => (1..pushed) \ dropped \subseteq {e.id : e \in ToSet(rows)}

\* What the file holds when the call that has the lock returns.
Content == IF op.writes THEN op.rows ELSE Read

\* Event i is among the events, with one of the statuses.
Has(events, i, statuses) == \E e \in ToSet(events) : e.id = i /\ e.status \in statuses

\* Where an event is in its life: a call takes effect when it gets the lock.
StageOf(i) ==
  CASE i > pushed                           -> "none"
    [] Has(Content, i, {"pending"})         -> "waiting"
    [] Has(Content, i, Interrupted)         -> "working"
    [] Has(Content, i, {"done", "failed"})  -> "over"
    [] OTHER                                -> IF i \in dropped THEN "gone" ELSE "lost"

Q == INSTANCE QueueContract WITH Ids <- Ids, alive <- up,
                                 stage <- [i \in Ids |-> StageOf(i)]

\* The file, its lock and its workers keep what the queue promises: events are
\* begun in the order in which they were pushed, and again only after a restart;
\* each is ended once, by the one worker that has it; and none comes back
\* after it was ended, deleted or lost.
ImplementsQueue == Q!Contract
=============================================================================
