---------------------------- MODULE JobStoreTxn -----------------------------
(***************************************************************************)
(* The methods of storage/job_store.py statement by statement, on          *)
(* connections that SQLite interleaves: each call opens a connection, may  *)
(* start its transaction with BEGIN IMMEDIATE, reads, writes and commits.  *)
(* SQLite lets one connection write at a time; a statement that writes     *)
(* opens a transaction when none is open; a connection that cannot get the *)
(* write lock in 10 s raises; a crash drops what was not committed.        *)
(***************************************************************************)
EXTENDS JobStore

CONSTANTS
  Connections,   \* concurrent callers: request threads and the worker
  NoConnection   \* holds the write lock when no connection does

ASSUME ConnectionAssumption == NoConnection \notin Connections

VARIABLES
  op,      \* connection -> the call it makes
  stage,   \* connection -> the next statement of the call
  seen,    \* connection -> the rows its SELECT returned
  writer,  \* the connection that holds the write lock
  draft,   \* the tables as that connection's transaction has them
  returned \* history: job id -> how many calls of claim() returned it

callVars == <<op, stage, seen>>
txnVars == <<jobs, snapshots, approvals, op, stage, seen, writer, draft, returned>>

NoOp == [name |-> "none", arg |-> 0]
Ops ==
  {NoOp}
    \cup [name : {"enqueue"}, arg : Deliveries]
    \cup [name : {"claim"}, arg : {0}]
    \cup [name : {"finish", "approve"}, arg : JobIds]

Tables == [jobs |-> jobs, snapshots |-> snapshots, approvals |-> approvals]

Stages == {"idle", "begin", "select", "write", "write2", "commit"}

TxnTypeOK ==
  /\ StoreTypeOK
  /\ op \in [Connections -> Ops]
  /\ stage \in [Connections -> Stages]
  /\ seen \in [Connections -> SUBSET JobIds]
  /\ writer \in Connections \cup {NoConnection}
  /\ draft \in [jobs : [JobIds -> Rows], snapshots : [JobIds -> SnapshotStatuses \cup {"none"}],
                approvals : [JobIds -> PlanStatuses \cup {"none"}]]
  /\ returned \in [JobIds -> Nat]

TxnInit ==
  /\ StoreInit
  /\ op = [c \in Connections |-> NoOp]
  /\ stage = [c \in Connections |-> "idle"]
  /\ seen = [c \in Connections |-> {}]
  /\ writer = NoConnection
  /\ draft = Tables
  /\ returned = [j \in JobIds |-> 0]

-----------------------------------------------------------------------------
\* What the statements of c see: its own transaction, or the last commit.
View(c) == IF writer = c THEN draft ELSE Tables

\* A writing statement: within the open transaction, or opening one.
WriteStatement(c, new) ==
  /\ writer \in {c, NoConnection}
  /\ writer' = c
  /\ draft' = new
  /\ UNCHANGED <<storeVars, returned>>

NextStage(c, s) == stage' = [stage EXCEPT ![c] = s] /\ UNCHANGED <<op, seen>>

\* The calls that are made: a finish by the one who has claimed the job, and a
\* decision on a plan that is not decided (ApprovalStore holds its lock over it).
MayCall(o) ==
  CASE o.name = "finish" -> /\ returned[o.arg] > 0 /\ jobs[o.arg].status = "running"
                            /\ \A e \in Connections : op[e] # o
    [] o.name = "approve" -> /\ IsIncident(o.arg) /\ approvals[o.arg] = "none"
                             /\ \A e \in Connections : op[e].name # "approve"
    [] OTHER -> TRUE

Call(c, o) ==
  /\ stage[c] = "idle"
  /\ MayCall(o)
  /\ op' = [op EXCEPT ![c] = o]
  /\ stage' = [stage EXCEPT ![c] = IF o.name = "finish" THEN "write" ELSE "begin"]
  /\ UNCHANGED <<storeVars, seen, writer, draft, returned>>

\* A transaction that starts at its first write: sqlite3's default.
MutBeginDeferred(c) ==
  /\ stage[c] = "begin"
  /\ NextStage(c, "select")
  /\ UNCHANGED <<storeVars, writer, draft, returned>>

\* BEGIN IMMEDIATE.
Begin(c) ==
  /\ stage[c] = "begin"
  /\ writer = NoConnection
  /\ writer' = c
  /\ draft' = Tables
  /\ NextStage(c, "select")
  /\ UNCHANGED <<storeVars, returned>>

\* sqlite3.OperationalError: the lock was not free within the timeout.
TimeOut(c) ==
  /\ stage[c] \in {"begin", "write"}
  /\ writer \notin {c, NoConnection}
  /\ stage' = [stage EXCEPT ![c] = "idle"]
  /\ op' = [op EXCEPT ![c] = NoOp]
  /\ UNCHANGED <<storeVars, seen, writer, draft, returned>>

\* The rows that the call's SELECT asks for, and whether it then has no work: a
\* duplicate, or an empty queue.
Asked(o, t) ==
  CASE o.name = "enqueue" ->
         {j \in JobIds : /\ t.jobs[j].kind = "incident" /\ t.jobs[j].key = o.arg
                         /\ t.jobs[j].status \notin {"failed", "interrupted"}}
    [] o.name = "claim" ->
         {j \in JobIds : /\ t.jobs[j].status = "pending"
                         /\ \A i \in 1..(j - 1) : t.jobs[i].status # "pending"}
    [] OTHER -> {}

NoWork(o, found) ==
  \/ o.name = "enqueue" /\ found # {}
  \/ o.name = "claim" /\ found = {}

Select(c) ==
  LET found == Asked(op[c], View(c))
  IN /\ stage[c] = "select"
     /\ seen' = [seen EXCEPT ![c] = found]
     /\ stage' = [stage EXCEPT ![c] = IF NoWork(op[c], found) THEN "commit" ELSE "write"]
     /\ UNCHANGED <<storeVars, op, writer, draft, returned>>

\* INSERT INTO jobs, with the next id.
Inserted(t, row) ==
  {[t EXCEPT !.jobs[j] = row] : j \in {i \in JobIds :
     t.jobs[i] = Absent /\ \A h \in 1..(i - 1) : t.jobs[h] # Absent}}

\* What the first writing statement of a call makes of the tables, ...
Written(o, found, t) ==
  CASE o.name = "enqueue" -> Inserted(t, Row("incident", o.arg, "pending"))
    [] o.name = "approve" -> {[t EXCEPT !.approvals[o.arg] = "APPROVED"]}
    [] o.name = "claim" -> {[t EXCEPT !.jobs[j].status = "running"] : j \in found}
    [] o.name = "finish" ->
         {[t EXCEPT !.jobs[o.arg].status = s] : s \in {"completed", "failed"}}

\* ... and the second: the continuation of a decision, or the snapshot of the
\* new incident, which is the newest row.
WrittenNext(o, t) ==
  IF o.name = "approve" THEN Inserted(t, Row("remediation", o.arg, "pending"))
  ELSE {[t EXCEPT !.snapshots[j] = "pending"] : j \in {i \in JobIds :
          t.jobs[i] # Absent /\ \A h \in JobIds : h > i => t.jobs[h] = Absent}}

Write(c) ==
  /\ stage[c] = "write"
  /\ \E new \in Written(op[c], seen[c], View(c)) : WriteStatement(c, new)
  /\ NextStage(c, IF op[c].name \in {"claim", "finish"} THEN "commit" ELSE "write2")

Write2(c) ==
  /\ stage[c] = "write2"
  /\ \E new \in WrittenNext(op[c], View(c)) : WriteStatement(c, new)
  /\ NextStage(c, "commit")

\* The end of the with block: what was written is there, and the call returns.
Commit(c) ==
  /\ stage[c] = "commit"
  /\ IF writer = c
     THEN /\ jobs' = draft.jobs
          /\ snapshots' = draft.snapshots
          /\ approvals' = draft.approvals
          /\ writer' = NoConnection
     ELSE UNCHANGED <<storeVars, writer>>
  /\ returned' = [j \in JobIds |->
       returned[j] + IF op[c].name = "claim" /\ j \in seen[c] THEN 1 ELSE 0]
  /\ stage' = [stage EXCEPT ![c] = "idle"]
  /\ op' = [op EXCEPT ![c] = NoOp]
  /\ seen' = [seen EXCEPT ![c] = {}]
  /\ UNCHANGED draft

\* The process stops and is started again (its recovery is JobStore's Recover).
TxnCrash ==
  /\ op' = [c \in Connections |-> NoOp]
  /\ stage' = [c \in Connections |-> "idle"]
  /\ seen' = [c \in Connections |-> {}]
  /\ writer' = NoConnection
  /\ UNCHANGED <<storeVars, draft, returned>>

-----------------------------------------------------------------------------
ConnectionStep(c) == Begin(c) \/ TimeOut(c) \/ Select(c) \/ Write(c) \/ Write2(c) \/ Commit(c)

TxnNext ==
  \/ \E c \in Connections, o \in Ops \ {NoOp} : Call(c, o)
  \/ \E c \in Connections : ConnectionStep(c)
  \/ TxnCrash

TxnSpec == TxnInit /\ [][TxnNext]_txnVars

\* Every interleaving of the statements of the connections, with crashes
\* anywhere, is a sequence of the atomic steps of JobStore: a delivery gets one
\* job, and a decision and its continuation appear together.
ImplementsJobStore == StoreSpec
=============================================================================
