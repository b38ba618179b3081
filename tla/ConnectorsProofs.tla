-------------------------- MODULE ConnectorsProofs --------------------------
(***************************************************************************)
(* The safety properties of the intake queue and the connectors, for every *)
(* set of workers and deliveries and any number of events and crashes.     *)
(* QueueInv is inductive; the properties follow from it, and with it every *)
(* step is one that QueueContract allows.                                  *)
(***************************************************************************)
EXTENDS Connectors, SequenceTheorems, TLAPS

-----------------------------------------------------------------------------
(* The invariant, for a content r of the file: what it holds, and what the   *)
(* call that has the lock is writing.                                        *)

IdsIn(r) == {r[k].id : k \in DOMAIN r}

\* Each row is an event that was pushed, with the fingerprint it had, and the
\* rows are in the order in which they were pushed.
Wellformed(r) ==
  /\ r \in Seq(Events) /\ Len(r) <= pushed
  /\ \A k \in DOMAIN r : /\ r[k].id \in 1..pushed
                         /\ r[k].print = queued[r[k].id].event.print
  /\ \A k, l \in DOMAIN r : k < l => r[k].id < r[l].id

OneActive(r) ==
  \A k, l \in DOMAIN r :
    r[k].status \in Active /\ r[l].status \in Active /\ r[k].print = r[l].print => k = l

\* A worker may have event i: if it is there, it is in work.
InWork(r, i) == \A k \in DOMAIN r : r[k].id = i => r[k].status \in Interrupted

\* The lock: a call that writes has emptied the file, in a process that runs.
LockInv ==
  /\ op.writes => torn /\ up
  /\ ~op.writes => op = Idle
  /\ torn => op.writes \/ again.torn

\* An event is with one worker at most, and in work as long as it is.
WorkInv ==
  /\ ~up => \A w \in Workers : holds[w] = NoEvent
  /\ \A w \in Workers :
       holds[w] # NoEvent => /\ holds[w] \in 1..pushed /\ holds[w] # op.claims
                             /\ InWork(Content, holds[w])
                             /\ \A v \in Workers : holds[v] = holds[w] => v = w
  /\ op.claims # NoEvent => /\ op.claims \in 1..pushed /\ InWork(Content, op.claims)
                            /\ \E w \in Workers : op.by = {w}

\* What is deleted is not there any more.
DroppedInv == dropped \subseteq 1..pushed /\ IdsIn(Content) \cap dropped = {}

HistoryInv ==
  \A i \in 1..pushed : /\ queued[i].delivery \in Deliveries
                       /\ queued[i].event \in Normalised(queued[i].delivery)

QueueInv ==
  /\ TypeOK
  /\ LockInv
  /\ WorkInv
  /\ DroppedInv
  /\ HistoryInv
  /\ Wellformed(rows) /\ Wellformed(op.rows)
  /\ ~again.reset => OneActive(rows) /\ OneActive(op.rows)
  /\ ~again.torn => (1..pushed) \ dropped \subseteq IdsIn(Content)
  /\ DedupedWasQueued

-----------------------------------------------------------------------------
(* The contents that the calls make of the one they read.                    *)

\* One row goes, the others keep their order.
LEMMA RemoveAtFacts ==
  ASSUME NEW S, NEW r \in Seq(S), NEW k \in DOMAIN r
  PROVE  /\ RemoveAt(r, k) \in Seq(S)
         /\ Len(RemoveAt(r, k)) = Len(r) - 1
         /\ \A l \in DOMAIN RemoveAt(r, k) :
              RemoveAt(r, k)[l] = IF l < k THEN r[l] ELSE r[l + 1]
<1> DEFINE a == SubSeq(r, 1, k - 1)
           b == SubSeq(r, k + 1, Len(r))
<1>0. Len(r) \in Nat /\ DOMAIN r = 1..Len(r) /\ \A l \in 1..Len(r) : r[l] \in S
  BY LenProperties, ElementOfSeq
<1>1. /\ a \in Seq(S) /\ Len(a) = k - 1
      /\ \A l \in 1..(k - 1) : a[l] = r[l]
  <2>1. \A l \in 1..(k - 1) : r[l] \in S
    BY <1>0
  <2> QED
    BY <1>0, <2>1, SubSeqProperties
<1>2. /\ b \in Seq(S) /\ Len(b) = Len(r) - k
      /\ \A l \in 1..(Len(r) - k) : b[l] = r[k + l]
  <2>1. \A l \in (k + 1)..Len(r) : r[l] \in S
    BY <1>0
  <2>2. k \in Int /\ Len(r) \in Int /\ k <= Len(r) /\ k + 1 \in Int
    BY <1>0
  <2>3. /\ b \in Seq(S) /\ Len(b) = IF k + 1 <= Len(r) THEN Len(r) - (k + 1) + 1 ELSE 0
        /\ \A l \in 1..(Len(r) - (k + 1) + 1) : b[l] = r[(k + 1) + l - 1]
    BY <2>1, <2>2, SubSeqProperties
  <2> HIDE DEF b
  <2>4. Len(b) = Len(r) - k
    BY <2>2, <2>3
  <2>5. ASSUME NEW l \in 1..(Len(r) - k)  PROVE b[l] = r[k + l]
    <3>1. l \in 1..(Len(r) - (k + 1) + 1) /\ (k + 1) + l - 1 = k + l
      BY <2>2
    <3>2. b[l] = r[(k + 1) + l - 1]
      BY <2>3, <3>1
    <3> QED
      BY <3>1, <3>2
  <2> QED
    BY <2>3, <2>4, <2>5
<1>3. RemoveAt(r, k) = a \o b
  BY DEF RemoveAt
<1> HIDE DEF a, b
<1>4. /\ a \o b \in Seq(S) /\ Len(a \o b) = Len(a) + Len(b)
      /\ \A l \in 1..(Len(a) + Len(b)) : (a \o b)[l] = IF l <= Len(a) THEN a[l] ELSE b[l - Len(a)]
  BY <1>1, <1>2, ConcatProperties
<1>5. k \in 1..Len(r) /\ Len(a) + Len(b) = Len(r) - 1
  BY <1>0, <1>1, <1>2
<1>6. ASSUME NEW l \in 1..(Len(r) - 1)  PROVE (a \o b)[l] = IF l < k THEN r[l] ELSE r[l + 1]
  <2>1. (a \o b)[l] = IF l <= Len(a) THEN a[l] ELSE b[l - Len(a)]
    BY <1>4, <1>5
  <2>2. CASE l < k
    <3>1. l \in 1..(k - 1) /\ l <= Len(a)
      BY <1>0, <1>1, <1>5, <2>2
    <3> QED
      BY <1>1, <2>1, <2>2, <3>1
  <2>3. CASE ~(l < k)
    <3>1. /\ ~(l <= Len(a)) /\ l - Len(a) \in 1..(Len(r) - k)
          /\ l - Len(a) = l - (k - 1) /\ k + (l - (k - 1)) = l + 1
      BY <1>0, <1>1, <1>5, <2>3
    <3>2. b[l - Len(a)] = r[k + (l - Len(a))]
      BY <1>2, <3>1
    <3> QED
      BY <2>1, <2>3, <3>1, <3>2
  <2> QED
    BY <2>2, <2>3
<1>7. DOMAIN (a \o b) = 1..(Len(r) - 1)
  BY <1>4, <1>5, LenProperties
<1> QED
  BY <1>3, <1>4, <1>5, <1>6, <1>7

\* The same events in the same order, with other statuses.
SameEvents(r, s) ==
  /\ s \in Seq(Events) /\ Len(s) = Len(r)
  /\ \A k \in DOMAIN r : s[k].id = r[k].id /\ s[k].print = r[k].print

LEMMA WithStatusFacts ==
  ASSUME NEW r \in Seq(Events), NEW i, NEW status \in Statuses
  PROVE  /\ SameEvents(r, WithStatus(r, i, status))
         /\ \A k \in DOMAIN r : WithStatus(r, i, status)[k].status =
                                  IF r[k].id = i THEN status ELSE r[k].status
<1>0. Len(r) \in Nat /\ DOMAIN r = 1..Len(r) /\ \A k \in 1..Len(r) : r[k] \in Events
  BY LenProperties, ElementOfSeq
<1>1. WithStatus(r, i, status) = [k \in 1..Len(r) |->
        IF r[k].id = i THEN [r[k] EXCEPT !.status = status] ELSE r[k]]
  BY <1>0 DEF WithStatus
<1>2. \A k \in 1..Len(r) :
        (IF r[k].id = i THEN [r[k] EXCEPT !.status = status] ELSE r[k]) \in Events
  BY <1>0 DEF Events
<1>3. WithStatus(r, i, status) \in Seq(Events) /\ Len(WithStatus(r, i, status)) = Len(r)
  BY <1>0, <1>1, <1>2
<1> QED
  BY <1>0, <1>1, <1>3 DEF SameEvents, Events

LEMMA ResetFacts ==
  ASSUME Read \in Seq(Events)
  PROVE  /\ SameEvents(Read, Reset)
         /\ \A k \in DOMAIN Read : Reset[k].status =
              IF Read[k].status \in Interrupted THEN "pending" ELSE Read[k].status
<1> DEFINE r == Read
<1>0. Len(r) \in Nat /\ DOMAIN r = 1..Len(r) /\ \A k \in 1..Len(r) : r[k] \in Events
  BY LenProperties, ElementOfSeq
<1>1. Reset = [k \in 1..Len(r) |->
        IF r[k].status \in Interrupted THEN [r[k] EXCEPT !.status = "pending"] ELSE r[k]]
  BY <1>0 DEF Reset
<1>2. \A k \in 1..Len(r) :
        (IF r[k].status \in Interrupted THEN [r[k] EXCEPT !.status = "pending"] ELSE r[k]) \in Events
  BY <1>0 DEF Events, Statuses
<1> HIDE DEF r
<1>3. Reset \in Seq(Events) /\ Len(Reset) = Len(r)
  BY <1>0, <1>1, <1>2
<1> QED
  BY <1>0, <1>1, <1>3 DEF SameEvents, Events, r

\* No two rows are of one event.
LEMMA UniqueIds ==
  ASSUME NEW r, Wellformed(r), pushed \in Nat
  PROVE  /\ DOMAIN r = 1..Len(r) /\ Len(r) \in Nat
         /\ \A k, l \in DOMAIN r : r[k].id = r[l].id => k = l
<1>1. DOMAIN r = 1..Len(r) /\ Len(r) \in Nat
  BY LenProperties DEF Wellformed
<1>2. \A k \in DOMAIN r : r[k].id \in Int
  BY DEF Wellformed
<1>3. \A k, l \in DOMAIN r : k < l => r[k].id < r[l].id
  BY DEF Wellformed
<1> QED
  BY <1>1, <1>2, <1>3

\* What a change of statuses keeps.
LEMMA SameEventsKeep ==
  ASSUME NEW r, NEW s, Wellformed(r), SameEvents(r, s)
  PROVE  /\ Wellformed(s) /\ DOMAIN s = DOMAIN r /\ IdsIn(s) = IdsIn(r)
         /\ (\A k \in DOMAIN r : s[k].status \in Active => r[k].status \in Active)
              /\ OneActive(r) => OneActive(s)
         /\ \A i : (\A k \in DOMAIN r : r[k].id = i /\ r[k].status \in Interrupted
                                         => s[k].status \in Interrupted)
              /\ InWork(r, i) => InWork(s, i)
<1>1. DOMAIN s = DOMAIN r
  BY LenProperties DEF Wellformed, SameEvents
<1>2. Wellformed(s)
  BY <1>1 DEF Wellformed, SameEvents
<1>3. IdsIn(s) = IdsIn(r)
  BY <1>1 DEF IdsIn, SameEvents
<1> QED
  BY <1>1, <1>2, <1>3 DEF SameEvents, OneActive, InWork

\* What is left after a row is removed.
LEMMA RemoveAtKeeps ==
  ASSUME NEW r, NEW k \in DOMAIN r, Wellformed(r), pushed \in Nat
  PROVE  /\ Wellformed(RemoveAt(r, k))
         /\ IdsIn(r) \subseteq IdsIn(RemoveAt(r, k)) \cup {r[k].id}
         /\ IdsIn(RemoveAt(r, k)) \subseteq IdsIn(r)
         /\ \A l \in DOMAIN RemoveAt(r, k) : \E m \in DOMAIN r : RemoveAt(r, k)[l] = r[m]
         /\ OneActive(r) => OneActive(RemoveAt(r, k))
         /\ \A i : InWork(r, i) => InWork(RemoveAt(r, k), i)
         /\ r[k].id \notin IdsIn(RemoveAt(r, k))
<1> DEFINE s == RemoveAt(r, k)
           Old(l) == IF l < k THEN l ELSE l + 1
<1>0. r \in Seq(Events) /\ Len(r) \in Nat /\ DOMAIN r = 1..Len(r)
  BY LenProperties DEF Wellformed
<1>1. /\ s \in Seq(Events) /\ Len(s) = Len(r) - 1 /\ DOMAIN s = 1..(Len(r) - 1)
      /\ \A l \in DOMAIN s : s[l] = IF l < k THEN r[l] ELSE r[l + 1]
  BY <1>0, RemoveAtFacts, LenProperties
<1> HIDE DEF s
<1>2. \A l \in DOMAIN s : Old(l) \in DOMAIN r /\ s[l] = r[Old(l)]
  BY <1>0, <1>1
<1>3. \A l, m \in DOMAIN s : l < m <=> Old(l) < Old(m)
  BY <1>0, <1>1
<1>9. \A l \in DOMAIN s : Old(l) # k
  BY <1>0, <1>1
<1>4. \A m \in DOMAIN r : m # k => \E l \in DOMAIN s : Old(l) = m
  <2> SUFFICES ASSUME NEW m \in DOMAIN r, m # k  PROVE \E l \in DOMAIN s : Old(l) = m
    OBVIOUS
  <2>1. CASE m < k
    <3>1. m \in DOMAIN s /\ Old(m) = m
      BY <1>0, <1>1, <2>1
    <3> QED
      BY <3>1
  <2>2. CASE m > k
    <3>1. m - 1 \in DOMAIN s /\ Old(m - 1) = m
      BY <1>0, <1>1, <2>2
    <3> QED
      BY <3>1
  <2> QED
    BY <1>0, <2>1, <2>2
<1> HIDE DEF Old
<1>5. Wellformed(s)
  BY <1>0, <1>1, <1>2, <1>3 DEF Wellformed
<1>6. IdsIn(r) \subseteq IdsIn(s) \cup {r[k].id} /\ IdsIn(s) \subseteq IdsIn(r)
  BY <1>2, <1>4 DEF IdsIn
<1>a. \A l, m \in DOMAIN s : Old(l) = Old(m) => l = m
  BY <1>0, <1>1, <1>2, <1>3
<1>7. OneActive(r) => OneActive(s)
  BY <1>2, <1>a DEF OneActive
<1>8. \A i : InWork(r, i) => InWork(s, i)
  BY <1>2 DEF InWork
<1>b. r[k].id \notin IdsIn(s)
  BY <1>2, <1>9, UniqueIds DEF IdsIn
<1> QED
  BY <1>2, <1>5, <1>6, <1>7, <1>8, <1>b DEF s

LEMMA EmptyContent ==
  ASSUME pushed \in Nat
  PROVE  /\ Wellformed(<<>>) /\ OneActive(<<>>) /\ \A i : InWork(<<>>, i)
         /\ DOMAIN <<>> = {} /\ IdsIn(<<>>) = {}
<1>1. <<>> \in Seq(Events) /\ Len(<<>>) = 0 /\ DOMAIN <<>> = {}
  BY EmptySeq
<1> QED
  BY <1>1 DEF Wellformed, OneActive, InWork, IdsIn

\* What a call reads, when it gets the lock.
LEMMA ReadFacts ==
  ASSUME QueueInv
  PROVE  /\ pushed \in Nat /\ Read \in Seq(Events)
         /\ Wellformed(Read)
         /\ ~again.reset => OneActive(Read)
         /\ LockFree /\ ~again.torn => Read = rows
         /\ LockFree => Content = Read
<1>1. pushed \in Nat
  BY QueueAssumption DEF QueueInv, TypeOK, QueueTypeOK
<1>2. Read = <<>> \/ Read = rows
  BY DEF Read
<1>3. LockFree => Content = Read
  BY DEF Content, LockFree, Idle
<1>4. LockFree /\ ~again.torn => Read = rows
  BY DEF Read, LockFree, Idle, QueueInv, LockInv, TypeOK, QueueTypeOK
<1>5. Wellformed(Read) /\ (~again.reset => OneActive(Read))
  BY <1>1, <1>2, EmptyContent DEF QueueInv
<1> QED
  BY <1>1, <1>3, <1>4, <1>5 DEF Wellformed

\* A worker that has an event has it alone, and it is in work or gone.
LEMMA HeldFacts ==
  ASSUME QueueInv, LockFree, NEW w \in Workers, holds[w] # NoEvent
  PROVE  /\ holds[w] \in 1..pushed
         /\ InWork(Read, holds[w])
         /\ \A v \in Workers : holds[v] = holds[w] => v = w
  BY ReadFacts DEF QueueInv, WorkInv

-----------------------------------------------------------------------------
(* The steps.                                                                *)

LEMMA InitQueueInv == Init => QueueInv
<1> SUFFICES ASSUME Init PROVE QueueInv
  OBVIOUS
<1> USE DEF Init, QueueInit
<1>1. rows = <<>> /\ op.rows = <<>> /\ op = Idle /\ ~op.writes /\ op.claims = NoEvent /\ op.by = {}
  BY DEF Idle
<1>2. <<>> \in Seq(Events) /\ Len(<<>>) = 0
  BY EmptySeq
<1>3. pushed = 0 /\ pushed \in Nat /\ 1..pushed = {} /\ \A i \in Ids : ~(i \in 1..pushed)
  OBVIOUS
<1>4. TypeOK
  <2>1. rows \in Seq(Events) /\ Len(rows) <= MaxEvents /\ op.rows \in Seq(Events)
    BY <1>1, <1>2, QueueAssumption
  <2>2. torn \in BOOLEAN /\ up \in BOOLEAN
    OBVIOUS
  <2>4. op.writes \in BOOLEAN /\ op.by \subseteq Workers /\ op.claims \in Ids \cup {NoEvent}
    BY <1>1 DEF Idle
  <2>3. /\ holds \in [Workers -> Ids \cup {NoEvent}]
        /\ pushed \in 0..MaxEvents /\ crashes \in 0..MaxCrashes /\ dropped \subseteq Ids
        /\ again \in [reset : BOOLEAN, torn : BOOLEAN]
    BY QueueAssumption
  <2> QED
    BY <1>3, <2>1, <2>2, <2>3, <2>4 DEF TypeOK, QueueTypeOK, Ids
<1>5. LockInv
  BY <1>1 DEF LockInv
<1>6. WorkInv /\ DroppedInv
  BY <1>1 DEF WorkInv, DroppedInv
<1>7. HistoryInv /\ DedupedWasQueued
  BY <1>3 DEF HistoryInv, DedupedWasQueued
<1> QED
  BY <1>1, <1>3, <1>4, <1>5, <1>6, <1>7, EmptyContent DEF QueueInv

\* A call that writes another content but pushes nothing.
LEMMA CallWrites ==
  ASSUME QueueInv, LockFree, op'.writes = TRUE, torn' = TRUE,
         UNCHANGED <<rows, up, pushed, crashes, again, queued, deduped>>,
         op'.by \subseteq Workers, op'.claims \in Ids \cup {NoEvent},
         holds' \in [Workers -> Ids \cup {NoEvent}],
         Wellformed(op'.rows),
         OneActive(Read) => OneActive(op'.rows),
         dropped \subseteq dropped', IdsIn(Read) \subseteq IdsIn(op'.rows) \cup dropped',
         dropped' \subseteq 1..pushed, IdsIn(op'.rows) \cap dropped' = {},
         op'.claims # NoEvent =>
           /\ op'.claims \in 1..pushed /\ InWork(op'.rows, op'.claims)
           /\ \E w \in Workers : op'.by = {w},
         \A w \in Workers : holds'[w] # NoEvent =>
           holds'[w] = holds[w] /\ holds'[w] # op'.claims /\ InWork(op'.rows, holds'[w])
  PROVE  QueueInv'
<1>0. dropped' \subseteq Ids /\ Content' = op'.rows
  BY QueueAssumption DEF QueueInv, TypeOK, QueueTypeOK, Ids, Content
<1>1. TypeOK'
  BY <1>0 DEF QueueInv, TypeOK, QueueTypeOK, Wellformed
<1>9. DroppedInv'
  BY <1>0 DEF DroppedInv, IdsIn
<1>2. LockInv'
  BY DEF LockFree, LockInv
<1>3. WorkInv'
  <2>1. Content' = op'.rows /\ up
    BY DEF Content, LockFree
  <2>2. \A w \in Workers : holds'[w] # NoEvent =>
          holds'[w] \in 1..pushed /\ \A v \in Workers : holds'[v] = holds'[w] => v = w
    BY HeldFacts
  <2> QED
    BY <2>1, <2>2 DEF WorkInv, InWork
<1>4. HistoryInv' /\ DedupedWasQueued'
  BY DEF QueueInv, HistoryInv, DedupedWasQueued
<1>5. Wellformed(rows)'
  BY DEF QueueInv, Wellformed
<1>6. Wellformed(op.rows)'
  BY DEF Wellformed
<1>7. (~again.reset => OneActive(rows) /\ OneActive(op.rows))'
  BY ReadFacts DEF QueueInv, OneActive
<1>8. (~again.torn => (1..pushed) \ dropped \subseteq IdsIn(Content))'
  <2> SUFFICES ASSUME ~again.torn  PROVE (1..pushed) \ dropped' \subseteq IdsIn(op'.rows)
    BY DEF IdsIn, Content
  <2>1. (1..pushed) \ dropped \subseteq IdsIn(Read)
    BY ReadFacts DEF QueueInv
  <2> QED
    BY <2>1
<1> QED
  BY <1>1, <1>2, <1>3, <1>4, <1>5, <1>6, <1>7, <1>8, <1>9 DEF QueueInv

LEMMA IdleFacts ==
  ASSUME QueueInv, LockFree, NEW content, StartWrite(content)
  PROVE  /\ op'.writes = TRUE /\ op'.rows = content /\ torn' = TRUE
         /\ op'.by = {} /\ op'.claims = NoEvent /\ UNCHANGED rows
  BY DEF StartWrite, Idle

\* An update never makes an event active again.
LEMMA UpdateStep ==
  ASSUME QueueInv, NEW i \in Ids, NEW status \in {"rca_done", "done", "failed"},
         UpdateStatus(i, status),
         UNCHANGED <<up, pushed, crashes, dropped, again, queued, deduped>>,
         holds' \in [Workers -> Ids \cup {NoEvent}],
         \A w \in Workers : holds'[w] # NoEvent =>
           holds'[w] = holds[w] /\ (status = "rca_done" \/ holds'[w] # i)
  PROVE  QueueInv'
<1> DEFINE content == WithStatus(Read, i, status)
<1>0. StartWrite(content) /\ LockFree
  BY DEF UpdateStatus, StartWrite
<1>1. SameEvents(Read, content)
      /\ \A k \in DOMAIN Read : content[k].status = IF Read[k].id = i THEN status ELSE Read[k].status
  BY ReadFacts, WithStatusFacts DEF Statuses
<1> HIDE DEF content
<1>2. \A k \in DOMAIN Read : content[k].status \in Active => Read[k].status \in Active
  BY <1>1 DEF Active
<1>3. /\ Wellformed(content) /\ IdsIn(content) = IdsIn(Read) /\ DOMAIN content = DOMAIN Read
      /\ OneActive(Read) => OneActive(content)
  BY <1>1, <1>2, ReadFacts, SameEventsKeep
<1>5. ASSUME NEW w \in Workers, holds'[w] # NoEvent  PROVE InWork(content, holds'[w])
  <2>1. InWork(Read, holds'[w])
    BY <1>0, <1>5, HeldFacts
  <2> QED
    BY <1>1, <1>3, <1>5, <2>1 DEF InWork, SameEvents, Interrupted
<1>4. /\ dropped \subseteq dropped' /\ dropped' \subseteq 1..pushed
      /\ IdsIn(content) \cap dropped' = {}
  BY <1>0, <1>3, ReadFacts DEF QueueInv, DroppedInv
<1>6. /\ op'.writes = TRUE /\ op'.rows = content /\ torn' = TRUE
      /\ op'.by = {} /\ op'.claims = NoEvent /\ UNCHANGED rows
  BY <1>0, IdleFacts
<1> QED
  BY <1>0, <1>3, <1>4, <1>5, <1>6, CallWrites

LEMMA WorkerUpdates ==
  ASSUME QueueInv, NEW w \in Workers, RcaDone(w) \/ EndEvent(w), UNCHANGED <<queued, deduped>>
  PROVE  QueueInv'
<1>1. holds \in [Workers -> Ids \cup {NoEvent}] /\ holds[w] # NoEvent /\ holds[w] \in Ids
  BY DEF QueueInv, TypeOK, QueueTypeOK, RcaDone, EndEvent
<1>2. CASE RcaDone(w)
  <2>1. UpdateStatus(holds[w], "rca_done") /\ UNCHANGED holds
    BY <1>2 DEF RcaDone
  <2> QED
    BY <1>1, <1>2, <2>1, UpdateStep DEF RcaDone
<1>3. CASE EndEvent(w)
  <2>1. holds' \in [Workers -> Ids \cup {NoEvent}]
    BY <1>1, <1>3 DEF EndEvent
  <2>2. PICK status \in {"done", "failed"} : UpdateStatus(holds[w], status)
    BY <1>3 DEF EndEvent
  <2>3. \A v \in Workers : holds'[v] # NoEvent => holds'[v] = holds[v] /\ holds'[v] # holds[w]
    BY <1>1, <1>3, HeldFacts DEF EndEvent, UpdateStatus, StartWrite
  <2> QED
    BY <1>1, <1>3, <2>1, <2>2, <2>3, UpdateStep DEF EndEvent
<1> QED
  BY <1>2, <1>3

\* The event that is claimed was pending, so no worker has it.
LEMMA ClaimStep ==
  ASSUME QueueInv, NEW w \in Workers, Claim(w), UNCHANGED <<queued, deduped>>
  PROVE  QueueInv'
<1>1. PICK k \in DOMAIN Read :
        /\ Read[k].status = "pending"
        /\ op' = [writes |-> TRUE, rows |-> WithStatus(Read, Read[k].id, "running"),
                  by |-> {w}, claims |-> Read[k].id]
  BY DEF Claim
<1> DEFINE i == Read[k].id
           content == WithStatus(Read, i, "running")
<1>2. LockFree /\ op'.writes = TRUE /\ op'.rows = content /\ op'.by = {w} /\ op'.claims = i
  BY <1>1 DEF Claim
<1>3. SameEvents(Read, content)
      /\ \A l \in DOMAIN Read : content[l].status = IF Read[l].id = i THEN "running" ELSE Read[l].status
  BY ReadFacts, WithStatusFacts DEF Statuses
<1>4. i \in 1..pushed /\ \A l \in DOMAIN Read : Read[l].id = i => l = k
  BY ReadFacts, UniqueIds DEF Wellformed
<1> HIDE DEF content
<1>5. \A l \in DOMAIN Read : content[l].status \in Active => Read[l].status \in Active
  BY <1>1, <1>3, <1>4 DEF Active
<1>6. /\ Wellformed(content) /\ IdsIn(content) = IdsIn(Read) /\ DOMAIN content = DOMAIN Read
      /\ OneActive(Read) => OneActive(content)
  BY <1>3, <1>5, ReadFacts, SameEventsKeep
<1>7. InWork(content, i)
  BY <1>3, <1>6 DEF InWork, SameEvents, Interrupted
<1>8. ASSUME NEW v \in Workers, holds[v] # NoEvent
      PROVE  holds[v] # i /\ InWork(content, holds[v])
  <2>1. InWork(Read, holds[v])
    BY <1>2, <1>8, HeldFacts
  <2>2. holds[v] # i
    BY <1>1, <2>1 DEF InWork, Interrupted
  <2> QED
    BY <1>3, <1>6, <2>1, <2>2 DEF InWork, SameEvents
<1>9. i \in Ids
  BY <1>4, QueueAssumption DEF QueueInv, TypeOK, QueueTypeOK, Ids
<1>10. /\ holds' \in [Workers -> Ids \cup {NoEvent}]
       /\ dropped \subseteq dropped' /\ dropped' \subseteq 1..pushed
       /\ IdsIn(content) \cap dropped' = {}
       /\ torn' = TRUE /\ UNCHANGED holds
       /\ UNCHANGED <<rows, up, pushed, crashes, again, queued, deduped>>
  BY <1>2, <1>6, ReadFacts DEF Claim, QueueInv, DroppedInv, TypeOK, QueueTypeOK
<1> HIDE DEF i
<1> QED
  BY <1>2, <1>4, <1>6, <1>7, <1>8, <1>9, <1>10, CallWrites

LEMMA DeleteStep ==
  ASSUME QueueInv, NEW i \in Ids, Delete(i), UNCHANGED <<queued, deduped>>
  PROVE  QueueInv'
<1>1. PICK k \in DOMAIN Read : Read[k].id = i /\ StartWrite(RemoveAt(Read, k))
  BY DEF Delete
<1> DEFINE content == RemoveAt(Read, k)
<1>2. /\ Wellformed(content) /\ IdsIn(Read) \subseteq IdsIn(content) \cup {i}
      /\ i \notin IdsIn(content) /\ IdsIn(content) \subseteq IdsIn(Read) /\ i \in 1..pushed
      /\ OneActive(Read) => OneActive(content)
      /\ \A j : InWork(Read, j) => InWork(content, j)
  BY <1>1, ReadFacts, RemoveAtKeeps DEF Wellformed
<1> HIDE DEF content
<1>3. /\ holds' \in [Workers -> Ids \cup {NoEvent}]
      /\ dropped' = dropped \cup {i}
      /\ UNCHANGED <<up, pushed, crashes, again, queued, deduped>>
  BY DEF Delete, QueueInv, TypeOK, QueueTypeOK
<1>4. LockFree /\ StartWrite(content) /\ UNCHANGED holds
  BY <1>1 DEF StartWrite, content, Delete
<1>5. /\ op'.writes = TRUE /\ op'.rows = content /\ torn' = TRUE
      /\ op'.by = {} /\ op'.claims = NoEvent /\ UNCHANGED rows
  BY <1>4, IdleFacts
<1>6. \A w \in Workers : holds[w] # NoEvent => InWork(content, holds[w])
  BY <1>2, <1>4, HeldFacts
<1>7. dropped' \subseteq 1..pushed /\ IdsIn(content) \cap dropped' = {}
  BY <1>2, <1>3, <1>4, ReadFacts DEF QueueInv, DroppedInv
<1> QED
  BY <1>2, <1>3, <1>4, <1>5, <1>6, <1>7, CallWrites

LEMMA ClearStep ==
  ASSUME QueueInv, Clear, UNCHANGED <<queued, deduped>>
  PROVE  QueueInv'
<1>1. LockFree /\ StartWrite(<<>>) /\ UNCHANGED holds
  BY DEF Clear, StartWrite
<1>2. IdsIn(Read) \subseteq 1..pushed
  BY ReadFacts DEF Wellformed, IdsIn
<1>3. dropped' = dropped \cup IdsIn(Read)
  BY DEF Clear, IdsIn, ToSet
<1>4. /\ holds' \in [Workers -> Ids \cup {NoEvent}]
      /\ UNCHANGED <<up, pushed, crashes, again, queued, deduped>>
  BY DEF Clear, QueueInv, TypeOK, QueueTypeOK
<1>5. dropped' \subseteq 1..pushed
  BY <1>2, <1>3 DEF QueueInv, DroppedInv
<1> QED
  BY <1>1, <1>3, <1>4, <1>5, ReadFacts, EmptyContent, IdleFacts, CallWrites

LEMMA AppendRow ==
  ASSUME NEW r \in Seq(Events), NEW new \in Events
  PROVE  /\ Append(r, new) \in Seq(Events) /\ Len(Append(r, new)) = Len(r) + 1
         /\ DOMAIN Append(r, new) = DOMAIN r \cup {Len(r) + 1}
         /\ \A k \in DOMAIN r : k < Len(r) + 1 /\ Append(r, new)[k] = r[k]
         /\ Append(r, new)[Len(r) + 1] = new
<1>1. /\ Append(r, new) \in Seq(Events) /\ Len(Append(r, new)) = Len(r) + 1
      /\ \A k \in 1..Len(r) : Append(r, new)[k] = r[k]
      /\ Append(r, new)[Len(r) + 1] = new
  BY AppendProperties
<1>2. /\ Len(r) \in Nat /\ DOMAIN r = 1..Len(r)
      /\ DOMAIN Append(r, new) = 1..(Len(r) + 1)
  BY <1>1, LenProperties
<1> QED
  BY <1>1, <1>2

\* An event is appended with a fingerprint that no active one has, and with it
\* the delivery that it is.
LEMMA PushStep ==
  ASSUME QueueInv, NEW d \in Deliveries, NEW e \in Normalised(d), Push(e.print),
         queued' = [queued EXCEPT ![pushed + 1] = [delivery |-> d, event |-> e]],
         UNCHANGED deduped
  PROVE  QueueInv'
<1> DEFINE new == [id |-> pushed + 1, print |-> e.print, status |-> "pending"]
           content == Append(Read, new)
<1>1. LockFree /\ StartWrite(content) /\ e.print \notin ActivePrints
  BY DEF Push, StartWrite
<1>2. /\ pushed \in Nat /\ pushed' = pushed + 1 /\ pushed + 1 \in Ids /\ pushed' \in 0..MaxEvents
      /\ 1..pushed' = 1..pushed \cup {pushed + 1}
  BY QueueAssumption DEF Push, QueueInv, TypeOK, QueueTypeOK, Ids
<1>3. new \in Events
  BY <1>2, PrintAssumption DEF Events, Statuses
<1>4. /\ Read \in Seq(Events) /\ Len(Read) \in Nat /\ DOMAIN Read = 1..Len(Read) /\ Len(Read) <= pushed
  BY ReadFacts, LenProperties DEF Wellformed
<1> DEFINE last == Len(Read) + 1
<1>5. /\ content \in Seq(Events) /\ Len(content) = Len(Read) + 1
      /\ DOMAIN content = DOMAIN Read \cup {last}
      /\ \A k \in DOMAIN Read : k < last /\ content[k] = Read[k]
      /\ content[last] = new
  BY <1>3, <1>4, AppendRow
<1>6. new.id = pushed + 1 /\ new.print = e.print /\ new.status = "pending"
  OBVIOUS
<1> HIDE DEF new, content
<1>7. last \notin DOMAIN Read /\ \A k \in DOMAIN content : k = last \/ k \in DOMAIN Read
  BY <1>4, <1>5
<1>a. \A k \in DOMAIN content : ~(last < k)
  BY <1>4, <1>5
<1>8. /\ content[last] = new /\ \A k \in DOMAIN Read : content[k] = Read[k]
      /\ new.id = pushed + 1 /\ new.print = e.print /\ new.status = "pending"
  BY <1>5, <1>6
<1> HIDE DEF content, new, last
<1>9. /\ \A i \in 1..pushed : queued'[i] = queued[i]
      /\ queued'[pushed + 1] = [delivery |-> d, event |-> e]
      /\ DOMAIN queued' = Ids
      /\ \A i \in Ids : i > pushed' => queued'[i] = NoEvent
  BY <1>2 DEF QueueInv, TypeOK, Ids
<1>10. /\ op'.writes = TRUE /\ op'.rows = content /\ torn' = TRUE
       /\ op'.by = {} /\ op'.claims = NoEvent /\ UNCHANGED rows
       /\ UNCHANGED <<holds, up, crashes, dropped, again>>
  BY <1>1, IdleFacts DEF Push
<1>11. \A k \in DOMAIN Read : /\ Read[k].id \in 1..pushed /\ Read[k].id < pushed + 1
                              /\ Read[k].print = queued[Read[k].id].event.print
                              /\ \A l \in DOMAIN Read : k < l => Read[k].id < Read[l].id
  BY <1>2, ReadFacts DEF Wellformed
<1>12. TypeOK'
  <2>1. QueueTypeOK'
    BY <1>2, <1>5, <1>10 DEF QueueInv, TypeOK, QueueTypeOK
  <2>2. \A i \in 1..pushed' : queued'[i].delivery \in Deliveries
    BY <1>2, <1>9 DEF QueueInv, TypeOK
  <2> QED
    BY <1>9, <2>1, <2>2 DEF QueueInv, TypeOK
<1>13. LockInv'
  BY <1>1, <1>10 DEF LockInv, LockFree
<1>14. Wellformed(rows)'
  <2>1. \A k \in DOMAIN rows : rows[k].id \in 1..pushed' /\ rows[k].print = queued'[rows[k].id].event.print
    BY <1>2, <1>9 DEF QueueInv, Wellformed
  <2>2. Len(rows) <= pushed'
    BY <1>2, LenProperties DEF QueueInv, Wellformed
  <2> QED
    BY <1>10, <2>1, <2>2 DEF QueueInv, Wellformed
<1>15. Wellformed(op.rows)'
  <2>1. \A k \in DOMAIN content : /\ content[k].id \in 1..pushed'
                                  /\ content[k].print = queued'[content[k].id].event.print
    BY <1>2, <1>7, <1>8, <1>9, <1>11
  <2>2. \A k, l \in DOMAIN content : k < l => content[k].id < content[l].id
    BY <1>7, <1>8, <1>11, <1>a
  <2>3. Len(content) <= pushed'
    BY <1>2, <1>4, <1>5
  <2> QED
    BY <1>5, <1>10, <2>1, <2>2, <2>3 DEF Wellformed
<1>16. (~again.reset => OneActive(rows) /\ OneActive(op.rows))'
  <2>1. OneActive(rows) => OneActive(rows)'
    BY <1>10 DEF OneActive
  <2>2. \A k \in DOMAIN Read : Read[k].status \in Active => Read[k].print # e.print
    BY <1>1 DEF ActivePrints, ToSet
  <2>3. OneActive(Read) => OneActive(content)
    BY <1>7, <1>8, <2>2 DEF OneActive
  <2>4. OneActive(content) => OneActive(op.rows)'
    BY <1>10 DEF OneActive
  <2> QED
    BY <1>10, <2>1, <2>3, <2>4, ReadFacts DEF QueueInv
<1>17. WorkInv'
  <2>1. Content' = content /\ up
    BY <1>1, <1>10 DEF Content, LockFree
  <2>2. ASSUME NEW w \in Workers, holds[w] # NoEvent
        PROVE  holds[w] \in 1..pushed' /\ InWork(content, holds[w])
    BY <1>1, <1>2, <1>7, <1>8, <2>2, HeldFacts DEF InWork
  <2> QED
    BY <1>1, <1>10, <2>1, <2>2, HeldFacts DEF WorkInv, InWork
<1>21. DroppedInv'
  <2>1. Content' = content /\ Content = Read
    BY <1>1, <1>10, ReadFacts DEF Content
  <2>2. IdsIn(Content') \subseteq IdsIn(Read) \cup {pushed + 1}
    BY <1>7, <1>8, <2>1 DEF IdsIn
  <2>3. dropped' \subseteq 1..pushed /\ pushed + 1 \notin 1..pushed
        /\ IdsIn(Read) \cap dropped' = {}
    BY <1>2, <1>10, <2>1 DEF QueueInv, DroppedInv
  <2> QED
    BY <1>2, <2>2, <2>3 DEF DroppedInv, IdsIn
<1>18. HistoryInv'
  BY <1>2, <1>9 DEF QueueInv, HistoryInv
<1>19. DedupedWasQueued'
  BY <1>2, <1>9 DEF QueueInv, DedupedWasQueued
<1>20. (~again.torn => (1..pushed) \ dropped \subseteq IdsIn(Content))'
  <2> SUFFICES ASSUME ~again.torn  PROVE (1..pushed') \ dropped \subseteq IdsIn(content)
    BY <1>10 DEF IdsIn, Content
  <2>1. (1..pushed) \ dropped \subseteq IdsIn(Read)
    BY <1>1, ReadFacts DEF QueueInv
  <2>2. IdsIn(Read) \subseteq IdsIn(content) /\ pushed + 1 \in IdsIn(content)
    BY <1>5, <1>8 DEF IdsIn, last
  <2> QED
    BY <1>2, <2>1, <2>2
<1> QED
  BY <1>12, <1>13, <1>14, <1>15, <1>16, <1>17, <1>18, <1>19, <1>20, <1>21 DEF QueueInv

\* The error event that a delivery becomes, but for the traceback it finds.
LEMMA NormalisedFacts ==
  ASSUME NEW d \in Deliveries, NEW e \in Normalised(d)
  PROVE  /\ e.external = d.issue
         /\ e.print = <<d.source, IF d.source = "github_issue" THEN None ELSE d.issue, e.error>>
<1>1. d.source \in Sources
  BY DeliveryAssumption
<1> USE DEF ErrorEvent, Fingerprint
<1>2. CASE d.source = "jira"
  BY <1>2 DEF Normalised, JiraEvents
<1>3. CASE d.source = "servicenow"
  BY <1>3 DEF Normalised, ServiceNowEvents
<1>4. CASE d.source = "github_issue"
  <2>1. e \in GithubEvents(d)
    BY <1>4 DEF Normalised
  <2> QED
    BY <1>4, <2>1 DEF GithubEvents
<1> QED
  BY <1>1, <1>2, <1>3, <1>4 DEF Sources

\* Whoever is a duplicate has the fingerprint of an active event, and that
\* fingerprint holds the error and, but for GitHub, the issue.
LEMMA DeduplicateStep ==
  ASSUME QueueInv, NEW d \in Deliveries, NEW e \in Normalised(d), LockFree,
         e.print \in ActivePrints, deduped' = [delivery |-> d, error |-> e.error],
         UNCHANGED <<queueVars, queued>>
  PROVE  QueueInv'
<1> USE DEF queueVars
<1>1. PICK k \in DOMAIN Read : Read[k].print = e.print
  BY DEF ActivePrints, ToSet
<1> DEFINE i == Read[k].id
<1>2. i \in 1..pushed /\ queued[i].event.print = e.print
  BY <1>1, ReadFacts DEF Wellformed
<1>3. queued[i].delivery \in Deliveries /\ queued[i].event \in Normalised(queued[i].delivery)
  BY <1>2 DEF QueueInv, HistoryInv
<1>4. queued[i].event.error = e.error
      /\ (d.source # "github_issue" => queued[i].event.external = d.issue)
  BY <1>2, <1>3, NormalisedFacts
<1>5. DedupedWasQueued'
  BY <1>2, <1>4 DEF DedupedWasQueued
<1>6. TypeOK'
  BY DEF QueueInv, TypeOK, QueueTypeOK
<1>7. LockInv' /\ HistoryInv'
  BY DEF QueueInv, LockInv, HistoryInv
<1>8. WorkInv' /\ DroppedInv'
  BY DEF QueueInv, WorkInv, DroppedInv, IdsIn, InWork, Content, Read
<1>9. Wellformed(rows)' /\ Wellformed(op.rows)'
  BY DEF QueueInv, Wellformed
<1>10. (~again.reset => OneActive(rows) /\ OneActive(op.rows))'
  BY DEF QueueInv, OneActive
<1>11. (~again.torn => (1..pushed) \ dropped \subseteq IdsIn(Content))'
  BY DEF QueueInv, IdsIn, Content, Read
<1> QED
  BY <1>5, <1>6, <1>7, <1>8, <1>9, <1>10, <1>11 DEF QueueInv

\* What was written is there, and the worker has the event that it claimed.
LEMMA FinishStep ==
  ASSUME QueueInv, FinishWrite, UNCHANGED <<queued, deduped>>
  PROVE  QueueInv'
<1>1. /\ op.writes /\ rows' = op.rows /\ torn' = FALSE /\ op' = Idle
      /\ UNCHANGED <<up, pushed, crashes, dropped, again>>
  BY DEF FinishWrite
<1>2. /\ op'.rows = <<>> /\ op'.writes = FALSE /\ op'.by = {} /\ op'.claims = NoEvent
  BY <1>1 DEF Idle
<1>3. /\ pushed \in Nat /\ up /\ Wellformed(op.rows)
      /\ Content = op.rows /\ Content' = op.rows
  BY <1>1, <1>2, QueueAssumption DEF Content, Read, QueueInv, LockInv, TypeOK, QueueTypeOK
<1>4. holds' \in [Workers -> Ids \cup {NoEvent}]
  BY DEF FinishWrite, QueueInv, TypeOK, QueueTypeOK
<1>5. TypeOK'
  <2>1. Len(op.rows) <= MaxEvents
    <3>1. Len(op.rows) <= pushed /\ Len(op.rows) \in Nat /\ pushed <= MaxEvents
      BY <1>3, LenProperties DEF Wellformed, QueueInv, TypeOK, QueueTypeOK
    <3> QED
      BY <1>3, <3>1, QueueAssumption
  <2>2. <<>> \in Seq(Events)
    BY EmptySeq
  <2> QED
    BY <1>1, <1>2, <1>3, <1>4, <2>1, <2>2 DEF QueueInv, TypeOK, QueueTypeOK
<1>6. LockInv'
  BY <1>1, <1>2 DEF LockInv
<1>7. Wellformed(rows)' /\ Wellformed(op.rows)'
  BY <1>1, <1>2, <1>3, EmptyContent DEF Wellformed
<1>8. (~again.reset => OneActive(rows) /\ OneActive(op.rows))'
  BY <1>1, <1>2, <1>3, EmptyContent DEF QueueInv, OneActive
<1>9. WorkInv'
  <2>1. \A w \in Workers : holds'[w] = IF w \in op.by THEN op.claims ELSE holds[w]
    BY DEF FinishWrite
  <2>2. ASSUME NEW w \in Workers, w \in op.by, op.claims # NoEvent
        PROVE  /\ op.claims \in 1..pushed /\ InWork(op.rows, op.claims)
               /\ \A v \in Workers : holds'[v] = op.claims => v = w
    BY <1>3, <2>1, <2>2 DEF QueueInv, WorkInv
  <2>3. ASSUME NEW w \in Workers, w \notin op.by, holds[w] # NoEvent
        PROVE  /\ holds[w] \in 1..pushed /\ InWork(op.rows, holds[w])
               /\ \A v \in Workers : holds'[v] = holds[w] => v = w
    BY <1>3, <2>1, <2>3 DEF QueueInv, WorkInv
  <2>4. NoEvent \notin Ids /\ \A i \in 1..pushed : i # NoEvent
    BY <1>3, QueueAssumption DEF Ids
  <2>5. ASSUME NEW w \in Workers, holds'[w] # NoEvent
        PROVE  /\ holds'[w] \in 1..pushed /\ InWork(op.rows, holds'[w])
               /\ \A v \in Workers : holds'[v] = holds'[w] => v = w
    <3>1. CASE w \in op.by
      BY <2>1, <2>2, <2>5, <3>1
    <3>2. CASE w \notin op.by
      BY <2>1, <2>3, <2>5, <3>2
    <3> QED
      BY <3>1, <3>2
  <2> QED
    BY <1>1, <1>2, <1>3, <2>4, <2>5 DEF WorkInv, InWork
<1>10. HistoryInv' /\ DedupedWasQueued' /\ DroppedInv'
  BY <1>1, <1>3 DEF QueueInv, HistoryInv, DedupedWasQueued, DroppedInv, IdsIn
<1>11. (~again.torn => (1..pushed) \ dropped \subseteq IdsIn(Content))'
  BY <1>1, <1>3 DEF QueueInv, IdsIn
<1> QED
  BY <1>5, <1>6, <1>7, <1>8, <1>9, <1>10, <1>11 DEF QueueInv

LEMMA CrashStep ==
  ASSUME QueueInv, Crash, UNCHANGED <<queued, deduped>>
  PROVE  QueueInv'
<1>1. /\ up' = FALSE /\ op' = Idle /\ crashes' = crashes + 1 /\ crashes \in Nat /\ pushed \in Nat
      /\ crashes' \in 0..MaxCrashes
      /\ UNCHANGED <<rows, torn, pushed, dropped>>
      /\ holds' \in [Workers -> Ids \cup {NoEvent}]
      /\ \A w \in Workers : holds'[w] = NoEvent
  BY QueueAssumption DEF Crash, QueueInv, TypeOK, QueueTypeOK
<1>a. /\ again' \in [reset : BOOLEAN, torn : BOOLEAN]
      /\ again'.reset <=> again.reset
      /\ again'.torn <=> (again.torn \/ op # Idle)
  BY DEF Crash, QueueInv, TypeOK, QueueTypeOK
<1>2. /\ op'.rows = <<>> /\ op'.writes = FALSE /\ op'.by = {} /\ op'.claims = NoEvent
  BY <1>1 DEF Idle
<1>3. TypeOK'
  <2>1. <<>> \in Seq(Events)
    BY EmptySeq
  <2> QED
    BY <1>1, <1>a, <1>2, <2>1 DEF QueueInv, TypeOK, QueueTypeOK
<1>4. LockInv'
  <2>1. torn => again'.torn
    BY <1>a DEF Idle, QueueInv, LockInv
  <2> QED
    BY <1>1, <1>2, <2>1 DEF LockInv
<1>5. WorkInv' /\ DroppedInv'
  <2>1. WorkInv'
    BY <1>1, <1>2 DEF WorkInv
  <2>2. Content' = <<>> \/ Content' = Content
    BY <1>1, <1>2 DEF Content, Read, QueueInv, LockInv
  <2> QED
    BY <1>1, <2>1, <2>2, EmptyContent DEF QueueInv, DroppedInv, IdsIn
<1>6. Wellformed(rows)' /\ Wellformed(op.rows)'
  BY <1>1, <1>2, EmptyContent DEF QueueInv, Wellformed
<1>7. (~again.reset => OneActive(rows) /\ OneActive(op.rows))'
  BY <1>1, <1>a, <1>2, EmptyContent DEF QueueInv, OneActive
<1>8. HistoryInv' /\ DedupedWasQueued'
  BY <1>1 DEF QueueInv, HistoryInv, DedupedWasQueued
<1>9. (~again.torn => (1..pushed) \ dropped \subseteq IdsIn(Content))'
  <2> SUFFICES ASSUME ~again'.torn  PROVE (1..pushed) \ dropped \subseteq IdsIn(Read)
    BY <1>1, <1>2 DEF IdsIn, Content, Read
  <2>1. ~again.torn /\ op = Idle /\ ~op.writes
    BY <1>a DEF Idle
  <2> QED
    BY <2>1 DEF QueueInv, Content
<1> QED
  BY <1>3, <1>4, <1>5, <1>6, <1>7, <1>8, <1>9 DEF QueueInv

\* A write that is cut off in a process that goes on: the file is lost.
LEMMA WriteFailsStep ==
  ASSUME QueueInv, WriteFails, UNCHANGED <<queued, deduped>>
  PROVE  QueueInv'
<1>1. /\ op.writes /\ torn /\ up /\ op' = Idle /\ pushed \in Nat
      /\ UNCHANGED <<rows, torn, holds, up, pushed, crashes, dropped>>
  BY QueueAssumption DEF WriteFails, QueueInv, LockInv, TypeOK, QueueTypeOK
<1>a. /\ again' \in [reset : BOOLEAN, torn : BOOLEAN]
      /\ again'.reset <=> again.reset
      /\ again'.torn
  BY DEF WriteFails, QueueInv, TypeOK, QueueTypeOK
<1>2. /\ op'.rows = <<>> /\ op'.writes = FALSE /\ op'.by = {} /\ op'.claims = NoEvent
  BY <1>1 DEF Idle
<1>3. TypeOK'
  <2>1. <<>> \in Seq(Events)
    BY EmptySeq
  <2> QED
    BY <1>1, <1>a, <1>2, <2>1 DEF QueueInv, TypeOK, QueueTypeOK
<1>4. LockInv'
  BY <1>1, <1>a, <1>2 DEF LockInv
<1>5. Content' = <<>>
  BY <1>1, <1>2 DEF Content, Read
<1>6. WorkInv' /\ DroppedInv'
  <2>1. op.claims # NoEvent => \E w \in Workers : op.by = {w}
    BY DEF QueueInv, WorkInv
  <2>2. \A w \in Workers : holds[w] # NoEvent =>
          holds[w] \in 1..pushed /\ \A v \in Workers : holds[v] = holds[w] => v = w
    BY DEF QueueInv, WorkInv
  <2>3. \A i : InWork(<<>>, i)
    BY <1>1, EmptyContent
  <2>4. WorkInv'
    BY <1>1, <1>2, <1>5, <2>2, <2>3 DEF WorkInv, InWork
  <2>5. DroppedInv'
    BY <1>1, <1>5, EmptyContent DEF QueueInv, DroppedInv, IdsIn
  <2> QED
    BY <2>4, <2>5
<1>7. Wellformed(rows)' /\ Wellformed(op.rows)'
  BY <1>1, <1>2, EmptyContent DEF QueueInv, Wellformed
<1>8. (~again.reset => OneActive(rows) /\ OneActive(op.rows))'
  BY <1>1, <1>a, <1>2, EmptyContent DEF QueueInv, OneActive
<1>9. HistoryInv' /\ DedupedWasQueued'
  BY <1>1 DEF QueueInv, HistoryInv, DedupedWasQueued
<1> QED
  BY <1>3, <1>4, <1>6, <1>7, <1>8, <1>9, <1>a DEF QueueInv

\* The events in work become pending again: no worker of the process has one.
LEMMA RestartStep ==
  ASSUME QueueInv, Restart, UNCHANGED <<queued, deduped>>
  PROVE  QueueInv'
<1>1. /\ ~up /\ up' = TRUE
      /\ UNCHANGED <<rows, holds, pushed, crashes, dropped>>
      /\ pushed \in Nat
  BY QueueAssumption DEF Restart, QueueInv, TypeOK, QueueTypeOK
<1>a. /\ again' \in [reset : BOOLEAN, torn : BOOLEAN]
      /\ again'.torn <=> again.torn
      /\ again'.reset <=> (again.reset \/ \E e \in ToSet(Read) : e.status = "rca_done")
  BY DEF Restart, QueueInv, TypeOK, QueueTypeOK
<1>2. op = Idle /\ op.writes = FALSE /\ op.rows = <<>> /\ op.by = {} /\ op.claims = NoEvent
  BY <1>1 DEF Idle, QueueInv, LockInv, TypeOK, QueueTypeOK
<1>3. \/ UNCHANGED <<op, torn>>
      \/ op' = [Idle EXCEPT !.writes = TRUE, !.rows = Reset] /\ torn' = TRUE
  BY DEF Restart
<1>4. /\ op'.by = {} /\ op'.claims = NoEvent
      /\ \/ op' = Idle /\ torn' = torn /\ op'.writes = FALSE /\ op'.rows = <<>>
         \/ op'.writes = TRUE /\ op'.rows = Reset /\ torn' = TRUE
  BY <1>2, <1>3 DEF Idle
<1>5. /\ SameEvents(Read, Reset)
      /\ \A k \in DOMAIN Read : Reset[k].status =
           IF Read[k].status \in Interrupted THEN "pending" ELSE Read[k].status
  BY ReadFacts, ResetFacts
<1>6. /\ Wellformed(Reset) /\ DOMAIN Reset = DOMAIN Read /\ IdsIn(Reset) = IdsIn(Read)
  BY <1>5, ReadFacts, SameEventsKeep
<1>7. ~again'.reset => OneActive(Reset)
  <2> SUFFICES ASSUME ~again'.reset  PROVE OneActive(Reset)
    OBVIOUS
  <2>1. \A k \in DOMAIN Read : Read[k].status # "rca_done"
    BY <1>1, <1>a DEF ToSet
  <2>2. \A k \in DOMAIN Read : Reset[k].status \in Active => Read[k].status \in Active
    BY <1>5, <2>1 DEF Interrupted, Active
  <2> QED
    BY <1>1, <1>a, <1>5, <2>2, ReadFacts, SameEventsKeep
<1>9. TypeOK'
  <2>1. op'.rows \in Seq(Events) /\ op'.writes \in BOOLEAN /\ torn' \in BOOLEAN
    BY <1>4, <1>6, EmptySeq DEF Wellformed, QueueInv, TypeOK, QueueTypeOK
  <2> QED
    BY <1>1, <1>a, <1>4, <2>1 DEF QueueInv, TypeOK, QueueTypeOK
<1>10. LockInv'
  BY <1>1, <1>a, <1>2, <1>4 DEF QueueInv, LockInv
<1>11. WorkInv' /\ DroppedInv'
  <2>1. WorkInv'
    BY <1>1, <1>4 DEF QueueInv, WorkInv
  <2>2. Content = Read /\ (Content' = Read \/ Content' = Reset)
    BY <1>1, <1>2, <1>4 DEF Content, Read
  <2> QED
    BY <1>1, <1>6, <2>1, <2>2 DEF QueueInv, DroppedInv, IdsIn
<1>12. Wellformed(rows)'
  BY <1>1 DEF QueueInv, Wellformed
<1>13. Wellformed(op.rows)'
  BY <1>1, <1>4, <1>6, EmptyContent DEF Wellformed
<1>14. (~again.reset => OneActive(rows) /\ OneActive(op.rows))'
  <2>1. ~again'.reset => OneActive(rows) /\ OneActive(op'.rows)
    BY <1>1, <1>a, <1>4, <1>7, EmptyContent DEF QueueInv
  <2> QED
    BY <1>1, <1>a, <2>1 DEF OneActive
<1>15. HistoryInv' /\ DedupedWasQueued'
  BY <1>1 DEF QueueInv, HistoryInv, DedupedWasQueued
<1>16. (~again.torn => (1..pushed) \ dropped \subseteq IdsIn(Content))'
  <2> SUFFICES ASSUME ~again.torn
               PROVE  (1..pushed) \ dropped \subseteq IdsIn(IF op'.writes THEN op'.rows ELSE Read)
    BY <1>1, <1>a, <1>4 DEF IdsIn, Content, Read
  <2>2. (1..pushed) \ dropped \subseteq IdsIn(Read)
    BY <1>2 DEF QueueInv, Content
  <2> QED
    BY <1>4, <1>6, <2>2
<1> QED
  BY <1>9, <1>10, <1>11, <1>12, <1>13, <1>14, <1>15, <1>16 DEF QueueInv

LEMMA NextQueueInv ==
  ASSUME QueueInv, [Next]_vars
  PROVE  QueueInv'
<1>1. CASE QueueStep
  BY <1>1, FinishStep, WriteFailsStep, ClearStep, CrashStep, RestartStep, DeleteStep, ClaimStep,
     WorkerUpdates
     DEF QueueStep, WorkerStep
<1>2. ASSUME NEW d \in Deliveries, QueueOrDeduplicate(d)  PROVE QueueInv'
  <2>1. PICK e \in Normalised(d) :
          \/ /\ Push(e.print)
             /\ queued' = [queued EXCEPT ![pushed + 1] = [delivery |-> d, event |-> e]]
             /\ UNCHANGED deduped
          \/ /\ LockFree /\ e.print \in ActivePrints
             /\ deduped' = [delivery |-> d, error |-> e.error]
             /\ UNCHANGED <<queueVars, queued>>
    BY <1>2 DEF QueueOrDeduplicate
  <2> QED
    BY <2>1, PushStep, DeduplicateStep
<1>3. CASE UNCHANGED vars
  <2> USE <1>3 DEF vars, queueVars
  <2>1. TypeOK' /\ LockInv' /\ HistoryInv' /\ DedupedWasQueued'
    BY DEF QueueInv, TypeOK, QueueTypeOK, LockInv, HistoryInv, DedupedWasQueued
  <2>2. WorkInv' /\ DroppedInv'
    BY DEF QueueInv, WorkInv, DroppedInv, IdsIn, InWork, Content, Read
  <2>3. (Wellformed(rows) /\ Wellformed(op.rows))'
    BY DEF QueueInv, Wellformed
  <2>4. (~again.reset => OneActive(rows) /\ OneActive(op.rows))'
    BY DEF QueueInv, OneActive
  <2>5. (~again.torn => (1..pushed) \ dropped \subseteq IdsIn(Content))'
    BY DEF QueueInv, IdsIn, Content, Read
  <2> QED
    BY <2>1, <2>2, <2>3, <2>4, <2>5 DEF QueueInv
<1> QED
  BY <1>1, <1>2, <1>3 DEF Next, HandleGithub, HandleJira, HandleServiceNow

-----------------------------------------------------------------------------
(* What holds in every run.                                                  *)

\* The queue file, the call that writes it, the workers and the history of the
\* deliveries fit together in every state of every run.
THEOREM QueueInvariant == Spec => []QueueInv
  BY InitQueueInv, NextQueueInv, PTL DEF Spec

\* The types, in every state of every interleaving.
THEOREM QueueTypeCorrect == Spec => []TypeOK
<1>1. QueueInv => TypeOK
  BY DEF QueueInv
<1> QED
  BY QueueInvariant, <1>1, PTL

\* No event disappears from queue.json, but by a delete, a clear or a _write that
\* was cut off.
THEOREM EventsSurviveHolds == Spec => []EventsSurvive
<1>1. QueueInv => EventsSurvive
  <2> SUFFICES ASSUME QueueInv, op = Idle, ~again.torn
               PROVE  (1..pushed) \ dropped \subseteq {e.id : e \in ToSet(rows)}
    BY DEF EventsSurvive
  <2>1. LockInv /\ Content = rows
    BY DEF QueueInv, LockInv, Content, Read, Idle
  <2> QED
    BY <2>1 DEF QueueInv, IdsIn, ToSet
<1> QED
  BY QueueInvariant, <1>1, PTL

\* But for GitHub a delivery can become one event only.
LEMMA OneEvent ==
  ASSUME NEW d \in Deliveries, NEW e \in Normalised(d), NEW f \in Normalised(d),
         d.source # "github_issue"
  PROVE  e = f
<1>1. d.source \in Sources /\ \A s, t \in d.texts : s = t
  BY DeliveryAssumption
<1>2. CASE d.source = "jira"
  BY <1>1, <1>2 DEF Normalised, JiraEvents
<1>3. CASE d.source = "servicenow"
  BY <1>1, <1>3 DEF Normalised, ServiceNowEvents
<1> QED
  BY <1>1, <1>2, <1>3 DEF Sources

\* A delivery is once among the events that wait or are in work, with the two
\* exceptions that the property names: two active rows of one delivery have two
\* fingerprints, and so two errors.
THEOREM OneActivePerDeliveryHolds == Spec => []OneActivePerDelivery
<1>1. QueueInv => OneActivePerDelivery
  <2> SUFFICES ASSUME QueueInv, ~again.reset, NEW i \in DOMAIN rows, NEW j \in DOMAIN rows, i # j,
                      rows[i].status \in Active, rows[j].status \in Active,
                      queued[rows[i].id].delivery = queued[rows[j].id].delivery
               PROVE  /\ queued[rows[i].id].delivery.source = "github_issue"
                      /\ queued[rows[i].id].event.error # queued[rows[j].id].event.error
    BY DEF OneActivePerDelivery
  <2> DEFINE d == queued[rows[i].id].delivery
             e == queued[rows[i].id].event
             f == queued[rows[j].id].event
  <2>1. rows[i].id \in 1..pushed /\ rows[j].id \in 1..pushed
        /\ rows[i].print = e.print /\ rows[j].print = f.print
    BY DEF QueueInv, Wellformed
  <2>2. d \in Deliveries /\ e \in Normalised(d) /\ f \in Normalised(d)
    BY <2>1 DEF QueueInv, HistoryInv
  <2>3. e.print # f.print
    BY <2>1 DEF QueueInv, OneActive
  <2> HIDE DEF d, e, f
  <2>4. e.error # f.error
    BY <2>2, <2>3, NormalisedFacts
  <2>5. d.source = "github_issue"
    BY <2>2, <2>4, OneEvent
  <2> QED
    BY <2>4, <2>5 DEF d, e, f
<1> QED
  BY QueueInvariant, <1>1, PTL

\* A delivery that is answered "deduplicated" has the error, and but for GitHub
\* the issue, of one that was queued.
THEOREM DedupedWasQueuedHolds == Spec => []DedupedWasQueued
<1>1. QueueInv => DedupedWasQueued
  BY DEF QueueInv
<1> QED
  BY QueueInvariant, <1>1, PTL

-----------------------------------------------------------------------------
(* The queue implements its contract.  The stage of an event is read off the *)
(* row it has in the content, so each step is compared row by row.           *)

RowStage(status) ==
  IF status = "pending" THEN "waiting" ELSE IF status \in Interrupted THEN "working" ELSE "over"

\* The stage of event i when the file holds r, n events were pushed and the
\* events in "deleted" are.
StageIn(r, n, deleted, i) ==
  CASE i > n                          -> "none"
    [] Has(r, i, {"pending"})         -> "waiting"
    [] Has(r, i, Interrupted)         -> "working"
    [] Has(r, i, {"done", "failed"})  -> "over"
    [] OTHER                          -> IF i \in deleted THEN "gone" ELSE "lost"

LEMMA StageIs ==
  ASSUME NEW i
  PROVE  /\ StageOf(i) = StageIn(Content, pushed, dropped, i)
         /\ StageOf(i)' = StageIn(Content', pushed', dropped', i)
  BY DEF StageOf, StageIn

\* What is there is at the stage of its row, and the rest is gone or lost.
InOrder(r, n) ==
  /\ r \in Seq(Events)
  /\ \A k \in DOMAIN r : r[k].id \in 1..n
  /\ \A k, l \in DOMAIN r : k < l => r[k].id < r[l].id

LEMMA StageInFacts ==
  ASSUME NEW r, NEW n \in Nat, NEW deleted, InOrder(r, n)
  PROVE  /\ \A i \in Ids : i > n => StageIn(r, n, deleted, i) = "none"
         /\ \A k \in DOMAIN r : StageIn(r, n, deleted, r[k].id) = RowStage(r[k].status)
         /\ \A i \in 1..n : i \notin IdsIn(r) =>
              StageIn(r, n, deleted, i) = IF i \in deleted THEN "gone" ELSE "lost"
<1>1. DOMAIN r = 1..Len(r) /\ Len(r) \in Nat /\ \A k \in 1..Len(r) : r[k] \in Events
  <2>1. r \in Seq(Events)
    BY DEF InOrder
  <2> QED
    BY <2>1, LenProperties, ElementOfSeq
<1>2. \A k, l \in DOMAIN r : r[k].id = r[l].id => k = l
  <2>1. \A k \in DOMAIN r : r[k].id \in Int
    BY DEF InOrder
  <2>2. \A k, l \in DOMAIN r : k < l => r[k].id < r[l].id
    BY DEF InOrder
  <2> QED
    BY <1>1, <2>1, <2>2
<1>3. \A k \in DOMAIN r : r[k].status \in Statuses
  BY <1>1 DEF Events
<1>4. ASSUME NEW k \in DOMAIN r  PROVE StageIn(r, n, deleted, r[k].id) = RowStage(r[k].status)
  <2>1. ~(r[k].id > n)
    BY DEF InOrder
  <2>2. ASSUME NEW statuses  PROVE Has(r, r[k].id, statuses) <=> r[k].status \in statuses
    BY <1>2 DEF Has, ToSet
  <2> DEFINE i == r[k].id
  <2> HIDE DEF i
  <2>3. /\ ~(i > n) /\ Has(r, i, {"pending"}) <=> r[k].status \in {"pending"}
        /\ Has(r, i, Interrupted) <=> r[k].status \in Interrupted
        /\ Has(r, i, {"done", "failed"}) <=> r[k].status \in {"done", "failed"}
    BY <2>1, <2>2 DEF i
  <2>4. StageIn(r, n, deleted, i) = RowStage(r[k].status)
    BY <1>3, <2>3 DEF StageIn, RowStage, Interrupted, Statuses
  <2> QED
    BY <2>4 DEF i
<1>5. ASSUME NEW i \in Ids, i > n  PROVE StageIn(r, n, deleted, i) = "none"
  <2>1. ASSUME NEW statuses  PROVE ~Has(r, i, statuses)
    BY <1>5, QueueAssumption DEF Has, ToSet, Ids, InOrder
  <2> QED
    BY <1>5, <2>1 DEF StageIn
<1>6. ASSUME NEW i \in 1..n, i \notin IdsIn(r)
      PROVE  StageIn(r, n, deleted, i) = IF i \in deleted THEN "gone" ELSE "lost"
  <2>1. ASSUME NEW statuses  PROVE ~Has(r, i, statuses)
    BY <1>6 DEF Has, ToSet, IdsIn
  <2>2. ~(i > n)
    OBVIOUS
  <2> QED
    BY <2>1, <2>2 DEF StageIn
<1> QED
  BY <1>4, <1>5, <1>6

LEMMA StageFacts ==
  ASSUME QueueInv
  PROVE  /\ \A i \in Ids : i > pushed => StageOf(i) = "none"
         /\ \A k \in DOMAIN Content : /\ Content[k].id \in 1..pushed /\ Content[k].id \in Ids
                                      /\ StageOf(Content[k].id) = RowStage(Content[k].status)
         /\ \A i \in Ids : i \in 1..pushed /\ i \notin IdsIn(Content) =>
              StageOf(i) = IF i \in dropped THEN "gone" ELSE "lost"
<1>1. /\ pushed \in Nat /\ InOrder(Content, pushed) /\ \A i \in 1..pushed : i \in Ids
  <2>1. Wellformed(Content)
    BY ReadFacts DEF Content, QueueInv
  <2>2. pushed \in Nat /\ \A i \in 1..pushed : i \in Ids
    BY QueueAssumption DEF QueueInv, TypeOK, QueueTypeOK, Ids
  <2> QED
    BY <2>1, <2>2 DEF Wellformed, InOrder
<1>2. /\ \A i \in Ids : i > pushed => StageIn(Content, pushed, dropped, i) = "none"
      /\ \A k \in DOMAIN Content :
           StageIn(Content, pushed, dropped, Content[k].id) = RowStage(Content[k].status)
      /\ \A i \in 1..pushed : i \notin IdsIn(Content) =>
           StageIn(Content, pushed, dropped, i) = IF i \in dropped THEN "gone" ELSE "lost"
  BY <1>1, StageInFacts
<1> QED
  BY <1>1, <1>2, StageIs DEF InOrder

\* The same after a step that leaves the content r.
LEMMA NextStageFacts ==
  ASSUME QueueInv', NEW r, Content' = r
  PROVE  /\ \A i \in Ids : i > pushed' => StageOf(i)' = "none"
         /\ \A k \in DOMAIN r : r[k].id \in 1..pushed' /\ r[k].id \in Ids
         /\ \A i \in Ids : \A k \in DOMAIN r : r[k].id = i => StageOf(i)' = RowStage(r[k].status)
         /\ \A i \in Ids : i \in 1..pushed' /\ i \notin IdsIn(r) =>
              StageOf(i)' = IF i \in dropped' THEN "gone" ELSE "lost"
<1>1. pushed' \in Nat /\ InOrder(r, pushed') /\ \A i \in 1..pushed' : i \in Ids
  <2>1. pushed' \in Nat /\ \A i \in 1..pushed' : i \in Ids
    BY QueueAssumption DEF QueueInv, TypeOK, QueueTypeOK, Ids
  <2>2. \/ r = rows' \/ r = op'.rows \/ r = <<>>
    BY DEF Content, Read
  <2>3. CASE r = <<>>
    BY <2>1, <2>3, EmptySeq DEF InOrder
  <2>4. CASE r = rows' \/ r = op'.rows
    BY <2>1, <2>4 DEF QueueInv, Wellformed, InOrder
  <2> QED
    BY <2>1, <2>2, <2>3, <2>4
<1>2. /\ \A i \in Ids : i > pushed' => StageIn(r, pushed', dropped', i) = "none"
      /\ \A k \in DOMAIN r : StageIn(r, pushed', dropped', r[k].id) = RowStage(r[k].status)
      /\ \A i \in 1..pushed' : i \notin IdsIn(r) =>
           StageIn(r, pushed', dropped', i) = IF i \in dropped' THEN "gone" ELSE "lost"
  BY <1>1, StageInFacts
<1> QED
  BY <1>1, <1>2, StageIs DEF InOrder

Stage == [i \in Ids |-> StageOf(i)]

\* The stages of what is in the content, before and after a change of statuses.
LEMMA StatusStages ==
  ASSUME QueueInv, QueueInv', LockFree \/ op = Idle, NEW r, Content' = r, SameEvents(Read, r),
         UNCHANGED <<pushed, dropped>>
  PROVE  /\ \A k \in DOMAIN Read : /\ Read[k].id \in Ids
                                   /\ Stage[Read[k].id] = RowStage(Read[k].status)
                                   /\ Stage'[Read[k].id] = RowStage(r[k].status)
         /\ \A i \in Ids : i \notin IdsIn(Read) => Stage'[i] = Stage[i]
<1>1. /\ Content = Read /\ DOMAIN r = DOMAIN Read /\ IdsIn(r) = IdsIn(Read)
  BY ReadFacts, SameEventsKeep DEF Content, LockFree, Idle
<1>2. \A k \in DOMAIN Read : Read[k].id \in Ids /\ r[k].id = Read[k].id
  BY <1>1, StageFacts DEF SameEvents
<1>3. \A i \in Ids : Stage[i] = StageOf(i) /\ Stage'[i] = StageOf(i)'
  BY DEF Stage
<1>4. \A k \in DOMAIN Read : /\ StageOf(Read[k].id) = RowStage(Read[k].status)
  BY <1>1, StageFacts
<1>5. \A k \in DOMAIN Read : Stage'[Read[k].id] = RowStage(r[k].status)
  BY <1>1, <1>2, <1>3, NextStageFacts
<1>6. ASSUME NEW i \in Ids, i \notin IdsIn(Read)  PROVE StageOf(i)' = StageOf(i)
  <2>1. CASE i > pushed
    BY <2>1, StageFacts, NextStageFacts
  <2>2. CASE ~(i > pushed)
    <3>1. i \in 1..pushed /\ i \in 1..pushed'
      BY <2>2, ReadFacts DEF Ids
    <3> QED
      BY <1>1, <1>6, <3>1, StageFacts, NextStageFacts
  <2> QED
    BY <2>1, <2>2
<1> QED
  BY <1>2, <1>3, <1>4, <1>5, <1>6

\* An event is at one of the stages of Present just when it is there.
LEMMA PresentStages ==
  ASSUME QueueInv
  PROVE  /\ Q!InStages(Q!Present) = IdsIn(Content)
         /\ IdsIn(Content) \subseteq Ids
         /\ \A i \in Ids : i \notin IdsIn(Content) =>
              Stage[i] = IF i > pushed THEN "none" ELSE IF i \in dropped THEN "gone" ELSE "lost"
         /\ \A k \in DOMAIN Content : Content[k].id \in Ids
                                      /\ Stage[Content[k].id] = RowStage(Content[k].status)
<1>1. \A i \in Ids : Stage[i] = StageOf(i)
  BY DEF Stage
<1>2. \A k \in DOMAIN Content : Content[k].id \in Ids
                                /\ Stage[Content[k].id] = RowStage(Content[k].status)
  BY <1>1, StageFacts
<1>3. ASSUME NEW i \in Ids, i \notin IdsIn(Content)
      PROVE  Stage[i] = IF i > pushed THEN "none" ELSE IF i \in dropped THEN "gone" ELSE "lost"
  <2>1. CASE i > pushed
    BY <1>1, <2>1, StageFacts
  <2>2. CASE ~(i > pushed)
    <3>1. i \in 1..pushed
      BY <2>2, ReadFacts DEF Ids
    <3> QED
      BY <1>1, <1>3, <2>2, <3>1, StageFacts
  <2> QED
    BY <2>1, <2>2
<1>4. IdsIn(Content) \subseteq Ids
  BY <1>2 DEF IdsIn
<1>5. \A i \in IdsIn(Content) : Stage[i] \in Q!Present
  BY <1>2 DEF IdsIn, RowStage, Q!Present
<1>6. \A i \in Ids : i \notin IdsIn(Content) => Stage[i] \notin Q!Present
  BY <1>3 DEF Q!Present
<1>7. Q!InStages(Q!Present) = {i \in Ids : Stage[i] \in Q!Present}
  BY DEF Q!InStages, Stage
<1> QED
  BY <1>2, <1>3, <1>4, <1>5, <1>6, <1>7

\* Two stages that agree event by event are the same.
LEMMA StageEqual ==
  ASSUME NEW f, \A i \in Ids : Stage'[i] = f[i], f = [i \in Ids |-> f[i]]
  PROVE  Stage' = f
<1>1. Stage' = [i \in Ids |-> Stage'[i]]
  BY DEF Stage
<1> QED
  BY <1>1

LEMMA SameStages ==
  ASSUME Content' = Content, UNCHANGED <<pushed, dropped>>
  PROVE  Stage' = Stage
  BY DEF Stage, StageOf

\* claim_next begins the oldest event that waits.
LEMMA ClaimImplements ==
  ASSUME QueueInv, QueueInv', NEW w \in Workers, Claim(w)
  PROVE  Q!ContractNext
<1>1. PICK k \in DOMAIN Read :
        /\ Read[k].status = "pending" /\ \A l \in 1..(k - 1) : Read[l].status # "pending"
        /\ op' = [writes |-> TRUE, rows |-> WithStatus(Read, Read[k].id, "running"),
                  by |-> {w}, claims |-> Read[k].id]
  BY DEF Claim
<1> DEFINE i == Read[k].id
           r == WithStatus(Read, i, "running")
<1>2. /\ LockFree /\ up /\ Content = Read /\ Content' = r /\ UNCHANGED <<up, pushed, dropped>>
  BY <1>1, ReadFacts DEF Claim, LockFree, Content
<1>3. /\ SameEvents(Read, r)
      /\ \A l \in DOMAIN Read : r[l].status = IF Read[l].id = i THEN "running" ELSE Read[l].status
  BY ReadFacts, WithStatusFacts DEF Statuses
<1> HIDE DEF r
<1>4. /\ DOMAIN Read = 1..Len(Read) /\ Len(Read) \in Nat
      /\ \A l \in DOMAIN Read : Read[l].id \in Int /\ (Read[l].id = i => l = k)
      /\ \A l, m \in DOMAIN Read : l < m => Read[l].id < Read[m].id
  BY ReadFacts, UniqueIds DEF Wellformed
<1>5. /\ \A l \in DOMAIN Read : /\ Read[l].id \in Ids
                                /\ Stage[Read[l].id] = RowStage(Read[l].status)
                                /\ Stage'[Read[l].id] = RowStage(r[l].status)
      /\ \A j \in Ids : j \notin IdsIn(Read) => Stage'[j] = Stage[j]
  BY <1>2, <1>3, StatusStages
<1>6. i \in Ids /\ Stage[i] = "waiting" /\ Stage'[i] = "working"
  BY <1>1, <1>3, <1>5 DEF RowStage, Interrupted
<1>7. \A j \in Ids : j # i => Stage'[j] = Stage[j]
  BY <1>3, <1>4, <1>5 DEF IdsIn
<1>8. ASSUME NEW j \in Ids, j < i  PROVE Stage[j] # "waiting"
  <2>1. CASE j \notin IdsIn(Read)
    BY <1>2, <2>1, PresentStages
  <2>2. ASSUME NEW l \in DOMAIN Read, j = Read[l].id  PROVE Stage[j] # "waiting"
    <3>1. l \in 1..(k - 1)
      BY <1>4, <1>8, <2>2
    <3> QED
      BY <1>1, <1>5, <2>2, <3>1 DEF RowStage
  <2> QED
    BY <2>1, <2>2 DEF IdsIn
<1> HIDE DEF i
<1>9. Stage' = [Stage EXCEPT ![i] = "working"]
  <2>1. \A j \in Ids : Stage'[j] = [Stage EXCEPT ![i] = "working"][j]
    BY <1>6, <1>7 DEF Stage
  <2> QED
    BY <2>1, StageEqual DEF Stage
<1>10. Q!Begin(i)
  BY <1>2, <1>6, <1>8, <1>9 DEF Q!Begin, Q!Move, Q!Older, Stage
<1> QED
  BY <1>6, <1>10 DEF Q!ContractNext

\* update_status ends the event that its worker has, or changes no stage.
LEMMA EndImplements ==
  ASSUME QueueInv, QueueInv', NEW w \in Workers, RcaDone(w) \/ EndEvent(w)
  PROVE  [Q!ContractNext]_<<Stage, up>>
<1> DEFINE i == holds[w]
<1>1. PICK status \in {"rca_done", "done", "failed"} :
        /\ UpdateStatus(i, status)
        /\ status = "rca_done" => UNCHANGED <<up, pushed, dropped>>
  BY DEF RcaDone, EndEvent
<1> DEFINE r == WithStatus(Read, i, status)
<1>2. /\ LockFree /\ up /\ i # NoEvent /\ Content = Read /\ Content' = r
      /\ UNCHANGED <<up, pushed, dropped>>
  BY <1>1, ReadFacts DEF RcaDone, EndEvent, UpdateStatus, StartWrite, LockFree, Idle, Content
<1>3. /\ SameEvents(Read, r)
      /\ \A l \in DOMAIN Read : r[l].status = IF Read[l].id = i THEN status ELSE Read[l].status
  BY ReadFacts, WithStatusFacts DEF Statuses
<1> HIDE DEF r
<1>4. i \in 1..pushed /\ InWork(Read, i)
  BY <1>2, HeldFacts
<1>5. /\ \A l \in DOMAIN Read : /\ Read[l].id \in Ids
                                /\ Stage[Read[l].id] = RowStage(Read[l].status)
                                /\ Stage'[Read[l].id] = RowStage(r[l].status)
      /\ \A j \in Ids : j \notin IdsIn(Read) => Stage'[j] = Stage[j]
  BY <1>2, <1>3, StatusStages
<1>6. \A j \in Ids : j # i => Stage'[j] = Stage[j]
  BY <1>3, <1>5 DEF IdsIn
<1>7. \A l \in DOMAIN Read : Read[l].id = i =>
        Stage[i] = "working" /\ Stage'[i] = IF status = "rca_done" THEN "working" ELSE "over"
  BY <1>3, <1>4, <1>5 DEF InWork, RowStage, Interrupted
<1> HIDE DEF i
<1>8. CASE i \in IdsIn(Read) /\ status # "rca_done"
  <2>1. i \in Ids /\ Stage[i] = "working" /\ Stage'[i] = "over"
    BY <1>5, <1>7, <1>8 DEF IdsIn
  <2>2. \A j \in Ids : Stage'[j] = [Stage EXCEPT ![i] = "over"][j]
    BY <1>6, <2>1 DEF Stage
  <2>3. Stage' = [Stage EXCEPT ![i] = "over"]
    BY <2>2, StageEqual DEF Stage
  <2>4. Q!End(i)
    BY <1>2, <2>1, <2>3 DEF Q!End, Q!Move, Stage
  <2> QED
    BY <2>1, <2>4 DEF Q!ContractNext
<1>9. CASE ~(i \in IdsIn(Read) /\ status # "rca_done")
  <2>1. \A j \in Ids : Stage'[j] = Stage[j]
    BY <1>5, <1>6, <1>7, <1>9 DEF IdsIn
  <2>2. Stage' = Stage
    BY <2>1, StageEqual DEF Stage
  <2> QED
    BY <1>2, <2>2
<1> QED
  BY <1>8, <1>9

\* push: the event comes after all that were pushed before it.
LEMMA PushImplements ==
  ASSUME QueueInv, QueueInv', NEW print \in Prints, Push(print)
  PROVE  Q!ContractNext
<1> DEFINE i == pushed + 1
           new == [id |-> i, print |-> print, status |-> "pending"]
           r == Append(Read, new)
<1>1. /\ LockFree /\ up /\ Content = Read /\ Content' = r /\ pushed' = i
      /\ UNCHANGED <<up, dropped>>
  BY ReadFacts DEF Push, StartWrite, LockFree, Content
<1>2. /\ i \in Ids /\ pushed \in Nat /\ \A j \in Ids : j \in Nat
  BY QueueAssumption DEF Push, QueueInv, TypeOK, QueueTypeOK, Ids
<1>3. new \in Events /\ new.id = i /\ new.status = "pending"
  BY <1>2 DEF Events, Statuses
<1> HIDE DEF new
<1>4. /\ DOMAIN r = DOMAIN Read \cup {Len(Read) + 1} /\ r[Len(Read) + 1] = new
      /\ \A k \in DOMAIN Read : r[k] = Read[k]
  BY <1>3, ReadFacts, AppendRow
<1> HIDE DEF r
<1>5. \A k \in DOMAIN Read : Read[k].id \in 1..pushed /\ Read[k].id \in Ids
                             /\ Stage[Read[k].id] = RowStage(Read[k].status)
  BY <1>1, ReadFacts, PresentStages DEF Wellformed
<1>6. \A j \in Ids : Stage'[j] = StageOf(j)'
  BY DEF Stage
<1>7. i > pushed /\ i \notin IdsIn(Read)
  BY <1>2, <1>5 DEF IdsIn
<1>8. Stage[i] = "none"
  BY <1>1, <1>2, <1>7, PresentStages
<1>9. Stage'[i] = "waiting"
  <2>1. Len(Read) + 1 \in DOMAIN r /\ r[Len(Read) + 1].id = i /\ r[Len(Read) + 1].status = "pending"
    BY <1>3, <1>4
  <2> QED
    BY <1>1, <1>2, <1>6, <2>1, NextStageFacts DEF RowStage
<1>10. ASSUME NEW j \in Ids, j # i  PROVE Stage'[j] = Stage[j]
  <2>1. ASSUME NEW k \in DOMAIN Read, j = Read[k].id  PROVE Stage'[j] = Stage[j]
    <3>1. k \in DOMAIN r /\ r[k].id = j /\ r[k].status = Read[k].status
      BY <1>4, <2>1
    <3> QED
      BY <1>1, <1>5, <1>6, <2>1, <3>1, NextStageFacts
  <2>2. CASE j \notin IdsIn(Read)
    <3>1. j \notin IdsIn(r)
      BY <1>3, <1>4, <1>10, <2>2 DEF IdsIn
    <3>2. Stage[j] = IF j > pushed THEN "none" ELSE IF j \in dropped THEN "gone" ELSE "lost"
      BY <1>1, <2>2, PresentStages
    <3>3. CASE j > pushed
      <4>1. j > pushed'
        BY <1>1, <1>2, <1>10, <3>3
      <4> QED
        BY <1>1, <1>6, <3>2, <3>3, <4>1, NextStageFacts
    <3>4. CASE ~(j > pushed)
      <4>1. j \in 1..pushed'
        BY <1>1, <1>2, <3>4 DEF Ids
      <4> QED
        BY <1>1, <1>6, <3>1, <3>2, <3>4, <4>1, NextStageFacts
    <3> QED
      BY <3>3, <3>4
  <2> QED
    BY <2>1, <2>2 DEF IdsIn
<1>11. ASSUME NEW j \in Ids, j < i  PROVE Stage[j] # "none"
  <2>1. ~(j > pushed)
    BY <1>2, <1>11
  <2>2. j \notin IdsIn(Read) => Stage[j] # "none"
    BY <1>1, <2>1, PresentStages
  <2>3. j \in IdsIn(Read) => Stage[j] # "none"
    BY <1>5 DEF IdsIn, RowStage
  <2> QED
    BY <2>2, <2>3
<1> HIDE DEF i
<1>12. Stage' = [Stage EXCEPT ![i] = "waiting"]
  <2>1. \A j \in Ids : Stage'[j] = [Stage EXCEPT ![i] = "waiting"][j]
    BY <1>9, <1>10 DEF Stage
  <2> QED
    BY <2>1, StageEqual DEF Stage
<1>13. Q!Enter(i)
  BY <1>1, <1>2, <1>8, <1>11, <1>12 DEF Q!Enter, Q!Move, Q!Older, Stage
<1> QED
  BY <1>2, <1>13 DEF Q!ContractNext

\* delete and clear: the events of "some" are there, and then they are gone.
LEMMA Removes ==
  ASSUME QueueInv, QueueInv', LockFree, NEW some, some \subseteq IdsIn(Read), NEW r, Content' = r,
         dropped' = dropped \cup some, UNCHANGED <<up, pushed>>,
         IdsIn(r) = IdsIn(Read) \ some,
         \A l \in DOMAIN r : \E k \in DOMAIN Read : r[l] = Read[k]
  PROVE  Q!ContractNext
<1>1. /\ Content = Read /\ up
      /\ some \subseteq Ids /\ some \subseteq Q!InStages(Q!Present)
  BY ReadFacts, PresentStages DEF LockFree
<1>2. \A j \in Ids : Stage'[j] = StageOf(j)'
  BY DEF Stage
<1>3. ASSUME NEW j \in some  PROVE Stage'[j] = "gone"
  <2>1. j \in Ids /\ j \in 1..pushed' /\ j \notin IdsIn(r)
    BY <1>1, ReadFacts DEF IdsIn, Wellformed
  <2> QED
    BY <1>2, <2>1, NextStageFacts
<1>4. ASSUME NEW j \in Ids, j \notin some  PROVE Stage'[j] = Stage[j]
  <2>1. CASE j \in IdsIn(r)
    <3>1. PICK l \in DOMAIN r : r[l].id = j
      BY <2>1 DEF IdsIn
    <3>2. PICK k \in DOMAIN Read : r[l] = Read[k]
      BY <3>1
    <3>3. Stage'[j] = RowStage(r[l].status)
      BY <1>2, <3>1, NextStageFacts
    <3>4. Stage[j] = RowStage(Read[k].status)
      BY <1>1, <3>1, <3>2, PresentStages
    <3> QED
      BY <3>2, <3>3, <3>4
  <2>2. CASE j \notin IdsIn(r)
    <3>1. j \notin IdsIn(Content)
      BY <1>1, <1>4, <2>2
    <3>2. Stage[j] = IF j > pushed THEN "none" ELSE IF j \in dropped THEN "gone" ELSE "lost"
      BY <3>1, PresentStages
    <3>3. CASE j > pushed
      BY <1>2, <3>2, <3>3, NextStageFacts
    <3>4. CASE ~(j > pushed)
      <4>1. j \in 1..pushed'
        BY <3>4, ReadFacts DEF Ids
      <4>2. StageOf(j)' = IF j \in dropped' THEN "gone" ELSE "lost"
        BY <2>2, <4>1, NextStageFacts
      <4> QED
        BY <1>2, <1>4, <3>2, <3>4, <4>2
    <3> QED
      BY <3>3, <3>4
  <2> QED
    BY <2>1, <2>2
<1>5. Stage' = [j \in Ids |-> IF j \in some THEN "gone" ELSE Stage[j]]
  <2> DEFINE f == [j \in Ids |-> IF j \in some THEN "gone" ELSE Stage[j]]
  <2>1. \A j \in Ids : Stage'[j] = f[j]
    BY <1>3, <1>4
  <2>2. f = [j \in Ids |-> f[j]]
    OBVIOUS
  <2> HIDE DEF f
  <2>3. Stage' = f
    BY <2>1, <2>2, StageEqual
  <2> QED
    BY <2>3 DEF f
<1>6. Q!Remove(some)
  BY <1>1, <1>5 DEF Q!Remove, Q!Moved, Stage
<1> QED
  BY <1>1, <1>6 DEF Q!ContractNext

LEMMA DeleteImplements ==
  ASSUME QueueInv, QueueInv', NEW i \in Ids, Delete(i)
  PROVE  Q!ContractNext
<1>1. PICK k \in DOMAIN Read : Read[k].id = i /\ StartWrite(RemoveAt(Read, k))
  BY DEF Delete
<1> DEFINE r == RemoveAt(Read, k)
<1>2. /\ LockFree /\ Content' = r /\ dropped' = dropped \cup {i} /\ UNCHANGED <<up, pushed>>
  BY <1>1 DEF Delete, StartWrite, LockFree, Idle, Content
<1>3. /\ IdsIn(r) = IdsIn(Read) \ {i} /\ {i} \subseteq IdsIn(Read)
      /\ \A l \in DOMAIN r : \E m \in DOMAIN Read : r[l] = Read[m]
  <2>1. /\ IdsIn(Read) \subseteq IdsIn(r) \cup {i} /\ IdsIn(r) \subseteq IdsIn(Read)
        /\ i \notin IdsIn(r)
        /\ \A l \in DOMAIN r : \E m \in DOMAIN Read : r[l] = Read[m]
    BY <1>1, ReadFacts, RemoveAtKeeps
  <2> HIDE DEF r
  <2> QED
    BY <1>1, <2>1 DEF IdsIn
<1> HIDE DEF r
<1> QED
  BY <1>2, <1>3, Removes

LEMMA ClearImplements ==
  ASSUME QueueInv, QueueInv', Clear
  PROVE  Q!ContractNext
<1>1. /\ LockFree /\ Content' = <<>> /\ dropped' = dropped \cup IdsIn(Read) /\ UNCHANGED <<up, pushed>>
  BY DEF Clear, StartWrite, LockFree, Idle, Content, IdsIn, ToSet
<1>2. IdsIn(<<>>) = IdsIn(Read) \ IdsIn(Read) /\ DOMAIN <<>> = {}
  BY ReadFacts, EmptyContent
<1> QED
  BY <1>1, <1>2, Removes

\* A write that is cut off loses what it was writing, and that is everything.
LEMMA CutOff ==
  ASSUME QueueInv, QueueInv', op.writes, op' = Idle, UNCHANGED <<rows, torn, pushed, dropped>>
  PROVE  Stage' = Q!Moved(Q!InStages(Q!Present), "lost")
<1>0. op' = Idle /\ op'.writes = FALSE /\ UNCHANGED <<rows, torn, pushed, dropped>>
  BY DEF Idle
<1>1. Content' = <<>>
  BY <1>0 DEF Content, Read, QueueInv, LockInv
<1>2. IdsIn(<<>>) = {}
  BY ReadFacts, EmptyContent
<1>3. \A j \in Ids : Stage'[j] = StageOf(j)'
  BY DEF Stage
<1>4. ASSUME NEW j \in Ids
      PROVE  Stage'[j] = IF j \in IdsIn(Content) THEN "lost" ELSE Stage[j]
  <2>1. CASE j > pushed
    <3>1. j \notin IdsIn(Content)
      BY <2>1, StageFacts, ReadFacts DEF IdsIn
    <3> QED
      BY <1>0, <1>1, <1>3, <2>1, <3>1, PresentStages, NextStageFacts
  <2>2. CASE ~(j > pushed)
    <3>1. j \in 1..pushed'
      BY <1>0, <2>2, ReadFacts DEF Ids
    <3>2. StageOf(j)' = IF j \in dropped THEN "gone" ELSE "lost"
      BY <1>0, <1>1, <1>2, <3>1, NextStageFacts
    <3>3. j \in IdsIn(Content) => j \notin dropped
      BY DEF QueueInv, DroppedInv
    <3>4. j \notin IdsIn(Content) => Stage[j] = IF j \in dropped THEN "gone" ELSE "lost"
      BY <2>2, PresentStages
    <3> QED
      BY <1>3, <3>2, <3>3, <3>4
  <2> QED
    BY <2>1, <2>2
<1> DEFINE f == [j \in Ids |-> IF j \in IdsIn(Content) THEN "lost" ELSE Stage[j]]
<1>5. \A j \in Ids : Stage'[j] = f[j]
  BY <1>4
<1>6. f = [j \in Ids |-> f[j]]
  OBVIOUS
<1> HIDE DEF f
<1>7. Stage' = f
  BY <1>5, <1>6, StageEqual
<1>8. f = Q!Moved(Q!InStages(Q!Present), "lost")
  BY PresentStages DEF f, Q!Moved, Stage
<1> QED
  BY <1>7, <1>8

LEMMA WriteFailsImplements ==
  ASSUME QueueInv, QueueInv', WriteFails
  PROVE  Q!ContractNext
<1>1. op.writes /\ up /\ up' = up /\ op' = Idle /\ UNCHANGED <<rows, torn, pushed, dropped>>
  BY DEF WriteFails, QueueInv, LockInv
<1> QED
  BY <1>1, CutOff DEF Q!ContractNext, Q!Lose, Stage

LEMMA CrashImplements ==
  ASSUME QueueInv, QueueInv', Crash
  PROVE  Q!ContractNext
<1>1. up /\ up' = FALSE /\ op' = Idle /\ op'.writes = FALSE /\ UNCHANGED <<rows, torn, pushed, dropped>>
  BY DEF Crash, Idle
<1>2. CASE ~op.writes
  <2>1. Content' = Content
    BY <1>1, <1>2 DEF Content, Read
  <2>2. Stage' = Stage
    BY <1>1, <2>1, SameStages
  <2> QED
    BY <1>1, <2>2 DEF Q!ContractNext, Q!Stop, Stage
<1>3. CASE op.writes
  BY <1>1, <1>3, CutOff DEF Q!ContractNext, Q!Stop, Stage
<1> QED
  BY <1>2, <1>3

\* reset_interrupted gives back what was in work, and nothing else.
LEMMA RestartImplements ==
  ASSUME QueueInv, QueueInv', Restart
  PROVE  Q!ContractNext
<1>1. /\ ~up /\ up' = TRUE /\ UNCHANGED <<rows, pushed, dropped>>
  BY DEF Restart
<1>2. op = Idle /\ ~op.writes
  BY <1>1 DEF Idle, QueueInv, LockInv, TypeOK, QueueTypeOK
<1>3. Content' = Reset
  <2>1. CASE Reset = Read
    <3>1. Content' = Read
      BY <1>1, <1>2, <2>1 DEF Restart, Content, Read
    <3> QED
      BY <2>1, <3>1
  <2>2. CASE Reset # Read
    <3>1. op' = [Idle EXCEPT !.writes = TRUE, !.rows = Reset]
      BY <2>2 DEF Restart
    <3>2. op'.writes = TRUE /\ op'.rows = Reset
      BY <3>1 DEF Idle
    <3> QED
      BY <3>2 DEF Content
  <2> QED
    BY <2>1, <2>2
<1>4. /\ SameEvents(Read, Reset)
      /\ \A k \in DOMAIN Read : Reset[k].status =
           IF Read[k].status \in Interrupted THEN "pending" ELSE Read[k].status
  BY ReadFacts, ResetFacts
<1>5. /\ \A l \in DOMAIN Read : /\ Read[l].id \in Ids
                                /\ Stage[Read[l].id] = RowStage(Read[l].status)
                                /\ Stage'[Read[l].id] = RowStage(Reset[l].status)
      /\ \A j \in Ids : j \notin IdsIn(Read) => Stage'[j] = Stage[j]
  BY <1>1, <1>2, <1>3, <1>4, StatusStages
<1>6. Content = Read
  BY <1>2 DEF Content
<1> DEFINE f == [j \in Ids |-> IF Stage[j] = "working" THEN "waiting" ELSE Stage[j]]
<1>7. ASSUME NEW j \in Ids  PROVE Stage'[j] = f[j]
  <2>1. ASSUME NEW l \in DOMAIN Read, j = Read[l].id  PROVE Stage'[j] = f[j]
    BY <1>4, <1>5, <2>1 DEF RowStage, Interrupted
  <2>2. CASE j \notin IdsIn(Read)
    BY <1>5, <1>6, <2>2, PresentStages
  <2> QED
    BY <2>1, <2>2 DEF IdsIn
<1>8. f = [j \in Ids |-> f[j]]
  OBVIOUS
<1> HIDE DEF f
<1>9. Stage' = f
  BY <1>7, <1>8, StageEqual
<1>10. f = Q!Moved(Q!InStages({"working"}), "waiting")
  BY DEF f, Q!Moved, Q!InStages, Stage
<1> QED
  BY <1>1, <1>9, <1>10 DEF Q!ContractNext, Q!Start, Stage

LEMMA ContractStep ==
  ASSUME QueueInv, QueueInv', [Next]_vars
  PROVE  [Q!ContractNext]_<<Stage, up>>
<1>1. CASE QueueStep
  <2>1. CASE FinishWrite
    <3>1. Content' = Content /\ UNCHANGED <<up, pushed, dropped>>
      BY <2>1 DEF FinishWrite, Content, Read, Idle
    <3> QED
      BY <3>1, SameStages
  <2> QED
    BY <1>1, <2>1, WriteFailsImplements, ClearImplements, CrashImplements, RestartImplements,
       DeleteImplements,
       ClaimImplements, EndImplements DEF QueueStep, WorkerStep
<1>2. ASSUME NEW d \in Deliveries, QueueOrDeduplicate(d)  PROVE [Q!ContractNext]_<<Stage, up>>
  <2>1. PICK e \in Normalised(d) : Push(e.print) \/ UNCHANGED queueVars
    BY <1>2 DEF QueueOrDeduplicate
  <2>2. e.print \in Prints
    BY PrintAssumption
  <2>3. CASE UNCHANGED queueVars
    BY <2>3, SameStages DEF queueVars, Content, Read
  <2> QED
    BY <2>1, <2>2, <2>3, PushImplements
<1>3. CASE UNCHANGED vars
  BY <1>3, SameStages DEF vars, queueVars, Content, Read
<1> QED
  BY <1>1, <1>2, <1>3 DEF Next, HandleGithub, HandleJira, HandleServiceNow

\* The file with its lock and its workers is a queue as the callers see it: in
\* order, each event with one worker and ended once, and begun again only after
\* a restart.
THEOREM ImplementsQueueHolds == Spec => ImplementsQueue
<1>1. Init => Stage = [i \in Ids |-> "none"] /\ up
  <2> SUFFICES ASSUME Init PROVE Stage = [i \in Ids |-> "none"] /\ up
    OBVIOUS
  <2>1. \A i \in Ids : StageOf(i) = "none"
    BY InitQueueInv, StageFacts DEF Init, QueueInit, Ids
  <2> QED
    BY <2>1 DEF Stage, Init, QueueInit
<1>2. Init => Q!ContractInit
  BY <1>1 DEF Q!ContractInit, Init, QueueInit, Stage
<1>3. QueueInv /\ QueueInv' /\ [Next]_vars => [Q!ContractNext]_<<Stage, up>>
  BY ContractStep
<1> QED
  BY <1>2, <1>3, QueueInvariant, PTL DEF Spec, ImplementsQueue, Q!Contract, Stage
=============================================================================
