---------------------------- MODULE DbFixProofs -----------------------------
(***************************************************************************)
(* DbInv is inductive for every set of plans, every number of issues and   *)
(* every number of changes by others; what the runs check follows from it. *)
(* One lemma per conjunct of DbInv, with one step per action.              *)
(***************************************************************************)
EXTENDS DbFix, TLAPS

\* Every step keeps the types: a run that is not idle has a plan, so what it
\* changes and records is about a plan.
LEMMA TypeOKStep == DbInv /\ [Next]_vars => TypeOK'
<1> SUFFICES ASSUME DbInv, [Next]_vars PROVE TypeOK'
  OBVIOUS
<1> USE DbFixAssumption DEF DbInv
<1>1. ASSUME NEW p \in Plans, PlanRead(p) PROVE TypeOK'
  BY <1>1 DEF TypeOK, Runs, Rows, PlanStatuses, Issues, Unread, NoRun,
     PlanRead, SetStatus, records, target
<1>2. ASSUME NEW p \in Plans, Offer(p) PROVE TypeOK'
  BY <1>2 DEF TypeOK, Runs, Rows, PlanStatuses, Issues, Unread, NoRun, Offer,
     SetStatus, records, target
<1>3. ASSUME NEW p \in Plans, PlanFails(p) PROVE TypeOK'
  BY <1>3 DEF TypeOK, Runs, Rows, PlanStatuses, Issues, Unread, NoRun,
     PlanFails, SetStatus, records, target
<1>4. ASSUME NEW p \in Plans, Decide(p) PROVE TypeOK'
  BY <1>4 DEF TypeOK, Runs, Rows, PlanStatuses, Issues, Unread, NoRun, Decide,
     SetStatus, records, target
<1>5. ASSUME NEW p \in Plans, Begin(p) PROVE TypeOK'
  BY <1>5 DEF TypeOK, Runs, Rows, PlanStatuses, Issues, Unread, NoRun, Begin,
     records, target
<1>6. CASE ReadHealth
  BY <1>6 DEF TypeOK, Runs, Rows, PlanStatuses, Issues, Unread, NoRun,
     ReadHealth, records, target
<1>7. CASE GeneratePlan
  BY <1>7 DEF TypeOK, Runs, Rows, PlanStatuses, Issues, Unread, NoRun,
     GeneratePlan, records, target
<1>8. CASE Repair
  <2>1. run.plan \in Plans
    BY <1>8 DEF Repair, RepairNext, TypeOK, RunInv, Runs
  <2>2. PICK i \in Issues : RepairNext(i) /\ run' = [run EXCEPT !.todo = @ \ {i}]
    BY <1>8 DEF Repair
  <2>3. row' \in Rows
    BY <2>2 DEF RepairNext, Repaired, TypeOK, Rows
  <2>4. run' \in Runs
    BY <2>2 DEF TypeOK, Runs, Rows
  <2>5. changed' \subseteq Plans \X Issues
    BY <2>1, <2>2 DEF RepairNext, TypeOK
  <2> QED
    BY <1>8, <2>2, <2>3, <2>4, <2>5 DEF Repair, RepairNext, TypeOK
<1>9. CASE RepairUnconfirmed
  <2>1. run.plan \in Plans
    BY <1>9 DEF RepairUnconfirmed, RepairNext, TypeOK, RunInv, Runs
  <2>2. PICK i \in Issues : RepairNext(i)
    BY <1>9 DEF RepairUnconfirmed
  <2>3. row' \in Rows
    BY <2>2 DEF RepairNext, Repaired, TypeOK, Rows
  <2>4. run' \in Runs
    BY <1>9 DEF RepairUnconfirmed, NoRun, Unread, Runs, Rows
  <2>5. changed' \subseteq Plans \X Issues
    BY <2>1, <2>2 DEF RepairNext, TypeOK
  <2>6. status' \in [Plans -> PlanStatuses]
    BY <1>9, <2>1 DEF RepairUnconfirmed, SetStatus, TypeOK, PlanStatuses
  <2> QED
    BY <2>2, <2>3, <2>4, <2>5, <2>6 DEF RepairNext, TypeOK
<1>10. CASE Verify
  BY <1>10 DEF TypeOK, Runs, Rows, PlanStatuses, Issues, Unread, NoRun, Verify,
     records, target
<1>11. CASE Save
  <2>1. run.plan \in Plans
    BY <1>11 DEF Save, TypeOK, RunInv, Runs
  <2>2. PICK i \in run.actions \ run.saved :
          /\ history' = history \cup {<<run.plan, i>>}
          /\ run' = [run EXCEPT !.saved = @ \cup {i}]
    BY <1>11 DEF Save
  <2>3. i \in Issues
    BY DEF TypeOK, Runs
  <2>4. run' \in Runs
    BY <2>2, <2>3 DEF TypeOK, Runs, Rows
  <2>5. history' \subseteq Plans \X Issues
    BY <2>1, <2>2, <2>3 DEF TypeOK
  <2> QED
    BY <1>11, <2>4, <2>5 DEF Save, target, TypeOK
<1>12. CASE Notify
  <2>1. run.plan \in Plans
    BY <1>12 DEF Notify, TypeOK, RunInv, Runs
  <2>2. run' \in Runs
    BY <1>12 DEF Notify, TypeOK, Runs, Rows
  <2> QED
    BY <1>12, <2>1, <2>2 DEF Notify, target, TypeOK
<1>13. CASE Report
  BY <1>13 DEF TypeOK, Runs, Rows, PlanStatuses, Issues, Unread, NoRun, Report,
     SetStatus, target
<1>14. CASE Stop
  BY <1>14 DEF TypeOK, Runs, Rows, PlanStatuses, Issues, Unread, NoRun,
     SetStatus, Stop, records, target
<1>15. CASE LoadChanges
  <2>1. run' \in Runs
    BY <1>15 DEF LoadChanges, Disturb, TypeOK, Runs, Rows
  <2>2. changes' \in 0..MaxChanges
    BY <1>15 DEF LoadChanges, Disturb, TypeOK
  <2> QED
    BY <1>15, <2>1, <2>2 DEF LoadChanges, Disturb, records, TypeOK, Rows, Consistent
<1>16. CASE RuleChanges
  <2>1. run' \in Runs
    BY <1>16 DEF RuleChanges, Disturb, TypeOK, Runs, Rows
  <2>2. changes' \in 0..MaxChanges
    BY <1>16 DEF RuleChanges, Disturb, TypeOK
  <2> QED
    BY <1>16, <2>1, <2>2 DEF RuleChanges, Disturb, records, TypeOK, Rows, Consistent
<1>17. CASE UNCHANGED vars
  BY <1>17 DEF vars, TypeOK, Runs, Rows, PlanStatuses, Issues, Unread, NoRun
<1> QED
  BY <1>1, <1>2, <1>3, <1>4, <1>5, <1>6, <1>7, <1>8, <1>9, <1>10, <1>11, <1>12, <1>13, <1>14,
     <1>15, <1>16, <1>17 DEF Next

\* The execution's local state stays in order, and its plan stays approved.
LEMMA RunInvStep == DbInv /\ [Next]_vars => RunInv'
<1> SUFFICES ASSUME DbInv, [Next]_vars PROVE RunInv'
  OBVIOUS
<1> USE DbFixAssumption DEF DbInv
<1>1. ASSUME NEW p \in Plans, PlanRead(p) PROVE RunInv'
  BY <1>1 DEF RunInv, TypeOK, Runs, PlanStatuses, Rows, NoRun, Unread,
     Consistent, RelapseInv, PlanRead, SetStatus, records, target
<1>2. ASSUME NEW p \in Plans, Offer(p) PROVE RunInv'
  BY <1>2 DEF RunInv, TypeOK, Runs, PlanStatuses, Rows, NoRun, Unread,
     Consistent, RelapseInv, Offer, SetStatus, records, target
<1>3. ASSUME NEW p \in Plans, PlanFails(p) PROVE RunInv'
  BY <1>3 DEF RunInv, TypeOK, Runs, PlanStatuses, Rows, NoRun, Unread,
     Consistent, RelapseInv, PlanFails, SetStatus, records, target
<1>4. ASSUME NEW p \in Plans, Decide(p) PROVE RunInv'
  BY <1>4 DEF RunInv, TypeOK, Runs, PlanStatuses, Rows, NoRun, Unread,
     Consistent, RelapseInv, Decide, SetStatus, records, target
<1>5. ASSUME NEW p \in Plans, Begin(p) PROVE RunInv'
  BY <1>5 DEF RunInv, TypeOK, Runs, PlanStatuses, Rows, NoRun, Unread,
     Consistent, RelapseInv, Begin, records, target
<1>6. CASE ReadHealth
  BY <1>6 DEF RunInv, TypeOK, Runs, PlanStatuses, Rows, NoRun, Unread,
     Consistent, RelapseInv, ReadHealth, records, target
<1>7. CASE GeneratePlan
  BY <1>7 DEF RunInv, TypeOK, Runs, PlanStatuses, Rows, NoRun, Unread,
     Consistent, RelapseInv, GeneratePlan, records, target
<1>8. CASE Repair
  BY <1>8 DEF RunInv, TypeOK, Runs, PlanStatuses, Rows, NoRun, Unread,
     Consistent, RelapseInv, Repair, RepairNext, Repaired
<1>9. CASE RepairUnconfirmed
  BY <1>9 DEF RunInv, TypeOK, Runs, PlanStatuses, Rows, NoRun, Unread,
     Consistent, RelapseInv, RepairNext, RepairUnconfirmed, Repaired, SetStatus
<1>10. CASE Verify
  BY <1>10 DEF RunInv, TypeOK, Runs, PlanStatuses, Rows, NoRun, Unread,
     Consistent, RelapseInv, Verify, records, target
<1>11. CASE Save
  BY <1>11 DEF RunInv, TypeOK, Runs, PlanStatuses, Rows, NoRun, Unread,
     Consistent, RelapseInv, Save, target
<1>12. CASE Notify
  BY <1>12 DEF RunInv, TypeOK, Runs, PlanStatuses, Rows, NoRun, Unread,
     Consistent, RelapseInv, Notify, target
<1>13. CASE Report
  BY <1>13 DEF RunInv, TypeOK, Runs, PlanStatuses, Rows, NoRun, Unread,
     Consistent, RelapseInv, Report, SetStatus, target
<1>14. CASE Stop
  BY <1>14 DEF RunInv, TypeOK, Runs, PlanStatuses, Rows, NoRun, Unread,
     Consistent, RelapseInv, SetStatus, Stop, records, target
<1>15. CASE LoadChanges
  BY <1>15 DEF RunInv, TypeOK, Runs, PlanStatuses, Rows, NoRun, Unread,
     Consistent, RelapseInv, Disturb, LoadChanges, records
<1>16. CASE RuleChanges
  BY <1>16 DEF RunInv, TypeOK, Runs, PlanStatuses, Rows, NoRun, Unread,
     Consistent, RelapseInv, Disturb, RuleChanges, records
<1>17. CASE UNCHANGED vars
  BY <1>17 DEF vars, RunInv, TypeOK, Runs, PlanStatuses, Rows, NoRun, Unread, Consistent, RelapseInv
<1> QED
  BY <1>1, <1>2, <1>3, <1>4, <1>5, <1>6, <1>7, <1>8, <1>9, <1>10, <1>11, <1>12, <1>13, <1>14,
     <1>15, <1>16, <1>17 DEF Next

\* What is changed, recorded and resolved of the plan in execution follows its
\* local state.
LEMMA ProgressInvStep == DbInv /\ [Next]_vars => ProgressInv'
<1> SUFFICES ASSUME DbInv, [Next]_vars PROVE ProgressInv'
  OBVIOUS
<1> USE DbFixAssumption DEF DbInv
<1>1. ASSUME NEW p \in Plans, PlanRead(p) PROVE ProgressInv'
  BY <1>1 DEF ProgressInv, RunInv, PlanInv, Untouched, TypeOK, Runs, NoRun,
     Issues, Verified, PlanRead, SetStatus, records, target
<1>2. ASSUME NEW p \in Plans, Offer(p) PROVE ProgressInv'
  BY <1>2 DEF ProgressInv, RunInv, PlanInv, Untouched, TypeOK, Runs, NoRun,
     Issues, Verified, Offer, SetStatus, records, target
<1>3. ASSUME NEW p \in Plans, PlanFails(p) PROVE ProgressInv'
  BY <1>3 DEF ProgressInv, RunInv, PlanInv, Untouched, TypeOK, Runs, NoRun,
     Issues, Verified, PlanFails, SetStatus, records, target
<1>4. ASSUME NEW p \in Plans, Decide(p) PROVE ProgressInv'
  BY <1>4 DEF ProgressInv, RunInv, PlanInv, Untouched, TypeOK, Runs, NoRun,
     Issues, Verified, Decide, SetStatus, records, target
<1>5. ASSUME NEW p \in Plans, Begin(p) PROVE ProgressInv'
  BY <1>5 DEF ProgressInv, RunInv, PlanInv, Untouched, TypeOK, Runs, NoRun,
     Issues, Verified, Begin, records, target
<1>6. CASE ReadHealth
  BY <1>6 DEF ProgressInv, RunInv, PlanInv, Untouched, TypeOK, Runs, NoRun,
     Issues, Verified, ReadHealth, records, target
<1>7. CASE GeneratePlan
  BY <1>7 DEF ProgressInv, RunInv, PlanInv, Untouched, TypeOK, Runs, NoRun,
     Issues, Verified, GeneratePlan, records, target
<1>8. CASE Repair
  BY <1>8 DEF ProgressInv, RunInv, PlanInv, Untouched, TypeOK, Runs, NoRun,
     Issues, Verified, Repair, RepairNext, Repaired
<1>9. CASE RepairUnconfirmed
  BY <1>9 DEF ProgressInv, RunInv, PlanInv, Untouched, TypeOK, Runs, NoRun,
     Issues, Verified, RepairNext, RepairUnconfirmed, Repaired, SetStatus
<1>10. CASE Verify
  BY <1>10 DEF ProgressInv, RunInv, PlanInv, Untouched, TypeOK, Runs, NoRun,
     Issues, Verified, Verify, records, target
<1>11. CASE Save
  BY <1>11 DEF ProgressInv, RunInv, PlanInv, Untouched, TypeOK, Runs, NoRun,
     Issues, Verified, Save, target
<1>12. CASE Notify
  BY <1>12 DEF ProgressInv, RunInv, PlanInv, Untouched, TypeOK, Runs, NoRun,
     Issues, Verified, Notify, target
<1>13. CASE Report
  BY <1>13 DEF ProgressInv, RunInv, PlanInv, Untouched, TypeOK, Runs, NoRun,
     Issues, Verified, Report, SetStatus, target
<1>14. CASE Stop
  BY <1>14 DEF ProgressInv, RunInv, PlanInv, Untouched, TypeOK, Runs, NoRun,
     Issues, Verified, SetStatus, Stop, records, target
<1>15. CASE LoadChanges
  BY <1>15 DEF ProgressInv, RunInv, PlanInv, Untouched, TypeOK, Runs, NoRun,
     Issues, Verified, Disturb, LoadChanges, records
<1>16. CASE RuleChanges
  BY <1>16 DEF ProgressInv, RunInv, PlanInv, Untouched, TypeOK, Runs, NoRun,
     Issues, Verified, Disturb, RuleChanges, records
<1>17. CASE UNCHANGED vars
  BY <1>17 DEF vars, ProgressInv, RunInv, PlanInv, Untouched, TypeOK, Runs, NoRun, Issues, Verified
<1> QED
  BY <1>1, <1>2, <1>3, <1>4, <1>5, <1>6, <1>7, <1>8, <1>9, <1>10, <1>11, <1>12, <1>13, <1>14,
     <1>15, <1>16, <1>17 DEF Next

\* A plan outside an execution has nothing, or is finished with its record.
LEMMA PlanInvStep == DbInv /\ [Next]_vars => PlanInv'
<1> SUFFICES ASSUME DbInv, [Next]_vars PROVE PlanInv'
  OBVIOUS
<1> USE DbFixAssumption DEF DbInv
<1>1. ASSUME NEW p \in Plans, PlanRead(p) PROVE PlanInv'
  BY <1>1 DEF PlanInv, Untouched, RunInv, ProgressInv, TypeOK, Runs, NoRun,
     Rows, Verified, Consistent, PlanStatuses, Unread, PlanRead, SetStatus,
     records, target
<1>2. ASSUME NEW p \in Plans, Offer(p) PROVE PlanInv'
  BY <1>2 DEF PlanInv, Untouched, RunInv, ProgressInv, TypeOK, Runs, NoRun,
     Rows, Verified, Consistent, PlanStatuses, Unread, Offer, SetStatus,
     records, target
<1>3. ASSUME NEW p \in Plans, PlanFails(p) PROVE PlanInv'
  BY <1>3 DEF PlanInv, Untouched, RunInv, ProgressInv, TypeOK, Runs, NoRun,
     Rows, Verified, Consistent, PlanStatuses, Unread, PlanFails, SetStatus,
     records, target
<1>4. ASSUME NEW p \in Plans, Decide(p) PROVE PlanInv'
  BY <1>4 DEF PlanInv, Untouched, RunInv, ProgressInv, TypeOK, Runs, NoRun,
     Rows, Verified, Consistent, PlanStatuses, Unread, Decide, SetStatus,
     records, target
<1>5. ASSUME NEW p \in Plans, Begin(p) PROVE PlanInv'
  BY <1>5 DEF PlanInv, Untouched, RunInv, ProgressInv, TypeOK, Runs, NoRun,
     Rows, Verified, Consistent, PlanStatuses, Unread, Begin, records, target
<1>6. CASE ReadHealth
  BY <1>6 DEF PlanInv, Untouched, RunInv, ProgressInv, TypeOK, Runs, NoRun,
     Rows, Verified, Consistent, PlanStatuses, Unread, ReadHealth, records,
     target
<1>7. CASE GeneratePlan
  BY <1>7 DEF PlanInv, Untouched, RunInv, ProgressInv, TypeOK, Runs, NoRun,
     Rows, Verified, Consistent, PlanStatuses, Unread, GeneratePlan, records,
     target
<1>8. CASE Repair
  BY <1>8 DEF PlanInv, Untouched, RunInv, ProgressInv, TypeOK, Runs, NoRun,
     Rows, Verified, Consistent, PlanStatuses, Unread, Repair, RepairNext,
     Repaired
<1>9. CASE RepairUnconfirmed
  BY <1>9 DEF PlanInv, Untouched, RunInv, ProgressInv, TypeOK, Runs, NoRun,
     Rows, Verified, Consistent, PlanStatuses, Unread, RepairNext,
     RepairUnconfirmed, Repaired, SetStatus
<1>10. CASE Verify
  BY <1>10 DEF PlanInv, Untouched, RunInv, ProgressInv, TypeOK, Runs, NoRun,
     Rows, Verified, Consistent, PlanStatuses, Unread, Verify, records, target
<1>11. CASE Save
  BY <1>11 DEF PlanInv, Untouched, RunInv, ProgressInv, TypeOK, Runs, NoRun,
     Rows, Verified, Consistent, PlanStatuses, Unread, Save, target
<1>12. CASE Notify
  BY <1>12 DEF PlanInv, Untouched, RunInv, ProgressInv, TypeOK, Runs, NoRun,
     Rows, Verified, Consistent, PlanStatuses, Unread, Notify, target
<1>13. CASE Report
  BY <1>13 DEF PlanInv, Untouched, RunInv, ProgressInv, TypeOK, Runs, NoRun,
     Rows, Verified, Consistent, PlanStatuses, Unread, Report, SetStatus,
     target
<1>14. CASE Stop
  BY <1>14 DEF PlanInv, Untouched, RunInv, ProgressInv, TypeOK, Runs, NoRun,
     Rows, Verified, Consistent, PlanStatuses, Unread, SetStatus, Stop,
     records, target
<1>15. CASE LoadChanges
  BY <1>15 DEF PlanInv, Untouched, RunInv, ProgressInv, TypeOK, Runs, NoRun,
     Rows, Verified, Consistent, PlanStatuses, Unread, Disturb, LoadChanges,
     records
<1>16. CASE RuleChanges
  BY <1>16 DEF PlanInv, Untouched, RunInv, ProgressInv, TypeOK, Runs, NoRun,
     Rows, Verified, Consistent, PlanStatuses, Unread, Disturb, RuleChanges,
     records
<1>17. CASE UNCHANGED vars
  BY <1>17 DEF vars, PlanInv, Untouched, RunInv, ProgressInv, TypeOK, Runs, NoRun, Rows, Verified,
     Consistent, PlanStatuses, Unread
<1> QED
  BY <1>1, <1>2, <1>3, <1>4, <1>5, <1>6, <1>7, <1>8, <1>9, <1>10, <1>11, <1>12, <1>13, <1>14,
     <1>15, <1>16, <1>17 DEF Next

\* A repaired issue stays repaired until others bring it back.
LEMMA RelapseInvStep == DbInv /\ [Next]_vars => RelapseInv'
<1> SUFFICES ASSUME DbInv, [Next]_vars PROVE RelapseInv'
  OBVIOUS
<1> USE DbFixAssumption DEF DbInv
<1>1. ASSUME NEW p \in Plans, PlanRead(p) PROVE RelapseInv'
  BY <1>1 DEF RelapseInv, RepeatedRepairsFollowRelapses, RunInv, ProgressInv,
     TypeOK, Runs, Rows, NoRun, Consistent, Issues, PlanRead, SetStatus,
     records, target
<1>2. ASSUME NEW p \in Plans, Offer(p) PROVE RelapseInv'
  BY <1>2 DEF RelapseInv, RepeatedRepairsFollowRelapses, RunInv, ProgressInv,
     TypeOK, Runs, Rows, NoRun, Consistent, Issues, Offer, SetStatus, records,
     target
<1>3. ASSUME NEW p \in Plans, PlanFails(p) PROVE RelapseInv'
  BY <1>3 DEF RelapseInv, RepeatedRepairsFollowRelapses, RunInv, ProgressInv,
     TypeOK, Runs, Rows, NoRun, Consistent, Issues, PlanFails, SetStatus,
     records, target
<1>4. ASSUME NEW p \in Plans, Decide(p) PROVE RelapseInv'
  BY <1>4 DEF RelapseInv, RepeatedRepairsFollowRelapses, RunInv, ProgressInv,
     TypeOK, Runs, Rows, NoRun, Consistent, Issues, Decide, SetStatus, records,
     target
<1>5. ASSUME NEW p \in Plans, Begin(p) PROVE RelapseInv'
  BY <1>5 DEF RelapseInv, RepeatedRepairsFollowRelapses, RunInv, ProgressInv,
     TypeOK, Runs, Rows, NoRun, Consistent, Issues, Begin, records, target
<1>6. CASE ReadHealth
  BY <1>6 DEF RelapseInv, RepeatedRepairsFollowRelapses, RunInv, ProgressInv,
     TypeOK, Runs, Rows, NoRun, Consistent, Issues, ReadHealth, records, target
<1>7. CASE GeneratePlan
  BY <1>7 DEF RelapseInv, RepeatedRepairsFollowRelapses, RunInv, ProgressInv,
     TypeOK, Runs, Rows, NoRun, Consistent, Issues, GeneratePlan, records,
     target
<1>8. CASE Repair
  BY <1>8 DEF RelapseInv, RepeatedRepairsFollowRelapses, RunInv, ProgressInv,
     TypeOK, Runs, Rows, NoRun, Consistent, Issues, Repair, RepairNext,
     Repaired
<1>9. CASE RepairUnconfirmed
  BY <1>9 DEF RelapseInv, RepeatedRepairsFollowRelapses, RunInv, ProgressInv,
     TypeOK, Runs, Rows, NoRun, Consistent, Issues, RepairNext,
     RepairUnconfirmed, Repaired, SetStatus
<1>10. CASE Verify
  BY <1>10 DEF RelapseInv, RepeatedRepairsFollowRelapses, RunInv, ProgressInv,
     TypeOK, Runs, Rows, NoRun, Consistent, Issues, Verify, records, target
<1>11. CASE Save
  BY <1>11 DEF RelapseInv, RepeatedRepairsFollowRelapses, RunInv, ProgressInv,
     TypeOK, Runs, Rows, NoRun, Consistent, Issues, Save, target
<1>12. CASE Notify
  BY <1>12 DEF RelapseInv, RepeatedRepairsFollowRelapses, RunInv, ProgressInv,
     TypeOK, Runs, Rows, NoRun, Consistent, Issues, Notify, target
<1>13. CASE Report
  BY <1>13 DEF RelapseInv, RepeatedRepairsFollowRelapses, RunInv, ProgressInv,
     TypeOK, Runs, Rows, NoRun, Consistent, Issues, Report, SetStatus, target
<1>14. CASE Stop
  BY <1>14 DEF RelapseInv, RepeatedRepairsFollowRelapses, RunInv, ProgressInv,
     TypeOK, Runs, Rows, NoRun, Consistent, Issues, SetStatus, Stop, records,
     target
<1>15. CASE LoadChanges
  BY <1>15 DEF RelapseInv, RepeatedRepairsFollowRelapses, RunInv, ProgressInv,
     TypeOK, Runs, Rows, NoRun, Consistent, Issues, Disturb, LoadChanges,
     records
<1>16. CASE RuleChanges
  BY <1>16 DEF RelapseInv, RepeatedRepairsFollowRelapses, RunInv, ProgressInv,
     TypeOK, Runs, Rows, NoRun, Consistent, Issues, Disturb, RuleChanges,
     records
<1>17. CASE UNCHANGED vars
  BY <1>17 DEF vars, RelapseInv, RepeatedRepairsFollowRelapses, RunInv, ProgressInv, TypeOK, Runs,
     Rows, NoRun, Consistent, Issues
<1> QED
  BY <1>1, <1>2, <1>3, <1>4, <1>5, <1>6, <1>7, <1>8, <1>9, <1>10, <1>11, <1>12, <1>13, <1>14,
     <1>15, <1>16, <1>17 DEF Next

\* Undisturbed, each UPDATE brings the row one issue nearer to healthy.
LEMMA UndisturbedInvStep == DbInv /\ [Next]_vars => UndisturbedInv'
<1> SUFFICES ASSUME DbInv, [Next]_vars PROVE UndisturbedInv'
  OBVIOUS
<1> USE DbFixAssumption DEF DbInv
<1>1. ASSUME NEW p \in Plans, PlanRead(p) PROVE UndisturbedInv'
  BY <1>1 DEF UndisturbedInv, RunInv, TypeOK, Runs, Rows, NoRun, Verified,
     PlanRead, SetStatus, records, target
<1>2. ASSUME NEW p \in Plans, Offer(p) PROVE UndisturbedInv'
  BY <1>2 DEF UndisturbedInv, RunInv, TypeOK, Runs, Rows, NoRun, Verified,
     Offer, SetStatus, records, target
<1>3. ASSUME NEW p \in Plans, PlanFails(p) PROVE UndisturbedInv'
  BY <1>3 DEF UndisturbedInv, RunInv, TypeOK, Runs, Rows, NoRun, Verified,
     PlanFails, SetStatus, records, target
<1>4. ASSUME NEW p \in Plans, Decide(p) PROVE UndisturbedInv'
  BY <1>4 DEF UndisturbedInv, RunInv, TypeOK, Runs, Rows, NoRun, Verified,
     Decide, SetStatus, records, target
<1>5. ASSUME NEW p \in Plans, Begin(p) PROVE UndisturbedInv'
  BY <1>5 DEF UndisturbedInv, RunInv, TypeOK, Runs, Rows, NoRun, Verified,
     Begin, records, target
<1>6. CASE ReadHealth
  BY <1>6 DEF UndisturbedInv, RunInv, TypeOK, Runs, Rows, NoRun, Verified,
     ReadHealth, records, target
<1>7. CASE GeneratePlan
  BY <1>7 DEF UndisturbedInv, RunInv, TypeOK, Runs, Rows, NoRun, Verified,
     GeneratePlan, records, target
<1>8. CASE Repair
  BY <1>8 DEF UndisturbedInv, RunInv, TypeOK, Runs, Rows, NoRun, Verified,
     Repair, RepairNext, Repaired
<1>9. CASE RepairUnconfirmed
  BY <1>9 DEF UndisturbedInv, RunInv, TypeOK, Runs, Rows, NoRun, Verified,
     RepairNext, RepairUnconfirmed, Repaired, SetStatus
<1>10. CASE Verify
  BY <1>10 DEF UndisturbedInv, RunInv, TypeOK, Runs, Rows, NoRun, Verified,
     Verify, records, target
<1>11. CASE Save
  BY <1>11 DEF UndisturbedInv, RunInv, TypeOK, Runs, Rows, NoRun, Verified,
     Save, target
<1>12. CASE Notify
  BY <1>12 DEF UndisturbedInv, RunInv, TypeOK, Runs, Rows, NoRun, Verified,
     Notify, target
<1>13. CASE Report
  BY <1>13 DEF UndisturbedInv, RunInv, TypeOK, Runs, Rows, NoRun, Verified,
     Report, SetStatus, target
<1>14. CASE Stop
  BY <1>14 DEF UndisturbedInv, RunInv, TypeOK, Runs, Rows, NoRun, Verified,
     SetStatus, Stop, records, target
<1>15. CASE LoadChanges
  BY <1>15 DEF UndisturbedInv, RunInv, TypeOK, Runs, Rows, NoRun, Verified,
     Disturb, LoadChanges, records
<1>16. CASE RuleChanges
  BY <1>16 DEF UndisturbedInv, RunInv, TypeOK, Runs, Rows, NoRun, Verified,
     Disturb, RuleChanges, records
<1>17. CASE UNCHANGED vars
  BY <1>17 DEF vars, UndisturbedInv, RunInv, TypeOK, Runs, Rows, NoRun, Verified
<1> QED
  BY <1>1, <1>2, <1>3, <1>4, <1>5, <1>6, <1>7, <1>8, <1>9, <1>10, <1>11, <1>12, <1>13, <1>14,
     <1>15, <1>16, <1>17 DEF Next

\* The verification reads what the last UPDATE has left.
LEMMA CompleteRepairVerifiesStep == DbInv /\ [Next]_vars => CompleteRepairVerifies'
<1> SUFFICES ASSUME DbInv, [Next]_vars PROVE CompleteRepairVerifies'
  OBVIOUS
<1> USE DbFixAssumption DEF DbInv
<1>1. ASSUME NEW p \in Plans, PlanRead(p) PROVE CompleteRepairVerifies'
  BY <1>1 DEF CompleteRepairVerifies, UndisturbedInv, RunInv, TypeOK, Runs,
     NoRun, Verified, PlanRead, SetStatus, records, target
<1>2. ASSUME NEW p \in Plans, Offer(p) PROVE CompleteRepairVerifies'
  BY <1>2 DEF CompleteRepairVerifies, UndisturbedInv, RunInv, TypeOK, Runs,
     NoRun, Verified, Offer, SetStatus, records, target
<1>3. ASSUME NEW p \in Plans, PlanFails(p) PROVE CompleteRepairVerifies'
  BY <1>3 DEF CompleteRepairVerifies, UndisturbedInv, RunInv, TypeOK, Runs,
     NoRun, Verified, PlanFails, SetStatus, records, target
<1>4. ASSUME NEW p \in Plans, Decide(p) PROVE CompleteRepairVerifies'
  BY <1>4 DEF CompleteRepairVerifies, UndisturbedInv, RunInv, TypeOK, Runs,
     NoRun, Verified, Decide, SetStatus, records, target
<1>5. ASSUME NEW p \in Plans, Begin(p) PROVE CompleteRepairVerifies'
  BY <1>5 DEF CompleteRepairVerifies, UndisturbedInv, RunInv, TypeOK, Runs,
     NoRun, Verified, Begin, records, target
<1>6. CASE ReadHealth
  BY <1>6 DEF CompleteRepairVerifies, UndisturbedInv, RunInv, TypeOK, Runs,
     NoRun, Verified, ReadHealth, records, target
<1>7. CASE GeneratePlan
  BY <1>7 DEF CompleteRepairVerifies, UndisturbedInv, RunInv, TypeOK, Runs,
     NoRun, Verified, GeneratePlan, records, target
<1>8. CASE Repair
  BY <1>8 DEF CompleteRepairVerifies, UndisturbedInv, RunInv, TypeOK, Runs,
     NoRun, Verified, Repair, RepairNext, Repaired
<1>9. CASE RepairUnconfirmed
  BY <1>9 DEF CompleteRepairVerifies, UndisturbedInv, RunInv, TypeOK, Runs,
     NoRun, Verified, RepairNext, RepairUnconfirmed, Repaired, SetStatus
<1>10. CASE Verify
  BY <1>10 DEF CompleteRepairVerifies, UndisturbedInv, RunInv, TypeOK, Runs,
     NoRun, Verified, Verify, records, target
<1>11. CASE Save
  BY <1>11 DEF CompleteRepairVerifies, UndisturbedInv, RunInv, TypeOK, Runs,
     NoRun, Verified, Save, target
<1>12. CASE Notify
  BY <1>12 DEF CompleteRepairVerifies, UndisturbedInv, RunInv, TypeOK, Runs,
     NoRun, Verified, Notify, target
<1>13. CASE Report
  BY <1>13 DEF CompleteRepairVerifies, UndisturbedInv, RunInv, TypeOK, Runs,
     NoRun, Verified, Report, SetStatus, target
<1>14. CASE Stop
  BY <1>14 DEF CompleteRepairVerifies, UndisturbedInv, RunInv, TypeOK, Runs,
     NoRun, Verified, SetStatus, Stop, records, target
<1>15. CASE LoadChanges
  BY <1>15 DEF CompleteRepairVerifies, UndisturbedInv, RunInv, TypeOK, Runs,
     NoRun, Verified, Disturb, LoadChanges, records
<1>16. CASE RuleChanges
  BY <1>16 DEF CompleteRepairVerifies, UndisturbedInv, RunInv, TypeOK, Runs,
     NoRun, Verified, Disturb, RuleChanges, records
<1>17. CASE UNCHANGED vars
  BY <1>17 DEF vars, CompleteRepairVerifies, UndisturbedInv, RunInv, TypeOK, Runs, NoRun, Verified
<1> QED
  BY <1>1, <1>2, <1>3, <1>4, <1>5, <1>6, <1>7, <1>8, <1>9, <1>10, <1>11, <1>12, <1>13, <1>14,
     <1>15, <1>16, <1>17 DEF Next



\* Before anything is planned nothing is offered, changed or recorded.
LEMMA DbInvInit == Init => DbInv
<1> SUFFICES ASSUME Init PROVE DbInv
  OBVIOUS
<1> USE DbFixAssumption DEF Init, NoRun, Unread
<1>1. TypeOK
  BY DEF TypeOK, Runs, Rows, PlanStatuses
<1>2. RunInv
  BY DEF RunInv, Consistent
<1>3. ProgressInv
  BY DEF ProgressInv
<1>4. PlanInv
  BY DEF PlanInv, Untouched, Consistent
<1>5. RelapseInv
  BY DEF RelapseInv, RepeatedRepairsFollowRelapses
<1>6. UndisturbedInv /\ CompleteRepairVerifies
  BY DEF UndisturbedInv, CompleteRepairVerifies
<1> QED
  BY <1>1, <1>2, <1>3, <1>4, <1>5, <1>6 DEF DbInv

\* The invariant of the two runs of the agent and of the database they share.
THEOREM DbInvariant == Spec => []DbInv
<1>1. DbInv /\ [Next]_vars => DbInv'
  BY TypeOKStep, RunInvStep, ProgressInvStep, PlanInvStep, RelapseInvStep,
     UndisturbedInvStep, CompleteRepairVerifiesStep DEF DbInv
<1> QED
  BY DbInvInit, <1>1, PTL DEF Spec

\* Every variable keeps its type.
THEOREM DbTypeCorrect == Spec => []TypeOK
<1>1. DbInv => TypeOK
  BY DEF DbInv
<1> QED
  BY DbInvariant, <1>1, PTL

\* An incident that was set to resolved had no metric over its threshold when
\* its repair was verified, if the pool is larger than its repair leaves it.
THEOREM ResolvedMeansRepairedHolds == Spec => []ResolvedMeansRepaired
<1>1. DbInv => ResolvedMeansRepaired
  <2> SUFFICES ASSUME DbInv, PoolFits, NEW p \in resolved
               PROVE  /\ status[p] = "SUCCESS" => result[p].bad = {}
                      /\ run.plan = p => run.verified.bad = {}
    BY DEF ResolvedMeansRepaired
  <2>1. p \in Plans
    BY DEF DbInv, TypeOK
  <2>2. status[p] = "SUCCESS" => result[p].bad = {}
    BY <2>1 DEF DbInv, PlanInv, Verified, Consistent
  <2>3. run.plan = p => run.verified.bad = {}
    BY <2>1, DbFixAssumption DEF DbInv, RunInv, ProgressInv, Verified, Consistent
  <2> QED
    BY <2>2, <2>3
<1> QED
  BY DbInvariant, <1>1, PTL

\* Two plans repair one issue only if it came back in between.
THEOREM RepeatedRepairsFollowRelapsesHolds == Spec => []RepeatedRepairsFollowRelapses
<1>1. DbInv => RepeatedRepairsFollowRelapses
  BY DEF DbInv, RelapseInv, RepeatedRepairsFollowRelapses
<1> QED
  BY DbInvariant, <1>1, PTL

\* The audit has no row without its change, and an executed plan has every row.
THEOREM AuditIsTrueHolds == Spec => []AuditIsTrue
<1>1. DbInv => AuditIsTrue
  BY DEF DbInv, PlanInv, AuditIsTrue
<1> QED
  BY DbInvariant, <1>1, PTL

\* A complete and undisturbed repair is verified, however many issues it had.
THEOREM CompleteRepairVerifiesHolds == Spec => []CompleteRepairVerifies
<1>1. DbInv => CompleteRepairVerifies
  BY DEF DbInv
<1> QED
  BY DbInvariant, <1>1, PTL

-----------------------------------------------------------------------------
(* The contract about plans.                                                 *)

\* A step that sets the status of one plan, of a run that ends or of none,
\* leaves the other plans where they are.
LEMMA OthersStay ==
  ASSUME DbInv, NEW p \in Plans, NEW s, SetStatus(p, s), run' = run \/ (run.plan = p /\ run' = NoRun)
  PROVE  /\ status'[p] = s
         /\ \A q \in Plans \ {p} : PhaseOf(q)' = PhaseOf(q)
<1>1. status'[p] = s /\ \A q \in Plans \ {p} : status'[q] = status[q]
  BY DEF SetStatus, DbInv, TypeOK
<1>2. \A q \in Plans \ {p} : run'.plan = q <=> run.plan = q
  BY DbFixAssumption DEF NoRun
<1> QED
  BY <1>1, <1>2 DEF PhaseOf

\* Before a plan is decided, or when a human decides.
LEMMA DecisionMoves ==
  ASSUME DbInv, NEW p \in Plans, PlanRead(p) \/ Offer(p) \/ PlanFails(p) \/ Decide(p)
  PROVE  [RC!ContractNext]_([q \in Plans |-> PhaseOf(q)])
<1>1. PICK s : SetStatus(p, s) /\ run' = run
  BY DEF PlanRead, Offer, PlanFails, Decide
<1>2. status'[p] = s /\ \A q \in Plans \ {p} : PhaseOf(q)' = PhaseOf(q)
  BY <1>1, OthersStay
<1>3. run.plan # p \/ status[p] = "APPROVED"
  BY DbFixAssumption DEF DbInv, RunInv
<1>4. CASE PlanRead(p) \/ PlanFails(p)
  <2>1. PhaseOf(p) = "none" /\ PhaseOf(p)' = "none"
    BY <1>4 DEF PlanRead, PlanFails, SetStatus, PhaseOf, DbInv, TypeOK
  <2> QED
    BY <1>2, <2>1
<1>5. CASE Offer(p)
  <2>1. PhaseOf(p) = "none" /\ PhaseOf(p)' = "proposed"
    BY <1>5 DEF Offer, SetStatus, PhaseOf, DbInv, TypeOK
  <2> QED
    BY <1>2, <2>1 DEF RC!ContractNext, RC!Propose, RC!Move
<1>6. CASE Decide(p)
  <2>1. PhaseOf(p) = "proposed" /\ PhaseOf(p)' \in {"approved", "rejected"}
    BY <1>1, <1>3, <1>6 DEF Decide, SetStatus, PhaseOf, DbInv, TypeOK
  <2> QED
    BY <1>2, <2>1 DEF RC!ContractNext, RC!Decide, RC!Move
<1> QED
  BY <1>4, <1>5, <1>6

\* An execution ends, in whatever way.
LEMMA RunEnds ==
  ASSUME DbInv, run.at # "idle", NEW s \in {"SUCCESS", "EXECUTION_FAILED"},
         SetStatus(run.plan, s), run' = NoRun
  PROVE  RC!ContractNext
<1>1. PICK p \in Plans : p = run.plan
  BY DEF DbInv, TypeOK, RunInv, Runs
<1>2. status'[p] = s /\ \A q \in Plans \ {p} : PhaseOf(q)' = PhaseOf(q)
  BY <1>1, OthersStay
<1>3. PhaseOf(p) = "running" /\ PhaseOf(p)' = "settled"
  BY <1>1, <1>2 DEF PhaseOf, DbInv, RunInv
<1> QED
  BY <1>2, <1>3 DEF RC!ContractNext, RC!Settle, RC!Move

\* What every step does to the phases of the plans.
LEMMA ContractStep == DbInv /\ [Next]_vars => [RC!ContractNext]_([p \in Plans |-> PhaseOf(p)])
<1> SUFFICES ASSUME DbInv, [Next]_vars PROVE [RC!ContractNext]_([p \in Plans |-> PhaseOf(p)])
  OBVIOUS
<1>0. ASSUME UNCHANGED status, run'.plan = run.plan  PROVE UNCHANGED [p \in Plans |-> PhaseOf(p)]
  BY <1>0 DEF PhaseOf
<1>1. CASE \/ ReadHealth \/ GeneratePlan \/ Repair \/ Verify \/ Save \/ Notify
           \/ LoadChanges \/ RuleChanges \/ UNCHANGED vars
  <2>1. UNCHANGED status /\ run'.plan = run.plan
    BY <1>1 DEF ReadHealth, GeneratePlan, Repair, Verify, Save, Notify, LoadChanges, RuleChanges,
       Disturb, vars, DbInv, TypeOK, Runs
  <2> QED
    BY <1>0, <2>1
<1>2. CASE \E p \in Plans : PlanRead(p) \/ Offer(p) \/ PlanFails(p) \/ Decide(p)
  BY <1>2, DecisionMoves
<1>3. ASSUME NEW p \in Plans, Begin(p)  PROVE RC!ContractNext
  <2>1. run.plan = NoPlan /\ run'.plan = p /\ UNCHANGED status /\ status[p] = "APPROVED"
    BY <1>3 DEF Begin, NoRun, DbInv, RunInv
  <2>2. PhaseOf(p) = "approved" /\ PhaseOf(p)' = "running"
    BY <2>1, DbFixAssumption DEF PhaseOf
  <2>3. \A q \in Plans \ {p} : PhaseOf(q)' = PhaseOf(q)
    BY <2>1, DbFixAssumption DEF PhaseOf
  <2> QED
    BY <2>2, <2>3 DEF RC!ContractNext, RC!Run, RC!Move
<1>4. CASE RepairUnconfirmed \/ Report \/ Stop
  BY <1>4, RunEnds DEF RepairUnconfirmed, RepairNext, Report, Stop
<1> QED
  BY <1>1, <1>2, <1>3, <1>4 DEF Next

\* Whatever raises, stops or changes meanwhile, a plan of the database agent
\* passes once through the contract that JobWorker implements.
THEOREM ImplementsContractHolds == Spec => ImplementsContract
<1>1. Init => RC!ContractInit
  BY DEF Init, RC!ContractInit, PhaseOf
<1> QED
  BY <1>1, ContractStep, DbInvariant, PTL DEF Spec, ImplementsContract, RC!Contract

\* Changes, audit rows and resolutions are made for the running plan only.
THEOREM EffectsWhileRunningHolds == Spec => EffectsWhileRunning
<1> DEFINE Effects ==
      \A p \in Plans :
        (\/ \E i \in Issues : <<p, i>> \in (changed' \ changed) \cup (history' \ history)
         \/ p \in resolved' \ resolved) => PhaseOf(p) = "running"
<1>1. ASSUME DbInv, [Next]_vars  PROVE [Effects]_vars
  <2>1. CASE UNCHANGED <<changed, history, resolved>>
    BY <2>1
  <2>2. ASSUME run.at # "idle"  PROVE run.plan \in Plans /\ PhaseOf(run.plan) = "running"
    BY <1>1, <2>2 DEF DbInv, TypeOK, RunInv, Runs, PhaseOf
  <2>3. CASE Repair \/ RepairUnconfirmed
    <3>1. PICK i \in Issues : RepairNext(i)
      BY <2>3 DEF Repair, RepairUnconfirmed
    <3> QED
      BY <2>2, <3>1 DEF RepairNext
  <2>4. CASE Save
    BY <2>2, <2>4 DEF Save, target
  <2>5. CASE Notify
    <3>1. resolved' \subseteq resolved \cup {run.plan} /\ UNCHANGED <<changed, history>>
      BY <2>5 DEF Notify
    <3> QED
      BY <2>2, <2>5, <3>1 DEF Notify
  <2>6. CASE \/ ReadHealth \/ GeneratePlan \/ Verify \/ Report \/ Stop \/ LoadChanges \/ RuleChanges
             \/ UNCHANGED vars
             \/ \E p \in Plans : PlanRead(p) \/ Offer(p) \/ PlanFails(p) \/ Decide(p) \/ Begin(p)
    BY <2>1, <2>6 DEF ReadHealth, GeneratePlan, Verify, Report, Stop, LoadChanges, RuleChanges,
       Disturb,
       PlanRead, Offer, PlanFails, Decide, Begin, records, vars
  <2> QED
    BY <1>1, <2>3, <2>4, <2>5, <2>6 DEF Next
<1> QED
  BY <1>1, DbInvariant, PTL DEF Spec, EffectsWhileRunning
=============================================================================
