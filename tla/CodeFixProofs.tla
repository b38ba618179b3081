--------------------------- MODULE CodeFixProofs ----------------------------
(***************************************************************************)
(* Proofs about CodeFix: FixInv is inductive, for any number of plans,     *)
(* branches and files, any failing commands and any number of crashes.     *)
(***************************************************************************)
EXTENDS CodeFix, TLAPS

\* Before the clone nothing is stored anywhere.
LEMMA InitEstablishesFixInv == Init => FixInv
  <1> SUFFICES ASSUME Init PROVE FixInv
    OBVIOUS
  <1>1. TypeOK
    BY CodeFixAssumption DEF Init, TypeOK, Branches, Edits, Points, Statuses
  <1>2. \A e : ~Stored(e)
    BY DEF Init, Stored
  <1>3. RunInv /\ PatchIsOwn
    BY DEF Init, RunInv, PatchIsOwn, IncidentPoints, OnBranchPoints, Points
  <1>4. BasesFollowOrigin
    BY DEF Init, BasesFollowOrigin, Branches
  <1> QED
    BY <1>1, <1>2, <1>3, <1>4 DEF FixInv

-----------------------------------------------------------------------------
\* A patch that both scope checks accept holds only edits of the buggy file, and
\* they are the agent's own unless the dirty gate was blind.
LEMMA PatchIsAccepted ==
  ASSUME FixInv, pc = "patching", NEW report \in SUBSET Files, ScopeOk(report)
  PROVE  \A e \in work : Accepted(e)
  <1> SUFFICES ASSUME NEW e \in work PROVE Accepted(e)
    OBVIOUS
  <1>1. cur \in Plans /\ status[cur] \in Ran
    BY DEF FixInv, RunInv, Points, IncidentPoints, Ran
  <1>2. cur = e.by \/ "diff" \in failed
    BY DEF FixInv, PatchIsOwn
  <1>3. Normal[e.file] \in AllowedFixFiles(cur)
    BY DEF ScopeOk, FilesOf
  <1> QED
    BY <1>1, <1>2, <1>3 DEF Accepted

\* Types, by cases on the step.
LEMMA TypeStep == TypeOK /\ RunInv /\ [Next]_vars => TypeOK'
  <1> SUFFICES ASSUME TypeOK, RunInv, [Next]_vars PROVE TypeOK'
    OBVIOUS
  <1> USE CodeFixAssumption DEF TypeOK, RunInv, Branches, Points, Statuses
  <1>1. CASE PullBase
    BY <1>1 DEF PullBase, At, Goto, EndAs, remoteVars, Edits
  <1>2. CASE Propose
    BY <1>2 DEF Propose, At, EndAs, gitVars, remoteVars, Edits
  <1>3. CASE ProposeNothing
    BY <1>3 DEF ProposeNothing, At, EndAs, gitVars, remoteVars, Edits
  <1>4. CASE PrepareBranch
    BY <1>4 DEF PrepareBranch, At, Goto, runVars, remoteVars, Edits
  <1>5. CASE PrepareBranchFails
    BY <1>5 DEF PrepareBranchFails, At, Fails, EndAs, gitVars, remoteVars, Edits
  <1>6. CASE DirtyGate
    BY <1>6 DEF DirtyGate, At, Goto, EndAs, gitVars, remoteVars, Edits
  <1>7. CASE AgentWrites
    BY <1>7 DEF AgentWrites, At, runVars, remoteVars, Edits
  <1>8. CASE AcceptPatch
    BY <1>8 DEF AcceptPatch, At, Goto, runVars, gitVars, remoteVars, Edits
  <1>9. CASE BlockPatch
    BY <1>9 DEF BlockPatch, At, EndAs, remoteVars, Edits
  <1>10. CASE StageAll
    BY <1>10 DEF StageAll, At, Goto, runVars, remoteVars, Edits
  <1>11. CASE StageFails
    BY <1>11 DEF StageFails, At, Fails, Goto, EndAs, gitVars, remoteVars, Edits
  <1>12. CASE Commit
    BY <1>12 DEF Commit, At, Goto, runVars, remoteVars, Edits
  <1>13. CASE CommitFails
    BY <1>13 DEF CommitFails, At, Fails, EndAs, gitVars, remoteVars, Edits
  <1>14. CASE Push
    BY <1>14 DEF Push, At, Goto, EndAs, gitVars, Edits
  <1>15. CASE PushFails
    BY <1>15 DEF PushFails, At, Fails, EndAs, gitVars, remoteVars, Edits
  <1>16. CASE OpenPr
    BY <1>16 DEF OpenPr, At, EndAs, gitVars, Edits
  <1>17. CASE OpenPrFails
    BY <1>17 DEF OpenPrFails, At, Fails, EndAs, gitVars, remoteVars, Edits
  <1>18. CASE Crash
    BY <1>18 DEF Crash, EndAs, gitVars, remoteVars, Edits
  <1>19. CASE \E i \in Plans : SwitchToBase(i)
    BY <1>19 DEF SwitchToBase, At, CanMoveTo, remoteVars, Edits
  <1>20. CASE \E p \in Plans : Approve(p)
    BY <1>20 DEF Approve, gitVars, remoteVars, Edits
  <1>21. CASE \E p \in Plans : Execute(p)
    BY <1>21 DEF Execute, At, gitVars, remoteVars, Edits
  <1>22. CASE \E p \in Plans : MergePr(p)
    BY <1>22 DEF MergePr, runVars, gitVars, Edits
  <1>23. CASE \E b \in Bases : OthersPush(b)
    BY <1>23 DEF OthersPush, runVars, gitVars, Edits
  <1>24. CASE UNCHANGED vars
    BY <1>24 DEF vars, Edits
  <1>25. CASE DirtyGateBlind
    BY <1>25 DEF DirtyGateBlind, At, Fails, Goto, runVars, gitVars, remoteVars, Edits
  <1>26. CASE RestoreFails
    BY <1>26 DEF RestoreFails, At, Fails, EndAs, gitVars, remoteVars, Edits
  <1> QED
    BY <1>1, <1>2, <1>3, <1>4, <1>5, <1>6, <1>7, <1>8, <1>9, <1>10, <1>11, <1>12, <1>13, <1>14,
       <1>15, <1>16, <1>17, <1>18, <1>19, <1>20, <1>21, <1>22, <1>23, <1>24, <1>25, <1>26 DEF Next

\* A plan that was started stays started, with the target it has; what has
\* failed stays known.
LEMMA RanStep ==
  ASSUME FixInv, [Next]_vars, NEW p \in Plans
  PROVE  /\ status[p] \in Ran => status'[p] \in Ran /\ target'[p] = target[p]
         /\ status[p] = "EXECUTION_FAILED" => status'[p] = "EXECUTION_FAILED"
         /\ failed \subseteq failed'
         /\ crashes > 0 => crashes' > 0
  <1> USE CodeFixAssumption DEF FixInv, TypeOK, RunInv, IncidentPoints, Points, Ran
  <1>1. CASE PullBase
    BY <1>1 DEF PullBase, At, Goto, EndAs, remoteVars
  <1>2. CASE Propose
    BY <1>2 DEF Propose, At, EndAs, gitVars, remoteVars
  <1>3. CASE ProposeNothing
    BY <1>3 DEF ProposeNothing, At, EndAs, gitVars, remoteVars
  <1>4. CASE PrepareBranch
    BY <1>4 DEF PrepareBranch, At, Goto, runVars, remoteVars
  <1>5. CASE PrepareBranchFails
    BY <1>5 DEF PrepareBranchFails, At, Fails, EndAs, gitVars, remoteVars
  <1>6. CASE DirtyGate
    BY <1>6 DEF DirtyGate, At, Goto, EndAs, gitVars, remoteVars
  <1>7. CASE AgentWrites
    BY <1>7 DEF AgentWrites, At, runVars, remoteVars
  <1>8. CASE AcceptPatch
    BY <1>8 DEF AcceptPatch, At, Goto, runVars, gitVars, remoteVars
  <1>9. CASE BlockPatch
    BY <1>9 DEF BlockPatch, At, EndAs, remoteVars
  <1>10. CASE StageAll
    BY <1>10 DEF StageAll, At, Goto, runVars, remoteVars
  <1>11. CASE StageFails
    BY <1>11 DEF StageFails, At, Fails, Goto, EndAs, gitVars, remoteVars
  <1>12. CASE Commit
    BY <1>12 DEF Commit, At, Goto, runVars, remoteVars
  <1>13. CASE CommitFails
    BY <1>13 DEF CommitFails, At, Fails, EndAs, gitVars, remoteVars
  <1>14. CASE Push
    BY <1>14 DEF Push, At, Goto, EndAs, gitVars
  <1>15. CASE PushFails
    BY <1>15 DEF PushFails, At, Fails, EndAs, gitVars, remoteVars
  <1>16. CASE OpenPr
    BY <1>16 DEF OpenPr, At, EndAs, gitVars
  <1>17. CASE OpenPrFails
    BY <1>17 DEF OpenPrFails, At, Fails, EndAs, gitVars, remoteVars
  <1>18. CASE Crash
    BY <1>18 DEF Crash, EndAs, gitVars, remoteVars
  <1>19. CASE \E i \in Plans : SwitchToBase(i)
    BY <1>19 DEF SwitchToBase, At, CanMoveTo, remoteVars
  <1>20. CASE \E q \in Plans : Approve(q)
    BY <1>20 DEF Approve, gitVars, remoteVars
  <1>21. CASE \E q \in Plans : Execute(q)
    BY <1>21 DEF Execute, At, gitVars, remoteVars
  <1>22. CASE \E q \in Plans : MergePr(q)
    BY <1>22 DEF MergePr, runVars, gitVars
  <1>23. CASE \E b \in Bases : OthersPush(b)
    BY <1>23 DEF OthersPush, runVars, gitVars
  <1>24. CASE UNCHANGED vars
    BY <1>24 DEF vars
  <1>25. CASE DirtyGateBlind
    BY <1>25 DEF DirtyGateBlind, At, Fails, Goto, runVars, gitVars, remoteVars
  <1>26. CASE RestoreFails
    BY <1>26 DEF RestoreFails, At, Fails, EndAs, gitVars, remoteVars
  <1> QED
    BY <1>1, <1>2, <1>3, <1>4, <1>5, <1>6, <1>7, <1>8, <1>9, <1>10, <1>11, <1>12, <1>13, <1>14,
       <1>15, <1>16, <1>17, <1>18, <1>19, <1>20, <1>21, <1>22, <1>23, <1>24, <1>25, <1>26 DEF Next

\* An edit that was accepted stays accepted, one that was left stays left.
LEMMA AcceptedStays ==
  ASSUME FixInv, [Next]_vars, NEW e
  PROVE  /\ Accepted(e) => Accepted(e)'
         /\ LeftStaged(e) => LeftStaged(e)'
  <1>1. ASSUME NEW p \in Plans, status[p] \in Ran
        PROVE  AllowedFixFiles(p)' = AllowedFixFiles(p)
    BY <1>1, RanStep DEF AllowedFixFiles
  <1>2. Accepted(e) => Accepted(e)'
    BY <1>1, RanStep DEF Accepted
  <1>3. ASSUME LeftStaged(e)  PROVE LeftStaged(e)'
    <2>1. PICK p \in Plans : status[p] = "EXECUTION_FAILED" /\ Normal[e.file] \in AllowedFixFiles(p)
      BY <1>3 DEF LeftStaged
    <2>2. Normal[e.file] \in AllowedFixFiles(p)' /\ status'[p] = "EXECUTION_FAILED"
      BY <1>1, <2>1, RanStep DEF Ran
    <2>3. (failed \cap {"cached", "commit"} # {} \/ crashes > 0)'
      BY <1>3, <2>1, RanStep DEF LeftStaged
    <2> QED
      BY <2>2, <2>3 DEF LeftStaged
  <1> QED
    BY <1>2, <1>3

\* What is about to be staged was accepted.
LEMMA CheckedStep ==
  ASSUME FixInv, [Next]_vars
  PROVE  pc' = "staging" => \A e \in work' : Accepted(e)'
  <1> SUFFICES ASSUME pc' = "staging" PROVE \A e \in work' : Accepted(e)'
    OBVIOUS
  <1>1. CASE AcceptPatch
    <2>1. (\A e \in work : Accepted(e)) /\ work' = work
      BY <1>1, PatchIsAccepted DEF AcceptPatch, At, gitVars
    <2> QED
      BY <2>1, AcceptedStays
  <1>2. CASE \/ \E p \in Plans : Approve(p) \/ MergePr(p)
             \/ \E b \in Bases : OthersPush(b)
             \/ UNCHANGED vars
    <2>1. pc = "staging" /\ work' = work
      BY <1>2 DEF Approve, MergePr, OthersPush, gitVars, vars
    <2> QED
      BY <2>1, AcceptedStays DEF FixInv, RunInv
  <1> QED
    BY <1>1, <1>2 DEF Next, SwitchToBase, PullBase, Propose, ProposeNothing, Execute, PrepareBranch,
       PrepareBranchFails, DirtyGate, DirtyGateBlind, AgentWrites, BlockPatch, RestoreFails,
       StageAll,
       StageFails, Commit, CommitFails, Push, PushFails, OpenPr, OpenPrFails, Crash, At, Goto, EndAs

\* What the worker knows at its next point.
LEMMA RunStep == FixInv /\ [Next]_vars => RunInv'
  <1> SUFFICES ASSUME FixInv, [Next]_vars PROVE RunInv'
    OBVIOUS
  <1> USE CodeFixAssumption DEF FixInv, TypeOK, RunInv, Points, IncidentPoints, OnBranchPoints
  <1>0. pc' = "staging" => \A e \in work' : Accepted(e)'
    BY CheckedStep
  <1> USE <1>0
  <1>1. CASE PullBase
    BY <1>1 DEF PullBase, At, Goto, EndAs, remoteVars
  <1>2. CASE Propose
    BY <1>2 DEF Propose, At, EndAs, gitVars, remoteVars
  <1>3. CASE ProposeNothing
    BY <1>3 DEF ProposeNothing, At, EndAs, gitVars, remoteVars
  <1>4. CASE PrepareBranch
    BY <1>4 DEF PrepareBranch, At, Goto, runVars, remoteVars
  <1>5. CASE PrepareBranchFails
    BY <1>5 DEF PrepareBranchFails, At, Fails, EndAs, gitVars, remoteVars
  <1>6. CASE DirtyGate
    BY <1>6 DEF DirtyGate, At, Goto, EndAs, gitVars, remoteVars
  <1>7. CASE AgentWrites
    BY <1>7 DEF AgentWrites, At, runVars, remoteVars
  <1>8. CASE AcceptPatch
    BY <1>8 DEF AcceptPatch, At, Goto, runVars, gitVars, remoteVars
  <1>9. CASE BlockPatch
    BY <1>9 DEF BlockPatch, At, EndAs, remoteVars
  <1>10. CASE StageAll
    BY <1>10 DEF StageAll, At, Goto, runVars, remoteVars
  <1>11. CASE StageFails
    BY <1>11 DEF StageFails, At, Fails, Goto, EndAs, gitVars, remoteVars
  <1>12. CASE Commit
    BY <1>12 DEF Commit, At, Goto, runVars, remoteVars
  <1>13. CASE CommitFails
    BY <1>13 DEF CommitFails, At, Fails, EndAs, gitVars, remoteVars
  <1>14. CASE Push
    BY <1>14 DEF Push, At, Goto, EndAs, gitVars
  <1>15. CASE PushFails
    BY <1>15 DEF PushFails, At, Fails, EndAs, gitVars, remoteVars
  <1>16. CASE OpenPr
    BY <1>16 DEF OpenPr, At, EndAs, gitVars
  <1>17. CASE OpenPrFails
    BY <1>17 DEF OpenPrFails, At, Fails, EndAs, gitVars, remoteVars
  <1>18. CASE Crash
    BY <1>18 DEF Crash, EndAs, gitVars, remoteVars
  <1>19. CASE \E i \in Plans : SwitchToBase(i)
    BY <1>19 DEF SwitchToBase, At, CanMoveTo, remoteVars
  <1>20. CASE \E p \in Plans : Approve(p)
    BY <1>20 DEF Approve, gitVars, remoteVars
  <1>21. CASE \E p \in Plans : Execute(p)
    BY <1>21 DEF Execute, At, gitVars, remoteVars
  <1>22. CASE \E p \in Plans : MergePr(p)
    BY <1>22 DEF MergePr, runVars, gitVars
  <1>23. CASE \E b \in Bases : OthersPush(b)
    BY <1>23 DEF OthersPush, runVars, gitVars
  <1>24. CASE UNCHANGED vars
    BY <1>24 DEF vars
  <1>25. CASE DirtyGateBlind
    BY <1>25 DEF DirtyGateBlind, At, Fails, Goto, runVars, gitVars, remoteVars
  <1>26. CASE RestoreFails
    BY <1>26 DEF RestoreFails, At, Fails, EndAs, gitVars, remoteVars
  <1> QED
    BY <1>1, <1>2, <1>3, <1>4, <1>5, <1>6, <1>7, <1>8, <1>9, <1>10, <1>11, <1>12, <1>13, <1>14,
       <1>15, <1>16, <1>17, <1>18, <1>19, <1>20, <1>21, <1>22, <1>23, <1>24, <1>25, <1>26 DEF Next

\* An agent starts on a work tree without edits and adds its own.
LEMMA OwnStep == FixInv /\ [Next]_vars => PatchIsOwn'
  <1> SUFFICES ASSUME FixInv, [Next]_vars PROVE PatchIsOwn'
    OBVIOUS
  <1> USE DEF FixInv, PatchIsOwn
  <1>1. CASE PullBase
    BY <1>1 DEF PullBase, At, Goto, EndAs, remoteVars
  <1>2. CASE Propose
    BY <1>2 DEF Propose, At, EndAs, gitVars, remoteVars
  <1>3. CASE ProposeNothing
    BY <1>3 DEF ProposeNothing, At, EndAs, gitVars, remoteVars
  <1>4. CASE PrepareBranch
    BY <1>4 DEF PrepareBranch, At, Goto, runVars, remoteVars
  <1>5. CASE PrepareBranchFails
    BY <1>5 DEF PrepareBranchFails, At, Fails, EndAs, gitVars, remoteVars
  <1>6. CASE DirtyGate
    BY <1>6 DEF DirtyGate, At, Goto, EndAs, gitVars, remoteVars
  <1>7. CASE AgentWrites
    BY <1>7 DEF AgentWrites, At, runVars, remoteVars
  <1>8. CASE AcceptPatch
    BY <1>8 DEF AcceptPatch, At, Goto, runVars, gitVars, remoteVars
  <1>9. CASE BlockPatch
    BY <1>9 DEF BlockPatch, At, EndAs, remoteVars
  <1>10. CASE StageAll
    BY <1>10 DEF StageAll, At, Goto, runVars, remoteVars
  <1>11. CASE StageFails
    BY <1>11 DEF StageFails, At, Fails, Goto, EndAs, gitVars, remoteVars
  <1>12. CASE Commit
    BY <1>12 DEF Commit, At, Goto, runVars, remoteVars
  <1>13. CASE CommitFails
    BY <1>13 DEF CommitFails, At, Fails, EndAs, gitVars, remoteVars
  <1>14. CASE Push
    BY <1>14 DEF Push, At, Goto, EndAs, gitVars
  <1>15. CASE PushFails
    BY <1>15 DEF PushFails, At, Fails, EndAs, gitVars, remoteVars
  <1>16. CASE OpenPr
    BY <1>16 DEF OpenPr, At, EndAs, gitVars
  <1>17. CASE OpenPrFails
    BY <1>17 DEF OpenPrFails, At, Fails, EndAs, gitVars, remoteVars
  <1>18. CASE Crash
    BY <1>18 DEF Crash, EndAs, gitVars, remoteVars
  <1>19. CASE \E i \in Plans : SwitchToBase(i)
    BY <1>19 DEF SwitchToBase, At, CanMoveTo, remoteVars
  <1>20. CASE \E p \in Plans : Approve(p)
    BY <1>20 DEF Approve, gitVars, remoteVars
  <1>21. CASE \E p \in Plans : Execute(p)
    BY <1>21 DEF Execute, At, gitVars, remoteVars
  <1>22. CASE \E p \in Plans : MergePr(p)
    BY <1>22 DEF MergePr, runVars, gitVars
  <1>23. CASE \E b \in Bases : OthersPush(b)
    BY <1>23 DEF OthersPush, runVars, gitVars
  <1>24. CASE UNCHANGED vars
    BY <1>24 DEF vars
  <1>25. CASE DirtyGateBlind
    BY <1>25 DEF DirtyGateBlind, At, Fails, Goto, runVars, gitVars, remoteVars
  <1>26. CASE RestoreFails
    BY <1>26 DEF RestoreFails, At, Fails, EndAs, gitVars, remoteVars
  <1> QED
    BY <1>1, <1>2, <1>3, <1>4, <1>5, <1>6, <1>7, <1>8, <1>9, <1>10, <1>11, <1>12, <1>13, <1>14,
       <1>15, <1>16, <1>17, <1>18, <1>19, <1>20, <1>21, <1>22, <1>23, <1>24, <1>25, <1>26 DEF Next

\* The content of a base branch of the checkout comes from the remote.
LEMMA BasesStep == FixInv /\ [Next]_vars => BasesFollowOrigin'
  <1> SUFFICES ASSUME FixInv, [Next]_vars PROVE BasesFollowOrigin'
    OBVIOUS
  <1> USE CodeFixAssumption DEF FixInv, TypeOK, RunInv, BasesFollowOrigin, Branches,
  OnBranchPoints, IncidentPoints
  <1>1. CASE PullBase
    BY <1>1 DEF PullBase, At, Goto, EndAs, remoteVars
  <1>2. CASE Propose
    BY <1>2 DEF Propose, At, EndAs, gitVars, remoteVars
  <1>3. CASE ProposeNothing
    BY <1>3 DEF ProposeNothing, At, EndAs, gitVars, remoteVars
  <1>4. CASE PrepareBranch
    BY <1>4 DEF PrepareBranch, At, Goto, runVars, remoteVars
  <1>5. CASE PrepareBranchFails
    BY <1>5 DEF PrepareBranchFails, At, Fails, EndAs, gitVars, remoteVars
  <1>6. CASE DirtyGate
    BY <1>6 DEF DirtyGate, At, Goto, EndAs, gitVars, remoteVars
  <1>7. CASE AgentWrites
    BY <1>7 DEF AgentWrites, At, runVars, remoteVars
  <1>8. CASE AcceptPatch
    BY <1>8 DEF AcceptPatch, At, Goto, runVars, gitVars, remoteVars
  <1>9. CASE BlockPatch
    BY <1>9 DEF BlockPatch, At, EndAs, remoteVars
  <1>10. CASE StageAll
    BY <1>10 DEF StageAll, At, Goto, runVars, remoteVars
  <1>11. CASE StageFails
    BY <1>11 DEF StageFails, At, Fails, Goto, EndAs, gitVars, remoteVars
  <1>12. CASE Commit
    BY <1>12 DEF Commit, At, Goto, runVars, remoteVars
  <1>13. CASE CommitFails
    BY <1>13 DEF CommitFails, At, Fails, EndAs, gitVars, remoteVars
  <1>14. CASE Push
    BY <1>14 DEF Push, At, Goto, EndAs, gitVars
  <1>15. CASE PushFails
    BY <1>15 DEF PushFails, At, Fails, EndAs, gitVars, remoteVars
  <1>16. CASE OpenPr
    BY <1>16 DEF OpenPr, At, EndAs, gitVars
  <1>17. CASE OpenPrFails
    BY <1>17 DEF OpenPrFails, At, Fails, EndAs, gitVars, remoteVars
  <1>18. CASE Crash
    BY <1>18 DEF Crash, EndAs, gitVars, remoteVars
  <1>19. CASE \E i \in Plans : SwitchToBase(i)
    BY <1>19 DEF SwitchToBase, At, CanMoveTo, remoteVars
  <1>20. CASE \E p \in Plans : Approve(p)
    BY <1>20 DEF Approve, gitVars, remoteVars
  <1>21. CASE \E p \in Plans : Execute(p)
    BY <1>21 DEF Execute, At, gitVars, remoteVars
  <1>22. CASE \E p \in Plans : MergePr(p)
    BY <1>22 DEF MergePr, runVars, gitVars
  <1>23. CASE \E b \in Bases : OthersPush(b)
    BY <1>23 DEF OthersPush, runVars, gitVars
  <1>24. CASE UNCHANGED vars
    BY <1>24 DEF vars
  <1>25. CASE DirtyGateBlind
    BY <1>25 DEF DirtyGateBlind, At, Fails, Goto, runVars, gitVars, remoteVars
  <1>26. CASE RestoreFails
    BY <1>26 DEF RestoreFails, At, Fails, EndAs, gitVars, remoteVars
  <1> QED
    BY <1>1, <1>2, <1>3, <1>4, <1>5, <1>6, <1>7, <1>8, <1>9, <1>10, <1>11, <1>12, <1>13, <1>14,
       <1>15, <1>16, <1>17, <1>18, <1>19, <1>20, <1>21, <1>22, <1>23, <1>24, <1>25, <1>26 DEF Next

\* What is stored after a step was stored before, or was accepted, or is of the
\* other developers.
LEMMA StoredStep ==
  ASSUME FixInv, [Next]_vars, NEW e \in Edits, Stored(e)'
  PROVE  Stored(e) \/ Accepted(e)
  <1> USE CodeFixAssumption DEF FixInv, TypeOK, RunInv, Stored, Branches, OnBranchPoints,
  IncidentPoints
  <1>1. CASE PullBase
    BY <1>1 DEF PullBase, At, Goto, EndAs, remoteVars
  <1>2. CASE Propose
    BY <1>2 DEF Propose, At, EndAs, gitVars, remoteVars
  <1>3. CASE ProposeNothing
    BY <1>3 DEF ProposeNothing, At, EndAs, gitVars, remoteVars
  <1>4. CASE PrepareBranch
    BY <1>4 DEF PrepareBranch, At, Goto, runVars, remoteVars
  <1>5. CASE PrepareBranchFails
    BY <1>5 DEF PrepareBranchFails, At, Fails, EndAs, gitVars, remoteVars
  <1>6. CASE DirtyGate
    BY <1>6 DEF DirtyGate, At, Goto, EndAs, gitVars, remoteVars
  <1>7. CASE AgentWrites
    BY <1>7 DEF AgentWrites, At, runVars, remoteVars
  <1>8. CASE AcceptPatch
    BY <1>8 DEF AcceptPatch, At, Goto, runVars, gitVars, remoteVars
  <1>9. CASE BlockPatch
    BY <1>9 DEF BlockPatch, At, EndAs, remoteVars
  <1>10. CASE StageAll
    BY <1>10 DEF StageAll, At, Goto, runVars, remoteVars
  <1>11. CASE StageFails
    BY <1>11 DEF StageFails, At, Fails, Goto, EndAs, gitVars, remoteVars
  <1>12. CASE Commit
    BY <1>12 DEF Commit, At, Goto, runVars, remoteVars
  <1>13. CASE CommitFails
    BY <1>13 DEF CommitFails, At, Fails, EndAs, gitVars, remoteVars
  <1>14. CASE Push
    BY <1>14 DEF Push, At, Goto, EndAs, gitVars
  <1>15. CASE PushFails
    BY <1>15 DEF PushFails, At, Fails, EndAs, gitVars, remoteVars
  <1>16. CASE OpenPr
    BY <1>16 DEF OpenPr, At, EndAs, gitVars
  <1>17. CASE OpenPrFails
    BY <1>17 DEF OpenPrFails, At, Fails, EndAs, gitVars, remoteVars
  <1>18. CASE Crash
    BY <1>18 DEF Crash, EndAs, gitVars, remoteVars
  <1>19. CASE \E i \in Plans : SwitchToBase(i)
    BY <1>19 DEF SwitchToBase, At, CanMoveTo, remoteVars
  <1>20. CASE \E p \in Plans : Approve(p)
    BY <1>20 DEF Approve, gitVars, remoteVars
  <1>21. CASE \E p \in Plans : Execute(p)
    BY <1>21 DEF Execute, At, gitVars, remoteVars
  <1>22. CASE \E p \in Plans : MergePr(p)
    BY <1>22 DEF MergePr, runVars, gitVars
  <1>23. CASE \E b \in Bases : OthersPush(b)
    BY <1>23 DEF OthersPush, runVars, gitVars, Accepted
  <1>24. CASE UNCHANGED vars
    BY <1>24 DEF vars
  <1>25. CASE DirtyGateBlind
    BY <1>25 DEF DirtyGateBlind, At, Fails, Goto, runVars, gitVars, remoteVars
  <1>26. CASE RestoreFails
    BY <1>26 DEF RestoreFails, At, Fails, EndAs, gitVars, remoteVars
  <1> QED
    BY <1>1, <1>2, <1>3, <1>4, <1>5, <1>6, <1>7, <1>8, <1>9, <1>10, <1>11, <1>12, <1>13, <1>14,
       <1>15, <1>16, <1>17, <1>18, <1>19, <1>20, <1>21, <1>22, <1>23, <1>24, <1>25, <1>26 DEF Next

-----------------------------------------------------------------------------
LEMMA FixInvStep == FixInv /\ [Next]_vars => FixInv'
  <1> SUFFICES ASSUME FixInv, [Next]_vars PROVE FixInv'
    OBVIOUS
  <1>1. TypeOK'
    BY TypeStep DEF FixInv
  <1>2. ASSUME NEW e \in Edits, Stored(e)'
        PROVE  Accepted(e)'
    BY <1>2, StoredStep, AcceptedStays DEF FixInv
  <1> QED
    BY <1>1, <1>2, RunStep, OwnStep, BasesStep DEF FixInv

\* FixInv holds in every reachable state of the checkout.
THEOREM FixInvariant == Spec => []FixInv
  BY InitEstablishesFixInv, FixInvStep, PTL DEF Spec

\* The variables keep their types.
THEOREM FixTypeCorrect == Spec => []TypeOK
  BY FixInvariant, PTL DEF FixInv

\* No edit that no scope check accepts is ever committed or pushed, whatever
\* commands fail and whenever the process stops (code_fix.py 150-177, 551-569).
THEOREM CommittedWasCheckedHolds == Spec => []CommittedWasChecked
  <1>1. FixInv => CommittedWasChecked
    BY DEF FixInv, TypeOK, CommittedWasChecked, Stored
  <1> QED
    BY <1>1, FixInvariant, PTL

\* An agent's patch is validated without the leftovers of an earlier run, as
\* long as the git diff of the dirty gate has not failed.
THEOREM PatchIsOwnHolds == Spec => []PatchIsOwn
  BY FixInvariant, PTL DEF FixInv

\* A base branch of the checkout never gets a fix that was not merged.
THEOREM BasesFollowOriginHolds == Spec => []BasesFollowOrigin
  BY FixInvariant, PTL DEF FixInv

-----------------------------------------------------------------------------
(* What an execution leaves.                                                *)

\* Steps that belong to no execution past its scope check.
Elsewhere ==
  \/ \E i \in Plans : SwitchToBase(i)
  \/ PullBase \/ Propose \/ ProposeNothing
  \/ \E p \in Plans : Execute(p)
  \/ PrepareBranch \/ PrepareBranchFails \/ DirtyGate \/ DirtyGateBlind
  \/ AgentWrites \/ BlockPatch \/ RestoreFails

\* They end no execution well and stage nothing.
LEMMA ElsewhereKeeps ==
  ASSUME FixInv, Elsewhere
  PROVE  /\ pc \in {"idle", "pulling", "analysing", "branching", "gating", "patching"}
         /\ pc' \in {"idle", "pulling", "analysing", "branching", "gating", "patching"}
         /\ UNCHANGED <<index, crashes, remoteVars>>
         /\ failed \subseteq failed'
         /\ \A p \in Plans : status'[p] = "EXECUTED" => status[p] = "EXECUTED"
<1> USE DEF FixInv, TypeOK, RunInv, IncidentPoints, Points
<1>1. CASE \E i \in Plans : SwitchToBase(i)
  BY <1>1 DEF SwitchToBase, At
<1>2. CASE PullBase \/ Propose \/ ProposeNothing
  BY <1>2 DEF PullBase, Propose, ProposeNothing, At, Goto, EndAs, gitVars, remoteVars
<1>3. CASE \E p \in Plans : Execute(p)
  BY <1>3 DEF Execute, At, gitVars
<1>4. CASE PrepareBranch \/ PrepareBranchFails \/ DirtyGate \/ DirtyGateBlind
  BY <1>4 DEF PrepareBranch, PrepareBranchFails, DirtyGate, DirtyGateBlind, At, Goto, Fails,
     EndAs, runVars, gitVars
<1>5. CASE AgentWrites \/ BlockPatch \/ RestoreFails
  BY <1>5 DEF AgentWrites, BlockPatch, RestoreFails, At, Fails, EndAs, gitVars, runVars
<1> QED
  BY <1>1, <1>2, <1>3, <1>4, <1>5 DEF Elsewhere

\* Steps of the world, which keep the checkout and the point of the run.
World ==
  \/ \E p \in Plans : Approve(p) \/ MergePr(p)
  \/ \E b \in Bases : OthersPush(b)
  \/ UNCHANGED vars

LEMMA WorldKeeps ==
  ASSUME FixInv, World
  PROVE  /\ UNCHANGED <<pc, cur, failed, crashes, target, pushed, prs, gitVars>>
         /\ \A b \in Branches : origin[b] \subseteq origin'[b]
         /\ \A p \in Plans : status'[p] = "EXECUTED" => status[p] = "EXECUTED"
<1> USE CodeFixAssumption DEF FixInv, TypeOK, Branches
<1>1. CASE \E p \in Plans : Approve(p)
  BY <1>1 DEF Approve, remoteVars
<1>2. CASE \E p \in Plans : MergePr(p)
  BY <1>2 DEF MergePr, runVars
<1>3. CASE \E b \in Bases : OthersPush(b)
  BY <1>3 DEF OthersPush, runVars
<1>4. CASE UNCHANGED vars
  BY <1>4 DEF vars, gitVars
<1> QED
  BY <1>1, <1>2, <1>3, <1>4 DEF World

LEMMA PrStep == FixInv /\ PrInv /\ [Next]_vars => PrInv'
<1> SUFFICES ASSUME FixInv, PrInv, [Next]_vars PROVE PrInv'
  OBVIOUS
<1> USE DEF PatchUnsure
<1>1. CASE Elsewhere
  BY <1>1, ElsewhereKeeps DEF PrInv, ExecutedHasItsPr, remoteVars
<1>2. CASE World
  <2>1. \A p \in Plans : BranchOf[p] \in Branches
    BY CodeFixAssumption DEF Branches
  <2>2. pc # "idle" => cur \in Plans
    BY DEF FixInv, RunInv
  <2> QED
    BY <1>2, <2>1, <2>2, WorldKeeps DEF PrInv, ExecutedHasItsPr, gitVars
\* The other steps are of one execution; what is reported is reported at its end.
<1> USE CodeFixAssumption DEF FixInv, TypeOK, RunInv, OnBranchPoints, IncidentPoints, Points,
Branches
<1>3. CASE AcceptPatch
  <2>1. PICK report \in SUBSET Files : ScopeOk(report)
    BY <1>3 DEF AcceptPatch
  <2>2. work # {}
    BY <2>1 DEF ScopeOk, FilesOf
  <2>3. PatchUnsure \/ \E e \in work : e.by = cur
    BY <1>3, <2>2 DEF AcceptPatch, At, PatchIsOwn, PatchUnsure
  <2> QED
    BY <1>3, <2>3 DEF AcceptPatch, Goto, runVars, gitVars, remoteVars, PrInv, ExecutedHasItsPr
<1>4. CASE StageAll
  BY <1>4 DEF StageAll, At, Goto, runVars, remoteVars, PrInv, ExecutedHasItsPr
<1>5. CASE Commit
  BY <1>5 DEF Commit, At, Goto, runVars, remoteVars, PrInv, ExecutedHasItsPr
<1>6. CASE Push
  <2>1. CASE origin[BranchOf[cur]] \subseteq tip[BranchOf[cur]]
    BY <1>6, <2>1 DEF Push, At, Goto, gitVars, PrInv, ExecutedHasItsPr
  <2>2. CASE ~(origin[BranchOf[cur]] \subseteq tip[BranchOf[cur]])
    BY <1>6, <2>2 DEF Push, At, EndAs, gitVars, PrInv, ExecutedHasItsPr
  <2> QED
    BY <2>1, <2>2
<1>7. CASE OpenPr
  BY <1>7 DEF OpenPr, At, EndAs, PrInv, ExecutedHasItsPr
<1>8. CASE StageFails
  <2>1. "add" \in failed' /\ UNCHANGED remoteVars /\ pc' \in {"idle", "committing"}
    BY <1>8 DEF StageFails, Fails, EndAs, Goto
  <2>2. \A p \in Plans : status'[p] = "EXECUTED" => status[p] = "EXECUTED"
    BY <1>8 DEF StageFails, At, EndAs
  <2> QED
    BY <2>1, <2>2 DEF PrInv, ExecutedHasItsPr, remoteVars
<1>9. CASE CommitFails \/ PushFails \/ OpenPrFails \/ Crash
  <2>1. pc' = "idle" /\ UNCHANGED remoteVars /\ failed \subseteq failed'
    BY <1>9 DEF CommitFails, PushFails, OpenPrFails, Crash, Fails, EndAs
  <2>2. \A p \in Plans : status'[p] = "EXECUTED" => status[p] = "EXECUTED"
    BY <1>9 DEF CommitFails, PushFails, OpenPrFails, Crash, At, EndAs
  <2> QED
    BY <2>1, <2>2 DEF PrInv, ExecutedHasItsPr, remoteVars
<1> QED
  BY <1>1, <1>2, <1>3, <1>4, <1>5, <1>6, <1>7, <1>8, <1>9 DEF Next, Elsewhere, World

\* What a step leaves in the index.
LEMMA StageStep == FixInv /\ StageInv /\ [Next]_vars => StageInv'
<1> SUFFICES ASSUME FixInv, StageInv, [Next]_vars PROVE StageInv'
  OBVIOUS
<1>1. ASSUME World
      PROVE  pc' = pc /\ index' = index /\ work' = work /\ AllowedFixFiles(cur)' = AllowedFixFiles(cur)
  BY <1>1, WorldKeeps DEF gitVars, AllowedFixFiles
<1>2. ASSUME pc' = "staging"  PROVE \A e \in work' : Normal[e.file] \in AllowedFixFiles(cur)'
  <2>1. CASE AcceptPatch
    <3>1. PICK report \in SUBSET Files : ScopeOk(report)
      BY <2>1 DEF AcceptPatch
    <3>2. \A e \in work : Normal[e.file] \in AllowedFixFiles(cur)
      BY <3>1 DEF ScopeOk, FilesOf
    <3> QED
      BY <2>1, <3>2 DEF AcceptPatch, At, Goto, runVars, gitVars, AllowedFixFiles
  <2>2. CASE World
    BY <1>1, <1>2, <2>2 DEF StageInv
  <2>3. ~Elsewhere
    BY <1>2, ElsewhereKeeps
  <2> QED
    BY <1>2, <2>1, <2>2, <2>3 DEF Next, Elsewhere, World, StageAll, StageFails, Commit,
       CommitFails, Push,
       PushFails, OpenPr, OpenPrFails, Crash, Goto, EndAs
<1>3. ASSUME NEW e \in index'
      PROVE  \/ pc' = "committing" /\ Normal[e.file] \in AllowedFixFiles(cur)'
             \/ LeftStaged(e)'
  <2>1. CASE World
    BY <1>1, <1>3, <2>1, AcceptedStays DEF StageInv
  <2>2. ASSUME pc # "committing", index' = index  PROVE LeftStaged(e)'
    BY <1>3, <2>2, AcceptedStays DEF StageInv
  <2>3. CASE Elsewhere
    BY <2>2, <2>3, ElsewhereKeeps
  <2>4. CASE AcceptPatch \/ StageFails \/ Push \/ PushFails \/ OpenPr \/ OpenPrFails
    BY <2>2, <2>4 DEF AcceptPatch, StageFails, Push, PushFails, OpenPr, OpenPrFails, At, gitVars
  <2>5. CASE StageAll
    <3>1. pc = "staging" /\ pc' = "committing" /\ AllowedFixFiles(cur)' = AllowedFixFiles(cur)
      BY <2>5 DEF StageAll, At, Goto, runVars, AllowedFixFiles
    <3>2. e \in index \/ e \in work
      BY <1>3, <2>5 DEF StageAll
    <3> QED
      BY <3>1, <3>2, AcceptedStays DEF StageInv
  <2>6. CASE Commit
    BY <1>3, <2>6 DEF Commit
  <2>7. CASE CommitFails \/ Crash
    <3>1. e \in index
      BY <1>3, <2>7 DEF CommitFails, Crash, gitVars
    <3>2. CASE LeftStaged(e)
      BY <3>2, AcceptedStays
    <3>3. CASE pc = "committing" /\ Normal[e.file] \in AllowedFixFiles(cur)
      <4>1. cur \in Plans /\ status[cur] = "executing"
        BY <3>3 DEF FixInv, RunInv, Points, IncidentPoints
      <4>2. status'[cur] = "EXECUTION_FAILED" /\ target' = target
        BY <2>7, <4>1 DEF CommitFails, Crash, EndAs, FixInv, TypeOK
      <4>3. failed' \cap {"cached", "commit"} # {} \/ crashes' > 0
        BY <2>7 DEF CommitFails, Crash, Fails, FixInv, TypeOK
      <4>4. Normal[e.file] \in {Normal[f] : f \in {target'[cur]} \ {NoFile}}
        BY <3>3, <4>2 DEF AllowedFixFiles
      <4> QED
        BY <4>1, <4>2, <4>3, <4>4 DEF LeftStaged, AllowedFixFiles
    <3> QED
      BY <3>1, <3>2, <3>3 DEF StageInv
  <2> QED
    BY <2>1, <2>3, <2>4, <2>5, <2>6, <2>7 DEF Next, Elsewhere, World
<1> QED
  BY <1>2, <1>3 DEF StageInv

\* A reported execution has its pull request, with the plan's own edit unless one
\* of the two commands whose failure is not read has failed.
THEOREM ExecutedHasItsPrHolds == Spec => []ExecutedHasItsPr
<1>1. Init => PrInv
  BY DEF Init, PrInv, ExecutedHasItsPr
<1>2. FixInv /\ PrInv /\ [Next]_vars => PrInv'
  BY PrStep
<1>3. PrInv => ExecutedHasItsPr
  BY DEF PrInv
<1> QED
  BY <1>1, <1>2, <1>3, FixInvariant, PTL DEF Spec

\* What a commit takes along beside its plan's file was accepted for a plan that
\* has failed, in its commit or by a crash.
THEOREM CommitStaysInScopeHolds == Spec => CommitStaysInScope
<1>1. Init => StageInv
  BY DEF Init, StageInv
<1>2. FixInv /\ StageInv /\ [Next]_vars => StageInv'
  BY StageStep
<1>3. ASSUME FixInv, StageInv, [Next]_vars,
             NEW b \in FixBranches, pc = "committing", NEW e \in tip'[b] \ tip[b]
      PROVE  Normal[e.file] \in AllowedFixFiles(cur) \/ LeftStaged(e)
  <2>1. ~Elsewhere
    BY <1>3, ElsewhereKeeps
  <2>2. CASE World
    BY <1>3, <2>2, WorldKeeps DEF gitVars
  <2>3. CASE Commit
    <3>1. e \in index
      BY <1>3, <2>3 DEF Commit, FixInv, TypeOK, Branches
    <3> QED
      BY <1>3, <3>1 DEF StageInv
  <2>4. CASE CommitFails \/ Crash
    BY <1>3, <2>4 DEF CommitFails, Crash, gitVars
  <2> QED
    BY <1>3, <2>1, <2>2, <2>3, <2>4 DEF Next, Elsewhere, World, AcceptPatch, StageAll, StageFails,
       Push,
       PushFails, OpenPr, OpenPrFails, At
<1>4. FixInv /\ StageInv /\ [Next]_vars =>
        [pc = "committing" =>
           \A b \in FixBranches : \A e \in tip'[b] \ tip[b] :
             Normal[e.file] \in AllowedFixFiles(cur) \/ LeftStaged(e)]_vars
  BY <1>3
<1> QED
  BY <1>1, <1>2, <1>4, FixInvariant, PTL DEF Spec, CommitStaysInScope

-----------------------------------------------------------------------------
(* The contract about plans.                                                 *)

\* A step that sets the status of one plan leaves the other plans where they are.
LEMMA OthersStay ==
  ASSUME TypeOK, NEW p \in Plans, NEW s, status' = [status EXCEPT ![p] = s]
  PROVE  \A q \in Plans \ {p} : PhaseOf(q)' = PhaseOf(q)
  <1>1. \A q \in Plans \ {p} : status'[q] = status[q]
    BY DEF TypeOK
  <1> QED
    BY <1>1 DEF PhaseOf

\* The worker ends what it works on: an incident without a plan, or an execution.
LEMMA EndMoves ==
  ASSUME FixInv, pc # "idle", NEW s, EndAs(s),
         pc \in IncidentPoints => s \in {"analysed", "waiting"},
         pc \notin IncidentPoints => s \in {"EXECUTED", "EXECUTION_FAILED"}
  PROVE  [RC!ContractNext]_([p \in Plans |-> PhaseOf(p)])
  <1>1. PICK p \in Plans : p = cur
    BY DEF FixInv, RunInv
  <1>2. status' = [status EXCEPT ![p] = s] /\ status'[p] = s
    BY <1>1 DEF EndAs, FixInv, TypeOK
  <1>3. \A q \in Plans \ {p} : PhaseOf(q)' = PhaseOf(q)
    BY <1>2, OthersStay DEF FixInv
  <1>4. pc \in IncidentPoints => status[p] = "none"
    BY <1>1 DEF FixInv, RunInv
  <1>5. pc \notin IncidentPoints => status[p] = "executing"
    BY <1>1 DEF FixInv, RunInv, TypeOK
  <1>6. CASE pc \in IncidentPoints /\ s = "analysed"
    BY <1>2, <1>3, <1>4, <1>6 DEF PhaseOf
  <1>7. CASE pc \in IncidentPoints /\ s = "waiting"
    <2>1. PhaseOf(p) = "none" /\ PhaseOf(p)' = "proposed"
      BY <1>2, <1>4, <1>7 DEF PhaseOf
    <2> QED
      BY <1>3, <2>1 DEF RC!ContractNext, RC!Propose, RC!Move
  <1>8. CASE pc \notin IncidentPoints
    <2>1. PhaseOf(p) = "running" /\ PhaseOf(p)' = "settled"
      BY <1>2, <1>5, <1>8 DEF PhaseOf
    <2> QED
      BY <1>3, <2>1 DEF RC!ContractNext, RC!Settle, RC!Move
  <1> QED
    BY <1>6, <1>7, <1>8

\* What every step does to the phases of the plans.
LEMMA ContractStep == FixInv /\ [Next]_vars => [RC!ContractNext]_([p \in Plans |-> PhaseOf(p)])
  <1> SUFFICES ASSUME FixInv, [Next]_vars PROVE [RC!ContractNext]_([p \in Plans |-> PhaseOf(p)])
    OBVIOUS
  <1>0. ASSUME UNCHANGED status  PROVE UNCHANGED [p \in Plans |-> PhaseOf(p)]
    BY <1>0 DEF PhaseOf
  <1>1. CASE \/ PrepareBranch \/ DirtyGateBlind \/ AgentWrites \/ AcceptPatch \/ StageAll \/ Commit
             \/ \E p \in Plans : MergePr(p)
             \/ \E b \in Bases : OthersPush(b)
             \/ UNCHANGED vars
    BY <1>0, <1>1 DEF PrepareBranch, DirtyGateBlind, AgentWrites, AcceptPatch, StageAll, Commit,
       MergePr, OthersPush,
       runVars, vars
  <1>2. CASE PullBase \/ Propose \/ ProposeNothing
    <2>1. pc \in IncidentPoints /\ pc # "idle"
      BY <1>2 DEF PullBase, Propose, ProposeNothing, At, IncidentPoints
    <2>2. UNCHANGED status \/ EndAs("analysed") \/ EndAs("waiting")
      BY <1>2 DEF PullBase, Propose, ProposeNothing
    <2> QED
      BY <1>0, <2>1, <2>2, EndMoves
  <1>3. CASE \/ PrepareBranchFails \/ DirtyGate \/ BlockPatch \/ RestoreFails \/ StageFails \/ CommitFails
             \/ Push \/ PushFails \/ OpenPr \/ OpenPrFails
    <2>1. pc \notin IncidentPoints /\ pc # "idle"
      BY <1>3 DEF PrepareBranchFails, DirtyGate, BlockPatch, RestoreFails, StageFails,
         CommitFails, Push, PushFails,
         OpenPr, OpenPrFails, At, IncidentPoints
    <2>2. UNCHANGED status \/ EndAs("EXECUTED") \/ EndAs("EXECUTION_FAILED")
      BY <1>3 DEF PrepareBranchFails, DirtyGate, BlockPatch, RestoreFails, StageFails,
         CommitFails, Push, PushFails,
         OpenPr, OpenPrFails
    <2> QED
      BY <1>0, <2>1, <2>2, EndMoves
  <1>4. CASE Crash
    <2>1. pc # "idle" => (pc \in IncidentPoints <=> status[cur] # "executing")
      BY DEF FixInv, RunInv, TypeOK, IncidentPoints
    <2>2. pc # "idle"
      BY <1>4 DEF Crash, FixInv, RunInv
    <2> QED
      BY <1>4, <2>1, <2>2, EndMoves DEF Crash
  <1>5. ASSUME NEW i \in Plans, SwitchToBase(i)
        PROVE  UNCHANGED [p \in Plans |-> PhaseOf(p)]
    <2>1. status[i] = "none"
      BY <1>5 DEF SwitchToBase
    <2>2. UNCHANGED status \/ status' = [status EXCEPT ![i] = "analysed"]
      BY <1>5 DEF SwitchToBase
    <2> QED
      BY <1>0, <2>1, <2>2 DEF PhaseOf, FixInv, TypeOK
  <1>6. ASSUME NEW p \in Plans, Approve(p)
        PROVE  RC!Move(p, {"proposed"}, "approved")
    <2>1. status[p] = "waiting" /\ status' = [status EXCEPT ![p] = "approved"]
      BY <1>6 DEF Approve
    <2>2. PhaseOf(p) = "proposed" /\ PhaseOf(p)' = "approved"
      BY <2>1 DEF PhaseOf, FixInv, TypeOK
    <2>3. \A q \in Plans \ {p} : PhaseOf(q)' = PhaseOf(q)
      BY <2>1, OthersStay DEF FixInv
    <2> QED
      BY <2>2, <2>3 DEF RC!Move
  <1>7. ASSUME NEW p \in Plans, Execute(p)
        PROVE  RC!Move(p, {"approved"}, "running")
    <2>1. status[p] = "approved" /\ status' = [status EXCEPT ![p] = "executing"]
      BY <1>7 DEF Execute
    <2>2. PhaseOf(p) = "approved" /\ PhaseOf(p)' = "running"
      BY <2>1 DEF PhaseOf, FixInv, TypeOK
    <2>3. \A q \in Plans \ {p} : PhaseOf(q)' = PhaseOf(q)
      BY <2>1, OthersStay DEF FixInv
    <2> QED
      BY <2>2, <2>3 DEF RC!Move
  <1> QED
    BY <1>1, <1>2, <1>3, <1>4, <1>5, <1>6, <1>7 DEF Next, RC!ContractNext, RC!Decide, RC!Run

\* Whatever fails and wherever the process stops, a plan of the code fix agent
\* passes once through the contract that JobWorker implements.
THEOREM ImplementsContractHolds == Spec => ImplementsContract
  <1>1. Init => RC!ContractInit
    BY DEF Init, RC!ContractInit, PhaseOf
  <1> QED
    BY <1>1, ContractStep, FixInvariant, PTL DEF Spec, ImplementsContract, RC!Contract

\* Fix branches and pull requests change for a running plan only.
THEOREM EffectsWhileRunningHolds == Spec => EffectsWhileRunning
  <1> DEFINE Effects ==
        /\ \A b \in FixBranches : tip'[b] # tip[b] \/ origin'[b] # origin[b] =>
             \E p \in Plans : BranchOf[p] = b /\ PhaseOf(p) = "running"
        /\ \A p \in prs' \ prs : PhaseOf(p) = "running"
  <1>1. ASSUME FixInv, [Next]_vars  PROVE [Effects]_vars
    <2>0. /\ tip \in [Branches -> SUBSET Edits] /\ origin \in [Branches -> SUBSET Edits]
          /\ \A b \in FixBranches : b \in Branches /\ b \notin Bases
      BY <1>1, CodeFixAssumption DEF FixInv, TypeOK, Branches
    <2>1. CASE UNCHANGED <<tip, origin, prs>>
      BY <2>1
    <2>2. ASSUME pc \in {"branching", "committing", "pushing", "opening"}
          PROVE  cur \in Plans /\ PhaseOf(cur) = "running"
      BY <1>1, <2>2 DEF FixInv, RunInv, Points, IncidentPoints, PhaseOf
    <2>3. CASE PrepareBranch \/ Push \/ OpenPr
      BY <2>0, <2>2, <2>3 DEF PrepareBranch, Push, OpenPr, At, gitVars, remoteVars
    <2>4. CASE Commit
      <3>1. head = BranchOf[cur]
        BY <1>1, <2>4 DEF Commit, At, FixInv, RunInv, OnBranchPoints
      <3> QED
        BY <2>0, <2>2, <2>4, <3>1 DEF Commit, At, remoteVars
    <2>5. CASE PullBase
      <3>1. head \in Bases
        BY <1>1, <2>5 DEF PullBase, At, FixInv, RunInv
      <3> QED
        BY <2>0, <2>5, <3>1 DEF PullBase, remoteVars
    <2>6. CASE \E i \in Plans : SwitchToBase(i) \/ MergePr(i)
      BY <2>0, <2>6, CodeFixAssumption DEF SwitchToBase, MergePr, remoteVars, gitVars
    <2>7. CASE \E b \in Bases : OthersPush(b)
      BY <2>0, <2>7 DEF OthersPush, gitVars
    <2>8. CASE \/ Propose \/ ProposeNothing \/ PrepareBranchFails \/ DirtyGate \/ DirtyGateBlind
               \/ AgentWrites \/ AcceptPatch \/ BlockPatch \/ RestoreFails \/ StageAll \/ StageFails \/ CommitFails \/ PushFails
               \/ OpenPrFails \/ Crash \/ UNCHANGED vars \/ \E p \in Plans : Approve(p) \/ Execute(p)
      BY <2>1, <2>8 DEF Propose, ProposeNothing, PrepareBranchFails, DirtyGate, DirtyGateBlind,
         AgentWrites,
         AcceptPatch, BlockPatch, RestoreFails, StageAll, StageFails, CommitFails, PushFails,
         OpenPrFails, Crash, Approve, Execute,
         gitVars, remoteVars, vars
    <2> QED
      BY <1>1, <2>3, <2>4, <2>5, <2>6, <2>7, <2>8 DEF Next
  <1> QED
    BY <1>1, FixInvariant, PTL DEF Spec, EffectsWhileRunning
=============================================================================
