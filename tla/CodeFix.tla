------------------------------- MODULE CodeFix ------------------------------
(***************************************************************************)
(* agents/code_fix.py on one repository: the checkout that every incident  *)
(* and every fix of the repository share (_ensure_repo_checkout of the     *)
(* intake workflow), from the analysis that proposes a plan to the branch, *)
(* the commit, the push and the pull request of its execution.             *)
(*                                                                         *)
(* One worker runs incidents and approved plans one at a time (JobWorker). *)
(* Every git command is a step: it can fail, and the process can stop      *)
(* after it.  The checkout survives the process, the run does not.         *)
(*                                                                         *)
(* A plan has the name of the incident that proposed it.  The content of a *)
(* branch, of the index and of the work tree is the set of edits it has    *)
(* over the first commit; who made an edit is kept, git would not know.    *)
(***************************************************************************)
EXTENDS FiniteSets, Naturals

CONSTANTS
  Plans,        \* incidents, and the plans their runs propose
  Bases,        \* branches that incidents name (event.branch)
  FixBranches,  \* branches that executions make
  Files,        \* paths of files of the repository
  BaseOf,       \* plan -> base branch
  BranchOf,     \* plan -> codefix/<first eight characters of the event's id>
  Normal,       \* path -> what _normalize_repo_path makes of it
  NoFile,       \* an RCA that names no buggy_file
  NoPlan,       \* the worker runs nothing
  Others,       \* the other developers of the repository
  MayFail,      \* kinds of commands that fail, each once
  MaxCrashes    \* bound on the crashes of the process

ASSUME CodeFixAssumption ==
  /\ BaseOf \in [Plans -> Bases]
  /\ BranchOf \in [Plans -> FixBranches]
  /\ Bases \cap FixBranches = {}
  /\ NoFile \notin Files
  /\ NoPlan \notin Plans
  /\ Others \notin Plans
  /\ MaxCrashes \in Nat

Branches == Bases \cup FixBranches

\* write_fix changes files that exist, it makes none.
Edits == [by : Plans \cup {Others}, file : Files]

VARIABLES
  branches,  \* branches of the checkout; none before the clone
  head,      \* the branch that is checked out
  tip,       \* branch of the checkout -> its content
  index,     \* edits that are staged and not committed
  work,      \* edits of the work tree that are not staged
  origin,    \* branch of the remote -> its content
  pushed,    \* fix branches that the remote has
  prs,       \* plans whose pull request was opened
  pc,        \* the worker's next command
  cur,       \* the incident or plan it works on
  status,    \* plan -> how far it is
  target,    \* plan -> buggy_file of its RCA
  failed,    \* kinds of commands that have failed
  crashes    \* crashes so far

gitVars == <<branches, head, tip, index, work>>
remoteVars == <<origin, pushed, prs>>
runVars == <<status, target>>
vars == <<branches, head, tip, index, work, origin, pushed, prs,
          pc, cur, status, target, failed, crashes>>

Points == {"idle", "pulling", "analysing", "branching", "gating", "patching",
           "staging", "committing", "pushing", "opening"}
Statuses == {"none", "analysed", "waiting", "approved", "executing",
             "EXECUTED", "EXECUTION_FAILED"}

TypeOK ==
  /\ branches \subseteq Branches
  /\ head \in Branches
  /\ tip \in [Branches -> SUBSET Edits]
  /\ index \subseteq Edits
  /\ work \subseteq Edits
  /\ origin \in [Branches -> SUBSET Edits]
  /\ pushed \subseteq FixBranches
  /\ prs \subseteq Plans
  /\ pc \in Points
  /\ cur \in Plans \cup {NoPlan}
  /\ status \in [Plans -> Statuses]
  /\ target \in [Plans -> Files \cup {NoFile}]
  /\ failed \subseteq MayFail
  /\ crashes \in 0..MaxCrashes

Init ==
  /\ branches = {}
  /\ head \in Bases
  /\ tip = [b \in Branches |-> {}]
  /\ index = {}
  /\ work = {}
  /\ origin = [b \in Branches |-> {}]
  /\ pushed = {}
  /\ prs = {}
  /\ pc = "idle"
  /\ cur = NoPlan
  /\ status = [p \in Plans |-> "none"]
  /\ target = [p \in Plans |-> NoFile]
  /\ failed = {}
  /\ crashes = 0

-----------------------------------------------------------------------------
(* Fragments.                                                               *)

FilesOf(edits) == {e.file : e \in edits}

SymmetricDiff(a, b) == (a \ b) \cup (b \ a)

\* git carries uncommitted changes to other content where they do not overlap
\* what changes, and refuses otherwise.
CanMoveTo(content) ==
  FilesOf(index \cup work) \cap FilesOf(SymmetricDiff(tip[head], content)) = {}

At(point) == pc = point /\ UNCHANGED crashes

\* A step that fails because the command it runs does.
Fails(kind) == kind \in MayFail \ failed /\ failed' = failed \cup {kind}

Goto(point) == pc' = point /\ UNCHANGED cur

\* The incident or the execution ends with a result.
EndAs(s) ==
  /\ status' = [status EXCEPT ![cur] = s]
  /\ pc' = "idle"
  /\ cur' = NoPlan

-----------------------------------------------------------------------------
(* An incident: _ensure_repo_checkout, the analysis, and the plan.          *)

\* The clone, or fetch and checkout of the incident's branch.  When the first
\* checkout fails, the second tries to make a branch that exists, or meets the
\* same uncommitted changes; then the run raises.
SwitchToBase(i) ==
  LET b == BaseOf[i]
      content == IF b \in branches THEN tip[b] ELSE origin[b]
  IN /\ At("idle")
     /\ status[i] = "none"
     /\ IF branches = {} \/ CanMoveTo(content)
        THEN /\ branches' = branches \cup {b}
             /\ head' = b
             /\ tip' = [tip EXCEPT ![b] = content]
             /\ pc' = "pulling"
             /\ cur' = i
             /\ UNCHANGED status
        ELSE /\ status' = [status EXCEPT ![i] = "analysed"]
             /\ UNCHANGED <<branches, head, tip, pc, cur>>
     /\ UNCHANGED <<index, work, target, failed, remoteVars>>

\* git pull --ff-only of the incident's branch, which is checked out.
PullBase ==
  /\ At("pulling")
  /\ IF CanMoveTo(origin[head])
     THEN tip' = [tip EXCEPT ![head] = origin[head]] /\ Goto("analysing") /\ UNCHANGED status
     ELSE UNCHANGED tip /\ EndAs("analysed")
  /\ UNCHANGED <<branches, head, index, work, target, failed, remoteVars>>

\* run_code_fix with require_approval, past the gates on the RCA.
Propose ==
  /\ At("analysing")
  /\ \E f \in Files \cup {NoFile} : target' = [target EXCEPT ![cur] = f]
  /\ EndAs("waiting")
  /\ UNCHANGED <<failed, gitVars, remoteVars>>

\* The analysis fails, or a gate stops it: not ready, no token, low confidence.
ProposeNothing ==
  /\ At("analysing")
  /\ EndAs("analysed")
  /\ UNCHANGED <<target, failed, gitVars, remoteVars>>

\* A human approves, whatever the worker does.
Approve(p) ==
  /\ status[p] = "waiting"
  /\ status' = [status EXCEPT ![p] = "approved"]
  /\ UNCHANGED <<pc, cur, target, failed, crashes, gitVars, remoteVars>>

-----------------------------------------------------------------------------
(* An execution: run_code_fix without require_approval.  The gates on the    *)
(* RCA see what they saw when the plan was made, and pass again.            *)

Execute(p) ==
  /\ At("idle")
  /\ status[p] = "approved"
  /\ status' = [status EXCEPT ![p] = "executing"]
  /\ pc' = "branching"
  /\ cur' = p
  /\ UNCHANGED <<target, failed, gitVars, remoteVars>>

\* The branch is made where the checkout stands.
MutPrepareNoSwitch ==
  /\ At("branching")
  /\ branches' = branches \cup {BranchOf[cur]}
  /\ tip' = [tip EXCEPT ![BranchOf[cur]] = tip[head]]
  /\ Goto("gating")
  /\ UNCHANGED <<head, index, work, failed, runVars, remoteVars>>

\* _prepare_fix_branch: checkout -b from wherever HEAD is, or, for a branch
\* that exists, its checkout.
PrepareBranch ==
  LET b == BranchOf[cur]
      content == IF b \in branches THEN tip[b] ELSE tip[head]
  IN /\ At("branching")
     /\ CanMoveTo(content)
     /\ branches' = branches \cup {b}
     /\ tip' = [tip EXCEPT ![b] = content]
     /\ head' = b
     /\ Goto("gating")
     /\ UNCHANGED <<index, work, failed, runVars, remoteVars>>

PrepareBranchFails ==
  /\ At("branching")
  /\ \/ Fails("branch")
     \/ /\ BranchOf[cur] \in branches
        /\ ~CanMoveTo(tip[BranchOf[cur]])
        /\ UNCHANGED failed
  /\ EndAs("EXECUTION_FAILED")
  /\ UNCHANGED <<target, gitVars, remoteVars>>

\* The execution that does not look at what the checkout holds.
MutNoDirtyGate ==
  /\ At("gating")
  /\ Goto("patching")
  /\ UNCHANGED <<failed, runVars, gitVars, remoteVars>>

\* git diff --name-only shows what is not staged; anything refuses the fix.
DirtyGate ==
  /\ At("gating")
  /\ IF work = {} THEN Goto("patching") /\ UNCHANGED status ELSE EndAs("EXECUTION_FAILED")
  /\ UNCHANGED <<target, failed, gitVars, remoteVars>>

\* _changed_files does not read the return code of git diff: one that fails
\* shows nothing, and the checkout passes for a clean one.
DirtyGateBlind ==
  /\ At("gating")
  /\ Fails("diff")
  /\ Goto("patching")
  /\ UNCHANGED <<runVars, gitVars, remoteVars>>

\* write_fix, in the agent's loop: any file it names.
AgentWrites ==
  /\ At("patching")
  /\ \E f \in Files : work' = work \cup {[by |-> cur, file |-> f]}
  /\ UNCHANGED <<branches, head, tip, index, pc, cur, failed, runVars, remoteVars>>

AllowedFixFiles(p) == {Normal[f] : f \in {target[p]} \ {NoFile}}

\* _validate_patch_scope: the changed files are the buggy file, and the ones
\* that the agent reports are the changed ones.
ScopeOk(report) ==
  LET changed == {Normal[f] : f \in FilesOf(work)}
  IN /\ AllowedFixFiles(cur) # {}
     /\ changed = AllowedFixFiles(cur)
     /\ report # {} /\ {Normal[f] : f \in report} = changed

\* A scope check that asks only that the buggy file was changed.
MutAcceptPatchLoosely ==
  /\ At("patching")
  /\ AllowedFixFiles(cur) \subseteq {Normal[f] : f \in FilesOf(work)}
  /\ AllowedFixFiles(cur) # {}
  /\ Goto("staging")
  /\ UNCHANGED <<failed, runVars, gitVars, remoteVars>>

\* The agent answers with a summary, and both scope checks accept the patch.
AcceptPatch ==
  /\ At("patching")
  /\ \E report \in SUBSET Files : ScopeOk(report)
  /\ Goto("staging")
  /\ UNCHANGED <<failed, runVars, gitVars, remoteVars>>

\* The agent raises, answers no JSON, gives up, or reports a patch out of
\* scope, or the git diff of a scope check fails and shows no file: git restore
\* undoes what is not staged.
BlockPatch ==
  /\ At("patching")
  /\ work' = {}
  /\ EndAs("EXECUTION_FAILED")
  /\ UNCHANGED <<branches, head, tip, index, target, failed, remoteVars>>

\* git restore fails, and so does the checkout tried instead: the edits stay.
RestoreFails ==
  /\ At("patching")
  /\ Fails("restore")
  /\ EndAs("EXECUTION_FAILED")
  /\ UNCHANGED <<target, gitVars, remoteVars>>

\* _commit_and_push: git add -A, ...
StageAll ==
  /\ At("staging")
  /\ index' = index \cup work
  /\ work' = {}
  /\ Goto("committing")
  /\ UNCHANGED <<branches, head, tip, failed, runVars, remoteVars>>

\* ... whose return code nobody reads: only an empty index stops the commit.
StageFails ==
  /\ At("staging")
  /\ Fails("add")
  /\ IF index = {} THEN EndAs("EXECUTION_FAILED") ELSE Goto("committing") /\ UNCHANGED status
  /\ UNCHANGED <<target, gitVars, remoteVars>>

Commit ==
  /\ At("committing")
  /\ tip' = [tip EXCEPT ![head] = @ \cup index]
  /\ index' = {}
  /\ Goto("pushing")
  /\ UNCHANGED <<branches, head, work, failed, runVars, remoteVars>>

\* git commit fails, or the git diff --cached before it, which then shows no
\* file: what is staged stays staged.
CommitFails ==
  /\ At("committing")
  /\ \E command \in {"cached", "commit"} : Fails(command)
  /\ EndAs("EXECUTION_FAILED")
  /\ UNCHANGED <<target, gitVars, remoteVars>>

\* git push of the branch; the remote takes a fast forward only.
Push ==
  LET b == BranchOf[cur]
  IN /\ At("pushing")
     /\ IF origin[b] \subseteq tip[b]
        THEN /\ origin' = [origin EXCEPT ![b] = tip[b]]
             /\ pushed' = pushed \cup {b}
             /\ Goto("opening")
             /\ UNCHANGED status
        ELSE EndAs("EXECUTION_FAILED") /\ UNCHANGED <<origin, pushed>>
     /\ UNCHANGED <<prs, target, failed, gitVars>>

\* A push whose failure is taken for a success.
MutPushFailsSilently ==
  /\ At("pushing")
  /\ Fails("push")
  /\ Goto("opening")
  /\ UNCHANGED <<runVars, gitVars, remoteVars>>

PushFails ==
  /\ At("pushing")
  /\ Fails("push")
  /\ EndAs("EXECUTION_FAILED")
  /\ UNCHANGED <<target, gitVars, remoteVars>>

\* _open_pr; GitHub refuses a second one for the same two branches.
OpenPr ==
  /\ At("opening")
  /\ IF \E q \in prs : BranchOf[q] = BranchOf[cur] /\ BaseOf[q] = BaseOf[cur]
     THEN UNCHANGED prs /\ EndAs("EXECUTION_FAILED")
     ELSE prs' = prs \cup {cur} /\ EndAs("EXECUTED")
  /\ UNCHANGED <<origin, pushed, target, failed, gitVars>>

OpenPrFails ==
  /\ At("opening")
  /\ Fails("pr")
  /\ EndAs("EXECUTION_FAILED")
  /\ UNCHANGED <<target, gitVars, remoteVars>>

-----------------------------------------------------------------------------
(* The world.                                                               *)

\* Another developer changes a file on a base branch.
OthersPush(b) ==
  /\ \E f \in Files : origin' = [origin EXCEPT ![b] = @ \cup {[by |-> Others, file |-> f]}]
  /\ UNCHANGED <<pushed, prs, pc, cur, failed, crashes, runVars, gitVars>>

\* A pull request is merged.
MergePr(p) ==
  /\ p \in prs
  /\ origin' = [origin EXCEPT ![BaseOf[p]] = @ \cup origin[BranchOf[p]]]
  /\ UNCHANGED <<pushed, prs, pc, cur, failed, crashes, runVars, gitVars>>

\* The process stops between two commands; the restart ends what was running
\* (JobStore's Recover) and leaves the checkout as it is.
Crash ==
  /\ crashes < MaxCrashes
  /\ crashes' = crashes + 1
  /\ cur # NoPlan
  /\ EndAs(IF status[cur] = "executing" THEN "EXECUTION_FAILED" ELSE "analysed")
  /\ UNCHANGED <<target, failed, gitVars, remoteVars>>

-----------------------------------------------------------------------------
Next ==
  \/ \E i \in Plans : SwitchToBase(i)
  \/ PullBase \/ Propose \/ ProposeNothing
  \/ \E p \in Plans : Approve(p) \/ Execute(p) \/ MergePr(p)
  \/ PrepareBranch \/ PrepareBranchFails \/ DirtyGate \/ DirtyGateBlind
  \/ AgentWrites \/ AcceptPatch \/ BlockPatch \/ RestoreFails
  \/ StageAll \/ StageFails \/ Commit \/ CommitFails
  \/ Push \/ PushFails \/ OpenPr \/ OpenPrFails
  \/ \E b \in Bases : OthersPush(b)
  \/ Crash

Spec == Init /\ [][Next]_vars

-----------------------------------------------------------------------------
(* What holds, through failing commands and crashes.                        *)

\* Plans that were started.
Ran == {"executing", "EXECUTED", "EXECUTION_FAILED"}

\* The scope check of a plan that was started lets an edit of this file pass.
\* That plan made the edit, unless git diff has failed at a dirty gate.
Accepted(e) ==
  \/ e.by = Others
  \/ \E p \in Plans :
       /\ status[p] \in Ran
       /\ Normal[e.file] \in AllowedFixFiles(p)
       /\ p = e.by \/ "diff" \in failed

\* An edit that no scope check accepts is never committed, whatever a crash or
\* a failed command leaves in the checkout for the next run (code_fix.py
\* 150-177 and 551-569).
CommittedWasChecked ==
  \A b \in Branches : \A e \in tip[b] \cup origin[b] : Accepted(e)

\* While an agent works, the edits of the work tree are its own: what an
\* earlier run left behind is not validated as if it were this patch.  This is
\* what the dirty gate is for, and it holds as long as its git diff has not
\* failed: the return code is not read (code_fix.py 134-136).
PatchIsOwn ==
  "diff" \notin failed /\ pc \in {"patching", "staging"} => \A e \in work : e.by = cur

\* A fix never lands on a base branch except by the merge of a pull request.
BasesFollowOrigin ==
  \A b \in Bases : tip[b] \subseteq origin[b]

\* The two failures after which a plan can be executed without an edit of its
\* own: git add, when an earlier commit has left something staged, and the git
\* diff of the dirty gate, when an earlier run has left its edits.
PatchUnsure == failed \cap {"add", "diff"} # {}

\* A plan that is reported as executed has a pull request, from a branch that
\* the remote has and that contains the plan's edit (code_fix.py 111-131 and
\* 817-856), the two unread return codes of PatchUnsure excepted.
ExecutedHasItsPr ==
  \A p \in Plans : status[p] = "EXECUTED" =>
    /\ p \in prs
    /\ BranchOf[p] \in pushed
    /\ PatchUnsure \/ \E e \in origin[BranchOf[p]] : e.by = p

\* A commit that failed, or a run that a crash cut off before it, leaves edits
\* staged: they are invisible to the dirty gate and to both scope checks, which
\* read git diff (code_fix.py 134-136).
LeftStaged(e) ==
  /\ failed \cap {"cached", "commit"} # {} \/ crashes > 0
  /\ \E p \in Plans : status[p] = "EXECUTION_FAILED" /\ Normal[e.file] \in AllowedFixFiles(p)

\* A commit changes the buggy file of the plan it is for; what else it takes
\* along (git add -A and git commit, code_fix.py 115-122) passed the scope check
\* of a plan that has failed since, and never with all commands well.
CommitStaysInScope ==
  [][pc = "committing" =>
       \A b \in FixBranches : \A e \in tip'[b] \ tip[b] :
         Normal[e.file] \in AllowedFixFiles(cur) \/ LeftStaged(e)]_vars

-----------------------------------------------------------------------------
(* What the executor owes the worker that starts it (JobWorker).            *)

\* An incident without a plan has none to decide.
PhaseOf(p) ==
  CASE status[p] \in {"none", "analysed"} -> "none"
    [] status[p] = "waiting" -> "proposed"
    [] status[p] = "approved" -> "approved"
    [] status[p] = "executing" -> "running"
    [] OTHER -> "settled"

RC == INSTANCE RemediationContract WITH phase <- [p \in Plans |-> PhaseOf(p)]

\* Through failing commands and crashes, a plan passes once through the contract.
ImplementsContract == RC!Contract

\* A fix branch changes, here and on the remote, and a pull request is opened,
\* only while a plan of that branch runs (code_fix.py 100-193).
EffectsWhileRunning ==
  [][/\ \A b \in FixBranches : tip'[b] # tip[b] \/ origin'[b] # origin[b] =>
          \E p \in Plans : BranchOf[p] = b /\ PhaseOf(p) = "running"
     /\ \A p \in prs' \ prs : PhaseOf(p) = "running"]_vars

-----------------------------------------------------------------------------
(* The invariant behind the first three.                                    *)

IncidentPoints == {"pulling", "analysing"}
OnBranchPoints == {"gating", "patching", "staging", "committing", "pushing"}

Stored(e) == e \in index \/ \E b \in Branches : e \in tip[b] \cup origin[b]

\* What the worker knows at each point: an execution stands on its branch from
\* the switch to the push, and only a checked patch is staged.
RunInv ==
  /\ pc # "idle" => cur \in Plans
  /\ pc = "idle" => cur = NoPlan
  /\ pc \in IncidentPoints => status[cur] = "none"
  /\ pc = "pulling" => head \in Bases
  /\ pc \in Points \ ({"idle"} \cup IncidentPoints) => status[cur] = "executing"
  /\ pc \in OnBranchPoints => head = BranchOf[cur]
  /\ pc = "staging" => \A e \in work : Accepted(e)

FixInv ==
  /\ TypeOK
  /\ \A e \in Edits : Stored(e) => Accepted(e)
  /\ PatchIsOwn
  /\ BasesFollowOrigin
  /\ RunInv

\* From an accepted patch to the pull request, the plan's own edit is on its way.
PrInv ==
  /\ pc = "staging" => PatchUnsure \/ \E e \in work : e.by = cur
  /\ pc = "committing" => PatchUnsure \/ \E e \in index : e.by = cur
  /\ pc = "pushing" => PatchUnsure \/ \E e \in tip[BranchOf[cur]] : e.by = cur
  /\ pc = "opening" =>
       /\ BranchOf[cur] \in pushed
       /\ PatchUnsure \/ \E e \in origin[BranchOf[cur]] : e.by = cur
  /\ ExecutedHasItsPr

\* What is staged waits for the commit of its plan, or was left by an earlier one.
StageInv ==
  /\ pc = "staging" => \A e \in work : Normal[e.file] \in AllowedFixFiles(cur)
  /\ \A e \in index :
       \/ pc = "committing" /\ Normal[e.file] \in AllowedFixFiles(cur)
       \/ LeftStaged(e)

-----------------------------------------------------------------------------
(* What the code says of itself and does not keep.                          *)

\* code_fix.py 144-145 and 472: a plan touches the RCA's file.  What its pull
\* request adds to the base branch when it is opened is the plan's own.
PrHoldsOnlyItsFix ==
  [][\A p \in prs' \ prs :
       \A e \in origin[BranchOf[p]] \ origin[BaseOf[p]] : e.by = p]_vars
=============================================================================
