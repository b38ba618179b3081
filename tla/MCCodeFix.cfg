CONSTANTS
  p1 = p1
  p2 = p2
  main = main
  fix1 = fix1
  fix2 = fix2
  f1 = f1
  f2 = f2
  NoFile = NoFile
  NoPlan = NoPlan
  Others = Others
  Plans <- TwoPlans
  Files <- TwoFiles
  FixBranches <- TwoBranches
  Bases <- OneBase
  BaseOf <- BothOnMain
  BranchOf <- SharedBranch
  Normal <- SamePaths
  MayFail <- AllCommands
  MaxCrashes = 1
SPECIFICATION Spec
INVARIANT CommittedWasChecked
INVARIANT PatchIsOwn
INVARIANT BasesFollowOrigin
INVARIANT ExecutedHasItsPr
PROPERTY CommitStaysInScope
CHECK_DEADLOCK FALSE
