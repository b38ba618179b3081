CONSTANTS
  p1 = p1
  p2 = p2
  main = main
  fix1 = fix1
  fix2 = fix2
  f1 = f1
  f2 = f2
  NoFile = NoFile
  NoPlan = NoPlan
  Others = Others
  Plans <- TwoPlans
  Files <- TwoFiles
  FixBranches <- TwoBranches
  Bases <- OneBase
  BaseOf <- BothOnMain
  BranchOf <- OwnBranches
  Normal <- SamePaths
  MayFail <- Nothing
  MaxCrashes = 0
SPECIFICATION Spec
PROPERTY PrHoldsOnlyItsFix
CHECK_DEADLOCK FALSE
