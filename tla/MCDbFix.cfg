CONSTANTS
  p1 = p1
  p2 = p2
  Plans <- TwoPlans
  IssueCount = 3
  PoolFits = TRUE
  NoPlan = NoPlan
  MaxChanges = 1
SPECIFICATION Spec
SYMMETRY PlanSymmetry
INVARIANT ResolvedMeansRepaired
INVARIANT RepeatedRepairsFollowRelapses
INVARIANT AuditIsTrue
INVARIANT CompleteRepairVerifies
CHECK_DEADLOCK FALSE
