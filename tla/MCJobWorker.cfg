CONSTANTS
  d1 = d1
  d2 = d2
  Deliveries <- TwoDeliveries
  MaxJobs = 3
  Unregistered <- FirstUnregistered
  MaxCrashes = 1
  MaxFaults = 1
SPECIFICATION Spec
SYMMETRY DeliverySymmetry
INVARIANT ExecutedOnlyIfApproved
INVARIANT AtMostOneExecution
INVARIANT DecisionIsDurable
INVARIANT OneLiveJobPerDelivery
INVARIANT CompletedJobIsShown
INVARIANT EndedJobIsShown
INVARIANT ApprovedHasContinuation
PROPERTY FinishedJobsStay
PROPERTY ImplementsContract
CHECK_DEADLOCK FALSE
