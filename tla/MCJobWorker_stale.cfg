CONSTANTS
  d1 = d1
  d2 = d2
  Deliveries <- OneDelivery
  MaxJobs = 2
  Unregistered <- AllRegistered
  MaxCrashes = 0
  MaxFaults = 0
SPECIFICATION Spec
INVARIANT DashboardShowsOutcome
CHECK_DEADLOCK FALSE
