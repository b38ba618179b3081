CONSTANTS
  d1 = d1
  d2 = d2
  Deliveries <- OneDelivery
  MaxJobs = 3
  Unregistered <- AllRegistered
  MaxCrashes = 1
  MaxFaults = 0
SPECIFICATION FairSpec
PROPERTY EveryJobEnds
PROPERTY ImplementsFairContract
CHECK_DEADLOCK FALSE
