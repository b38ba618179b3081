SPECIFICATION FairSpec
CONSTANTS
  e1 = e1
  e2 = e2
  title = title
  incident = incident
  i1 = i1
  i2 = i2
  None = None
  NoEvent = NoEvent
  Workers = {w1, w2}
  Prints <- MCPrints
  Deliveries <- MCDeliveries
  MaxEvents = 2
  MaxCrashes = 1
INVARIANT EventsSurvive
INVARIANT OneActivePerDelivery
PROPERTY ImplementsQueue
INVARIANT DedupedWasQueued
PROPERTY EventsEnd
CHECK_DEADLOCK FALSE
