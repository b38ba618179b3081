CONSTANTS
  d1 = d1
  c1 = c1
  c2 = c2
  c3 = c3
  Deliveries <- OneDelivery
  MaxJobs = 3
  Connections <- ThreeConnections
  NoConnection = NoConnection
SPECIFICATION TxnSpec
SYMMETRY ConnectionSymmetry
PROPERTY ImplementsJobStore
CHECK_DEADLOCK FALSE
