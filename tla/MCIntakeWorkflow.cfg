CONSTANTS
  i1 = i1
  i2 = i2
  title = title
  Incidents <- TwoIncidents
  Titles <- OneTitle
  TitleOf <- SameTitle
  Domains <- SomeDomains
  AgentOf <- RoutingTable
  Registered <- DatabaseAgents
  NoIncident = NoIncident
  AutoRouteL2 = FALSE
  CallsItself = TRUE
  MaxAttempts = 2
  Retried = {i1}
  MaxCrashes = 1
SPECIFICATION FairSpec
INVARIANT PlansAreGrounded
INVARIANT FailuresFailTheJob
INVARIANT ResponseTellsOfPlan
INVARIANT TwinsAreReviewed
PROPERTY ImplementsRun
CHECK_DEADLOCK FALSE
