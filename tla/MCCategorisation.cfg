SPECIFICATION Spec
CONSTANTS
  t1 = t1
  t2 = t2
  Incidents <- MCIncidents
  Classified <- MCClassified
  AutoRouteL2 = TRUE
  MaxRecent = 3
INVARIANT WeakEvidenceIsReviewed
INVARIANT NobodyIsForgotten
PROPERTY AutomaticOnce
