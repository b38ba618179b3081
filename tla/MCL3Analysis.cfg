SPECIFICATION FairSpec
CONSTANTS
  Files = {A, B}
  Lines = {1, 2}
  Ranges <- MCRanges
  Unknown = Unknown
  NoDiagnosis = NoDiagnosis
  MaxRecords = 2
  MaxFollowUps = 1
  MaxCited = 1
  MaxEdits = 1
INVARIANT PlansAreVerified
INVARIANT ReadyIsNotLow
PROPERTY AnalysisEnds
