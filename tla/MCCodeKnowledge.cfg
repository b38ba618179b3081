SPECIFICATION FairSpec
CONSTANTS
  A = A
  B = B
  P = P
  T = T
  Files <- MCFiles
  Java = {A, B}
  Parserless = {T}
  Versions <- MCVersions
  Decls <- MCDecls
  Calls <- MCCalls
  Imports <- MCImports
  Invalid <- MCInvalid
  Branches <- MCBranches
  Absent = Absent
  NoCache = NoCache
  Torn = Torn
  NoWrite = NoWrite
  None = None
  Semantic = TRUE
  MaxPushes = 2
  MaxFailures = 1
  MaxCrashes = 1
INVARIANT IngestionRepairs
INVARIANT CallsAreOfOneSnapshot
PROPERTY IngestsAgain
