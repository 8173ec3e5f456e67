SPECIFICATION FairSpec
CONSTANTS
  Files <- MCFiles
  Buffers <- MCBuffers
  Reports <- MCReports
  Escapes = TRUE
  MaxSimulations = 1
  MaxIncludes = 1
INVARIANTS
  ResultTellsErrors
CHECK_DEADLOCK FALSE
