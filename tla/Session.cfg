SPECIFICATION FairSpec
CONSTANTS
  Files <- MCFiles
  Buffers <- MCBuffers
  Reports <- MCReports
  Escapes = FALSE
  MaxSimulations = 2
  MaxIncludes = 1
INVARIANTS
  TypeOK
  FilesFollowClient
  InputStackClean
  ResultTellsErrors
  ReturnedText
  BatchesNotMixed
PROPERTIES
  ContractSpec
  CallReturns
