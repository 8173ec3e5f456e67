SPECIFICATION FairSpec
CHECK_DEADLOCK FALSE
CONSTANTS
  NSolns = 3
  NPhases = 3
  IntBits = 7
  LongBits = 10
  ModelSets <- MCModelSets
INVARIANTS
  TypeOK
  ModelsOnce
  AllMinimalFound
PROPERTIES
  SearchEnds
