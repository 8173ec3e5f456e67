SPECIFICATION Spec
CONSTANTS
  Assemblages <- MCAssemblages
  Numbers <- MCNumbers
  Defined <- MCDefined
  MaxSteps = 2
  MaxSimulations = 2
  MaxKeywords = 3
INVARIANTS
  TypeOK
  NewAreCalculatedUnlessStopped
  RequestsCarriedOutOnce
PROPERTIES
  StoreSpec
  ReactionsAtomic
CHECK_DEADLOCK FALSE
