SPECIFICATION Spec
CONSTANTS
  Users <- MCUsers
  MaxDefinitions = 1
  MaxSimulations = 2
  MaxRows = 2
INVARIANTS
  TypeOK
  TablesForDefinitions
  BuffersMatchTable
