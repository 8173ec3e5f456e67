CONSTANTS
  Columns <- MCColumns
  Waters <- MCWaters
  Solids <- MCSolids
  NoWater <- MCNoWater
  Equilibrated <- MCEquilibrated
  Integrated <- MCIntegrated
  Mixed <- MCMixed
  Exchanged <- MCExchanged
  MaxShifts = 2
  MaxRuns = 2
SPECIFICATION Spec
INVARIANTS TypeOK GivenOnceAShift
PROPERTY ColumnSpec
CHECK_DEADLOCK FALSE
