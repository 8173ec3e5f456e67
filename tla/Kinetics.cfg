CONSTANTS
  Cells <- MCCells
  KinTime = 3
  Stops = TRUE
SPECIFICATION Spec
INVARIANTS TypeOK AttemptsStartAlike MassKept
CHECK_DEADLOCK FALSE
