CONSTANTS
  Cells <- MCSecondOrder
  KinTime = 2
  Stops = FALSE
SPECIFICATION Spec
INVARIANT MassKept
CHECK_DEADLOCK FALSE
