SPECIFICATION Spec
CONSTANTS
  Uses <- MCUses
  Stops <- MCStops
  MaxReads = 1
  None = None
INVARIANTS
  TypeOK
  SolvesItsOwnModelUnlessTorn
  UnknownsFit
