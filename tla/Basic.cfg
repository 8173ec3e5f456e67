SPECIFICATION ProgramSpec
CONSTANTS
  Vars <- MCVars
  Items <- MCItems
  Blocks <- MCBlocks
  Broken <- MCBroken
  Programs <- MCPrograms
  MaxRuns = 2
INVARIANTS
  RunsAsWritten
PROPERTIES
  RunsByBlocks
  RunEnds
CHECK_DEADLOCK FALSE
