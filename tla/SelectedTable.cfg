SPECIFICATION TableSpec
CONSTANTS
  Keys <- MCKeys
  Standard <- MCStandard
  ModelKeys <- MCModelKeys
  HeadingLists <- MCHeadingLists
  NoHeading <- MCNoHeading
  MaxPunches = 3
INVARIANTS
  TableTypeOK
  ColumnsFilled
PROPERTIES
  UserColumns
  RowsSpec
