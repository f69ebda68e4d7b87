SPECIFICATION Spec
CONSTANTS
  Tasks = 2
  MaxCalls = 3
  MaxOutages = 2
CHECK_DEADLOCK FALSE
INVARIANT ClaimsAreBacked
PROPERTY RowsAreKept
