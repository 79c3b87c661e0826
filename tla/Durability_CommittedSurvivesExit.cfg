SPECIFICATION DSpec
CONSTANTS
  Keys <- MCOneKey
  Vals <- MCVals
  NoRow = NoRow
  Null = Null
  RowsPerPage = 1
  MaxPages = 2
  MaxRows = 1
  MaxTxns = 3
  MaxChanges = 2
  OneRowKeyUpdates = TRUE
  Strays <- MCStrays
  MaxStarts = 2
  MaxLog = 9
INVARIANT
  CommittedSurvivesExit
CHECK_DEADLOCK FALSE
