SPECIFICATION DSpec
CONSTANTS
  Keys <- MCOneKey
  Vals <- MCVals
  NoRow = NoRow
  Null = Null
  RowsPerPage = 1
  MaxPages = 2
  MaxRows = 1
  MaxTxns = 1
  MaxChanges = 2
  OneRowKeyUpdates = TRUE
  Strays <- MCStrays
  MaxStarts = 3
  MaxLog = 6
INVARIANT
  UncommittedEvaporates
CHECK_DEADLOCK FALSE
