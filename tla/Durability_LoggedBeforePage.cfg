SPECIFICATION DSpec
CONSTANTS
  Keys <- MCOneKey
  Vals <- MCVals
  NoRow = NoRow
  Null = Null
  RowsPerPage = 1
  MaxPages = 2
  MaxRows = 1
  MaxTxns = 1
  MaxChanges = 2
  OneRowKeyUpdates = TRUE
  Strays <- MCStrays
  MaxStarts = 2
  MaxLog = 6
INVARIANT
  LoggedBeforePage
CHECK_DEADLOCK FALSE
