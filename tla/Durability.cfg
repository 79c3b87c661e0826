SPECIFICATION DSpec
CONSTANTS
  Keys <- MCOneKey
  Vals <- MCVals
  NoRow = NoRow
  Null = Null
  RowsPerPage = 1
  MaxPages = 2
  MaxRows = 1
  MaxTxns = 2
  MaxChanges = 2
  OneRowKeyUpdates = TRUE
  Strays <- MCStrays
  MaxStarts = 3
  MaxLog = 5
INVARIANTS
  
  LsnsDense
  
  
  NothingUncommittedSurvives
  CleanRestartIsExact
CHECK_DEADLOCK FALSE
