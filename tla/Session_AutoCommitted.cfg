SPECIFICATION Spec
CONSTANTS
  Keys <- MCKeys
  Vals <- MCVals
  NoRow = NoRow
  Null = Null
  RowsPerPage = 2
  MaxPages = 2
  MaxRows = 2
  MaxTxns = 2
  MaxChanges = 2
  OneRowKeyUpdates = TRUE
INVARIANT
  AutoCommitted
