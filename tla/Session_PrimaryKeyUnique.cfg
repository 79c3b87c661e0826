SPECIFICATION Spec
CONSTANTS
  Keys <- MCThreeKeys
  Vals <- MCVals
  NoRow = NoRow
  Null = Null
  RowsPerPage = 2
  MaxPages = 2
  MaxRows = 2
  MaxTxns = 2
  MaxChanges = 2
  OneRowKeyUpdates = FALSE
INVARIANT
  PrimaryKeyUnique
