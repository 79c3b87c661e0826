SPECIFICATION TSpec
CONSTANTS
  Rows <- MCUniqueRows
  LeafOrder = 2
  InternalOrder = 3
  MaxNodes = 8
  AtSeparator = FALSE
  RightLends = FALSE
INVARIANTS
  TTypeOK
  PointQueriesExact
  RangeQueriesExact
  Balanced
  TInv
