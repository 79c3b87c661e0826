SPECIFICATION BSpec
CONSTANTS
  MaxPages = 4
  Contents <- MCContents
  Zero = 0
  Capacity = 3
  HoldMax = 2
INVARIANTS
  BTypeOK
  HeldIsCached
  ListOK
  BInv
PROPERTY
  StoreSpec
