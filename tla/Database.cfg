SPECIFICATION Spec
CONSTANTS
  IntBytes = 1
  KeySize = 3
  Files <- MCFiles
  Texts <- MCTexts
  Meant <- MCMeant
  MaxStatements = 4
  LastQuery = 0
  KnownDefects = {}
INVARIANTS
  DbTypeOK
  IndexesMatch
  ReferencesHold
  ReverseMapExact
  AutoValueFresh
  UniqueKeys
  RowsExact
  GroupsExact
  WindowsExact
  TopRows
  DistinctExact
  HeadersResolve
  ParsesBack
PROPERTIES
  DeletedIsClosure
  RollbackRestores
  FailureIsUndoable
  SelectReturns
CHECK_DEADLOCK FALSE
