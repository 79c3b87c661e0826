SPECIFICATION Spec
CONSTANTS
  IntBytes = 1
  KeySize = 3
  Files <- MCFiles
  Texts <- MCTexts
  Meant <- MCMeant
  MaxStatements = 1
  LastQuery = 0
  KnownDefects = {"inverted unique"}
INVARIANT
  UniqueKeys
CHECK_DEADLOCK FALSE
