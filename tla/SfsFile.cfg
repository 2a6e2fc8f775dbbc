SPECIFICATION Spec
CONSTANTS
  W = 16
  NWords = 198
  JunkWord = 0
  Ops <- MainOps
  MaxFiles = 1
  Inumbers = {0}
  Reads <- FewReads
  Writes <- Pieces
  DataAt <- TwoWords
  JunkIds = {65535}
INVARIANTS TypeOK MetadataIntact BlocksAreMarked
PROPERTIES ImplementsFileStore
