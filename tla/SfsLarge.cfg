SPECIFICATION Spec
CONSTANTS
  W = 16
  NWords = 262
  JunkWord = 0
  Ops = {"format", "mount", "create_file", "write_i"}
  MaxFiles = 1
  Inumbers = {0}
  Reads = {}
  Writes <- Crossing
  DataAt <- WordOfOffset
  JunkIds = {65535}
INVARIANTS MetadataIntact
