SPECIFICATION Spec
CONSTANTS
  W = 16
  NWords = 198
  JunkWord = 0
  Ops = {"format", "mount", "create_file", "remove_file", "write_i"}
  MaxFiles = 1
  Inumbers = {0}
  Reads <- WholeBlocks
  Writes <- WholeBlocks
  DataAt <- Ones
  JunkIds = {65535}
INVARIANTS BlocksAreItsOwn
