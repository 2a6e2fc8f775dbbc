SPECIFICATION PSpec
CONSTANTS
  Pids = {1, 2}
  MaxNodes = 3
  MaxHeaps = 3
  MaxFiles = 1
  Ops <- AllOps
  MayOverlap <- AllOverlap
  BadBuffers = {}
  EmptyPop = 1
  DestroyedNull = 0
  KeysOf <- KeysOfBoth
  Types <- AllTypes
  Sizes = {1, 2}
  MaxHeapSize = 2
  Program <- Programs2
INVARIANTS MutexIsHeldInside ProgramsSucceed ResultsMatch
PROPERTIES ProgramsEnd
