SPECIFICATION PSpec
CONSTANTS
  Pids = {1, 2}
  MaxNodes = 2
  MaxHeaps = 2
  MaxFiles = 1
  Ops <- AllOps
  MayOverlap <- UsesOverlap
  BadBuffers = {}
  EmptyPop = 1
  DestroyedNull = 0
  KeysOf <- KeysOfBoth
  Types <- AllTypes
  Sizes = {1, 2}
  MaxHeapSize = 2
  Program <- ProgramPerKey
INVARIANTS NeverMismatch
