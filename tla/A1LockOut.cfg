SPECIFICATION Spec
CONSTANTS
  Pids = {1, 2}
  MaxNodes = 3
  MaxHeaps = 2
  MaxFiles = 2
  Ops <- TableOps
  MayOverlap <- ReleaseOverlap
  BadBuffers = {}
  EmptyPop = 1
  DestroyedNull = 0
  KeysOf <- OneKey
  Types <- MinType
  Sizes = {1}
  MaxHeapSize = 2
INVARIANTS RefusesOnlyOpeners
