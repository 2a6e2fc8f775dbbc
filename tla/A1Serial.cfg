SPECIFICATION Spec
CONSTANTS
  Pids = {1, 2}
  MaxNodes = 2
  MaxHeaps = 2
  MaxFiles = 2
  Ops <- SerialOps
  MayOverlap <- TakeTurns
  BadBuffers = {1}
  EmptyPop = 1
  DestroyedNull = 0
  KeysOf <- OwnKeys
  Types <- MinType
  Sizes = {2, 3}
  MaxHeapSize = 2
INVARIANTS TypeOK TableMatchesFiles HeapsAreOwned NoFault NothingLeft
PROPERTIES ImplementsPrivateHeaps
