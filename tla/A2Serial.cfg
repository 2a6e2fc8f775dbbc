SPECIFICATION Spec
CONSTANTS
  Pids = {1, 2}
  MaxNodes = 2
  MaxHeaps = 2
  MaxFiles = 1
  Ops <- IoctlOps
  MayOverlap <- TakeTurns
  BadBuffers = {1}
  EmptyPop = 0
  DestroyedNull <- MinusEACCES
  KeysOf <- NullKey
  BytesOf <- TwoBytesOf
  TypesOf <- MaxByIoctl
  MaxHeapSize = 2
VIEW Live
INVARIANTS TypeOK HeapsAreOwned NoFault InfoTellsHeap NothingLeft
PROPERTIES ImplementsPrivateHeaps
