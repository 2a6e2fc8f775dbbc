SPECIFICATION PSpec
CONSTANTS
  Pids = {1, 2}
  MaxNodes = 2
  MaxHeaps = 2
  MaxFiles = 1
  Ops <- AllOps
  MayOverlap <- UsesAndCloses
  BadBuffers = {}
  EmptyPop = 0
  DestroyedNull <- MinusEACCES
  KeysOf <- KeysOfBoth
  BytesOf <- MaxByWrite
  TypesOf <- MinByIoctl
  MaxHeapSize = 2
  Program <- Programs2
INVARIANTS ProgramsSucceed ResultsMatch
PROPERTIES ProgramsEnd PopsOwnHeap
