SPECIFICATION Spec
CONSTANTS
  Pids = {1, 2}
  MaxNodes = 3
  MaxHeaps = 2
  MaxFiles = 1
  Ops = {"open", "write2", "write4", "read", "release"}
  MayOverlap <- ReleaseOverlap
  BadBuffers = {}
  EmptyPop = 1
  DestroyedNull = 0
  KeysOf <- OneKey
  Types <- MinType
  Sizes = {1}
  MaxHeapSize = 2
INVARIANTS FilesHaveEntries HeapsAreOwned WalksEnd
PROPERTIES KeysStayApart
