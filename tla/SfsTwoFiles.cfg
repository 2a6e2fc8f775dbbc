SPECIFICATION Spec
CONSTANTS
  W = 16
  NWords = 182
  JunkWord = 0
  Ops <- MainOps
  MaxFiles = 2
  Inumbers = {0, 1}
  Reads <- TwoSmall
  Writes <- TwoSmall
  DataAt <- WordOfOffset
  JunkIds = {65535}
PROPERTIES InodesStayApart
