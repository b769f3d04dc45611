CONSTANTS
  StackSize = 4
  BufferSize = 4
  MaxBuffer = 8
  KeepItems = FALSE
  Kept <- MCKept
  Configs <- MCConfigs
SPECIFICATION Spec
INVARIANT AssertsHold
INVARIANT ReaderFollowsParser
PROPERTY IsADocument
CHECK_DEADLOCK FALSE
