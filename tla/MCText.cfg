SPECIFICATION MCSpec
CONSTANTS
  WordBytes = 2
  CallMemories <- MCCallMemories
  TokenMemories <- MCTokenMemories
  Boards <- MCBoards
  Classes <- MCClasses
  Devices <- MCDevices
  OldBytes = {0, 47, 97}
  TmpSize = 17
  BufSize = 5
INVARIANTS PartsRight TokensRight
PROPERTY StringsRight
CHECK_DEADLOCK FALSE
