SPECIFICATION BoardFairSpec
CONSTANTS
  Room = 20
  Lens = {0, 3, 20}
  OldWords <- MCOldWords
  TextLen = 2
  DataLen = 1
  BssLen = 1
  KernelLen = 2
  MaxResets = 1
  START <- MCStart
  ProgramStack = 872144896
  MaxRaised = 2
INVARIANTS SeesTheTags CmdlineIntact JumpsToWhole ReturnsAsLeft AbortsTrap
PROPERTY Boots
CHECK_DEADLOCK FALSE
