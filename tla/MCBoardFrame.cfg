SPECIFICATION BoardSpec
CONSTANTS
  Room = 20
  Lens = {3}
  OldWords <- MCOldWords
  TextLen = 2
  DataLen = 1
  BssLen = 1
  KernelLen = 2
  MaxResets = 0
  START <- MCStart
  ProgramStack = 872144896
  MaxRaised = 2
INVARIANT FrameHasPc
CHECK_DEADLOCK FALSE
