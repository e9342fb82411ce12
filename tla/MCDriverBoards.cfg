SPECIFICATION Spec
CONSTANTS
  MaxBoard = 2
  MaxDev = 3
  FdBase = 256
  Forbid = "forbid"
  Tty = "TTY"
  Names <- MCNames
  StartsWith <- MCStartsWith
  Drivers <- MCDrivers
  Ops <- MCOps
  BoardReqs = {"mini2440", "other"}
  Registrations <- BootRegistrations
  Paths <- BootPaths
  NullMatch = {FALSE}
  Reregister = FALSE
  ConsoleFirst = TRUE
INVARIANT BoardFromPool
CHECK_DEADLOCK FALSE
