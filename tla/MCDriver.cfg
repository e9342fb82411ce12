SPECIFICATION Spec
CONSTANTS
  MaxBoard = 2
  MaxDev = 3
  FdBase = 256
  Forbid = "forbid"
  Tty = "TTY"
  Names <- MCNames
  StartsWith <- MCStartsWith
  Drivers <- MCDrivers
  Ops <- MCOps
  BoardReqs = {"mini2440"}
  Registrations <- AnyRegistrations
  Paths <- AllPaths
  NullMatch = {FALSE}
  Reregister = FALSE
  ConsoleFirst = TRUE
INVARIANTS TypeOK RegisteredOpens ConsoleIsTty NeverCorrupt TablesAgree

PROPERTY DescriptorsStable
