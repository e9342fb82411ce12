----------------------------- MODULE DriverProps -----------------------------
(***************************************************************************)
(* What callers of the driver layer rely on.                               *)
(***************************************************************************)
EXTENDS Driver

(* device_open never writes open[-1], the memory in front of the table:     *)
(* when no slot is left, every listed device is open already and the name   *)
(* search has found it, whatever names were given or changed meanwhile.     *)
NeverCorrupt == status # "corrupt"

(* The count, the class lists and the open table of a board agree: devs     *)
(* counts the listed devices, no device is listed twice or open in two      *)
(* slots, and only listed devices are open, in the first devs slots.        *)
CountAgrees(b) == devs[b] = Cardinality(Listed(b))
ListedOnce(b) ==
  \A c \in Classes, e \in Classes :
    \A k \in DOMAIN list[b][c], m \in DOMAIN list[b][e] :
      list[b][c][k] = list[b][e][m] => c = e /\ k = m
OpenAgrees(b, table) ==
  \A s \in Slots : table[b][s] # Null =>
    /\ table[b][s] \in Listed(b)
    /\ s < devs[b]
    /\ \A t \in Slots \ {s} : table[b][t] # table[b][s]
TablesAgree ==
  \A b \in Boards : CountAgrees(b) /\ ListedOnce(b) /\ OpenAgrees(b, open)

(* A descriptor means the same device for ever: later registrations and     *)
(* opens may fill other slots but never change a filled one.                *)
KeepsSlots == \A b \in Boards, s \in Slots :
                open[b][s] # Null => open'[b][s] = open[b][s]
DescriptorsStable == [][KeepsSlots]_vars

(* Opening a device that is registered in its class under a matching name   *)
(* gives a descriptor whose slot holds a device of that name, never an      *)
(* empty slot, however many devices were opened before.                     *)
RegisteredOpens ==
  answer # NoCall =>
    \A b \in UsedBoards :
      LET p == answer[1]
          fd == answer[2]
          d == open[FdBoard(fd)][FdSlot(fd)]
      IN  Like(type[b], p.board) /\ p.class \in Classes
            /\ FoundAt(b, p.class, p.device) # {}
          => fd # -1 /\ FdSlot(fd) \in Slots /\ d # Null /\ Like(dtype[d], p.device)

(* printf reaches the device registered as CPU/TTY, on its first call and   *)
(* on every later one through the descriptor it keeps; it never calls       *)
(* through an empty slot.                                                   *)
ConsoleIsTty ==
  /\ status # "wild"
  /\ console # Null => Like(dtype[console], Tty) /\ dclass[console] = "CPU"

(* What these two need of the callers.  No board is opened under a name that *)
(* a barred slot has too, and address 0 does not hold the name of a device;  *)
(* and who registers a TTY does it as a CPU device that can be written to,   *)
(* before the first printf and once.                                         *)
PathsClear ==
  NullMatch = {FALSE} /\ \A n \in {p.board : p \in Paths} \cup BoardReqs : ~Like(Forbid, n)

ConsoleCalls ==
  /\ PathsClear /\ ConsoleFirst /\ ~Reregister
  /\ \A r \in Registrations :
       Like(r.device, Tty) /\ DriversLike(r.driver) # {} =>
         r.class = "CPU" /\ "write" \in Ops[SetMin(DriversLike(r.driver))]

(* "System will alloc an blank board if it can not find this type"          *)
(* (drivers/driver.c:44): a request is answered from the pool.              *)
BoardFromPool == status # "outside"
-----------------------------------------------------------------------------
(***************************************************************************)
(* The inductive invariant of the proofs: TablesAgree, with a listed       *)
(* device's class being the class of its list, and boards that were never  *)
(* requested having nothing.                                               *)
(***************************************************************************)
RegistryTypes ==
  /\ type \in [Boards -> Names \cup {NoName}]
  /\ flag \in [Boards -> BOOLEAN]
  /\ devs \in [Boards -> Nat]
  /\ list \in [Boards -> [Classes -> Seq(Devices)]]
  /\ open \in [Boards -> [Slots -> Devices \cup {Null}]]
  /\ dtype \in [Devices -> Names \cup {NoName}]
  /\ dclass \in [Devices -> Classes]

UnusedInv ==
  \A b \in Boards :
    /\ flag[b] => type[b] # NoName
    /\ type[b] = NoName => /\ devs[b] = 0
                           /\ \A c \in Classes : list[b][c] = <<>>
                           /\ \A s \in Slots : open[b][s] = Null

ClassInv ==
  \A b \in Boards, c \in Classes :
    \A k \in DOMAIN list[b][c] : dclass[list[b][c][k]] = c

(* What TypeOK says beyond the registry. *)
CallTypes ==
  /\ ttyFd \in Fd /\ console \in Devices \cup {Null}
  /\ answer = NoCall \/ answer \in Paths \X Fd
  /\ status \in {"ok", "outside", "corrupt", "wild"}

(* One board is ever in use: the first that is requested bars the others.   *)
PoolInv ==
  \/ \A b \in Boards : type[b] = NoName /\ ~flag[b]
  \/ /\ type[0] \in BoardReqs /\ flag[0]
     /\ \A b \in Boards \ {0} : type[b] = Forbid /\ ~flag[b]

(* A listed device has its name and class from one registration of its      *)
(* driver.                                                                  *)
RegisteredBy(d, r) ==
  /\ DriversLike(r.driver) # {} /\ d = SetMin(DriversLike(r.driver))
  /\ dtype[d] = r.device /\ dclass[d] = r.class

ListedInv ==
  \A b \in Boards : \A d \in Listed(b) : \E r \in Registrations : RegisteredBy(d, r)

(* The descriptor printf keeps is that of a slot with the TTY.              *)
TtyDevice(d) == d \in Listed(0) /\ Like(dtype[d], Tty)

ConsoleInv ==
  /\ status # "wild"
  /\ ttyFd # -1 => \E s \in Slots : /\ ttyFd = GetFd(0, s) /\ open[0][s] # Null
                                   /\ TtyDevice(open[0][s])
  /\ console # Null => TtyDevice(console)

IInv == RegistryTypes /\ UnusedInv /\ ClassInv /\ TablesAgree /\ NeverCorrupt
=============================================================================
