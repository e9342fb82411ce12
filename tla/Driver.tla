------------------------------- MODULE Driver -------------------------------
(***************************************************************************)
(* drivers/driver.c: the pool of boards, the devices registered on them,   *)
(* and the descriptors device_open hands out; and the one client that      *)
(* keeps a descriptor across calls, the console of printf (lib/printf.c).  *)
(*                                                                         *)
(* Names are compared by strncmp(have, want, strlen(want)): "have starts   *)
(* with want".  The names are abstract, StartsWith is that relation.       *)
(***************************************************************************)
EXTENDS Integers, Sequences, FiniteSets

CONSTANTS
  MaxBoard, MaxDev,   \* MAX_BOARD and MAX_DEV
  FdBase,             \* 2^BOARD_MASK: one byte of a descriptor (256)
  Names,              \* board, driver and device names
  StartsWith,         \* the pairs <<have, want>> that strncmp takes for equal
  Drivers,            \* the driver section, in link order: their drv names
  Ops,                \* for each of them, the d_ops its driver fills in
  Forbid,             \* the type board_req writes into the slots it bars
  Tty,                \* the device name printf looks for
  BoardReqs,          \* the names callers pass to board_req
  Registrations,      \* the [class, driver, device] triples they register
  Paths,              \* the [board, class, device] triples they open
  NullMatch,          \* outcomes of comparing a name with *(char **)NULL
  Reregister,         \* do callers register a driver that is already listed?
  ConsoleFirst        \* do they register the TTY before they print?

Classes == {"CPU", "RAM", "NOR", "NAND"}
Boards == 0..MaxBoard-1
Slots == 0..MaxDev-1
Devices == DOMAIN Drivers      \* one device_t per entry of the section
Null == 0                      \* no device
NoName == "NULL"               \* a type that is still the null pointer
NoCall == <<>>

ASSUME SizeAssumption ==
  /\ MaxBoard \in Nat \ {0} /\ MaxDev \in Nat \ {0}
  /\ FdBase \in Nat /\ FdBase > MaxDev
  /\ Len(Drivers) <= MaxDev
ASSUME NameAssumption ==
  /\ Drivers \in Seq(Names)
  /\ Ops \in [Devices -> SUBSET {"open", "read", "write", "ioctl", "close"}]
  /\ StartsWith \subseteq Names \X Names
  /\ \A n \in Names : <<n, n>> \in StartsWith
  /\ {Forbid, Tty} \cup BoardReqs \subseteq Names
  /\ NoName \notin Names
ASSUME CallAssumption ==
  /\ Registrations \subseteq [class : Classes, driver : Names, device : Names]
  /\ Paths \subseteq [board : Names, class : Classes \cup {"?"}, device : Names]
  /\ NullMatch \subseteq BOOLEAN /\ NullMatch # {}
  /\ Reregister \in BOOLEAN /\ ConsoleFirst \in BOOLEAN

VARIABLES
  type, flag, devs,   \* board_pool[b].type, .flag (in use) and .devs
  list,               \* board_pool[b].<class>_list, its devices from the head
  open,               \* board_pool[b].open[]
  dtype, dclass,      \* type and class of each device_t
  ttyFd,              \* printf's static tty_fd
  console,            \* the device the last printf reached, or Null
  answer,             \* <<path, fd>> of the device_open that just returned
  status              \* "ok", or how the program left its data structures

vars == <<type, flag, devs, list, open, dtype, dclass, ttyFd, console, answer,
          status>>

Fd == -1 .. MaxBoard * FdBase - 1

TypeOK ==
  /\ type \in [Boards -> Names \cup {NoName}]
  /\ flag \in [Boards -> BOOLEAN]
  /\ devs \in [Boards -> 0..Len(Drivers)]
  /\ list \in [Boards -> [Classes -> Seq(Devices)]]
  /\ open \in [Boards -> [Slots -> Devices \cup {Null}]]
  /\ dtype \in [Devices -> Names \cup {NoName}]
  /\ dclass \in [Devices -> Classes]
  /\ ttyFd \in Fd
  /\ console \in Devices \cup {Null}
  /\ answer = NoCall \/ answer \in Paths \X Fd
  /\ status \in {"ok", "outside", "corrupt", "wild"}

Init ==
  /\ type = [b \in Boards |-> NoName]
  /\ flag = [b \in Boards |-> FALSE]
  /\ devs = [b \in Boards |-> 0]
  /\ list = [b \in Boards |-> [c \in Classes |-> <<>>]]
  /\ open = [b \in Boards |-> [s \in Slots |-> Null]]
  /\ dtype = [d \in Devices |-> NoName]
  /\ dclass = [d \in Devices |-> "CPU"]
  /\ ttyFd = -1
  /\ console = Null
  /\ answer = NoCall
  /\ status = "ok"

-----------------------------------------------------------------------------
SetMin(S) == CHOOSE x \in S : \A y \in S : x <= y
SetMax(S) == CHOOSE x \in S : \A y \in S : x >= y

Like(have, want) == <<have, want>> \in StartsWith
Members(s) == {s[k] : k \in DOMAIN s}
Listed(b) == UNION {Members(list[b][c]) : c \in Classes}

(* The driver register_device finds: the first that starts with the name. *)
DriversLike(name) == {d \in Devices : Like(Drivers[d], name)}

(* cur_board: the first slot in use. *)
UsedBoards == {b \in Boards : flag[b]}

(* board_req. The search ends at the first null type; a name that is not    *)
(* found takes that slot, is initialised, and bars all the slots above it.  *)
(* With every slot named it takes the slot behind the pool.                 *)
BoardReq(name) ==
  LET free == {b \in Boards : type[b] = NoName}
      end == IF free = {} THEN MaxBoard ELSE SetMin(free)
      found == {b \in 0..end-1 : Like(type[b], name)}
  IN  /\ status = "ok"
      /\ answer' = NoCall
      /\ UNCHANGED <<devs, dtype, dclass, ttyFd, console>>
      /\ \/ /\ found # {}
            /\ UNCHANGED <<type, flag, list, open, status>>
         \/ /\ found = {} /\ end = MaxBoard
            /\ status' = "outside"
            /\ UNCHANGED <<type, flag, list, open>>
         \/ /\ found = {} /\ end < MaxBoard
            /\ type' = [b \in Boards |-> IF b = end THEN name
                                         ELSE IF b > end THEN Forbid ELSE type[b]]
            /\ flag' = [flag EXCEPT ![end] = TRUE]
            /\ list' = [list EXCEPT ![end] = [c \in Classes |-> <<>>]]
            /\ open' = [open EXCEPT ![end] = [s \in Slots |-> Null]]
            /\ UNCHANGED status

(* Mutant: a refused device is counted. *)
AddDeviceCounted(b, d, class, name) ==
  /\ list' = IF \E p \in Members(list[b][class]) : Like(dtype'[p], name)
             THEN list ELSE [list EXCEPT ![b][class] = <<d>> \o @]
  /\ devs' = [devs EXCEPT ![b] = @ + 1]

(* add_device: refuses a name that the class list already has, and puts the *)
(* device at the head of the list otherwise. It runs after register_device  *)
(* has named the device.                                                    *)
AddDevice(b, d, class, name) ==
  LET taken == \E p \in Members(list[b][class]) : Like(dtype'[p], name)
  IN  \/ taken /\ UNCHANGED <<devs, list>>
      \/ /\ ~taken
         /\ list' = [list EXCEPT ![b][class] = <<d>> \o @]
         /\ devs' = [devs EXCEPT ![b] = @ + 1]

(* register_device. The device gets its name and class before add_device    *)
(* may refuse it. Callers never move a listed device to another list, which *)
(* would link its node into both.                                           *)
RegisterDevice(b, r) ==
  LET found == DriversLike(r.driver)
      d == SetMin(found)
  IN  /\ status = "ok" /\ flag[b]
      /\ answer' = NoCall
      /\ UNCHANGED <<type, flag, open, ttyFd, console, status>>
      /\ \/ found = {} /\ UNCHANGED <<devs, list, dtype, dclass>>
         \/ /\ found # {}
            /\ d \in Listed(b) => Reregister /\ dclass[d] = r.class
            /\ \A a \in Boards \ {b} : d \notin Listed(a)
            /\ dtype' = [dtype EXCEPT ![d] = r.device]
            /\ dclass' = [dclass EXCEPT ![d] = r.class]
            /\ AddDevice(b, d, r.class, r.device)

-----------------------------------------------------------------------------
(* GET_FD, and the two halves a descriptor is split into. A missing slot    *)
(* (nd = -1) becomes the byte 255.                                          *)
GetFd(nb, nd) == nb * FdBase + (nd % FdBase)
FdBoard(fd) == (fd \div FdBase) % FdBase
FdSlot(fd) == fd % FdBase

(* Mutants: the search compares the other way round; it stops one slot too  *)
(* early; it takes the last slot whether or not it is empty.                *)
HitsSwapped(b, name, g) ==
  {s \in 0..devs[b]-1 : IF open[b][s] = Null THEN g
                        ELSE Like(name, dtype[open[b][s]])}
EmptySlotsShort(b) == {s \in 0..devs[b]-2 : open[b][s] = Null}
EmptySlotsAny(b) == 0..devs[b]-1

(* The slots of board b the search of device_open stops at. It reads the    *)
(* type behind a null slot before it tests the slot; g is the outcome.      *)
Hits(b, name, g) ==
  {s \in 0..devs[b]-1 : IF open[b][s] = Null THEN g
                        ELSE Like(dtype[open[b][s]], name)}
EmptySlots(b) == {s \in 0..devs[b]-1 : open[b][s] = Null}

(* The devices FIND_DEVICE opens, as positions of the class list. *)
FoundAt(b, class, name) ==
  {k \in DOMAIN list[b][class] :
      LET d == list[b][class][k] IN Like(dtype[d], name) /\ dclass[d] = class}

(* What device_open does for a path, when comparing with the null slot's    *)
(* type comes out as g: the descriptor, the open table and the status it    *)
(* leaves. Of several devices found the last stays in the slot; the slot -1 *)
(* is the memory in front of the table.                                     *)
OpenWith(path, g) ==
  LET boards == {b \in Boards : Like(type[b], path.board)}
      nb == SetMax(boards)
      hits == Hits(nb, path.device, g)
      nd == IF EmptySlots(nb) = {} THEN -1 ELSE SetMax(EmptySlots(nb))
      at == FoundAt(nb, path.class, path.device)
      result(fd, table, st) == [fd |-> fd, open |-> table, status |-> st]
  IN  CASE boards = {} -> result(-1, open, status)
        [] boards # {} /\ hits # {} -> result(GetFd(nb, SetMin(hits)), open, status)
        [] boards # {} /\ hits = {} /\ path.class \notin Classes ->
             result(-1, open, status)
        [] boards # {} /\ hits = {} /\ path.class \in Classes /\ at = {} ->
             result(GetFd(nb, nd), open, status)
        [] boards # {} /\ hits = {} /\ path.class \in Classes /\ at # {} ->
             IF nd < 0
             THEN result(GetFd(nb, nd), open, "corrupt")
             ELSE result(GetFd(nb, nd),
                         [open EXCEPT ![nb][nd] = list[nb][path.class][SetMax(at)]],
                         status)

Opens(path) == {OpenWith(path, g) : g \in NullMatch}

(* device_open. Callers have requested a board: before that every type of   *)
(* the pool is a null pointer to strncmp.                                   *)
DeviceOpen(path) ==
  /\ status = "ok"
  /\ UsedBoards # {}
  /\ \E o \in Opens(path) :
       /\ open' = o.open
       /\ status' = o.status
       /\ answer' = <<path, o.fd>>
  /\ UNCHANGED <<type, flag, devs, list, dtype, dclass, ttyFd, console>>

(* The device a call through a descriptor reaches: device_read,             *)
(* device_write, device_ioctl and device_close follow open[nd]->ops without *)
(* a test, so an empty slot, a slot outside the table and an operation the  *)
(* driver leaves null all end in a wild jump.                               *)
Target(table, fd, op) ==
  LET s == FdSlot(fd)
      d == IF s \in Slots THEN table[FdBoard(fd)][s] ELSE Null
  IN  IF d # Null /\ op \in Ops[d] THEN d ELSE Null

(* printf from cur_board on. The descriptor is looked up once and kept in a *)
(* static variable, whatever it is, unless it is -1.                        *)
TtyPath == [board |-> type[SetMin(UsedBoards)], class |-> "CPU", device |-> Tty]
TtyListed == \E b \in UsedBoards : FoundAt(b, "CPU", Tty) # {}

Printf ==
  /\ status = "ok"
  /\ UsedBoards # {}
  /\ ConsoleFirst => TtyListed
  /\ answer' = NoCall
  /\ \E o \in IF ttyFd = -1 THEN Opens(TtyPath)
               ELSE {[fd |-> ttyFd, open |-> open, status |-> status]} :
       /\ open' = o.open
       /\ ttyFd' = o.fd
       /\ \/ /\ o.fd = -1
             /\ status' = o.status
             /\ UNCHANGED console
          \/ /\ o.fd # -1
             /\ console' = Target(o.open, o.fd, "write")
             /\ status' = IF console' = Null THEN "wild" ELSE o.status
  /\ UNCHANGED <<type, flag, devs, list, dtype, dclass>>

Next == \/ \E n \in BoardReqs : BoardReq(n)
        \/ \E b \in Boards, r \in Registrations : RegisterDevice(b, r)
        \/ \E p \in Paths : DeviceOpen(p)
        \/ Printf

Spec == Init /\ [][Next]_vars
=============================================================================
