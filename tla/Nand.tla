-------------------------------- MODULE Nand --------------------------------
(***************************************************************************)
(* drivers/s3c2440_nand.c: reading the NAND flash by polling.              *)
(*                                                                         *)
(* Two processes: the CPU running nand_read, and the flash chip behind the *)
(* S3C2440 controller, which loads one page into its register on command   *)
(* and signals ready/busy through NFSTAT.  The chip is not code of the     *)
(* repository: it is modelled from the sequence nand_read relies on.       *)
(***************************************************************************)
EXTENDS Integers, Sequences

CONSTANTS PageSize,   \* bytes of a page's main area (2048 in the code)
          Pages,      \* pages of the chip
          ByteBase,   \* values of one address cycle (256 in the code: & 0xff)
          Flash,      \* what the chip holds: [0..PageSize*Pages-1 -> Nat]
          BufSize,    \* size of the destination buffer
          Requests    \* the [addr, len] pairs callers ask for

NoByte == -1          \* a bus or memory value that is not a byte of the flash

ASSUME GeometryAssumption ==
  /\ PageSize \in Nat \ {0}
  /\ Pages \in Nat \ {0}
  /\ ByteBase \in Nat \ {0}
  /\ PageSize <= ByteBase * ByteBase              \* two column cycles
  /\ Pages <= (ByteBase * ByteBase) * ByteBase    \* three page cycles
ASSUME FlashAssumption == Flash \in [0..PageSize*Pages-1 -> Nat]
ASSUME RequestsAssumption ==
  /\ BufSize \in Nat
  /\ Requests # {}
  /\ Requests \subseteq [addr : Nat, len : 0..BufSize]
  /\ \A r \in Requests : r.addr + r.len <= PageSize * Pages

VARIABLES
  pc,       \* where nand_read is; "idle" outside it
  req,      \* the arguments of the current (or last) call
  addr, col, i,   \* its locals
  cycle,    \* the next address cycle of nand_addr, 1..6
  buf,      \* the caller's buffer
  nfcont,   \* NFCONT: bit 0 (enable) and bit 1 (nce, chip deselected)
  chip,     \* "ready", "setup", "latched", "busy" or "output"
  latch,    \* address cycles the chip has latched since command 00h
  page,     \* the page the chip was last told to load
  out       \* the column its next data cycle delivers

cpu == <<pc, req, addr, col, i, cycle, buf, nfcont>>
device == <<chip, latch, page, out>>
vars == <<pc, req, addr, col, i, cycle, buf, nfcont, chip, latch, page, out>>

TypeOK ==
  /\ pc \in {"idle", "loop", "addr", "delay", "wait", "data"}
  /\ req \in Requests
  /\ addr \in Nat /\ col \in 0..PageSize /\ i \in 0..BufSize
  /\ cycle \in 1..6
  /\ buf \in [0..BufSize-1 -> Nat \cup {NoByte}]
  /\ nfcont \in [enable : BOOLEAN, nce : BOOLEAN]
  /\ chip \in {"ready", "setup", "latched", "busy", "output"}
  /\ latch \in Seq(Nat)
  /\ page \in Nat /\ out \in Nat

Init ==
  /\ pc = "idle"
  /\ req \in Requests
  /\ addr = 0 /\ col = 0 /\ i = 0 /\ cycle = 1
  /\ buf = [k \in 0..BufSize-1 |-> NoByte]
  /\ nfcont \in [enable : {FALSE}, nce : BOOLEAN]   \* as reset leaves it
  /\ chip = "ready" /\ latch = <<>> /\ page = 0 /\ out = 0

-----------------------------------------------------------------------------
(* The five bytes nand_addr writes for address a: column low and high, then *)
(* the page number low, middle and high.                                    *)
AddrCycle(a, k) ==
  LET c == a % PageSize
      p == a \div PageSize
  IN  << c % ByteBase,
         (c \div ByteBase) % ByteBase,
         p % ByteBase,
         (p \div ByteBase) % ByteBase,
         (p \div (ByteBase * ByteBase)) % ByteBase >>[k]

(* What the chip makes of the five cycles it latched. *)
LatchedColumn(s) == s[1] + ByteBase * s[2]
LatchedPage(s) == s[3] + ByteBase * s[4] + (ByteBase * ByteBase) * s[5]

Selected == nfcont.enable /\ ~nfcont.nce

(* A data cycle: the page register in the output phase, junk otherwise      *)
(* (the spare area after the main area is junk to the caller too).          *)
DataBus ==
  IF Selected /\ chip = "output" /\ out < PageSize /\ page < Pages
  THEN Flash[page * PageSize + out]
  ELSE NoByte

-----------------------------------------------------------------------------
(* nand_open: timing, controller enabled, chip deselected. *)
NandOpen ==
  /\ pc = "idle"
  /\ nfcont' = [enable |-> TRUE, nce |-> TRUE]
  /\ UNCHANGED <<pc, req, addr, col, i, cycle, buf, device>>

(* Mutant: col starts at 0 whatever the address. *)
NandReadColZero(r) ==
  /\ pc = "idle"
  /\ nfcont.enable
  /\ pc' = "loop"
  /\ req' = r
  /\ addr' = r.addr
  /\ col' = 0
  /\ i' = 0
  /\ nfcont' = [nfcont EXCEPT !.nce = FALSE]
  /\ UNCHANGED <<cycle, buf, device>>

(* Entry of nand_read up to and including nand_select. Callers open first.  *)
NandRead(r) ==
  /\ pc = "idle"
  /\ nfcont.enable
  /\ pc' = "loop"
  /\ req' = r
  /\ addr' = r.addr
  /\ col' = r.addr % PageSize
  /\ i' = 0
  /\ nfcont' = [nfcont EXCEPT !.nce = FALSE]
  /\ UNCHANGED <<cycle, buf, device>>

(* nand_cmd(0x00): the chip starts to collect an address. *)
NandCmdRead ==
  /\ pc = "loop"
  /\ i < req.len
  /\ pc' = "addr"
  /\ cycle' = 1
  /\ IF Selected
     THEN chip' = "setup" /\ latch' = <<>>
     ELSE UNCHANGED <<chip, latch>>
  /\ UNCHANGED <<req, addr, col, i, buf, nfcont, page, out>>

(* One write of nand_addr to NFADDR. *)
NandAddr ==
  /\ pc = "addr"
  /\ cycle <= 5
  /\ cycle' = cycle + 1
  /\ latch' = IF Selected /\ chip = "setup"
              THEN Append(latch, AddrCycle(addr, cycle)) ELSE latch
  /\ UNCHANGED <<pc, req, addr, col, i, buf, nfcont, chip, page, out>>

(* nand_cmd(0x30): the chip will load the page; R/nB does not fall at once. *)
NandCmdStart ==
  /\ pc = "addr"
  /\ cycle = 6
  /\ pc' = "delay"
  /\ IF Selected /\ chip = "setup" /\ Len(latch) = 5
     THEN /\ chip' = "latched"
          /\ page' = LatchedPage(latch)
          /\ out' = LatchedColumn(latch)
     ELSE UNCHANGED <<chip, page, out>>
  /\ UNCHANGED <<req, addr, col, i, cycle, buf, nfcont, latch>>

(* Mutant: nand_cmd without its delay loop. *)
NandNoDelay ==
  /\ pc = "delay"
  /\ pc' = "wait"
  /\ UNCHANGED <<req, addr, col, i, cycle, buf, nfcont, device>>

(* The delay loop that ends nand_cmd: it outlasts the time the chip takes   *)
(* to pull R/nB low.                                                        *)
NandDelay ==
  /\ pc = "delay"
  /\ chip # "latched"
  /\ pc' = "wait"
  /\ UNCHANGED <<req, addr, col, i, cycle, buf, nfcont, device>>

(* nand_wait_ready: leaves its polling loop once NFSTAT bit 0 reads 1. *)
NandWaitReady ==
  /\ pc = "wait"
  /\ chip # "busy"
  /\ pc' = "data"
  /\ UNCHANGED <<req, addr, col, i, cycle, buf, nfcont, device>>

(* Mutant: the length test of the data loop is off by one. *)
NandDataOneMore ==
  /\ pc = "data"
  /\ col < PageSize
  /\ i <= req.len
  /\ buf' = [buf EXCEPT ![i] = DataBus]
  /\ i' = i + 1
  /\ addr' = addr + 1
  /\ col' = col + 1
  /\ out' = IF Selected /\ chip = "output" THEN out + 1 ELSE out
  /\ UNCHANGED <<pc, req, cycle, nfcont, chip, latch, page>>

(* One round of the data loop. *)
NandData ==
  /\ pc = "data"
  /\ col < PageSize
  /\ i < req.len
  /\ buf' = [buf EXCEPT ![i] = DataBus]
  /\ i' = i + 1
  /\ addr' = addr + 1
  /\ col' = col + 1
  /\ out' = IF Selected /\ chip = "output" THEN out + 1 ELSE out
  /\ UNCHANGED <<pc, req, cycle, nfcont, chip, latch, page>>

(* Mutant: col is not reset for the next page. *)
NandPageEndNoReset ==
  /\ pc = "data"
  /\ ~(col < PageSize /\ i < req.len)
  /\ pc' = "loop"
  /\ UNCHANGED <<req, addr, col, i, cycle, buf, nfcont, device>>

(* The end of the data loop and of the round: the next page starts at 0. *)
NandPageEnd ==
  /\ pc = "data"
  /\ ~(col < PageSize /\ i < req.len)
  /\ col' = 0
  /\ pc' = "loop"
  /\ UNCHANGED <<req, addr, i, cycle, buf, nfcont, device>>

(* nand_deselect and return. *)
NandReturn ==
  /\ pc = "loop"
  /\ i >= req.len
  /\ nfcont' = [nfcont EXCEPT !.nce = TRUE]
  /\ pc' = "idle"
  /\ UNCHANGED <<req, addr, col, i, cycle, buf, device>>

(* The chip: R/nB falls, and rises again when the page is in the register. *)
ChipGoBusy ==
  /\ chip = "latched"
  /\ chip' = "busy"
  /\ UNCHANGED <<cpu, latch, page, out>>

ChipLoaded ==
  /\ chip = "busy"
  /\ chip' = "output"
  /\ UNCHANGED <<cpu, latch, page, out>>

Cpu == \/ NandCmdRead \/ NandAddr \/ NandCmdStart \/ NandDelay
       \/ NandWaitReady \/ NandData \/ NandPageEnd \/ NandReturn
Chip == ChipGoBusy \/ ChipLoaded

Next == \/ NandOpen
        \/ \E r \in Requests : NandRead(r)
        \/ Cpu
        \/ Chip

Spec == Init /\ [][Next]_vars

(* The CPU keeps executing a read it has started; the chip, once commanded, *)
(* finishes the load (its data sheet's tR).                                 *)
FairSpec == Spec /\ WF_vars(Cpu) /\ WF_vars(Chip)
=============================================================================
