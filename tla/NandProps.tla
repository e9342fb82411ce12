------------------------------ MODULE NandProps ------------------------------
(***************************************************************************)
(* What nand_read must guarantee on top of the model of Nand.              *)
(***************************************************************************)
EXTENDS Nand

(* Every byte stored so far by the current (or last) nand_read is the byte  *)
(* of the flash at the address asked for, across page boundaries: the code's*)
(* col, addr and i stay in step with the chip's page and column.            *)
BytesMatch == \A k \in 0..i-1 : buf[k] = Flash[req.addr + k]

(* From command 30h until the page is loaded, nand_read touches neither the *)
(* bus nor the chip select: the delay of nand_cmd and nand_wait_ready keep  *)
(* it from taking a stale ready level for the end of the load.              *)
Quiet == chip \in {"latched", "busy"} =>
           UNCHANGED <<buf, i, nfcont, latch, page, out>>
QuietWhileLoading == [][Quiet]_vars

(* nand_read is a sequential copy of the medium: bytes in order, each once, *)
(* nothing past the requested length, and no return before the last one.    *)
Abstract == INSTANCE SequentialCopy WITH
  Medium <- Flash,
  reading <- (pc # "idle"),
  done <- i
ImplementsCopy == Abstract!Spec

(* A read that was started returns: the polling loop of nand_wait_ready and *)
(* the two counting loops end.                                              *)
ReadReturns == (pc # "idle") ~> (pc = "idle")
-----------------------------------------------------------------------------
(***************************************************************************)
(* The inductive invariant of the proofs: where each part of nand_read is, *)
(* which phase the chip is in, and that the two agree on the address.      *)
(***************************************************************************)
Reading == pc # "idle"

(* The locals of nand_read while a call is in progress. *)
CallInv ==
  Reading => /\ nfcont = [enable |-> TRUE, nce |-> FALSE]
             /\ i <= req.len
             /\ addr = req.addr + i

(* Until the data loop starts, col is the column of addr. *)
ColumnInv ==
  /\ pc \in {"addr", "delay", "wait"} => i < req.len
  /\ Reading /\ pc # "data" /\ i < req.len => col = addr % PageSize

(* The chip's phase at each control point. *)
PhaseInv ==
  /\ pc \in {"idle", "loop"} => chip \in {"ready", "output"}
  /\ pc = "addr"  => chip = "setup"
  /\ pc = "delay" => chip \in {"latched", "busy", "output"}
  /\ pc = "wait"  => chip \in {"busy", "output"}
  /\ pc = "data"  => chip = "output"

(* The cycles latched so far are those of addr. *)
LatchInv ==
  pc = "addr" => /\ Len(latch) = cycle - 1
                 /\ \A k \in 1..cycle-1 : latch[k] = AddrCycle(addr, k)

(* Once the command is complete the chip's page and column are addr's. *)
OutputInv ==
  pc \in {"delay", "wait", "data"} =>
    /\ out = col
    /\ page < Pages
    /\ page * PageSize + out = addr

IInv == TypeOK /\ CallInv /\ ColumnInv /\ PhaseInv /\ LatchInv /\ OutputInv
        /\ BytesMatch
=============================================================================
