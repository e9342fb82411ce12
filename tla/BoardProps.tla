----------------------------- MODULE BoardProps -----------------------------
(***************************************************************************)
(* What the board relies on between a reset and the kernel.                *)
(***************************************************************************)
EXTENDS AtagsProps, Board

(* The places of the start. *)
Stages == {"reset", "setup", "compare", "probe", "probed", "copy_nor", "copy_nand",
           "clear", "main", "tags", "tagging", "kernel", "booted"}

(* user_main starts on a whole program: every word of the image is in RAM,  *)
(* all of .bss is zero, and the probe of is_boot_nor has put back what it   *)
(* overwrote, wherever the program was started from and whenever the board  *)
(* was reset before (start.S:85-119, low_init.c:54-90); and the kernel is   *)
(* not started before all of it is loaded (main.c:45-51).                   *)
JumpsToWhole ==
  /\ stage = "main" => /\ \A a \in Image : ram[a] = "image"
                       /\ \A a \in Bss : ram[a] = "zero"
                       /\ zero = "vector"
  /\ stage = "booted" => kernel = KernelLen

(* As long as there is no abort, the program is always found as it was left *)
(* when a handler returns: its place, its registers, its stack pointer and   *)
(* link register, and which exceptions are masked.  An IRQ and an FIQ save   *)
(* to two places four bytes apart, so this needs that the one can never come *)
(* while the other is handled (start.S:171-189, 250-262, interrupt.c:10-36). *)
ReturnsAsLeft ==
  trap = NoTrap => /\ InProgram => Context = left
                   /\ here # Nowhere

(* After an abort the program never goes on: the handlers run into one       *)
(* another until the one for an IRQ returns to the one before it             *)
(* (start.S:218-255).                                                        *)
AbortsTrap == trap # NoTrap => ~InProgram

(* At last the kernel has been given its tags, however often the board was  *)
(* reset, unless an abort has trapped the CPU in the handlers: the watchdog *)
(* must be off before it fires and every loop of the start must end.        *)
Boots == <>[](pc = "end" \/ trap # NoTrap)

(* "get pc, cpsr" (start.S:160): the frame bad_save_user_regs makes holds   *)
(* the address at which the exception came.                                 *)
FrameHasPc ==
  raised = 1 /\ here = <<trap[1], "call">> /\ trap[1] # "software_interrupt"
    => FrameAt(sp["svc"]).pc = trap[2]
-----------------------------------------------------------------------------
(***************************************************************************)
(* The inductive invariants of the proofs: how far the start has come, and *)
(* where the context of an interrupted program is kept.                    *)
(***************************************************************************)
Copying == stage \in {"copy_nor", "copy_nand"}

StartInv ==
  /\ strap \in {"nor", "nand"} /\ source \in {strap, "ram"} /\ stage \in Stages
  /\ cnt \in Nat /\ kernel \in Nat /\ kernel <= KernelLen
  /\ DOMAIN ram = Ram
  /\ stage \notin {"reset", "setup"} => ramUp
  /\ stage # "probed" \/ source # "nand" => zero = "vector"
  /\ stage = "probed" /\ source = "nand" => zero = "test"
  /\ stage \in {"reset", "setup", "compare"} /\ source = "ram" =>
       \A a \in Image : ram[a] = "image"
  /\ stage \in {"probe", "probed"} => source # "ram" /\ cnt = 0
  /\ stage = "copy_nor" => source = "nor"
  /\ stage = "copy_nand" => source = "nand"
  /\ Copying => cnt <= BssStart /\ \A a \in 0 .. cnt - 1 : ram[a] = "image"
  /\ stage = "clear" => /\ BssStart <= cnt /\ cnt <= BssEnd
                        /\ \A a \in Image : ram[a] = "image"
                        /\ \A a \in BssStart .. cnt - 1 : ram[a] = "zero"
  /\ stage = "main" => /\ \A a \in Image : ram[a] = "image"
                       /\ \A a \in Bss : ram[a] = "zero"
  /\ stage = "booted" => kernel = KernelLen

IrqFrame == IRQ_STACK_START - FrameSize

Interrupted ==
  /\ cpsr = [mode |-> "irq", masked |-> Interrupts]
  /\ spsr["irq"] = left.cpsr /\ sp["svc"] = left.sp /\ lr["svc"] = left.lr
  /\ \/ /\ here \in {<<"irq", "stack">>, <<"irq", "save">>}
        /\ regs = left.regs /\ lr["irq"] = left.here
        /\ here = <<"irq", "save">> => sp["irq"] = IRQ_STACK_START
     \/ /\ here \in {<<"irq", "call">>, <<"irq", "restore">>}
        /\ sp["irq"] = IrqFrame /\ IrqFrame \in DOMAIN frames
        /\ frames[IrqFrame].regs = left.regs /\ frames[IrqFrame].pc = left.here

ContextInv ==
  trap = NoTrap =>
    /\ DOMAIN spsr = Modes /\ DOMAIN sp = Modes /\ DOMAIN lr = Modes
    /\ left = [here |-> left.here, regs |-> left.regs, cpsr |-> left.cpsr,
               sp |-> left.sp, lr |-> left.lr]
    /\ left.here \in {<<"program", "a">>, <<"program", "b">>}
    /\ left.cpsr \in [mode : {"svc"}, masked : {{"fiq"}, Interrupts}]
    /\ (InProgram /\ Context = left) \/ Interrupted

(* After an abort: a place and a status from which the program is not       *)
(* reached.  The handlers of the aborts run on in SVC mode, and the one of  *)
(* an IRQ that the last of them runs into, if it returns, returns into them *)
(* or into itself.                                                          *)
Handlers == Aborts \ {"not_used"}

AbortOk(place, status) ==
  /\ status.mode \in {"svc", "und", "abt"}
  /\ \/ place = Nowhere
     \/ place \in Handlers \X {"stack"}
     \/ /\ status.mode = "svc"
        /\ place \in (Handlers \X {"save", "call"}) \cup {<<"not_used", "stack">>}
     \/ /\ status.mode = "svc" /\ spsr["svc"].mode = "svc"
        /\ \/ place \in {<<"not_used", "save">>, <<"not_used", "call">>}
           \/ place = <<"irq", "stack">> /\ lr["svc"] = <<"not_used", "call">>
           \/ /\ place = <<"irq", "save">> /\ lr["svc"] = <<"not_used", "call">>
              /\ sp["svc"] = IRQ_STACK_START
           \/ /\ place \in {<<"irq", "call">>, <<"irq", "restore">>}
              /\ sp["svc"] = IrqFrame
              /\ FrameAt(IrqFrame).pc \in {Nowhere, <<"not_used", "call">>,
                                          <<"irq", "call">>, <<"irq", "restore">>}

(* The same of a handler h entered in its own mode from such a place: in its *)
(* link register, then in its frame, is where it returns to.                 *)
At(h, start, place) ==
  \/ place = <<h, "stack">>
  \/ place = <<h, "save">> /\ sp[h] = start
  \/ place \in {<<h, "call">>, <<h, "restore">>} /\ sp[h] = start - FrameSize

ReturnOf(h, start, place) ==
  IF place \in {<<h, "stack">>, <<h, "save">>} THEN lr[h] ELSE FrameAt(start - FrameSize).pc

IrqOk(place, status) ==
  /\ status.mode = "irq" /\ "irq" \in status.masked
  /\ \/ place = Nowhere
     \/ /\ At("irq", IRQ_STACK_START, place)
        /\ AbortOk(ReturnOf("irq", IRQ_STACK_START, place), spsr["irq"])

BelowFiq(place, status) == AbortOk(place, status) \/ IrqOk(place, status)

FiqOk(place, status) ==
  /\ status.mode = "fiq" /\ Interrupts \subseteq status.masked
  /\ \/ place = Nowhere
     \/ /\ At("fiq", FIQ_STACK_START, place)
        /\ BelowFiq(ReturnOf("fiq", FIQ_STACK_START, place), spsr["fiq"])

TrapInv ==
  /\ DOMAIN spsr = Modes /\ DOMAIN sp = Modes /\ DOMAIN lr = Modes
  /\ trap # NoTrap => BelowFiq(here, cpsr) \/ FiqOk(here, cpsr)

BoardIInv == IInv /\ StartInv /\ ContextInv /\ TrapInv
=============================================================================
