----------------------------- MODULE Exceptions -----------------------------
(***************************************************************************)
(* The exception handlers of cpu/s3c2440/start.S with interrupt.c, around  *)
(* a program in SVC mode that works and switches interrupts on and off.    *)
(*                                                                         *)
(* An ARM mode has a stack pointer, a link register and a saved status of  *)
(* its own; r0-r12 are taken as common, although FIQ banks r8-r12: no FIQ  *)
(* is taken before an abort.  A code address stands for an instruction; a  *)
(* link register, which points behind one, is modelled as that one.        *)
(***************************************************************************)
EXTENDS Integers

CONSTANTS
  START,          \* where the image is linked
  ProgramStack,   \* sp of the program
  MaxRaised       \* bound on exceptions

FrameSize == 72
StackSize == 16384          \* 0x4000, for IRQ, FIQ and BAD alike
(* .word SVC_STACK_START + IRQ_STACK_SIZE and so on: each of the names is   *)
(* the address of the word it labels, from 0x40 on, not what that holds.    *)
IRQ_STACK_START == START + 64 + StackSize
FIQ_STACK_START == START + 68 + StackSize
BAD_STACK_START == START + 72 + StackSize
MODE_SVC == 19              \* 0x13, which get_bad_stack passes through r13

ASSUME StackAssumption ==
  /\ START \in Nat /\ MaxRaised \in Nat
  /\ ProgramStack \in Nat /\ ProgramStack > BAD_STACK_START + (MaxRaised + 1) * FrameSize

Aborts == {"undefined_instruction", "software_interrupt", "prefetch_abort",
           "data_abort", "not_used"}
Modes == {"svc", "irq", "fiq", "und", "abt"}
Interrupts == {"irq", "fiq"}
Masked == [mode |-> "svc", masked |-> Interrupts]        \* 0xd3
Junk == -1                  \* a register nobody knows the contents of
Nowhere == <<"nowhere", "">>

VARIABLES
  here,     \* what runs next: <<"program", place>> or <<handler, place in it>>
  regs,     \* r0-r12: the program's, known by a number, or Junk
  cpsr,     \* the mode, and which of IRQ and FIQ are masked
  spsr, sp, lr,    \* of each mode
  frames,   \* what irq_save_user_regs and bad_save_user_regs saved, and where
  saved,    \* the two words get_bad_stack saved at BAD_STACK_START
  trap,     \* the last abort: <<handler, return address, status>>
  left,     \* the context in which the program was last left
  raised    \* number of exceptions so far

excVars == <<here, regs, cpsr, spsr, sp, lr, frames, saved, trap, left, raised>>
bankVars == <<spsr, sp, lr>>
histVars == <<trap, left, raised>>

InProgram == here[1] = "program"
Context == [here |-> here, regs |-> regs, cpsr |-> cpsr,
            sp |-> sp["svc"], lr |-> lr["svc"]]
NoTrap == <<"none", Nowhere, Masked>>

ExcInit ==
  /\ here = <<"program", "a">> /\ regs = 0 /\ cpsr = Masked
  /\ spsr = [m \in Modes |-> Masked]
  /\ sp = [m \in Modes |-> IF m = "svc" THEN ProgramStack ELSE 0]
  /\ lr = [m \in Modes |-> IF m = "svc" THEN <<"program", "a">> ELSE Nowhere]
  /\ frames = << >> /\ saved = <<Nowhere, Masked>>
  /\ trap = NoTrap /\ left = Context /\ raised = 0

-----------------------------------------------------------------------------
(* The program: its registers change, it works on. *)
Work ==
  /\ InProgram
  /\ here' = <<"program", IF here[2] = "a" THEN "b" ELSE "a">>
  /\ regs' = 1 - regs
  /\ UNCHANGED <<cpsr, bankVars, frames, saved, trap, raised>>
  /\ left' = Context'

SetMask(masked) ==
  /\ InProgram
  /\ cpsr' = [mode |-> cpsr.mode, masked |-> masked]
  /\ UNCHANGED <<here, regs, bankVars, frames, saved, trap, raised>>
  /\ left' = Context'

(* Mutant: 0xc0 is cleared, as disable_interrupts sets it. *)
enable_both == SetMask({})

enable_interrupts == SetMask(cpsr.masked \ {"irq"})
disable_interrupts == SetMask(Interrupts)

(* The CPU takes an exception, at the end of an instruction (external). *)
EnteredMode(e) ==
  CASE e = "undefined_instruction" -> "und"
    [] e = "software_interrupt" -> "svc"
    [] e \in {"prefetch_abort", "data_abort"} -> "abt"
    [] e \in Interrupts -> e

Raise(e) ==
  /\ raised < MaxRaised /\ raised' = raised + 1
  /\ here # Nowhere
  /\ e \notin cpsr.masked
  /\ LET m == EnteredMode(e)
     IN  /\ spsr' = [spsr EXCEPT ![m] = cpsr]
         /\ lr' = [lr EXCEPT ![m] = here]
         /\ cpsr' = [mode |-> m, masked |-> cpsr.masked \cup ({"irq", e} \cap Interrupts)]
  /\ here' = <<e, "stack">>
  /\ trap' = IF e \in Aborts THEN <<e, here, cpsr>> ELSE trap
  /\ UNCHANGED <<regs, sp, frames, saved, left>>

-----------------------------------------------------------------------------
(* A frame stored at base damages those that lie across it. *)
FramesWith(base, frame) ==
  [b \in {base} \cup {b \in DOMAIN frames : b + FrameSize <= base \/ base + FrameSize <= b}
     |-> IF b = base THEN frame ELSE frames[b]]

FrameAt(base) ==
  IF base \in DOMAIN frames THEN frames[base]
  ELSE [regs |-> Junk, sp |-> 0, lr |-> Nowhere, pc |-> Nowhere, psr |-> Masked]

(* A word of the stacks outside the frames. *)
WordAt(a) == IF a = BAD_STACK_START THEN saved[1]
             ELSE IF a = BAD_STACK_START + 4 THEN saved[2] ELSE Nowhere

(* get_irq_stack, get_fiq_stack *)
GetStack ==
  /\ here \in {<<"irq", "stack">>, <<"fiq", "stack">>}
  /\ sp' = [sp EXCEPT ![cpsr.mode] =
              IF here[1] = "irq" THEN IRQ_STACK_START ELSE FIQ_STACK_START]
  /\ here' = <<here[1], "save">>
  /\ UNCHANGED <<regs, cpsr, spsr, lr, frames, saved, histVars>>

(* irq_save_user_regs; the user mode's own registers are nobody's. *)
IrqSaveUserRegs ==
  /\ here \in {<<"irq", "save">>, <<"fiq", "save">>}
  /\ LET base == sp[cpsr.mode] - FrameSize
     IN  /\ sp' = [sp EXCEPT ![cpsr.mode] = base]
         /\ frames' = FramesWith(base, [regs |-> regs, sp |-> 0, lr |-> Nowhere,
                                        pc |-> lr[cpsr.mode], psr |-> spsr[cpsr.mode]])
  /\ regs' = Junk
  /\ here' = <<here[1], "call">>
  /\ UNCHANGED <<cpsr, spsr, lr, saved, histVars>>

(* irq_restore_user_regs: subs pc, lr, #4 takes the status with it. *)
IrqRestoreUserRegs ==
  /\ here \in {<<"irq", "restore">>, <<"fiq", "restore">>}
  /\ LET frame == FrameAt(sp[cpsr.mode])
     IN  /\ regs' = frame.regs
         /\ lr' = [lr EXCEPT ![cpsr.mode] = frame.pc]
         /\ here' = frame.pc
  /\ cpsr' = spsr[cpsr.mode]
  /\ UNCHANGED <<spsr, sp, frames, saved, histVars>>

(* get_bad_stack: on to SVC mode, with interrupts enabled.  r13 is used for *)
(* the mode: if this is SVC mode already, its stack pointer is gone.        *)
GetBadStack ==
  /\ here[1] \in Aborts /\ here[2] = "stack"
  /\ LET m == cpsr.mode
         svc == [mode |-> "svc", masked |-> {}]
     IN  /\ saved' = <<lr[m], spsr[m]>>
         /\ sp' = [sp EXCEPT ![m] = MODE_SVC]
         /\ spsr' = [spsr EXCEPT ![m] = svc]
         /\ lr' = [lr EXCEPT ![m] = here]
         /\ cpsr' = svc
  /\ here' = <<here[1], "save">>
  /\ UNCHANGED <<regs, frames, histVars>>

(* bad_save_user_regs.  Nothing is there to store to below address 0: the   *)
(* store has no effect, or Raise("data_abort") follows.                     *)
BadSaveUserRegs ==
  /\ here[1] \in Aborts /\ here[2] = "save"
  /\ LET base == sp["svc"] - FrameSize
     IN  /\ sp' = [sp EXCEPT !["svc"] = base]
         /\ frames' = IF base < 0 THEN frames
                      ELSE FramesWith(base, [regs |-> regs, sp |-> sp["svc"],
                                             lr |-> lr["svc"],
                                             pc |-> WordAt(IRQ_STACK_START),
                                             psr |-> WordAt(IRQ_STACK_START + 4)])
  /\ regs' = Junk
  /\ here' = <<here[1], "call">>
  /\ UNCHANGED <<cpsr, spsr, lr, saved, histVars>>

(* What lies behind the call of each handler: only irq and fiq return, the  *)
(* others run into the next one.                                            *)
Behind(handler) ==
  CASE handler \in {"irq", "fiq"} -> <<handler, "restore">>
    [] handler = "undefined_instruction" -> <<"software_interrupt", "stack">>
    [] handler = "software_interrupt" -> <<"prefetch_abort", "stack">>
    [] handler = "prefetch_abort" -> <<"data_abort", "stack">>
    [] handler = "data_abort" -> <<"not_used", "stack">>
    [] handler = "not_used" -> <<"irq", "stack">>

(* Mutant: b do_... *)
CallDoBranch ==
  /\ here[2] = "call"
  /\ here' = lr[cpsr.mode]
  /\ UNCHANGED <<regs, cpsr, spsr, sp, lr, frames, saved, histVars>>

(* bl do_...: all of them only return. *)
CallDo ==
  /\ here[2] = "call"
  /\ lr' = [lr EXCEPT ![cpsr.mode] = here]
  /\ here' = Behind(here[1])
  /\ UNCHANGED <<regs, cpsr, spsr, sp, frames, saved, histVars>>

Handler ==
  \/ GetStack \/ IrqSaveUserRegs \/ IrqRestoreUserRegs
  \/ GetBadStack \/ BadSaveUserRegs \/ CallDo

ExcNext ==
  \/ Work \/ enable_interrupts \/ disable_interrupts
  \/ \E e \in Interrupts \cup (Aborts \ {"not_used"}) : Raise(e)
  \/ Handler
=============================================================================
