-------------------------------- MODULE Boot --------------------------------
(***************************************************************************)
(* From reset to the kernel: cpu/s3c2440/start.S (reset), low_init.c and   *)
(* user_main of main.c.  The program starts in NOR flash, in the internal  *)
(* RAM that the first NAND pages are loaded to, or in RAM itself, makes    *)
(* the RAM work, copies itself there unless it is there already, clears    *)
(* its .bss, loads the kernel, leaves it the tags (Atags) and jumps.       *)
(*                                                                         *)
(* It can be reset at any time, with or without a loss of power.           *)
(***************************************************************************)
EXTENDS Atags

CONSTANTS
  TextLen, DataLen, BssLen,   \* words of the sections of the image
  KernelLen,                  \* pieces of the kernel
  MaxResets                   \* bound on resets from outside

ASSUME ImageAssumption ==
  /\ TextLen \in Nat \ {0} /\ DataLen \in Nat /\ BssLen \in Nat
  /\ KernelLen \in Nat /\ MaxResets \in Nat

VARIABLES
  strap,      \* what the board boots from: "nor" or "nand"
  source,     \* where the program runs: "nor", "nand" (internal RAM) or "ram"
  stage,      \* the place in reset, copy2ram, clear_bss and user_main
  watchdog,   \* whether the watchdog counts
  ramUp,      \* whether the memory controller is set up
  zero,       \* the word at address 0: "vector", or the "test" of is_boot_nor
  ram,        \* the words from START to __bss_end
  cnt,        \* the counter of the loops
  kernel,     \* pieces of the kernel this start has loaded
  resets

tagVars == <<pc, cmdline, params, mem, at, seen>>
hardVars == <<strap, source, watchdog, ramUp, zero, resets>>
bootVars == <<tagVars, hardVars, stage, ram, cnt, kernel>>

BssStart == TextLen + DataLen
BssEnd == BssStart + BssLen
Image == 0 .. BssStart - 1
Bss == BssStart .. BssEnd - 1
Ram == Image \cup Bss

BootInit ==
  /\ Init
  /\ strap \in {"nor", "nand"} /\ source \in {strap, "ram"}
  /\ stage = "reset" /\ watchdog = TRUE /\ ramUp = FALSE /\ zero = "vector"
  /\ ram = [a \in Ram |-> IF source = "ram" /\ a \in Image THEN "image" ELSE "junk"]
  /\ cnt = 0 /\ kernel = 0 /\ resets = 0

-----------------------------------------------------------------------------
(* Before setup_ram a word that is written to RAM is lost. *)
Stored(a, v) == IF ramUp THEN [ram EXCEPT ![a] = v] ELSE ram

(* Mutant: the watchdog is left alone. *)
WatchdogLeft ==
  /\ stage = "reset"
  /\ stage' = "setup"
  /\ UNCHANGED <<tagVars, hardVars, ram, cnt, kernel>>

DisableWatchdog ==
  /\ stage = "reset"
  /\ stage' = "setup"
  /\ watchdog' = FALSE
  /\ UNCHANGED <<tagVars, strap, source, ramUp, zero, resets, ram, cnt, kernel>>

SetupRam ==
  /\ stage = "setup"
  /\ stage' = "compare"
  /\ ramUp' = TRUE
  /\ UNCHANGED <<tagVars, strap, source, watchdog, zero, resets, ram, cnt, kernel>>

(* adr r0,_start against START: a program in RAM is not copied. *)
Compare ==
  /\ stage = "compare"
  /\ stage' = IF source = "ram" THEN "clear" ELSE "probe"
  /\ cnt' = IF source = "ram" THEN BssStart ELSE 0
  /\ UNCHANGED <<tagVars, hardVars, ram, kernel>>

(* is_boot_nor: a write to NOR flash does not stick. *)
ProbeWrite ==
  /\ stage = "probe"
  /\ stage' = "probed"
  /\ zero' = IF source = "nor" THEN zero ELSE "test"
  /\ UNCHANGED <<tagVars, strap, source, watchdog, ramUp, resets, ram, cnt, kernel>>

ProbeRead ==
  /\ stage = "probed"
  /\ stage' = IF zero = "test" THEN "copy_nand" ELSE "copy_nor"
  /\ zero' = "vector"
  /\ UNCHANGED <<tagVars, strap, source, watchdog, ramUp, resets, ram, cnt, kernel>>

(* The image is whole in the flash the board booted from, but not in the    *)
(* internal RAM.                                                            *)
Found == IF (stage = "copy_nor") = (source = "nor") THEN "image" ELSE "junk"

(* Mutant: the length leaves the .data section out. *)
CopyLenText == TextLen

(* r2 at the call of copy2ram: _bss_start - START. *)
CopyLen == BssStart

(* copy2ram by words (nand_read is modelled in Nand). *)
CopyWord ==
  /\ stage \in {"copy_nor", "copy_nand"}
  /\ cnt < CopyLen
  /\ ram' = Stored(cnt, Found)
  /\ cnt' = cnt + 1
  /\ UNCHANGED <<tagVars, hardVars, stage, kernel>>

Copied ==
  /\ stage \in {"copy_nor", "copy_nand"}
  /\ cnt = CopyLen
  /\ stage' = "clear"
  /\ cnt' = BssStart
  /\ UNCHANGED <<tagVars, hardVars, ram, kernel>>

(* clear_bss *)
ClearWord ==
  /\ stage = "clear"
  /\ cnt < BssEnd
  /\ ram' = Stored(cnt, "zero")
  /\ cnt' = cnt + 1
  /\ UNCHANGED <<tagVars, hardVars, stage, kernel>>

EnterMain ==
  /\ stage = "clear"
  /\ cnt = BssEnd
  /\ stage' = "main"
  /\ UNCHANGED <<tagVars, hardVars, ram, cnt, kernel>>

-----------------------------------------------------------------------------
(* user_main: the drivers are registered and opened, in .data and .bss. *)
OpenDevices ==
  /\ stage = "main"
  /\ stage' = "tags"
  /\ ram' = [a \in Ram |-> IF a >= TextLen THEN "used" ELSE ram[a]]
  /\ UNCHANGED <<tagVars, hardVars, cnt, kernel>>

(* setup_tag, with the command line of this image. *)
CallSetupTag(len) ==
  /\ stage = "tags"
  /\ stage' = "tagging"
  /\ SetupTag(len)
  /\ UNCHANGED <<hardVars, ram, cnt, kernel>>

WriteTags ==
  /\ stage = "tagging"
  /\ (SetupStartTag \/ SetupMemoryTags \/ SetupCommandlineTag \/ SetupEndTag)
  /\ UNCHANGED <<hardVars, stage, ram, cnt, kernel>>

(* setup_tag has returned; heap_init and the loop of malloc and free leave  *)
(* alone what is modelled here.                                             *)
TryHeap ==
  /\ stage = "tagging" /\ pc = "done"
  /\ stage' = "kernel"
  /\ UNCHANGED <<tagVars, hardVars, ram, cnt, kernel>>

(* device_read of the kernel *)
ReadKernel ==
  /\ stage = "kernel" /\ kernel < KernelLen
  /\ kernel' = kernel + 1
  /\ UNCHANGED <<tagVars, hardVars, stage, ram, cnt>>

(* s3c2440_boot *)
StartKernel ==
  /\ stage = "kernel" /\ kernel = KernelLen
  /\ stage' = "booted"
  /\ Boot
  /\ UNCHANGED <<hardVars, ram, cnt, kernel>>

Kernel ==
  /\ stage = "booted"
  /\ (KernelTag \/ KernelEnd)
  /\ UNCHANGED <<hardVars, stage, ram, cnt, kernel>>

-----------------------------------------------------------------------------
(* What a reset does: the controllers are as after power-on, internal RAM   *)
(* is loaded again.  params lies in .bss: nobody uses it before it is 0.    *)
Restart ==
  /\ stage' = "reset" /\ source' = strap
  /\ watchdog' = TRUE /\ ramUp' = FALSE /\ zero' = "vector"
  /\ cnt' = 0 /\ kernel' = 0
  /\ pc' = "done" /\ params' = 0 /\ at' = 0 /\ seen' = <<>>
  /\ UNCHANGED <<strap, cmdline>>

(* The reset button leaves RAM as it is, a loss of power does not. *)
Reset ==
  /\ resets < MaxResets /\ resets' = resets + 1
  /\ Restart
  /\ \/ UNCHANGED <<ram, mem>>
     \/ /\ ram' = [a \in Ram |-> "junk"]
        /\ \E w \in OldWords : mem' = [a \in Words |-> w]

WatchdogReset ==
  /\ watchdog
  /\ Restart
  /\ UNCHANGED <<ram, mem, resets>>

Cpu ==
  \/ DisableWatchdog \/ SetupRam \/ Compare \/ ProbeWrite \/ ProbeRead
  \/ CopyWord \/ Copied \/ ClearWord \/ EnterMain
  \/ OpenDevices \/ (\E len \in Lens : CallSetupTag(len)) \/ WriteTags \/ TryHeap
  \/ ReadKernel \/ StartKernel \/ Kernel

BootNext == Cpu \/ Reset \/ WatchdogReset
=============================================================================
