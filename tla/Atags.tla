------------------------------- MODULE Atags -------------------------------
(***************************************************************************)
(* boards/mini2440/boot.c: the list of tags setup_tag leaves at 0x30000100 *)
(* for the kernel, and the walk the kernel makes over it (for_each_tag of  *)
(* includes/setup.h), in words of memory.                                  *)
(*                                                                         *)
(* The memory holds what was there before: an earlier list among others.   *)
(***************************************************************************)
EXTENDS Integers, Sequences

CONSTANTS
  Room,       \* words from 0x30000100 to the kernel image
  Lens,       \* strlen of the command lines setup_tag is called with
  OldWords    \* what the words may hold before

ATAG_NONE == 0
ATAG_CORE == 1413545985      \* 0x54410001
ATAG_MEM == 1413545986       \* 0x54410002
ATAG_CMDLINE == 1413545993   \* 0x54410009
RamStart == 805306368        \* 0x30000000
RamSize == 67108864          \* 64 MB
Text == -1                   \* a word with characters of the command line

HeaderWords == 2             \* sizeof(struct tag_header) >> 2
Words == 0..Room-1

(* strcpy writes the characters and the terminator. *)
TextWords(len) == (len + 4) \div 4

ASSUME RoomAssumption ==
  /\ Room \in Nat
  /\ Lens \subseteq Nat /\ Lens # {}
  /\ \A len \in Lens : 9 + 2 * HeaderWords + TextWords(len) <= Room
ASSUME OldAssumption == OldWords \subseteq Int /\ OldWords # {}

VARIABLES
  pc,       \* the setup_ function to run next; "done"; "kernel"; "end"
  cmdline,  \* strlen of setup_tag's argument
  params,   \* the word params points to
  mem,      \* the words
  at,       \* where the kernel's walk stands
  seen      \* the tags it has seen

vars == <<pc, cmdline, params, mem, at, seen>>

Init ==
  /\ pc = "done"
  /\ cmdline \in Lens
  /\ params = 0
  /\ \E w \in OldWords : mem = [a \in Words |-> w]
  /\ at = 0
  /\ seen = <<>>

-----------------------------------------------------------------------------
(* The memory after words ws have been written from a on. *)
Write(m, a, ws) ==
  [x \in Words |-> IF x \in a .. a + Len(ws) - 1 THEN ws[x - a + 1] ELSE m[x]]

(* tag_size(type), for a type of n words; hdr.size of the command line tag. *)
TagSize(n) == HeaderWords + n

(* Mutant: the terminator is not counted. *)
CmdlineSizeBare(len) == (4 * HeaderWords + len + 3) \div 4

CmdlineSize(len) == (4 * HeaderWords + (len + 1) + 3) \div 4

(* setup_tag, called with a command line of len characters. *)
SetupTag(len) ==
  /\ pc = "done"
  /\ pc' = "start"
  /\ cmdline' = len
  /\ UNCHANGED <<params, mem, at, seen>>

(* setup_start_tag *)
SetupStartTag ==
  /\ pc = "start"
  /\ pc' = "memory"
  /\ mem' = Write(mem, 0, <<TagSize(3), ATAG_CORE, 0, 0, 0>>)
  /\ params' = TagSize(3)
  /\ UNCHANGED <<cmdline, at, seen>>

(* setup_memory_tags *)
SetupMemoryTags ==
  /\ pc = "memory"
  /\ pc' = "cmdline"
  /\ mem' = Write(mem, params, <<TagSize(2), ATAG_MEM, RamSize, RamStart>>)
  /\ params' = params + TagSize(2)
  /\ UNCHANGED <<cmdline, at, seen>>

(* setup_commandline_tag *)
SetupCommandlineTag ==
  /\ pc = "cmdline"
  /\ pc' = "none"
  /\ mem' = Write(Write(mem, params, <<CmdlineSize(cmdline), ATAG_CMDLINE>>),
                  params + HeaderWords, [k \in 1..TextWords(cmdline) |-> Text])
  /\ params' = params + CmdlineSize(cmdline)
  /\ UNCHANGED <<cmdline, at, seen>>

(* Mutant: hdr.size is left as it was. *)
SetupEndTagNoSize ==
  /\ pc = "none"
  /\ pc' = "done"
  /\ mem' = Write(mem, params + 1, <<ATAG_NONE>>)
  /\ UNCHANGED <<cmdline, params, at, seen>>

(* setup_end_tag, and return from setup_tag. *)
SetupEndTag ==
  /\ pc = "none"
  /\ pc' = "done"
  /\ mem' = Write(mem, params, <<0, ATAG_NONE>>)
  /\ UNCHANGED <<cmdline, params, at, seen>>

(* s3c2440_boot: the kernel starts at the address it is given.              *)
Boot ==
  /\ pc = "done"
  /\ params # 0
  /\ pc' = "kernel"
  /\ at' = 0
  /\ UNCHANGED <<cmdline, params, mem, seen>>

(* One step of for_each_tag; a word outside the memory ends it badly. *)
KernelTag ==
  /\ pc = "kernel"
  /\ at \in Words /\ at + 1 \in Words
  /\ mem[at] # 0
  /\ seen' = Append(seen, mem[at + 1])
  /\ at' = at + mem[at]
  /\ UNCHANGED <<pc, cmdline, params, mem>>

KernelEnd ==
  /\ pc = "kernel"
  /\ at \in Words
  /\ mem[at] = 0
  /\ pc' = "end"
  /\ UNCHANGED <<cmdline, params, mem, at, seen>>

Next == \/ \E len \in Lens : SetupTag(len)
        \/ SetupStartTag \/ SetupMemoryTags \/ SetupCommandlineTag \/ SetupEndTag
        \/ Boot \/ KernelTag \/ KernelEnd

Spec == Init /\ [][Next]_vars
=============================================================================
