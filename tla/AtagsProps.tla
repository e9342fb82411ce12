----------------------------- MODULE AtagsProps -----------------------------
(***************************************************************************)
(* What the kernel relies on when it is handed the list.                   *)
(***************************************************************************)
EXTENDS Atags

TypeOK ==
  /\ pc \in {"start", "memory", "cmdline", "none", "done", "kernel", "end"}
  /\ cmdline \in Lens
  /\ params \in Words /\ at \in Words
  /\ mem \in [Words -> Int]
  /\ seen \in Seq(Int)

(* The kernel sees the core, the memory and the command line tag, in this   *)
(* order and nothing else, whatever the memory held before and however      *)
(* long the earlier and the last command line were (boot.c:7-57).           *)
TheTags == <<ATAG_CORE, ATAG_MEM, ATAG_CMDLINE>>
SeesTheTags ==
  /\ seen \in {<<>>, <<ATAG_CORE>>, <<ATAG_CORE, ATAG_MEM>>, TheTags}
  /\ pc = "end" => seen = TheTags

(* When the kernel starts, every word of the command line, its terminator   *)
(* included, is in its place inside its tag: the end tag and the next       *)
(* string begin behind it.                                                  *)
CmdlineAt == TagSize(3) + TagSize(2)
CmdlineIntact ==
  pc \in {"kernel", "end"} =>
    /\ \A k \in 0..TextWords(cmdline)-1 : mem[CmdlineAt + HeaderWords + k] = Text
    /\ HeaderWords + TextWords(cmdline) <= mem[CmdlineAt]

-----------------------------------------------------------------------------
(***************************************************************************)
(* The inductive invariant of the proofs: what each function has left      *)
(* behind when the next one starts.                                        *)
(***************************************************************************)
EndAt(len) == CmdlineAt + HeaderWords + TextWords(len)

CoreThere == mem[0] = TagSize(3) /\ mem[1] = ATAG_CORE
MemThere == mem[5] = TagSize(2) /\ mem[6] = ATAG_MEM
CmdlineThere ==
  /\ mem[9] = HeaderWords + TextWords(cmdline) /\ mem[10] = ATAG_CMDLINE
  /\ \A k \in 0..TextWords(cmdline)-1 : mem[11 + k] = Text
EndThere == mem[EndAt(cmdline)] = 0
ListThere == CoreThere /\ MemThere /\ CmdlineThere /\ EndThere

ListInv ==
  /\ pc = "memory" => params = 5 /\ CoreThere
  /\ pc = "cmdline" => params = 9 /\ CoreThere /\ MemThere
  /\ pc = "none" => /\ params = EndAt(cmdline)
                    /\ CoreThere /\ MemThere /\ CmdlineThere
  /\ pc = "done" /\ params # 0 => ListThere
  /\ pc \in {"kernel", "end"} => ListThere

WalkInv ==
  /\ pc \notin {"kernel", "end"} => seen = <<>>
  /\ pc = "kernel" => \/ at = 0 /\ seen = <<>>
                      \/ at = 5 /\ seen = <<ATAG_CORE>>
                      \/ at = 9 /\ seen = <<ATAG_CORE, ATAG_MEM>>
                      \/ at = EndAt(cmdline) /\ seen = TheTags
  /\ pc = "end" => seen = TheTags

IInv == TypeOK /\ ListInv /\ WalkInv
=============================================================================
