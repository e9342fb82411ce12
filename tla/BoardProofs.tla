---------------------------- MODULE BoardProofs ----------------------------
(***************************************************************************)
(* Proofs about the tag list for any command lines, any room that holds    *)
(* them and any old contents of the memory; and about the board it is part *)
(* of, for an image of any size, any resets and any exceptions.            *)
(***************************************************************************)
EXTENDS BoardProps, SequenceTheorems, TLAPS


-----------------------------------------------------------------------------
(* All that matters of the tags and of the memory's bounds is that they are *)
(* numbers.                                                                 *)
LEMMA Values == {ATAG_NONE, ATAG_CORE, ATAG_MEM, ATAG_CMDLINE, RamStart, RamSize, Text}
                  \subseteq Int
BY SMT DEF ATAG_NONE, ATAG_CORE, ATAG_MEM, ATAG_CMDLINE, RamStart, RamSize, Text

LEMMA AppendTags ==
  /\ Append(<<ATAG_CORE>>, ATAG_MEM) = <<ATAG_CORE, ATAG_MEM>>
  /\ Append(<<ATAG_CORE, ATAG_MEM>>, ATAG_CMDLINE) = TheTags
<1>1. ASSUME NEW a \in Int, NEW b \in Int, NEW c \in Int
      PROVE  /\ Append(<<a>>, b) = <<a, b>>
             /\ Append(<<a, b>>, c) = <<a, b, c>>
  <2>1. <<a>> \in Seq(Int) /\ <<a, b>> \in Seq(Int) /\ <<a, b, c>> \in Seq(Int)
    OBVIOUS
  <2>2. Append(<<a>>, b) = <<a, b>>
    <3> DEFINE s == Append(<<a>>, b)
    <3>1. s \in Seq(Int) /\ Len(s) = 2 /\ Len(<<a, b>>) = 2
      BY <2>1
    <3>2. s[1] = a /\ s[2] = b
      BY <2>1
    <3>3. \A i \in 1..Len(s) : s[i] = <<a, b>>[i]
      BY <3>1, <3>2
    <3> HIDE DEF s
    <3>4. s = <<a, b>>
      BY <2>1, <3>1, <3>3, SeqEqual
    <3> QED BY <3>4 DEF s
  <2>3. Append(<<a, b>>, c) = <<a, b, c>>
    <3> DEFINE s == Append(<<a, b>>, c)
    <3>1. s \in Seq(Int) /\ Len(s) = 3 /\ Len(<<a, b, c>>) = 3
      BY <2>1
    <3>2. s[1] = a /\ s[2] = b /\ s[3] = c
      BY <2>1
    <3>3. \A i \in 1..Len(s) : s[i] = <<a, b, c>>[i]
      BY <3>1, <3>2
    <3> HIDE DEF s
    <3>4. s = <<a, b, c>>
      BY <2>1, <3>1, <3>3, SeqEqual
    <3> QED BY <3>4 DEF s
  <2> QED BY <2>2, <2>3
<1>2. ATAG_CORE \in Int /\ ATAG_MEM \in Int /\ ATAG_CMDLINE \in Int
  BY Values
<1> QED BY <1>1, <1>2 DEF TheTags

(* The words of the command line tag, as setup_commandline_tag computes     *)
(* them and as strcpy uses them, are the same number.                       *)
LEMMA CmdlineWords ==
  ASSUME NEW len \in Lens
  PROVE  /\ TextWords(len) \in Nat \ {0}
         /\ CmdlineSize(len) = HeaderWords + TextWords(len)
         /\ EndAt(len) = 11 + TextWords(len)
         /\ EndAt(len) + 1 \in Words /\ EndAt(len) \in Words
         /\ 0..12 \subseteq Words
<1>1. len \in Nat /\ Room \in Nat
  BY RoomAssumption
<1>2. TextWords(len) \in Nat \ {0} /\ CmdlineSize(len) = HeaderWords + TextWords(len)
  BY <1>1 DEF TextWords, CmdlineSize, HeaderWords
<1>3. EndAt(len) = 11 + TextWords(len)
  BY <1>2 DEF EndAt, CmdlineAt, TagSize, HeaderWords
<1>4. 13 + TextWords(len) <= Room
  BY <1>2, RoomAssumption DEF HeaderWords
<1> QED BY <1>1, <1>2, <1>3, <1>4 DEF Words

LEMMA WriteTypes ==
  ASSUME NEW m \in [Words -> Int], NEW a \in Nat, NEW ws \in Seq(Int)
  PROVE  /\ Write(m, a, ws) \in [Words -> Int]
         /\ \A x \in Words : x < a \/ x >= a + Len(ws) => Write(m, a, ws)[x] = m[x]
         /\ \A x \in Words : x >= a /\ x < a + Len(ws)
                               => Write(m, a, ws)[x] = ws[x - a + 1]
<1>1. \A x \in Words : x \in Int
  BY RoomAssumption DEF Words
<1>2. Len(ws) \in Nat /\ \A k \in 1..Len(ws) : ws[k] \in Int
  OBVIOUS
<1>3. \A x \in a .. a + Len(ws) - 1 : x - a + 1 \in 1..Len(ws)
  BY <1>2
<1> QED BY <1>1, <1>2, <1>3 DEF Write

-----------------------------------------------------------------------------
LEMMA InitHolds == Init => IInv
<1> SUFFICES ASSUME Init PROVE IInv
  OBVIOUS
<1>1. 0 \in Words
  <2>1. PICK len \in Lens : TRUE
    BY RoomAssumption
  <2> QED BY <2>1, CmdlineWords
<1>2. TypeOK
  BY <1>1, OldAssumption DEF Init, TypeOK
<1> QED BY <1>2 DEF Init, IInv, ListInv, WalkInv

LEMMA StartTagHolds == IInv /\ SetupStartTag => IInv'
<1> SUFFICES ASSUME IInv, SetupStartTag PROVE IInv'
  OBVIOUS
<1> DEFINE ws == <<TagSize(3), ATAG_CORE, 0, 0, 0>>
<1>1. mem \in [Words -> Int] /\ 0..12 \subseteq Words /\ ws \in Seq(Int) /\ Len(ws) = 5
  BY CmdlineWords, Values DEF IInv, TypeOK, TagSize, HeaderWords
<1>2. /\ mem' \in [Words -> Int]
      /\ \A x \in Words : x >= 0 /\ x < 0 + Len(ws) => mem'[x] = ws[x - 0 + 1]
  BY <1>1, WriteTypes DEF SetupStartTag
<1>3. CoreThere'
  <2>1. 0 \in Words /\ 1 \in Words
    BY <1>1
  <2> QED BY <1>1, <1>2, <2>1 DEF CoreThere
<1>4. params' = 5 /\ params' \in Words
  BY <1>1 DEF SetupStartTag, TagSize, HeaderWords
<1> QED BY <1>2, <1>3, <1>4
        DEF SetupStartTag, IInv, TypeOK, ListInv, WalkInv

LEMMA MemoryTagsHolds == IInv /\ SetupMemoryTags => IInv'
<1> SUFFICES ASSUME IInv, SetupMemoryTags PROVE IInv'
  OBVIOUS
<1> DEFINE ws == <<TagSize(2), ATAG_MEM, RamSize, RamStart>>
<1>1. /\ mem \in [Words -> Int] /\ 0..12 \subseteq Words /\ ws \in Seq(Int)
      /\ Len(ws) = 4 /\ params = 5 /\ CoreThere
  BY CmdlineWords, Values DEF IInv, TypeOK, ListInv, SetupMemoryTags, TagSize,
                              HeaderWords
<1>2. /\ mem' \in [Words -> Int]
      /\ \A x \in Words : x < 5 \/ x >= 5 + Len(ws) => mem'[x] = mem[x]
      /\ \A x \in Words : x >= 5 /\ x < 5 + Len(ws) => mem'[x] = ws[x - 5 + 1]
  <2>1. mem' = Write(mem, 5, ws)
    BY <1>1 DEF SetupMemoryTags
  <2> HIDE DEF ws
  <2>2. 5 \in Nat
    OBVIOUS
  <2> QED BY <1>1, <2>1, <2>2, WriteTypes, ZenonT(30)
<1>3. CoreThere' /\ MemThere'
  <2>1. 0 \in Words /\ 1 \in Words /\ 5 \in Words /\ 6 \in Words
    BY <1>1
  <2> QED BY <1>1, <1>2, <2>1 DEF CoreThere, MemThere
<1>4. params' = 9 /\ params' \in Words
  BY <1>1 DEF SetupMemoryTags, TagSize, HeaderWords
<1> QED BY <1>2, <1>3, <1>4
        DEF SetupMemoryTags, IInv, TypeOK, ListInv, WalkInv

LEMMA CommandlineTagHolds == IInv /\ SetupCommandlineTag => IInv'
<1> SUFFICES ASSUME IInv, SetupCommandlineTag PROVE IInv'
  OBVIOUS
<1> DEFINE T == TextWords(cmdline)
           hd == <<CmdlineSize(cmdline), ATAG_CMDLINE>>
           tx == [k \in 1..T |-> Text]
           m1 == Write(mem, 9, hd)
<1>1. /\ mem \in [Words -> Int] /\ 0..12 \subseteq Words /\ params = 9
      /\ CoreThere /\ MemThere /\ T \in Nat \ {0} /\ cmdline \in Lens
      /\ CmdlineSize(cmdline) = 2 + T /\ EndAt(cmdline) = 11 + T
      /\ EndAt(cmdline) \in Words
  BY CmdlineWords DEF IInv, TypeOK, ListInv, SetupCommandlineTag, HeaderWords
<1> HIDE DEF T
<1>2. hd \in Seq(Int) /\ Len(hd) = 2
  BY <1>1, Values
<1>3. tx \in Seq(Int) /\ Len(tx) = T /\ \A k \in 1..T : tx[k] = Text
  BY <1>1, Values
<1> HIDE DEF tx
<1>4. /\ m1 \in [Words -> Int]
      /\ \A x \in Words : x < 9 \/ x >= 9 + Len(hd) => m1[x] = mem[x]
      /\ \A x \in Words : x >= 9 /\ x < 9 + Len(hd) => m1[x] = hd[x - 9 + 1]
  <2> HIDE DEF hd
  <2>1. 9 \in Nat
    OBVIOUS
  <2> QED BY <1>1, <1>2, <2>1, WriteTypes, ZenonT(30)
<1> HIDE DEF m1
<1>5. mem' = Write(m1, 11, tx)
  BY <1>1 DEF SetupCommandlineTag, HeaderWords, m1, tx, T
<1>6. /\ mem' \in [Words -> Int]
      /\ \A x \in Words : x < 11 \/ x >= 11 + Len(tx) => mem'[x] = m1[x]
      /\ \A x \in Words : x >= 11 /\ x < 11 + Len(tx) => mem'[x] = tx[x - 11 + 1]
  <2>1. 11 \in Nat
    OBVIOUS
  <2>2. m1 \in [Words -> Int] /\ tx \in Seq(Int)
    BY <1>3, <1>4
  <2> HIDE DEF hd
  <2> QED BY ONLY <1>5, <2>1, <2>2, WriteTypes, ZenonT(30)
<1>7. CoreThere' /\ MemThere'
  <2>1. {0, 1, 5, 6} \subseteq Words
    BY <1>1
  <2>2. \A x \in {0, 1, 5, 6} : mem'[x] = mem[x]
    BY SMTT(30), <1>4, <1>6, <2>1
  <2> QED BY <1>1, <2>2 DEF CoreThere, MemThere
<1>8. CmdlineThere'
  <2>1. mem'[9] = 2 + T /\ mem'[10] = ATAG_CMDLINE
    <3>1. 9 \in Words /\ 10 \in Words
      BY <1>1
    <3>2. mem'[9] = m1[9] /\ mem'[10] = m1[10]
      BY <1>6, <3>1
    <3> QED BY <1>1, <1>2, <1>4, <3>1, <3>2
  <2>2. ASSUME NEW k \in 0..T-1 PROVE mem'[11 + k] = Text
    <3>1. 11 + k \in Words
      BY <1>1, RoomAssumption DEF Words
    <3>2. k + 1 \in 1..T /\ (11 + k) - 11 + 1 = k + 1
      BY <1>1
    <3>3. mem'[11 + k] = tx[(11 + k) - 11 + 1]
      <4>1. 11 + k >= 11 /\ 11 + k < 11 + Len(tx)
        BY <1>1, <1>3
      <4> QED BY <1>6, <3>1, <4>1, Zenon
    <3> QED BY <1>3, <3>2, <3>3
  <2>3. cmdline' = cmdline
    BY DEF SetupCommandlineTag
  <2> QED BY <2>1, <2>2, <2>3 DEF CmdlineThere, HeaderWords, T
<1>9. params' = EndAt(cmdline) /\ params' \in Words
  BY <1>1 DEF SetupCommandlineTag
<1> QED BY <1>6, <1>7, <1>8, <1>9
        DEF SetupCommandlineTag, IInv, TypeOK, ListInv, WalkInv, EndAt

LEMMA EndTagHolds == IInv /\ SetupEndTag => IInv'
<1> SUFFICES ASSUME IInv, SetupEndTag PROVE IInv'
  OBVIOUS
<1> DEFINE T == TextWords(cmdline)
           ws == <<0, ATAG_NONE>>
<1>1. /\ mem \in [Words -> Int] /\ 0..12 \subseteq Words /\ params = 11 + T
      /\ CoreThere /\ MemThere /\ CmdlineThere /\ T \in Nat \ {0} /\ cmdline \in Lens
      /\ EndAt(cmdline) = 11 + T /\ params \in Words
  BY CmdlineWords DEF IInv, TypeOK, ListInv, SetupEndTag
<1>2. ws \in Seq(Int) /\ Len(ws) = 2 /\ ws[1] = 0
  BY Values
<1>3. /\ mem' \in [Words -> Int]
      /\ \A x \in Words : x < params \/ x >= params + Len(ws) => mem'[x] = mem[x]
      /\ \A x \in Words : x >= params /\ x < params + Len(ws)
                            => mem'[x] = ws[x - params + 1]
  <2>1. params \in Nat
    BY <1>1
  <2>2. mem' = Write(mem, params, ws)
    BY DEF SetupEndTag
  <2> HIDE DEF ws
  <2>3. mem \in [Words -> Int] /\ ws \in Seq(Int)
    BY <1>1, <1>2
  <2> QED BY ONLY <2>1, <2>2, <2>3, WriteTypes, Zenon
<1> HIDE DEF T, ws
<1>4. \A x \in 0 .. 10 + T : mem'[x] = mem[x]
  <2> SUFFICES ASSUME NEW x \in 0 .. 10 + T PROVE mem'[x] = mem[x]
    OBVIOUS
  <2>1. x \in Words /\ x < params
    BY <1>1, RoomAssumption DEF Words
  <2> QED BY <1>3, <2>1
<1>5. CoreThere' /\ MemThere'
  BY <1>1, <1>4 DEF CoreThere, MemThere
<1>6. CmdlineThere'
  <2>1. cmdline' = cmdline
    BY DEF SetupEndTag
  <2>2. mem'[9] = mem[9] /\ mem'[10] = mem[10]
    BY <1>1, <1>4
  <2>3. \A k \in 0..T-1 : mem'[11 + k] = mem[11 + k]
    BY <1>1, <1>4
  <2> QED BY <1>1, <2>1, <2>2, <2>3 DEF CmdlineThere, T
<1>7. EndThere'
  <2>1. mem'[params] = ws[1]
    BY <1>1, <1>2, <1>3
  <2> QED BY <1>1, <1>2, <2>1 DEF EndThere, SetupEndTag, EndAt
<1> QED BY <1>3, <1>5, <1>6, <1>7
        DEF SetupEndTag, IInv, TypeOK, ListInv, WalkInv, ListThere

LEMMA KernelTagHolds == IInv /\ KernelTag => IInv'
<1> SUFFICES ASSUME IInv, KernelTag PROVE IInv'
  OBVIOUS
<1> DEFINE T == TextWords(cmdline)
<1>1. /\ ListThere /\ T \in Nat \ {0} /\ 0..12 \subseteq Words
      /\ EndAt(cmdline) = 11 + T /\ EndAt(cmdline) \in Words
  BY CmdlineWords DEF IInv, TypeOK, ListInv, KernelTag
<1>2. /\ mem[0] = 5 /\ mem[1] = ATAG_CORE /\ mem[5] = 4 /\ mem[6] = ATAG_MEM
      /\ mem[9] = 2 + T /\ mem[10] = ATAG_CMDLINE /\ mem[EndAt(cmdline)] = 0
  BY <1>1 DEF ListThere, CoreThere, MemThere, CmdlineThere, EndThere, TagSize,
              HeaderWords
<1> HIDE DEF T
<1>3. \/ at' = 5 /\ seen' = <<ATAG_CORE>>
      \/ at' = 9 /\ seen' = <<ATAG_CORE, ATAG_MEM>>
      \/ at' = EndAt(cmdline) /\ seen' = TheTags
  <2>1. CASE at = 0 /\ seen = <<>>
    BY <1>2, <2>1 DEF KernelTag
  <2>2. CASE at = 5 /\ seen = <<ATAG_CORE>>
    <3>1. at' = 9 /\ seen' = Append(<<ATAG_CORE>>, ATAG_MEM)
      BY <1>2, <2>2 DEF KernelTag
    <3> QED BY <3>1, AppendTags
  <2>3. CASE at = 9 /\ seen = <<ATAG_CORE, ATAG_MEM>>
    <3>1. at' = 11 + T
      BY <1>1, <1>2, <2>3 DEF KernelTag
    <3>2. seen' = TheTags
      <4>1. seen' = Append(seen, mem[10])
        BY <2>3 DEF KernelTag
      <4>2. seen' = Append(<<ATAG_CORE, ATAG_MEM>>, ATAG_CMDLINE)
        BY <1>2, <2>3, <4>1
      <4> QED BY <4>2, AppendTags
    <3> QED BY <1>1, <3>1, <3>2
  <2>4. CASE at = EndAt(cmdline)
    BY <1>2, <2>4 DEF KernelTag
  <2> QED BY <2>1, <2>2, <2>3, <2>4 DEF IInv, WalkInv, KernelTag
<1>4. at' \in Words
  BY <1>1, <1>3
<1>5. seen' \in Seq(Int)
  <2>1. seen \in Seq(Int) /\ mem[at + 1] \in Int /\ seen' = Append(seen, mem[at + 1])
    BY DEF KernelTag, IInv, TypeOK
  <2> QED BY ONLY <2>1
<1>6. UNCHANGED <<pc, cmdline, params, mem>> /\ pc = "kernel"
  BY DEF KernelTag
<1>7. TypeOK'
  BY <1>4, <1>5, <1>6 DEF IInv, TypeOK
<1>8. ListInv'
  BY <1>1, <1>6 DEF ListInv, ListThere, CoreThere, MemThere, CmdlineThere, EndThere, EndAt
<1>9. WalkInv'
  BY <1>3, <1>6 DEF WalkInv, EndAt
<1> QED BY <1>7, <1>8, <1>9 DEF IInv

-----------------------------------------------------------------------------
LEMMA StepHolds == IInv /\ [Next]_vars => IInv'
<1> SUFFICES ASSUME IInv, [Next]_vars PROVE IInv'
  OBVIOUS
<1>1. ASSUME NEW len \in Lens, SetupTag(len) PROVE IInv'
  BY <1>1 DEF SetupTag, IInv, TypeOK, ListInv, WalkInv
<1>2. CASE SetupStartTag \/ SetupMemoryTags \/ SetupCommandlineTag \/ SetupEndTag
  BY <1>2, StartTagHolds, MemoryTagsHolds, CommandlineTagHolds, EndTagHolds
<1>3. CASE Boot
  <2>1. ListThere /\ 0 \in Words
    BY <1>3, CmdlineWords DEF Boot, IInv, TypeOK, ListInv
  <2>2. ListThere'
    BY <1>3, <2>1 DEF Boot, ListThere, CoreThere, MemThere, CmdlineThere, EndThere, EndAt
  <2> QED BY <1>3, <2>1, <2>2 DEF Boot, IInv, TypeOK, ListInv, WalkInv
<1>4. CASE KernelTag
  BY <1>4, KernelTagHolds
<1>5. CASE KernelEnd
  <2>1. ListThere /\ mem[at] = 0 /\ pc = "kernel"
    BY <1>5 DEF KernelEnd, IInv, ListInv
  <2>2. seen = TheTags
    <3>1. mem[0] # 0 /\ mem[5] # 0
      BY <2>1 DEF ListThere, CoreThere, MemThere, TagSize, HeaderWords
    <3>2. mem[9] # 0
      <4>1. TextWords(cmdline) \in Nat
        BY CmdlineWords DEF IInv, TypeOK
      <4> QED BY <2>1, <4>1 DEF ListThere, CmdlineThere, HeaderWords
    <3> QED BY <2>1, <3>1, <3>2 DEF IInv, WalkInv
  <2>3. ListThere'
    BY <1>5, <2>1 DEF KernelEnd, ListThere, CoreThere, MemThere, CmdlineThere, EndThere, EndAt
  <2> QED BY <1>5, <2>2, <2>3 DEF KernelEnd, IInv, TypeOK, ListInv, WalkInv
<1>6. CASE UNCHANGED vars
  BY <1>6 DEF vars, IInv, TypeOK, ListInv, WalkInv, ListThere, CoreThere, MemThere,
              CmdlineThere, EndThere, EndAt
<1> QED BY <1>1, <1>2, <1>3, <1>4, <1>5, <1>6 DEF Next

LEMMA InvariantHolds == Spec => []IInv
BY InitHolds, StepHolds, PTL DEF Spec

(* params and the kernel's walk never leave the room before the kernel    *)
(* image (boot.c:7-57).                                                     *)
THEOREM StaysInTheRoom == Spec => []TypeOK
<1>1. IInv => TypeOK
  BY DEF IInv
<1> QED BY InvariantHolds, <1>1, PTL

(* The kernel sees exactly the three tags, for any command lines and any    *)
(* old contents of the memory (boot.c:7-57).                                *)
THEOREM KernelSeesTheTags == Spec => []SeesTheTags
<1>1. IInv => SeesTheTags
  BY DEF IInv, TypeOK, WalkInv, SeesTheTags
<1> QED BY InvariantHolds, <1>1, PTL

LEMMA IInvCmdline == IInv => CmdlineIntact
<1> SUFFICES ASSUME IInv, pc \in {"kernel", "end"} PROVE CmdlineIntact
  BY DEF CmdlineIntact
<1>1. CmdlineThere
  BY DEF IInv, ListInv, ListThere
<1>2. TextWords(cmdline) \in Nat
  BY CmdlineWords DEF IInv, TypeOK
<1>3. CmdlineAt = 9
  BY DEF CmdlineAt, TagSize, HeaderWords
<1> QED BY <1>1, <1>2, <1>3 DEF CmdlineThere, CmdlineIntact, HeaderWords

(* The command line the kernel is given is whole (boot.c:32-42).            *)
THEOREM KernelGetsTheCmdline == Spec => []CmdlineIntact
BY InvariantHolds, IInvCmdline, PTL

-----------------------------------------------------------------------------
(* The tags: every step of the board is one of Atags, leaves them alone or  *)
(* starts afresh.                                                           *)
LEMMA ResetTags == IInv /\ (Reset \/ WatchdogReset) => IInv'
<1> SUFFICES ASSUME IInv, Reset \/ WatchdogReset PROVE IInv'
  OBVIOUS
<1>1. /\ pc' = "done" /\ params' = 0 /\ at' = 0 /\ seen' = <<>> /\ cmdline' = cmdline
  BY DEF Reset, WatchdogReset, Restart
<1>2. mem' \in [Words -> Int]
  BY OldAssumption DEF Reset, WatchdogReset, IInv, TypeOK
<1>3. 0 \in Words
  BY CmdlineWords DEF IInv, TypeOK
<1> QED BY <1>1, <1>2, <1>3 DEF IInv, TypeOK, ListInv, WalkInv

LEMMA CpuTags == Cpu => [Next]_vars
BY DEF Cpu, Next, vars, tagVars, hardVars, DisableWatchdog, SetupRam, Compare, ProbeWrite,
       ProbeRead, CopyWord, Copied, ClearWord, EnterMain, OpenDevices, CallSetupTag,
       WriteTags, TryHeap, ReadKernel, StartKernel, Kernel

LEMMA BoardTags == IInv /\ [BoardNext]_boardVars => IInv'
<1> SUFFICES ASSUME IInv, [BoardNext]_boardVars PROVE IInv'
  OBVIOUS
<1>1. CASE Runs
  BY <1>1, CpuTags, StepHolds DEF Runs
<1>2. CASE Excepted
  <2>1. UNCHANGED vars
    BY <1>2 DEF Excepted, bootVars, tagVars, vars
  <2> QED BY <2>1, StepHolds
<1>3. CASE ResetBoard
  BY <1>3, ResetTags DEF ResetBoard
<1>4. CASE UNCHANGED boardVars
  <2>1. UNCHANGED vars
    BY <1>4 DEF boardVars, bootVars, tagVars, vars
  <2> QED BY <2>1, StepHolds
<1> QED BY <1>1, <1>2, <1>3, <1>4 DEF BoardNext

-----------------------------------------------------------------------------
(* The image in RAM.                                                        *)
LEMMA Sections ==
  /\ BssStart \in Nat /\ BssEnd \in Nat /\ BssStart <= BssEnd /\ KernelLen \in Nat
  /\ Image = 0 .. BssStart - 1 /\ Bss = BssStart .. BssEnd - 1
  /\ Ram = 0 .. BssEnd - 1
  /\ CopyLen = BssStart
BY ImageAssumption DEF BssStart, BssEnd, Image, Bss, Ram, CopyLen

LEMMA StartInit == BoardInit => StartInv
BY Sections DEF BoardInit, BootInit, StartInv, Stages, Copying

LEMMA StartCpu == StartInv /\ Cpu => StartInv'
<1> SUFFICES ASSUME StartInv, Cpu PROVE StartInv'
  OBVIOUS
<1> USE DEF StartInv, Stages, Copying, hardVars
<1>1. CASE DisableWatchdog \/ SetupRam
  BY <1>1 DEF DisableWatchdog, SetupRam
<1>2. CASE Compare
  BY <1>2, Sections DEF Compare
<1>3. CASE ProbeWrite
  BY <1>3 DEF ProbeWrite
<1>4. CASE ProbeRead
  BY <1>4, Sections DEF ProbeRead
<1>5. CASE CopyWord
  <2>1. ramUp /\ cnt < BssStart /\ cnt \in Ram /\ Found = "image"
    BY <1>5, Sections DEF CopyWord, Found
  <2>2. ram' = [ram EXCEPT ![cnt] = "image"] /\ cnt' = cnt + 1
    BY <1>5, <2>1 DEF CopyWord, Stored
  <2>3. DOMAIN ram' = Ram /\ \A a \in 0 .. cnt' - 1 : ram'[a] = "image"
    BY <2>1, <2>2, <1>5, Sections DEF CopyWord
  <2> QED BY <1>5, <2>1, <2>2, <2>3, Sections DEF CopyWord
<1>6. CASE Copied
  BY <1>6, Sections DEF Copied
<1>7. CASE ClearWord
  <2>1. ramUp /\ cnt < BssEnd /\ BssStart <= cnt /\ cnt \in Ram
    BY <1>7, Sections DEF ClearWord
  <2>2. ram' = [ram EXCEPT ![cnt] = "zero"] /\ cnt' = cnt + 1
    BY <1>7, <2>1 DEF ClearWord, Stored
  <2>3. /\ DOMAIN ram' = Ram
        /\ \A a \in Image : ram'[a] = "image"
        /\ \A a \in BssStart .. cnt' - 1 : ram'[a] = "zero"
    BY <2>1, <2>2, <1>7, Sections DEF ClearWord
  <2> QED BY <1>7, <2>1, <2>2, <2>3, Sections DEF ClearWord
<1>8. CASE EnterMain
  BY <1>8, Sections DEF EnterMain
<1>9. CASE OpenDevices
  BY <1>9 DEF OpenDevices
<1>10. CASE \E len \in Lens : CallSetupTag(len)
  BY <1>10 DEF CallSetupTag
<1>11. CASE WriteTags \/ TryHeap
  BY <1>11 DEF WriteTags, TryHeap
<1>12. CASE ReadKernel
  BY <1>12, Sections DEF ReadKernel
<1>13. CASE StartKernel \/ Kernel
  BY <1>13 DEF StartKernel, Kernel
<1> QED BY <1>1, <1>2, <1>3, <1>4, <1>5, <1>6, <1>7, <1>8, <1>9, <1>10, <1>11,
           <1>12, <1>13 DEF Cpu

LEMMA StartReset == StartInv /\ (Reset \/ WatchdogReset) => StartInv'
BY Sections DEF StartInv, Stages, Copying, Reset, WatchdogReset, Restart

LEMMA StartHolds == StartInv /\ [BoardNext]_boardVars => StartInv'
<1> SUFFICES ASSUME StartInv, [BoardNext]_boardVars PROVE StartInv'
  OBVIOUS
<1>1. CASE Runs
  BY <1>1, StartCpu DEF Runs
<1>2. CASE Excepted \/ UNCHANGED boardVars
  BY <1>2 DEF Excepted, boardVars, bootVars, hardVars, StartInv, Copying
<1>3. CASE ResetBoard
  BY <1>3, StartReset DEF ResetBoard
<1> QED BY <1>1, <1>2, <1>3 DEF BoardNext

-----------------------------------------------------------------------------
(* The context of the program.                                              *)
LEMMA Places ==
  /\ \A p \in {<<"program", "a">>, <<"program", "b">>} :
       p[1] = "program" /\ p[2] # "call" /\ p # Nowhere
  /\ \A x \in {"stack", "save", "call", "restore"} :
       <<"irq", x>>[1] = "irq" /\ <<"irq", x>>[2] = x /\ <<"irq", x>> # Nowhere
BY DEF Nowhere

LEMMA InterruptedPlace ==
  Interrupted => /\ \E x \in {"stack", "save", "call", "restore"} : here = <<"irq", x>>
                 /\ here[1] = "irq" /\ ~InProgram /\ here # Nowhere
BY Places DEF Interrupted, InProgram

LEMMA LeftPlace ==
  ASSUME ContextInv, trap = NoTrap, InProgram
  PROVE  /\ left = Context /\ here = left.here /\ cpsr = left.cpsr /\ regs = left.regs
         /\ sp["svc"] = left.sp /\ lr["svc"] = left.lr
         /\ here \in {<<"program", "a">>, <<"program", "b">>}
<1>1. left = Context
  BY InterruptedPlace DEF ContextInv
<1> QED BY <1>1 DEF Context, ContextInv

LEMMA ContextFresh ==
  ASSUME here = <<"program", "a">>, cpsr = Masked, left = Context,
         DOMAIN spsr = Modes, DOMAIN sp = Modes, DOMAIN lr = Modes
  PROVE  ContextInv
BY DEF ContextInv, Context, InProgram, Masked

LEMMA ContextProgram ==
  ContextInv /\ (Work \/ enable_interrupts \/ disable_interrupts) => ContextInv'
<1> SUFFICES ASSUME ContextInv, Work \/ enable_interrupts \/ disable_interrupts,
                    trap' = NoTrap
             PROVE  ContextInv'
  BY DEF ContextInv
<1>1. /\ trap = NoTrap /\ InProgram /\ left' = Context'
      /\ UNCHANGED <<spsr, sp, lr>>
  BY DEF Work, enable_interrupts, disable_interrupts, SetMask, bankVars, histVars
<1>3. here = left.here /\ cpsr = left.cpsr
  BY <1>1, LeftPlace
<1>4. here' \in {<<"program", "a">>, <<"program", "b">>}
  BY <1>1, <1>3 DEF ContextInv, Work, enable_interrupts, disable_interrupts, SetMask
<1>5. cpsr' \in [mode : {"svc"}, masked : {{"fiq"}, Interrupts}]
  <2>1. cpsr' = [mode |-> cpsr.mode, masked |-> cpsr'.masked]
        /\ cpsr'.masked \in {cpsr.masked, cpsr.masked \ {"irq"}, Interrupts}
    BY <1>1, <1>3 DEF ContextInv, Work, enable_interrupts, disable_interrupts, SetMask
  <2>2. cpsr.mode = "svc" /\ cpsr.masked \in {{"fiq"}, Interrupts}
    BY <1>1, <1>3 DEF ContextInv
  <2>3. cpsr'.masked \in {{"fiq"}, Interrupts}
    BY <2>1, <2>2 DEF Interrupts
  <2> QED BY <2>1, <2>2, <2>3
<1>6. left'.here = here' /\ left'.cpsr = cpsr'
  BY <1>1 DEF Context
<1>7. InProgram' /\ left' = [here |-> left'.here, regs |-> left'.regs, cpsr |-> left'.cpsr,
                              sp |-> left'.sp, lr |-> left'.lr]
  BY <1>1, <1>4, Places DEF Context, InProgram
<1> QED BY <1>1, <1>4, <1>5, <1>6, <1>7 DEF ContextInv

LEMMA ContextRaise ==
  ASSUME ContextInv, NEW e \in Interrupts \cup (Aborts \ {"not_used"}), Raise(e)
  PROVE  ContextInv'
<1> SUFFICES ASSUME trap' = NoTrap PROVE ContextInv'
  BY DEF ContextInv
<1>1. e \notin Aborts /\ trap = NoTrap
  BY DEF Raise, NoTrap, Aborts, Interrupts
<1>2. /\ left.here \in {<<"program", "a">>, <<"program", "b">>}
      /\ left.cpsr \in [mode : {"svc"}, masked : {{"fiq"}, Interrupts}]
      /\ DOMAIN spsr = Modes /\ DOMAIN sp = Modes /\ DOMAIN lr = Modes
      /\ (InProgram /\ Context = left) \/ Interrupted
  BY <1>1 DEF ContextInv
<1>3. ~Interrupted
  BY <1>1 DEF Interrupted, Raise, Aborts
<1>4. InProgram /\ here = left.here /\ cpsr = left.cpsr /\ regs = left.regs
      /\ sp["svc"] = left.sp /\ lr["svc"] = left.lr
  BY <1>1, <1>2, <1>3, LeftPlace
<1>5. e = "irq"
  BY <1>1, <1>2, <1>4 DEF Raise, Interrupts, Aborts
<1>6. EnteredMode(e) = "irq"
  BY <1>5, SMT DEF EnteredMode, Interrupts
<1>7. /\ spsr' = [spsr EXCEPT !["irq"] = cpsr]
      /\ lr' = [lr EXCEPT !["irq"] = here]
      /\ cpsr' = [mode |-> "irq", masked |-> Interrupts]
      /\ here' = <<"irq", "stack">>
      /\ UNCHANGED <<regs, sp, frames, left>>
  <2>1. cpsr.masked \cup ({"irq", e} \cap Interrupts) = Interrupts
    BY <1>2, <1>4, <1>5 DEF Interrupts
  <2> QED BY <1>5, <1>6, <2>1 DEF Raise
<1>8. Interrupted'
  BY <1>2, <1>4, <1>7 DEF Interrupted, Modes
<1>9. DOMAIN spsr' = Modes /\ DOMAIN lr' = Modes
  BY <1>2, <1>7
<1> HIDE DEF Modes
<1> QED BY <1>1, <1>7, <1>8, <1>9 DEF ContextInv

LEMMA ContextHandler == ContextInv /\ Handler => ContextInv'
<1> SUFFICES ASSUME ContextInv, Handler, trap' = NoTrap PROVE ContextInv'
  BY DEF ContextInv
<1>1. UNCHANGED <<trap, left>> /\ trap = NoTrap
  BY DEF Handler, GetStack, IrqSaveUserRegs, IrqRestoreUserRegs, GetBadStack,
         BadSaveUserRegs, CallDo, histVars
<1>2. /\ left.here \in {<<"program", "a">>, <<"program", "b">>}
      /\ left.cpsr \in [mode : {"svc"}, masked : {{"fiq"}, Interrupts}]
      /\ DOMAIN spsr = Modes /\ DOMAIN sp = Modes /\ DOMAIN lr = Modes
      /\ Interrupted
  <2>1. ASSUME InProgram, Context = left PROVE FALSE
    <3>1. here[1] = "program" /\ here[2] # "call"
      BY <1>1, <2>1, LeftPlace, Places
    <3>2. here \notin {<<"irq", "stack">>, <<"fiq", "stack">>, <<"irq", "save">>,
                       <<"fiq", "save">>, <<"irq", "restore">>, <<"fiq", "restore">>}
      BY <3>1
    <3> QED BY <3>1, <3>2 DEF Handler, GetStack, IrqSaveUserRegs, IrqRestoreUserRegs, GetBadStack,
                        BadSaveUserRegs, CallDo, Aborts
  <2> QED BY <1>1, <2>1 DEF ContextInv
<1>3. here[1] = "irq" /\ cpsr.mode = "irq" /\ "irq" \in Modes /\ "svc" \in Modes
  BY <1>2, InterruptedPlace DEF Interrupted, Modes
<1>4. ~GetBadStack /\ ~BadSaveUserRegs
  BY <1>3 DEF GetBadStack, BadSaveUserRegs, Aborts
<1>5. CASE GetStack
  BY <1>1, <1>2, <1>3, <1>5 DEF GetStack, Interrupted, ContextInv, histVars
<1>6. CASE IrqSaveUserRegs
  <2>1. here = <<"irq", "save">> /\ sp["irq"] = IRQ_STACK_START
    BY <1>2, <1>6 DEF IrqSaveUserRegs, Interrupted
  <2>2. sp' = [sp EXCEPT !["irq"] = IrqFrame] /\ here' = <<"irq", "call">>
    BY <1>3, <1>6, <2>1 DEF IrqSaveUserRegs, IrqFrame
  <2>3. /\ IrqFrame \in DOMAIN frames'
        /\ frames'[IrqFrame].regs = regs /\ frames'[IrqFrame].pc = lr["irq"]
    BY <1>3, <1>6, <2>1 DEF IrqSaveUserRegs, IrqFrame, FramesWith
  <2> QED BY <1>1, <1>2, <1>3, <1>6, <2>1, <2>2, <2>3
          DEF IrqSaveUserRegs, Interrupted, ContextInv, histVars
<1>7. CASE CallDo
  <2>1. here = <<"irq", "call">> /\ Behind(here[1]) = <<"irq", "restore">>
    BY <1>2, <1>7 DEF CallDo, Interrupted, Behind
  <2> QED BY <1>1, <1>2, <1>3, <1>7, <2>1 DEF CallDo, Interrupted, ContextInv, histVars
<1>8. CASE IrqRestoreUserRegs
  <2>1. /\ sp["irq"] = IrqFrame /\ IrqFrame \in DOMAIN frames
        /\ frames[IrqFrame].regs = left.regs /\ frames[IrqFrame].pc = left.here
        /\ spsr["irq"] = left.cpsr /\ sp["svc"] = left.sp /\ lr["svc"] = left.lr
    BY <1>2, <1>8 DEF IrqRestoreUserRegs, Interrupted
  <2>2. /\ regs' = left.regs /\ here' = left.here /\ cpsr' = left.cpsr
        /\ lr' = [lr EXCEPT !["irq"] = left.here] /\ UNCHANGED <<spsr, sp>>
    BY <1>3, <1>8, <2>1 DEF IrqRestoreUserRegs, FrameAt, histVars
  <2>3. lr'["svc"] = left.lr /\ sp'["svc"] = left.sp /\ DOMAIN lr' = Modes
    BY <1>2, <2>1, <2>2 DEF Modes
  <2> HIDE DEF Modes
  <2>4. Context' = left
    <3>1. left = [here |-> left.here, regs |-> left.regs, cpsr |-> left.cpsr,
                  sp |-> left.sp, lr |-> left.lr]
      BY <1>1 DEF ContextInv
    <3> QED BY <2>2, <2>3, <3>1 DEF Context
  <2> QED BY <1>1, <1>2, <2>2, <2>3, <2>4 DEF ContextInv, InProgram
<1> QED BY <1>4, <1>5, <1>6, <1>7, <1>8 DEF Handler

LEMMA ContextHolds == ContextInv /\ [BoardNext]_boardVars => ContextInv'
<1> SUFFICES ASSUME ContextInv, [BoardNext]_boardVars PROVE ContextInv'
  OBVIOUS
<1>1. CASE Runs \/ UNCHANGED boardVars
  BY <1>1 DEF Runs, boardVars, excVars, ContextInv, Interrupted, Context, InProgram
<1>2. CASE Excepted
  BY <1>2, ContextProgram, ContextRaise, ContextHandler DEF Excepted, ExcNext
<1>3. CASE ResetBoard
  BY <1>3 DEF ResetBoard, ContextInv, Context, InProgram, Masked
<1> QED BY <1>1, <1>2, <1>3 DEF BoardNext

-----------------------------------------------------------------------------
(* After an abort.                                                          *)
LEMMA HandlerPlaces ==
  /\ \A e \in Handlers, x \in {"stack", "save", "call"} :
       <<e, x>>[1] = e /\ <<e, x>>[2] = x /\ e # "irq" /\ e # "fiq" /\ e # "not_used"
       /\ e # "program" /\ e \in Aborts
  /\ \A x \in {"stack", "save", "call"} : \A place \in Handlers \X {x} :
       place = <<place[1], x>> /\ place[1] \in Handlers
  /\ \A h \in {"irq", "fiq", "not_used"}, x \in {"stack", "save", "call", "restore"} :
       <<h, x>>[1] = h /\ <<h, x>>[2] = x
  /\ Nowhere[1] = "nowhere" /\ Nowhere[2] = ""
BY DEF Handlers, Aborts, Nowhere

LEMMA Addresses ==
  /\ IRQ_STACK_START \in Nat /\ FIQ_STACK_START = IRQ_STACK_START + 4
  /\ IrqFrame = IRQ_STACK_START - FrameSize /\ IrqFrame \in Int /\ FrameSize = 72
BY StackAssumption DEF IRQ_STACK_START, FIQ_STACK_START, StackSize, IrqFrame, FrameSize

(* Where the CPU can be after an abort.                                     *)
LEMMA AbortPlaces ==
  ASSUME NEW place, NEW status, AbortOk(place, status)
  PROVE  \/ place = Nowhere
         \/ \E e \in Handlers, x \in {"stack", "save", "call"} : place = <<e, x>>
         \/ \E x \in {"stack", "save", "call"} : place = <<"not_used", x>>
         \/ \E x \in {"stack", "save", "call", "restore"} : place = <<"irq", x>>
<1>1. CASE \E x \in {"stack", "save", "call"} : place \in Handlers \X {x}
  BY <1>1, HandlerPlaces
<1>2. CASE place \in Handlers \X {"save", "call"}
  <2>1. \E x \in {"save", "call"} : place \in Handlers \X {x}
    BY <1>2
  <2> QED BY <2>1, <1>1
<1> QED BY <1>1, <1>2 DEF AbortOk

LEMMA AtPlaces ==
  ASSUME NEW h, NEW start, NEW place, At(h, start, place)
  PROVE  \E x \in {"stack", "save", "call", "restore"} : place = <<h, x>>
BY DEF At

LEMMA TrapPlace ==
  ASSUME TrapInv, trap # NoTrap
  PROVE  here = <<here[1], here[2]>> /\ here[1] # "program"
<1>1. ASSUME NEW h, NEW x, here = <<h, x>>, h # "program"
      PROVE  here = <<here[1], here[2]>> /\ here[1] # "program"
  BY <1>1
<1>2. CASE here = Nowhere
  BY <1>2 DEF Nowhere
<1>3. CASE AbortOk(here, cpsr)
  <2>1. ASSUME NEW e \in Handlers PROVE e # "program"
    BY DEF Handlers, Aborts
  <2> QED BY <1>1, <1>2, <1>3, <2>1, AbortPlaces, Zenon
<1>4. CASE IrqOk(here, cpsr)
  BY <1>1, <1>2, <1>4, AtPlaces DEF IrqOk
<1>5. CASE FiqOk(here, cpsr)
  BY <1>1, <1>2, <1>5, AtPlaces DEF FiqOk
<1> QED BY <1>3, <1>4, <1>5 DEF TrapInv, BelowFiq

(* A handler of an IRQ or an FIQ does not disturb where it came from: the   *)
(* frame at IrqFrame is lost or is the one that returns to that place.      *)
LEMMA AbortStays ==
  ASSUME NEW place, NEW status, AbortOk(place, status),
         UNCHANGED <<spsr["svc"], sp["svc"], lr["svc"]>>,
         FrameAt(IrqFrame).pc' \in {FrameAt(IrqFrame).pc, Nowhere, place}
  PROVE  AbortOk(place, status)'
BY DEF AbortOk

LEMMA IrqStays ==
  ASSUME NEW place, NEW status, IrqOk(place, status),
         UNCHANGED <<spsr["svc"], sp["svc"], lr["svc"], spsr["irq"], sp["irq"], lr["irq"]>>,
         FrameAt(IrqFrame).pc' \in {FrameAt(IrqFrame).pc, Nowhere}
  PROVE  IrqOk(place, status)'
<1>1. CASE place = Nowhere
  BY <1>1 DEF IrqOk
<1> SUFFICES ASSUME At("irq", IRQ_STACK_START, place),
                    AbortOk(ReturnOf("irq", IRQ_STACK_START, place), spsr["irq"])
             PROVE  AbortOk(ReturnOf("irq", IRQ_STACK_START, place), spsr["irq"])'
  BY <1>1 DEF IrqOk, At
<1>2. PICK back : back = ReturnOf("irq", IRQ_STACK_START, place)
  OBVIOUS
<1>3. PICK st : st = spsr["irq"]
  OBVIOUS
<1>4. AbortOk(back, st)'
  BY <1>2, <1>3, AbortStays
<1>5. st.mode \in {"svc", "und", "abt"}
  BY <1>2, <1>3 DEF AbortOk
<1>6. ReturnOf("irq", IRQ_STACK_START, place)' \in {back, Nowhere}
  BY <1>2 DEF ReturnOf, IrqFrame
<1>7. AbortOk(Nowhere, st)'
  BY <1>5 DEF AbortOk
<1> QED BY <1>3, <1>4, <1>6, <1>7

LEMMA BelowStays ==
  ASSUME NEW place, NEW status, BelowFiq(place, status),
         UNCHANGED <<spsr["svc"], sp["svc"], lr["svc"], spsr["irq"], sp["irq"], lr["irq"]>>,
         FrameAt(IrqFrame).pc' \in {FrameAt(IrqFrame).pc, Nowhere}
  PROVE  BelowFiq(place, status)'
BY AbortStays, IrqStays DEF BelowFiq

LEMMA TrapRaise ==
  ASSUME TrapInv, NEW e \in Interrupts \cup Handlers, Raise(e)
  PROVE  TrapInv'
<1>1. /\ spsr' = [spsr EXCEPT ![EnteredMode(e)] = cpsr]
      /\ lr' = [lr EXCEPT ![EnteredMode(e)] = here]
      /\ cpsr' = [mode |-> EnteredMode(e),
                  masked |-> cpsr.masked \cup ({"irq", e} \cap Interrupts)]
      /\ here' = <<e, "stack">> /\ UNCHANGED <<sp, frames>>
      /\ here # Nowhere /\ e \notin cpsr.masked
  BY DEF Raise
<1>2. DOMAIN spsr' = Modes /\ DOMAIN sp' = Modes /\ DOMAIN lr' = Modes
  BY <1>1 DEF TrapInv
<1>3. PICK p, st : p = here /\ st = cpsr
  OBVIOUS
<1>4. FrameAt(IrqFrame).pc' = FrameAt(IrqFrame).pc
  BY <1>1 DEF FrameAt, IrqFrame, IRQ_STACK_START
<1>5. CASE e \in Handlers
  <2>1. EnteredMode(e) \in {"svc", "und", "abt"}
    BY <1>5 DEF Handlers, Aborts, EnteredMode, Interrupts
  <2>2. here' \in Handlers \X {"stack"} /\ cpsr'.mode \in {"svc", "und", "abt"}
    BY <1>1, <1>5, <2>1
  <2> QED BY <1>2, <2>2 DEF TrapInv, BelowFiq, AbortOk
<1>6. CASE e = "irq" /\ trap' # NoTrap
  <2>1. EnteredMode(e) = "irq" /\ trap # NoTrap
    BY <1>6 DEF EnteredMode, Interrupts, Raise, Aborts
  <2>2. AbortOk(p, st)
    BY <1>1, <1>3, <1>6, <2>1 DEF TrapInv, BelowFiq, IrqOk, FiqOk, Interrupts
  <2>3. UNCHANGED <<spsr["svc"], sp["svc"], lr["svc"]>> /\ lr'["irq"] = p /\ spsr'["irq"] = st
    BY <1>1, <1>3, <2>1 DEF TrapInv, Modes
  <2>4. AbortOk(p, st)'
    BY <1>4, <2>2, <2>3, AbortStays
  <2>5. At("irq", IRQ_STACK_START, here)' /\ ReturnOf("irq", IRQ_STACK_START, here)' = p
    BY <1>1, <1>6, <2>3 DEF At, ReturnOf
  <2>6. cpsr'.mode = "irq" /\ "irq" \in cpsr'.masked
    BY <1>1, <1>6, <2>1 DEF Interrupts
  <2>7. IrqOk(here, cpsr)'
    BY <2>3, <2>4, <2>5, <2>6 DEF IrqOk
  <2> QED BY <1>2, <2>7 DEF TrapInv, BelowFiq
<1>7. CASE e = "fiq" /\ trap' # NoTrap
  <2>1. EnteredMode(e) = "fiq" /\ trap # NoTrap
    BY <1>7 DEF EnteredMode, Interrupts, Raise, Aborts
  <2>2. BelowFiq(p, st)
    BY <1>1, <1>3, <1>7, <2>1 DEF TrapInv, FiqOk, Interrupts
  <2>3. /\ UNCHANGED <<spsr["svc"], sp["svc"], lr["svc"], spsr["irq"], sp["irq"], lr["irq"]>>
        /\ lr'["fiq"] = p /\ spsr'["fiq"] = st
    BY <1>1, <1>3, <2>1 DEF TrapInv, Modes
  <2>4. BelowFiq(p, st)'
    BY <1>4, <2>2, <2>3, BelowStays
  <2>5. At("fiq", FIQ_STACK_START, here)' /\ ReturnOf("fiq", FIQ_STACK_START, here)' = p
    BY <1>1, <1>7, <2>3 DEF At, ReturnOf
  <2>6. cpsr'.mode = "fiq" /\ Interrupts \subseteq cpsr'.masked
    BY <1>1, <1>7, <2>1 DEF Interrupts
  <2>7. FiqOk(here, cpsr)'
    BY <2>3, <2>4, <2>5, <2>6 DEF FiqOk
  <2> QED BY <1>2, <2>7 DEF TrapInv
<1> QED BY <1>2, <1>5, <1>6, <1>7 DEF TrapInv, Interrupts

(* The handlers of an IRQ and an FIQ: of the one that is entered from an     *)
(* abort with the mode of the abort, and of those entered in their own mode. *)
LEMMA TrapGetStack ==
  ASSUME TrapInv, trap # NoTrap, GetStack
  PROVE  TrapInv'
<1>1. PICK h \in {"irq", "fiq"} : here = <<h, "stack">>
  BY DEF GetStack
<1>2. /\ here' = <<h, "save">> /\ UNCHANGED <<cpsr, spsr, lr, frames>>
      /\ sp' = [sp EXCEPT ![cpsr.mode] = IF h = "irq" THEN IRQ_STACK_START
                                         ELSE FIQ_STACK_START]
      /\ DOMAIN spsr' = Modes /\ DOMAIN sp' = Modes /\ DOMAIN lr' = Modes
  BY <1>1, HandlerPlaces DEF GetStack, TrapInv
<1>3. FrameAt(IrqFrame).pc' = FrameAt(IrqFrame).pc
  BY <1>2 DEF FrameAt, IrqFrame, IRQ_STACK_START
<1>4. h # "not_used" /\ here # Nowhere /\ "irq" \in Modes /\ "fiq" \in Modes /\ "svc" \in Modes
  BY <1>1 DEF Nowhere, Modes
<1>5. CASE AbortOk(here, cpsr)
  <2>1. h = "irq" /\ cpsr.mode = "svc" /\ spsr["svc"].mode = "svc"
        /\ lr["svc"] = <<"not_used", "call">>
    BY <1>1, <1>5, HandlerPlaces DEF AbortOk, Nowhere
  <2>2. AbortOk(here, cpsr)'
    BY <1>2, <1>4, <2>1 DEF AbortOk, TrapInv
  <2> QED BY <1>2, <2>2 DEF TrapInv, BelowFiq
<1>6. CASE IrqOk(here, cpsr)
  <2>1. h = "irq" /\ cpsr.mode = "irq" /\ "irq" \in cpsr.masked
    BY <1>1, <1>4, <1>6, AtPlaces DEF IrqOk
  <2>2. PICK back, st : back = lr["irq"] /\ st = spsr["irq"]
    OBVIOUS
  <2>3. AbortOk(back, st)
    BY <1>1, <1>4, <1>6, <2>1, <2>2 DEF IrqOk, ReturnOf
  <2>4. AbortOk(back, st)'
    BY <1>2, <1>3, <2>1, <2>3, AbortStays
  <2>5. At("irq", IRQ_STACK_START, here)' /\ ReturnOf("irq", IRQ_STACK_START, here)' = back
    BY <1>2, <1>4, <2>1, <2>2 DEF At, ReturnOf, TrapInv, IRQ_STACK_START
  <2>6. IrqOk(here, cpsr)'
    BY <1>2, <2>1, <2>2, <2>4, <2>5 DEF IrqOk
  <2> QED BY <1>2, <2>6 DEF TrapInv, BelowFiq
<1>7. CASE FiqOk(here, cpsr)
  <2>1. h = "fiq" /\ cpsr.mode = "fiq" /\ Interrupts \subseteq cpsr.masked
    BY <1>1, <1>4, <1>7, AtPlaces DEF FiqOk
  <2>2. PICK back, st : back = lr["fiq"] /\ st = spsr["fiq"]
    OBVIOUS
  <2>3. BelowFiq(back, st)
    BY <1>1, <1>4, <1>7, <2>1, <2>2 DEF FiqOk, ReturnOf
  <2>4. BelowFiq(back, st)'
    BY <1>2, <1>3, <2>1, <2>3, BelowStays
  <2>5. At("fiq", FIQ_STACK_START, here)' /\ ReturnOf("fiq", FIQ_STACK_START, here)' = back
    BY <1>2, <1>4, <2>1, <2>2 DEF At, ReturnOf, TrapInv, FIQ_STACK_START
  <2>6. FiqOk(here, cpsr)'
    BY <1>2, <2>1, <2>2, <2>4, <2>5 DEF FiqOk
  <2> QED BY <1>2, <2>6 DEF TrapInv
<1> QED BY <1>5, <1>6, <1>7 DEF TrapInv, BelowFiq

LEMMA TrapSave ==
  ASSUME TrapInv, trap # NoTrap, IrqSaveUserRegs
  PROVE  TrapInv'
<1>1. PICK h \in {"irq", "fiq"} : here = <<h, "save">>
  BY DEF IrqSaveUserRegs
<1>2. PICK m, base, frame :
        /\ m = cpsr.mode /\ base = sp[m] - FrameSize /\ frame.pc = lr[m]
        /\ here' = <<h, "call">> /\ UNCHANGED <<cpsr, spsr, lr>>
        /\ sp' = [sp EXCEPT ![m] = base] /\ frames' = FramesWith(base, frame)
  BY <1>1, HandlerPlaces DEF IrqSaveUserRegs
<1>3. DOMAIN spsr' = Modes /\ DOMAIN sp' = Modes /\ DOMAIN lr' = Modes
  BY <1>2 DEF TrapInv
<1>4. h # "not_used" /\ here # Nowhere /\ "irq" \in Modes /\ "fiq" \in Modes /\ "svc" \in Modes
  BY <1>1 DEF Nowhere, Modes
<1>5. base \in DOMAIN frames' /\ FrameAt(base).pc' = lr[m]
  BY <1>2 DEF FramesWith, FrameAt
<1>6. CASE AbortOk(here, cpsr)
  <2>1. /\ h = "irq" /\ m = "svc" /\ spsr["svc"].mode = "svc"
        /\ lr["svc"] = <<"not_used", "call">> /\ sp["svc"] = IRQ_STACK_START
    BY <1>1, <1>2, <1>6, HandlerPlaces DEF AbortOk, Nowhere
  <2>2. base = IrqFrame /\ FrameAt(IrqFrame).pc' = <<"not_used", "call">>
    BY <1>2, <1>5, <2>1 DEF IrqFrame
  <2>3. sp'["svc"] = IrqFrame
    BY <1>2, <1>4, <2>1, <2>2 DEF TrapInv
  <2>4. FrameAt(IrqFrame)'.pc = <<"not_used", "call">>
    BY <2>2
  <2>5. AbortOk(here, cpsr)'
    BY <1>2, <2>1, <2>3, <2>4 DEF AbortOk, IrqFrame, IRQ_STACK_START
  <2> QED BY <1>3, <2>5 DEF TrapInv, BelowFiq
<1>7. CASE IrqOk(here, cpsr)
  <2>1. h = "irq" /\ m = "irq" /\ "irq" \in cpsr.masked /\ sp["irq"] = IRQ_STACK_START
    BY <1>1, <1>2, <1>4, <1>7, AtPlaces DEF IrqOk, At
  <2>2. PICK back, st : back = lr["irq"] /\ st = spsr["irq"]
    OBVIOUS
  <2>3. AbortOk(back, st)
    BY <1>1, <1>4, <1>7, <2>1, <2>2 DEF IrqOk, ReturnOf
  <2>4. base = IrqFrame /\ FrameAt(IrqFrame).pc' = back
    BY <1>2, <1>5, <2>1, <2>2 DEF IrqFrame
  <2>5. AbortOk(back, st)'
    BY <1>2, <2>1, <2>3, <2>4, AbortStays
  <2>6. At("irq", IRQ_STACK_START, here)' /\ ReturnOf("irq", IRQ_STACK_START, here)' = back
    BY <1>2, <1>4, <2>1, <2>2, <2>4 DEF At, ReturnOf, TrapInv, IRQ_STACK_START, IrqFrame
  <2>7. IrqOk(here, cpsr)'
    BY <1>2, <2>1, <2>2, <2>5, <2>6 DEF IrqOk
  <2> QED BY <1>3, <2>7 DEF TrapInv, BelowFiq
<1>8. CASE FiqOk(here, cpsr)
  <2>1. h = "fiq" /\ m = "fiq" /\ Interrupts \subseteq cpsr.masked /\ sp["fiq"] = FIQ_STACK_START
    BY <1>1, <1>2, <1>4, <1>8, AtPlaces DEF FiqOk, At
  <2>2. PICK back, st : back = lr["fiq"] /\ st = spsr["fiq"]
    OBVIOUS
  <2>3. BelowFiq(back, st)
    BY <1>1, <1>4, <1>8, <2>1, <2>2 DEF FiqOk, ReturnOf
  <2>4. base = FIQ_STACK_START - FrameSize /\ base = IrqFrame + 4
    BY <1>2, <2>1, Addresses
  <2>5. IrqFrame \notin DOMAIN frames'
    BY <1>2, <2>4, Addresses DEF FramesWith
  <2>6. FrameAt(IrqFrame).pc' = Nowhere
    BY <2>5 DEF FrameAt, IrqFrame, IRQ_STACK_START
  <2>7. BelowFiq(back, st)'
    BY <1>2, <2>1, <2>3, <2>6, BelowStays
  <2>8. At("fiq", FIQ_STACK_START, here)' /\ ReturnOf("fiq", FIQ_STACK_START, here)' = back
    BY <1>2, <1>4, <1>5, <2>1, <2>2, <2>4 DEF At, ReturnOf, TrapInv, FIQ_STACK_START
  <2>9. FiqOk(here, cpsr)'
    BY <1>2, <2>1, <2>2, <2>7, <2>8 DEF FiqOk
  <2> QED BY <1>3, <2>9 DEF TrapInv
<1> QED BY <1>6, <1>7, <1>8 DEF TrapInv, BelowFiq

LEMMA TrapRestore ==
  ASSUME TrapInv, trap # NoTrap, IrqRestoreUserRegs
  PROVE  TrapInv'
<1>1. PICK h \in {"irq", "fiq"} : here = <<h, "restore">>
  BY DEF IrqRestoreUserRegs
<1>2. PICK m, back, st :
        /\ m = cpsr.mode /\ back = FrameAt(sp[m]).pc /\ st = spsr[m]
        /\ here' = back /\ cpsr' = st /\ lr' = [lr EXCEPT ![m] = back]
        /\ UNCHANGED <<spsr, sp, frames>>
  BY <1>1 DEF IrqRestoreUserRegs
<1>3. DOMAIN spsr' = Modes /\ DOMAIN sp' = Modes /\ DOMAIN lr' = Modes
  BY <1>2 DEF TrapInv
<1>4. h # "not_used" /\ here # Nowhere /\ "irq" \in Modes /\ "fiq" \in Modes /\ "svc" \in Modes
  BY <1>1 DEF Nowhere, Modes
<1>5. FrameAt(IrqFrame).pc' = FrameAt(IrqFrame).pc
  BY <1>2 DEF FrameAt, IrqFrame, IRQ_STACK_START
<1>6. CASE AbortOk(here, cpsr)
  <2>1. /\ h = "irq" /\ m = "svc" /\ spsr["svc"].mode = "svc" /\ sp["svc"] = IrqFrame
        /\ FrameAt(IrqFrame).pc \in {Nowhere, <<"not_used", "call">>,
                                    <<"irq", "call">>, <<"irq", "restore">>}
    <3>1. h = "irq" /\ here = <<"irq", "restore">>
      BY <1>1, <1>4, <1>6 DEF AbortOk, Handlers, Aborts
    <3>2. here \notin (Handlers \X {"stack"}) \cup (Handlers \X {"save", "call"})
      BY <3>1 DEF Handlers, Aborts
    <3> QED BY <1>2, <1>4, <1>6, <3>1, <3>2 DEF AbortOk
  <2>2. FrameAt(IrqFrame).pc' = back
    BY <1>2, <1>5, <2>1
  <2>3. FrameAt(IrqFrame)'.pc = back
    BY <2>2
  <2>4. AbortOk(here, cpsr)'
    BY <1>2, <2>1, <2>3 DEF AbortOk, IrqFrame, IRQ_STACK_START
  <2> QED BY <1>3, <2>4 DEF TrapInv, BelowFiq
<1>7. CASE IrqOk(here, cpsr)
  <2>1. /\ m = "irq" /\ h = "irq" /\ sp["irq"] = IRQ_STACK_START - FrameSize
    BY <1>1, <1>2, <1>4, <1>7, AtPlaces DEF IrqOk, At
  <2>2. AbortOk(back, st)
    BY <1>1, <1>2, <1>4, <1>7, <2>1 DEF IrqOk, ReturnOf
  <2>3. AbortOk(back, st)'
    BY <1>2, <1>5, <2>1, <2>2, AbortStays
  <2>4. AbortOk(here, cpsr)'
    BY <1>2, <2>3
  <2> QED BY <1>3, <2>4 DEF TrapInv, BelowFiq
<1>8. CASE FiqOk(here, cpsr)
  <2>1. /\ m = "fiq" /\ h = "fiq" /\ sp["fiq"] = FIQ_STACK_START - FrameSize
    BY <1>1, <1>2, <1>4, <1>8, AtPlaces DEF FiqOk, At
  <2>2. BelowFiq(back, st)
    BY <1>1, <1>2, <1>4, <1>8, <2>1 DEF FiqOk, ReturnOf
  <2>3. BelowFiq(back, st)'
    BY <1>2, <1>5, <2>1, <2>2, BelowStays
  <2>4. BelowFiq(here, cpsr)'
    BY <1>2, <2>3
  <2> QED BY <1>3, <2>4 DEF TrapInv
<1> QED BY <1>6, <1>7, <1>8 DEF TrapInv, BelowFiq

(* The handlers of the aborts are not entered in the modes of IRQ and FIQ.  *)
LEMMA OwnMode ==
  ASSUME TrapInv, trap # NoTrap, here # Nowhere,
         \A x \in {"stack", "save", "call", "restore"} :
           here # <<"irq", x>> /\ here # <<"fiq", x>>
  PROVE  AbortOk(here, cpsr)
<1>1. ~IrqOk(here, cpsr)
  BY AtPlaces DEF IrqOk
<1>2. ~FiqOk(here, cpsr)
  BY AtPlaces DEF FiqOk
<1> QED BY <1>1, <1>2 DEF TrapInv, BelowFiq

LEMMA AbortHere ==
  ASSUME TrapInv, trap # NoTrap, here[1] \in Aborts
  PROVE  /\ AbortOk(here, cpsr) /\ here = <<here[1], here[2]>>
         /\ here[1] # "irq" /\ here[1] # "fiq"
<1>1. here[1] # "irq" /\ here[1] # "fiq" /\ here[1] # "nowhere"
  BY DEF Aborts
<1>2. here # Nowhere
  BY <1>1, HandlerPlaces
<1>3. ASSUME NEW y PROVE here # <<"irq", y>> /\ here # <<"fiq", y>>
  <2>1. <<"irq", y>>[1] = "irq" /\ <<"fiq", y>>[1] = "fiq"
    OBVIOUS
  <2> QED BY <1>1, <2>1
<1> QED BY <1>1, <1>2, <1>3, OwnMode, TrapPlace

LEMMA TrapGetBadStack ==
  ASSUME TrapInv, trap # NoTrap, GetBadStack
  PROVE  TrapInv'
<1>1. PICK h \in Aborts : here = <<h, "stack">> /\ AbortOk(here, cpsr)
  BY AbortHere DEF GetBadStack
<1>2. /\ here' = <<h, "save">> /\ cpsr' = [mode |-> "svc", masked |-> {}]
      /\ DOMAIN spsr' = Modes /\ DOMAIN sp' = Modes /\ DOMAIN lr' = Modes
  BY <1>1 DEF GetBadStack, TrapInv
<1>3. CASE h = "not_used"
  <2>1. cpsr.mode = "svc"
    <3>1. here # Nowhere /\ here \notin Handlers \X {"stack"}
      BY <1>1, <1>3 DEF Nowhere, Handlers
    <3> QED BY <1>1, <3>1 DEF AbortOk
  <2>2. spsr'["svc"].mode = "svc"
    BY <2>1 DEF GetBadStack, TrapInv, Modes
  <2> QED BY <1>2, <1>3, <2>2 DEF TrapInv, BelowFiq, AbortOk
<1>4. CASE h # "not_used"
  BY <1>2, <1>4 DEF TrapInv, BelowFiq, AbortOk, Handlers
<1> QED BY <1>3, <1>4

LEMMA TrapBadSave ==
  ASSUME TrapInv, trap # NoTrap, BadSaveUserRegs
  PROVE  TrapInv'
<1>1. PICK h \in Aborts : here = <<h, "save">> /\ AbortOk(here, cpsr)
  BY AbortHere DEF BadSaveUserRegs
<1>2. /\ here' = <<h, "call">> /\ UNCHANGED <<cpsr, spsr>>
      /\ DOMAIN spsr' = Modes /\ DOMAIN sp' = Modes /\ DOMAIN lr' = Modes
  BY <1>1 DEF BadSaveUserRegs, TrapInv
<1>3. here # Nowhere /\ here \notin Handlers \X {"stack"} /\ h # "irq"
  BY <1>1 DEF Nowhere, Aborts
<1>4. CASE h = "not_used"
  <2>1. cpsr.mode = "svc" /\ spsr["svc"].mode = "svc"
    BY <1>1, <1>3, <1>4 DEF AbortOk, Handlers
  <2> QED BY <1>2, <1>4, <2>1 DEF TrapInv, BelowFiq, AbortOk
<1>5. CASE h # "not_used"
  <2>1. cpsr.mode = "svc"
    BY <1>1, <1>3 DEF AbortOk
  <2> QED BY <1>2, <1>5, <2>1 DEF TrapInv, BelowFiq, AbortOk, Handlers
<1> QED BY <1>4, <1>5

LEMMA TrapCall ==
  ASSUME TrapInv, trap # NoTrap, CallDo
  PROVE  TrapInv'
<1>1. PICK h : here = <<h, "call">>
  BY TrapPlace DEF CallDo
<1>2. /\ here' = Behind(h) /\ UNCHANGED <<cpsr, spsr, sp, frames>>
      /\ lr' = [lr EXCEPT ![cpsr.mode] = here]
      /\ DOMAIN spsr' = Modes /\ DOMAIN sp' = Modes /\ DOMAIN lr' = Modes
  BY <1>1 DEF CallDo, TrapInv
<1>3. here # Nowhere /\ "irq" \in Modes /\ "fiq" \in Modes /\ "svc" \in Modes
  BY <1>1 DEF Nowhere, Modes
<1>4. FrameAt(IrqFrame).pc' = FrameAt(IrqFrame).pc
  BY <1>2 DEF FrameAt, IrqFrame, IRQ_STACK_START
<1>5. CASE AbortOk(here, cpsr)
  <2>1. cpsr.mode = "svc" /\ here \notin Handlers \X {"stack"}
    BY <1>1, <1>3, <1>5 DEF AbortOk
  <2>2. CASE h \in Handlers
    <3>1. here' \in (Handlers \X {"stack"}) \cup {<<"not_used", "stack">>}
      BY <1>2, <2>2 DEF Behind, Handlers, Aborts
    <3> QED BY <1>2, <2>1, <3>1 DEF TrapInv, BelowFiq, AbortOk
  <2>3. CASE h \notin Handlers
    <3>1. spsr["svc"].mode = "svc" /\ h \in {"not_used", "irq"}
      BY <1>1, <1>3, <1>5, <2>3 DEF AbortOk
    <3>2. CASE h = "not_used"
      <4>1. here' = <<"irq", "stack">> /\ lr'["svc"] = <<"not_used", "call">>
        BY <1>1, <1>2, <1>3, <2>1, <3>2 DEF Behind, TrapInv
      <4> QED BY <1>2, <2>1, <3>1, <4>1 DEF TrapInv, BelowFiq, AbortOk
    <3>3. CASE h = "irq"
      <4>1. here' = <<"irq", "restore">>
        BY <1>2, <3>3 DEF Behind
      <4>2. sp["svc"] = IrqFrame /\ FrameAt(IrqFrame).pc \in
              {Nowhere, <<"not_used", "call">>, <<"irq", "call">>, <<"irq", "restore">>}
        BY <1>1, <1>3, <1>5, <2>3, <3>3 DEF AbortOk
      <4>3. AbortOk(here, cpsr)'
        BY <1>2, <1>4, <2>1, <3>1, <4>1, <4>2 DEF AbortOk, IrqFrame, IRQ_STACK_START
      <4> QED BY <1>2, <4>3 DEF TrapInv, BelowFiq
    <3> QED BY <3>1, <3>2, <3>3
  <2> QED BY <2>2, <2>3
<1>6. CASE IrqOk(here, cpsr)
  <2>1. /\ h = "irq" /\ cpsr.mode = "irq" /\ "irq" \in cpsr.masked
        /\ sp["irq"] = IRQ_STACK_START - FrameSize
    BY <1>1, <1>3, <1>6, AtPlaces DEF IrqOk, At
  <2>2. PICK back, st : back = FrameAt(IrqFrame).pc /\ st = spsr["irq"]
    OBVIOUS
  <2>3. AbortOk(back, st)
    BY <1>1, <1>3, <1>6, <2>1, <2>2 DEF IrqOk, ReturnOf, IrqFrame
  <2>4. AbortOk(back, st)'
    BY <1>2, <1>4, <2>1, <2>3, AbortStays
  <2>5. here' = <<"irq", "restore">>
    BY <1>2, <2>1 DEF Behind
  <2>6. At("irq", IRQ_STACK_START, here)' /\ ReturnOf("irq", IRQ_STACK_START, here)' = back
    BY <1>2, <1>4, <2>1, <2>2, <2>5 DEF At, ReturnOf, IRQ_STACK_START, IrqFrame
  <2>7. IrqOk(here, cpsr)'
    BY <1>2, <2>1, <2>2, <2>4, <2>6 DEF IrqOk
  <2> QED BY <1>2, <2>7 DEF TrapInv, BelowFiq
<1>7. CASE FiqOk(here, cpsr)
  <2>1. /\ h = "fiq" /\ cpsr.mode = "fiq" /\ Interrupts \subseteq cpsr.masked
        /\ sp["fiq"] = FIQ_STACK_START - FrameSize
    BY <1>1, <1>3, <1>7, AtPlaces DEF FiqOk, At
  <2>2. PICK back, st : back = FrameAt(FIQ_STACK_START - FrameSize).pc /\ st = spsr["fiq"]
    OBVIOUS
  <2>3. BelowFiq(back, st)
    BY <1>1, <1>3, <1>7, <2>1, <2>2 DEF FiqOk, ReturnOf
  <2>4. BelowFiq(back, st)'
    BY <1>2, <1>4, <2>1, <2>3, BelowStays
  <2>5. here' = <<"fiq", "restore">>
    BY <1>2, <2>1 DEF Behind
  <2>6. At("fiq", FIQ_STACK_START, here)' /\ ReturnOf("fiq", FIQ_STACK_START, here)' = back
    BY <1>2, <2>1, <2>2, <2>5 DEF At, ReturnOf, FIQ_STACK_START, FrameAt
  <2>7. FiqOk(here, cpsr)'
    BY <1>2, <2>1, <2>2, <2>4, <2>6 DEF FiqOk
  <2> QED BY <1>2, <2>7 DEF TrapInv
<1> QED BY <1>5, <1>6, <1>7 DEF TrapInv, BelowFiq

LEMMA TrapHolds == TrapInv /\ [BoardNext]_boardVars => TrapInv'
<1> SUFFICES ASSUME TrapInv, [BoardNext]_boardVars PROVE TrapInv'
  OBVIOUS
<1>1. CASE Runs \/ UNCHANGED boardVars
  <2>1. UNCHANGED <<here, cpsr, spsr, sp, lr, frames, trap>>
    BY <1>1 DEF Runs, boardVars, excVars
  <2>2. /\ \A h, x, p : ReturnOf(h, x, p)' = ReturnOf(h, x, p) /\ At(h, x, p)' = At(h, x, p)
        /\ \A p, st : AbortOk(p, st)' = AbortOk(p, st)
    BY <2>1 DEF ReturnOf, At, FrameAt, AbortOk, IrqFrame
  <2> QED BY <2>1, <2>2 DEF TrapInv, BelowFiq, FiqOk, IrqOk, IRQ_STACK_START, FIQ_STACK_START
<1>2. CASE Work \/ enable_interrupts \/ disable_interrupts
  <2>1. InProgram /\ UNCHANGED <<trap, spsr, sp, lr>>
    BY <1>2 DEF Work, enable_interrupts, disable_interrupts, SetMask, bankVars
  <2> QED BY <2>1, TrapPlace DEF TrapInv, InProgram
<1>3. CASE \E e \in Interrupts \cup (Aborts \ {"not_used"}) : Raise(e)
  BY <1>3, TrapRaise DEF Handlers
<1>4. CASE Handler
  <2>1. UNCHANGED trap
    BY <1>4 DEF Handler, GetStack, IrqSaveUserRegs, IrqRestoreUserRegs, GetBadStack,
                BadSaveUserRegs, CallDo, histVars
  <2>2. CASE trap = NoTrap
    BY <1>4, <2>1, <2>2 DEF TrapInv, Handler, GetStack, IrqSaveUserRegs,
                       IrqRestoreUserRegs, GetBadStack, BadSaveUserRegs, CallDo
  <2>3. CASE trap # NoTrap
    BY <1>4, <2>3, TrapGetStack, TrapSave, TrapRestore, TrapGetBadStack, TrapBadSave,
       TrapCall DEF Handler
  <2> QED BY <2>2, <2>3
<1>5. CASE ResetBoard
  BY <1>5 DEF ResetBoard, TrapInv
<1> QED BY <1>1, <1>2, <1>3, <1>4, <1>5 DEF BoardNext, Excepted, ExcNext

-----------------------------------------------------------------------------
LEMMA BoardInvariant == BoardSpec => []BoardIInv
<1>1. BoardInit => BoardIInv
  <2>1. BoardInit => ContextInv
    BY ContextFresh DEF BoardInit, ExcInit
  <2>2. BoardInit => TrapInv
    BY DEF BoardInit, ExcInit, TrapInv
  <2> QED BY <2>1, <2>2, InitHolds, StartInit DEF BoardIInv, BoardInit, BootInit
<1>2. BoardIInv /\ [BoardNext]_boardVars => BoardIInv'
  BY BoardTags, StartHolds, ContextHolds, TrapHolds DEF BoardIInv
<1> QED BY <1>1, <1>2, PTL DEF BoardSpec

(* Whatever resets and exceptions come, the kernel sees exactly the three   *)
(* tags (boot.c:7-57).                                                      *)
THEOREM BoardKernelSeesTheTags == BoardSpec => []SeesTheTags
<1>1. BoardIInv => SeesTheTags
  BY DEF BoardIInv, IInv, TypeOK, WalkInv, SeesTheTags
<1> QED BY BoardInvariant, <1>1, PTL

(* Nor does any of them damage its command line (boot.c:32-42).             *)
THEOREM BoardKernelGetsTheCmdline == BoardSpec => []CmdlineIntact
<1>1. BoardIInv => CmdlineIntact
  BY IInvCmdline DEF BoardIInv
<1> QED BY BoardInvariant, <1>1, PTL

(* user_main starts on a whole program, whatever the sizes of its sections  *)
(* and wherever it was started from (start.S:85-119, low_init.c:54-90).     *)
THEOREM WholeProgram == BoardSpec => []JumpsToWhole
<1>1. BoardIInv => JumpsToWhole
  BY DEF BoardIInv, StartInv, JumpsToWhole
<1> QED BY BoardInvariant, <1>1, PTL

(* Without an abort an interrupt leaves no trace in the program             *)
(* (start.S:171-189, 250-262).                                              *)
THEOREM InterruptsLeaveNoTrace == BoardSpec => []ReturnsAsLeft
<1>1. BoardIInv => ReturnsAsLeft
  <2> SUFFICES ASSUME ContextInv, trap = NoTrap
               PROVE  (InProgram => Context = left) /\ here # Nowhere
    BY DEF BoardIInv, ReturnsAsLeft
  <2>1. CASE InProgram
    BY <2>1, LeftPlace, Places
  <2>2. CASE Interrupted
    BY <2>2, InterruptedPlace
  <2> QED BY <2>1, <2>2 DEF ContextInv
<1> QED BY BoardInvariant, <1>1, PTL

(* After an abort the program never goes on, whatever comes while its        *)
(* handler and the ones behind it run (start.S:218-255).                     *)
THEOREM AbortsNeverReturn == BoardSpec => []AbortsTrap
<1>1. BoardIInv => AbortsTrap
  BY TrapPlace DEF BoardIInv, AbortsTrap, InProgram
<1> QED BY BoardInvariant, <1>1, PTL
=============================================================================
