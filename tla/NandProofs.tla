----------------------------- MODULE NandProofs -----------------------------
(***************************************************************************)
(* Proofs about nand_read for every page size, chip size and request: the  *)
(* invariant of NandProps is inductive, hence the bytes match, the CPU     *)
(* stays off the bus while the chip loads, and nand_read implements a      *)
(* sequential copy.                                                        *)
(***************************************************************************)
EXTENDS NandProps, TLAPS

-----------------------------------------------------------------------------
(* Facts about \div and % for any positive divisor: addresses are split    *)
(* into page and column, and page numbers into address cycles.             *)

(* Quotient and remainder recompose the number. *)
LEMMA DivMod ==
  ASSUME NEW n \in Nat, NEW d \in Nat \ {0}
  PROVE  /\ n \div d \in Nat
         /\ n % d \in 0..d-1
         /\ n = d * (n \div d) + (n % d)
  BY Z3

(* They are the only such pair. *)
LEMMA DivModUnique ==
  ASSUME NEW n \in Nat, NEW d \in Nat \ {0}, NEW q \in Nat, NEW r \in 0..d-1,
         n = d * q + r
  PROVE  n \div d = q /\ n % d = r
<1> DEFINE Q == n \div d
           R == n % d
<1>1. Q \in Nat /\ R \in 0..d-1 /\ n = d * Q + R
  BY DivMod
<1> HIDE DEF Q, R
<1>2. ~(Q < q)
  <2> SUFFICES ASSUME Q < q PROVE FALSE
    OBVIOUS
  <2>1. d * (Q + 1) <= d * q
    BY <1>1, Z3
  <2>2. d * (Q + 1) = d * Q + d
    BY <1>1, Z3
  <2> QED BY <1>1, <2>1, <2>2, Z3
<1>3. ~(q < Q)
  <2> SUFFICES ASSUME q < Q PROVE FALSE
    OBVIOUS
  <2>1. d * (q + 1) <= d * Q
    BY <1>1, Z3
  <2>2. d * (q + 1) = d * q + d
    BY <1>1, Z3
  <2> QED BY <1>1, <2>1, <2>2, Z3
<1>4. Q = q
  BY <1>1, <1>2, <1>3
<1> QED BY <1>1, <1>4, Z3 DEF Q, R

(* A number below d * m has a quotient below m. *)
LEMMA DivBound ==
  ASSUME NEW n \in Nat, NEW d \in Nat \ {0}, NEW m \in Nat, n < d * m
  PROVE  n \div d < m
<1> DEFINE Q == n \div d
           R == n % d
<1>1. Q \in Nat /\ R \in 0..d-1 /\ n = d * Q + R
  BY DivMod
<1> HIDE DEF Q, R
<1> SUFFICES ASSUME m <= Q PROVE FALSE
  BY <1>1 DEF Q
<1>2. d * m <= d * Q
  BY <1>1, Z3
<1> QED BY <1>1, <1>2, Z3

(* Two digits in base b determine a number below b * b. *)
LEMMA TwoDigits ==
  ASSUME NEW n \in Nat, NEW b \in Nat \ {0}, n < b * b
  PROVE  (n % b) + b * ((n \div b) % b) = n
<1> DEFINE q == n \div b
<1>1. q \in Nat /\ n % b \in 0..b-1 /\ n = b * q + (n % b)
  BY DivMod
<1>2. q < b
  BY DivBound
<1> HIDE DEF q
<1>3. q % b = q
  <2>1. q \in 0..b-1 /\ q = b * 0 + q
    BY <1>1, <1>2
  <2> QED BY <1>1, <2>1, DivModUnique
<1> QED BY <1>1, <1>3, Z3 DEF q

(* Three digits in base b determine a number below b * b * b. *)
LEMMA ThreeDigits ==
  ASSUME NEW n \in Nat, NEW b \in Nat \ {0}, n < (b * b) * b
  PROVE  (n % b) + b * ((n \div b) % b)
               + (b * b) * ((n \div (b * b)) % b) = n
<1> DEFINE d == b * b
           q == n \div d
           r == n % d
<1>0. d \in Nat \ {0}
  BY Z3
<1>1. q \in Nat /\ r \in 0..d-1 /\ n = d * q + r
  BY <1>0, DivMod
<1>2. q < b
  BY <1>0, DivBound
<1> HIDE DEF q, r
<1>3. q % b = q
  BY <1>1, <1>2, DivModUnique, q = b * 0 + q
<1>4. (r % b) + b * ((r \div b) % b) = r
  BY <1>0, <1>1, TwoDigits
<1>5. r \div b \in Nat /\ r % b \in 0..b-1 /\ r = b * (r \div b) + (r % b)
  BY <1>1, <1>0, DivMod
<1>6. r \div b \in 0..b-1
  BY <1>1, <1>0, <1>5, DivBound
<1> DEFINE s == r \div b
           t == r % b
           x == b * q + s
<1>t. s \in 0..b-1 /\ t \in 0..b-1 /\ b * q \in Nat /\ x \in Nat
  BY <1>1, <1>5, <1>6, Z3
<1>7. n = b * x + t
  <2> DEFINE y == b * q
  <2>a. x = y + s /\ y \in Nat
    BY <1>t
  <2>b. b * y = d * q
    BY <1>1, Z3
  <2>1. b * x = d * q + b * s
    <3> HIDE DEF x, s, y
    <3>1. b * (y + s) = b * y + b * s
      BY <2>a, <1>t, Z3
    <3> QED BY <3>1, <2>a, <2>b
  <2>2. n = d * q + (b * s + t)
    BY <1>1, <1>5
  <2>3. d * q \in Nat /\ b * s \in Nat
    BY <1>0, <1>1, <1>t, Z3
  <2> DEFINE u == d * q
             v == b * s
             w == b * x
  <2>4. w = u + v /\ n = u + (v + t) /\ u \in Nat /\ v \in Nat /\ t \in Nat
    BY <2>1, <2>2, <2>3, <1>t
  <2> HIDE DEF u, v, w, t, s, x, d
  <2>5. n = w + t
    BY <2>4
  <2> QED BY <2>5 DEF w
<1>8. n \div b = x /\ n % b = t
  <2> HIDE DEF x, t
  <2> QED BY <1>7, <1>t, DivModUnique
<1>9. x % b = s
  <2>1. x = b * q + s
    OBVIOUS
  <2> HIDE DEF x, s, d
  <2> QED BY <2>1, <1>t, <1>1, DivModUnique
<1>10. (r \div b) % b = r \div b
  BY <1>5, <1>6, DivModUnique, r \div b = b * 0 + (r \div b)
<1>11. (n % b) + b * ((n \div b) % b) = r
  BY <1>4, <1>8, <1>9, <1>10
<1>12. (b * b) * (q % b) = d * q
  BY <1>3
<1> QED BY <1>1, <1>11, <1>12 DEF q

-----------------------------------------------------------------------------
USE GeometryAssumption

-----------------------------------------------------------------------------
(* Each address cycle is a byte. *)
LEMMA AddrCycleType ==
  ASSUME NEW a \in Nat, NEW k \in 1..5
  PROVE  AddrCycle(a, k) \in Nat
<1> DEFINE c == a % PageSize
           p == a \div PageSize
<1>1. c \in Nat /\ p \in Nat
  BY DivMod
<1>2. ByteBase * ByteBase \in Nat \ {0}
  BY Z3
<1> HIDE DEF c, p
<1>3. /\ c % ByteBase \in Nat
      /\ (c \div ByteBase) % ByteBase \in Nat
      /\ p % ByteBase \in Nat
      /\ (p \div ByteBase) % ByteBase \in Nat
      /\ (p \div (ByteBase * ByteBase)) % ByteBase \in Nat
  <2>1. c \div ByteBase \in Nat /\ p \div ByteBase \in Nat
    BY <1>1, DivMod
  <2>2. p \div (ByteBase * ByteBase) \in Nat
    <3> DEFINE d == ByteBase * ByteBase
    <3> HIDE DEF d
    <3>1. d \in Nat \ {0}
      BY <1>2 DEF d
    <3>2. p \div d \in Nat
      BY <1>1, <3>1, DivMod
    <3> QED BY <3>2 DEF d
  <2> QED BY <1>1, <2>1, <2>2, DivMod
<1> QED BY <1>3 DEF AddrCycle, c, p

(* The chip recovers column and page from the five cycles nand_addr sends: *)
(* this is where the width of the cycles and the chip's size matter.       *)
LEMMA AddrCyclesDecode ==
  ASSUME NEW a \in Nat, a < PageSize * Pages,
         NEW s, \A k \in 1..5 : s[k] = AddrCycle(a, k)
  PROVE  /\ LatchedColumn(s) = a % PageSize
         /\ LatchedPage(s) = a \div PageSize
<1> DEFINE c == a % PageSize
           p == a \div PageSize
<1>1. c \in 0..PageSize-1 /\ p \in Nat
  BY DivMod
<1>2. p < Pages
  BY DivBound
<1>3. /\ s[1] = c % ByteBase
      /\ s[2] = (c \div ByteBase) % ByteBase
      /\ s[3] = p % ByteBase
      /\ s[4] = (p \div ByteBase) % ByteBase
      /\ s[5] = (p \div (ByteBase * ByteBase)) % ByteBase
  BY DEF AddrCycle
<1> HIDE DEF c, p
<1>b. ByteBase * ByteBase \in Nat /\ (ByteBase * ByteBase) * ByteBase \in Nat
  BY Z3
<1>4. LatchedColumn(s) = c
  <2>1. c < ByteBase * ByteBase
    BY <1>1, <1>b
  <2> DEFINE B == ByteBase
  <2>2. B \in Nat \ {0} /\ c \in Nat /\ c < B * B
    BY <1>1, <2>1
  <2>3. (c % B) + B * ((c \div B) % B) = c
    <3> HIDE DEF B
    <3> QED BY ONLY <2>2, TwoDigits, Zenon
  <2> QED BY <1>3, <2>3 DEF LatchedColumn
<1>5. LatchedPage(s) = p
  <2>1. p < (ByteBase * ByteBase) * ByteBase
    BY <1>1, <1>2, <1>b
  <2> DEFINE B == ByteBase
  <2>2. B \in Nat \ {0} /\ p < (B * B) * B
    BY <2>1
  <2>3. (p % B) + B * ((p \div B) % B) + (B * B) * ((p \div (B * B)) % B) = p
    <3> HIDE DEF B
    <3> QED BY ONLY <1>1, <2>2, ThreeDigits, Zenon
  <2> QED BY <1>3, <2>3 DEF LatchedPage
<1> QED BY <1>4, <1>5 DEF c, p

(* Requests stay inside the chip and inside the buffer. *)
LEMMA RequestBounds ==
  ASSUME NEW r \in Requests
  PROVE  /\ r.addr \in Nat /\ r.len \in Nat /\ r.len <= BufSize
         /\ r.addr + r.len <= PageSize * Pages
         /\ BufSize \in Nat
  BY RequestsAssumption

-----------------------------------------------------------------------------
LEMMA InitIInv == Init => IInv
<1> SUFFICES ASSUME Init PROVE IInv
  OBVIOUS
<1>1. TypeOK
  <2>1. BufSize \in Nat /\ 0 \in 0..PageSize
    BY RequestsAssumption
  <2>2. buf \in [0..BufSize-1 -> Nat \cup {NoByte}]
    BY DEF Init
  <2>3. nfcont \in [enable : BOOLEAN, nce : BOOLEAN]
    BY DEF Init
  <2>4. latch \in Seq(Nat)
    BY DEF Init
  <2> QED BY <2>1, <2>2, <2>3, <2>4 DEF Init, TypeOK
<1>2. CallInv /\ ColumnInv /\ PhaseInv /\ LatchInv /\ OutputInv
  BY DEF Init, CallInv, ColumnInv, PhaseInv, LatchInv, OutputInv, Reading
<1>3. BytesMatch
  BY DEF Init, BytesMatch
<1> QED BY <1>1, <1>2, <1>3 DEF IInv

LEMMA NextIInv == IInv /\ [Next]_vars => IInv'
<1> SUFFICES ASSUME IInv, [Next]_vars PROVE IInv'
  OBVIOUS
<1> USE DEF IInv, Reading
<1>r. /\ req.addr \in Nat /\ req.len \in Nat /\ req.len <= BufSize
      /\ req.addr + req.len <= PageSize * Pages
      /\ BufSize \in Nat
  BY RequestBounds DEF TypeOK
<1>m. PageSize * Pages \in Nat
  BY Z3
<1>1. CASE NandOpen
  BY <1>1 DEF NandOpen, TypeOK, CallInv, ColumnInv, PhaseInv, LatchInv,
              OutputInv, BytesMatch, device, NoByte
<1>2. ASSUME NEW r \in Requests, NandRead(r) PROVE IInv'
  <2>1. r.addr % PageSize \in 0..PageSize-1 /\ r.addr \in Nat
    BY RequestBounds, DivMod
  <2>a. nfcont' = [enable |-> TRUE, nce |-> FALSE]
    BY <1>2 DEF NandRead, TypeOK
  <2>b. /\ pc' = "loop" /\ req' = r /\ addr' = r.addr /\ i' = 0
        /\ col' = r.addr % PageSize
        /\ UNCHANGED <<cycle, buf, chip, latch, page, out>>
    BY <1>2 DEF NandRead, device
  <2>2. TypeOK'
    <3>1. nfcont' \in [enable : BOOLEAN, nce : BOOLEAN] /\ 0 \in 0..BufSize
      BY <2>a, <1>r
    <3>2. r.addr % PageSize \in 0..PageSize
      BY <2>1
    <3> QED BY <2>1, <2>b, <3>1, <3>2 DEF TypeOK
  <2>3. CallInv' /\ ColumnInv'
    <3>1. r.addr + 0 = r.addr /\ 0 <= r.len
      BY RequestBounds
    <3> QED BY <2>a, <2>b, <3>1 DEF CallInv, ColumnInv
  <2>4. PhaseInv' /\ LatchInv' /\ OutputInv' /\ BytesMatch'
    BY <1>2 DEF NandRead, PhaseInv, LatchInv, OutputInv, BytesMatch, device
  <2> QED BY <2>2, <2>3, <2>4
<1>3. CASE NandCmdRead
  BY <1>3, <1>r DEF NandCmdRead, Selected, TypeOK, CallInv, ColumnInv, PhaseInv,
              LatchInv, OutputInv, BytesMatch, NoByte
<1>4. CASE NandAddr
  <2>1. addr \in Nat /\ cycle \in 1..5
    BY <1>4 DEF NandAddr, TypeOK
  <2>2. AddrCycle(addr, cycle) \in Nat
    BY <2>1, AddrCycleType
  <2>3. latch' = Append(latch, AddrCycle(addr, cycle))
    BY <1>4 DEF NandAddr, CallInv, PhaseInv, Selected
  <2>4. TypeOK'
    BY <1>4, <2>2, <2>3 DEF NandAddr, TypeOK
  <2>5. LatchInv'
    <3>1. Len(latch) = cycle - 1 /\ latch \in Seq(Nat)
      BY <1>4 DEF NandAddr, LatchInv, TypeOK
    <3>2. Len(latch') = cycle' - 1
      BY <1>4, <2>1, <2>2, <2>3, <3>1 DEF NandAddr
    <3>3. ASSUME NEW k \in 1..cycle'-1 PROVE latch'[k] = AddrCycle(addr', k)
      <4>1. addr' = addr /\ cycle' = cycle + 1
        BY <1>4 DEF NandAddr
      <4>2. CASE k = cycle
        BY <4>1, <4>2, <2>1, <2>2, <2>3, <3>1
      <4>3. CASE k \in 1..cycle-1
        <5>1. latch[k] = AddrCycle(addr, k)
          BY <1>4, <4>3 DEF NandAddr, LatchInv
        <5> QED BY <4>1, <4>3, <5>1, <2>2, <2>3, <3>1
      <4> QED BY <4>1, <4>2, <4>3, <2>1
    <3> QED BY <3>2, <3>3 DEF LatchInv
  <2> QED
    BY <1>4, <2>4, <2>5
    DEF NandAddr, CallInv, ColumnInv, PhaseInv, OutputInv, BytesMatch
<1>5. CASE NandCmdStart
  <2>1. /\ addr \in Nat /\ addr < PageSize * Pages
        /\ col = addr % PageSize
        /\ Len(latch) = 5 /\ chip = "setup" /\ Selected
    BY <1>5, <1>r, <1>m
    DEF NandCmdStart, TypeOK, CallInv, ColumnInv, PhaseInv, LatchInv, Selected
  <2>2. \A k \in 1..5 : latch[k] = AddrCycle(addr, k)
    BY <1>5 DEF NandCmdStart, LatchInv
  <2>3. page' = addr \div PageSize /\ out' = addr % PageSize /\ chip' = "latched"
    BY <1>5, <2>1, <2>2, AddrCyclesDecode DEF NandCmdStart
  <2>4. /\ addr \div PageSize \in Nat
        /\ addr % PageSize \in 0..PageSize-1
        /\ addr = PageSize * (addr \div PageSize) + (addr % PageSize)
    BY <2>1, DivMod
  <2>5. addr \div PageSize < Pages
    BY <2>1, DivBound
  <2>6. OutputInv'
    <3> DEFINE q == addr \div PageSize
    <3>1. PageSize * q = q * PageSize
      BY <2>4, Z3
    <3> QED BY <1>5, <2>1, <2>3, <2>4, <2>5, <3>1 DEF NandCmdStart, OutputInv
  <2>7. TypeOK'
    BY <1>5, <2>3, <2>4 DEF NandCmdStart, TypeOK
  <2> QED
    BY <1>5, <2>3, <2>6, <2>7
    DEF NandCmdStart, CallInv, ColumnInv, PhaseInv, LatchInv, BytesMatch
<1>6. CASE NandDelay
  BY <1>6 DEF NandDelay, TypeOK, CallInv, ColumnInv, PhaseInv, LatchInv,
              OutputInv, BytesMatch, device, NoByte
<1>7. CASE NandWaitReady
  BY <1>7 DEF NandWaitReady, TypeOK, CallInv, ColumnInv, PhaseInv, LatchInv,
              OutputInv, BytesMatch, device, NoByte
<1>8. CASE NandData
  <2>1. /\ i \in 0..BufSize-1 /\ i < req.len /\ col < PageSize
        /\ col \in Nat /\ out = col /\ page < Pages /\ page \in Nat
        /\ page * PageSize + out = addr /\ addr = req.addr + i
        /\ chip = "output" /\ Selected /\ i < req.len
    BY <1>8, <1>r
    DEF NandData, TypeOK, CallInv, PhaseInv, OutputInv, Selected
  <2>2. addr \in 0..PageSize * Pages - 1
    BY <2>1, <1>r, <1>m
  <2>3. DataBus = Flash[addr] /\ Flash[addr] \in Nat
    BY <2>1, <2>2, FlashAssumption DEF DataBus
  <2>4. /\ buf' = [buf EXCEPT ![i] = Flash[req.addr + i]]
        /\ i' = i + 1 /\ addr' = addr + 1 /\ col' = col + 1 /\ out' = out + 1
        /\ UNCHANGED <<pc, req, cycle, nfcont, chip, latch, page>>
    BY <1>8, <2>1, <2>3 DEF NandData
  <2>5. TypeOK'
    <3>1. /\ i + 1 \in 0..BufSize /\ col + 1 \in 0..PageSize
          /\ addr + 1 \in Nat /\ out + 1 \in Nat
      BY <2>1, <2>2, <1>r DEF TypeOK
    <3>2. buf' \in [0..BufSize-1 -> Nat \cup {NoByte}]
      BY <2>1, <2>3, <2>4 DEF TypeOK
    <3> QED BY <2>4, <3>1, <3>2 DEF TypeOK
  <2>6. BytesMatch'
    <3> SUFFICES ASSUME NEW k \in 0..i'-1
                 PROVE  buf'[k] = Flash[req'.addr + k]
      BY DEF BytesMatch
    <3>1. k \in 0..i /\ i \in DOMAIN buf /\ k \in DOMAIN buf
      BY <2>1, <2>4, <1>r DEF TypeOK
    <3>2. CASE k = i
      BY <2>4, <3>1, <3>2
    <3>3. CASE k \in 0..i-1
      BY <2>1, <2>4, <3>1, <3>3 DEF BytesMatch
    <3> QED BY <2>1, <3>1, <3>2, <3>3
  <2>7. OutputInv'
    <3> DEFINE z == page * PageSize
    <3>1. z \in Nat /\ z + out = addr
      BY <2>1, Z3
    <3> HIDE DEF z
    <3>2. z + out' = addr'
      BY <2>1, <2>4, <3>1
    <3> QED BY <2>1, <2>4, <3>2 DEF OutputInv, z
  <2>8. CallInv' /\ ColumnInv' /\ PhaseInv' /\ LatchInv'
    BY <1>8, <2>1, <2>4, <1>r
    DEF NandData, CallInv, ColumnInv, PhaseInv, LatchInv
  <2> QED BY <2>5, <2>6, <2>7, <2>8
<1>9. CASE NandPageEnd
  <2>1. i < req.len => addr % PageSize = 0
    <3> SUFFICES ASSUME i < req.len PROVE addr % PageSize = 0
      OBVIOUS
    <3>1. out = PageSize /\ page * PageSize + out = addr /\ page \in Nat
      BY <1>9 DEF NandPageEnd, TypeOK, OutputInv
    <3>2. addr \in Nat /\ page + 1 \in Nat /\ addr = PageSize * (page + 1) + 0
      BY <3>1, Z3 DEF TypeOK
    <3> QED BY <3>2, DivModUnique
  <2> QED
    BY <1>9, <2>1
    DEF NandPageEnd, TypeOK, CallInv, ColumnInv, PhaseInv, LatchInv, OutputInv,
        BytesMatch, device, NoByte
<1>10. CASE NandReturn
  BY <1>10 DEF NandReturn, TypeOK, CallInv, ColumnInv, PhaseInv, LatchInv,
               OutputInv, BytesMatch, device, NoByte
<1>11. CASE ChipGoBusy
  BY <1>11 DEF ChipGoBusy, TypeOK, CallInv, ColumnInv, PhaseInv, LatchInv,
               OutputInv, BytesMatch, cpu, NoByte
<1>12. CASE ChipLoaded
  BY <1>12 DEF ChipLoaded, TypeOK, CallInv, ColumnInv, PhaseInv, LatchInv,
               OutputInv, BytesMatch, cpu, NoByte
<1>13. CASE UNCHANGED vars
  BY <1>13 DEF vars, TypeOK, CallInv, ColumnInv, PhaseInv, LatchInv, OutputInv,
               BytesMatch, NoByte
<1> QED
  BY <1>1, <1>2, <1>3, <1>4, <1>5, <1>6, <1>7, <1>8, <1>9, <1>10, <1>11,
     <1>12, <1>13 DEF Next, Cpu, Chip

(* Every reachable state of nand_read and the chip satisfies the invariant. *)
THEOREM InvariantHolds == Spec => []IInv
<1> QED BY InitIInv, NextIInv, PTL DEF Spec

(* The locals, registers and buffer keep their types; the data loop never  *)
(* runs past the buffer (i) or past the page (col).                        *)
THEOREM TypeCorrect == Spec => []TypeOK
<1>1. IInv => TypeOK
  BY DEF IInv
<1> QED BY <1>1, InvariantHolds, PTL

(* nand_read stores the bytes of the flash that were asked for, for every  *)
(* page size, chip size, cycle width, flash content and request.           *)
THEOREM ReadsTheRightBytes == Spec => []BytesMatch
<1>1. IInv => BytesMatch
  BY DEF IInv
<1> QED BY <1>1, InvariantHolds, PTL

(* While the chip loads a page nand_read keeps off the bus: the delay and   *)
(* the poll are enough to exclude a stale ready level.                      *)
THEOREM OffTheBusWhileLoading == Spec => QuietWhileLoading
<1>1. IInv /\ [Next]_vars => [Quiet]_vars
  <2> SUFFICES ASSUME IInv, Next, chip \in {"latched", "busy"}
               PROVE  UNCHANGED <<buf, i, nfcont, latch, page, out>>
    BY DEF Quiet
  <2>1. pc \in {"delay", "wait"}
    BY DEF IInv, PhaseInv, TypeOK
  <2>2. pc = "wait" => chip = "busy"
    BY DEF IInv, PhaseInv
  <2> QED
    BY <2>1, <2>2
    DEF Next, Cpu, Chip, NandOpen, NandRead, NandCmdRead, NandAddr,
        NandCmdStart, NandDelay, NandWaitReady, NandData, NandPageEnd,
        NandReturn, ChipGoBusy, ChipLoaded, device, cpu
<1> QED BY <1>1, InvariantHolds, PTL DEF Spec, QuietWhileLoading

(* nand_read implements the sequential copy a block read promises.         *)
THEOREM CopyImplemented == Spec => ImplementsCopy
<1> USE DEF Abstract!vars, Reading
<1>1. Init => Abstract!Init
  BY DEF Init, Abstract!Init, NoByte, Abstract!NoByte
<1>2. IInv /\ [Next]_vars => [Abstract!Next]_(Abstract!vars)
  <2> SUFFICES ASSUME IInv, [Next]_vars
               PROVE  Abstract!Next \/ UNCHANGED Abstract!vars
    OBVIOUS
  <2>1. ASSUME NEW r \in Requests, NandRead(r) PROVE Abstract!Next
    <3>1. Abstract!Call(r)
      BY <2>1 DEF NandRead, Abstract!Call
    <3> QED BY <3>1 DEF Abstract!Next
  <2>2. CASE NandData
    <3>1. /\ pc = "data" /\ i < req.len /\ col < PageSize
          /\ out = col /\ page < Pages /\ chip = "output" /\ Selected
          /\ page * PageSize + out = req.addr + i
      BY <2>2 DEF NandData, IInv, CallInv, PhaseInv, OutputInv, Selected
    <3>2. DataBus = Flash[req.addr + i]
      BY <3>1 DEF DataBus
    <3>3. Abstract!CopyByte
      BY <2>2, <3>1, <3>2 DEF NandData, Abstract!CopyByte
    <3> QED BY <3>3 DEF Abstract!Next
  <2>3. CASE NandReturn
    <3>1. i = req.len
      <4>1. i \in Nat /\ req.len \in Nat /\ i <= req.len /\ i >= req.len
        BY SMTT(30), <2>3, RequestBounds DEF NandReturn, IInv, CallInv, TypeOK
      <4> QED BY <4>1
    <3>2. Abstract!Return
      BY <2>3, <3>1 DEF NandReturn, Abstract!Return
    <3> QED BY <3>2 DEF Abstract!Next
  <2>4. CASE \/ NandOpen \/ NandCmdRead \/ NandAddr \/ NandCmdStart
             \/ NandDelay \/ NandWaitReady \/ NandPageEnd
             \/ ChipGoBusy \/ ChipLoaded \/ UNCHANGED vars
    BY <2>4
    DEF NandOpen, NandCmdRead, NandAddr, NandCmdStart, NandDelay,
        NandWaitReady, NandPageEnd, ChipGoBusy, ChipLoaded, vars, cpu
  <2> QED BY <2>1, <2>2, <2>3, <2>4 DEF Next, Cpu, Chip
<1> QED
  BY <1>1, <1>2, InvariantHolds, PTL DEF Spec, ImplementsCopy, Abstract!Spec
=============================================================================
