---------------------------- MODULE ConsoleProofs ----------------------------
(***************************************************************************)
(* Proofs about the UART driver for any strings and numbers, any number of *)
(* calls and any speed of the transmitter; about the division and number() *)
(* for words of any width; and about vsprintf for any formats.             *)
(***************************************************************************)
EXTENDS ConsoleProps, SequenceTheorems, NaturalsInduction, WellFoundedInduction, FiniteSetTheorems, TLAPS

Chars == 0..255

-----------------------------------------------------------------------------
(* What the calls put are characters. *)

LEMMA StringType ==
  ASSUME NEW buf \in Buffers
  PROVE  StringOf(buf) \in Seq(Chars)
<1> DEFINE end == CHOOSE k \in DOMAIN buf : EndsAt(buf, k)
<1>1. buf \in Seq(Chars) /\ end \in DOMAIN buf
  BY CallAssumption DEF Chars
<1>2. SubSeq(buf, 1, end - 1) \in Seq(Chars)
  <2> HIDE DEF end
  <2> QED BY <1>1, SubSeqProperties
<1> QED BY <1>2 DEF StringOf

LEMMA HexType ==
  ASSUME NEW val \in Hexes
  PROVE  HexString(val) \in Seq(Chars)
<1>1. val \in Int
  BY CallAssumption
<1>2. \A k \in 1..8 : Weight[k] \in Nat \ {0}
  BY SMT DEF Weight
<1>3. ASSUME NEW k \in 1..8
      PROVE  HexChar((val \div Weight[k]) % 16) \in Chars
  <2> DEFINE j == (val \div Weight[k]) % 16
  <2>1. val \div Weight[k] \in Int
    BY <1>1, <1>2
  <2>2. j \in 0..15
    BY <2>1
  <2> HIDE DEF j
  <2>3. HexChar(j) \in Chars
    BY <2>2 DEF HexChar, Chars, Zero, LetterA
  <2> QED BY <2>3 DEF j
<1>4. [k \in 1..8 |-> HexChar((val \div Weight[k]) % 16)] \in Seq(Chars)
  BY <1>3, IsASeq
<1>5. <<Zero, LetterX>> \in Seq(Chars)
  BY DEF Zero, LetterX, Chars
<1> QED BY <1>4, <1>5, ConcatProperties DEF HexString

LEMMA DecType ==
  ASSUME NEW val \in Decimals
  PROVE  DecString(val) \in Seq(Chars)
<1>1. \A v \in Int, d \in {10, 100, 1000, 10000} : Quot(v, d) \in Int /\ Rem(v, d) \in Int
  BY DEF Quot, Rem
<1> DEFINE digit == <<Quot(val, 10000), Quot(Rem(val, 10000), 1000),
                      Quot(Rem(val, 1000), 100), Quot(Rem(val, 100), 10), Rem(val, 10)>>
<1>2. val \in Int
  BY CallAssumption
<1>3. \A k \in 1..5 : digit[k] \in Int
  <2>1. /\ Quot(val, 10000) \in Int
        /\ Rem(val, 10) \in Int /\ Rem(val, 100) \in Int
        /\ Rem(val, 1000) \in Int /\ Rem(val, 10000) \in Int
    BY <1>1, <1>2
  <2>2. /\ Quot(Rem(val, 10000), 1000) \in Int
        /\ Quot(Rem(val, 1000), 100) \in Int
        /\ Quot(Rem(val, 100), 10) \in Int
    BY <1>1, <2>1
  <2> QED BY <2>1, <2>2
<1> HIDE DEF digit
<1>4. \A k \in 1..5 : (Zero + digit[k]) % 256 \in Chars
  BY SMTT(30), <1>3 DEF Zero, Chars
<1>5. [k \in 1..5 |-> (Zero + digit[k]) % 256] \in Seq(Chars)
  BY <1>4, IsASeq
<1> QED BY <1>5 DEF DecString, digit

-----------------------------------------------------------------------------
(* One character more at the front of what is to come, or at the end of     *)
(* what has been, is the same sequence.                                     *)
LEMMA Passed ==
  ASSUME NEW w \in Seq(Chars), NEW c \in Chars, NEW s \in Seq(Chars)
  PROVE  /\ (w \o <<c>>) \o s = w \o (<<c>> \o s)
         /\ Append(w, c) = w \o <<c>>
<1>1. <<c>> \in Seq(Chars)
  OBVIOUS
<1> QED BY SMTT(30), <1>1, ConcatAssociative, AppendIsConcat

LEMMA HeadFirst ==
  ASSUME NEW s \in Seq(Chars), s # <<>>
  PROVE  /\ Head(s) \in Chars /\ Tail(s) \in Seq(Chars)
         /\ s = <<Head(s)>> \o Tail(s)
<1>1. Head(s) \in Chars /\ Tail(s) \in Seq(Chars)
  BY HeadTailProperties
<1> DEFINE t == <<Head(s)>> \o Tail(s)
<1>2. t \in Seq(Chars) /\ Len(t) = Len(s) /\ \A i \in 1..Len(s) : t[i] = s[i]
  BY <1>1
<1>3. s = t
  BY <1>2, SeqEqual
<1> QED BY <1>1, <1>3

(* A call adds the characters it stands for at the far end. *)
LEMMA Appended ==
  ASSUME UartTypeOK, NothingLost, NEW s \in Seq(Chars), todo = <<>>
  PROVE  asked \o s = wire \o Sending \o s
<1>1. Sending \in Seq(Chars)
  <2>1. CASE tx = Empty
    BY <2>1 DEF Sending
  <2>2. CASE tx # Empty
    BY <2>2 DEF UartTypeOK, Sending, Chars
  <2> QED BY <2>1, <2>2
<1>2. wire \o Sending \in Seq(Chars)
  BY <1>1, ConcatProperties DEF UartTypeOK, Chars
<1>3. wire \o Sending \o <<>> = wire \o Sending
  BY <1>2, ConcatEmptySeq
<1> QED BY <1>3 DEF NothingLost

-----------------------------------------------------------------------------
IInv == UartTypeOK /\ NothingLost

LEMMA InitInv == UartInit => IInv
<1> SUFFICES ASSUME UartInit PROVE IInv
  OBVIOUS
<1>1. UartTypeOK
  <2>1. <<>> \in Seq(0..255)
    OBVIOUS
  <2> QED BY <2>1 DEF UartInit, UartTypeOK
<1>2. <<>> = <<>> \o <<>> \o <<>>
  BY ConcatEmptySeq, EmptySeq
<1> QED BY <1>1, <1>2 DEF UartInit, IInv, NothingLost, Sending

LEMMA BeginInv ==
  ASSUME IInv, IdleInv, NEW name, NEW arg, NEW s \in Seq(Chars), Begin(name, arg, s)
  PROVE  IInv' /\ IdleInv'
<1>1. UartTypeOK'
  <2>1. asked \o s \in Seq(Chars)
    BY ConcatProperties DEF IInv, UartTypeOK, Chars
  <2> QED BY <2>1 DEF IInv, UartTypeOK, Begin, Chars
<1>2. asked \o s = wire \o Sending \o s
  BY Appended DEF IInv, IdleInv, Begin
<1>3. NothingLost'
  BY <1>2 DEF NothingLost, Begin, Sending
<1>4. IdleInv'
  BY DEF IdleInv, Begin
<1> QED BY <1>1, <1>3, <1>4 DEF IInv

LEMMA PutcInv ==
  ASSUME IInv, Putc
  PROVE  IInv' /\ IdleInv'
<1>1. wire \in Seq(Chars) /\ todo \in Seq(Chars) /\ todo # <<>>
  BY DEF IInv, UartTypeOK, Putc, Chars
<1> DEFINE c == Head(todo)
           rest == Tail(todo)
<1>2. c \in Chars /\ rest \in Seq(Chars) /\ todo = <<c>> \o rest
  BY <1>1, HeadFirst
<1>3. tx' = c /\ todo' = rest /\ tx = Empty /\ UNCHANGED <<wire, asked>>
  BY DEF Putc
<1> HIDE DEF c, rest
<1>4. UartTypeOK'
  BY <1>2, <1>3 DEF IInv, UartTypeOK, Putc, Chars
<1>5. Sending = <<>> /\ Sending' = <<c>>
  BY <1>2, <1>3 DEF Sending, Empty, Chars
<1>6. asked = wire \o todo
  BY <1>1, <1>5, ConcatEmptySeq DEF IInv, NothingLost
<1>7. asked' = wire' \o Sending' \o todo'
  BY <1>1, <1>2, <1>3, <1>5, <1>6, Passed
<1>8. IdleInv'
  BY DEF IdleInv, Putc
<1> QED BY <1>4, <1>7, <1>8 DEF IInv, NothingLost

LEMMA TransmitInv ==
  ASSUME IInv, IdleInv, Transmit
  PROVE  IInv' /\ IdleInv'
<1>1. wire \in Seq(Chars) /\ todo \in Seq(Chars) /\ tx \in Chars
  BY DEF IInv, UartTypeOK, Transmit, Chars
<1>2. wire' = Append(wire, tx) /\ tx' = Empty /\ tx # Empty
      /\ UNCHANGED <<todo, running, opened, asked>>
  BY DEF Transmit
<1>3. wire' = wire \o <<tx>> /\ wire' \in Seq(Chars)
  BY <1>1, <1>2, Passed, AppendProperties
<1>4. UartTypeOK'
  BY <1>2, <1>3 DEF IInv, UartTypeOK, Chars
<1>5. Sending = <<tx>> /\ Sending' = <<>>
  BY <1>2 DEF Sending
<1>6. wire' \o <<>> = wire'
  BY <1>3, ConcatEmptySeq
<1>7. asked' = wire' \o Sending' \o todo'
  BY <1>2, <1>3, <1>5, <1>6 DEF IInv, NothingLost
<1>8. IdleInv'
  BY <1>2 DEF IdleInv
<1> QED BY <1>4, <1>7, <1>8 DEF IInv, NothingLost

LEMMA StepInv == IInv /\ IdleInv /\ [UartNext]_uartVars => IInv' /\ IdleInv'
<1> SUFFICES ASSUME IInv, IdleInv, [UartNext]_uartVars PROVE IInv' /\ IdleInv'
  OBVIOUS
<1>1. CASE UartOpen
  BY <1>1 DEF UartOpen, IInv, IdleInv, UartTypeOK, NothingLost, Sending
<1>2. ASSUME NEW buf \in Buffers, UartWrite(buf) PROVE IInv' /\ IdleInv'
  BY <1>2, StringType, BeginInv DEF UartWrite
<1>3. ASSUME NEW val \in Hexes, PutHex(val) PROVE IInv' /\ IdleInv'
  BY <1>3, HexType, BeginInv DEF PutHex
<1>4. ASSUME NEW val \in Decimals, PutDec(val) PROVE IInv' /\ IdleInv'
  BY <1>4, DecType, BeginInv DEF PutDec
<1>5. CASE Putc
  BY <1>5, PutcInv
<1>6. CASE Return
  BY <1>6 DEF Return, IInv, IdleInv, UartTypeOK, NothingLost, Sending
<1>7. CASE Transmit
  BY <1>7, TransmitInv
<1>8. CASE UNCHANGED uartVars
  BY <1>8 DEF uartVars, IInv, IdleInv, UartTypeOK, NothingLost, Sending
<1> QED BY <1>1, <1>2, <1>3, <1>4, <1>5, <1>6, <1>7, <1>8 DEF UartNext, UartCalls

-----------------------------------------------------------------------------
(* The driver's state has its types: what putc gets is always a byte.       *)
THEOREM BytesOnly == UartSpec => []UartTypeOK
<1>1. UartInit => IInv /\ IdleInv
  BY InitInv DEF UartInit, IdleInv
<1>2. IInv => UartTypeOK
  BY DEF IInv
<1> QED BY <1>1, <1>2, StepInv, PTL DEF UartSpec

(* What has left the board, what is in the transmitter and what is still to *)
(* be put are together what callers asked for, in order, once each.         *)
THEOREM NoCharacterLost == UartSpec => []NothingLost
<1>1. UartInit => IInv /\ IdleInv
  BY InitInv DEF UartInit, IdleInv
<1>2. IInv => NothingLost
  BY DEF IInv
<1> QED BY <1>1, <1>2, StepInv, PTL DEF UartSpec

-----------------------------------------------------------------------------
(* Sums over sequences and powers are recursive functions, which exist.     *)

LEMMA Induct ==
  ASSUME NEW S, 0 \in S, \A n \in Nat : n \in S => n + 1 \in S
  PROVE  Nat \subseteq S
<1> DEFINE T == Nat \ S
<1> SUFFICES ASSUME T # {} PROVE FALSE
  OBVIOUS
<1>1. PICK x \in T : \A y \in T : ~(<<y, x>> \in OpToRel(<, Nat))
  <2>1. T \in SUBSET Nat
    OBVIOUS
  <2> HIDE DEF T
  <2> QED BY <2>1, NatLessThanWellFounded, WFMin
<1>2. x \in Nat /\ x # 0
  OBVIOUS
<1>3. x - 1 \in Nat /\ (x - 1) + 1 = x /\ x - 1 < x
  BY <1>2
<1>4. <<x - 1, x>> \in OpToRel(<, Nat)
  BY <1>2, <1>3, Zenon DEF OpToRel
<1>5. x - 1 \notin T
  BY <1>1, <1>4
<1> QED BY <1>3, <1>5

-----------------------------------------------------------------------------
(* Quotients. *)

LEMMA MulLe ==
  ASSUME NEW x \in Int, NEW y \in Int, NEW b \in Nat, x <= y
  PROVE  x * b <= y * b
OBVIOUS

LEMMA DivBounds ==
  ASSUME NEW a \in Nat, NEW b \in Nat \ {0}
  PROVE  a \div b \in 0..a /\ (a \div b) * b <= a /\ a < (a \div b) * b + b
<1>1. a = b * (a \div b) + (a % b)
  BY Z3T(30)
<1>2. a % b \in 0..b-1 /\ a \div b \in Int
  OBVIOUS
<1>3. a \div b >= 0
  BY Z3T(30)
<1>4. b * (a \div b) = (a \div b) * b
  BY <1>2
<1> DEFINE q == a \div b
<1>5. q * 1 <= q * b
  BY <1>2, <1>3, MulLe
<1> QED BY <1>1, <1>2, <1>3, <1>4, <1>5

LEMMA DivMod ==
  ASSUME NEW x \in Nat, NEW b \in Nat \ {0}
  PROVE  (x \div b) * b + (x % b) = x
<1>1. x = b * (x \div b) + (x % b)
  BY Z3T(30)
<1>2. x \div b \in Int /\ x % b \in Int
  OBVIOUS
<1>3. b * (x \div b) = (x \div b) * b
  BY <1>2
<1> QED BY <1>1, <1>3

LEMMA DivIs ==
  ASSUME NEW x \in Nat, NEW y \in Nat \ {0}, NEW q \in Nat, NEW r \in Nat,
         x = q * y + r, r < y
  PROVE  x \div y = q
<1> DEFINE d == x \div y
<1>1. d \in Nat /\ d * y <= x /\ x < d * y + y
  BY DivBounds
<1> HIDE DEF d
<1>2. CASE d < q
  <2>1. (d + 1) * y <= q * y
    BY <1>1, <1>2, MulLe
  <2>2. (d + 1) * y = d * y + y
    BY <1>1
  <2>3. d * y \in Nat /\ q * y \in Nat
    BY <1>1
  <2> QED BY <1>1, <2>1, <2>2, <2>3
<1>3. CASE q < d
  <2>1. (q + 1) * y <= d * y
    BY <1>1, <1>3, MulLe
  <2>2. (q + 1) * y = q * y + y
    OBVIOUS
  <2>3. d * y \in Nat /\ q * y \in Nat
    BY <1>1
  <2> QED BY <1>1, <2>1, <2>2, <2>3
<1> QED BY <1>1, <1>2, <1>3 DEF d

LEMMA MulDiv ==
  ASSUME NEW q \in Nat, NEW b \in Nat \ {0}
  PROVE  (q * b) \div b = q
<1>1. q * b \in Nat /\ q * b = q * b + 0
  OBVIOUS
<1> QED BY <1>1, DivIs

-----------------------------------------------------------------------------
(* The numbers puthex and putdec print. *)

LEMMA HexLen ==
  ASSUME NEW val
  PROVE  /\ Len(HexString(val)) = 10
         /\ \A k \in 1..8 : HexString(val)[k + 2] = HexChar((val \div Weight[k]) % 16)
<1> DEFINE s == <<Zero, LetterX>>
           t == [k \in 1..8 |-> HexChar((val \div Weight[k]) % 16)]
<1>1. Len(s) = 2 /\ Len(t) = 8 /\ HexString(val) = s \o t
  BY DEF HexString
<1>2. \A k \in 1..8 : t[k] = HexChar((val \div Weight[k]) % 16)
  OBVIOUS
<1> DEFINE S == {Zero, LetterX} \cup {t[k] : k \in 1..8}
<1>3. s \in Seq(S) /\ t \in Seq(S)
  OBVIOUS
<1> HIDE DEF s, t, S
<1>4. /\ Len(s \o t) = Len(s) + Len(t)
      /\ \A i \in 1 .. Len(s) + Len(t) : (s \o t)[i] = IF i <= Len(s) THEN s[i] ELSE t[i - Len(s)]
  BY <1>3, ConcatProperties
<1>5. \A k \in 1..8 : k + 2 \in 1..10 /\ ~(k + 2 <= 2) /\ (k + 2) - 2 = k
  OBVIOUS
<1>6. Len(s \o t) = 10 /\ \A k \in 1..8 : (s \o t)[k + 2] = t[k]
  BY SMTT(30), <1>1, <1>4, <1>5
<1> QED BY <1>1, <1>2, <1>6

LEMMA BeginCall ==
  ASSUME IInv, IdleInv, LastCallInv, NEW name, NEW arg, NEW s \in Seq(Chars), Begin(name, arg, s),
         name = "puthex" => arg \in Hexes /\ s = HexString(arg),
         name = "putdec" => arg \in Decimals /\ s = DecString(arg)
  PROVE  LastCallInv'
<1>1. asked \in Seq(Chars) /\ asked' = asked \o s /\ call' = <<name, arg>>
  BY DEF IInv, UartTypeOK, Begin, Chars
<1>2. /\ Len(s) <= Len(asked') /\ Len(asked') - Len(s) = Len(asked)
      /\ \A k \in 1..Len(s) : asked'[Len(asked) + k] = s[k]
  BY <1>1
<1>3. EndsWith(s)'
  BY <1>2 DEF EndsWith
<1> QED BY <1>1, <1>3 DEF LastCallInv

LEMMA CallStep ==
  ASSUME IInv, IdleInv, LastCallInv, [UartNext]_uartVars
  PROVE  LastCallInv'
<1>1. ASSUME UNCHANGED <<call, asked>> PROVE LastCallInv'
  BY <1>1 DEF LastCallInv, EndsWith
<1>2. ASSUME NEW buf \in Buffers, UartWrite(buf) PROVE LastCallInv'
  BY <1>2, StringType, BeginCall DEF UartWrite
<1>3. ASSUME NEW val \in Hexes, PutHex(val) PROVE LastCallInv'
  BY <1>3, HexType, BeginCall DEF PutHex
<1>4. ASSUME NEW val \in Decimals, PutDec(val) PROVE LastCallInv'
  BY <1>4, DecType, BeginCall DEF PutDec
<1> QED BY <1>1, <1>2, <1>3, <1>4
        DEF UartNext, UartCalls, UartOpen, Putc, Return, Transmit, uartVars

DigitOf(c) == IF c >= LetterA THEN c - LetterA + 10 ELSE c - Zero

IsSum(f, s, radix, n) ==
  f = [k \in 0..n |-> IF k = 0 THEN 0 ELSE f[k - 1] * radix + DigitOf(s[k])]

LEMMA SumExists ==
  ASSUME NEW s, NEW radix, NEW n \in Nat
  PROVE  \E f : IsSum(f, s, radix, n)
<1> DEFINE S == {i \in Nat : \E f : IsSum(f, s, radix, i)}
<1>1. 0 \in S
  <2>1. IsSum([k \in 0..0 |-> 0], s, radix, 0)
    BY DEF IsSum
  <2> QED BY <2>1
<1>2. ASSUME NEW i \in Nat, i \in S PROVE i + 1 \in S
  <2>1. PICK f : IsSum(f, s, radix, i)
    BY <1>2
  <2> DEFINE g == [k \in 0 .. i + 1 |->
                     IF k = i + 1 THEN f[i] * radix + DigitOf(s[i + 1]) ELSE f[k]]
  <2>2. ASSUME NEW k \in 0 .. i + 1
        PROVE  g[k] = IF k = 0 THEN 0 ELSE g[k - 1] * radix + DigitOf(s[k])
    <3>1. CASE k = i + 1
      BY <3>1
    <3>2. CASE k # i + 1
      <4>1. k \in 0..i /\ g[k] = f[k] /\ (k # 0 => g[k - 1] = f[k - 1])
        BY <3>2
      <4>2. f[k] = IF k = 0 THEN 0 ELSE f[k - 1] * radix + DigitOf(s[k])
        BY <2>1, <4>1 DEF IsSum
      <4> QED BY <4>1, <4>2
    <3> QED BY <3>1, <3>2
  <2>3. IsSum(g, s, radix, i + 1)
    BY <2>2 DEF IsSum
  <2> HIDE DEF g
  <2> QED BY <2>3
<1> HIDE DEF S
<1>3. n \in S
  BY <1>1, <1>2, Induct
<1> QED BY <1>3 DEF S

SumsUp(f, s, radix, n) == IsSum(f, s, radix, n) /\ ValueOf(s, radix) = f[n]

LEMMA ValueIs ==
  ASSUME NEW s, NEW radix, NEW n \in Nat, Len(s) = n
  PROVE  \E f : SumsUp(f, s, radix, n)
<1> DEFINE f == CHOOSE g : IsSum(g, s, radix, n)
<1>1. IsSum(f, s, radix, n)
  BY SumExists
<1>2. ValueOf(s, radix) = f[n]
  BY DEF ValueOf, IsSum, DigitOf
<1> QED BY <1>1, <1>2 DEF SumsUp

(* Digits are appended from the left: as many as a number has give it back. *)
LEMMA HexValue ==
  ASSUME NEW val \in Nat, val \div Weight[1] < 16, NEW s, Len(s) = 8,
         \A k \in 1..8 : s[k] = HexChar((val \div Weight[k]) % 16)
  PROVE  ValueOf(s, 16) = val
<1> DEFINE q(k) == val \div Weight[k]
<1>1. ASSUME NEW k \in 1..8 PROVE q(k) \in Nat /\ DigitOf(s[k]) = q(k) % 16
  <2>1. Weight[k] \in Nat \ {0}
    BY SMT DEF Weight
  <2>2. q(k) \in Nat
    BY <2>1, DivBounds
  <2> DEFINE j == q(k) % 16
  <2>3. j \in 0..15 /\ s[k] = HexChar(j)
    BY <2>2
  <2> HIDE DEF j
  <2>4. DigitOf(HexChar(j)) = j
    BY <2>3 DEF DigitOf, HexChar, Zero, LetterA
  <2> QED BY <2>2, <2>3, <2>4 DEF j
<1>2. /\ Weight[1] = 268435456 /\ Weight[2] = 16777216 /\ Weight[3] = 1048576
      /\ Weight[4] = 65536 /\ Weight[5] = 4096 /\ Weight[6] = 256 /\ Weight[7] = 16
      /\ Weight[8] = 1
  BY SMT DEF Weight
<1>4. q(1) < 16 /\ q(8) = val
  BY <1>2, SMT
<1>5. \A k \in 2..8 : q(k - 1) = q(k) \div 16
  <2>1. /\ val \div 268435456 = (val \div 16777216) \div 16
        /\ val \div 16777216 = (val \div 1048576) \div 16
        /\ val \div 1048576 = (val \div 65536) \div 16
        /\ val \div 65536 = (val \div 4096) \div 16
        /\ val \div 4096 = (val \div 256) \div 16
        /\ val \div 256 = (val \div 16) \div 16
        /\ val \div 16 = (val \div 1) \div 16
    BY SMT
  <2>2. /\ q(1) = q(2) \div 16 /\ q(2) = q(3) \div 16 /\ q(3) = q(4) \div 16
        /\ q(4) = q(5) \div 16 /\ q(5) = q(6) \div 16 /\ q(6) = q(7) \div 16
        /\ q(7) = q(8) \div 16
    BY <1>2, <2>1, SMT
  <2> HIDE DEF q
  <2>3. \A k \in 2..8 : \/ k = 2 /\ k - 1 = 1
                        \/ k = 3 /\ k - 1 = 2
                        \/ k = 4 /\ k - 1 = 3
                        \/ k = 5 /\ k - 1 = 4
                        \/ k = 6 /\ k - 1 = 5
                        \/ k = 7 /\ k - 1 = 6
                        \/ k = 8 /\ k - 1 = 7
    OBVIOUS
  <2> QED BY <2>2, <2>3
<1>6. PICK f : SumsUp(f, s, 16, 8)
  BY ValueIs
<1> HIDE DEF q
<1>7. f[0] = 0 /\ \A k \in 1..8 : f[k] = f[k - 1] * 16 + (q(k) % 16)
  BY <1>1, <1>6 DEF SumsUp, IsSum
<1>8. f[1] = q(1)
  <2>1. f[1] = f[0] * 16 + (q(1) % 16) /\ f[0] = 0
    BY <1>7
  <2>2. q(1) \in Nat /\ q(1) < 16
    BY <1>1, <1>4
  <2> QED BY <2>1, <2>2
<1>9. ASSUME NEW k \in 2..8, f[k - 1] = q(k - 1) PROVE f[k] = q(k)
  <2>1. f[k] = (q(k) \div 16) * 16 + (q(k) % 16)
    BY <1>5, <1>7, <1>9
  <2>2. q(k) \in Nat
    BY <1>1
  <2> QED BY <2>1, <2>2
<1>10. f[2] = q(2)
  BY <1>8, <1>9
<1>11. f[3] = q(3)
  BY <1>9, <1>10
<1>12. f[4] = q(4)
  BY <1>9, <1>11
<1>13. f[5] = q(5)
  BY <1>9, <1>12
<1>14. f[6] = q(6)
  BY <1>9, <1>13
<1>15. f[7] = q(7)
  BY <1>9, <1>14
<1>16. f[8] = q(8)
  BY <1>9, <1>15
<1> QED BY <1>4, <1>6, <1>16 DEF SumsUp

LEMMA DecDigits ==
  ASSUME NEW val \in Int, FiveDigits(val)
  PROVE  /\ Len(DecString(val)) = 5
         /\ DigitOf(DecString(val)[1]) = val \div 10000
         /\ DigitOf(DecString(val)[2]) = (val % 10000) \div 1000
         /\ DigitOf(DecString(val)[3]) = (val % 1000) \div 100
         /\ DigitOf(DecString(val)[4]) = (val % 100) \div 10
         /\ DigitOf(DecString(val)[5]) = val % 10
<1> DEFINE d == <<Quot(val, 10000), Quot(Rem(val, 10000), 1000),
                  Quot(Rem(val, 1000), 100), Quot(Rem(val, 100), 10), Rem(val, 10)>>
<1>1. /\ Rem(val, 10000) = val % 10000 /\ Rem(val, 1000) = val % 1000
      /\ Rem(val, 100) = val % 100 /\ Rem(val, 10) = val % 10
  BY SMT DEF Rem, Quot, FiveDigits
<1>2. d = <<val \div 10000, (val % 10000) \div 1000, (val % 1000) \div 100,
            (val % 100) \div 10, val % 10>>
  BY <1>1, SMT DEF Quot, FiveDigits
<1>3. \A k \in 1..5 : d[k] \in 0..9
  BY <1>2, SMT DEF FiveDigits
<1>4. DecString(val) = [k \in 1..5 |-> (Zero + d[k]) % 256]
  BY SMT DEF DecString
<1>5. \A k \in 1..5 : DigitOf((Zero + d[k]) % 256) = d[k]
  <2> HIDE DEF d
  <2>1. \A j \in 0..9 : DigitOf((Zero + j) % 256) = j
    BY DEF DigitOf, Zero, LetterA
  <2> QED BY <1>3, <2>1
<1> HIDE DEF d
<1>6. /\ Len(DecString(val)) = 5
      /\ \A k \in 1..5 : DigitOf(DecString(val)[k]) = d[k]
  BY <1>4, <1>5, SMT
<1> QED BY <1>2, <1>6, SMT

LEMMA DecValue ==
  ASSUME NEW val \in Int, FiveDigits(val), NEW s, Len(s) = 5,
         \A k \in 1..5 : s[k] = DecString(val)[k]
  PROVE  ValueOf(s, 10) = val
<1>1. PICK f : SumsUp(f, s, 10, 5)
  BY ValueIs
<1>2. f[0] = 0 /\ \A k \in 1..5 : f[k] = f[k - 1] * 10 + DigitOf(DecString(val)[k])
  BY <1>1, SMT DEF SumsUp, IsSum
<1>3. /\ f[1] = f[0] * 10 + val \div 10000
      /\ f[2] = f[1] * 10 + (val % 10000) \div 1000
      /\ f[3] = f[2] * 10 + (val % 1000) \div 100
      /\ f[4] = f[3] * 10 + (val % 100) \div 10
      /\ f[5] = f[4] * 10 + (val % 10)
  BY <1>2, DecDigits, SMT
<1>9. val \in Nat /\ val \div 10000 \in Int
  BY SMT DEF FiveDigits
<1>10. /\ (val \div 10000) * 10 + (val % 10000) \div 1000 = val \div 1000
       /\ (val \div 1000) * 10 + (val % 1000) \div 100 = val \div 100
       /\ (val \div 100) * 10 + (val % 100) \div 10 = val \div 10
       /\ (val \div 10) * 10 + (val % 10) = val
  BY <1>9, SMTT(60)
<1>4. f[1] = val \div 10000
  BY <1>2, <1>3, <1>9, SMT
<1>5. f[2] = val \div 1000
  BY <1>3, <1>4, <1>10, SMT
<1>6. f[3] = val \div 100
  BY <1>3, <1>5, <1>10, SMT
<1>7. f[4] = val \div 10
  BY <1>3, <1>6, <1>10, SMT
<1>8. f[5] = val
  BY <1>3, <1>7, <1>10, SMT
<1> QED BY <1>1, <1>8, SMT DEF SumsUp

LEMMA LastNumberReadable ==
  ASSUME IInv, IdleInv, LastCallInv, ~running, tx = Empty
  PROVE  /\ call[1] = "puthex" => ValueOf(LastChars(8), 16) = call[2]
         /\ call[1] = "putdec" /\ FiveDigits(call[2]) => ValueOf(LastChars(5), 10) = call[2]
<1>1. wire \in Seq(Chars) /\ asked = wire
  BY ConcatEmptySeq DEF IInv, UartTypeOK, NothingLost, Sending, IdleInv, Chars
<1>2. ASSUME NEW n \in Nat, n <= Len(wire)
      PROVE  /\ Len(LastChars(n)) = n
             /\ \A k \in 1..n : LastChars(n)[k] = asked[Len(asked) - n + k]
  BY <1>1, <1>2 DEF LastChars
<1>3. ASSUME call[1] = "puthex" PROVE ValueOf(LastChars(8), 16) = call[2]
  <2> DEFINE val == call[2]
             s == LastChars(8)
  <2>1. val \in Hexes /\ EndsWith(HexString(val))
    BY <1>3 DEF LastCallInv
  <2>2. val \in Nat /\ val \div Weight[1] < 16
    BY <2>1, CallAssumption
  <2>3. 10 <= Len(asked) /\ \A k \in 1..10 : asked[Len(asked) - 10 + k] = HexString(val)[k]
    BY <2>1, HexLen DEF EndsWith
  <2>9. 8 \in Nat /\ 8 <= Len(wire)
    BY <1>1, <2>3
  <2>4. Len(s) = 8 /\ \A k \in 1..8 : s[k] = asked[Len(asked) - 8 + k]
    BY <1>2, <2>9
  <2>5. \A k \in 1..8 : k + 2 \in 1..10 /\ Len(asked) - 10 + (k + 2) = Len(asked) - 8 + k
    BY <1>1
  <2>6. \A k \in 1..8 : s[k] = HexString(val)[k + 2]
    <3> HIDE DEF s, val
    <3> QED BY ZenonT(30), <2>3, <2>4, <2>5
  <2>7. \A k \in 1..8 : s[k] = HexChar((val \div Weight[k]) % 16)
    BY <2>6, HexLen
  <2> HIDE DEF s, val
  <2>8. ValueOf(s, 16) = val
    BY <2>2, <2>4, <2>7, HexValue
  <2> QED BY <2>8 DEF s, val
<1>4. ASSUME call[1] = "putdec", FiveDigits(call[2]) PROVE ValueOf(LastChars(5), 10) = call[2]
  <2> DEFINE val == call[2]
             s == LastChars(5)
  <2>1. val \in Decimals /\ EndsWith(DecString(val))
    BY <1>4 DEF LastCallInv
  <2>0. val \in Int /\ FiveDigits(val)
    BY <1>4, <2>1, CallAssumption
  <2> HIDE DEF val
  <2>6. Len(DecString(val)) = 5
    BY <2>0, DecDigits
  <2>2. 5 <= Len(asked) /\ \A k \in 1..5 : asked[Len(asked) - 5 + k] = DecString(val)[k]
    BY <2>1, <2>6 DEF EndsWith
  <2>7. 5 \in Nat /\ 5 <= Len(wire)
    BY <1>1, <2>2
  <2>3. Len(s) = 5 /\ \A k \in 1..5 : s[k] = asked[Len(asked) - 5 + k]
    BY <1>2, <2>7
  <2>4. \A k \in 1..5 : s[k] = DecString(val)[k]
    BY <2>2, <2>3
  <2> HIDE DEF s
  <2>5. ValueOf(s, 10) = val
    BY SMTT(30), <2>0, <2>3, <2>4, DecValue
  <2> QED BY <2>5 DEF s, val
<1> QED BY <1>3, <1>4

(* What stands on the wire after a puthex or putdec is the number it was    *)
(* asked to print, for any of 32 bits, and any of five digits.              *)
THEOREM NumbersArrive == UartSpec => []NumbersReadable
<1> DEFINE Inv == IInv /\ IdleInv /\ LastCallInv
<1>1. UartInit => Inv
  BY InitInv DEF UartInit, IdleInv, LastCallInv
<1>2. Inv /\ [UartNext]_uartVars => Inv'
  BY StepInv, CallStep
<1>3. Inv => NumbersReadable
  BY LastNumberReadable DEF NumbersReadable
<1> HIDE DEF Inv
<1> QED BY <1>1, <1>2, <1>3, PTL DEF UartSpec

-----------------------------------------------------------------------------
(* The powers of two that are the weights of the bits, and of any base.      *)

IsPower(f, b, n) == f = [k \in 0..n |-> IF k = 0 THEN 1 ELSE b * f[k - 1]]

LEMMA PowerExists ==
  ASSUME NEW b, NEW n \in Nat
  PROVE  \E f : IsPower(f, b, n)
<1> DEFINE S == {i \in Nat : \E f : IsPower(f, b, i)}
<1>1. 0 \in S
  <2>1. IsPower([k \in 0..0 |-> 1], b, 0)
    BY DEF IsPower
  <2> QED BY <2>1
<1>2. ASSUME NEW i \in Nat, i \in S PROVE i + 1 \in S
  <2>1. PICK f : IsPower(f, b, i)
    BY <1>2
  <2> DEFINE g == [k \in 0 .. i + 1 |-> IF k = i + 1 THEN b * f[i] ELSE f[k]]
  <2>2. ASSUME NEW k \in 0 .. i + 1 PROVE g[k] = IF k = 0 THEN 1 ELSE b * g[k - 1]
    <3>1. CASE k = i + 1
      BY <3>1
    <3>2. CASE k # i + 1
      <4>1. k \in 0..i /\ g[k] = f[k] /\ (k # 0 => g[k - 1] = f[k - 1])
        BY <3>2
      <4>2. f[k] = IF k = 0 THEN 1 ELSE b * f[k - 1]
        BY <2>1, <4>1 DEF IsPower
      <4> QED BY <4>1, <4>2
    <3> QED BY <3>1, <3>2
  <2>3. IsPower(g, b, i + 1)
    BY <2>2 DEF IsPower
  <2> HIDE DEF g
  <2> QED BY <2>3
<1> HIDE DEF S
<1>3. n \in S
  BY <1>1, <1>2, Induct
<1> QED BY <1>3 DEF S

LEMMA BitIs == \A n \in 0..Bits : Bit[n] = IF n = 0 THEN 1 ELSE 2 * Bit[n - 1]
<1> DEFINE f == CHOOSE g : IsPower(g, 2, Bits)
<1>1. IsPower(f, 2, Bits)
  BY PowerExists, BitsAssumption
<1>2. Bit = f
  BY DEF Bit, IsPower
<1> HIDE DEF f
<1> QED BY <1>1, <1>2 DEF IsPower

LEMMA BitType == \A n \in 0..Bits : Bit[n] \in Nat \ {0}
<1> DEFINE S == {n \in Nat : n <= Bits => Bit[n] \in Nat \ {0}}
<1>1. 0 \in S
  BY BitIs, BitsAssumption
<1>2. ASSUME NEW n \in Nat, n \in S PROVE n + 1 \in S
  <2> SUFFICES ASSUME n + 1 <= Bits PROVE Bit[n + 1] \in Nat \ {0}
    OBVIOUS
  <2>1. Bit[n + 1] = 2 * Bit[n]
    BY BitIs, BitsAssumption
  <2> QED BY <1>2, <2>1, BitsAssumption
<1> HIDE DEF S
<1>3. Nat \subseteq S
  BY <1>1, <1>2, Induct
<1> QED BY <1>3, BitsAssumption DEF S

(* A higher bit weighs at least twice as much. *)
LEMMA BitsGrow ==
  ASSUME NEW i \in 0..Bits, NEW j \in 0..Bits, i < j
  PROVE  2 * Bit[i] <= Bit[j]
<1> DEFINE S == {d \in Nat : i + 1 + d <= Bits => 2 * Bit[i] <= Bit[i + 1 + d]}
<1>1. 0 \in S
  <2>1. i + 1 <= Bits => Bit[i + 1] = 2 * Bit[i]
    BY BitIs, BitsAssumption
  <2> QED BY <2>1, BitType, BitsAssumption
<1>2. ASSUME NEW d \in Nat, d \in S PROVE d + 1 \in S
  <2> SUFFICES ASSUME i + 1 + (d + 1) <= Bits PROVE 2 * Bit[i] <= Bit[i + 1 + (d + 1)]
    OBVIOUS
  <2> DEFINE k == i + 1 + d
  <2>1. k \in 0..Bits /\ k + 1 \in 0..Bits /\ i + 1 + (d + 1) = k + 1
    BY BitsAssumption
  <2>2. 2 * Bit[i] <= Bit[k]
    BY <1>2, <2>1
  <2> HIDE DEF k
  <2>3. Bit[k + 1] = 2 * Bit[k]
    BY <2>1, BitIs
  <2>4. Bit[k] \in Nat /\ Bit[i] \in Nat
    BY <2>1, BitType
  <2> QED BY <2>1, <2>2, <2>3, <2>4
<1> HIDE DEF S
<1>3. j - (i + 1) \in S
  BY <1>1, <1>2, Induct, BitsAssumption
<1> QED BY <1>3, BitsAssumption DEF S

LEMMA LowBits == Bit[0] = 1 /\ Bit[1] = 2 /\ Bit[2] = 4 /\ Bit[3] = 8 /\ Bit[4] = 16
BY BitIs, BitsAssumption

LEMMA BitsBelow ==
  ASSUME NEW s \in 0..Bits, NEW n \in 0..4, n <= s
  PROVE  Bit[s] = Bit[s - n] * Bit[n]
<1>0. Bits \in Nat
  BY BitsAssumption
<1>1. \A k \in 1..4 : k <= s => Bit[s - (k - 1)] = 2 * Bit[s - k]
  <2> SUFFICES ASSUME NEW k \in 1..4, k <= s PROVE Bit[s - (k - 1)] = 2 * Bit[s - k]
    OBVIOUS
  <2>1. s - (k - 1) \in 0..Bits /\ s - (k - 1) # 0 /\ (s - (k - 1)) - 1 = s - k
    BY <1>0
  <2> QED BY <2>1, BitIs
<1>2. s - 0 = s /\ \A k \in 0..4 : k <= s => Bit[s - k] \in Nat
  <2>1. \A k \in 0..4 : k <= s => s - k \in 0..Bits
    BY <1>0
  <2> QED BY <2>1, BitType
<1>3. /\ 1 <= s => Bit[s] = 2 * Bit[s - 1]
      /\ 2 <= s => Bit[s - 1] = 2 * Bit[s - 2]
      /\ 3 <= s => Bit[s - 2] = 2 * Bit[s - 3]
      /\ 4 <= s => Bit[s - 3] = 2 * Bit[s - 4]
  BY <1>1, <1>2
<1>4. CASE n = 0
  BY <1>2, <1>4, LowBits
<1>5. CASE n = 1
  BY <1>2, <1>3, <1>5, LowBits
<1>6. CASE n = 2
  BY <1>2, <1>3, <1>6, LowBits
<1>7. CASE n = 3
  BY <1>2, <1>3, <1>7, LowBits
<1>8. CASE n = 4
  BY <1>2, <1>3, <1>8, LowBits
<1> QED BY <1>4, <1>5, <1>6, <1>7, <1>8

-----------------------------------------------------------------------------
(* What a shift to the right takes from a divisor and its bit.              *)
LEMMA ShiftedDown ==
  ASSUME NEW s \in 0 .. Bits - 1, NEW n \in 0..4, arg2 \in Nat, Shifted(s)
  PROVE  /\ n <= s => Lsr(curbit, n) = Bit[s - n] /\ Lsr(divisor, n) = arg2 * Bit[s - n]
         /\ n > s => Lsr(curbit, n) = 0
         /\ Lsr(divisor, n) \in Nat
<1>0. s \in 0..Bits /\ n \in 0..Bits /\ Bits \in Nat
  BY BitsAssumption
<1>1. Bit[n] \in Nat \ {0} /\ Bit[s] \in Nat \ {0}
  BY <1>0, BitType
<1>2. ASSUME n <= s
      PROVE  Lsr(curbit, n) = Bit[s - n] /\ Lsr(divisor, n) = arg2 * Bit[s - n]
  <2> DEFINE b == Bit[s - n]
             w == Bit[n]
  <2>1. b \in Nat
    <3>1. s - n \in 0..Bits
      BY <1>0, <1>2
    <3> QED BY <3>1, BitType
  <2>2. Bit[s] = b * w
    BY <1>0, <1>2, BitsBelow
  <2>3. w \in Nat \ {0}
    BY <1>1
  <2>4. curbit = b * w /\ divisor = arg2 * (b * w)
    BY <2>2 DEF Shifted
  <2>5. Lsr(curbit, n) = curbit \div w /\ Lsr(divisor, n) = divisor \div w
    BY DEF Lsr
  <2> HIDE DEF b, w
  <2>6. arg2 * b \in Nat /\ arg2 * (b * w) = (arg2 * b) * w
    BY <2>1, <2>3
  <2>7. (b * w) \div w = b /\ ((arg2 * b) * w) \div w = arg2 * b
    BY <2>1, <2>3, <2>6, MulDiv
  <2>8. Lsr(curbit, n) = b /\ Lsr(divisor, n) = arg2 * b
    BY <2>4, <2>5, <2>6, <2>7
  <2> QED BY <2>8 DEF b
<1>3. ASSUME n > s PROVE Lsr(curbit, n) = 0
  <2>1. 2 * Bit[s] <= Bit[n]
    BY <1>0, <1>3, BitsGrow
  <2>2. Bit[s] = 0 * Bit[n] + Bit[s] /\ Bit[s] < Bit[n]
    BY <1>1, <2>1
  <2>3. Bit[s] \div Bit[n] = 0
    BY <1>1, <2>2, DivIs
  <2> QED BY <2>3 DEF Lsr, Shifted
<1>4. Lsr(divisor, n) \in Nat
  <2>1. divisor \in Nat
    BY <1>1 DEF Shifted
  <2>2. divisor \div Bit[n] \in Nat
    BY <1>1, <2>1, DivBounds
  <2> QED BY <2>2 DEF Lsr
<1> QED BY <1>2, <1>3, <1>4

(* After n subtractions of a pass that began with bit s: found lacks bits   *)
(* below s - n, or is the quotient once there are none; what is subtracted  *)
(* after that does not matter.                                              *)
Partial(x, s, n) ==
  /\ x.left \in Nat
  /\ n <= s => \E f \in 0..arg1 : /\ x.found = 2 * f * Bit[s - n]
                                 /\ arg1 = x.found * arg2 + x.left
                                 /\ x.left < 2 * (arg2 * Bit[s - n])
  /\ n > s => x.found = arg1 \div arg2

LEMMA SubtractFinds ==
  ASSUME NEW s \in 0 .. Bits - 1, NEW n \in 0..3, NEW x, Partial(x, s, n), Shifted(s),
         arg1 \in Nat, arg2 \in Nat \ {0}
  PROVE  Partial(Subtract(x, n), s, n + 1)
<1> DEFINE d == Lsr(divisor, n)
           bit == Lsr(curbit, n)
           x1 == Subtract(x, n)
<1>0. Bits \in Nat
  BY BitsAssumption
<1>1. /\ n <= s => bit = Bit[s - n] /\ d = arg2 * Bit[s - n]
      /\ n > s => bit = 0
      /\ d \in Nat
  BY ShiftedDown
<1>2. /\ x.left >= d => x1.left = x.left - d /\ x1.found = Orr(x.found, bit)
      /\ ~(x.left >= d) => x1 = x
  BY DEF Subtract
<1> HIDE DEF x1, d, bit
<1>3. x.left \in Nat /\ x1.left \in Nat
  BY <1>1, <1>2 DEF Partial
<1>4. ASSUME n > s PROVE Partial(x1, s, n + 1)
  <2>1. x.found = arg1 \div arg2
    BY <1>4 DEF Partial
  <2>2. Orr(x.found, bit) = x.found
    BY <1>1, <1>4 DEF Orr
  <2>3. x1.found = x.found
    BY <1>1, <1>2, <1>3, <2>2
  <2>4. n + 1 > s /\ ~(n + 1 <= s)
    BY <1>4
  <2> QED BY <1>3, <2>1, <2>3, <2>4 DEF Partial
<1>5. ASSUME n <= s PROVE Partial(x1, s, n + 1)
  <2> DEFINE b == Bit[s - n]
  <2>0. s - n \in 0..Bits
    BY <1>0, <1>5
  <2>1. b \in Nat \ {0} /\ bit = b /\ d = arg2 * b
    BY <1>1, <1>5, <2>0, BitType
  <2>2. PICK f \in 0..arg1 : /\ x.found = 2 * f * b
                             /\ arg1 = x.found * arg2 + x.left
                             /\ x.left < 2 * (arg2 * b)
    BY <1>5 DEF Partial
  <2> HIDE DEF b
  <2>3. Orr(x.found, bit) = x.found + b
    <3>1. 2 * f \in Nat /\ x.found = (2 * f) * b
      BY <2>1, <2>2
    <3>2. x.found \div b = 2 * f
      BY <2>1, <3>1, MulDiv
    <3>3. (2 * f) % 2 = 0
      OBVIOUS
    <3> QED BY <2>1, <3>2, <3>3 DEF Orr
  <2>4. \E g \in Nat : /\ x1.found = g * b
                       /\ arg1 = x1.found * arg2 + x1.left
                       /\ x1.left < arg2 * b
    <3>1. CASE x.left >= d
      <4>1. x1.left = x.left - arg2 * b /\ x1.found = x.found + b
        BY <1>2, <2>1, <2>3, <3>1
      <4>2. x1.found = (2 * f + 1) * b
        BY <2>1, <2>2, <4>1
      <4>3. (x.found + b) * arg2 = x.found * arg2 + arg2 * b
        BY <2>1, <2>2
      <4>4. x.found * arg2 \in Nat /\ arg2 * b \in Nat /\ 2 * f + 1 \in Nat
        BY <2>1, <2>2
      <4> QED BY <1>3, <2>2, <4>1, <4>2, <4>3, <4>4
    <3>2. CASE ~(x.left >= d)
      <4>1. x1 = x /\ x1.left < arg2 * b
        BY <1>1, <1>2, <1>3, <2>1, <3>2
      <4>2. x1.found = (2 * f) * b /\ 2 * f \in Nat
        BY <2>1, <2>2, <4>1
      <4> QED BY <2>2, <4>1, <4>2
    <3> QED BY <3>1, <3>2
  <2>5. PICK g \in Nat : /\ x1.found = g * b
                         /\ arg1 = x1.found * arg2 + x1.left
                         /\ x1.left < arg2 * b
    BY <2>4
  <2>6. x1.found \in Nat /\ x1.found * arg2 \in Nat
    BY <2>1, <2>5
  <2>7. CASE n = s
    <3>1. b = 1
      BY <2>7, LowBits DEF b
    <3>2. x1.left < arg2
      BY <2>5, <3>1
    <3>3. x1.found = arg1 \div arg2
      BY <1>3, <2>5, <2>6, <3>2, DivIs
    <3> QED BY <1>3, <2>7, <3>3 DEF Partial
  <2>8. CASE n < s
    <3> DEFINE c == Bit[s - (n + 1)]
    <3>1. s - (n + 1) \in 0..Bits /\ s - n # 0 /\ (s - n) - 1 = s - (n + 1)
      BY <1>0, <2>0, <2>8
    <3>2. b = 2 * c /\ c \in Nat
      BY <2>0, <3>1, BitIs, BitType DEF b
    <3> HIDE DEF c
    <3>3. x1.found = 2 * g * c /\ x1.left < 2 * (arg2 * c)
      BY <2>5, <3>2
    <3>4. g <= arg1
      <4>1. g * 1 <= g * b /\ x1.found * 1 <= x1.found * arg2
        BY <2>1, <2>6
      <4> QED BY <1>3, <2>5, <2>6, <4>1
    <3>5. n + 1 <= s /\ ~(n + 1 > s)
      BY <2>8
    <3> QED BY <1>3, <2>5, <3>3, <3>4, <3>5 DEF Partial, c
  <2> QED BY <1>5, <2>7, <2>8
<1> QED BY <1>4, <1>5 DEF x1

-----------------------------------------------------------------------------
(* The division step by step. *)

LEMMA WordFacts ==
  /\ Bits \in Nat /\ Bits > 4
  /\ Bit[Bits] \in Nat /\ Bit[Bits] >= 32
  /\ Word \subseteq Nat
  /\ \A x \in Word, y \in Nat : y <= x => y \in Word
<1>1. Bits \in Nat /\ Bits > 4
  BY BitsAssumption, NumberAssumption
<1>2. 4 \in 0..Bits /\ Bits \in 0..Bits
  BY <1>1
<1>3. 2 * Bit[4] <= Bit[Bits]
  BY <1>1, <1>2, BitsGrow
<1>4. Bit[Bits] \in Nat
  BY <1>2, BitType
<1> QED BY <1>1, <1>3, <1>4, LowBits DEF Word

LEMMA EntryInv ==
  ASSUME DivisionInv, Entry, num' = num
  PROVE  DivisionInv'
<1>1. arg1 \in Word /\ arg2 \in Word /\ dividend = arg1 /\ divisor = arg2
  BY DEF DivisionInv, Entry
<1>2. arg1 \in Nat /\ arg2 \in Nat
  BY <1>1, WordFacts
<1>3. CASE divisor = 0
  BY <1>1, <1>3 DEF Entry, DivisionInv, Quotient
<1>4. CASE divisor # 0 /\ dividend < divisor
  <2>1. arg1 \div arg2 = 0
    <3>1. arg1 = 0 * arg2 + arg1 /\ arg2 \in Nat \ {0}
      BY <1>1, <1>2, <1>4
    <3> QED BY <1>1, <1>2, <1>4, <3>1, DivIs
  <2> QED BY <1>1, <1>4, <2>1 DEF Entry, DivisionInv, Quotient
<1>5. CASE divisor # 0 /\ ~(dividend < divisor)
  <2>1. 0 \in 0 .. Bits - 1 /\ Bit[0] = 1
    BY WordFacts, LowBits
  <2>2. arg2 = arg2 * 1
    BY <1>2
  <2>3. GoesUp'
    BY <1>1, <1>5, <2>1, <2>2 DEF Entry, GoesUp, Shifted
  <2> QED BY <1>1, <1>5, <2>3 DEF Entry, DivisionInv, Quotient
<1> QED BY <1>3, <1>4, <1>5

(* A shift to the left by n while the divisor is below the bit that would   *)
(* be shifted out of the word: nothing is.                                  *)
LEMMA ShiftedUp ==
  ASSUME NEW s \in 0 .. Bits - 1, NEW n \in {1, 4}, arg2 \in Nat \ {0}, Shifted(s),
         divisor < Bit[Bits - n]
  PROVE  /\ s + n \in 0 .. Bits - 1
         /\ Lsl(curbit, n) = Bit[s + n]
         /\ Lsl(divisor, n) = arg2 * Bit[s + n]
         /\ Lsl(divisor, n) \in Word
<1> DEFINE b == Bit[s]
           w == Bit[n]
           limit == Bit[Bits - n]
<1>0. Bits \in Nat /\ Bits > 4 /\ n \in 0..4 /\ n \in 0..Bits /\ s \in 0..Bits /\ Bits - n \in 0..Bits
  BY WordFacts
<1>1. b \in Nat \ {0} /\ w \in Nat \ {0} /\ limit \in Nat
  BY <1>0, BitType
<1>2. curbit = b /\ divisor = arg2 * b /\ divisor < limit
  BY DEF Shifted
<1>3. Bit[Bits] = limit * w
  <2>1. Bits \in 0..Bits /\ n <= Bits
    BY <1>0
  <2> QED BY <1>0, <2>1, BitsBelow
<1>4. s < Bits - n
  <2> SUFFICES ASSUME ~(s < Bits - n) PROVE FALSE
    OBVIOUS
  <2>1. limit <= b
    <3>1. CASE s = Bits - n
      BY <1>1, <3>1
    <3>2. CASE Bits - n < s
      <4>1. 2 * limit <= b
        BY <1>0, <3>2, BitsGrow
      <4> QED BY <1>1, <4>1
    <3> QED BY <1>0, <3>1, <3>2
  <2>2. 1 * b <= arg2 * b
    BY <1>1, MulLe
  <2> QED BY <1>1, <1>2, <2>1, <2>2
<1>5. s + n \in 0 .. Bits - 1 /\ s + n \in 0..Bits /\ n <= s + n /\ (s + n) - n = s
  BY <1>0, <1>4
<1>6. Bit[s + n] = b * w
  BY <1>0, <1>5, BitsBelow
<1>7. Bit[Bits] \in Nat
  BY WordFacts
<1>8. Lsl(curbit, n) = (b * w) % Bit[Bits] /\ Lsl(divisor, n) = ((arg2 * b) * w) % Bit[Bits]
  BY <1>2 DEF Lsl
<1> HIDE DEF b, w, limit
<1> DEFINE z == arg2 * b
<1>9. z \in Nat /\ z < limit /\ b <= z
  <2>1. 1 * b <= arg2 * b
    BY <1>1, MulLe
  <2> QED BY <1>1, <1>2, <2>1
<1>10. arg2 * (b * w) = z * w
  BY <1>1
<1> HIDE DEF z
<1>11. z * w < limit * w /\ b * w < limit * w
  <2>1. (z + 1) * w <= limit * w /\ (b + 1) * w <= limit * w
    BY <1>1, <1>9, MulLe
  <2>2. (z + 1) * w = z * w + w /\ (b + 1) * w = b * w + w
    BY <1>1, <1>9
  <2>3. z * w \in Nat /\ b * w \in Nat /\ limit * w \in Nat
    BY <1>1, <1>9
  <2> QED BY <1>1, <2>1, <2>2, <2>3
<1>12. z * w \in Nat /\ b * w \in Nat
  BY <1>1, <1>9
<1>13. (b * w) % Bit[Bits] = b * w /\ (z * w) % Bit[Bits] = z * w
  BY <1>3, <1>7, <1>11, <1>12
<1> QED BY <1>3, <1>5, <1>6, <1>7, <1>8, <1>10, <1>11, <1>12, <1>13 DEF Word, z

LEMMA ShiftInv ==
  ASSUME DivisionInv, GoesUp, NEW n \in {1, 4}, pc' \in {"Loop1", "Lbignum"},
         divisor < Bit[Bits - n],
         divisor' = Lsl(divisor, n), curbit' = Lsl(curbit, n),
         UNCHANGED <<arg1, arg2, dividend, result, num>>
  PROVE  DivisionInv'
<1>1. PICK s \in 0 .. Bits - 1 : Shifted(s)
  BY DEF GoesUp
<1>2. arg2 \in Nat \ {0}
  BY WordFacts DEF DivisionInv, GoesUp
<1>3. /\ s + n \in 0 .. Bits - 1
      /\ curbit' = Bit[s + n]
      /\ divisor' = arg2 * Bit[s + n]
      /\ divisor' \in Word
  BY <1>1, <1>2, ShiftedUp
<1>4. GoesUp'
  BY <1>3 DEF GoesUp, Shifted
<1> QED BY <1>4 DEF DivisionInv, Quotient

LEMMA Loop1Inv ==
  ASSUME DivisionInv, Loop1, num' = num
  PROVE  DivisionInv'
<1>1. GoesUp
  BY DEF DivisionInv, Loop1
<1>2. CASE divisor < Bit[Bits - 4] /\ divisor < dividend
  BY <1>1, <1>2, ShiftInv DEF Loop1
<1>3. CASE ~(divisor < Bit[Bits - 4] /\ divisor < dividend)
  BY <1>1, <1>3 DEF Loop1, DivisionInv, GoesUp, Shifted, Quotient
<1> QED BY <1>2, <1>3

LEMMA LbignumInv ==
  ASSUME DivisionInv, Lbignum, num' = num
  PROVE  DivisionInv'
<1>1. GoesUp
  BY DEF DivisionInv, Lbignum
<1>2. CASE divisor < Bit[Bits - 1] /\ divisor < dividend
  BY <1>1, <1>2, ShiftInv DEF Lbignum
<1>3. CASE ~(divisor < Bit[Bits - 1] /\ divisor < dividend)
  <2>1. PICK s \in 0 .. Bits - 1 : Shifted(s)
    BY <1>1 DEF GoesUp
  <2>2. /\ pc' = "Loop3"
        /\ UNCHANGED <<divisor, curbit, arg1, arg2, dividend, result>>
    BY <1>3 DEF Lbignum
  <2>3. /\ arg1 \in Nat /\ arg2 \in Nat /\ divisor \in Nat
        /\ dividend = arg1 /\ result = 0 /\ arg2 # 0 /\ arg1 \in Word
    BY <1>1, WordFacts DEF DivisionInv, GoesUp
  <2>4. dividend < 2 * divisor
    <3>1. CASE ~(divisor < dividend)
      <4>1. divisor # 0
        <5>1. Bit[s] \in Nat \ {0}
          BY BitType, WordFacts
        <5> QED BY <2>1, <2>3, <5>1 DEF Shifted
      <4> QED BY <2>3, <3>1, <4>1
    <3>2. CASE ~(divisor < Bit[Bits - 1])
      <4>1. Bits \in 0..Bits /\ Bits # 0 /\ Bits - 1 \in 0..Bits
        BY WordFacts
      <4>2. Bit[Bits] = 2 * Bit[Bits - 1] /\ Bit[Bits - 1] \in Nat
        BY <4>1, BitIs, BitType
      <4>3. arg1 < Bit[Bits]
        BY <2>3, WordFacts DEF Word
      <4> QED BY <2>3, <3>2, <4>2, <4>3
    <3> QED BY <1>3, <3>1, <3>2
  <2>5. result = 2 * 0 * Bit[s] /\ arg1 = result * arg2 + dividend /\ 0 \in 0..arg1
    <3>1. Bit[s] \in Nat
      BY BitType, WordFacts
    <3> QED BY <2>3, <3>1
  <2>6. GoesDown
    BY <2>1, <2>3, <2>4, <2>5 DEF GoesDown
  <2>7. GoesDown'
    BY <2>2, <2>6 DEF GoesDown, Shifted
  <2> QED BY <2>2, <2>7 DEF DivisionInv, Quotient
<1> QED BY <1>2, <1>3

LEMMA Loop3Inv ==
  ASSUME DivisionInv, Loop3, num' = num
  PROVE  DivisionInv'
<1> DEFINE x0 == [left |-> dividend, found |-> result]
           x == Subtracted
           more == x.left # 0 /\ Lsr(curbit, 4) # 0
<1>1. /\ pc = "Loop3" /\ dividend' = x.left /\ result' = x.found
      /\ x.left # 0 => curbit' = Lsr(curbit, 4)
      /\ more => divisor' = Lsr(divisor, 4) /\ pc' = "Loop3"
      /\ ~more => pc' = "done"
      /\ UNCHANGED <<arg1, arg2>>
  BY DEF Loop3
<1>2. GoesDown
  BY <1>1 DEF DivisionInv
<1>3. arg1 \in Word /\ arg1 \in Nat /\ arg2 \in Nat \ {0}
  BY <1>2, WordFacts DEF DivisionInv, GoesDown
<1>4. PICK s \in 0 .. Bits - 1, f \in 0..arg1 :
        /\ Shifted(s) /\ result = 2 * f * Bit[s]
        /\ arg1 = result * arg2 + dividend
  BY <1>2 DEF GoesDown
<1>5. Partial(x, s, 4)
  <2>1. Partial(x0, s, 0)
    <3>1. s - 0 = s /\ 0 <= s /\ ~(0 > s)
      BY WordFacts
    <3>2. dividend \in Nat /\ dividend < 2 * (arg2 * Bit[s])
      BY <1>2, <1>4, WordFacts DEF GoesDown, Shifted
    <3>3. x0.left = dividend /\ x0.found = result
      OBVIOUS
    <3> HIDE DEF x0
    <3> QED BY <1>4, <3>1, <3>2, <3>3 DEF Partial
  <2> DEFINE x1 == Subtract(x0, 0)
             x2 == Subtract(x1, 1)
             x3 == Subtract(x2, 2)
             x4 == Subtract(x3, 3)
  <2>2. x = x4
    BY DEF Subtracted
  <2> HIDE DEF x0, x
  <2>3. Partial(x1, s, 0 + 1)
    BY <1>3, <1>4, <2>1, SubtractFinds
  <2> HIDE DEF x1
  <2>4. Partial(x2, s, 1 + 1)
    BY <1>3, <1>4, <2>3, SubtractFinds
  <2> HIDE DEF x2
  <2>5. Partial(x3, s, 2 + 1)
    BY <1>3, <1>4, <2>4, SubtractFinds
  <2> HIDE DEF x3
  <2>6. Partial(x4, s, 3 + 1)
    BY <1>3, <1>4, <2>5, SubtractFinds
  <2> QED BY <2>2, <2>6
<1>6. /\ 4 <= s => Lsr(curbit, 4) = Bit[s - 4] /\ Lsr(divisor, 4) = arg2 * Bit[s - 4]
      /\ 4 > s => Lsr(curbit, 4) = 0
  BY <1>3, <1>4, ShiftedDown
<1> HIDE DEF x
<1>7. CASE s < 4
  <2>1. ~more /\ x.found = arg1 \div arg2
    BY <1>5, <1>6, <1>7, WordFacts DEF Partial
  <2> QED BY <1>1, <1>3, <2>1 DEF DivisionInv, Quotient
<1>8. CASE 4 <= s
  <2> DEFINE c == Bit[s - 4]
  <2>0. s - 4 \in 0 .. Bits - 1 /\ s - 4 \in 0..Bits
    BY <1>8, WordFacts
  <2>1. c \in Nat \ {0} /\ Lsr(curbit, 4) = c /\ Lsr(divisor, 4) = arg2 * c
    BY <1>6, <1>8, <2>0, BitType
  <2>2. PICK g \in 0..arg1 : /\ x.found = 2 * g * c
                             /\ arg1 = x.found * arg2 + x.left
                             /\ x.left < 2 * (arg2 * c)
    BY <1>5, <1>8 DEF Partial
  <2>3. x.left \in Nat
    BY <1>5 DEF Partial
  <2> HIDE DEF c
  <2>4. x.found \in Nat /\ x.found * arg2 \in Nat
    BY <1>3, <2>1, <2>2
  <2>5. x.left <= arg1
    BY <1>3, <2>2, <2>3, <2>4
  <2>6. x.left \in Word
    BY <1>3, <2>3, <2>5, WordFacts
  <2>7. CASE x.left = 0
    <3>1. arg1 \div arg2 = x.found
      BY <1>3, <2>2, <2>4, <2>7, DivIs
    <3> QED BY <1>1, <1>3, <2>7, <3>1 DEF DivisionInv, Quotient
  <2>8. CASE x.left # 0
    <3>1. /\ dividend' = x.left /\ result' = x.found /\ curbit' = c
          /\ divisor' = arg2 * c /\ pc' = "Loop3" /\ UNCHANGED <<arg1, arg2>>
      BY <1>1, <2>1, <2>8
    <3>2. Shifted(s - 4)' /\ result' = 2 * g * Bit[s - 4]
      BY <2>2, <3>1 DEF Shifted, c
    <3>3. GoesDown'
      BY <1>3, <2>0, <2>2, <2>6, <3>1, <3>2 DEF GoesDown
    <3> QED BY <1>3, <3>1, <3>3 DEF DivisionInv, Quotient
  <2> QED BY <2>7, <2>8
<1> QED BY <1>7, <1>8, WordFacts

-----------------------------------------------------------------------------
(* number() and the others who divide. *)

LEMMA CallInv ==
  ASSUME DivisionInv, NEW x \in Word, NEW y \in Word, Udivsi3(x, y), num' = num
  PROVE  DivisionInv'
BY DEF DivisionInv, Udivsi3, Quotient

LEMMA MagnitudeType ==
  ASSUME NEW c \in Conversions
  PROVE  Magnitude(c) \in Word
<1>1. Bit[Bits] \in Nat \ {0} /\ Bit[HalfBits] \in Nat \ {0} /\ Bits \in 1..Bits /\ HalfBits \in 1..Bits
  BY BitType, WordFacts, NumberAssumption
<1>2. ASSUME NEW w \in Int, NEW bits \in 1..Bits PROVE Signed(w, bits) \in Int
  <2>1. bits \in 0..Bits
    BY WordFacts
  <2>2. Bit[bits] \in Int
    BY <2>1, BitType
  <2> QED BY <2>2 DEF Signed
<1>3. c.val \in Int
  <2>1. c.val \in Word
    BY DEF Conversions
  <2>2. Word \subseteq Int
    BY WordFacts
  <2> QED BY <2>1, <2>2, Zenon
<1> DEFINE short == c.val % Bit[HalfBits]
           signed == Signed(short, HalfBits)
           w == IF ~c.half THEN c.val ELSE IF c.conv = "d" THEN signed % Bit[Bits] ELSE short
<1>4. short \in Int
  BY <1>1, <1>3
<1>5. signed \in Int
  <2> HIDE DEF short
  <2> QED BY <1>1, <1>2, <1>4
<1>6. signed % Bit[Bits] \in Int
  <2> HIDE DEF signed
  <2> QED BY <1>1, <1>5
<1>7. w \in Int
  <2> HIDE DEF short, signed
  <2> QED BY <1>3, <1>4, <1>6
<1>8. ArgumentOf(c) = Signed(w, Bits)
  BY DEF ArgumentOf
<1>9. ArgumentOf(c) \in Int
  <2> HIDE DEF w
  <2> QED BY <1>1, <1>2, <1>7, <1>8
<1> DEFINE v == IF SignOf(c) = <<Minus>> THEN -ArgumentOf(c) ELSE ArgumentOf(c)
<1>10. v \in Int
  BY <1>9
<1>11. Magnitude(c) = v % Bit[Bits]
  BY DEF Magnitude
<1> HIDE DEF v
<1> QED BY <1>1, <1>10, <1>11 DEF Word

LEMMA DivisionInit == NumberInit => DivisionInv
<1>1. 0 \in Word
  BY WordFacts DEF Word
<1> QED BY <1>1 DEF NumberInit, DivisionInv, Quotient

LEMMA DivisionStep == DivisionInv /\ [NumberNext]_<<udivVars, numberVars>> => DivisionInv'
<1> SUFFICES ASSUME DivisionInv, [NumberNext]_<<udivVars, numberVars>> PROVE DivisionInv'
  OBVIOUS
<1> USE DEF udivVars, numberVars
<1>1. ASSUME UNCHANGED udivVars, num' \in Word PROVE DivisionInv'
  <2>1. GoesUp => GoesUp'
    BY <1>1 DEF GoesUp, Shifted
  <2>2. GoesDown => GoesDown'
    BY <1>1 DEF GoesDown, Shifted
  <2>3. Quotient => Quotient'
    BY <1>1 DEF Quotient
  <2> QED BY <1>1, <2>1, <2>2, <2>3 DEF DivisionInv
<1>2. num \in Word
  BY DEF DivisionInv
<1>3. ASSUME NEW c \in Conversions, NumberCall(c) PROVE DivisionInv'
  BY <1>1, <1>3, MagnitudeType DEF NumberCall
<1>4. CASE DivideElsewhere
  <2>1. PICK d \in Divisions : Udivsi3(d[1], d[2])
    BY <1>4 DEF DivideElsewhere
  <2>2. d[1] \in Word /\ d[2] \in Word
    BY NumberAssumption
  <2> QED BY <1>4, <2>1, <2>2, CallInv DEF DivideElsewhere
<1>5. CASE TakeDigit
  <2>1. Base(printed.conv) \in {8, 10, 16}
    BY DEF Base
  <2>2. Base(printed.conv) \in Word
    BY <2>1, WordFacts DEF Word
  <2> QED BY <1>2, <1>5, <2>2, CallInv DEF TakeDigit
<1>6. CASE Divide
  BY <1>6, EntryInv, Loop1Inv, LbignumInv, Loop3Inv DEF Divide, UdivNext
<1>7. CASE Divided
  <2>1. arg1 \in Word /\ arg1 \in Nat /\ arg2 \in Nat
    BY WordFacts DEF DivisionInv
  <2>2. result = IF arg2 = 0 THEN 0 ELSE arg1 \div arg2
    BY <1>7 DEF Divided, DivisionInv, Quotient
  <2>3. result \in 0..arg1
    BY <2>1, <2>2, DivBounds
  <2>4. result \in Word
    BY <2>1, <2>3, WordFacts
  <2> QED BY <1>1, <1>7, <2>4 DEF Divided
<1>8. CASE Write
  BY <1>1, <1>2, <1>8 DEF Write
<1>9. CASE NumberReturn
  BY <1>1, <1>2, <1>9 DEF NumberReturn
<1>10. ASSUME NEW given, Read(given) PROVE DivisionInv'
  BY <1>1, <1>2, <1>10 DEF Read
<1>11. CASE UNCHANGED <<udivVars, numberVars>>
  BY <1>1, <1>2, <1>11
<1> QED BY <1>3, <1>4, <1>5, <1>6, <1>7, <1>8, <1>9, <1>10, <1>11 DEF NumberNext, NumberStep

(* Whatever numbers are printed and whatever is divided elsewhere, on words *)
(* of any width: __udivsi3 returns the quotient, although its last pass may *)
(* subtract too much.                                                       *)
THEOREM DivisionsRight == NumberSpec => []Quotient
<1>1. DivisionInv => Quotient
  BY DEF DivisionInv
<1> QED BY <1>1, DivisionInit, DivisionStep, PTL DEF NumberSpec
-----------------------------------------------------------------------------
(* The field of a number. *)

LEMMA PowerIs ==
  ASSUME NEW b
  PROVE  \A n \in 0..Bits : PowersOf(b)[n] = IF n = 0 THEN 1 ELSE b * PowersOf(b)[n - 1]
<1> DEFINE f == CHOOSE g : IsPower(g, b, Bits)
<1>1. IsPower(f, b, Bits)
  BY PowerExists, BitsAssumption
<1>2. PowersOf(b) = f
  BY DEF PowersOf, IsPower
<1> HIDE DEF f
<1> QED BY <1>1, <1>2 DEF IsPower

(* The powers of a base are no smaller than those of two.                   *)
LEMMA PowerType ==
  ASSUME NEW b \in Nat, b >= 2
  PROVE  \A n \in 0..Bits : PowersOf(b)[n] \in Nat \ {0} /\ Bit[n] <= PowersOf(b)[n]
<1> DEFINE P == PowersOf(b)
           S == {n \in Nat : n <= Bits => P[n] \in Nat \ {0} /\ Bit[n] <= P[n]}
<1>0. Bits \in Nat
  BY BitsAssumption
<1>1. 0 \in S
  <2>1. 0 \in 0..Bits
    BY <1>0
  <2>2. P[0] = 1 /\ Bit[0] = 1
    BY <2>1, PowerIs, LowBits
  <2> HIDE DEF P
  <2> QED BY <2>2
<1>2. ASSUME NEW n \in Nat, n \in S PROVE n + 1 \in S
  <2> SUFFICES ASSUME n + 1 <= Bits
               PROVE  P[n + 1] \in Nat \ {0} /\ Bit[n + 1] <= P[n + 1]
    OBVIOUS
  <2>1. n + 1 \in 0..Bits /\ n \in 0..Bits /\ (n + 1) - 1 = n /\ n + 1 # 0
    BY <1>0
  <2>2. P[n + 1] = b * P[n] /\ Bit[n + 1] = 2 * Bit[n]
    BY <2>1, PowerIs, BitIs
  <2>3. P[n] \in Nat \ {0} /\ Bit[n] <= P[n] /\ Bit[n] \in Nat
    BY <1>2, <2>1, BitType
  <2> HIDE DEF P
  <2>4. 2 * P[n] <= b * P[n]
    BY <2>3, MulLe
  <2> QED BY <2>2, <2>3, <2>4
<1> HIDE DEF S
<1>3. Nat \subseteq S
  BY <1>1, <1>2, Induct
<1> QED BY <1>0, <1>3 DEF S

LEMMA PowersGrow ==
  ASSUME NEW b \in Nat, b >= 2, NEW i \in 0..Bits, NEW j \in 0..Bits, i <= j
  PROVE  PowersOf(b)[i] <= PowersOf(b)[j]
<1> DEFINE P == PowersOf(b)
           S == {d \in Nat : i + d <= Bits => P[i] <= P[i + d]}
<1>0. Bits \in Nat
  BY BitsAssumption
<1>1. 0 \in S
  <2>1. i + 0 = i /\ P[i] \in Nat
    BY PowerType
  <2> HIDE DEF P
  <2> QED BY <2>1
<1>2. ASSUME NEW d \in Nat, d \in S PROVE d + 1 \in S
  <2> SUFFICES ASSUME i + (d + 1) <= Bits PROVE P[i] <= P[i + (d + 1)]
    OBVIOUS
  <2> DEFINE k == i + d
  <2>1. /\ k \in 0..Bits /\ k + 1 \in 0..Bits /\ i + (d + 1) = k + 1
        /\ k + 1 # 0 /\ (k + 1) - 1 = k
    BY <1>0
  <2>2. P[i] <= P[k]
    BY <1>2, <2>1
  <2> HIDE DEF k
  <2>3. P[k + 1] = b * P[k] /\ P[k] \in Nat /\ P[i] \in Nat
    BY <2>1, PowerIs, PowerType
  <2> HIDE DEF P
  <2>4. 1 * P[k] <= b * P[k]
    BY <2>3, MulLe
  <2> QED BY <2>1, <2>2, <2>3, <2>4
<1> HIDE DEF S
<1>3. j - i \in S
  BY <1>1, <1>2, Induct
<1> QED BY <1>0, <1>3 DEF S

(* How many digits a number has is determined by the powers it lies between. *)
LEMMA DigitsAre ==
  ASSUME NEW b \in Nat, b >= 2, NEW m \in Nat, NEW n \in 1..Bits,
         m < PowersOf(b)[n], n = 1 \/ PowersOf(b)[n - 1] <= m
  PROVE  DigitsOf(m, PowersOf(b)) = n
<1> DEFINE P == PowersOf(b)
           Fits(k) == P[k] > m /\ (k = 1 \/ P[k - 1] <= m)
<1>0. Bits \in Nat
  BY BitsAssumption
<1>1. Fits(n)
  <2>1. P[n] \in Nat
    BY <1>0, PowerType
  <2> QED BY <2>1
<1>2. ASSUME NEW i \in 1..Bits, NEW j \in 1..Bits, Fits(i), Fits(j), i < j PROVE FALSE
  <2>1. i \in 0..Bits /\ j - 1 \in 0..Bits /\ i <= j - 1 /\ j # 1
    BY <1>0, <1>2
  <2>2. P[i] <= P[j - 1] /\ P[i] \in Nat /\ P[j - 1] \in Nat
    BY <2>1, PowersGrow, PowerType
  <2> HIDE DEF P
  <2> QED BY <1>2, <2>1, <2>2
<1> DEFINE k == CHOOSE i \in 1..Bits : Fits(i)
<1>3. k \in 1..Bits /\ Fits(k)
  <2> HIDE DEF Fits
  <2> QED BY <1>1
<1>4. DigitsOf(m, P) = k
  BY DEF DigitsOf
<1> HIDE DEF k, Fits
<1> QED BY <1>0, <1>1, <1>2, <1>3, <1>4

LEMMA ModWord ==
  ASSUME NEW r \in Nat, NEW b \in Nat, r < b
  PROVE  r % b = r /\ (r - b) % b = r
<1> DEFINE x == r - b
           q == x \div b
           m == x % b
<1>1. x = b * q + m
  BY Z3T(30)
<1>2. m \in 0..b-1 /\ q \in Int
  OBVIOUS
<1>3. x \in Int /\ x = r - b
  OBVIOUS
<1>4. r % b = r
  OBVIOUS
<1> HIDE DEF x, q, m
<1>5. CASE q = -1
  <2>1. b * q = -b
    BY <1>5
  <2> QED BY <1>1, <1>2, <1>3, <1>4, <2>1 DEF m, x
<1>6. CASE q >= 0
  <2>1. 0 * b <= q * b
    BY <1>2, <1>6, MulLe
  <2> QED BY <1>1, <1>2, <1>3, <2>1
<1>7. CASE q <= -2
  <2>1. q * b <= (-2) * b
    BY <1>2, <1>7, MulLe
  <2> QED BY <1>1, <1>2, <1>3, <2>1
<1> QED BY <1>2, <1>5, <1>6, <1>7

(* A word of any width read as a signed number and back. *)
LEMMA SignedFacts ==
  ASSUME NEW bits \in 1..Bits, NEW w \in 0 .. Bit[bits] - 1
  PROVE  /\ Signed(w, bits) \in -Bit[bits - 1] .. Bit[bits - 1] - 1
         /\ Signed(w, bits) % Bit[bits] = w
<1>1. bits \in 0..Bits /\ bits - 1 \in 0..Bits /\ bits # 0
  BY BitsAssumption
<1>2. Bit[bits] = 2 * Bit[bits - 1] /\ Bit[bits - 1] \in Nat
  BY <1>1, BitIs, BitType
<1>3. w \in Nat /\ w < Bit[bits] /\ Bit[bits] \in Nat
  BY <1>2
<1>4. w % Bit[bits] = w /\ (w - Bit[bits]) % Bit[bits] = w
  BY <1>3, ModWord
<1>5. Signed(w, bits) = IF w >= Bit[bits - 1] THEN w - Bit[bits] ELSE w
  BY DEF Signed
<1>6. Signed(w, bits) \in -Bit[bits - 1] .. Bit[bits - 1] - 1
  BY <1>2, <1>3, <1>5
<1> QED BY <1>4, <1>5, <1>6

LEMMA SignedAgain ==
  ASSUME NEW x \in -Bit[Bits - 1] .. Bit[Bits - 1] - 1
  PROVE  Signed(x % Bit[Bits], Bits) = x
<1>1. Bits \in 1..Bits /\ Bits \in 0..Bits /\ Bits - 1 \in 0..Bits /\ Bits # 0
  BY BitsAssumption
<1>2. Bit[Bits] = 2 * Bit[Bits - 1] /\ Bit[Bits - 1] \in Nat
  BY <1>1, BitIs, BitType
<1>3. CASE x >= 0
  <2>1. x % Bit[Bits] = x
    BY <1>2, <1>3, ModWord
  <2> QED BY <1>2, <1>3, <2>1 DEF Signed
<1>4. CASE x < 0
  <2> DEFINE r == x + Bit[Bits]
  <2>1. r \in Nat /\ r < Bit[Bits] /\ x = r - Bit[Bits]
    BY <1>2, <1>4
  <2> HIDE DEF r
  <2>2. x % Bit[Bits] = r
    BY <1>2, <2>1, ModWord
  <2> QED BY <1>2, <1>4, <2>1, <2>2 DEF Signed
<1> QED BY <1>2, <1>3, <1>4

(* number() gets the number that was meant: a %d's as it is, the others'    *)
(* without the sign a long has.                                             *)
LEMMA MagnitudeMeant ==
  ASSUME printed \in Conversions
  PROVE  /\ Meant \in Int
         /\ printed.conv = "d" => /\ ArgumentOf(printed) = Meant
                                  /\ Meant \in -Bit[Bits - 1] .. Bit[Bits - 1] - 1
         /\ printed.conv # "d" => Meant >= 0
         /\ Magnitude(printed) = IF Meant < 0 THEN -Meant ELSE Meant
<1> DEFINE bits == IF printed.half THEN HalfBits ELSE Bits
           B == Bit[Bits]
           w == printed.val % Bit[bits]
<1>1. /\ Bits \in Nat /\ bits \in 1..Bits /\ HalfBits \in 1..Bits /\ bits \in 0..Bits
      /\ bits - 1 \in 0..Bits /\ Bits \in 0..Bits /\ Bits - 1 \in 0..Bits /\ Bits # 0
  BY WordFacts, NumberAssumption
<1>2. /\ B = 2 * Bit[Bits - 1] /\ Bit[Bits - 1] \in Nat \ {0} /\ B \in Nat \ {0}
      /\ Bit[bits] \in Nat \ {0} /\ Bit[bits - 1] \in Nat
  BY <1>1, BitIs, BitType
<1>3. Bit[bits] <= B /\ Bit[bits - 1] <= Bit[Bits - 1]
  <2>1. bits = Bits \/ bits < Bits
    BY <1>1
  <2>2. CASE bits = Bits
    BY <1>2, <2>2
  <2>3. CASE bits < Bits
    <3>1. 2 * Bit[bits] <= B /\ 2 * Bit[bits - 1] <= Bit[Bits - 1]
      BY <1>1, <2>3, BitsGrow
    <3> QED BY <1>2, <3>1
  <2> QED BY <2>1, <2>2, <2>3
<1>4. printed.val \in 0 .. B - 1 /\ printed.half \in BOOLEAN
  BY DEF Conversions, Word
<1> HIDE DEF B
<1>5. w \in 0 .. Bit[bits] - 1
  <2> HIDE DEF bits
  <2>1. printed.val \in Int
    BY <1>2, <1>4
  <2> QED BY <1>2, <2>1
<1>6. w < B /\ w \in Nat /\ (~printed.half => w = printed.val)
  <2>1. ~printed.half => bits = Bits
    OBVIOUS
  <2>2. printed.val % B = printed.val
    BY <1>2, <1>4, ModWord
  <2> HIDE DEF bits
  <2> QED BY <1>2, <1>3, <1>5, <2>1, <2>2 DEF B
<1>7. Meant = IF printed.conv = "d" THEN Signed(w, bits) ELSE w
  BY DEF Meant
<1> DEFINE a == IF ~printed.half THEN printed.val
                ELSE IF printed.conv = "d" THEN Signed(w, bits) % B ELSE w
<1>8. ArgumentOf(printed) = Signed(a, Bits)
  BY DEF ArgumentOf, B
<1> DEFINE v == IF SignOf(printed) = <<Minus>> THEN -ArgumentOf(printed) ELSE ArgumentOf(printed)
<1>9. Magnitude(printed) = v % B
  BY DEF Magnitude, B
<1>10. CASE printed.conv = "d"
  <2>1. Meant \in -Bit[bits - 1] .. Bit[bits - 1] - 1 /\ Meant = Signed(w, bits)
    BY <1>1, <1>5, <1>7, <1>10, SignedFacts
  <2>2. Meant \in -Bit[Bits - 1] .. Bit[Bits - 1] - 1
    BY <1>2, <1>3, <2>1
  <2>3. ArgumentOf(printed) = Meant
    <3>1. CASE printed.half
      <4>1. a = Meant % B
        BY <1>10, <2>1, <3>1
      <4> HIDE DEF a
      <4> QED BY <1>8, <2>2, <4>1, SignedAgain DEF B
    <3>2. CASE ~printed.half
      <4>1. a = w /\ bits = Bits
        BY <1>6, <3>2
      <4> HIDE DEF a
      <4> QED BY <1>8, <2>1, <4>1
    <3> QED BY <3>1, <3>2
  <2>4. SignOf(printed) = <<Minus>> <=> Meant < 0
    <3>1. <<Plus>> # <<Minus>> /\ <<Space>> # <<Minus>> /\ <<>> # <<Minus>>
      BY DEF Minus, Plus, Space
    <3> QED BY <1>10, <2>3, <3>1 DEF SignOf
  <2>5. v = IF Meant < 0 THEN -Meant ELSE Meant
    BY <2>3, <2>4
  <2> HIDE DEF v, w
  <2>6. v \in Nat /\ v < B
    BY <1>2, <2>2, <2>5
  <2>7. v % B = v
    BY <1>2, <2>6, ModWord
  <2> QED BY <1>9, <1>10, <2>2, <2>3, <2>5, <2>7
<1>11. CASE printed.conv # "d"
  <2>1. Meant = w /\ a = w
    BY <1>6, <1>7, <1>11
  <2>2. v = Signed(w, Bits)
    <3>1. SignOf(printed) = <<>>
      BY <1>11 DEF SignOf
    <3>2. <<>> # <<Minus>>
      OBVIOUS
    <3> HIDE DEF a, w
    <3> QED BY <1>8, <2>1, <3>1, <3>2
  <2> HIDE DEF v, w, a
  <2>3. v % B = w
    BY <1>1, <1>2, <1>6, <2>2, SignedFacts DEF B
  <2> QED BY <1>6, <1>9, <1>11, <2>1, <2>3
<1> QED BY <1>10, <1>11

LEMMA DivDiv ==
  ASSUME NEW m \in Nat, NEW q \in Nat \ {0}, NEW b \in Nat \ {0}
  PROVE  (m \div q) \div b = m \div (b * q)
<1> DEFINE x == m \div q
           y == x \div b
           r == m - x * q
           s == x - y * b
<1>1. x \in Nat /\ x * q <= m /\ m < x * q + q
  BY DivBounds
<1> HIDE DEF x
<1>2. y \in Nat /\ y * b <= x /\ x < y * b + b
  BY <1>1, DivBounds
<1> HIDE DEF y
<1>3. x * q \in Nat /\ y * b \in Nat
  BY <1>1, <1>2
<1>4. r \in Nat /\ r < q /\ m = x * q + r /\ s \in Nat /\ s + 1 <= b /\ x = y * b + s
  BY <1>1, <1>2, <1>3
<1> HIDE DEF r, s
<1>5. x * q = y * (b * q) + s * q
  BY <1>2, <1>4
<1>6. (s + 1) * q <= b * q /\ (s + 1) * q = s * q + q
  BY <1>4, MulLe
<1> DEFINE d == b * q
<1>7. b * q \in Nat \ {0} /\ s * q \in Nat /\ y * d \in Nat
  BY <1>2, <1>4
<1> HIDE DEF d
<1>8. m = y * d + (s * q + r) /\ s * q + r \in Nat /\ s * q + r < d /\ d \in Nat \ {0}
  BY <1>4, <1>5, <1>6, <1>7 DEF d
<1>9. m \div d = y
  BY <1>2, <1>8, DivIs
<1> QED BY <1>9 DEF x, y, d

LEMMA TimesType ==
  ASSUME NEW n \in Nat, NEW char \in Int
  PROVE  Times(n, char) \in Seq(Int) /\ Len(Times(n, char)) = n
<1>1. \A k \in 1..n : char \in Int
  OBVIOUS
<1>2. [k \in 1..n |-> char] \in Seq(Int)
  BY <1>1, IsASeq
<1> QED BY <1>2, LenProperties DEF Times

(* A field holds sign, prefix and digits, and is filled up to its width. *)
LEMMA TextLength ==
  ASSUME NEW c \in Conversions, NEW digits \in Seq(Int)
  PROVE  LET digitWidth == IF Len(digits) > c.precision THEN Len(digits) ELSE c.precision
             used == Len(SignOf(c)) + Len(PrefixOf(c)) + digitWidth
         IN  Len(NumberText(c, digits)) = IF c.width > used THEN c.width ELSE used
<1> DEFINE digitWidth == IF Len(digits) > c.precision THEN Len(digits) ELSE c.precision
           sign == SignOf(c)
           prefix == PrefixOf(c)
           used == Len(sign) + Len(prefix) + digitWidth
           padding == Padding(c.width, sign, prefix, digitWidth)
           left == "-" \in c.flags
           zeros == "0" \in c.flags /\ ~left
           before == IF left \/ zeros THEN 0 ELSE padding
           fill == (IF zeros THEN padding ELSE 0) + digitWidth - Len(digits)
           behind == IF left THEN padding ELSE 0
<1>1. sign \in Seq(Int) /\ prefix \in Seq(Int)
  BY DEF SignOf, PrefixOf, Space, Minus, Plus, SmallX, CapitalX
<1>2. Len(sign) \in Nat /\ Len(prefix) \in Nat /\ Len(digits) \in Nat
  BY <1>1
<1>3. c.width \in Int /\ c.precision \in Int
  <2>1. c.width \in {Absent} \cup Nat /\ c.precision \in {Absent} \cup Nat
    BY DEF Conversions
  <2> QED BY <2>1 DEF Absent
<1>4. NumberText(c, digits) =
        Times(before, Space) \o sign \o prefix \o Times(fill, 0) \o digits \o Times(behind, Space)
  BY DEF NumberText
<1> HIDE DEF sign, prefix
<1>5. padding = IF c.width > used THEN c.width - used ELSE 0
  BY DEF Padding
<1>6. digitWidth \in Int /\ digitWidth >= Len(digits)
  BY <1>2, <1>3
<1> HIDE DEF digitWidth
<1>7. padding \in Nat
  BY <1>2, <1>3, <1>5, <1>6
<1> HIDE DEF padding
<1>8. /\ before \in Nat /\ fill \in Nat /\ behind \in Nat
      /\ before + fill + behind = padding + digitWidth - Len(digits)
  BY <1>2, <1>6, <1>7
<1> HIDE DEF left, zeros, before, fill, behind
<1> DEFINE b1 == Times(before, Space)
           b2 == Times(fill, 0)
           b3 == Times(behind, Space)
<1>9. /\ b1 \in Seq(Int) /\ Len(b1) = before
      /\ b2 \in Seq(Int) /\ Len(b2) = fill
      /\ b3 \in Seq(Int) /\ Len(b3) = behind
  <2>1. Space \in Int /\ 0 \in Int
    BY DEF Space
  <2>2. b1 \in Seq(Int) /\ Len(b1) = before
    BY <1>8, <2>1, TimesType, Zenon
  <2>3. b2 \in Seq(Int) /\ Len(b2) = fill
    BY <1>8, <2>1, TimesType, Zenon
  <2>4. b3 \in Seq(Int) /\ Len(b3) = behind
    BY <1>8, <2>1, TimesType, Zenon
  <2> QED BY <2>2, <2>3, <2>4
<1> DEFINE whole == b1 \o sign \o prefix \o b2 \o digits \o b3
<1>10. NumberText(c, digits) = whole
  BY <1>4
<1> HIDE DEF b1, b2, b3
<1>11. Len(b1 \o sign \o prefix \o b2 \o digits \o b3)
         = before + Len(sign) + Len(prefix) + fill + Len(digits) + behind
  <2>1. b1 \o sign \in Seq(Int) /\ Len(b1 \o sign) = before + Len(sign)
    BY <1>1, <1>9, ConcatProperties
  <2> DEFINE s1 == b1 \o sign
  <2>2. s1 \o prefix \in Seq(Int) /\ Len(s1 \o prefix) = before + Len(sign) + Len(prefix)
    BY <1>1, <2>1, ConcatProperties
  <2> DEFINE s2 == s1 \o prefix
  <2> HIDE DEF s1
  <2>3. s2 \o b2 \in Seq(Int) /\ Len(s2 \o b2) = Len(s2) + fill
    BY <1>9, <2>2, ConcatProperties
  <2> DEFINE s3 == s2 \o b2
  <2> HIDE DEF s2
  <2>4. s3 \o digits \in Seq(Int) /\ Len(s3 \o digits) = Len(s3) + Len(digits)
    BY <2>3, ConcatProperties
  <2> DEFINE s4 == s3 \o digits
  <2> HIDE DEF s3
  <2>5. Len(s4 \o b3) = Len(s4) + behind
    BY <1>9, <2>4, ConcatProperties
  <2> HIDE DEF s4
  <2> QED BY <2>2, <2>3, <2>4, <2>5 DEF s1, s2, s3, s4
<1>12. Len(NumberText(c, digits)) = used + padding
  <2> HIDE DEF whole
  <2>1. Len(whole) = before + Len(sign) + Len(prefix) + fill + Len(digits) + behind
    BY <1>11 DEF whole
  <2> QED BY SMTT(30), <1>2, <1>6, <1>7, <1>8, <1>10, <2>1
<1>13. Len(NumberText(c, digits)) = IF c.width > used THEN c.width ELSE used
  BY <1>2, <1>3, <1>5, <1>6, <1>12
<1> QED BY <1>13 DEF digitWidth, sign, prefix

-----------------------------------------------------------------------------
(* The digits number() takes. *)

LEMMA BaseIs == Base(printed.conv) \in {8, 10, 16}
BY DEF Base

(* What is left of a number without its last k digits. *)
LEMMA LeftFacts ==
  ASSUME printed \in Conversions
  PROVE  /\ Left(0) = Magnitude(printed)
         /\ \A k \in 0..Bits :
              /\ Left(k) \in 0..Magnitude(printed)
              /\ Left(k) = 0 <=> Magnitude(printed) < PowersOf(Base(printed.conv))[k]
         /\ \A k \in 0 .. Bits - 1 : Left(k + 1) = Left(k) \div Base(printed.conv)
         /\ Left(Bits) = 0
<1> DEFINE b == Base(printed.conv)
           m == Magnitude(printed)
           P == PowersOf(b)
<1>0. Bits \in Nat /\ b \in {8, 10, 16}
  BY BaseIs, BitsAssumption
<1>1. m \in Nat /\ m < Bit[Bits]
  BY MagnitudeType, WordFacts DEF Word
<1> DEFINE IsLeft(k) == Left(k) = m \div P[k]
<1>2. \A k : IsLeft(k)
  BY DEF Left
<1> HIDE DEF b, m
<1>3. \A k \in 0..Bits : P[k] \in Nat \ {0}
  BY <1>0, PowerType
<1>4. P[0] = 1 /\ \A k \in 0 .. Bits - 1 : P[k + 1] = b * P[k]
  <2>1. \A k \in 0..Bits : P[k] = IF k = 0 THEN 1 ELSE b * P[k - 1]
    BY PowerIs
  <2> HIDE DEF P
  <2>2. ASSUME NEW k \in 0 .. Bits - 1 PROVE P[k + 1] = b * P[k]
    <3>1. k + 1 \in 0..Bits /\ k + 1 # 0 /\ (k + 1) - 1 = k
      BY <1>0
    <3> QED BY <2>1, <3>1
  <2> QED BY <1>0, <2>1, <2>2
<1>5. Bit[Bits] <= P[Bits] /\ Bit[Bits] \in Nat
  BY <1>0, PowerType, WordFacts
<1> HIDE DEF P
<1>6. ASSUME NEW k \in 0..Bits
      PROVE  m \div P[k] \in 0..m /\ (m \div P[k] = 0 <=> m < P[k])
  <2> DEFINE q == P[k]
             x == m \div q
  <2>1. q \in Nat \ {0}
    BY <1>3
  <2> HIDE DEF q
  <2>2. x \in 0..m /\ x * q <= m /\ m < x * q + q
    BY <1>1, <2>1, DivBounds
  <2> HIDE DEF x
  <2>3. CASE x = 0
    BY <1>1, <2>1, <2>2, <2>3 DEF x, q
  <2>4. CASE x # 0
    <3>1. 1 * q <= x * q /\ x * q \in Nat
      BY <2>1, <2>2, <2>4, MulLe
    <3> QED BY <1>1, <2>1, <2>2, <2>4, <3>1 DEF x, q
  <2> QED BY <2>3, <2>4
<1>7. ASSUME NEW k \in 0 .. Bits - 1
      PROVE  m \div P[k + 1] = (m \div P[k]) \div b
  <2>1. P[k] \in Nat \ {0} /\ P[k + 1] = b * P[k] /\ b \in Nat \ {0}
    BY <1>0, <1>3, <1>4
  <2> QED BY <1>1, <2>1, DivDiv
<1>8. Left(0) = m
  <2>1. m = m * 1 + 0 /\ 0 < 1
    BY <1>1
  <2>2. m \div 1 = m
    BY <1>1, <2>1, DivIs
  <2> QED BY <1>2, <1>4, <2>2
<1>9. Left(Bits) = 0
  <2>1. Bits \in 0..Bits /\ P[Bits] \in Nat
    BY <1>0, <1>3
  <2>2. m < P[Bits]
    BY <1>1, <1>5, <2>1
  <2> QED BY <1>2, <1>6, <2>1, <2>2
<1>10. \A k \in 0..Bits : Left(k) \in 0..m /\ (Left(k) = 0 <=> m < P[k])
  BY <1>2, <1>6
<1>11. \A k \in 0 .. Bits - 1 : Left(k + 1) = Left(k) \div b
  BY <1>2, <1>7
<1> QED BY <1>8, <1>9, <1>10, <1>11 DEF b, m, P

LEMMA LeftStays ==
  ASSUME printed' = printed, tmp' = tmp
  PROVE  /\ (Left(Len(tmp)))' = Left(Len(tmp)) /\ (Left(Len(tmp) - 1))' = Left(Len(tmp) - 1)
         /\ LastDigits' <=> LastDigits
         /\ NumberText(printed, Taken)' = NumberText(printed, Taken)
         /\ Base(printed.conv)' = Base(printed.conv)
<1>1. /\ (Left(Len(tmp)))' = Left(Len(tmp)) /\ (Left(Len(tmp) - 1))' = Left(Len(tmp) - 1)
      /\ LastDigits' <=> LastDigits
  BY DEF Left, LastDigits
<1>2. Taken' = Taken
  BY DEF Taken
<1>3. NumberText(printed, Taken)' = NumberText(printed, Taken)
  BY <1>2
<1> QED BY <1>1, <1>3

LEMMA DigitsInit == NumberInit => DigitsInv
<1>1. <<>> \in Seq(0..15) /\ Len(<<>>) = 0 /\ 0 <= Bits
  BY BitsAssumption
<1> QED BY <1>1 DEF NumberInit, DigitsInv

LEMMA TakeDigitInv ==
  ASSUME DigitsInv, DivisionInv, TakeDigit
  PROVE  DigitsInv'
<1> DEFINE b == Base(printed.conv)
           k == Len(tmp)
<1>1. /\ printed \in Conversions /\ tmp \in Seq(0..15) /\ k <= Bits /\ k \in Nat
      /\ num = Left(k) /\ num # 0 /\ num \in Nat /\ Bits \in Nat
  BY WordFacts DEF DigitsInv, DivisionInv, TakeDigit
<1>2. b \in {8, 10, 16}
  BY BaseIs
<1>3. /\ tmp' = Append(tmp, num % b) /\ at' = "dividing" /\ num' = num /\ printed' = printed
      /\ arg1' = num /\ arg2' = b
  BY DEF TakeDigit, Udivsi3
<1>4. num % b \in 0..15
  <2>1. b = 8 \/ b = 10 \/ b = 16
    BY <1>2
  <2> HIDE DEF b
  <2>2. num % b \in 0 .. b - 1
    BY <1>1, <2>1
  <2> QED BY <2>1, <2>2
<1>5. tmp' \in Seq(0..15) /\ Len(tmp') = k + 1
  <2> HIDE DEF b
  <2> QED BY <1>1, <1>3, <1>4, AppendProperties
<1>6. k < Bits
  <2>1. Left(Bits) = 0
    BY <1>1, LeftFacts
  <2> QED BY <1>1, <2>1
<1>10. \A i \in 1..Len(tmp') : tmp'[i] = Left(i - 1) % b
  <2>1. \A i \in 1..k : tmp[i] = Left(i - 1) % b
    BY DEF DigitsInv, TakeDigit, LastDigits
  <2> HIDE DEF b
  <2>2. \A i \in 1 .. k + 1 : tmp'[i] = IF i <= k THEN tmp[i] ELSE num % b
    BY <1>1, <1>3, <1>4, AppendProperties
  <2>3. (k + 1) - 1 = k
    BY <1>1
  <2> QED BY <1>1, <1>5, <2>1, <2>2, <2>3
<1>11. LastDigits'
  BY <1>3, <1>10 DEF Left, LastDigits
<1>12. base' = Absent
  BY DEF TakeDigit, DigitsInv
<1>7. (Left(Len(tmp) - 1))' = Left(k)
  <2>1. Len(tmp') - 1 = k
    BY <1>1, <1>5
  <2> QED BY <1>3, <2>1 DEF Left
<1>8. tmp' # <<>> /\ Len(tmp') <= Bits
  BY <1>1, <1>5, <1>6
<1>9. Base(printed.conv)' = b
  BY <1>3
<1> HIDE DEF k, b
<1> QED BY <1>1, <1>3, <1>5, <1>7, <1>8, <1>9, <1>11, <1>12 DEF DigitsInv

LEMMA DividedInv ==
  ASSUME DigitsInv, DivisionInv, Divided
  PROVE  DigitsInv'
<1> DEFINE b == Base(printed.conv)
           k == Len(tmp)
<1>1. /\ printed \in Conversions /\ tmp \in Seq(0..15) /\ k <= Bits /\ k \in Nat /\ tmp # <<>>
      /\ num = Left(k - 1) /\ num # 0 /\ arg1 = num /\ arg2 = b /\ Bits \in Nat
  BY WordFacts DEF DigitsInv, Divided
<1>2. b \in {8, 10, 16}
  BY BaseIs
<1>3. k # 0
  BY <1>1
<1>4. result = num \div b
  BY <1>1, <1>2 DEF DivisionInv, Quotient, Divided
<1> HIDE DEF k, b
<1>5. k - 1 \in 0 .. Bits - 1 /\ (k - 1) + 1 = k
  BY <1>1, <1>3
<1>6. Left(k) = Left(k - 1) \div b
  BY <1>1, <1>5, LeftFacts DEF b
<1>7. num' = Left(k)
  BY <1>1, <1>4, <1>6 DEF Divided
<1>8. /\ tmp' = tmp /\ printed' = printed /\ at' = "number"
  BY DEF Divided
<1>9. (Left(Len(tmp)))' = Left(k) /\ (Left(Len(tmp) - 1))' = Left(k - 1)
  BY <1>8 DEF Left, k
<1>10. LastDigits'
  BY <1>8 DEF Left, LastDigits, DigitsInv, Divided
<1>11. base' = Absent
  BY DEF Divided, DigitsInv
<1> QED BY <1>1, <1>7, <1>8, <1>9, <1>10, <1>11 DEF DigitsInv, k

LEMMA DigitsStep ==
  DigitsInv /\ DivisionInv /\ [NumberNext]_<<udivVars, numberVars>> => DigitsInv'
<1> SUFFICES ASSUME DigitsInv, DivisionInv, [NumberNext]_<<udivVars, numberVars>>
             PROVE  DigitsInv'
  OBVIOUS
<1>1. ASSUME NEW c \in Conversions, NumberCall(c) PROVE DigitsInv'
  <2>1. printed' = c /\ num' = Magnitude(c) /\ tmp' = <<>> /\ at' = "number"
    BY <1>1 DEF NumberCall
  <2>2. Left(0)' = Magnitude(c)
    <3> DEFINE b == Base(c.conv)
    <3>1. Left(0)' = Magnitude(c) \div PowersOf(b)[0]
      BY <2>1 DEF Left, Magnitude, SignOf, ArgumentOf
    <3>2. PowersOf(b)[0] = 1
      BY PowerIs, BitsAssumption
    <3>3. Magnitude(c) \in Nat
      BY MagnitudeType, WordFacts
    <3>4. Magnitude(c) = Magnitude(c) * 1 + 0 /\ 0 < 1
      BY <3>3
    <3>5. Magnitude(c) \div 1 = Magnitude(c)
      BY <3>3, <3>4, DivIs
    <3> QED BY <3>1, <3>2, <3>5
  <2>3. <<>> \in Seq(0..15) /\ Len(<<>>) = 0 /\ 0 <= Bits
    BY BitsAssumption
  <2>4. (Left(Len(tmp)))' = Magnitude(c) /\ LastDigits'
    BY <2>1, <2>2, <2>3 DEF LastDigits, Left
  <2>5. base' = Absent
    BY <1>1 DEF NumberCall, DigitsInv
  <2> QED BY <2>1, <2>3, <2>4, <2>5 DEF DigitsInv
<1>2. CASE DivideElsewhere
  BY <1>2 DEF DivideElsewhere, DigitsInv, numberVars
<1>3. CASE TakeDigit
  BY <1>3, TakeDigitInv
<1>4. CASE Divide
  <2>1. UNCHANGED <<arg1, arg2>> /\ UNCHANGED numberVars
    BY <1>4 DEF Divide, UdivNext, Entry, Loop1, Lbignum, Loop3
  <2> QED BY <2>1, LeftStays DEF DigitsInv, numberVars
<1>5. CASE Divided
  BY <1>5, DividedInv
<1>6. CASE Write
  <2>1. /\ printed' = printed /\ tmp' = tmp /\ num' = num /\ at' = "printed" /\ num = 0
        /\ at = "number" /\ text' = NumberText(printed, Taken)
    BY <1>6 DEF Write, Taken
  <2>2. text' = NumberText(printed, Taken)'
    BY <2>1, LeftStays
  <2> QED BY <2>1, <2>2, LeftStays DEF DigitsInv
<1>7. CASE NumberReturn
  <2>1. <<>> \in Seq(0..15) /\ Len(<<>>) = 0 /\ 0 <= Bits
    BY BitsAssumption
  <2> QED BY <1>7, <2>1 DEF NumberReturn, DigitsInv
<1>8. ASSUME NEW given, Read(given) PROVE DigitsInv'
  BY <1>8, LeftStays DEF Read, DigitsInv
<1>9. CASE UNCHANGED <<udivVars, numberVars>>
  BY <1>9, LeftStays DEF udivVars, numberVars, DigitsInv
<1> QED BY <1>1, <1>2, <1>3, <1>4, <1>5, <1>6, <1>7, <1>8, <1>9 DEF NumberNext, NumberStep

(* When nothing is left, all digits of the number have been taken.          *)
LEMMA DigitsComplete ==
  ASSUME DigitsInv, at \in {"number", "printed"}, num = 0
  PROVE  /\ Taken \in Seq(0..15) /\ Len(Taken) \in 1..Bits
         /\ Len(Taken) = DigitsOf(Magnitude(printed), PowersOf(Base(printed.conv)))
         /\ Left(Len(Taken)) = 0
         /\ \A i \in 1..Len(Taken) : Taken[i] = Left(Len(Taken) - i) % Base(printed.conv)
<1> DEFINE b == Base(printed.conv)
           m == Magnitude(printed)
           k == Len(tmp)
<1>1. /\ printed \in Conversions /\ tmp \in Seq(0..15) /\ k \in 0..Bits /\ Bits \in Nat /\ Bits > 4
      /\ Left(k) = 0 /\ (tmp # <<>> => Left(k - 1) # 0)
  BY WordFacts DEF DigitsInv
<1>2. b \in {8, 10, 16} /\ b \in Nat /\ b >= 2 /\ m \in Nat
  <2>1. m \in Nat
    BY <1>1, MagnitudeType, WordFacts
  <2>2. b \in {8, 10, 16}
    BY BaseIs
  <2> HIDE DEF b, m
  <2> QED BY <2>1, <2>2
<1>3. \A i \in 0..Bits : PowersOf(b)[i] \in Nat /\ (Left(i) = 0 <=> m < PowersOf(b)[i])
  BY <1>1, <1>2, LeftFacts, PowerType
<1>4. \A i \in 1..k : tmp[i] = Left(i - 1) % b
  BY DEF DigitsInv, LastDigits
<1>5. CASE tmp = <<>>
  <2>1. Taken = <<0>> /\ k = 0
    BY <1>5 DEF Taken
  <2>2. Left(0) = 0 /\ Left(0 + 1) = Left(0) \div b /\ m = 0 /\ 1 \in 1..Bits
    BY <1>1, <2>1, LeftFacts
  <2> HIDE DEF b, m
  <2>3. PowersOf(b)[0] = 1
    BY <1>1, PowerIs
  <2>4. PowersOf(b)[0] <= PowersOf(b)[1]
    BY <1>1, <1>2, PowersGrow
  <2>5. m < PowersOf(b)[1]
    BY <1>1, <1>3, <2>2, <2>3, <2>4
  <2>6. DigitsOf(m, PowersOf(b)) = 1
    BY <1>2, <2>2, <2>5, DigitsAre
  <2>7. Left(1) = 0 /\ Left(0) % b = 0
    BY <1>2, <2>2
  <2>8. <<0>> \in Seq(0..15) /\ Len(<<0>>) = 1 /\ \A i \in 1..1 : <<0>>[i] = 0 /\ 1 - i = 0
    OBVIOUS
  <2> QED BY <2>1, <2>2, <2>6, <2>7, <2>8 DEF b, m
<1>6. CASE tmp # <<>>
  <2>1. Taken = Reverse(tmp) /\ k # 0
    BY <1>1, <1>6 DEF Taken
  <2>2. Taken = [i \in 1..k |-> tmp[(k - i) + 1]]
    BY <2>1 DEF Reverse
  <2>3. \A i \in 1..k : (k - i) + 1 \in 1..k /\ ((k - i) + 1) - 1 = k - i
    BY <1>1
  <2>4. \A i \in 1..k : tmp[(k - i) + 1] \in 0..15 /\ tmp[(k - i) + 1] = Left(k - i) % b
    <3> HIDE DEF b
    <3> QED BY SMTT(30), <1>1, <1>4, <2>3, ElementOfSeq
  <2> HIDE DEF b, m, k
  <2>5. Taken \in Seq(0..15) /\ Len(Taken) = k /\ \A i \in 1..k : Taken[i] = Left(k - i) % b
    BY <1>1, <2>2, <2>4, IsASeq, LenProperties
  <2>6. k \in 1..Bits /\ k - 1 \in 0..Bits /\ m < PowersOf(b)[k] /\ PowersOf(b)[k - 1] <= m
    BY <1>1, <1>2, <1>3, <1>6, <2>1
  <2>7. DigitsOf(m, PowersOf(b)) = k
    BY <1>2, <2>6, DigitsAre
  <2> QED BY <1>1, <2>5, <2>6, <2>7 DEF b, m
<1> QED BY <1>5, <1>6

(* The sign and the prefix are those needed. *)
LEMMA SignAndPrefix ==
  ASSUME printed \in Conversions
  PROVE  /\ Len(SignOf(printed)) =
               IF printed.conv = "d" /\ (Meant < 0 \/ {"+", " "} \cap printed.flags # {})
               THEN 1 ELSE 0
         /\ Len(PrefixOf(printed)) =
               CASE "#" \notin printed.flags -> 0
                 [] "#" \in printed.flags /\ printed.conv = "o" -> 1
                 [] "#" \in printed.flags /\ printed.conv \in {"x", "X"} -> 2
                 [] "#" \in printed.flags /\ printed.conv \in {"d", "u"} -> 0
<1>1. printed.conv \in {"d", "u", "o", "x", "X"}
  BY DEF Conversions
<1>2. {"+", " "} \cap printed.flags # {} <=> "+" \in printed.flags \/ " " \in printed.flags
  OBVIOUS
<1>3. printed.conv = "d" => ArgumentOf(printed) = Meant
  BY MagnitudeMeant
<1>4. Len(SignOf(printed)) =
        IF printed.conv = "d" /\ (Meant < 0 \/ {"+", " "} \cap printed.flags # {}) THEN 1 ELSE 0
  <2>1. CASE printed.conv # "d"
    BY <2>1 DEF SignOf
  <2>2. CASE printed.conv = "d"
    BY <1>2, <1>3, <2>2 DEF SignOf
  <2> QED BY <2>1, <2>2
<1> DEFINE n == CASE "#" \notin printed.flags -> 0
                  [] "#" \in printed.flags /\ printed.conv = "o" -> 1
                  [] "#" \in printed.flags /\ printed.conv \in {"x", "X"} -> 2
                  [] "#" \in printed.flags /\ printed.conv \in {"d", "u"} -> 0
<1>5. CASE "#" \notin printed.flags
  <2>1. n = 0
    BY <1>5
  <2>2. PrefixOf(printed) = <<>>
    BY <1>5 DEF PrefixOf
  <2> QED BY <1>4, <2>1, <2>2
<1>6. CASE "#" \in printed.flags /\ printed.conv = "o"
  <2>1. n = 1
    BY <1>6
  <2>2. PrefixOf(printed) = <<0>>
    BY <1>6 DEF PrefixOf, Base
  <2> QED BY <1>4, <2>1, <2>2
<1>7. CASE "#" \in printed.flags /\ printed.conv \in {"x", "X"}
  <2>1. n = 2
    BY <1>7
  <2>2. Len(PrefixOf(printed)) = 2
    BY <1>7 DEF PrefixOf, Base
  <2> QED BY <1>4, <2>1, <2>2
<1>8. CASE "#" \in printed.flags /\ printed.conv \in {"d", "u"}
  <2>1. n = 0
    BY <1>8
  <2>2. PrefixOf(printed) = <<>>
    BY <1>8 DEF PrefixOf, Base
  <2> QED BY <1>4, <2>1, <2>2
<1> QED BY <1>1, <1>5, <1>6, <1>7, <1>8

LEMMA FieldWritten ==
  ASSUME DigitsInv, Write
  PROVE  FieldFilled'
<1> DEFINE digits == Taken
           n == DigitsOf(IF Meant < 0 THEN -Meant ELSE Meant, PowersOf(Base(printed.conv)))
           sign == IF printed.conv = "d" /\ (Meant < 0 \/ {"+", " "} \cap printed.flags # {})
                   THEN 1 ELSE 0
           prefix == CASE "#" \notin printed.flags -> 0
                       [] "#" \in printed.flags /\ printed.conv = "o" -> 1
                       [] "#" \in printed.flags /\ printed.conv \in {"x", "X"} -> 2
                       [] "#" \in printed.flags /\ printed.conv \in {"d", "u"} -> 0
           digitWidth == IF Len(digits) > printed.precision THEN Len(digits) ELSE printed.precision
           used == Len(SignOf(printed)) + Len(PrefixOf(printed)) + digitWidth
           wide == IF printed.precision > n THEN printed.precision ELSE n
<1>1. printed \in Conversions /\ at = "number" /\ num = 0
  BY DEF DigitsInv, Write
<1>2. digits \in Seq(Int) /\ Len(digits) = n
  <2>1. \A s \in Seq(0..15) : s \in Seq(Int)
    OBVIOUS
  <2> QED BY <1>1, <2>1, DigitsComplete, MagnitudeMeant
<1>3. Len(SignOf(printed)) = sign /\ Len(PrefixOf(printed)) = prefix
  BY <1>1, SignAndPrefix
<1>4. Len(NumberText(printed, digits)) = IF printed.width > used THEN printed.width ELSE used
  BY <1>1, <1>2, TextLength
<1>5. Needed = sign + prefix + wide
  BY DEF Needed
<1>6. digitWidth = wide
  <2>1. printed.precision \in {Absent} \cup Nat
    BY <1>1 DEF Conversions
  <2>2. printed.precision \in Int /\ Len(digits) \in Nat
    BY <1>2, <2>1 DEF Absent
  <2> HIDE DEF digits, n
  <2> QED BY <1>2, <2>2
<1>7. used = Needed
  <2> HIDE DEF digitWidth, wide, sign, prefix
  <2> QED BY <1>3, <1>5, <1>6
<1> HIDE DEF used
<1>8. Len(NumberText(printed, digits)) = IF printed.width > Needed THEN printed.width ELSE Needed
  BY <1>4, <1>7
<1>9. text' = NumberText(printed, digits) /\ printed' = printed
  BY DEF Write, Taken
<1> HIDE DEF digits
<1>10. Needed' = Needed
  BY <1>9 DEF Needed, Meant
<1> QED BY <1>8, <1>9, <1>10 DEF FieldFilled

LEMMA FieldStep ==
  DigitsInv /\ FieldFilled /\ [NumberNext]_<<udivVars, numberVars>> => FieldFilled'
<1> SUFFICES ASSUME DigitsInv, FieldFilled, [NumberNext]_<<udivVars, numberVars>>
             PROVE  FieldFilled'
  OBVIOUS
<1>1. CASE UNCHANGED <<printed, at, text>>
  BY <1>1 DEF FieldFilled, Needed, Meant
<1>2. CASE at' # "printed"
  BY <1>2 DEF FieldFilled
<1>3. CASE Write
  BY <1>3, FieldWritten
<1>4. CASE DivideElsewhere \/ Divide
  BY <1>1, <1>4 DEF DivideElsewhere, Divide, numberVars
<1>5. CASE TakeDigit \/ Divided \/ NumberReturn
  BY <1>2, <1>5 DEF TakeDigit, Divided, NumberReturn
<1>6. ASSUME NEW c \in Conversions, NumberCall(c) PROVE FieldFilled'
  BY <1>2, <1>6 DEF NumberCall
<1>7. ASSUME NEW given, Read(given) PROVE FieldFilled'
  BY <1>1, <1>7 DEF Read
<1>8. CASE UNCHANGED <<udivVars, numberVars>>
  BY <1>1, <1>8 DEF numberVars
<1> QED BY <1>3, <1>4, <1>5, <1>6, <1>7, <1>8 DEF NumberNext, NumberStep

(* Whatever number is printed under whatever flags, into whatever field and *)
(* with whatever precision, on words of any width: number() fills the field *)
(* it is asked for, or the one its sign, prefix and digits need.            *)
THEOREM FieldsFilled == NumberSpec => []FieldFilled
<1>1. NumberInit => FieldFilled
  BY DEF NumberInit, FieldFilled
<1> QED BY <1>1, DivisionInit, DivisionStep, DigitsInit, DigitsStep, FieldStep, PTL DEF NumberSpec

-----------------------------------------------------------------------------
(* What was printed is read back. *)

IsRead(f, s, first, b, n) ==
  f = [k \in 0..n |-> IF k = 0 THEN 0 ELSE (f[k - 1] * b + s[first + k - 1]) % Bit[Bits]]

LEMMA ReadExists ==
  ASSUME NEW s, NEW first, NEW b, NEW n \in Nat
  PROVE  \E f : IsRead(f, s, first, b, n)
<1> DEFINE S == {i \in Nat : \E f : IsRead(f, s, first, b, i)}
<1>1. 0 \in S
  <2>1. IsRead([k \in 0..0 |-> 0], s, first, b, 0)
    BY DEF IsRead
  <2> QED BY <2>1
<1>2. ASSUME NEW i \in Nat, i \in S PROVE i + 1 \in S
  <2>1. PICK f : IsRead(f, s, first, b, i)
    BY <1>2
  <2> DEFINE g == [k \in 0 .. i + 1 |-> IF k = i + 1
                     THEN (f[i] * b + s[first + (i + 1) - 1]) % Bit[Bits] ELSE f[k]]
  <2>2. ASSUME NEW k \in 0 .. i + 1
        PROVE  g[k] = IF k = 0 THEN 0 ELSE (g[k - 1] * b + s[first + k - 1]) % Bit[Bits]
    <3>1. CASE k = i + 1
      BY <3>1
    <3>2. CASE k # i + 1
      <4>1. k \in 0..i /\ g[k] = f[k] /\ (k # 0 => g[k - 1] = f[k - 1])
        BY <3>2
      <4>2. f[k] = IF k = 0 THEN 0 ELSE (f[k - 1] * b + s[first + k - 1]) % Bit[Bits]
        BY <2>1, <4>1 DEF IsRead
      <4> QED BY <4>1, <4>2
    <3> QED BY <3>1, <3>2
  <2>3. IsRead(g, s, first, b, i + 1)
    BY <2>2 DEF IsRead
  <2> HIDE DEF g
  <2> QED BY <2>3
<1> HIDE DEF S
<1>3. n \in S
  BY <1>1, <1>2, Induct
<1> QED BY <1>3 DEF S

FirstOf(s) == IF HexPrefix(s) THEN 3 ELSE 1
ReadsUp(f, s, given, n) == IsRead(f, s, FirstOf(s), BaseOf(s, given), n) /\ Strtoul(s, given) = f[n]

LEMMA StrtoulIs ==
  ASSUME NEW s, NEW given, NEW n \in Nat, n = RunLength(s, FirstOf(s), BaseOf(s, given))
  PROVE  \E f : ReadsUp(f, s, given, n)
<1> DEFINE b == BaseOf(s, given)
           first == FirstOf(s)
           f == CHOOSE g : IsRead(g, s, first, b, n)
<1>1. IsRead(f, s, first, b, n)
  BY ReadExists
<1>2. Strtoul(s, given) = f[n]
  BY DEF Strtoul, IsRead, FirstOf
<1> QED BY <1>1, <1>2 DEF ReadsUp

(* The digits reach up to the first character that is none. *)
LEMMA RunIs ==
  ASSUME NEW s \in Seq(Int), NEW first \in Nat \ {0}, NEW b, NEW n \in Nat,
         first + n <= Len(s) + 1,
         \A k \in 1..n : s[first + k - 1] \in 0 .. b - 1,
         first + n <= Len(s) => s[first + n] \notin 0 .. b - 1
  PROVE  RunLength(s, first, b) = n
<1> DEFINE D == 0 .. b - 1
           last == first + n - 1
           S == {k \in first..Len(s) : \A j \in first..k : s[j] \in D}
<1> HIDE DEF D
<1>0. Len(s) \in Nat
  OBVIOUS
<1>1. ASSUME NEW j \in first..last PROVE s[j] \in D
  <2> DEFINE k == j - first + 1
  <2>1. k \in 1..n /\ first + k - 1 = j
    OBVIOUS
  <2> HIDE DEF k
  <2> QED BY <2>1 DEF D
<1>2. ASSUME NEW k \in first..Len(s), k > last PROVE ~(\A j \in first..k : s[j] \in D)
  <2>1. first + n \in first..k /\ first + n <= Len(s)
    BY <1>0, <1>2
  <2> QED BY <2>1 DEF D
<1>3. S = first..last
  <2>1. ASSUME NEW k \in first..last PROVE k \in S
    <3>1. k \in first..Len(s) /\ \A j \in first..k : j \in first..last
      BY <1>0
    <3> QED BY <1>1, <3>1
  <2>2. ASSUME NEW k \in S PROVE k \in first..last
    <3>1. ~(k > last)
      BY <1>2, <2>2
    <3> QED BY <1>0, <3>1
  <2> QED BY <2>1, <2>2
<1>4. Cardinality(first..last) = n
  BY FS_Interval
<1> QED BY <1>3, <1>4 DEF RunLength, D

(* From first on z zeros stand in s, and then the n digits of the number.   *)
DigitsStand(s, first, z, n) ==
  /\ Left(n) = 0
  /\ \A k \in 1..z : s[first + k - 1] = 0
  /\ \A k \in 1..n : s[first + z + k - 1] = Left(n - k) % Base(printed.conv)

(* Zeros and then the digits of a number make the number: after each digit  *)
(* what was left before number() took it.                                   *)
LEMMA DigitsRead ==
  ASSUME printed \in Conversions, NEW s, NEW first \in Nat, NEW z \in Nat, NEW n \in 1..Bits,
         DigitsStand(s, first, z, n), NEW f, IsRead(f, s, first, Base(printed.conv), z + n)
  PROVE  f[z + n] = Magnitude(printed)
<1> DEFINE b == Base(printed.conv)
           m == Magnitude(printed)
           B == Bit[Bits]
<1>1. m \in Nat /\ m < B /\ B \in Nat /\ Bits \in Nat
  BY MagnitudeType, WordFacts DEF Word
<1>2. b \in Nat \ {0}
  <2>1. b \in {8, 10, 16}
    BY BaseIs
  <2> HIDE DEF b
  <2> QED BY <2>1
<1>3. /\ \A k \in 0..Bits : Left(k) \in 0..m
      /\ \A k \in 0 .. Bits - 1 : Left(k + 1) = Left(k) \div b
      /\ Left(0) = m
  BY LeftFacts
<1> HIDE DEF b, m
<1>4. \A k \in 0 .. z + n : f[k] = IF k = 0 THEN 0 ELSE (f[k - 1] * b + s[first + k - 1]) % B
  BY DEF IsRead, b
<1> HIDE DEF B
<1> DEFINE Z == {k \in Nat : k <= z => f[k] = 0}
<1>5. Nat \subseteq Z
  <2>1. 0 \in Z
    BY <1>1, <1>4
  <2>2. ASSUME NEW k \in Nat, k \in Z PROVE k + 1 \in Z
    <3> SUFFICES ASSUME k + 1 <= z PROVE f[k + 1] = 0
      OBVIOUS
    <3>1. k + 1 \in 0 .. z + n /\ k + 1 # 0 /\ (k + 1) - 1 = k /\ k + 1 \in 1..z
      BY <1>1
    <3>2. f[k + 1] = (0 * b + 0) % B
      <4>1. f[k] = 0
        BY <2>2
      <4>2. s[first + (k + 1) - 1] = 0
        BY <3>1 DEF DigitsStand
      <4>3. f[k + 1] = (f[k] * b + s[first + (k + 1) - 1]) % B
        BY <1>4, <3>1
      <4> QED BY <4>1, <4>2, <4>3
    <3>3. 0 * b + 0 = 0 /\ 0 % B = 0
      BY <1>1, <1>2
    <3> QED BY <3>2, <3>3
  <2> HIDE DEF Z
  <2> QED BY <2>1, <2>2, Induct
<1>6. f[z] = 0
  BY <1>5
<1> HIDE DEF Z
<1> DEFINE N == {k \in Nat : k <= n => f[z + k] = Left(n - k)}
<1>7. Nat \subseteq N
  <2>1. 0 \in N
    BY <1>6 DEF DigitsStand
  <2>2. ASSUME NEW k \in Nat, k \in N PROVE k + 1 \in N
    <3> SUFFICES ASSUME k + 1 <= n PROVE f[z + (k + 1)] = Left(n - (k + 1))
      OBVIOUS
    <3> DEFINE x == Left(n - (k + 1))
    <3>1. /\ z + (k + 1) \in 0 .. z + n /\ z + (k + 1) # 0 /\ (z + (k + 1)) - 1 = z + k
          /\ k + 1 \in 1..n /\ first + (z + (k + 1)) - 1 = first + z + (k + 1) - 1
          /\ n - (k + 1) \in 0 .. Bits - 1 /\ n - (k + 1) \in 0..Bits
          /\ (n - (k + 1)) + 1 = n - k
      BY <1>1
    <3>2. s[first + (z + (k + 1)) - 1] = x % b
      <4>1. s[first + z + (k + 1) - 1] = Left(n - (k + 1)) % b
        BY <3>1 DEF b, DigitsStand
      <4> QED BY <3>1, <4>1
    <3>3. f[z + k] = x \div b /\ x \in Nat /\ x <= m
      BY <1>1, <1>3, <2>2, <3>1
    <3>4. f[z + (k + 1)] = (f[z + k] * b + s[first + (z + (k + 1)) - 1]) % B
      BY <1>4, <3>1
    <3> HIDE DEF x
    <3>5. (x \div b) * b + (x % b) = x
      BY <1>2, <3>3, DivMod
    <3>6. x % B = x
      <4>1. x < B
        BY <1>1, <3>3
      <4> QED BY <1>1, <3>3, <4>1, ModWord
    <3> QED BY <3>2, <3>3, <3>4, <3>5, <3>6 DEF x
  <2> HIDE DEF N
  <2> QED BY <2>1, <2>2, Induct
<1>8. f[z + n] = Left(n - n) /\ n - n = 0
  <2>1. n \in N
    BY <1>7
  <2> QED BY <2>1
<1> QED BY <1>3, <1>8 DEF m

(* Nothing else stands there, but for q blanks at the end.                  *)
NumeralStands(s, given, first, z, n, q) ==
  /\ first = FirstOf(s) /\ BaseOf(s, given) = Base(printed.conv)
  /\ Len(s) = (first - 1) + z + n + q
  /\ DigitsStand(s, first, z, n)
  /\ q > 0 => s[first + z + n] = Space

LEMMA StrtoulReads ==
  ASSUME printed \in Conversions, NEW s \in Seq(Int), NEW given, NEW first \in Nat \ {0},
         NEW z \in Nat, NEW q \in Nat, NEW n \in 1..Bits, NumeralStands(s, given, first, z, n, q)
  PROVE  Strtoul(s, given) = Magnitude(printed)
<1> USE DEF NumeralStands
<1> DEFINE b == Base(printed.conv)
<1>0. b \in Nat \ {0} /\ Bits \in Nat /\ n \in Nat /\ first \in Nat
  <2>1. b \in {8, 10, 16}
    BY BaseIs
  <2> HIDE DEF b
  <2> QED BY <2>1, BitsAssumption
<1>1. ASSUME NEW k \in 1 .. z + n PROVE s[first + k - 1] \in 0 .. b - 1
  <2>1. CASE k <= z
    <3>1. s[first + k - 1] = 0
      BY SMTT(30), <2>1 DEF DigitsStand
    <3> HIDE DEF b
    <3> QED BY <1>0, <3>1
  <2>2. CASE k > z
    <3> DEFINE i == k - z
    <3>1. i \in 1..n /\ first + z + i - 1 = first + k - 1 /\ n - i \in 0..Bits
      <4>1. z \in Nat /\ n \in Nat /\ k \in Int /\ k > z /\ k <= z + n
        BY <1>0, <2>2
      <4>2. i \in 1..n /\ k = z + i
        BY <4>1
      <4>3. n <= Bits
        OBVIOUS
      <4> HIDE DEF i
      <4>4. n - i \in 0..Bits
        BY <1>0, <4>2, <4>3
      <4>5. first + z + i - 1 = first + k - 1
        BY <1>0, <4>1, <4>2
      <4> QED BY <4>2, <4>4, <4>5
    <3> HIDE DEF i
    <3>2. s[first + z + i - 1] = Left(n - i) % b /\ Left(n - i) \in Nat
      <4>1. Left(n - i) \in 0..Magnitude(printed)
        BY <3>1, LeftFacts
      <4>2. s[first + z + i - 1] = Left(n - i) % b
        BY <3>1 DEF DigitsStand
      <4> QED BY <4>1, <4>2
    <3> DEFINE x == Left(n - i)
    <3> HIDE DEF b, x
    <3>3. x % b \in 0 .. b - 1
      BY SMTT(30), <1>0, <3>2 DEF x
    <3> QED BY <3>1, <3>2, <3>3 DEF x
  <2> QED BY <1>0, <2>1, <2>2
<1>2. first + (z + n) <= Len(s) => s[first + (z + n)] \notin 0 .. b - 1
  <2> SUFFICES ASSUME first + (z + n) <= Len(s) PROVE s[first + (z + n)] \notin 0 .. b - 1
    OBVIOUS
  <2> HIDE DEF b
  <2>1. q > 0 /\ first + (z + n) = first + z + n
    BY SMTT(30), <1>0
  <2>2. s[first + (z + n)] = Space
    BY <2>1
  <2> QED BY <2>2 DEF Space
<1>3. first + (z + n) <= Len(s) + 1 /\ z + n \in Nat
  BY SMTT(30), <1>0
<1>4. RunLength(s, first, b) = z + n
  <2> HIDE DEF b
  <2> QED BY <1>1, <1>2, <1>3, RunIs
<1>5. PICK f : ReadsUp(f, s, given, z + n)
  BY <1>3, <1>4, StrtoulIs
<1>6. IsRead(f, s, first, b, z + n) /\ Strtoul(s, given) = f[z + n]
  BY <1>5 DEF ReadsUp
<1>7. f[z + n] = Magnitude(printed)
  <2>1. \A g : IsRead(g, s, first, Base(printed.conv), z + n) => g[z + n] = Magnitude(printed)
    BY <1>0, DigitsRead
  <2> QED BY <1>6, <2>1
<1> QED BY <1>6, <1>7

(* The zeros, digits and blanks behind the prefix, one by one. *)
BodyOf(z, digits, q) == Times(z, 0) \o digits \o Times(q, Space)

IsBody(body, z, digits, n, q) ==
  /\ body \in Seq(-1..15) /\ Len(body) = z + n + q
  /\ \A k \in 1..z : body[k] = 0
  /\ \A k \in 1..n : body[z + k] = digits[k]
  /\ \A k \in 1..q : body[z + n + k] = Space

LEMMA BodyElements ==
  ASSUME NEW z \in Nat, NEW digits \in Seq(0..15), NEW q \in Nat
  PROVE  IsBody(BodyOf(z, digits, q), z, digits, Len(digits), q)
<1> DEFINE n == Len(digits)
           zeros == Times(z, 0)
           blanks == Times(q, Space)
           s == zeros \o digits
           body == s \o blanks
           C == -1..15
<1>1. /\ zeros = [k \in 1..z |-> 0] /\ blanks = [k \in 1..q |-> Space]
      /\ Space \in -1..15 /\ 0 \in -1..15
  BY DEF Times, Space
<1>2. /\ zeros \in Seq(C) /\ Len(zeros) = z /\ \A k \in 1..z : zeros[k] = 0
      /\ blanks \in Seq(C) /\ Len(blanks) = q /\ \A k \in 1..q : blanks[k] = Space
      /\ digits \in Seq(C) /\ n \in Nat
  <2>1. [k \in 1..z |-> 0] \in Seq(C) /\ [k \in 1..q |-> Space] \in Seq(C)
    BY <1>1, IsASeq
  <2>2. digits \in Seq(C)
    OBVIOUS
  <2> HIDE DEF C
  <2> QED BY <1>1, <2>1, <2>2, LenProperties
<1> HIDE DEF zeros, blanks, n, C
<1>3. /\ s \in Seq(C) /\ Len(s) = z + n
      /\ \A k \in 1 .. z + n : s[k] = IF k <= z THEN zeros[k] ELSE digits[k - z]
  BY <1>2, ConcatProperties DEF n
<1> HIDE DEF s
<1>4. /\ body \in Seq(C) /\ Len(body) = z + n + q
      /\ \A k \in 1 .. z + n + q : body[k] = IF k <= z + n THEN s[k] ELSE blanks[k - (z + n)]
  <2>1. /\ body \in Seq(C) /\ Len(body) = Len(s) + q
        /\ \A k \in 1 .. Len(s) + q : body[k] = IF k <= Len(s) THEN s[k] ELSE blanks[k - Len(s)]
    BY ZenonT(30), <1>2, <1>3, ConcatProperties
  <2> HIDE DEF body
  <2> QED BY <1>3, <2>1
<1> HIDE DEF body
<1>5. ASSUME NEW k \in 1..z PROVE body[k] = 0
  BY <1>2, <1>3, <1>4
<1>6. ASSUME NEW k \in 1..n PROVE body[z + k] = digits[k]
  <2>1. z + k \in 1 .. z + n /\ z + k \in 1 .. z + n + q /\ ~(z + k <= z) /\ (z + k) - z = k
    BY <1>2
  <2> QED BY <1>3, <1>4, <2>1
<1>7. ASSUME NEW k \in 1..q PROVE body[z + n + k] = Space
  <2>1. /\ z + n + k \in 1 .. z + n + q /\ ~(z + n + k <= z + n)
        /\ (z + n + k) - (z + n) = k
    BY <1>2
  <2> QED BY <1>2, <1>4, <2>1
<1> QED BY <1>4, <1>5, <1>6, <1>7 DEF IsBody, BodyOf, body, s, zeros, blanks, n, C

IsJoined(s, u, v) ==
  /\ s \in Seq(Int) /\ Len(s) = Len(u) + Len(v)
  /\ \A k \in 1 .. Len(u) + Len(v) : s[k] = IF k <= Len(u) THEN u[k] ELSE v[k - Len(u)]

LEMMA Joined == \A u, v \in Seq(Int) : IsJoined(u \o v, u, v)
BY ConcatProperties DEF IsJoined

Associative(r, s, t) == (r \o s) \o t = r \o (s \o t)

LEMMA Associates ==
  ASSUME NEW r \in Seq(Int), NEW s \in Seq(Int), NEW t \in Seq(Int)
  PROVE  Associative(r, s, t)
<1>1. (r \o s) \o t = r \o (s \o t)
  BY SMTT(30), ConcatAssociative
<1> QED BY <1>1 DEF Associative

Regroups(before, sign, prefix, w, x, y) ==
  before \o sign \o prefix \o w \o x \o y =
    before \o (sign \o (prefix \o (w \o x \o y)))

LEMMA Regrouped ==
  ASSUME NEW before \in Seq(Int), NEW sign \in Seq(Int), NEW prefix \in Seq(Int),
         NEW w \in Seq(Int), NEW x \in Seq(Int), NEW y \in Seq(Int)
  PROVE  Regroups(before, sign, prefix, w, x, y)
<1>1. PICK u \in Seq(Int) : u = before \o sign
  BY ConcatProperties
<1>2. PICK v \in Seq(Int) : v = u \o prefix
  BY ConcatProperties
<1>3. PICK wx \in Seq(Int) : wx = w \o x
  BY ConcatProperties
<1>4. PICK body \in Seq(Int) : body = wx \o y
  BY ConcatProperties
<1>5. PICK rest \in Seq(Int) : rest = prefix \o body
  BY ConcatProperties
<1>6. /\ Associative(v, w, x) /\ Associative(v, wx, y)
      /\ Associative(u, prefix, body) /\ Associative(before, sign, rest)
  BY Associates
<1> QED BY <1>1, <1>2, <1>3, <1>4, <1>5, <1>6 DEF Associative, Regroups

LEMMA TheyAreInts == \A s \in Seq(-1..15) : s \in Seq(Int)
OBVIOUS

(* simple_strtoul makes the number of what stands behind the sign. *)
TellsBase(s) ==
  /\ printed.conv \in {"d", "u"} => s[1] # 0
  /\ printed.conv = "o" => s[1] = 0
  /\ printed.conv \in {"x", "X"} => HexPrefix(s)

LEMMA RestReads ==
  ASSUME printed \in Conversions, NEW digits \in Seq(0..15), NEW n \in 1..Bits, n = Len(digits),
         Left(n) = 0, \A i \in 1..n : digits[i] = Left(n - i) % Base(printed.conv),
         NEW prefix \in {<<>>, << 0 >>, <<0, SmallX>>}, NEW z \in Nat, NEW q \in Nat,
         prefix = <<0, SmallX>> => printed.conv \in {"x", "X"},
         NEW given \in {0, Base(printed.conv)},
         given = 0 => TellsBase(prefix \o BodyOf(z, digits, q))
  PROVE  Strtoul(prefix \o BodyOf(z, digits, q), given) = Magnitude(printed)
<1> DEFINE body == BodyOf(z, digits, q)
           s == prefix \o body
           b == Base(printed.conv)
<1>1. /\ body \in Seq(-1..15) /\ Len(body) = z + n + q
      /\ \A k \in 1..z : body[k] = 0
      /\ \A k \in 1..n : body[z + k] = digits[k]
      /\ \A k \in 1..q : body[z + n + k] = Space
  <2>1. IsBody(body, z, digits, n, q)
    BY BodyElements
  <2> HIDE DEF body
  <2> QED BY <2>1 DEF IsBody
<1>2. n \in Nat \ {0}
  BY BitsAssumption
<1>3. given = 0 => TellsBase(s)
  OBVIOUS
<1> HIDE DEF body
<1>4. /\ b \in {8, 10, 16} /\ printed.conv \in {"d", "u", "o", "x", "X"}
      /\ printed.conv \in {"d", "u"} => b = 10
      /\ printed.conv = "o" => b = 8
      /\ printed.conv \in {"x", "X"} => b = 16
  <2>1. printed.conv \in {"d", "u", "o", "x", "X"}
    BY DEF Conversions
  <2> QED BY <2>1 DEF Base
<1>5. ASSUME s \in Seq(-1..15), Len(s) > 0
      PROVE  FirstOf(s) = 1 /\ BaseOf(s, given) = b
  <2>1. Len(s) > 2 => s[2] # SmallX
    <3>1. Len(s) > 2 => s[2] \in -1..15
      <4> HIDE DEF s
      <4>1. Len(s) \in Nat
        BY <1>5
      <4>2. Len(s) > 2 => 2 \in 1..Len(s)
        BY <4>1
      <4> QED BY <1>5, <4>2, ElementOfSeq
    <3>2. SmallX \notin -1..15
      BY DEF SmallX
    <3> HIDE DEF s
    <3> QED BY <3>1, <3>2
  <2>2. ~HexPrefix(s)
    BY <2>1 DEF HexPrefix
  <2> HIDE DEF s, b
  <2>3. CASE given = 0
    <3>1. b = IF s[1] = 0 THEN 8 ELSE 10
      BY <1>3, <1>4, <2>2, <2>3 DEF TellsBase
    <3> QED BY <1>5, <2>2, <2>3, <3>1 DEF BaseOf, FirstOf
  <2>4. CASE given # 0
    BY <2>2, <2>4 DEF BaseOf, FirstOf, b
  <2> QED BY <2>3, <2>4
<1>6. CASE prefix = <<>>
  <2>1. s = body
    BY <1>1, <1>6
  <2>2. s \in Seq(-1..15) /\ Len(s) > 0 /\ s \in Seq(Int)
    <3> HIDE DEF s
    <3> QED BY <1>1, <1>2, <2>1, TheyAreInts
  <2>3. FirstOf(s) = 1 /\ BaseOf(s, given) = b
    BY <1>5, <2>2
  <2>4. DigitsStand(s, 1, z, n)
    <3>1. \A k \in 1..z : 1 + k - 1 = k
      OBVIOUS
    <3>2. \A k \in 1..n : 1 + z + k - 1 = z + k
      OBVIOUS
    <3> HIDE DEF s
    <3> QED BY <1>1, <2>1, <3>1, <3>2 DEF DigitsStand
  <2> HIDE DEF s
  <2>5. q > 0 => s[1 + z + n] = Space
    <3>1. 1 + z + n = z + n + 1
      BY <1>2
    <3> QED BY <1>1, <2>1, <3>1
  <2>6. Len(s) = (1 - 1) + z + n + q
    BY <1>1, <1>2, <2>1
  <2>7. NumeralStands(s, given, 1, z, n, q)
    BY <2>3, <2>4, <2>5, <2>6 DEF NumeralStands
  <2>8. Strtoul(s, given) = Magnitude(printed)
    BY <2>2, <2>6, <2>7, StrtoulReads
  <2> QED BY <2>8 DEF s, body
<1>7. CASE prefix = <<0>>
  <2>1. /\ s \in Seq(-1..15) /\ Len(s) = 1 + Len(body) /\ s[1] = 0
        /\ \A k \in 1..Len(body) : s[1 + k] = body[k]
    BY <1>1, <1>7
  <2>2. Len(s) > 0 /\ s \in Seq(Int)
    <3> HIDE DEF s
    <3> QED BY <1>1, <1>2, <2>1, TheyAreInts
  <2>3. FirstOf(s) = 1 /\ BaseOf(s, given) = b
    BY <1>5, <2>1, <2>2
  <2> HIDE DEF s
  <2>4. DigitsStand(s, 1, z + 1, n)
    <3>1. ASSUME NEW k \in 1 .. z + 1 PROVE s[1 + k - 1] = 0
      <4>1. CASE k = 1
        BY <2>1, <4>1
      <4>2. CASE k # 1
        <5>1. k - 1 \in 1..z /\ k - 1 \in 1..Len(body) /\ 1 + k - 1 = 1 + (k - 1)
          BY <1>1, <1>2, <4>2
        <5> QED BY <1>1, <2>1, <5>1
      <4> QED BY <4>1, <4>2
    <3>2. ASSUME NEW k \in 1..n PROVE s[1 + (z + 1) + k - 1] = digits[k]
      <4>1. z + k \in 1..Len(body) /\ 1 + (z + 1) + k - 1 = 1 + (z + k)
        BY <1>1, <1>2
      <4> QED BY <1>1, <2>1, <4>1
    <3> QED BY <3>1, <3>2 DEF DigitsStand
  <2>5. q > 0 => s[1 + (z + 1) + n] = Space
    <3> SUFFICES ASSUME q > 0 PROVE s[1 + (z + 1) + n] = Space
      OBVIOUS
    <3>1. z + n + 1 \in 1..Len(body) /\ 1 + (z + 1) + n = 1 + (z + n + 1) /\ 1 \in 1..q
      BY <1>1, <1>2
    <3> QED BY <1>1, <2>1, <3>1
  <2>6. Len(s) = (1 - 1) + (z + 1) + n + q /\ z + 1 \in Nat
    BY <1>1, <1>2, <2>1
  <2>7. NumeralStands(s, given, 1, z + 1, n, q)
    BY <2>3, <2>4, <2>5, <2>6 DEF NumeralStands
  <2>8. Strtoul(s, given) = Magnitude(printed)
    BY <2>2, <2>6, <2>7, StrtoulReads
  <2> QED BY <2>8 DEF s, body
<1>8. CASE prefix = <<0, SmallX>>
  <2>1. /\ s \in Seq(Int) /\ Len(s) = 2 + Len(body) /\ s[1] = 0 /\ s[2] = SmallX
        /\ \A k \in 1..Len(body) : s[2 + k] = body[k]
    <3>1. /\ prefix \in Seq(Int) /\ Len(prefix) = 2 /\ prefix[1] = 0 /\ prefix[2] = SmallX
          /\ body \in Seq(Int)
      BY <1>1, <1>8, TheyAreInts DEF SmallX
    <3>2. /\ s \in Seq(Int) /\ Len(s) = Len(prefix) + Len(body)
          /\ \A k \in 1 .. Len(prefix) + Len(body) :
               s[k] = IF k <= Len(prefix) THEN prefix[k] ELSE body[k - Len(prefix)]
      <4>1. IsJoined(s, prefix, body)
        BY <3>1, Joined
      <4> HIDE DEF s
      <4> QED BY <4>1 DEF IsJoined
    <3>3. \A k \in 1 .. 2 + Len(body) : s[k] = IF k <= 2 THEN prefix[k] ELSE body[k - 2]
      <4> HIDE DEF s
      <4> QED BY <3>1, <3>2
    <3> HIDE DEF s
    <3>4. ASSUME NEW k \in 1..Len(body) PROVE s[2 + k] = body[k]
      <4>1. 2 + k \in 1 .. 2 + Len(body) /\ ~(2 + k <= 2) /\ (2 + k) - 2 = k
        BY <1>1
      <4> QED BY <3>3, <4>1
    <3>5. s[1] = 0 /\ s[2] = SmallX
      <4>1. 1 \in 1 .. 2 + Len(body) /\ 2 \in 1 .. 2 + Len(body)
        BY <1>1, <1>2
      <4> QED BY <3>1, <3>3, <4>1
    <3> QED BY <3>1, <3>2, <3>4, <3>5
  <2> HIDE DEF s
  <2>2. ASSUME NEW k \in 1..z PROVE s[3 + k - 1] = 0
    <3>1. k \in 1..Len(body) /\ 3 + k - 1 = 2 + k
      BY <1>1, <1>2
    <3> QED BY <1>1, <2>1, <3>1
  <2>3. ASSUME NEW k \in 1..n PROVE s[3 + z + k - 1] = digits[k]
    <3>1. z + k \in 1..Len(body) /\ 3 + z + k - 1 = 2 + (z + k)
      BY <1>1, <1>2
    <3> QED BY <1>1, <2>1, <3>1
  <2>4. DigitsStand(s, 3, z, n)
    BY <2>2, <2>3 DEF DigitsStand
  <2>5. HexPrefix(s)
    <3>1. Len(s) > 2
      BY <1>1, <1>2, <2>1
    <3>2. s[3] \in 0..15
      <4>1. CASE z = 0
        <5>1. 3 + z + 1 - 1 = 3 /\ 1 \in 1..n
          BY <1>2, <4>1
        <5>2. s[3] = digits[1] /\ digits[1] \in 0..15
          BY <2>3, <5>1, ElementOfSeq
        <5> QED BY <5>2
      <4>2. CASE z # 0
        <5>1. 3 + 1 - 1 = 3 /\ 1 \in 1..z
          BY <4>2
        <5> QED BY SMTT(30), <2>2, <5>1
      <4> QED BY <4>1, <4>2
    <3> QED BY <2>1, <3>1, <3>2 DEF HexPrefix
  <2>6. FirstOf(s) = 3 /\ BaseOf(s, given) = b
    BY <1>4, <1>8, <2>5 DEF FirstOf, BaseOf
  <2>7. q > 0 => s[3 + z + n] = Space
    <3> SUFFICES ASSUME q > 0 PROVE s[3 + z + n] = Space
      OBVIOUS
    <3>1. z + n + 1 \in 1..Len(body) /\ 3 + z + n = 2 + (z + n + 1) /\ 1 \in 1..q
      BY <1>1, <1>2
    <3> QED BY SMTT(30), <1>1, <2>1, <3>1
  <2>8. Len(s) = (3 - 1) + z + n + q
    BY <1>1, <1>2, <2>1
  <2>9. NumeralStands(s, given, 3, z, n, q)
    BY <2>4, <2>6, <2>7, <2>8 DEF NumeralStands
  <2>10. Strtoul(s, given) = Magnitude(printed)
    BY <2>1, <2>9, StrtoulReads
  <2> QED BY <2>10 DEF s, body
<1> QED BY <1>6, <1>7, <1>8

(* A text that can be read is sign, prefix, zeros, digits and blanks. *)
IsText(z, q, digits) ==
  text = SignOf(printed) \o (PrefixOf(printed) \o BodyOf(z, digits, q))

LEMMA TextShape ==
  ASSUME printed \in Conversions, NEW digits \in Seq(0..15), digits # <<>>,
         text = NumberText(printed, digits), Readable
  PROVE  /\ \E z, q \in Nat : IsText(z, q, digits)
         /\ SignOf(printed) \in {<<>>, <<Minus>>}
         /\ PrefixOf(printed) \in {<<>>, <<0>>, <<0, SmallX>>}
<1> DEFINE c == printed
           digitWidth == IF Len(digits) > c.precision THEN Len(digits) ELSE c.precision
           sign == SignOf(c)
           prefix == PrefixOf(c)
           padding == Padding(c.width, sign, prefix, digitWidth)
           left == "-" \in c.flags
           zeros == "0" \in c.flags /\ ~left
           z0 == IF left \/ zeros THEN 0 ELSE padding
           z == (IF zeros THEN padding ELSE 0) + digitWidth - Len(digits)
           q == IF left THEN padding ELSE 0
           before == Times(z0, Space)
           body == BodyOf(z, digits, q)
<1>1. /\ sign \in {<<>>, <<Minus>>, <<Plus>>, <<Space>>}
      /\ prefix \in {<<>>, <<0>>, <<0, SmallX>>, <<0, CapitalX>>}
      /\ prefix = <<0, CapitalX>> => sign = <<>>
  <2>1. sign \in {<<>>, <<Minus>>, <<Plus>>, <<Space>>} /\ (c.conv # "d" => sign = <<>>)
    BY DEF SignOf
  <2>2. prefix = <<>> \/ prefix = <<0>> \/ prefix = <<0, IF c.conv = "X" THEN CapitalX ELSE SmallX>>
    BY DEF PrefixOf
  <2>3. <<0, SmallX>> # <<0, CapitalX>> /\ <<0>> # <<0, CapitalX>> /\ <<>> # <<0, CapitalX>>
    BY DEF SmallX, CapitalX
  <2>4. CASE c.conv = "X"
    <3>1. prefix = <<>> \/ prefix = <<0>> \/ prefix = <<0, CapitalX>>
      BY <2>2, <2>4
    <3>2. sign = <<>>
      BY <2>1, <2>4
    <3> HIDE DEF sign, prefix
    <3> QED BY <3>1, <3>2
  <2>5. CASE c.conv # "X"
    <3>1. prefix = <<>> \/ prefix = <<0>> \/ prefix = <<0, SmallX>>
      BY <2>2, <2>5
    <3> HIDE DEF sign, prefix
    <3> QED BY <2>1, <2>3, <3>1
  <2> QED BY <2>4, <2>5
<1>2. sign \in Seq(Int) /\ prefix \in Seq(Int) /\ digits \in Seq(Int)
  <2>1. /\ <<>> \in Seq(Int) /\ <<Minus>> \in Seq(Int) /\ <<Plus>> \in Seq(Int)
        /\ <<Space>> \in Seq(Int) /\ <<0>> \in Seq(Int) /\ <<0, SmallX>> \in Seq(Int)
        /\ <<0, CapitalX>> \in Seq(Int)
    BY DEF Space, Minus, Plus, SmallX, CapitalX
  <2>2. digits \in Seq(Int)
    OBVIOUS
  <2> HIDE DEF sign, prefix
  <2> QED BY <1>1, <2>1, <2>2
<1>3. c.width \in Int /\ c.precision \in Int
  <2>1. c.width \in {Absent} \cup Nat /\ c.precision \in {Absent} \cup Nat
    BY DEF Conversions
  <2> QED BY <2>1 DEF Absent
<1>4. text = Times(z0, Space) \o sign \o prefix \o Times(z, 0) \o digits \o Times(q, Space)
  BY DEF NumberText
<1> HIDE DEF sign, prefix
<1>5. z0 \in Nat /\ z \in Nat /\ q \in Nat
  <2>1. Len(sign) \in Nat /\ Len(prefix) \in Nat /\ Len(digits) \in Nat
    BY <1>2
  <2>2. digitWidth \in Int /\ digitWidth >= Len(digits)
    BY <1>3, <2>1
  <2> HIDE DEF digitWidth
  <2>3. padding \in Nat
    BY <1>3, <2>1, <2>2 DEF Padding
  <2> HIDE DEF padding
  <2> QED BY <2>1, <2>2, <2>3
<1> HIDE DEF z0, z, q, left, zeros, padding, digitWidth
<1>6. /\ before \in Seq(Int) /\ Len(before) = z0
      /\ Times(z, 0) \in Seq(Int) /\ Times(q, Space) \in Seq(Int)
  <2>1. Space \in Int /\ 0 \in Int
    BY DEF Space
  <2> QED BY <1>5, <2>1, TimesType, Zenon
<1>7. body \in Seq(Int) /\ Len(body) > 0
  <2>1. IsBody(body, z, digits, Len(digits), q)
    BY <1>5, BodyElements
  <2>2. Len(digits) \in Nat \ {0}
    BY <1>2
  <2> HIDE DEF body
  <2> QED BY <1>5, <2>1, <2>2, TheyAreInts DEF IsBody
<1>8. text = before \o (sign \o (prefix \o body))
  <2> DEFINE w == Times(z, 0)
             d == Times(q, Space)
  <2>1. w \in Seq(Int) /\ d \in Seq(Int)
    BY <1>6
  <2>2. body = (w \o digits) \o d
    BY DEF BodyOf
  <2>3. text = ((((before \o sign) \o prefix) \o w) \o digits) \o d
    BY <1>4
  <2> HIDE DEF w, d, before, body
  <2>4. Regroups(before, sign, prefix, w, digits, d)
    BY <1>2, <1>6, <2>1, Regrouped
  <2> QED BY <2>2, <2>3, <2>4, Zenon DEF Regroups
<1> HIDE DEF before, body
<1> DEFINE rest == prefix \o body
           signed == sign \o rest
<1>9. IsJoined(rest, prefix, body) /\ rest \in Seq(Int)
  BY <1>2, <1>7, Joined DEF IsJoined
<1> HIDE DEF rest
<1>10. IsJoined(signed, sign, rest) /\ signed \in Seq(Int)
  BY <1>2, <1>9, Joined DEF IsJoined
<1> HIDE DEF signed
<1>11. text = before \o signed
  BY <1>8 DEF signed, rest
<1>12. IsJoined(text, before, signed) /\ text \in Seq(Int)
  <2>1. IsJoined(before \o signed, before, signed)
    BY <1>6, <1>10, Joined
  <2>2. IsJoined(text, before, signed)
    BY <1>11, <2>1
  <2> QED BY <2>2 DEF IsJoined
<1>13. text[1] # Space /\ text[1] # Plus /\ \A k \in DOMAIN text : text[k] # CapitalX
  BY DEF Readable
<1>14. Len(rest) = Len(prefix) + Len(body) /\ Len(signed) = Len(sign) + Len(rest)
       /\ Len(text) = Len(before) + Len(signed)
       /\ Len(prefix) \in Nat /\ Len(sign) \in Nat /\ Len(body) \in Nat
  <2>1. Len(rest) = Len(prefix) + Len(body) /\ Len(signed) = Len(sign) + Len(rest)
        /\ Len(text) = Len(before) + Len(signed)
    BY <1>9, <1>10, <1>12 DEF IsJoined
  <2>2. Len(prefix) \in Nat /\ Len(sign) \in Nat /\ Len(body) \in Nat
    BY <1>2, <1>7
  <2> QED BY <2>1, <2>2
<1>15. z0 = 0
  <2> SUFFICES ASSUME z0 # 0 PROVE FALSE
    OBVIOUS
  <2>1. 1 \in 1 .. Len(before) + Len(signed) /\ 1 <= Len(before) /\ 1 \in 1..z0
    BY <1>5, <1>6, <1>7, <1>14
  <2>2. text[1] = before[1]
    BY <1>12, <2>1 DEF IsJoined
  <2>3. before[1] = Space
    BY <2>1 DEF before, Times
  <2> QED BY <1>13, <2>2, <2>3
<1>16. text = signed
  <2>1. before = <<>>
    BY <1>6, <1>15
  <2> QED BY <1>10, <1>11, <2>1
<1>17. sign \in {<<>>, <<Minus>>}
  <2> SUFFICES ASSUME sign \in {<<Plus>>, <<Space>>} PROVE FALSE
    BY <1>1
  <2>1. Len(sign) = 1 /\ sign[1] \in {Plus, Space}
    OBVIOUS
  <2>2. 1 \in 1 .. Len(sign) + Len(rest) /\ 1 <= Len(sign)
    BY <1>14, <2>1
  <2>3. signed[1] = sign[1]
    BY <1>10, <2>2 DEF IsJoined
  <2> QED BY <1>13, <1>16, <2>1, <2>3
<1>18. prefix \in {<<>>, <<0>>, <<0, SmallX>>}
  <2> SUFFICES ASSUME prefix = <<0, CapitalX>> PROVE FALSE
    BY <1>1
  <2>1. Len(prefix) = 2 /\ prefix[2] = CapitalX
    OBVIOUS
  <2>2. text = rest
    <3>1. sign = <<>>
      BY <1>1
    <3> QED BY <1>9, <1>16, <3>1 DEF signed
  <2>3. 2 \in 1 .. Len(prefix) + Len(body) /\ 2 <= Len(prefix)
    BY <1>14, <2>1
  <2>4. rest[2] = CapitalX
    BY <1>9, <2>1, <2>3 DEF IsJoined
  <2>5. 2 \in DOMAIN text
    BY <1>9, <1>14, <2>2, <2>3
  <2> QED BY <1>13, <2>2, <2>4, <2>5
<1>19. IsText(z, q, digits)
  BY <1>16 DEF IsText, signed, rest, body, sign, prefix
<1> QED BY <1>5, <1>17, <1>18, <1>19 DEF sign, prefix

LEMMA ReadRight ==
  ASSUME DigitsInv, NEW given, Read(given)
  PROVE  ReadsBack'
<1>1. /\ printed \in Conversions /\ at = "printed" /\ num = 0 /\ text = NumberText(printed, Taken)
      /\ given \in {0, Base(printed.conv)}
      /\ base' = given /\ printed' = printed /\ text' = text
      /\ value' = IF printed.conv = "d" THEN Strtol(text, given) ELSE Strtoul(text, given)
  BY DEF Read, DigitsInv
<1> SUFFICES ASSUME Readable, given = 0 => Tells PROVE value' = Meant
  <2>1. Readable' = Readable /\ Tells' = Tells /\ Meant' = Meant
    BY <1>1 DEF Readable, Tells, FirstDigit, Meant
  <2> QED BY <1>1, <2>1 DEF ReadsBack
<1> DEFINE n == Len(Taken)
           sign == SignOf(printed)
           prefix == PrefixOf(printed)
           m == Magnitude(printed)
<1>2. /\ Taken \in Seq(0..15) /\ n \in 1..Bits /\ Taken # <<>> /\ Left(n) = 0
      /\ \A i \in 1..n : Taken[i] = Left(n - i) % Base(printed.conv)
  <2>1. /\ Taken \in Seq(0..15) /\ n \in 1..Bits /\ Left(n) = 0
        /\ \A i \in 1..n : Taken[i] = Left(n - i) % Base(printed.conv)
    BY <1>1, DigitsComplete
  <2>2. Taken # <<>>
    <3>1. Len(<<>>) = 0 /\ n # 0
      BY <2>1
    <3> QED BY <3>1
  <2> QED BY <2>1, <2>2
<1>3. /\ \E z, q \in Nat : IsText(z, q, Taken)
      /\ sign \in {<<>>, <<Minus>>} /\ prefix \in {<<>>, <<0>>, <<0, SmallX>>}
  BY <1>1, <1>2, TextShape
<1>4. PICK z \in Nat, q \in Nat : IsText(z, q, Taken)
  BY <1>3
<1> DEFINE rest == prefix \o BodyOf(z, Taken, q)
<1>5. text = sign \o rest
  BY <1>4 DEF IsText
<1>6. /\ printed.conv \in {"d", "u", "o", "x", "X"}
      /\ sign # <<>> => printed.conv = "d"
      /\ printed.conv \in {"d", "u"} => prefix = <<>>
      /\ prefix = <<0, SmallX>> => printed.conv \in {"x", "X"}
  <2>1. printed.conv \in {"d", "u", "o", "x", "X"}
    BY <1>1 DEF Conversions
  <2>2. <<0>> # <<0, SmallX>> /\ <<>> # <<0, SmallX>>
    OBVIOUS
  <2>3. printed.conv \in {"d", "u"} => prefix = <<>>
    BY DEF PrefixOf, Base
  <2>4. printed.conv = "o" => prefix = <<>> \/ prefix = <<0>>
    BY DEF PrefixOf
  <2>5. sign # <<>> => printed.conv = "d"
    BY DEF SignOf
  <2> HIDE DEF sign, prefix
  <2> QED BY <2>1, <2>2, <2>3, <2>4, <2>5
<1>7. /\ Meant \in Int /\ m = IF Meant < 0 THEN -Meant ELSE Meant
      /\ printed.conv = "d" => /\ ArgumentOf(printed) = Meant
                               /\ Meant \in -Bit[Bits - 1] .. Bit[Bits - 1] - 1
      /\ printed.conv # "d" => Meant >= 0
  BY <1>1, MagnitudeMeant
<1>8. printed.conv = "d" => (sign = <<Minus>> <=> Meant < 0)
  <2>1. <<Plus>> # <<Minus>> /\ <<Space>> # <<Minus>> /\ <<>> # <<Minus>>
    BY DEF Minus, Plus, Space
  <2> QED BY <1>7, <2>1 DEF SignOf
<1> HIDE DEF sign, prefix
<1>9. /\ rest \in Seq(Int) /\ Len(rest) > 0
      /\ rest[1] # Minus
  <2> DEFINE body == BodyOf(z, Taken, q)
  <2>1. IsBody(body, z, Taken, n, q)
    BY <1>2, BodyElements
  <2> HIDE DEF body
  <2>2. n \in Nat \ {0}
    BY <1>2, BitsAssumption
  <2>3. body \in Seq(-1..15) /\ Len(body) > 0 /\ body \in Seq(Int)
    BY <2>1, <2>2, TheyAreInts DEF IsBody
  <2>4. body[1] # Minus
    <3>1. 1 \in 1..Len(body)
      <4>1. Len(body) \in Nat
        BY <2>3
      <4> QED BY <2>3, <4>1
    <3>2. body[1] \in -1..15
      BY <2>3, <3>1, ElementOfSeq
    <3> QED BY <3>2 DEF Minus
  <2>5. prefix \in Seq(Int)
    <3>1. <<>> \in Seq(Int) /\ <<0>> \in Seq(Int) /\ <<0, SmallX>> \in Seq(Int)
      BY DEF SmallX
    <3> QED BY <1>3, <3>1
  <2>6. IsJoined(rest, prefix, body)
    BY <2>3, <2>5, Joined DEF body
  <2>7. prefix = <<>> => rest = body
    BY <2>3 DEF body
  <2> HIDE DEF rest
  <2>8. rest \in Seq(Int) /\ Len(rest) > 0
    BY <2>3, <2>5, <2>6 DEF IsJoined
  <2>9. prefix # <<>> => rest[1] = 0
    <3>1. Len(<<0>>) = 1 /\ <<0>>[1] = 0 /\ Len(<<0, SmallX>>) = 2 /\ <<0, SmallX>>[1] = 0
      OBVIOUS
    <3>2. prefix # <<>> => Len(prefix) >= 1 /\ prefix[1] = 0 /\ Len(prefix) \in Nat
      BY <1>3, <3>1
    <3>3. prefix # <<>> => 1 \in 1 .. Len(prefix) + Len(body)
      BY <2>3, <3>2
    <3> QED BY <2>6, <3>2, <3>3 DEF IsJoined
  <2>10. 0 # Minus
    BY DEF Minus
  <2> QED BY <2>4, <2>7, <2>8, <2>9, <2>10
<1>10. given = 0 => TellsBase(rest)
  <2> HIDE DEF rest
  <2> SUFFICES ASSUME Tells PROVE TellsBase(rest)
    OBVIOUS
  <2>1. CASE sign = <<>>
    <3>1. text = rest
      BY <1>5, <1>9, <2>1
    <3>2. FirstDigit = rest[1]
      BY <1>9, <3>1 DEF FirstDigit
    <3> QED BY <3>1, <3>2 DEF Tells, TellsBase
  <2>2. CASE sign = <<Minus>>
    <3>1. text[1] = Minus /\ text[2] = rest[1] /\ printed.conv = "d"
      <4>1. sign # <<>> /\ sign \in Seq(Int) /\ Len(sign) = 1 /\ sign[1] = Minus
        BY <2>2 DEF Minus
      <4>2. IsJoined(text, sign, rest)
        BY <1>5, <1>9, <4>1, Joined
      <4>3. 1 \in 1 .. Len(sign) + Len(rest) /\ 2 \in 1 .. Len(sign) + Len(rest)
        BY <1>9, <4>1
      <4>4. text[1] = sign[1] /\ text[2] = rest[2 - 1]
        BY <4>1, <4>2, <4>3 DEF IsJoined
      <4> QED BY <1>6, <4>1, <4>4
    <3>2. FirstDigit = rest[1]
      BY <3>1 DEF FirstDigit
    <3> QED BY <3>1, <3>2 DEF Tells, TellsBase
  <2> QED BY <1>3, <2>1, <2>2
<1>11. Strtoul(rest, given) = m
  BY ZenonT(90), <1>1, <1>2, <1>3, <1>4, <1>6, <1>10, RestReads
<1> HIDE DEF rest, m
<1>12. CASE printed.conv # "d"
  <2>1. text = rest
    BY SMTT(30), <1>5, <1>6, <1>9, <1>12
  <2>2. m = Meant
    BY <1>7, <1>12
  <2> QED BY <1>1, <1>11, <1>12, <2>1, <2>2
<1>13. CASE printed.conv = "d" /\ sign = <<>>
  <2>1. text = rest /\ prefix = <<>>
    BY <1>5, <1>6, <1>9, <1>13
  <2>2. value' = Signed(m, Bits)
    BY <1>1, <1>9, <1>11, <1>13, <2>1 DEF Strtol
  <2>3. ~(Meant < 0)
    <3>1. <<>> # <<Minus>>
      OBVIOUS
    <3> QED BY <1>8, <1>13, <3>1
  <2>4. m = Meant /\ Meant < Bit[Bits - 1] /\ Bit[Bits - 1] \in Int
    <3>1. Bits - 1 \in 0..Bits
      BY BitsAssumption
    <3>2. Bit[Bits - 1] \in Int
      BY <3>1, BitType
    <3> QED BY <1>7, <1>13, <2>3, <3>2
  <2> QED BY <1>7, <2>2, <2>4 DEF Signed
<1>14. CASE printed.conv = "d" /\ sign = <<Minus>>
  <2>1. text = <<Minus>> \o rest /\ Minus \in Int
    BY <1>5, <1>14 DEF Minus
  <2>2. Len(text) > 0 /\ text[1] = Minus /\ Tail(text) = rest
    BY <1>9, <2>1
  <2>3. value' = Signed((-m) % Bit[Bits], Bits)
    BY <1>1, <1>11, <1>14, <2>2 DEF Strtol
  <2>4. -m = Meant
    BY <1>7, <1>8, <1>14
  <2> QED BY <1>7, <1>14, <2>3, <2>4, SignedAgain
<1> QED BY <1>3, <1>12, <1>13, <1>14

LEMMA ReadStep ==
  DigitsInv /\ ReadsBack /\ [NumberNext]_<<udivVars, numberVars>> => ReadsBack'
<1> SUFFICES ASSUME DigitsInv, ReadsBack, [NumberNext]_<<udivVars, numberVars>>
             PROVE  ReadsBack'
  OBVIOUS
<1>1. CASE UNCHANGED numberVars
  BY <1>1 DEF numberVars, ReadsBack, Readable, Tells, FirstDigit, Meant
<1>2. CASE base' = Absent
  BY <1>2 DEF ReadsBack
<1>3. ASSUME NEW given, Read(given) PROVE ReadsBack'
  BY <1>3, ReadRight
<1>4. CASE DivideElsewhere \/ Divide
  BY <1>1, <1>4 DEF DivideElsewhere, Divide
<1>5. CASE TakeDigit \/ Divided \/ Write \/ NumberReturn
  BY <1>2, <1>5 DEF TakeDigit, Divided, Write, NumberReturn, DigitsInv
<1>6. ASSUME NEW c \in Conversions, NumberCall(c) PROVE ReadsBack'
  BY <1>2, <1>6 DEF NumberCall, DigitsInv
<1>7. CASE UNCHANGED <<udivVars, numberVars>>
  BY <1>1, <1>7
<1> QED BY <1>3, <1>4, <1>5, <1>6, <1>7 DEF NumberNext, NumberStep

(* Whatever number is printed, in whatever way, on words of any width: if   *)
(* the text has no blanks, plus or 0X in front, simple_strtol or             *)
(* simple_strtoul reads the number that was meant.                          *)
THEOREM NumbersReadBack == NumberSpec => []ReadsBack
<1>1. NumberInit => ReadsBack
  BY DEF NumberInit, ReadsBack
<1> QED BY <1>1, DivisionInit, DivisionStep, DigitsInit, DigitsStep, ReadStep, PTL DEF NumberSpec

-----------------------------------------------------------------------------
(* Formats. *)

-----------------------------------------------------------------------------
(* The format is a text made of the texts of its pieces, one behind the     *)
(* other, and so are the arguments: where those of each piece stand.        *)
IsFlat(f, s, n) == f = [i \in 1..n |-> IF i = 1 THEN s[i] ELSE f[i - 1] \o s[i]]

LEMMA FlatExists ==
  ASSUME NEW s, NEW n \in Nat
  PROVE  \E f : IsFlat(f, s, n)
<1> DEFINE S == {i \in Nat : \E f : IsFlat(f, s, i)}
<1>1. 0 \in S
  <2>1. IsFlat([k \in 1..0 |-> 0], s, 0)
    BY DEF IsFlat
  <2> QED BY <2>1
<1>2. ASSUME NEW i \in Nat, i \in S PROVE i + 1 \in S
  <2>1. PICK f : IsFlat(f, s, i)
    BY <1>2
  <2> DEFINE g == [k \in 1 .. i + 1 |->
                     IF k <= i THEN f[k] ELSE IF k = 1 THEN s[k] ELSE f[k - 1] \o s[k]]
  <2>2. ASSUME NEW k \in 1 .. i + 1
        PROVE  g[k] = IF k = 1 THEN s[k] ELSE g[k - 1] \o s[k]
    <3>1. CASE k <= i
      <4>1. k \in 1..i /\ g[k] = f[k] /\ (k # 1 => g[k - 1] = f[k - 1])
        BY <3>1
      <4>2. f[k] = IF k = 1 THEN s[k] ELSE f[k - 1] \o s[k]
        BY <2>1, <4>1 DEF IsFlat
      <4> QED BY <4>1, <4>2
    <3>2. CASE ~(k <= i)
      <4>1. k # 1 => k - 1 \in 1 .. i + 1 /\ k - 1 <= i
        BY <3>2
      <4>2. k # 1 => g[k - 1] = f[k - 1]
        BY <4>1
      <4>3. g[k] = IF k = 1 THEN s[k] ELSE f[k - 1] \o s[k]
        BY <3>2
      <4> QED BY <4>2, <4>3
    <3> QED BY <3>1, <3>2
  <2>3. IsFlat(g, s, i + 1)
    BY <2>2 DEF IsFlat
  <2> HIDE DEF g
  <2> QED BY <2>3
<1> HIDE DEF S
<1>3. n \in S
  BY <1>1, <1>2, Induct
<1> QED BY <1>3 DEF S

Flattens(f, s, n) == IsFlat(f, s, n) /\ FlattenSeq(s) = f[n]

LEMMA FlatIs ==
  ASSUME NEW s, NEW n \in Nat \ {0}, Len(s) = n
  PROVE  \E f : Flattens(f, s, n)
<1> DEFINE f == CHOOSE g : IsFlat(g, s, n)
<1>1. IsFlat(f, s, n)
  BY FlatExists
<1>2. FlattenSeq(s) = f[n]
  BY DEF FlattenSeq, IsFlat
<1> QED BY <1>1, <1>2 DEF Flattens

LEMMA FlatSame ==
  ASSUME NEW s, NEW z, NEW n \in Nat, NEW k \in 0..n, NEW f, NEW g, IsFlat(f, s, n), IsFlat(g, z, k),
         \A i \in 1..k : z[i] = s[i]
  PROVE  \A i \in 1..k : g[i] = f[i]
<1> DEFINE S == {i \in Nat : i \in 1..k => g[i] = f[i]}
<1>1. 0 \in S
  OBVIOUS
<1>2. ASSUME NEW i \in Nat, i \in S PROVE i + 1 \in S
  <2> SUFFICES ASSUME i + 1 \in 1..k PROVE g[i + 1] = f[i + 1]
    OBVIOUS
  <2>1. i + 1 \in 1..n /\ (i + 1 = 1 \/ i \in 1..k) /\ (i + 1) - 1 = i
    OBVIOUS
  <2> DEFINE j == i + 1
  <2>2. j \in 1..k /\ j - 1 = i
    BY <2>1
  <2> HIDE DEF j
  <2>3. g[j] = IF j = 1 THEN z[j] ELSE g[i] \o z[j]
    BY <2>2 DEF IsFlat
  <2>4. f[j] = IF j = 1 THEN s[j] ELSE f[i] \o s[j]
    <3>1. j \in 1..n
      BY <2>1 DEF j
    <3> QED BY <2>2, <3>1 DEF IsFlat
  <2>5. g[j] = f[j]
    BY <1>2, <2>1, <2>2, <2>3, <2>4 DEF j
  <2> QED BY <2>5 DEF j
<1> HIDE DEF S
<1>3. Nat \subseteq S
  BY <1>1, <1>2, Induct
<1> QED BY <1>3 DEF S

LEMMA FlatUpto ==
  ASSUME NEW s, NEW n \in Nat, NEW f, IsFlat(f, s, n), NEW k \in 1..n, NEW z, Len(z) = k,
         \A i \in 1..k : z[i] = s[i]
  PROVE  FlattenSeq(z) = f[k]
<1>1. k \in Nat \ {0} /\ k \in 0..n /\ k \in 1..k
  OBVIOUS
<1>2. PICK g : Flattens(g, z, k)
  BY <1>1, FlatIs
<1>3. \A i \in 1..k : g[i] = f[i]
  <2>1. IsFlat(g, z, k)
    BY <1>2 DEF Flattens
  <2> QED BY <1>1, <2>1, FlatSame
<1> QED BY <1>1, <1>2, <1>3 DEF Flattens

(* The first k of them. *)
Upto(s, k) == FlattenSeq(SubSeq(s, 1, k))

LEMMA FlatStep ==
  ASSUME NEW A, NEW s \in Seq(Seq(A))
  PROVE  /\ Upto(s, 0) = << >> /\ Upto(s, Len(s)) = FlattenSeq(s)
         /\ \A k \in 1 .. Len(s) : Upto(s, k) = Upto(s, k - 1) \o s[k]
         /\ \A k \in 0 .. Len(s) : Upto(s, k) \in Seq(A)
<1> DEFINE n == Len(s)
<1>1. n \in Nat /\ \A k \in 1..n : s[k] \in Seq(A)
  OBVIOUS
<1>2. \A k \in 0..n : /\ SubSeq(s, 1, k) \in Seq(Seq(A)) /\ Len(SubSeq(s, 1, k)) = k
                      /\ \A i \in 1..k : SubSeq(s, 1, k)[i] = s[i]
  BY SubSeqProperties
<1>3. SubSeq(s, 1, n) = s
  BY SubSeqFull
<1>4. SubSeq(s, 1, 0) = << >>
  BY <1>1, <1>2, EmptySeq
<1>5. Upto(s, 0) = << >>
  BY <1>4 DEF Upto, FlattenSeq
<1>6. CASE n = 0
  <2>1. Upto(s, 0) \in Seq(A)
    BY <1>5, EmptySeq
  <2>2. Upto(s, n) = FlattenSeq(s)
    BY <1>3 DEF Upto
  <2> QED BY <1>5, <1>6, <2>1, <2>2
<1>7. CASE n # 0
  <2>1. PICK f : Flattens(f, s, n)
    BY <1>1, <1>7, FlatIs
  <2>2. ASSUME NEW k \in 1..n PROVE Upto(s, k) = f[k]
    <3> DEFINE t == SubSeq(s, 1, k)
    <3>1. /\ k \in 0..n /\ k \in 1..k /\ k \in Nat \ {0} /\ Len(t) = k
          /\ \A i \in 1..k : t[i] = s[i]
      BY <1>1, <1>2
    <3>2. Upto(s, k) = FlattenSeq(t)
      BY DEF Upto
    <3> HIDE DEF t, n
    <3>3. IsFlat(f, s, n) /\ n \in Nat
      BY <1>1, <2>1 DEF Flattens
    <3> QED BY <3>1, <3>2, <3>3, FlatUpto
  <2>3. \A k \in 1..n : f[k] = IF k = 1 THEN s[k] ELSE f[k - 1] \o s[k]
    BY <2>1 DEF Flattens, IsFlat
  <2>4. ASSUME NEW k \in 1..n PROVE Upto(s, k) = Upto(s, k - 1) \o s[k]
    <3>1. CASE k = 1
      <4>1. << >> \o s[k] = s[k]
        BY <1>1, ConcatEmptySeq
      <4>2. Upto(s, k) = s[k]
        BY <2>2, <2>3, <3>1
      <4>3. Upto(s, k - 1) = << >>
        BY <1>5, <3>1
      <4> QED BY <4>1, <4>2, <4>3
    <3>2. CASE k # 1
      <4>1. k - 1 \in 1..n
        BY <1>1, <3>2
      <4> QED BY <2>2, <2>3, <3>2, <4>1
    <3> QED BY <3>1, <3>2
  <2> DEFINE T == {k \in Nat : k <= n => Upto(s, k) \in Seq(A)}
  <2>5. 0 \in T
    BY <1>5, EmptySeq
  <2>6. ASSUME NEW k \in Nat, k \in T PROVE k + 1 \in T
    <3> SUFFICES ASSUME k + 1 <= n PROVE Upto(s, k + 1) \in Seq(A)
      OBVIOUS
    <3>1. k + 1 \in 1..n /\ (k + 1) - 1 = k /\ Upto(s, k) \in Seq(A)
      BY <1>1, <2>6
    <3>2. Upto(s, k + 1) = Upto(s, k) \o s[k + 1]
      BY <2>4, <3>1
    <3> QED BY <1>1, <3>1, <3>2, ConcatProperties
  <2> HIDE DEF T
  <2>7. Nat \subseteq T
    BY <2>5, <2>6, Induct
  <2>8. \A k \in 0..n : Upto(s, k) \in Seq(A)
    BY <1>1, <2>7 DEF T
  <2> QED BY <1>3, <1>5, <2>4, <2>8 DEF Upto
<1> QED BY <1>6, <1>7

(* Where the k-th of them stands in all. *)
LEMMA FlatAt ==
  ASSUME NEW A, NEW s \in Seq(Seq(A)), NEW k \in 1..Len(s)
  PROVE  /\ Len(Upto(s, k - 1)) \in Nat
         /\ Len(Upto(s, k)) = Len(Upto(s, k - 1)) + Len(s[k])
         /\ Len(Upto(s, k)) <= Len(FlattenSeq(s))
         /\ \A j \in 1..Len(s[k]) : FlattenSeq(s)[Len(Upto(s, k - 1)) + j] = s[k][j]
<1> DEFINE n == Len(s)
           U(i) == Upto(s, i)
           l == Len(U(k - 1))
<1>1. /\ U(n) = FlattenSeq(s) /\ n \in Nat /\ k \in 1..n /\ k - 1 \in 0..n
      /\ \A i \in 1..n : U(i) = U(i - 1) \o s[i] /\ s[i] \in Seq(A)
      /\ \A i \in 0..n : U(i) \in Seq(A)
  <2>1. n \in Nat /\ k \in 1..n /\ k - 1 \in 0..n /\ \A i \in 1..n : s[i] \in Seq(A)
    OBVIOUS
  <2> QED BY <2>1, FlatStep
<1> HIDE DEF n, U
<1>2. \A u, v \in Seq(A) : /\ u \o v \in Seq(A) /\ Len(u \o v) = Len(u) + Len(v)
                           /\ \A j \in 1 .. Len(u) + Len(v) :
                                (u \o v)[j] = IF j <= Len(u) THEN u[j] ELSE v[j - Len(u)]
  BY ConcatProperties
<1>3. \A u \in Seq(A) : Len(u) \in Nat
  OBVIOUS
<1> DEFINE S == {i \in Nat : k + i <= n =>
                   /\ Len(U(k)) <= Len(U(k + i))
                   /\ \A j \in 1..Len(s[k]) : U(k + i)[l + j] = s[k][j]}
<1>4. Len(U(k)) = l + Len(s[k]) /\ l \in Nat /\ Len(s[k]) \in Nat /\ Len(U(k)) \in Nat
  BY <1>1, <1>2, <1>3
<1> HIDE DEF l
<1>5. \A i \in 1 .. l + Len(s[k]) : i > l => U(k)[i] = s[k][i - l]
  <2> SUFFICES ASSUME NEW i \in 1 .. l + Len(s[k]), i > l PROVE U(k)[i] = s[k][i - l]
    OBVIOUS
  <2> DEFINE u == U(k - 1)
             v == s[k]
  <2>1. u \in Seq(A) /\ v \in Seq(A) /\ U(k) = u \o v /\ Len(u) = l
    BY <1>1 DEF l
  <2> HIDE DEF u, v
  <2>2. i \in 1 .. Len(u) + Len(v) /\ ~(i <= Len(u))
    BY <1>4, <2>1 DEF v
  <2>3. \A j \in 1 .. Len(u) + Len(v) : (u \o v)[j] = IF j <= Len(u) THEN u[j] ELSE v[j - Len(u)]
    BY <2>1, ConcatProperties
  <2>4. U(k)[i] = v[i - Len(u)]
    BY <2>1, <2>2, <2>3
  <2> QED BY <2>1, <2>4 DEF v
<1>6. 0 \in S
  <2>1. ASSUME NEW j \in 1..Len(s[k]) PROVE U(k)[l + j] = s[k][j]
    <3>1. l + j \in 1 .. l + Len(s[k]) /\ l + j > l /\ (l + j) - l = j
      BY <1>4
    <3> QED BY <1>5, <3>1
  <2>2. k + 0 = k
    BY <1>1
  <2> QED BY <1>4, <2>1, <2>2
<1>7. ASSUME NEW i \in Nat, i \in S PROVE i + 1 \in S
  <2> SUFFICES ASSUME k + (i + 1) <= n
               PROVE  /\ Len(U(k)) <= Len(U(k + (i + 1)))
                      /\ \A j \in 1..Len(s[k]) : U(k + (i + 1))[l + j] = s[k][j]
    OBVIOUS
  <2>1. k + i \in 0..n /\ (k + i) + 1 \in 1..n /\ ((k + i) + 1) - 1 = k + i /\ k + (i + 1) = (k + i) + 1
    BY <1>1
  <2>2. Len(U(k)) <= Len(U(k + i)) /\ \A j \in 1..Len(s[k]) : U(k + i)[l + j] = s[k][j]
    BY <1>1, <1>7
  <2>3. U((k + i) + 1) = U(k + i) \o s[(k + i) + 1] /\ s[(k + i) + 1] \in Seq(A) /\ U(k + i) \in Seq(A)
    BY <1>1, <2>1
  <2> DEFINE u == U(k + i)
             v == s[(k + i) + 1]
  <2>4. /\ u \in Seq(A) /\ v \in Seq(A) /\ Len(u \o v) = Len(u) + Len(v)
        /\ Len(u) \in Nat /\ Len(v) \in Nat
        /\ \A j \in 1 .. Len(u) + Len(v) : (u \o v)[j] = IF j <= Len(u) THEN u[j] ELSE v[j - Len(u)]
    BY <1>2, <1>3, <2>3
  <2>6. U(k + (i + 1)) = u \o v
    BY <2>1, <2>3
  <2>7. Len(U(k)) <= Len(u)
    BY <2>2
  <2>8. \A j \in 1..Len(s[k]) : u[l + j] = s[k][j]
    BY <2>2
  <2> HIDE DEF u, v
  <2>5. \A j \in 1..Len(s[k]) : l + j \in 1 .. Len(u) + Len(v) /\ l + j <= Len(u)
    BY <1>4, <2>7, <2>4
  <2>9. \A j \in 1..Len(s[k]) : (u \o v)[l + j] = s[k][j]
    BY <2>4, <2>5, <2>8
  <2>10. Len(U(k)) <= Len(u \o v)
    BY <1>4, <2>4, <2>7
  <2> QED BY <2>6, <2>9, <2>10
<1> HIDE DEF S
<1>8. n - k \in S /\ n - k \in Nat /\ k + (n - k) = n
  <2>1. n - k \in Nat /\ k + (n - k) = n
    BY <1>1
  <2>2. Nat \subseteq S
    BY <1>6, <1>7, Induct
  <2> QED BY <2>1, <2>2
<1>9. Len(U(k)) <= Len(U(n)) /\ \A j \in 1..Len(s[k]) : U(n)[l + j] = s[k][j]
  BY <1>1, <1>8 DEF S
<1> QED BY <1>1, <1>4, <1>9 DEF U, l

-----------------------------------------------------------------------------
(* In a text that is put together, each part stands behind the ones before. *)
Stands(s, o, u) == \A j \in 1..Len(u) : s[o + j] = u[j]

JoinOf(s, A, u, v) ==
  /\ s \in Seq(A) /\ Len(s) = Len(u) + Len(v)
  /\ Stands(s, 0, u) /\ Stands(s, Len(u), v)
  /\ \A o \in Nat, x \in Seq(A) :
       o + Len(x) <= Len(u) /\ Stands(u, o, x) => Stands(s, o, x)

LEMMA Join ==
  ASSUME NEW A, NEW u \in Seq(A), NEW v \in Seq(A)
  PROVE  JoinOf(u \o v, A, u, v)
<1>1. /\ u \o v \in Seq(A) /\ Len(u \o v) = Len(u) + Len(v)
      /\ \A j \in 1 .. Len(u) + Len(v) : (u \o v)[j] = IF j <= Len(u) THEN u[j] ELSE v[j - Len(u)]
  BY ConcatProperties
<1>2. Len(u) \in Nat /\ Len(v) \in Nat /\ \A x \in Seq(A) : Len(x) \in Nat
  OBVIOUS
<1> DEFINE s == u \o v
<1> HIDE DEF s
<1>3. \A j \in 1 .. Len(u) + Len(v) : s[j] = IF j <= Len(u) THEN u[j] ELSE v[j - Len(u)]
  BY <1>1 DEF s
<1>4. Stands(s, 0, u)
  BY <1>2, <1>3 DEF Stands
<1>5. Stands(s, Len(u), v)
  <2> SUFFICES ASSUME NEW j \in 1..Len(v) PROVE s[Len(u) + j] = v[j]
    BY DEF Stands
  <2>1. Len(u) + j \in 1 .. Len(u) + Len(v) /\ ~(Len(u) + j <= Len(u)) /\ (Len(u) + j) - Len(u) = j
    BY <1>2
  <2> QED BY <1>3, <2>1
<1>6. ASSUME NEW o \in Nat, NEW x \in Seq(A), o + Len(x) <= Len(u), Stands(u, o, x)
      PROVE  Stands(s, o, x)
  <2> SUFFICES ASSUME NEW j \in 1..Len(x) PROVE s[o + j] = x[j]
    BY DEF Stands
  <2>1. o + j \in 1 .. Len(u) + Len(v) /\ o + j <= Len(u)
    BY <1>2, <1>6
  <2>2. u[o + j] = x[j]
    BY <1>6 DEF Stands
  <2> QED BY <1>3, <2>1, <2>2
<1>7. JoinOf(s, A, u, v)
  BY <1>1, <1>4, <1>5, <1>6 DEF JoinOf, s
<1> QED BY <1>7 DEF s

(* Six parts, as a conversion has them, and three, as its arguments.        *)
Joins(s, A, a, b, c, d, e, z) ==
  /\ s \in Seq(A) /\ Len(s) = Len(a) + Len(b) + Len(c) + Len(d) + Len(e) + Len(z)
  /\ Stands(s, 0, a) /\ Stands(s, Len(a), b) /\ Stands(s, Len(a) + Len(b), c)
  /\ Stands(s, Len(a) + Len(b) + Len(c), d)
  /\ Stands(s, Len(a) + Len(b) + Len(c) + Len(d), e)
  /\ Stands(s, Len(a) + Len(b) + Len(c) + Len(d) + Len(e), z)

LEMMA SixParts ==
  ASSUME NEW A, NEW a \in Seq(A), NEW b \in Seq(A), NEW c \in Seq(A), NEW d \in Seq(A),
         NEW e \in Seq(A), NEW z \in Seq(A)
  PROVE  Joins(a \o b \o c \o d \o e \o z, A, a, b, c, d, e, z)
<1>1. /\ Len(a) \in Nat /\ Len(b) \in Nat /\ Len(c) \in Nat /\ Len(d) \in Nat /\ Len(e) \in Nat
      /\ Len(z) \in Nat
  OBVIOUS
<1> DEFINE s2 == a \o b
           s3 == s2 \o c
           s4 == s3 \o d
           s5 == s4 \o e
           s6 == s5 \o z
<1>2. /\ s2 \in Seq(A) /\ Len(s2) = Len(a) + Len(b) /\ Stands(s2, 0, a) /\ Stands(s2, Len(a), b)
  BY Join DEF JoinOf
<1> HIDE DEF s2
<1>3. /\ s3 \in Seq(A) /\ Len(s3) = Len(a) + Len(b) + Len(c)
      /\ Stands(s3, 0, a) /\ Stands(s3, Len(a), b) /\ Stands(s3, Len(a) + Len(b), c)
  <2>1. 0 + Len(a) <= Len(s2) /\ Len(a) + Len(b) <= Len(s2)
    BY <1>1, <1>2
  <2>2. JoinOf(s3, A, s2, c)
    BY <1>2, Join
  <2> HIDE DEF s3
  <2> QED BY <1>1, <1>2, <2>1, <2>2 DEF JoinOf
<1> HIDE DEF s3
<1>4. /\ s4 \in Seq(A) /\ Len(s4) = Len(a) + Len(b) + Len(c) + Len(d)
      /\ Stands(s4, 0, a) /\ Stands(s4, Len(a), b) /\ Stands(s4, Len(a) + Len(b), c)
      /\ Stands(s4, Len(a) + Len(b) + Len(c), d)
  <2>1. /\ 0 + Len(a) <= Len(s3) /\ Len(a) + Len(b) <= Len(s3)
        /\ (Len(a) + Len(b)) + Len(c) <= Len(s3) /\ Len(a) + Len(b) \in Nat
    BY <1>1, <1>3
  <2>2. JoinOf(s4, A, s3, d)
    BY <1>3, Join
  <2> HIDE DEF s4
  <2> QED BY <1>1, <1>3, <2>1, <2>2 DEF JoinOf
<1> HIDE DEF s4
<1>5. /\ s5 \in Seq(A) /\ Len(s5) = Len(a) + Len(b) + Len(c) + Len(d) + Len(e)
      /\ Stands(s5, 0, a) /\ Stands(s5, Len(a), b) /\ Stands(s5, Len(a) + Len(b), c)
      /\ Stands(s5, Len(a) + Len(b) + Len(c), d)
      /\ Stands(s5, Len(a) + Len(b) + Len(c) + Len(d), e)
  <2>1. /\ 0 + Len(a) <= Len(s4) /\ Len(a) + Len(b) <= Len(s4)
        /\ (Len(a) + Len(b)) + Len(c) <= Len(s4) /\ Len(a) + Len(b) \in Nat
        /\ (Len(a) + Len(b) + Len(c)) + Len(d) <= Len(s4) /\ Len(a) + Len(b) + Len(c) \in Nat
    BY <1>1, <1>4
  <2>2. JoinOf(s5, A, s4, e)
    BY <1>4, Join
  <2> HIDE DEF s5
  <2> QED BY <1>1, <1>4, <2>1, <2>2 DEF JoinOf
<1> HIDE DEF s5
<1>6. /\ s6 \in Seq(A) /\ Len(s6) = Len(a) + Len(b) + Len(c) + Len(d) + Len(e) + Len(z)
      /\ Stands(s6, 0, a) /\ Stands(s6, Len(a), b) /\ Stands(s6, Len(a) + Len(b), c)
      /\ Stands(s6, Len(a) + Len(b) + Len(c), d)
      /\ Stands(s6, Len(a) + Len(b) + Len(c) + Len(d), e)
      /\ Stands(s6, Len(a) + Len(b) + Len(c) + Len(d) + Len(e), z)
  <2>1. /\ 0 + Len(a) <= Len(s5) /\ Len(a) + Len(b) <= Len(s5)
        /\ (Len(a) + Len(b)) + Len(c) <= Len(s5) /\ Len(a) + Len(b) \in Nat
        /\ (Len(a) + Len(b) + Len(c)) + Len(d) <= Len(s5) /\ Len(a) + Len(b) + Len(c) \in Nat
        /\ (Len(a) + Len(b) + Len(c) + Len(d)) + Len(e) <= Len(s5)
        /\ Len(a) + Len(b) + Len(c) + Len(d) \in Nat
    BY <1>1, <1>5
  <2>2. JoinOf(s6, A, s5, z)
    BY <1>5, Join
  <2> HIDE DEF s6
  <2> QED BY <1>1, <1>5, <2>1, <2>2 DEF JoinOf
<1> HIDE DEF s6
<1>7. Joins(s6, A, a, b, c, d, e, z)
  BY <1>6 DEF Joins
<1> QED BY <1>7 DEF s2, s3, s4, s5, s6

LEMMA ThreeParts ==
  ASSUME NEW A, NEW a \in Seq(A), NEW b \in Seq(A), NEW c \in Seq(A)
  PROVE  LET s == a \o b \o c
         IN  /\ s \in Seq(A) /\ Len(s) = Len(a) + Len(b) + Len(c)
             /\ Stands(s, 0, a) /\ Stands(s, Len(a), b) /\ Stands(s, Len(a) + Len(b), c)
<1>1. Len(a) \in Nat /\ Len(b) \in Nat /\ Len(c) \in Nat
  OBVIOUS
<1> DEFINE s2 == a \o b
<1>2. /\ s2 \in Seq(A) /\ Len(s2) = Len(a) + Len(b) /\ Stands(s2, 0, a) /\ Stands(s2, Len(a), b)
  BY Join DEF JoinOf
<1> HIDE DEF s2
<1> DEFINE s3 == s2 \o c
<1>3. /\ s3 \in Seq(A) /\ Len(s3) = Len(a) + Len(b) + Len(c)
      /\ Stands(s3, 0, a) /\ Stands(s3, Len(a), b) /\ Stands(s3, Len(a) + Len(b), c)
  <2>1. 0 + Len(a) <= Len(s2) /\ Len(a) + Len(b) <= Len(s2)
    BY <1>1, <1>2
  <2>2. JoinOf(s3, A, s2, c)
    BY <1>2, Join
  <2> HIDE DEF s3
  <2> QED BY <1>1, <1>2, <2>1, <2>2 DEF JoinOf
<1> QED BY <1>3 DEF s2, s3

(* The first characters from k on that are in a set. *)
LEMMA RunOfIs ==
  ASSUME NEW set, NEW k \in Nat \ {0}, NEW n \in Nat, Len(fmt) \in Nat, k + n <= Len(fmt),
         \A j \in k .. k + n - 1 : fmt[j] \in set, fmt[k + n] \notin set
  PROVE  RunOf(set, k) = n
<1> DEFINE S == {j \in k .. Len(fmt) : \A i \in k..j : fmt[i] \in set}
<1>1. ASSUME NEW j \in S PROVE j \in k .. k + n - 1
  <2>1. j \in k .. Len(fmt) /\ \A i \in k..j : fmt[i] \in set
    OBVIOUS
  <2>2. CASE j >= k + n
    <3>1. k + n \in k..j
      BY <2>1, <2>2
    <3> QED BY <2>1, <3>1
  <2> QED BY <2>1, <2>2
<1>2. ASSUME NEW j \in k .. k + n - 1 PROVE j \in S
  <2>1. j \in k .. Len(fmt) /\ \A i \in k..j : i \in k .. k + n - 1
    OBVIOUS
  <2> QED BY <2>1
<1>3. S = k .. k + n - 1
  <2> HIDE DEF S
  <2> QED BY <1>1, <1>2
<1>4. Cardinality(k .. k + n - 1) = n
  <2>1. k \in Int /\ k + n - 1 \in Int /\ (k + n - 1) - k + 1 = n /\ (k > k + n - 1 => n = 0)
    OBVIOUS
  <2> QED BY <2>1, FS_Interval
<1> QED BY <1>3, <1>4 DEF RunOf

-----------------------------------------------------------------------------
(* What a conversion looks like in the format. *)
WidthText(q) == Optional(q, "width", <<>>)
PrecisionText(q) == Optional(q, "precision", <<".">>)
ConvText(q) == IF q.conv = Eof THEN <<>> ELSE <<q.conv>>

DigitChar(d) == DigitChars[d + 1]

LEMMA DigitFacts ==
  /\ \A d \in 0..9 : /\ DigitChar(d) \in Digits /\ DigitValue(DigitChar(d)) = d
                     /\ (d # 0 => DigitChar(d) \notin FlagChars)
  /\ Digits = {"0", "1", "2", "3", "4", "5", "6", "7", "8", "9"}
<1>1. /\ DigitChars[1] = "0" /\ DigitChars[2] = "1" /\ DigitChars[3] = "2" /\ DigitChars[4] = "3"
      /\ DigitChars[5] = "4" /\ DigitChars[6] = "5" /\ DigitChars[7] = "6" /\ DigitChars[8] = "7"
      /\ DigitChars[9] = "8" /\ DigitChars[10] = "9"
  BY DEF DigitChars
<1>2. \A k \in 1..10 : k = 1 \/ k = 2 \/ k = 3 \/ k = 4 \/ k = 5 \/ k = 6 \/ k = 7 \/ k = 8 \/ k = 9 \/ k = 10
  OBVIOUS
<1>3. \A j, k \in 1..10 : DigitChars[j] = DigitChars[k] => j = k
  BY <1>1, <1>2
<1>4. ASSUME NEW d \in 0..9 PROVE DigitChar(d) \in Digits /\ DigitValue(DigitChar(d)) = d
  <2>1. d + 1 \in 1..10
    OBVIOUS
  <2> DEFINE v == CHOOSE k \in 1..10 : DigitChars[k] = DigitChars[d + 1]
  <2>2. v \in 1..10 /\ DigitChars[v] = DigitChars[d + 1]
    BY <2>1
  <2>3. v = d + 1
    BY <1>3, <2>1, <2>2
  <2>4. DigitValue(DigitChar(d)) = v - 1
    BY DEF DigitValue, DigitChar
  <2> HIDE DEF v
  <2> QED BY <2>1, <2>3, <2>4 DEF Digits, DigitChar
<1>5. Digits = {"0", "1", "2", "3", "4", "5", "6", "7", "8", "9"}
  BY <1>1, <1>2 DEF Digits
<1>6. ASSUME NEW d \in 0..9, d # 0 PROVE DigitChar(d) \notin FlagChars
  <2>1. d + 1 \in 2..10
    BY <1>6
  <2>2. \A k \in 2..10 : k = 2 \/ k = 3 \/ k = 4 \/ k = 5 \/ k = 6 \/ k = 7 \/ k = 8 \/ k = 9 \/ k = 10
    OBVIOUS
  <2> QED BY <1>1, <2>1, <2>2 DEF DigitChar, FlagChars
<1> QED BY <1>4, <1>5, <1>6

LEMMA Short ==
  ASSUME NEW a, NEW b, NEW c
  PROVE  /\ << >> \o <<a>> = <<a>> /\ << >> \o <<a, b>> = <<a, b>>
         /\ <<a>> \o << >> = <<a>> /\ <<a>> \o <<b>> = <<a, b>>
         /\ <<a>> \o <<b, c>> = <<a, b, c>>
<1> DEFINE A == {a, b, c}
<1>1. \A s \in Seq(A) : << >> \o s = s /\ s \o << >> = s
  BY ConcatEmptySeq
<1>2. <<a>> \in Seq(A) /\ <<b>> \in Seq(A) /\ <<a, b>> \in Seq(A) /\ <<b, c>> \in Seq(A)
  OBVIOUS
<1>3. \A u, v, s \in Seq(A) :
        /\ Len(s) = Len(u) + Len(v)
        /\ \A i \in 1 .. Len(s) : s[i] = IF i <= Len(u) THEN u[i] ELSE v[i - Len(u)]
        => u \o v = s
  <2> SUFFICES ASSUME NEW u \in Seq(A), NEW v \in Seq(A), NEW s \in Seq(A), Len(s) = Len(u) + Len(v),
                      \A i \in 1 .. Len(s) : s[i] = IF i <= Len(u) THEN u[i] ELSE v[i - Len(u)]
               PROVE  u \o v = s
    OBVIOUS
  <2> DEFINE r == u \o v
  <2>1. /\ r \in Seq(A) /\ Len(r) = Len(u) + Len(v)
        /\ \A i \in 1 .. Len(u) + Len(v) : r[i] = IF i <= Len(u) THEN u[i] ELSE v[i - Len(u)]
    BY ConcatProperties
  <2> HIDE DEF r
  <2>2. r = s
    BY <2>1, SeqEqual
  <2> QED BY <2>2 DEF r
<1>4. <<a>> \o <<b>> = <<a, b>>
  <2>1. <<a, b>> \in Seq(A) /\ Len(<<a, b>>) = Len(<<a>>) + Len(<<b>>)
    OBVIOUS
  <2>2. \A i \in 1 .. Len(<<a, b>>) : <<a, b>>[i] = IF i <= Len(<<a>>) THEN <<a>>[i] ELSE <<b>>[i - Len(<<a>>)]
    OBVIOUS
  <2> QED BY <1>2, <1>3, <2>1, <2>2
<1>5. <<a>> \o <<b, c>> = <<a, b, c>>
  <2>1. <<a, b, c>> \in Seq(A) /\ Len(<<a, b, c>>) = Len(<<a>>) + Len(<<b, c>>)
    OBVIOUS
  <2>2. \A i \in 1 .. Len(<<a, b, c>>) :
          <<a, b, c>>[i] = IF i <= Len(<<a>>) THEN <<a>>[i] ELSE <<b, c>>[i - Len(<<a>>)]
    OBVIOUS
  <2> QED BY <1>2, <1>3, <2>1, <2>2
<1> QED BY <1>1, <1>2, <1>4, <1>5

(* The texts of a number, of up to two digits, and of none.                 *)
LEMMA WidthTexts ==
  ASSUME NEW q, IsPiece(q), ~q.plain
  PROVE  \/ "width" \in q.star /\ WidthText(q) = <<"*">> /\ q.width \in Int
         \/ "width" \notin q.star /\ q.width = Absent /\ WidthText(q) = <<>>
         \/ /\ "width" \notin q.star /\ q.width \in 1..9
            /\ WidthText(q) = <<DigitChar(q.width)>>
         \/ /\ "width" \notin q.star
            /\ \E d \in 1..9, e \in 0..9 : /\ q.width = d * 10 + e
                                           /\ WidthText(q) = <<DigitChar(d), DigitChar(e)>>
<1> DEFINE n == q.width
<1>1. IF "width" \in q.star THEN n \in Int ELSE n \in {Absent} \cup 1..99
  BY DEF IsPiece
<1>2. CASE "width" \in q.star
  BY <1>1, <1>2, Short DEF WidthText, Optional
<1>3. CASE "width" \notin q.star /\ n = Absent
  BY <1>3, Short DEF WidthText, Optional
<1>4. CASE "width" \notin q.star /\ n # Absent
  <2>1. n \in 1..99 /\ WidthText(q) = << >> \o Numeral(n)
    BY <1>1, <1>4 DEF WidthText, Optional
  <2>2. CASE n < 10
    <3>1. WidthText(q) = <<DigitChar(n)>>
      BY <2>1, <2>2, Short DEF Numeral, DigitChar
    <3>2. n \in 1..9
      BY <2>1, <2>2
    <3> QED BY <1>4, <3>1, <3>2, Zenon
  <2>3. CASE ~(n < 10)
    <3>1. n \div 10 \in 1..9 /\ n % 10 \in 0..9 /\ n = (n \div 10) * 10 + (n % 10)
      BY <2>1, <2>3
    <3>2. WidthText(q) = <<DigitChar(n \div 10), DigitChar(n % 10)>>
      BY <2>1, <2>3, Short DEF Numeral, DigitChar
    <3> QED BY <1>4, <3>1, <3>2, Zenon
  <2> QED BY <2>2, <2>3
<1> QED BY <1>2, <1>3, <1>4

LEMMA PrecisionTexts ==
  ASSUME NEW q, IsPiece(q), ~q.plain
  PROVE  \/ "precision" \in q.star /\ PrecisionText(q) = <<".", "*">> /\ q.precision \in Nat
         \/ "precision" \notin q.star /\ q.precision = Absent /\ PrecisionText(q) = <<>>
         \/ /\ "precision" \notin q.star /\ q.precision \in 0..9
            /\ PrecisionText(q) = <<".", DigitChar(q.precision)>>
         \/ /\ "precision" \notin q.star
            /\ \E d \in 1..9, e \in 0..9 :
                 /\ q.precision = d * 10 + e
                 /\ PrecisionText(q) = <<".", DigitChar(d), DigitChar(e)>>
<1> DEFINE n == q.precision
<1>1. IF "precision" \in q.star THEN n \in Nat ELSE n \in {Absent} \cup 0..99
  BY DEF IsPiece
<1>2. CASE "precision" \in q.star
  BY <1>1, <1>2, Short DEF PrecisionText, Optional
<1>3. CASE "precision" \notin q.star /\ n = Absent
  BY <1>3, Short DEF PrecisionText, Optional
<1>4. CASE "precision" \notin q.star /\ n # Absent
  <2>0. n \in 0..99
    BY <1>1, <1>4
  <2>1. PrecisionText(q) = <<".">> \o Numeral(n)
    BY <1>4 DEF PrecisionText, Optional
  <2>2. CASE n < 10
    <3>1. PrecisionText(q) = <<".", DigitChar(n)>>
      BY <2>1, <2>2, Short DEF Numeral, DigitChar
    <3>2. n \in 0..9
      BY <2>0, <2>2
    <3> QED BY <1>4, <3>1, <3>2, Zenon
  <2>3. CASE ~(n < 10)
    <3>1. n \div 10 \in 1..9 /\ n % 10 \in 0..9 /\ n = (n \div 10) * 10 + (n % 10)
      BY <2>0, <2>3
    <3>2. PrecisionText(q) = <<".", DigitChar(n \div 10), DigitChar(n % 10)>>
      BY <2>1, <2>3, Short DEF Numeral, DigitChar
    <3> QED BY <1>4, <3>1, <3>2, Zenon
  <2> QED BY <2>2, <2>3
<1> QED BY <1>2, <1>3, <1>4

(* The characters of a piece, and where they stand.                         *)
Letters(q) == FlagChars \cup Digits \cup {"%", ".", "*", "h", "l", "q"} \cup {q.conv}

LEMMA PartTypes ==
  ASSUME NEW q, IsPiece(q), ~q.plain
  PROVE  /\ q.flags \in Seq(Letters(q)) /\ WidthText(q) \in Seq(Letters(q))
         /\ PrecisionText(q) \in Seq(Letters(q)) /\ q.qualifier \in Seq(Letters(q))
         /\ ConvText(q) \in Seq(Letters(q)) /\ <<"%">> \in Seq(Letters(q))
<1> DEFINE A == Letters(q)
<1>1. /\ "%" \in A /\ "." \in A /\ "*" \in A /\ "h" \in A /\ "l" \in A /\ "q" \in A /\ q.conv \in A
      /\ FlagChars \subseteq A /\ \A d \in 0..9 : DigitChar(d) \in A
  BY DigitFacts DEF Letters
<1> HIDE DEF A
<1>2. \A a \in A : <<a>> \in Seq(A)
  OBVIOUS
<1>3. \A a, b \in A : <<a, b>> \in Seq(A)
  OBVIOUS
<1>4. \A a, b, c \in A : <<a, b, c>> \in Seq(A)
  OBVIOUS
<1>5. << >> \in Seq(A)
  OBVIOUS
<1>6. q.flags \in Seq(A)
  <2>1. q.flags \in Seq(FlagChars)
    BY DEF IsPiece
  <2> HIDE DEF FlagChars
  <2> QED BY <1>1, <2>1
<1>7. WidthText(q) \in Seq(A)
  <2>1. \A d, e \in 0..9 : <<DigitChar(d)>> \in Seq(A) /\ <<DigitChar(d), DigitChar(e)>> \in Seq(A)
    BY <1>1, <1>2, <1>3
  <2>2. <<"*">> \in Seq(A) /\ \A d \in 1..9 : d \in 0..9
    BY <1>1, <1>2
  <2>3. CASE \E d \in 1..9, e \in 0..9 : WidthText(q) = <<DigitChar(d), DigitChar(e)>>
    <3>1. PICK d \in 1..9, e \in 0..9 : WidthText(q) = <<DigitChar(d), DigitChar(e)>>
      BY <2>3
    <3> QED BY <2>1, <2>2, <3>1
  <2>4. CASE q.width \in 0..9 /\ WidthText(q) = <<DigitChar(q.width)>>
    <3>1. <<DigitChar(q.width)>> \in Seq(A)
      BY <2>1, <2>4
    <3> QED BY <2>4, <3>1
  <2>5. CASE WidthText(q) = <<"*">> \/ WidthText(q) = << >>
    BY <1>5, <2>2, <2>5
  <2>6. \A n \in 1..9 : n \in 0..9
    OBVIOUS
  <2> QED BY <2>3, <2>4, <2>5, <2>6, WidthTexts
<1>8. PrecisionText(q) \in Seq(A)
  <2>1. \A d, e \in 0..9 : /\ <<".", DigitChar(d)>> \in Seq(A)
                            /\ <<".", DigitChar(d), DigitChar(e)>> \in Seq(A)
    BY <1>1, <1>3, <1>4
  <2>2. <<".", "*">> \in Seq(A) /\ \A d \in 1..9 : d \in 0..9
    BY <1>1, <1>3
  <2>3. CASE \E d \in 1..9, e \in 0..9 : PrecisionText(q) = <<".", DigitChar(d), DigitChar(e)>>
    <3>1. PICK d \in 1..9, e \in 0..9 : PrecisionText(q) = <<".", DigitChar(d), DigitChar(e)>>
      BY <2>3
    <3> QED BY <2>1, <2>2, <3>1
  <2>4. CASE q.precision \in 0..9 /\ PrecisionText(q) = <<".", DigitChar(q.precision)>>
    <3>1. <<".", DigitChar(q.precision)>> \in Seq(A)
      BY <2>1, <2>4
    <3> QED BY <2>4, <3>1
  <2>5. CASE PrecisionText(q) = <<".", "*">> \/ PrecisionText(q) = << >>
    BY <1>5, <2>2, <2>5
  <2>6. \A n \in 1..9 : n \in 0..9
    OBVIOUS
  <2> QED BY <2>3, <2>4, <2>5, <2>6, PrecisionTexts
<1>9. q.qualifier \in Seq(A)
  <2>1. q.qualifier \in {<< >>, <<"h">>, <<"l">>, <<"q">>}
    BY DEF IsPiece
  <2> QED BY <1>1, <1>2, <1>5, <2>1
<1>10. ConvText(q) \in Seq(A)
  BY <1>1, <1>2, <1>5 DEF ConvText
<1> QED BY <1>1, <1>2, <1>6, <1>7, <1>8, <1>9, <1>10 DEF A

-----------------------------------------------------------------------------
(* vsprintf stands before a piece and before its arguments. *)
Meets(q) ==
  /\ Len(fmt) \in Nat /\ p \in Nat \ {0} /\ taken \in Nat
  /\ p + Len(TextOf(q)) <= Len(fmt)
  /\ Stands(fmt, p - 1, TextOf(q))
  /\ q.conv = Eof => fmt[p + Len(TextOf(q))] = Eof
  /\ Stands(args, taken, ArgsOf(q))

(* Where the flags of a conversion end, its width, its precision and its    *)
(* qualifier.                                                               *)
FlagsEnd(q) == p + Len(q.flags)
WidthEnd(q) == FlagsEnd(q) + Len(WidthText(q))
PrecisionEnd(q) == WidthEnd(q) + Len(PrecisionText(q))
QualifierEnd(q) == PrecisionEnd(q) + Len(q.qualifier)

LEMMA PartsStand ==
  ASSUME NEW q, IsPiece(q), ~q.plain, Meets(q)
  PROVE  /\ Len(q.flags) \in Nat /\ Len(WidthText(q)) \in Nat /\ Len(PrecisionText(q)) \in Nat
         /\ Len(q.qualifier) \in Nat
         /\ fmt[p] = "%" /\ Stands(fmt, p, q.flags) /\ Stands(fmt, FlagsEnd(q), WidthText(q))
         /\ Stands(fmt, WidthEnd(q), PrecisionText(q)) /\ Stands(fmt, PrecisionEnd(q), q.qualifier)
         /\ fmt[QualifierEnd(q) + 1] = q.conv /\ QualifierEnd(q) + 1 <= Len(fmt)
         /\ p + Len(TextOf(q)) = QualifierEnd(q) + 1 + (IF q.conv = Eof THEN 0 ELSE 1)
<1> DEFINE A == Letters(q)
           a == <<"%">>
           b == q.flags
           c == WidthText(q)
           d == PrecisionText(q)
           e == q.qualifier
           z == ConvText(q)
           s == a \o b \o c \o d \o e \o z
<1>1. TextOf(q) = s
  BY DEF TextOf, WidthText, PrecisionText, ConvText
<1>2. /\ a \in Seq(A) /\ b \in Seq(A) /\ c \in Seq(A) /\ d \in Seq(A) /\ e \in Seq(A) /\ z \in Seq(A)
  BY PartTypes
<1>3. /\ s \in Seq(A) /\ Len(s) = Len(a) + Len(b) + Len(c) + Len(d) + Len(e) + Len(z)
      /\ Stands(s, 0, a) /\ Stands(s, Len(a), b) /\ Stands(s, Len(a) + Len(b), c)
      /\ Stands(s, Len(a) + Len(b) + Len(c), d)
      /\ Stands(s, Len(a) + Len(b) + Len(c) + Len(d), e)
      /\ Stands(s, Len(a) + Len(b) + Len(c) + Len(d) + Len(e), z)
  <2> HIDE DEF A, a, b, c, d, e, z
  <2>1. Joins(s, A, a, b, c, d, e, z)
    BY <1>2, SixParts
  <2> HIDE DEF s
  <2> QED BY <2>1 DEF Joins
<1>4. /\ Len(a) = 1 /\ a[1] = "%" /\ Len(b) \in Nat /\ Len(c) \in Nat /\ Len(d) \in Nat /\ Len(e) \in Nat
      /\ Len(s) \in Nat
      /\ Len(z) = (IF q.conv = Eof THEN 0 ELSE 1) /\ (q.conv # Eof => z[1] = q.conv)
  <2>1. Len(a) = 1 /\ a[1] = "%"
    OBVIOUS
  <2>2. Len(b) \in Nat /\ Len(c) \in Nat /\ Len(d) \in Nat /\ Len(e) \in Nat
    <3> HIDE DEF A, b, c, d, e
    <3> QED BY <1>2
  <2>3. Len(z) = (IF q.conv = Eof THEN 0 ELSE 1) /\ (q.conv # Eof => z[1] = q.conv)
    BY DEF ConvText
  <2>4. s \in Seq(A)
    <3> HIDE DEF A, a, b, c, d, e, z
    <3> QED BY <1>3
  <2>5. Len(s) \in Nat
    <3> HIDE DEF s, A
    <3> QED BY <2>4
  <2> QED BY <2>1, <2>2, <2>3, <2>5
<1> DEFINE m == p - 1
<1>5. /\ Len(fmt) \in Nat /\ p \in Nat \ {0} /\ m \in Nat /\ p + Len(s) <= Len(fmt)
      /\ Stands(fmt, m, s)
      /\ q.conv = Eof => fmt[p + Len(s)] = Eof
  <2> HIDE DEF s
  <2> QED BY <1>1 DEF Meets
<1> HIDE DEF A, a, b, c, d, e, z, s
<1>6. ASSUME NEW o \in Nat, NEW u, Len(u) \in Nat, Stands(s, o, u), o + Len(u) <= Len(s)
      PROVE  Stands(fmt, m + o, u)
  <2> SUFFICES ASSUME NEW j \in 1..Len(u) PROVE fmt[(m + o) + j] = u[j]
    BY DEF Stands
  <2>1. o + j \in 1..Len(s) /\ m + (o + j) = (m + o) + j
    <3> DEFINE l == Len(s)
               k == Len(u)
    <3>1. l \in Nat /\ m \in Nat /\ k \in Nat /\ o + k <= l /\ j \in 1..k
      BY <1>4, <1>5, <1>6
    <3> HIDE DEF l, k
    <3>2. o + j \in 1..l /\ m + (o + j) = (m + o) + j
      BY <3>1
    <3> QED BY <3>2 DEF l
  <2>2. s[o + j] = u[j]
    BY <1>6 DEF Stands
  <2>3. fmt[m + (o + j)] = s[o + j]
    BY <1>5, <2>1 DEF Stands
  <2> QED BY <2>1, <2>2, <2>3
<1> DEFINE la == Len(a)
           lb == Len(b)
           lc == Len(c)
           ld == Len(d)
           le == Len(e)
           lz == Len(z)
<1>7. /\ la = 1 /\ lb \in Nat /\ lc \in Nat /\ ld \in Nat /\ le \in Nat /\ lz \in 0..1
      /\ Len(s) = la + lb + lc + ld + le + lz
      /\ FlagsEnd(q) = p + lb /\ WidthEnd(q) = FlagsEnd(q) + lc /\ PrecisionEnd(q) = WidthEnd(q) + ld
      /\ QualifierEnd(q) = PrecisionEnd(q) + le /\ m + 1 = p /\ p \in Nat
  BY <1>3, <1>4, <1>5 DEF FlagsEnd, WidthEnd, PrecisionEnd, QualifierEnd, b, c, d, e
<1>8. /\ 0 \in Nat /\ 0 + la <= Len(s) /\ la \in Nat /\ la + lb <= Len(s)
      /\ la + lb \in Nat /\ (la + lb) + lc <= Len(s)
      /\ la + lb + lc \in Nat /\ (la + lb + lc) + ld <= Len(s)
      /\ la + lb + lc + ld \in Nat /\ (la + lb + lc + ld) + le <= Len(s)
      /\ la + lb + lc + ld + le \in Nat /\ (la + lb + lc + ld + le) + lz <= Len(s)
      /\ lz \in Nat
      /\ m + 0 = p - 1 /\ m + la = p /\ m + (la + lb) = FlagsEnd(q) /\ m + (la + lb + lc) = WidthEnd(q)
      /\ m + (la + lb + lc + ld) = PrecisionEnd(q) /\ m + (la + lb + lc + ld + le) = QualifierEnd(q)
  <2> HIDE DEF la, lb, lc, ld, le, lz, m
  <2> QED BY <1>7, <1>5
<1>9. Stands(fmt, m + 0, a) /\ Stands(fmt, m + la, b) /\ Stands(fmt, m + (la + lb), c)
  BY <1>3, <1>6, <1>8
<1>10. Stands(fmt, m + (la + lb + lc), d) /\ Stands(fmt, m + (la + lb + lc + ld), e)
  BY <1>3, <1>6, <1>8
<1>11. Stands(fmt, m + (la + lb + lc + ld + le), z)
  BY <1>3, <1>6, <1>8
<1>12. fmt[p] = "%"
  <2>1. fmt[(m + 0) + 1] = "%" /\ (m + 0) + 1 = p
    BY <1>4, <1>5, <1>9 DEF Stands
  <2> QED BY <2>1
<1>13. p + Len(s) = QualifierEnd(q) + 1 + lz /\ QualifierEnd(q) \in Nat /\ lz >= 0
  <2> HIDE DEF la, lb, lc, ld, le, lz, m
  <2> QED BY <1>7
<1>14. fmt[QualifierEnd(q) + 1] = q.conv
  <2>1. CASE q.conv = Eof
    <3>1. lz = 0
      BY <1>4, <2>1
    <3>2. QualifierEnd(q) + 1 + 0 = QualifierEnd(q) + 1
      BY <1>7
    <3> QED BY <1>5, <1>13, <2>1, <3>1, <3>2
  <2>2. CASE q.conv # Eof
    <3>1. 1 \in 1..Len(z) /\ z[1] = q.conv
      BY <1>4, <2>2
    <3>2. Stands(fmt, QualifierEnd(q), z)
      BY <1>8, <1>11
    <3> QED BY <3>1, <3>2 DEF Stands
  <2> QED BY <2>1, <2>2
<1>15. QualifierEnd(q) + 1 <= Len(fmt)
  <2> HIDE DEF la, lb, lc, ld, le, lz, m
  <2>1. p + Len(s) <= Len(fmt) /\ Len(fmt) \in Nat /\ lz \in Nat
    BY <1>5, <1>7
  <2> QED BY <1>13, <2>1
<1>16. /\ Stands(fmt, p, b) /\ Stands(fmt, FlagsEnd(q), c) /\ Stands(fmt, WidthEnd(q), d)
       /\ Stands(fmt, PrecisionEnd(q), e)
  BY <1>8, <1>9, <1>10
<1>17. p + Len(s) = QualifierEnd(q) + 1 + (IF q.conv = Eof THEN 0 ELSE 1)
  BY <1>4, <1>13
<1> QED BY <1>1, <1>4, <1>12, <1>14, <1>15, <1>16, <1>17 DEF b, c, d, e

(* The character behind each part does not continue it, nor begin a part    *)
(* that stands in front.                                                    *)
Ends == FlagChars \cup Digits \cup {"*"}

LEMMA PartsEnd ==
  ASSUME NEW q, IsPiece(q), ~q.plain, Meets(q)
  PROVE  /\ fmt[FlagsEnd(q) + 1] \notin FlagChars
         /\ fmt[WidthEnd(q) + 1] \notin Ends
         /\ fmt[PrecisionEnd(q) + 1] \notin Ends \cup {"."}
         /\ Len(q.qualifier) = 0 => q.conv \notin {"h", "l", "q"}
<1>1. /\ q.conv \notin Ends \cup {".", "h", "l", "q"}
      /\ q.qualifier \in {<<>>, <<"h">>, <<"l">>, <<"q">>}
  BY DEF IsPiece, Ends
<1>2. "." \notin Ends /\ \A c \in {"h", "l", "q"} : c \notin Ends \cup {"."}
  BY DigitFacts DEF Ends, FlagChars
<1>3. /\ p \in Nat /\ Len(q.flags) \in Nat /\ Len(WidthText(q)) \in Nat /\ Len(PrecisionText(q)) \in Nat
      /\ Len(q.qualifier) \in Nat
  BY PartsStand DEF Meets
<1>4. fmt[PrecisionEnd(q) + 1] \notin Ends \cup {"."}
  <2>1. CASE Len(q.qualifier) = 0
    <3>1. PrecisionEnd(q) + 1 = QualifierEnd(q) + 1
      BY <1>3, <2>1 DEF QualifierEnd, PrecisionEnd, WidthEnd, FlagsEnd
    <3> QED BY <1>1, <3>1, PartsStand
  <2>2. CASE Len(q.qualifier) # 0
    <3>1. 1 \in 1..Len(q.qualifier) /\ q.qualifier[1] \in {"h", "l", "q"}
      BY <1>1, <1>3, <2>2
    <3>2. fmt[PrecisionEnd(q) + 1] = q.qualifier[1]
      BY <3>1, PartsStand DEF Stands
    <3> QED BY <1>2, <3>1, <3>2
  <2> QED BY <2>1, <2>2
<1>5. fmt[WidthEnd(q) + 1] \notin Ends
  <2>1. CASE PrecisionText(q) = <<>>
    <3>1. Len(PrecisionText(q)) = 0
      BY <2>1
    <3>2. WidthEnd(q) + 1 = PrecisionEnd(q) + 1
      BY <1>3, <3>1 DEF PrecisionEnd, WidthEnd, FlagsEnd
    <3> QED BY <1>4, <3>2
  <2>2. CASE PrecisionText(q) # <<>>
    <3>1. 1 \in 1..Len(PrecisionText(q)) /\ PrecisionText(q)[1] = "."
      BY <2>2, PrecisionTexts
    <3>2. fmt[WidthEnd(q) + 1] = "."
      BY <3>1, PartsStand DEF Stands
    <3> QED BY <1>2, <3>2
  <2> QED BY <2>1, <2>2
<1>6. fmt[FlagsEnd(q) + 1] \notin FlagChars
  <2>1. CASE WidthText(q) = <<>>
    <3>1. Len(WidthText(q)) = 0
      BY <2>1
    <3>2. WidthEnd(q) + 1 = FlagsEnd(q) + 1
      BY <1>3, <3>1 DEF WidthEnd, FlagsEnd
    <3> QED BY <1>5, <3>2 DEF Ends
  <2>2. CASE WidthText(q) # <<>>
    <3>1. 1 \in 1..Len(WidthText(q)) /\ (WidthText(q)[1] = "*" \/ \E d \in 1..9 : WidthText(q)[1] = DigitChar(d))
      BY <2>2, WidthTexts
    <3>2. fmt[FlagsEnd(q) + 1] = WidthText(q)[1]
      BY <3>1, PartsStand DEF Stands
    <3>3. "*" \notin FlagChars /\ \A d \in 1..9 : DigitChar(d) \notin FlagChars
      <4>1. "*" \notin FlagChars
        BY DEF FlagChars
      <4>2. \A d \in 1..9 : d \in 0..9 /\ d # 0
        OBVIOUS
      <4> QED BY <4>1, <4>2, DigitFacts
    <3> QED BY <3>1, <3>2, <3>3
  <2> QED BY <2>1, <2>2
<1>7. Len(q.qualifier) = 0 => q.conv \notin {"h", "l", "q"}
  BY <1>1
<1> QED BY <1>4, <1>5, <1>6, <1>7

(* Its arguments. *)
Star(q, name) == IF name \in q.star THEN 1 ELSE 0
Stars(q) == Star(q, "width") + Star(q, "precision")

LEMMA ArgsStand ==
  ASSUME NEW q, IsPiece(q), ~q.plain, Meets(q)
  PROVE  /\ "width" \in q.star => args[taken + 1].int = q.width
         /\ "precision" \in q.star => args[taken + Star(q, "width") + 1].int = q.precision
         /\ q.conv \in Takes => args[taken + Stars(q) + 1] = [int |-> q.val, str |-> q.str]
         /\ Len(ArgsOf(q)) = Stars(q) + (IF q.conv \in Takes THEN 1 ELSE 0)
<1> DEFINE x == [int |-> q.width, str |-> <<>>]
           y == [int |-> q.precision, str |-> <<>>]
           v == [int |-> q.val, str |-> q.str]
           A == {x, y, v}
           a == IF "width" \in q.star THEN <<x>> ELSE <<>>
           b == IF "precision" \in q.star THEN <<y>> ELSE <<>>
           c == IF q.conv \in Takes THEN <<v>> ELSE <<>>
           s == a \o b \o c
<1>1. ArgsOf(q) = s
  BY DEF ArgsOf
<1>2. Stands(args, taken, s) /\ taken \in Nat
  BY <1>1 DEF Meets
<1>3. x.int = q.width /\ y.int = q.precision
  OBVIOUS
<1> HIDE DEF x, y, v
<1>4. a \in Seq(A) /\ b \in Seq(A) /\ c \in Seq(A)
  <2>1. << >> \in Seq(A) /\ <<x>> \in Seq(A) /\ <<y>> \in Seq(A) /\ <<v>> \in Seq(A)
    OBVIOUS
  <2> QED BY <2>1
<1>5. /\ Len(a) = Star(q, "width") /\ Len(b) = Star(q, "precision")
      /\ Len(c) = (IF q.conv \in Takes THEN 1 ELSE 0)
      /\ ("width" \in q.star => a[1] = x) /\ ("precision" \in q.star => b[1] = y)
      /\ (q.conv \in Takes => c[1] = v)
  BY DEF Star
<1> HIDE DEF a, b, c, A
<1>6. /\ Len(s) = Len(a) + Len(b) + Len(c)
      /\ Stands(s, 0, a) /\ Stands(s, Len(a), b) /\ Stands(s, Len(a) + Len(b), c)
  BY <1>4, ThreeParts
<1> HIDE DEF s
<1>7. Star(q, "width") \in 0..1 /\ Star(q, "precision") \in 0..1
  BY DEF Star
<1>8. "width" \in q.star => args[taken + 1].int = q.width
  <2> SUFFICES ASSUME "width" \in q.star PROVE args[taken + 1].int = q.width
    OBVIOUS
  <2>1. Len(a) = 1 /\ a[1] = x /\ 0 + 1 = 1
    BY <1>5 DEF Star
  <2>2. s[1] = x /\ 1 \in 1..Len(s)
    BY <1>5, <1>6, <1>7, <2>1 DEF Stands
  <2> QED BY <1>2, <1>3, <2>2 DEF Stands
<1>9. "precision" \in q.star => args[taken + Star(q, "width") + 1].int = q.precision
  <2> SUFFICES ASSUME "precision" \in q.star PROVE args[taken + Star(q, "width") + 1].int = q.precision
    OBVIOUS
  <2>1. Len(b) = 1 /\ b[1] = y
    BY <1>5 DEF Star
  <2>2. s[Star(q, "width") + 1] = y /\ Star(q, "width") + 1 \in 1..Len(s)
    <3>1. Len(s) = Star(q, "width") + 1 + Len(c) /\ Len(c) \in 0..1 /\ 1 \in 1..Len(b)
      <4>1. Len(s) = Len(a) + Len(b) + Len(c) /\ Len(a) = Star(q, "width") /\ Len(b) = 1
        BY <1>5, <1>6, <2>1
      <4>2. Len(c) \in 0..1
        BY <1>5
      <4> QED BY <4>1, <4>2
    <3>2. s[Len(a) + 1] = b[1]
      BY <1>6, <3>1 DEF Stands
    <3>3. Star(q, "width") + 1 \in 1..Len(s)
      BY <1>7, <3>1
    <3> QED BY <1>5, <2>1, <3>2, <3>3
  <2>3. taken + (Star(q, "width") + 1) = taken + Star(q, "width") + 1
    BY <1>2, <1>7
  <2> QED BY <1>2, <1>3, <2>2, <2>3 DEF Stands
<1>10. q.conv \in Takes => args[taken + Stars(q) + 1] = v
  <2> SUFFICES ASSUME q.conv \in Takes PROVE args[taken + Stars(q) + 1] = v
    OBVIOUS
  <2>1. Len(c) = 1 /\ c[1] = v
    BY <1>5
  <2>2. s[Stars(q) + 1] = v /\ Stars(q) + 1 \in 1..Len(s)
    BY <1>5, <1>6, <1>7, <2>1 DEF Stands, Stars
  <2>3. taken + (Stars(q) + 1) = taken + Stars(q) + 1
    BY <1>2, <1>7 DEF Stars
  <2> QED BY <1>2, <2>2, <2>3 DEF Stands
<1> QED BY <1>1, <1>5, <1>6, <1>8, <1>9, <1>10 DEF v, Stars

-----------------------------------------------------------------------------
(* What the parts of vsprintf read from where x stands. *)
Read4(k, t, f, w, r, l) ==
  [p |-> k, taken |-> t, flags |-> f, width |-> w, precision |-> r, qualifier |-> l]

IsAtoi(g, k, n) ==
  g = [j \in 0..n |-> IF j = 0 THEN 0 ELSE g[j - 1] * 10 + DigitValue(fmt[k + j - 1])]

(* skip_atoi reads numbers of one digit and of two. *)
LEMMA AtoiOne ==
  ASSUME NEW k \in Nat, RunOf(Digits, k) = 1, NEW d \in 0..9, fmt[k] = DigitChar(d)
  PROVE  SkipAtoi(k) = d
<1> DEFINE f == CHOOSE g : IsAtoi(g, k, 1)
           h == [j \in 0..1 |-> IF j = 0 THEN 0 ELSE DigitValue(fmt[k])]
<1>1. DigitValue(fmt[k]) = d
  BY DigitFacts
<1>2. IsAtoi(h, k, 1)
  <2>1. ASSUME NEW j \in 0..1
        PROVE  h[j] = IF j = 0 THEN 0 ELSE h[j - 1] * 10 + DigitValue(fmt[k + j - 1])
    <3>1. CASE j = 0
      BY <3>1
    <3>2. CASE j = 1
      <4>1. k + 1 - 1 = k /\ h[1 - 1] = 0
        OBVIOUS
      <4> QED BY <1>1, <3>2, <4>1
    <3> QED BY <3>1, <3>2
  <2> QED BY <2>1 DEF IsAtoi
<1> HIDE DEF h
<1>3. IsAtoi(f, k, 1)
  BY <1>2
<1>4. SkipAtoi(k) = f[1]
  BY DEF SkipAtoi, IsAtoi
<1> HIDE DEF f
<1>5. f[0] = 0 /\ f[1] = f[1 - 1] * 10 + DigitValue(fmt[k + 1 - 1])
  BY <1>3 DEF IsAtoi
<1>6. k + 1 - 1 = k /\ 1 - 1 = 0
  OBVIOUS
<1> QED BY <1>1, <1>4, <1>5, <1>6

LEMMA AtoiTwo ==
  ASSUME NEW k \in Nat, RunOf(Digits, k) = 2, NEW d \in 0..9, NEW e \in 0..9,
         fmt[k] = DigitChar(d), fmt[k + 1] = DigitChar(e)
  PROVE  SkipAtoi(k) = d * 10 + e
<1> DEFINE f == CHOOSE g : IsAtoi(g, k, 2)
           h == [j \in 0..2 |-> IF j = 0 THEN 0 ELSE IF j = 1 THEN d ELSE d * 10 + e]
<1>1. DigitValue(fmt[k]) = d /\ DigitValue(fmt[k + 1]) = e
  BY DigitFacts
<1>2. IsAtoi(h, k, 2)
  <2>1. ASSUME NEW j \in 0..2
        PROVE  h[j] = IF j = 0 THEN 0 ELSE h[j - 1] * 10 + DigitValue(fmt[k + j - 1])
    <3>1. CASE j = 0
      BY <3>1
    <3>2. CASE j = 1
      <4>1. k + 1 - 1 = k /\ h[1 - 1] = 0 /\ h[1] = d
        OBVIOUS
      <4> QED BY <1>1, <3>2, <4>1
    <3>3. CASE j = 2
      <4>1. k + 2 - 1 = k + 1 /\ h[2 - 1] = d /\ h[2] = d * 10 + e
        OBVIOUS
      <4> QED BY <1>1, <3>3, <4>1
    <3> QED BY <3>1, <3>2, <3>3
  <2> QED BY <2>1 DEF IsAtoi
<1> HIDE DEF h
<1>3. IsAtoi(f, k, 2)
  BY <1>2
<1>4. SkipAtoi(k) = f[2]
  BY DEF SkipAtoi, IsAtoi
<1> HIDE DEF f
<1>5. /\ f[0] = 0 /\ f[1] = f[1 - 1] * 10 + DigitValue(fmt[k + 1 - 1])
      /\ f[2] = f[2 - 1] * 10 + DigitValue(fmt[k + 2 - 1])
  BY <1>3 DEF IsAtoi
<1>6. k + 1 - 1 = k /\ 1 - 1 = 0 /\ k + 2 - 1 = k + 1 /\ 2 - 1 = 1
  OBVIOUS
<1> QED BY <1>1, <1>4, <1>5, <1>6

FlagSet(q) == {q.flags[j] : j \in DOMAIN q.flags}

LEMMA FlagsRead ==
  ASSUME NEW q, IsPiece(q), ~q.plain, Meets(q)
  PROVE  Flags(Read4(p + 1, taken, {}, Absent, Absent, " "))
           = Read4(FlagsEnd(q) + 1, taken, FlagSet(q), Absent, Absent, " ")
<1> DEFINE x == Read4(p + 1, taken, {}, Absent, Absent, " ")
           n == Len(q.flags)
<1>1. /\ p \in Nat \ {0} /\ Len(fmt) \in Nat /\ n \in Nat /\ Stands(fmt, p, q.flags)
      /\ FlagsEnd(q) = p + n /\ p + n + 1 <= Len(fmt)
  <2>1. /\ p \in Nat \ {0} /\ Len(fmt) \in Nat /\ n \in Nat /\ Stands(fmt, p, q.flags)
        /\ Len(WidthText(q)) \in Nat /\ Len(PrecisionText(q)) \in Nat
        /\ Len(q.qualifier) \in Nat /\ QualifierEnd(q) + 1 <= Len(fmt)
    BY PartsStand DEF Meets
  <2> DEFINE w == Len(WidthText(q))
             r == Len(PrecisionText(q))
             l == Len(q.qualifier)
  <2>2. QualifierEnd(q) = p + n + w + r + l /\ FlagsEnd(q) = p + n
    BY DEF FlagsEnd, WidthEnd, PrecisionEnd, QualifierEnd
  <2>3. w \in Nat /\ r \in Nat /\ l \in Nat
    BY <2>1
  <2> HIDE DEF w, r, l, n
  <2>4. p + n + 1 <= Len(fmt)
    BY <2>1, <2>2, <2>3
  <2> QED BY <2>1, <2>2, <2>4
<1>2. q.flags \in Seq(FlagChars)
  BY DEF IsPiece
<1>3. DOMAIN q.flags = 1..n /\ \A j \in 1..n : q.flags[j] \in FlagChars
  BY <1>2
<1> HIDE DEF n
<1>4. \A j \in 1..n : fmt[p + j] = q.flags[j]
  BY <1>1 DEF Stands, n
<1>5. RunOf(FlagChars, p + 1) = n
  <2>1. \A j \in p + 1 .. p + 1 + n - 1 : fmt[j] \in FlagChars
    <3> SUFFICES ASSUME NEW j \in p + 1 .. p + 1 + n - 1 PROVE fmt[j] \in FlagChars
      OBVIOUS
    <3>1. j - p \in 1..n /\ p + (j - p) = j
      BY <1>1
    <3> QED BY <1>3, <1>4, <3>1
  <2>2. fmt[p + 1 + n] \notin FlagChars
    <3>1. p + 1 + n = FlagsEnd(q) + 1
      BY <1>1
    <3> QED BY <3>1, PartsEnd
  <2>3. p + 1 \in Nat \ {0} /\ p + 1 + n <= Len(fmt)
    BY <1>1
  <2> QED BY <1>1, <2>1, <2>2, <2>3, RunOfIs
<1>6. {fmt[p + 1 + j] : j \in 0 .. n - 1} = FlagSet(q)
  <2>1. ASSUME NEW j \in 0 .. n - 1 PROVE fmt[p + 1 + j] \in FlagSet(q)
    <3>1. j + 1 \in 1..n /\ p + (j + 1) = p + 1 + j
      BY <1>1
    <3> QED BY <1>3, <1>4, <3>1 DEF FlagSet
  <2>2. ASSUME NEW j \in 1..n PROVE q.flags[j] \in {fmt[p + 1 + i] : i \in 0 .. n - 1}
    <3>1. j - 1 \in 0 .. n - 1 /\ p + 1 + (j - 1) = p + j
      BY <1>1
    <3> QED BY <1>4, <3>1
  <2> QED BY <1>3, <2>1, <2>2 DEF FlagSet
<1>7. x.p = p + 1
  BY DEF Read4
<1>8. Flags(x) = [x EXCEPT !.p = p + 1 + n, !.flags = FlagSet(q)]
  <2>1. Flags(x) = [x EXCEPT !.p = @ + RunOf(FlagChars, x.p),
                             !.flags = {fmt[x.p + j] : j \in 0 .. RunOf(FlagChars, x.p) - 1}]
    BY DEF Flags
  <2>2. RunOf(FlagChars, x.p) = n
    BY <1>5, <1>7
  <2> HIDE DEF x
  <2>3. {fmt[x.p + j] : j \in 0 .. RunOf(FlagChars, x.p) - 1} = {fmt[p + 1 + j] : j \in 0 .. n - 1}
    BY <1>7, <2>2
  <2> DEFINE a == {fmt[x.p + j] : j \in 0 .. RunOf(FlagChars, x.p) - 1}
             b == FlagSet(q)
  <2>4. a = b
    BY <1>6, <2>3
  <2>5. Flags(x) = [x EXCEPT !.p = @ + RunOf(FlagChars, x.p), !.flags = a]
    BY <2>1
  <2> HIDE DEF a, b
  <2>6. Flags(x) = [x EXCEPT !.p = p + 1 + n, !.flags = b]
    BY <1>7, <2>2, <2>4, <2>5
  <2> QED BY <2>6 DEF b
<1>9. FlagsEnd(q) + 1 = p + 1 + n
  BY <1>1
<1> QED BY <1>8, <1>9 DEF Read4

(* All that the next lemmas need of where the parts are. *)
LEMMA Lengths ==
  ASSUME NEW q, IsPiece(q), ~q.plain, Meets(q)
  PROVE  /\ Len(fmt) \in Nat /\ p \in Nat \ {0} /\ taken \in Nat
         /\ FlagsEnd(q) \in Nat /\ WidthEnd(q) \in Nat /\ PrecisionEnd(q) \in Nat
         /\ QualifierEnd(q) \in Nat
         /\ FlagsEnd(q) <= WidthEnd(q) /\ WidthEnd(q) <= PrecisionEnd(q)
         /\ PrecisionEnd(q) <= QualifierEnd(q) /\ QualifierEnd(q) + 1 <= Len(fmt)
         /\ WidthEnd(q) = FlagsEnd(q) + Len(WidthText(q))
         /\ PrecisionEnd(q) = WidthEnd(q) + Len(PrecisionText(q))
         /\ QualifierEnd(q) = PrecisionEnd(q) + Len(q.qualifier)
<1> DEFINE n == Len(q.flags)
           w == Len(WidthText(q))
           r == Len(PrecisionText(q))
           l == Len(q.qualifier)
<1>1. /\ Len(fmt) \in Nat /\ p \in Nat \ {0} /\ taken \in Nat
      /\ n \in Nat /\ w \in Nat /\ r \in Nat /\ l \in Nat /\ QualifierEnd(q) + 1 <= Len(fmt)
  BY PartsStand DEF Meets
<1>2. /\ FlagsEnd(q) = p + n /\ WidthEnd(q) = FlagsEnd(q) + w /\ PrecisionEnd(q) = WidthEnd(q) + r
      /\ QualifierEnd(q) = PrecisionEnd(q) + l
  BY DEF FlagsEnd, WidthEnd, PrecisionEnd, QualifierEnd
<1> HIDE DEF n, w, r, l
<1>3. /\ FlagsEnd(q) \in Nat /\ WidthEnd(q) \in Nat /\ PrecisionEnd(q) \in Nat /\ QualifierEnd(q) \in Nat
      /\ FlagsEnd(q) <= WidthEnd(q) /\ WidthEnd(q) <= PrecisionEnd(q) /\ PrecisionEnd(q) <= QualifierEnd(q)
  BY <1>1, <1>2
<1> QED BY <1>1, <1>2, <1>3 DEF w, r, l

(* A number of one digit or of two that stands in the format, and behind it *)
(* no further digit.                                                        *)
LEMMA NumberRead ==
  ASSUME NEW k \in Nat \ {0}, Len(fmt) \in Nat,
         NEW d \in 0..9, NEW e \in 0..9, fmt[k] = DigitChar(d)
  PROVE  /\ k + 1 <= Len(fmt) /\ fmt[k + 1] \notin Digits =>
              RunOf(Digits, k) = 1 /\ SkipAtoi(k) = d
         /\ k + 2 <= Len(fmt) /\ fmt[k + 1] = DigitChar(e) /\ fmt[k + 2] \notin Digits =>
              RunOf(Digits, k) = 2 /\ SkipAtoi(k) = d * 10 + e
<1>1. DigitChar(d) \in Digits /\ DigitChar(e) \in Digits
  BY DigitFacts
<1>2. ASSUME k + 1 <= Len(fmt), fmt[k + 1] \notin Digits
      PROVE  RunOf(Digits, k) = 1 /\ SkipAtoi(k) = d
  <2>1. \A j \in k .. k + 1 - 1 : fmt[j] \in Digits
    BY <1>1
  <2>2. RunOf(Digits, k) = 1
    BY <1>2, <2>1, RunOfIs
  <2> QED BY <2>2, AtoiOne
<1>3. ASSUME k + 2 <= Len(fmt), fmt[k + 1] = DigitChar(e), fmt[k + 2] \notin Digits
      PROVE  RunOf(Digits, k) = 2 /\ SkipAtoi(k) = d * 10 + e
  <2>1. \A j \in k .. k + 2 - 1 : j = k \/ j = k + 1
    OBVIOUS
  <2>2. \A j \in k .. k + 2 - 1 : fmt[j] \in Digits
    BY <1>1, <1>3, <2>1
  <2>3. RunOf(Digits, k) = 2
    BY <1>3, <2>2, RunOfIs
  <2> QED BY <1>3, <2>3, AtoiTwo
<1> QED BY <1>2, <1>3

LEMMA WidthRead ==
  ASSUME NEW q, IsPiece(q), ~q.plain, Meets(q)
  PROVE  FieldWidth(Read4(FlagsEnd(q) + 1, taken, FlagSet(q), Absent, Absent, " "))
           = Read4(WidthEnd(q) + 1, taken + Star(q, "width"), FlagsOf(q), WidthOf(q), Absent, " ")
<1> DEFINE x == Read4(FlagsEnd(q) + 1, taken, FlagSet(q), Absent, Absent, " ")
           k == FlagsEnd(q) + 1
<1>1. /\ Len(fmt) \in Nat /\ k \in Nat \ {0} /\ k = FlagsEnd(q) + 1 /\ taken \in Nat
      /\ WidthEnd(q) + 1 <= Len(fmt) /\ WidthEnd(q) = FlagsEnd(q) + Len(WidthText(q))
      /\ FlagsEnd(q) \in Nat
  <2>1. /\ Len(fmt) \in Nat /\ FlagsEnd(q) \in Nat /\ taken \in Nat
        /\ WidthEnd(q) \in Nat /\ PrecisionEnd(q) \in Nat /\ QualifierEnd(q) \in Nat
        /\ WidthEnd(q) <= PrecisionEnd(q)
        /\ PrecisionEnd(q) <= QualifierEnd(q) /\ QualifierEnd(q) + 1 <= Len(fmt)
        /\ WidthEnd(q) = FlagsEnd(q) + Len(WidthText(q))
    BY Lengths
  <2>2. WidthEnd(q) + 1 <= Len(fmt)
    BY <2>1
  <2>3. k \in Nat \ {0}
    BY <2>1
  <2> QED BY <2>1, <2>2, <2>3
<1>2. fmt[WidthEnd(q) + 1] \notin Ends /\ Stands(fmt, FlagsEnd(q), WidthText(q))
  BY PartsStand, PartsEnd
<1>3. x.p = k /\ x.taken = taken
  BY DEF Read4
<1>4. /\ "width" \notin q.star => FlagsOf(q) = FlagSet(q) /\ WidthOf(q) = q.width
      /\ Star(q, "width") = (IF "width" \in q.star THEN 1 ELSE 0)
  BY DEF FlagsOf, FlagSet, WidthOf, Star
<1>5. "*" \notin Digits /\ "*" \in Ends /\ Digits \subseteq Ends
  BY DigitFacts DEF Ends
<1> HIDE DEF k
<1>6. CASE "width" \in q.star /\ WidthText(q) = <<"*">> /\ q.width \in Int
  <2>1. fmt[k] = "*" /\ WidthEnd(q) = k
    <3>1. Len(WidthText(q)) = 1 /\ WidthText(q)[1] = "*"
      BY <1>6
    <3> QED BY <1>1, <1>2, <3>1 DEF Stands
  <2>2. args[x.taken + 1].int = q.width
    BY <1>3, <1>6, ArgsStand
  <2>3. FieldWidth(x) = [x EXCEPT !.p = k + 1, !.taken = taken + 1,
                           !.width = IF q.width < 0 THEN -q.width ELSE q.width,
                           !.flags = IF q.width < 0 THEN x.flags \cup {"-"} ELSE x.flags]
    <3> HIDE DEF x
    <3> QED BY <1>3, <1>5, <2>1, <2>2 DEF FieldWidth
  <2>4. /\ WidthOf(q) = (IF q.width < 0 THEN -q.width ELSE q.width)
        /\ FlagsOf(q) = (IF q.width < 0 THEN FlagSet(q) \cup {"-"} ELSE FlagSet(q))
    BY <1>6 DEF WidthOf, FlagsOf, FlagSet
  <2>5. x.flags = FlagSet(q)
    BY DEF Read4
  <2>6. FieldWidth(x) = Read4(k + 1, taken + 1, FlagsOf(q), WidthOf(q), Absent, " ")
    <3>1. FieldWidth(x) = [x EXCEPT !.p = k + 1, !.taken = taken + 1,
                                    !.width = WidthOf(q), !.flags = FlagsOf(q)]
      <4> HIDE DEF x
      <4> QED BY <2>3, <2>4, <2>5
    <3>2. x = Read4(k, taken, FlagSet(q), Absent, Absent, " ")
      BY DEF k
    <3> HIDE DEF x
    <3> DEFINE j == k + 1
               t == taken + 1
               w == WidthOf(q)
    <3>a. PICK y : y = [x EXCEPT !.p = j]
      OBVIOUS
    <3>b. PICK z : z = [y EXCEPT !.taken = t]
      OBVIOUS
    <3>c. PICK u : u = [z EXCEPT !.width = w]
      OBVIOUS
    <3>3. FieldWidth(x) = [u EXCEPT !.flags = FlagsOf(q)]
      BY <3>1, <3>a, <3>b, <3>c
    <3> HIDE DEF j, t, w
    <3>4. y = Read4(j, taken, FlagSet(q), Absent, Absent, " ")
      BY <3>2, <3>a DEF Read4
    <3>5. z = Read4(j, t, FlagSet(q), Absent, Absent, " ")
      BY <3>4, <3>b DEF Read4
    <3>6. u = Read4(j, t, FlagSet(q), w, Absent, " ")
      BY <3>5, <3>c DEF Read4
    <3>7. FieldWidth(x) = Read4(j, t, FlagsOf(q), w, Absent, " ")
      BY <3>3, <3>6 DEF Read4
    <3> QED BY <3>7 DEF j, t, w
  <2> QED BY <1>4, <1>6, <2>1, <2>6
<1>7. CASE "width" \notin q.star /\ q.width = Absent /\ WidthText(q) = <<>>
  <2>1. WidthEnd(q) + 1 = k
    <3>1. Len(WidthText(q)) = 0
      BY <1>7
    <3> QED BY <1>1, <3>1
  <2>2. fmt[k] \notin Digits /\ fmt[k] # "*"
    BY <1>2, <1>5, <2>1
  <2>3. FieldWidth(x) = x
    <3> HIDE DEF x
    <3> QED BY <1>3, <2>2 DEF FieldWidth
  <2>4. taken + 0 = taken /\ WidthEnd(q) + 1 = FlagsEnd(q) + 1 /\ Star(q, "width") = 0
    BY <1>1, <1>4, <1>7, <2>1
  <2> QED BY <1>4, <1>7, <2>3, <2>4
<1>8. CASE /\ "width" \notin q.star /\ q.width \in 1..9
           /\ WidthText(q) = <<DigitChar(q.width)>>
  <2> DEFINE d == q.width
  <2>1. fmt[k] = DigitChar(d) /\ WidthEnd(q) = k /\ d \in 0..9
    <3>1. Len(WidthText(q)) = 1 /\ WidthText(q)[1] = DigitChar(d)
      BY <1>8
    <3> QED BY <1>1, <1>2, <1>8, <3>1 DEF Stands
  <2>2. k + 1 <= Len(fmt) /\ fmt[k + 1] \notin Digits
    BY <1>1, <1>2, <1>5, <2>1
  <2>3. RunOf(Digits, k) = 1 /\ SkipAtoi(k) = d
    <3> HIDE DEF d
    <3> QED BY <1>1, <2>1, <2>2, NumberRead
  <2>4. fmt[k] \in Digits
    BY <2>1, DigitFacts
  <2>5. FieldWidth(x) = [x EXCEPT !.p = k + 1, !.width = d]
    <3> HIDE DEF x, d
    <3> QED BY <1>3, <2>3, <2>4 DEF FieldWidth
  <2>6. FieldWidth(x) = Read4(k + 1, taken, FlagSet(q), d, Absent, " ")
    <3>1. x = Read4(k, taken, FlagSet(q), Absent, Absent, " ")
      BY DEF k
    <3> HIDE DEF x
    <3> DEFINE j == k + 1
    <3>a. PICK y : y = [x EXCEPT !.p = j]
      OBVIOUS
    <3>2. FieldWidth(x) = [y EXCEPT !.width = d]
      BY <2>5, <3>a
    <3> HIDE DEF j
    <3>3. y = Read4(j, taken, FlagSet(q), Absent, Absent, " ")
      BY <3>1, <3>a DEF Read4
    <3>4. FieldWidth(x) = Read4(j, taken, FlagSet(q), d, Absent, " ")
      BY <3>2, <3>3 DEF Read4
    <3> QED BY <3>4 DEF j
  <2>7. taken + 0 = taken /\ Star(q, "width") = 0
    BY <1>1, <1>4, <1>8
  <2> QED BY <1>4, <1>8, <2>1, <2>6, <2>7
<1>9. CASE /\ "width" \notin q.star
           /\ \E d \in 1..9, e \in 0..9 : /\ q.width = d * 10 + e
                                          /\ WidthText(q) = <<DigitChar(d), DigitChar(e)>>
  <2>1. PICK d \in 1..9, e \in 0..9 : /\ q.width = d * 10 + e
                                      /\ WidthText(q) = <<DigitChar(d), DigitChar(e)>>
    BY <1>9
  <2>2. fmt[k] = DigitChar(d) /\ fmt[k + 1] = DigitChar(e) /\ WidthEnd(q) + 1 = k + 2 /\ d \in 0..9
    <3>1. Len(WidthText(q)) = 2 /\ WidthText(q)[1] = DigitChar(d) /\ WidthText(q)[2] = DigitChar(e)
      BY <2>1
    <3>2. fmt[FlagsEnd(q) + 1] = DigitChar(d) /\ fmt[FlagsEnd(q) + 2] = DigitChar(e)
      BY <1>2, <3>1 DEF Stands
    <3>3. FlagsEnd(q) + 2 = k + 1 /\ WidthEnd(q) + 1 = k + 2
      BY <1>1, <3>1
    <3> QED BY <1>1, <3>2, <3>3
  <2>3. k + 2 <= Len(fmt) /\ fmt[k + 2] \notin Digits
    BY <1>1, <1>2, <1>5, <2>2
  <2>4. RunOf(Digits, k) = 2 /\ SkipAtoi(k) = d * 10 + e
    BY <1>1, <2>2, <2>3, NumberRead
  <2>5. fmt[k] \in Digits
    BY <2>2, DigitFacts
  <2>6. FieldWidth(x) = [x EXCEPT !.p = k + 2, !.width = q.width]
    <3> HIDE DEF x
    <3> QED BY <1>3, <2>1, <2>4, <2>5 DEF FieldWidth
  <2>7. FieldWidth(x) = Read4(k + 2, taken, FlagSet(q), q.width, Absent, " ")
    <3>1. x = Read4(k, taken, FlagSet(q), Absent, Absent, " ")
      BY DEF k
    <3> HIDE DEF x
    <3> DEFINE j == k + 2
    <3>a. PICK y : y = [x EXCEPT !.p = j]
      OBVIOUS
    <3>2. FieldWidth(x) = [y EXCEPT !.width = q.width]
      BY <2>6, <3>a
    <3> HIDE DEF j
    <3>3. y = Read4(j, taken, FlagSet(q), Absent, Absent, " ")
      BY <3>1, <3>a DEF Read4
    <3>4. FieldWidth(x) = Read4(j, taken, FlagSet(q), q.width, Absent, " ")
      BY <3>2, <3>3 DEF Read4
    <3> QED BY <3>4 DEF j
  <2>8. taken + 0 = taken /\ Star(q, "width") = 0
    BY <1>1, <1>4, <1>9
  <2> QED BY <1>4, <1>9, <2>2, <2>7, <2>8
<1> QED BY <1>6, <1>7, <1>8, <1>9, WidthTexts

LEMMA PrecisionRead ==
  ASSUME NEW q, IsPiece(q), ~q.plain, Meets(q), NEW t \in Nat, t = taken + Star(q, "width"),
         NEW f, NEW w
  PROVE  Precision(Read4(WidthEnd(q) + 1, t, f, w, Absent, " "))
           = Read4(PrecisionEnd(q) + 1, t + Star(q, "precision"), f, w, q.precision, " ")
<1> DEFINE x == Read4(WidthEnd(q) + 1, t, f, w, Absent, " ")
           k == WidthEnd(q) + 2
<1>1. /\ Len(fmt) \in Nat /\ k \in Nat \ {0} /\ k = WidthEnd(q) + 1 + 1
      /\ PrecisionEnd(q) + 1 <= Len(fmt) /\ PrecisionEnd(q) = WidthEnd(q) + Len(PrecisionText(q))
      /\ WidthEnd(q) \in Nat /\ k = WidthEnd(q) + 2
  <2>1. WidthEnd(q) \in Nat => k \in Nat \ {0} /\ k = WidthEnd(q) + 1 + 1 /\ k = WidthEnd(q) + 2
    OBVIOUS
  <2>2. /\ Len(fmt) \in Nat /\ WidthEnd(q) \in Nat /\ PrecisionEnd(q) \in Nat /\ QualifierEnd(q) \in Nat
        /\ PrecisionEnd(q) <= QualifierEnd(q) /\ QualifierEnd(q) + 1 <= Len(fmt)
        /\ PrecisionEnd(q) = WidthEnd(q) + Len(PrecisionText(q))
    BY Lengths
  <2>3. PrecisionEnd(q) + 1 <= Len(fmt)
    BY <2>2
  <2> HIDE DEF k
  <2> QED BY <2>1, <2>2, <2>3
<1>2. fmt[PrecisionEnd(q) + 1] \notin Ends \cup {"."} /\ Stands(fmt, WidthEnd(q), PrecisionText(q))
  BY PartsStand, PartsEnd
<1>3. x = Read4(WidthEnd(q) + 1, t, f, w, Absent, " ")
  OBVIOUS
<1> HIDE DEF x, k
<1>4. x.p = WidthEnd(q) + 1 /\ x.taken = t /\ x.p + 1 = k
  BY <1>1, <1>3 DEF Read4
<1>5. "*" \notin Digits /\ "*" \in Ends /\ Digits \subseteq Ends
  BY DigitFacts DEF Ends
<1>6. Star(q, "precision") = (IF "precision" \in q.star THEN 1 ELSE 0)
  BY DEF Star
<1>7. CASE "precision" \in q.star /\ PrecisionText(q) = <<".", "*">> /\ q.precision \in Nat
  <2>1. fmt[x.p] = "." /\ fmt[k] = "*" /\ PrecisionEnd(q) = k
    <3>1. Len(PrecisionText(q)) = 2 /\ PrecisionText(q)[1] = "." /\ PrecisionText(q)[2] = "*"
      BY <1>7
    <3> QED BY <1>1, <1>2, <1>4, <3>1 DEF Stands
  <2>2. args[x.taken + 1].int = q.precision
    <3>1. args[taken + Star(q, "width") + 1].int = q.precision
      BY <1>7, ArgsStand
    <3> QED BY <1>4, <3>1
  <2>3. (IF q.precision < 0 THEN 0 ELSE q.precision) = q.precision
    BY <1>7
  <2>4. Precision(x) = [x EXCEPT !.p = k + 1, !.taken = t + 1, !.precision = q.precision]
    BY <1>4, <1>5, <2>1, <2>2, <2>3 DEF Precision
  <2> DEFINE j == k + 1
             s == t + 1
  <2>5. PICK y : y = [x EXCEPT !.p = j]
    OBVIOUS
  <2>6. PICK z : z = [y EXCEPT !.taken = s]
    OBVIOUS
  <2>7. Precision(x) = [z EXCEPT !.precision = q.precision]
    BY <2>4, <2>5, <2>6
  <2> HIDE DEF j, s
  <2>8. y = Read4(j, t, f, w, Absent, " ")
    BY <1>3, <2>5 DEF Read4
  <2>9. z = Read4(j, s, f, w, Absent, " ")
    BY <2>6, <2>8 DEF Read4
  <2>10. Precision(x) = Read4(j, s, f, w, q.precision, " ")
    BY <2>7, <2>9 DEF Read4
  <2>11. j = PrecisionEnd(q) + 1 /\ s = t + Star(q, "precision")
    BY <1>6, <1>7, <2>1 DEF j, s
  <2> QED BY <1>3, <2>10, <2>11
<1>8. CASE "precision" \notin q.star /\ q.precision = Absent /\ PrecisionText(q) = <<>>
  <2>1. PrecisionEnd(q) + 1 = x.p
    <3>1. Len(PrecisionText(q)) = 0
      BY <1>8
    <3> QED BY <1>1, <1>4, <3>1
  <2>2. fmt[x.p] # "."
    BY <1>2, <2>1
  <2>3. Precision(x) = x
    BY <2>2 DEF Precision
  <2>4. t + 0 = t /\ Star(q, "precision") = 0
    BY <1>6, <1>8
  <2>5. PrecisionEnd(q) + 1 = WidthEnd(q) + 1
    BY <1>4, <2>1
  <2> QED BY <1>3, <1>8, <2>3, <2>4, <2>5
<1>9. ASSUME "precision" \notin q.star, fmt[x.p] = ".", fmt[k] \in Digits,
             NEW n \in Nat, n = RunOf(Digits, k), q.precision = SkipAtoi(k), k + n = PrecisionEnd(q) + 1
      PROVE  Precision(x) = Read4(PrecisionEnd(q) + 1, t + Star(q, "precision"), f, w, q.precision, " ")
  <2>1. Precision(x) = [x EXCEPT !.p = k + n, !.precision = q.precision]
    BY <1>4, <1>9 DEF Precision
  <2> DEFINE j == k + n
  <2>2. PICK y : y = [x EXCEPT !.p = j]
    OBVIOUS
  <2>3. Precision(x) = [y EXCEPT !.precision = q.precision]
    BY <2>1, <2>2
  <2> HIDE DEF j
  <2>4. y = Read4(j, t, f, w, Absent, " ")
    BY <1>3, <2>2 DEF Read4
  <2>5. Precision(x) = Read4(j, t, f, w, q.precision, " ")
    BY <2>3, <2>4 DEF Read4
  <2>6. j = PrecisionEnd(q) + 1 /\ t + Star(q, "precision") = t
    BY <1>6, <1>9 DEF j
  <2> QED BY <2>5, <2>6
<1>10. CASE /\ "precision" \notin q.star /\ q.precision \in 0..9
            /\ PrecisionText(q) = <<".", DigitChar(q.precision)>>
  <2> DEFINE d == q.precision
  <2>1. fmt[x.p] = "." /\ fmt[k] = DigitChar(d) /\ k + 1 = PrecisionEnd(q) + 1 /\ d \in 0..9
    <3>1. Len(PrecisionText(q)) = 2 /\ PrecisionText(q)[1] = "." /\ PrecisionText(q)[2] = DigitChar(d)
      BY <1>10
    <3>2. fmt[WidthEnd(q) + 1] = "." /\ fmt[WidthEnd(q) + 2] = DigitChar(d)
      BY <1>2, <3>1 DEF Stands
    <3> DEFINE l == Len(PrecisionText(q))
    <3>3. l = 2 /\ PrecisionEnd(q) = WidthEnd(q) + l /\ d \in 0..9
      BY <1>1, <1>10, <3>1
    <3> HIDE DEF l, d
    <3>4. k + 1 = PrecisionEnd(q) + 1 /\ WidthEnd(q) + 2 = k
      BY <1>1, <3>3
    <3> QED BY <1>4, <3>2, <3>3, <3>4
  <2>2. k + 1 <= Len(fmt) /\ fmt[k + 1] \notin Digits
    BY <1>1, <1>2, <1>5, <2>1
  <2>3. RunOf(Digits, k) = 1 /\ SkipAtoi(k) = d
    <3> HIDE DEF d
    <3> QED BY <1>1, <2>1, <2>2, NumberRead
  <2>4. fmt[k] \in Digits
    BY <2>1, DigitFacts
  <2> QED BY <1>3, <1>9, <1>10, <2>1, <2>3, <2>4
<1>11. CASE /\ "precision" \notin q.star
            /\ \E d \in 1..9, e \in 0..9 :
                 /\ q.precision = d * 10 + e
                 /\ PrecisionText(q) = <<".", DigitChar(d), DigitChar(e)>>
  <2>1. PICK d \in 1..9, e \in 0..9 : /\ q.precision = d * 10 + e
                                      /\ PrecisionText(q) = <<".", DigitChar(d), DigitChar(e)>>
    BY <1>11
  <2>2. /\ fmt[x.p] = "." /\ fmt[k] = DigitChar(d) /\ fmt[k + 1] = DigitChar(e)
        /\ k + 2 = PrecisionEnd(q) + 1 /\ d \in 0..9
    <3>1. /\ Len(PrecisionText(q)) = 3 /\ PrecisionText(q)[1] = "."
          /\ PrecisionText(q)[2] = DigitChar(d) /\ PrecisionText(q)[3] = DigitChar(e)
      BY <2>1
    <3>2. /\ fmt[WidthEnd(q) + 1] = "." /\ fmt[WidthEnd(q) + 2] = DigitChar(d)
          /\ fmt[WidthEnd(q) + 3] = DigitChar(e)
      BY <1>2, <3>1 DEF Stands
    <3> DEFINE l == Len(PrecisionText(q))
    <3>3. l = 3 /\ PrecisionEnd(q) = WidthEnd(q) + l
      BY <1>1, <3>1
    <3> HIDE DEF l
    <3>4. WidthEnd(q) + 3 = k + 1 /\ k + 2 = PrecisionEnd(q) + 1 /\ WidthEnd(q) + 2 = k
      BY <1>1, <3>3
    <3>5. x.p = WidthEnd(q) + 1 /\ d \in 0..9
      BY <1>4
    <3> QED BY <3>2, <3>4, <3>5
  <2>3. k + 2 <= Len(fmt) /\ fmt[k + 2] \notin Digits
    BY <1>1, <1>2, <1>5, <2>2
  <2>4. RunOf(Digits, k) = 2 /\ SkipAtoi(k) = d * 10 + e
    BY <1>1, <2>2, <2>3, NumberRead
  <2>5. fmt[k] \in Digits
    BY <2>2, DigitFacts
  <2> QED BY <1>3, <1>9, <1>11, <2>1, <2>2, <2>4, <2>5
<1> QED BY <1>3, <1>7, <1>8, <1>10, <1>11, PrecisionTexts

QualifierOf(q) == IF q.qualifier = <<>> THEN " " ELSE q.qualifier[1]

LEMMA QualifierRead ==
  ASSUME NEW q, IsPiece(q), ~q.plain, Meets(q), NEW t, NEW f, NEW w, NEW r
  PROVE  Qualifier(Read4(PrecisionEnd(q) + 1, t, f, w, r, " "))
           = Read4(QualifierEnd(q) + 1, t, f, w, r, QualifierOf(q))
<1> DEFINE x == Read4(PrecisionEnd(q) + 1, t, f, w, r, " ")
           k == PrecisionEnd(q) + 1
<1>1. PrecisionEnd(q) \in Nat /\ QualifierEnd(q) = PrecisionEnd(q) + Len(q.qualifier)
  BY Lengths
<1>2. /\ Stands(fmt, PrecisionEnd(q), q.qualifier) /\ fmt[QualifierEnd(q) + 1] = q.conv
      /\ Len(q.qualifier) = 0 => q.conv \notin {"h", "l", "q"}
  BY PartsStand, PartsEnd
<1>3. q.qualifier \in {<<>>, <<"h">>, <<"l">>, <<"q">>}
  BY DEF IsPiece
<1>4. x = Read4(k, t, f, w, r, " ")
  OBVIOUS
<1>5. k = PrecisionEnd(q) + 1
  OBVIOUS
<1> HIDE DEF x, k
<1>6. x.p = k
  BY <1>4 DEF Read4
<1>7. CASE q.qualifier = <<>>
  <2>1. Len(q.qualifier) = 0
    BY <1>7
  <2>2. fmt[k] \notin {"h", "l", "q"} /\ QualifierEnd(q) + 1 = k
    BY <1>1, <1>2, <1>5, <2>1
  <2>3. Qualifier(x) = x
    BY <1>6, <2>2 DEF Qualifier
  <2> QED BY <1>4, <1>7, <2>2, <2>3 DEF QualifierOf, x
<1>8. CASE q.qualifier # <<>>
  <2>1. Len(q.qualifier) = 1 /\ q.qualifier[1] \in {"h", "l", "q"}
    BY <1>3, <1>8
  <2>2. fmt[k] = q.qualifier[1]
    BY <1>2, <1>5, <2>1 DEF Stands
  <2>3. Qualifier(x) = [x EXCEPT !.p = k + 1, !.qualifier = q.qualifier[1]]
    BY <1>6, <2>1, <2>2 DEF Qualifier
  <2> DEFINE j == k + 1
             c == q.qualifier[1]
  <2>4. PICK y : y = [x EXCEPT !.p = j]
    OBVIOUS
  <2>5. Qualifier(x) = [y EXCEPT !.qualifier = c]
    BY <2>3, <2>4
  <2> HIDE DEF j, c
  <2>6. y = Read4(j, t, f, w, r, " ")
    BY <1>4, <2>4 DEF Read4
  <2>7. Qualifier(x) = Read4(j, t, f, w, r, c)
    BY <2>5, <2>6 DEF Read4
  <2>8. j = QualifierEnd(q) + 1
    BY <1>1, <1>5, <2>1 DEF j
  <2>9. c = QualifierOf(q)
    BY <1>8 DEF QualifierOf, c
  <2> QED BY <2>7, <2>8, <2>9 DEF x
<1> QED BY <1>7, <1>8

(* What vsprintf makes of a conversion, and that it then stands at its last *)
(* character and before the argument that it writes.                        *)
AsRead(q) ==
  Read4(QualifierEnd(q) + 1, taken + Stars(q), FlagsOf(q), WidthOf(q), q.precision, QualifierOf(q))

LEMMA ConversionIs ==
  ASSUME NEW q, IsPiece(q), ~q.plain, Meets(q), NEW x \in Conversion
  PROVE  x = AsRead(q)
<1> DEFINE b == [p |-> p + 1, taken |-> taken, flags |-> {}, width |-> Absent,
                 precision |-> Absent, qualifier |-> " "]
           y == Flags(b)
           z == FieldWidth(y)
           u == Precision(z)
<1>1. x = Qualifier(u)
  BY DEF Conversion
<1>2. y = Read4(FlagsEnd(q) + 1, taken, FlagSet(q), Absent, Absent, " ")
  BY FlagsRead DEF Read4
<1> HIDE DEF y
<1>3. z = Read4(WidthEnd(q) + 1, taken + Star(q, "width"), FlagsOf(q), WidthOf(q), Absent, " ")
  BY <1>2, WidthRead
<1> HIDE DEF z
<1>4. Star(q, "width") \in Nat /\ Star(q, "precision") \in Nat /\ taken \in Nat
  BY Lengths DEF Star
<1>5. u = Read4(PrecisionEnd(q) + 1, taken + Star(q, "width") + Star(q, "precision"),
                FlagsOf(q), WidthOf(q), q.precision, " ")
  <2>1. taken + Star(q, "width") \in Nat
    BY <1>4
  <2> QED BY <1>3, <2>1, PrecisionRead
<1> HIDE DEF u
<1>6. Qualifier(u) = Read4(QualifierEnd(q) + 1, taken + Star(q, "width") + Star(q, "precision"),
                           FlagsOf(q), WidthOf(q), q.precision, QualifierOf(q))
  BY <1>5, QualifierRead
<1>7. taken + Star(q, "width") + Star(q, "precision") = taken + Stars(q)
  BY <1>4 DEF Stars
<1> QED BY <1>1, <1>6, <1>7 DEF AsRead

-----------------------------------------------------------------------------
(* Texts in their fields. *)
LEMMA TimesType2 ==
  ASSUME NEW n \in Nat, NEW c \in Int
  PROVE  Times(n, c) \in Seq(Int) /\ Len(Times(n, c)) = n /\ \A k \in 1..n : Times(n, c)[k] = c
  BY DEF Times

LEMMA FieldHolds ==
  ASSUME NEW q, NEW s \in Seq(Int), WidthOf(q) \in Int, NEW x, x.width = WidthOf(q), x.flags = FlagsOf(q)
  PROVE  Holds(q, InField(x, s), s)
<1> DEFINE w == WidthOf(q)
           l == Len(s)
           m == IF w > l THEN w - l ELSE 0
           blanks == Times(m, Space)
           field == InField(x, s)
           left == "-" \in FlagsOf(q)
<1>1. l \in Nat /\ w \in Int
  OBVIOUS
<1>2. m \in Nat /\ l + m >= w /\ (l + m = l \/ (l + m > l /\ l + m = w))
  <2> HIDE DEF w, l
  <2> QED BY <1>1
<1>3. Space \in Int
  BY DEF Space
<1>4. blanks \in Seq(Int) /\ Len(blanks) = m /\ \A k \in 1..m : blanks[k] = Space
  <2> HIDE DEF m
  <2> QED BY <1>2, <1>3, TimesType2
<1>5. field = IF left THEN s \o blanks ELSE blanks \o s
  BY DEF InField
<1>6. \A u, v \in Seq(Int) : /\ Len(u \o v) = Len(u) + Len(v)
                             /\ \A j \in 1 .. Len(u) + Len(v) :
                                  (u \o v)[j] = IF j <= Len(u) THEN u[j] ELSE v[j - Len(u)]
  BY ConcatProperties
<1> HIDE DEF m, blanks, field, left, w
<1>7. Len(field) = l + m
  <2>1. CASE left
    BY <1>4, <1>5, <1>6, <2>1
  <2>2. CASE ~left
    <3>1. Len(field) = m + l
      BY <1>4, <1>5, <1>6, <2>2
    <3> QED BY <1>1, <1>2, <3>1
  <2> QED BY <2>1, <2>2
<1> DEFINE first == IF left THEN 0 ELSE (l + m) - l
<1>8. ASSUME NEW k \in 1 .. l + m
      PROVE  field[k] = IF k - first \in 1..l THEN s[k - first] ELSE Space
  <2>1. CASE left
    <3>1. field[k] = IF k <= l THEN s[k] ELSE blanks[k - l]
      BY <1>4, <1>5, <1>6, <2>1
    <3>2. k - first = k
      BY <1>1, <1>2, <2>1
    <3>3. CASE k <= l
      BY <1>1, <3>1, <3>2, <3>3
    <3>4. CASE ~(k <= l)
      <4>1. k - l \in 1..m /\ k \notin 1..l
        BY <1>1, <1>2, <3>4
      <4> HIDE DEF first, l
      <4> QED BY <1>4, <3>1, <3>2, <3>4, <4>1
    <3> QED BY <3>3, <3>4
  <2>2. CASE ~left
    <3>1. field[k] = IF k <= m THEN blanks[k] ELSE s[k - m]
      <4>1. k \in 1 .. m + l
        BY <1>1, <1>2
      <4> QED BY <1>4, <1>5, <1>6, <2>2, <4>1
    <3>2. first = m
      BY <1>1, <1>2, <2>2
    <3>3. CASE k <= m
      <4>1. k \in 1..m /\ k - m \notin 1..l
        BY <1>1, <1>2, <3>3
      <4> QED BY <1>4, <3>1, <3>2, <3>3, <4>1
    <3>4. CASE ~(k <= m)
      <4>1. k - m \in 1..l
        BY <1>1, <1>2, <3>4
      <4> HIDE DEF first, l
      <4> QED BY <3>1, <3>2, <3>4, <4>1
    <3> QED BY <3>3, <3>4
  <2> QED BY <2>1, <2>2
<1>9. Holds(q, field, s)
  <2> HIDE DEF l
  <2>1. Len(field) = l \/ (Len(field) > l /\ Len(field) = w)
    BY <1>2, <1>7
  <2>2. Len(field) >= w
    BY <1>2, <1>7
  <2>3. \A k \in 1 .. Len(field) :
          LET f == IF left THEN 0 ELSE Len(field) - l
          IN  field[k] = IF k - f \in 1..l THEN s[k - f] ELSE Space
    BY <1>7, <1>8
  <2> QED BY <2>1, <2>2, <2>3 DEF Holds, l, w, left
<1> QED BY <1>9 DEF field

LEMMA WidthType ==
  ASSUME NEW q, IsPiece(q), ~q.plain
  PROVE  /\ WidthOf(q) \in {Absent} \cup Nat /\ q.precision \in {Absent} \cup Nat
         /\ FlagsOf(q) \subseteq FlagChars
<1>1. /\ IF "width" \in q.star THEN q.width \in Int ELSE q.width \in {Absent} \cup 1..99
      /\ IF "precision" \in q.star THEN q.precision \in Nat ELSE q.precision \in {Absent} \cup 0..99
      /\ q.flags \in Seq(FlagChars)
  BY DEF IsPiece
<1>2. WidthOf(q) \in {Absent} \cup Nat
  <2> DEFINE w == q.width
             star == "width" \in q.star
             v == IF star /\ w < 0 THEN -w ELSE w
  <2>1. IF star THEN w \in Int ELSE w = Absent \/ w \in 1..99
    BY <1>1
  <2>2. WidthOf(q) = v
    BY DEF WidthOf
  <2> HIDE DEF w, star
  <2>3. CASE star
    <3>1. w \in Int
      BY <2>1, <2>3
    <3>2. v \in Nat
      BY <2>3, <3>1
    <3> QED BY <2>2, <3>2
  <2>4. CASE ~star
    <3>1. v = w
      BY <2>4
    <3>2. w = Absent \/ w \in Nat
      BY <2>1, <2>4
    <3> QED BY <2>2, <3>1, <3>2
  <2> QED BY <2>3, <2>4
<1>3. q.precision \in {Absent} \cup Nat
  <2> DEFINE r == q.precision
             star == "precision" \in q.star
  <2>1. IF star THEN r \in Nat ELSE r = Absent \/ r \in 0..99
    BY <1>1
  <2> HIDE DEF r, star
  <2>2. r = Absent \/ r \in Nat
    BY <2>1
  <2> QED BY <2>2 DEF r
<1>4. \A j \in DOMAIN q.flags : q.flags[j] \in FlagChars
  BY <1>1
<1>5. "-" \in FlagChars
  BY DEF FlagChars
<1>6. FlagsOf(q) \subseteq FlagChars
  BY <1>4, <1>5 DEF FlagsOf
<1> QED BY <1>2, <1>3, <1>6

(* What number() is called for. *)
LEMMA AskedIs ==
  ASSUME NEW q, IsPiece(q), ~q.plain, Meets(q), q.conv \in IntegerChars
  PROVE  IntegerOf(AsRead(q), q.conv) = Asked(q) /\ Asked(q) \in Conversions
<1> DEFINE x == AsRead(q)
<1>1. /\ x.taken = taken + Stars(q) /\ x.flags = FlagsOf(q) /\ x.width = WidthOf(q)
      /\ x.precision = q.precision /\ x.qualifier = QualifierOf(q)
  BY DEF AsRead, Read4
<1> HIDE DEF x
<1>2. q.conv \in Takes /\ q.conv \in {"d", "i", "u", "o", "x", "X", "p"}
  BY DEF Takes, IntegerChars
<1>3. args[x.taken + 1].int = q.val
  <2>1. args[taken + Stars(q) + 1] = [int |-> q.val, str |-> q.str]
    BY <1>2, ArgsStand
  <2> DEFINE v == [int |-> q.val, str |-> q.str]
  <2>2. v.int = q.val
    OBVIOUS
  <2> HIDE DEF v
  <2>3. args[taken + Stars(q) + 1] = v
    BY <2>1 DEF v
  <2> QED BY <1>1, <2>2, <2>3
<1>4. (q.conv # "p" /\ x.qualifier = "h") = (q.qualifier = <<"h">> /\ q.conv # "p")
  <2>1. q.qualifier \in {<<>>, <<"h">>, <<"l">>, <<"q">>}
    BY DEF IsPiece
  <2>2. q.qualifier = <<"h">> <=> QualifierOf(q) = "h"
    BY <2>1 DEF QualifierOf
  <2> QED BY <1>1, <2>2
<1>5. (q.conv = "p" /\ x.width = Absent) <=> Pointer(q)
  <2>1. IF "width" \in q.star THEN q.width \in Int ELSE q.width \in {Absent} \cup 1..99
    BY DEF IsPiece
  <2>2. WidthOf(q) = Absent <=> "width" \notin q.star /\ q.width = Absent
    BY <2>1 DEF WidthOf, Absent
  <2> QED BY <1>1, <2>2 DEF Pointer
<1>6. (IF q.conv = "i" THEN "d" ELSE IF q.conv = "p" THEN "x" ELSE q.conv) =
        CASE q.conv \in {"d", "i"} -> "d"
          [] q.conv \in {"x", "p"} -> "x"
          [] q.conv \in {"u", "o", "X"} -> q.conv
  <2>1. CASE q.conv \in {"d", "i"}
    BY <2>1
  <2>2. CASE q.conv \in {"x", "p"}
    BY <2>2
  <2>3. CASE q.conv \in {"u", "o", "X"}
    BY <2>3
  <2> QED BY <1>2, <2>1, <2>2, <2>3
<1>7. (IF q.conv = "i" THEN "d" ELSE IF q.conv = "p" THEN "x" ELSE q.conv) \in {"d", "u", "o", "x", "X"}
  BY <1>2
<1> DEFINE c == IF q.conv = "i" THEN "d" ELSE IF q.conv = "p" THEN "x" ELSE q.conv
           h == q.qualifier = <<"h">> /\ q.conv # "p"
           w == IF Pointer(q) THEN Bits \div 4 ELSE WidthOf(q)
           f == FlagsOf(q) \cup (IF Pointer(q) THEN {"0"} ELSE {})
           v == q.val % Bit[Bits]
<1>8. Asked(q) = [conv |-> c, half |-> h, width |-> w, precision |-> q.precision, flags |-> f, val |-> v]
  BY <1>6 DEF Asked
<1>9. IntegerOf(x, q.conv) =
        [conv |-> c, half |-> h, width |-> w, precision |-> q.precision, flags |-> f, val |-> v]
  <2>1. (q.conv # "p" /\ x.qualifier = "h") = h
    BY <1>4
  <2>2. (IF q.conv = "p" /\ x.width = Absent THEN Bits \div 4 ELSE x.width) = w
    BY <1>1, <1>5
  <2>3. (IF q.conv = "p" /\ x.width = Absent THEN x.flags \cup {"0"} ELSE x.flags) = f
    BY <1>1, <1>5
  <2>4. IntegerOf(x, q.conv) =
          [conv |-> c, half |-> (q.conv # "p" /\ x.qualifier = "h"),
           width |-> (IF q.conv = "p" /\ x.width = Absent THEN Bits \div 4 ELSE x.width),
           precision |-> x.precision,
           flags |-> (IF q.conv = "p" /\ x.width = Absent THEN x.flags \cup {"0"} ELSE x.flags),
           val |-> args[x.taken + 1].int % Bit[Bits]]
    BY DEF IntegerOf
  <2> HIDE DEF c, h, w, f
  <2> QED BY <1>1, <1>3, <2>1, <2>2, <2>3, <2>4
<1>10. Asked(q) \in Conversions
  <2>1. h \in BOOLEAN
    OBVIOUS
  <2>2. w \in {Absent} \cup Nat
    <3>1. Bits \div 4 \in Nat
      BY BitsAssumption
    <3> QED BY <3>1, WidthType
  <2>3. f \in SUBSET {"-", "+", " ", "#", "0"}
    BY WidthType DEF FlagChars
  <2>4. v \in Word
    <3>1. q.val \in Int
      BY DEF IsPiece
    <3>2. Bit[Bits] \in Nat \ {0}
      BY BitType, BitsAssumption
    <3> DEFINE m == Bit[Bits]
    <3> HIDE DEF m
    <3>3. q.val % m \in 0 .. m - 1
      BY <3>1, <3>2 DEF m
    <3> QED BY <3>3 DEF m, Word
  <2>5. q.precision \in {Absent} \cup Nat
    BY WidthType
  <2>6. c \in {"d", "u", "o", "x", "X"}
    BY <1>7
  <2> DEFINE r == q.precision
             absent == {Absent} \cup Nat
  <2>7. r \in absent /\ w \in absent
    BY <2>2, <2>5
  <2> HIDE DEF c, h, w, f, v, r, absent
  <2>8. [conv |-> c, half |-> h, width |-> w, precision |-> r, flags |-> f, val |-> v]
          \in [conv : {"d", "u", "o", "x", "X"}, half : BOOLEAN, width : absent,
              precision : absent, flags : SUBSET {"-", "+", " ", "#", "0"}, val : Word]
    BY <2>1, <2>3, <2>4, <2>6, <2>7
  <2>9. Conversions = [conv : {"d", "u", "o", "x", "X"}, half : BOOLEAN, width : absent,
                       precision : absent, flags : SUBSET {"-", "+", " ", "#", "0"}, val : Word]
    BY DEF Conversions, absent
  <2> QED BY <1>8, <2>8, <2>9 DEF r
<1> QED BY <1>8, <1>9, <1>10 DEF x

(* The format and the arguments are those of the pieces, one after the other. *)
LEMMA TextType ==
  ASSUME NEW q, IsPiece(q)
  PROVE  TextOf(q) \in Seq(Letters(q))
<1>1. CASE q.plain
  <2>1. q.conv \in Letters(q)
    BY DEF Letters
  <2>2. <<q.conv>> \in Seq(Letters(q))
    BY <2>1
  <2> QED BY <1>1, <2>2 DEF TextOf
<1>2. CASE ~q.plain
  <2> DEFINE A == Letters(q)
             a == <<"%">>
             b == q.flags
             c == WidthText(q)
             d == PrecisionText(q)
             e == q.qualifier
             z == ConvText(q)
  <2>1. /\ a \in Seq(A) /\ b \in Seq(A) /\ c \in Seq(A) /\ d \in Seq(A) /\ e \in Seq(A)
        /\ z \in Seq(A)
    BY <1>2, PartTypes
  <2>2. TextOf(q) = a \o b \o c \o d \o e \o z
    BY <1>2 DEF TextOf, WidthText, PrecisionText, ConvText
  <2> HIDE DEF A, a, b, c, d, e, z
  <2>3. a \o b \o c \o d \o e \o z \in Seq(A)
    BY <2>1, SixParts DEF Joins
  <2> QED BY <2>2, <2>3 DEF A
<1> QED BY <1>1, <1>2 DEF IsPiece

Arguments == [int : Int, str : Seq(Int)]

LEMMA ArgsType ==
  ASSUME NEW q, IsPiece(q)
  PROVE  ArgsOf(q) \in Seq(Arguments)
<1> DEFINE a == IF "width" \in q.star THEN <<[int |-> q.width, str |-> <<>>]>> ELSE <<>>
           b == IF "precision" \in q.star THEN <<[int |-> q.precision, str |-> <<>>]>> ELSE <<>>
           c == IF ~q.plain /\ q.conv \in Takes THEN <<[int |-> q.val, str |-> q.str]>> ELSE <<>>
<1>1. ArgsOf(q) = a \o b \o c
  BY DEF ArgsOf
<1>2. \A i \in Int, s \in Seq(Int) : <<[int |-> i, str |-> s]>> \in Seq(Arguments)
  BY DEF Arguments
<1>3. <<>> \in Seq(Int) /\ <<>> \in Seq(Arguments)
  OBVIOUS
<1>4. a \in Seq(Arguments)
  <2>1. "width" \in q.star => q.width \in Int
    BY DEF IsPiece
  <2> QED BY <1>2, <1>3, <2>1
<1>5. b \in Seq(Arguments)
  <2>1. "precision" \in q.star => q.precision \in Int
    <3>1. "precision" \in q.star => ~q.plain
      BY DEF IsPiece
    <3>2. "precision" \in q.star /\ ~q.plain => q.precision \in Nat
      BY DEF IsPiece
    <3> QED BY <3>1, <3>2
  <2> QED BY <1>2, <1>3, <2>1
<1>6. c \in Seq(Arguments)
  <2>1. ~q.plain => q.val \in Int /\ q.str \in Seq(Int)
    BY DEF IsPiece
  <2> QED BY <1>2, <1>3, <2>1
<1> HIDE DEF a, b, c
<1>7. a \o b \o c \in Seq(Arguments)
  BY <1>4, <1>5, <1>6, ThreeParts
<1> QED BY <1>1, <1>7

LEMMA PlainFacts ==
  ASSUME NEW q, IsPiece(q), q.plain
  PROVE  TextOf(q) = <<q.conv>> /\ ArgsOf(q) = <<>> /\ q.conv \notin {"%", Eof}
<1>1. q.star = {} /\ q.conv \notin {"%", Eof}
  BY DEF IsPiece
<1>2. <<>> \o <<>> \o <<>> = <<>>
  OBVIOUS
<1> QED BY <1>1, <1>2 DEF TextOf, ArgsOf

(* What stands at p when k pieces are done with. *)
Texts == [j \in DOMAIN meant |-> TextOf(meant[j])]
Argss == [j \in DOMAIN meant |-> ArgsOf(meant[j])]

Given ==
  /\ IsFormat(meant)
  /\ fmt = Append(TextOfAll(meant), Eof) /\ args = ArgsOfAll(meant)

LEMMA UptoTexts ==
  ASSUME Given
  PROVE  /\ Len(meant) \in Nat /\ Len(Texts) = Len(meant) /\ Len(Argss) = Len(meant)
         /\ \E A : Texts \in Seq(Seq(A))
         /\ Argss \in Seq(Seq(Arguments))
         /\ \A k \in 1 .. Len(meant) : Texts[k] = TextOf(meant[k]) /\ Argss[k] = ArgsOf(meant[k])
         /\ \A k \in 0 .. Len(meant) : /\ TextOfAll(SubSeq(meant, 1, k)) = Upto(Texts, k)
                                       /\ ArgsOfAll(SubSeq(meant, 1, k)) = Upto(Argss, k)
<1> DEFINE n == Len(meant)
           A == UNION {Letters(meant[k]) : k \in DOMAIN meant}
<1>1. n \in Nat /\ DOMAIN meant = 1..n
  BY DEF Given, IsFormat
<1>2. \A k \in 1..n : Texts[k] = TextOf(meant[k]) /\ Argss[k] = ArgsOf(meant[k])
  BY <1>1 DEF Texts, Argss
<1>3. ASSUME NEW k \in 1..n PROVE TextOf(meant[k]) \in Seq(A) /\ ArgsOf(meant[k]) \in Seq(Arguments)
  <2>1. IsPiece(meant[k])
    BY <1>1 DEF Given, IsFormat
  <2>2. TextOf(meant[k]) \in Seq(Letters(meant[k]))
    BY <2>1, TextType
  <2>3. Letters(meant[k]) \subseteq A
    BY <1>1
  <2>4. TextOf(meant[k]) \in Seq(A)
    <3> DEFINE L == Letters(meant[k])
               t == TextOf(meant[k])
    <3> HIDE DEF L, t, A
    <3>1. t \in Seq(L) /\ L \subseteq A
      BY <2>2, <2>3 DEF L, t
    <3>2. t \in Seq(A)
      BY <3>1
    <3> QED BY <3>2 DEF t
  <2> QED BY <2>1, <2>4, ArgsType
<1>4. Texts \in Seq(Seq(A)) /\ Argss \in Seq(Seq(Arguments)) /\ Len(Texts) = n /\ Len(Argss) = n
  <2> HIDE DEF A
  <2>1. Texts = [j \in 1..n |-> TextOf(meant[j])] /\ Argss = [j \in 1..n |-> ArgsOf(meant[j])]
    BY <1>1 DEF Texts, Argss
  <2> HIDE DEF n
  <2>2. [j \in 1..n |-> TextOf(meant[j])] \in Seq(Seq(A))
    BY <1>1, <1>3, IsASeq
  <2>3. [j \in 1..n |-> ArgsOf(meant[j])] \in Seq(Seq(Arguments))
    BY <1>1, <1>3, IsASeq
  <2> QED BY <1>1, <2>1, <2>2, <2>3, LenProperties
<1>5. ASSUME NEW k \in 0..n
      PROVE  TextOfAll(SubSeq(meant, 1, k)) = Upto(Texts, k)
              /\ ArgsOfAll(SubSeq(meant, 1, k)) = Upto(Argss, k)
  <2> DEFINE s == SubSeq(meant, 1, k)
             M == {meant[j] : j \in DOMAIN meant}
  <2>0. meant \in Seq(M)
    BY DEF Given, IsFormat
  <2>1. s \in Seq(M) /\ Len(s) = k /\ DOMAIN s = 1..k /\ \A j \in 1..k : s[j] = meant[j]
    <3> HIDE DEF M
    <3> QED BY <1>1, <2>0, SubSeqProperties
  <2> HIDE DEF s, A, M
  <2>2. SubSeq(Texts, 1, k) = [j \in 1..k |-> TextOf(s[j])]
    <3>1. SubSeq(Texts, 1, k) = [j \in 1..k |-> Texts[j]]
      BY <1>1, <1>4
    <3>2. \A j \in 1..k : Texts[j] = TextOf(s[j])
      BY <1>1, <1>2, <2>1
    <3> QED BY <3>1, <3>2
  <2>3. SubSeq(Argss, 1, k) = [j \in 1..k |-> ArgsOf(s[j])]
    <3>1. SubSeq(Argss, 1, k) = [j \in 1..k |-> Argss[j]]
      BY <1>1, <1>4
    <3>2. \A j \in 1..k : Argss[j] = ArgsOf(s[j])
      BY <1>1, <1>2, <2>1
    <3> QED BY <3>1, <3>2
  <2>4. TextOfAll(s) = Upto(Texts, k) /\ ArgsOfAll(s) = Upto(Argss, k)
    BY <2>1, <2>2, <2>3 DEF TextOfAll, ArgsOfAll, Upto
  <2> QED BY <2>4 DEF s
<1>6. \E S : Texts \in Seq(Seq(S))
  BY <1>4
<1> QED BY <1>1, <1>2, <1>4, <1>5, <1>6

StandsAt(k) == p = 1 + Len(Upto(Texts, k)) /\ taken = Len(Upto(Argss, k))

LEMMA AllOfThem ==
  ASSUME Given
  PROVE  TextOfAll(meant) = FlattenSeq(Texts) /\ ArgsOfAll(meant) = FlattenSeq(Argss)
BY DEF TextOfAll, ArgsOfAll, Texts, Argss

LEMMA MeetsNext ==
  ASSUME Given, NEW k \in 0 .. Len(meant) - 1, StandsAt(k)
  PROVE  LET q == meant[k + 1]
         IN  /\ IsPiece(q) /\ Meets(q)
             /\ 1 + Len(Upto(Texts, k + 1)) = p + Len(TextOf(q))
             /\ Len(Upto(Argss, k + 1)) = taken + Len(ArgsOf(q))
<1> DEFINE q == meant[k + 1]
           n == Len(meant)
           i == k + 1
<1>1. n \in Nat /\ i \in 1..n /\ k \in Nat /\ i - 1 = k /\ DOMAIN meant = 1..n
  <2>1. n \in Nat /\ DOMAIN meant = 1..n
    BY DEF Given, IsFormat
  <2> HIDE DEF n
  <2> QED BY <2>1 DEF n
<1>2. IsPiece(q) /\ (q.conv = Eof => i = n)
  BY <1>1 DEF Given, IsFormat
<1>3. PICK A : Texts \in Seq(Seq(A))
  BY UptoTexts
<1>4. Len(Texts) = n /\ Len(Argss) = n /\ Texts[i] = TextOf(q) /\ Argss[i] = ArgsOf(q)
  BY <1>1, UptoTexts
<1> DEFINE o == Len(Upto(Texts, k))
           u == Len(Upto(Argss, k))
           all == FlattenSeq(Texts)
<1> HIDE DEF n, i
<1>5. /\ o \in Nat /\ Len(Upto(Texts, i)) = o + Len(TextOf(q))
      /\ Len(Upto(Texts, i)) <= Len(all)
      /\ \A j \in 1 .. Len(TextOf(q)) : all[o + j] = TextOf(q)[j]
  <2>1. /\ Len(Upto(Texts, i - 1)) \in Nat
        /\ Len(Upto(Texts, i)) = Len(Upto(Texts, i - 1)) + Len(Texts[i])
        /\ Len(Upto(Texts, i)) <= Len(FlattenSeq(Texts))
        /\ \A j \in 1 .. Len(Texts[i]) :
             FlattenSeq(Texts)[Len(Upto(Texts, i - 1)) + j] = Texts[i][j]
    <3>1. i \in 1 .. Len(Texts)
      BY <1>1, <1>4
    <3> HIDE DEF q
    <3> QED BY <1>3, <3>1, FlatAt
  <2> HIDE DEF q
  <2> QED BY <1>1, <1>4, <2>1
<1>6. /\ u \in Nat /\ Len(Upto(Argss, i)) = u + Len(ArgsOf(q))
      /\ \A j \in 1 .. Len(ArgsOf(q)) : FlattenSeq(Argss)[u + j] = ArgsOf(q)[j]
  <2>1. Argss \in Seq(Seq(Arguments))
    BY UptoTexts
  <2>2. /\ Len(Upto(Argss, i - 1)) \in Nat
        /\ Len(Upto(Argss, i)) = Len(Upto(Argss, i - 1)) + Len(Argss[i])
        /\ \A j \in 1 .. Len(Argss[i]) :
             FlattenSeq(Argss)[Len(Upto(Argss, i - 1)) + j] = Argss[i][j]
    <3>1. i \in 1 .. Len(Argss)
      BY <1>1, <1>4
    <3> HIDE DEF q
    <3> QED BY <2>1, <3>1, FlatAt
  <2> HIDE DEF q
  <2> QED BY <1>1, <1>4, <2>2
<1>7. all \in Seq(A) /\ Upto(Texts, n) = all
  <2>1. n \in 0 .. Len(Texts)
    BY <1>1, <1>4
  <2> QED BY <1>3, <1>4, <2>1, FlatStep
<1>8. fmt = Append(all, Eof) /\ args = FlattenSeq(Argss) /\ p = 1 + o /\ taken = u
  BY AllOfThem DEF Given, StandsAt
<1>9. Len(fmt) = Len(all) + 1 /\ Len(all) \in Nat /\ fmt[Len(all) + 1] = Eof
      /\ \A j \in 1 .. Len(all) : fmt[j] = all[j]
  <2> DEFINE B == A \cup {Eof}
  <2>1. all \in Seq(B) /\ Eof \in B
    BY <1>7
  <2> HIDE DEF B, all
  <2> QED BY <1>8, <2>1, AppendProperties
<1> DEFINE t == TextOf(q)
           l == Len(t)
<1>10. l \in Nat
  BY <1>2, TextType
<1> HIDE DEF o, u, all, q, t, l
<1>11. p - 1 = o /\ p \in Nat \ {0} /\ taken \in Nat /\ p + l <= Len(fmt)
  BY <1>5, <1>6, <1>8, <1>9, <1>10 DEF t, l
<1>12. Stands(fmt, p - 1, t)
  <2> SUFFICES ASSUME NEW j \in 1..l PROVE fmt[o + j] = t[j]
    BY <1>11 DEF Stands, l
  <2>1. o + j \in 1 .. Len(all)
    BY <1>5, <1>9, <1>10 DEF t, l
  <2> QED BY <1>5, <1>9, <2>1 DEF t, l
<1>13. q.conv = Eof => fmt[p + l] = Eof
  <2> SUFFICES ASSUME q.conv = Eof PROVE fmt[p + l] = Eof
    OBVIOUS
  <2>1. i = n
    BY <1>2
  <2>2. Len(all) = o + l
    BY <1>5, <1>7, <2>1 DEF t, l
  <2>3. p + l = Len(all) + 1
    BY <1>5, <1>8, <1>10, <2>2
  <2> QED BY <1>9, <2>3
<1>14. Stands(args, taken, ArgsOf(q))
  BY <1>6, <1>8 DEF Stands
<1>15. Meets(q)
  BY <1>9, <1>11, <1>12, <1>13, <1>14 DEF Meets, t, l
<1>16. /\ 1 + Len(Upto(Texts, k + 1)) = p + Len(TextOf(q))
       /\ Len(Upto(Argss, k + 1)) = taken + Len(ArgsOf(q))
  <2>1. 1 + Len(Upto(Texts, i)) = p + l
    <3>1. Len(Upto(Texts, i)) = o + l
      BY <1>5 DEF t, l
    <3> QED BY <1>5, <1>8, <1>10, <3>1
  <2>2. Len(Upto(Argss, i)) = taken + Len(ArgsOf(q))
    BY <1>6, <1>8
  <2> QED BY <2>1, <2>2 DEF i, t, l
<1> QED BY <1>2, <1>15, <1>16 DEF q

LEMMA MeetsEnd ==
  ASSUME Given, StandsAt(Len(meant))
  PROVE  fmt[p] = Eof
<1>1. PICK A : Texts \in Seq(Seq(A))
  BY UptoTexts
<1>2. Len(meant) \in Nat /\ Len(Texts) = Len(meant)
  BY UptoTexts
<1> DEFINE all == FlattenSeq(Texts)
           n == Len(Texts)
<1>3. all \in Seq(A) /\ Upto(Texts, n) = all
  <2>1. n \in 0 .. Len(Texts)
    BY <1>2
  <2> QED BY <1>1, <2>1, FlatStep
<1>4. fmt = Append(all, Eof) /\ p = 1 + Len(all)
  BY <1>2, <1>3, AllOfThem DEF Given, StandsAt
<1> DEFINE B == A \cup {Eof}
<1>5. all \in Seq(B) /\ Eof \in B
  BY <1>3
<1> HIDE DEF B, all
<1> QED BY <1>4, <1>5, AppendProperties

(* What vsprintf does with the piece it has come to. *)
Stores(q) == ~q.plain /\ q.conv = "n"

Moves(q) ==
  /\ p' = p + Len(TextOf(q)) /\ taken' = taken + Len(ArgsOf(q))
  /\ UNCHANGED <<meant, fmt, args>>
Writes(q, field) ==
  /\ fields' = Append(fields, field) /\ FieldRight(q, field)
  /\ counts' = IF Stores(q) THEN Append(counts, Len(Written)) ELSE counts
  /\ stage' = stage /\ Moves(q)
  /\ UNCHANGED <<udivVars, numberVars>>
Calls(q) ==
  /\ ~q.plain /\ q.conv \in IntegerChars
  /\ Asked(q) \in Conversions /\ NumberCall(Asked(q))
  /\ stage' = "number" /\ Moves(q)
  /\ UNCHANGED <<fields, counts>>

LEMMA LiteralWrites ==
  ASSUME NEW q, IsPiece(q), Meets(q), Literal
  PROVE  Writes(q, <<CodeOf[q.conv]>>)
<1>1. q.plain
  <2>1. fmt[p] # "%"
    BY DEF Literal
  <2>2. ~q.plain => fmt[p] = "%"
    BY PartsStand
  <2> QED BY <2>1, <2>2 DEF IsPiece
<1>2. TextOf(q) = <<q.conv>> /\ ArgsOf(q) = <<>>
  BY <1>1, PlainFacts
<1>3. fmt[p] = q.conv /\ p \in Nat /\ taken \in Nat
  <2>1. Len(<<q.conv>>) = 1 /\ <<q.conv>>[1] = q.conv
    OBVIOUS
  <2>2. fmt[p - 1 + 1] = <<q.conv>>[1] /\ p \in Nat
    BY <1>2, <2>1 DEF Meets, Stands
  <2>3. p - 1 + 1 = p
    BY <2>2
  <2> QED BY <2>1, <2>2, <2>3 DEF Meets
<1> DEFINE x == [p |-> p, taken |-> taken]
<1>4. x.p = p /\ x.taken = taken
  OBVIOUS
<1>5. Emit(x, <<CodeOf[fmt[p]]>>, 0) /\ UNCHANGED counts
  BY DEF Literal
<1> HIDE DEF x
<1>6. /\ fields' = Append(fields, <<CodeOf[q.conv]>>) /\ p' = p + 1 /\ taken' = taken + 0
      /\ UNCHANGED <<stage, meant, fmt, args, counts, udivVars, numberVars>>
  BY <1>3, <1>4, <1>5 DEF Emit
<1>7. Len(TextOf(q)) = 1 /\ Len(ArgsOf(q)) = 0
  BY <1>2
<1> QED BY <1>1, <1>6, <1>7 DEF Writes, Moves, FieldRight, Stores

LEMMA Emitted ==
  ASSUME NEW q, IsPiece(q), ~q.plain, Meets(q), NEW field, NEW x, NEW used,
         x.p = (QualifierEnd(q) + 1) - (IF q.conv = Eof THEN 1 ELSE 0), x.taken = taken + Stars(q),
         used = IF q.conv \in Takes THEN 1 ELSE 0,
         Emit(x, field, used), FieldRight(q, field),
         counts' = IF Stores(q) THEN Append(counts, Len(Written)) ELSE counts
  PROVE  Writes(q, field)
<1> DEFINE k == QualifierEnd(q)
           s == Stars(q)
           t == p + Len(TextOf(q))
           a == Len(ArgsOf(q))
           end == IF q.conv = Eof THEN 1 ELSE 0
<1>1. t = k + 1 + (IF q.conv = Eof THEN 0 ELSE 1) /\ a = s + used
  BY PartsStand, ArgsStand
<1>2. k \in Nat /\ taken \in Nat /\ s \in Nat /\ used \in Nat
  <2>1. used \in Nat /\ Star(q, "width") \in Nat /\ Star(q, "precision") \in Nat
    BY DEF Star
  <2>2. s \in Nat
    BY <2>1 DEF Stars
  <2> HIDE DEF k, s
  <2> QED BY <2>1, <2>2, Lengths DEF k
<1>3. /\ fields' = Append(fields, field) /\ p' = x.p + 1 /\ taken' = x.taken + used
      /\ UNCHANGED <<stage, meant, fmt, args, udivVars, numberVars>>
  BY DEF Emit
<1>4. x.p = (k + 1) - end /\ x.taken = taken + s
  OBVIOUS
<1> HIDE DEF k, s, t, a
<1>5. p' = t
  BY <1>1, <1>2, <1>3, <1>4
<1>6. taken' = taken + a
  BY <1>1, <1>2, <1>3, <1>4
<1> QED BY <1>3, <1>5, <1>6 DEF Writes, Moves, t, a

LEMMA ReadFields ==
  ASSUME NEW q
  PROVE  /\ AsRead(q).p = QualifierEnd(q) + 1 /\ AsRead(q).taken = taken + Stars(q)
         /\ AsRead(q).flags = FlagsOf(q) /\ AsRead(q).width = WidthOf(q)
         /\ AsRead(q).precision = q.precision
         /\ [AsRead(q) EXCEPT !.p = @ - 1].p = (QualifierEnd(q) + 1) - 1
         /\ [AsRead(q) EXCEPT !.p = @ - 1].taken = taken + Stars(q)
<1> DEFINE k == QualifierEnd(q) + 1
           t == taken + Stars(q)
           f == FlagsOf(q)
           w == WidthOf(q)
           r == q.precision
           l == QualifierOf(q)
           x == [p |-> k, taken |-> t, flags |-> f, width |-> w, precision |-> r, qualifier |-> l]
<1>1. AsRead(q) = x
  BY DEF AsRead, Read4
<1> HIDE DEF k, t, f, w, r, l
<1>2. x.p = k /\ x.taken = t /\ x.flags = f /\ x.width = w /\ x.precision = r
  OBVIOUS
<1>3. [x EXCEPT !.p = @ - 1].p = k - 1 /\ [x EXCEPT !.p = @ - 1].taken = t
  OBVIOUS
<1> DEFINE y == AsRead(q)
<1> HIDE DEF x, y
<1>4. y = x
  BY <1>1 DEF y
<1>5. y.p = k /\ y.taken = t /\ y.flags = f /\ y.width = w /\ y.precision = r
  BY <1>2, <1>4
<1>6. [y EXCEPT !.p = @ - 1].p = k - 1 /\ [y EXCEPT !.p = @ - 1].taken = t
  BY <1>3, <1>4
<1>7. k - 1 = (QualifierEnd(q) + 1) - 1
  BY DEF k
<1> QED BY <1>5, <1>6, <1>7 DEF y, k, t, f, w, r, l

LEMMA StringIs ==
  ASSUME NEW q, IsPiece(q), ~q.plain, Meets(q), q.conv = "s"
  PROVE  LET s == IF q.str = NullString THEN NullText ELSE q.str
         IN  /\ StringArgument(AsRead(q)) = Cut(s, q.precision)
             /\ Cut(s, q.precision) \in Seq(Int)
<1> DEFINE s == IF q.str = NullString THEN NullText ELSE q.str
           x == AsRead(q)
           r == q.precision
<1>1. s \in Seq(Int)
  <2>1. q.str \in Seq(Int)
    BY DEF IsPiece
  <2>2. NullText \in Seq(Int)
    BY DEF NullText, LessThan, GreaterThan
  <2> QED BY <2>1, <2>2
<1>2. x.taken = taken + Stars(q) /\ x.precision = r
  BY ReadFields
<1> HIDE DEF x
<1>3. args[x.taken + 1].str = q.str
  <2>1. q.conv \in Takes
    BY DEF Takes
  <2>2. args[taken + Stars(q) + 1] = [int |-> q.val, str |-> q.str]
    BY <2>1, ArgsStand
  <2> DEFINE v == [int |-> q.val, str |-> q.str]
  <2>3. v.str = q.str
    OBVIOUS
  <2> HIDE DEF v
  <2>4. args[taken + Stars(q) + 1] = v
    BY <2>2 DEF v
  <2> QED BY <1>2, <2>3, <2>4
<1>4. StringArgument(x) = IF r \in 0 .. Len(s) THEN SubSeq(s, 1, r) ELSE s
  BY <1>2, <1>3 DEF StringArgument
<1>5. r = Absent \/ r \in Nat
  BY WidthType
<1>6. Cut(s, r) = IF r \in 0 .. Len(s) THEN SubSeq(s, 1, r) ELSE s
  <2>1. Len(s) \in Nat
    BY <1>1
  <2> HIDE DEF s, r
  <2>2. r \in 0 .. Len(s) <=> ~(r = Absent \/ r > Len(s))
    BY <1>5, <2>1 DEF Absent
  <2> QED BY <2>2 DEF Cut
<1>7. Cut(s, r) \in Seq(Int)
  <2> HIDE DEF s, r
  <2> QED BY <1>1, <1>6, SubSeqProperties
<1> QED BY <1>4, <1>6, <1>7 DEF x

LEMMA FieldRightIs ==
  ASSUME NEW q, ~q.plain, NEW field
  PROVE  LET s == IF q.str = NullString THEN NullText ELSE q.str
         IN  /\ q.conv = "c" => (FieldRight(q, field) <=> Holds(q, field, <<q.val>>))
             /\ q.conv = "s" => (FieldRight(q, field) <=> Holds(q, field, Cut(s, q.precision)))
             /\ q.conv = "n" => (FieldRight(q, field) <=> field = <<>>)
             /\ q.conv \in {"%", Eof} => (FieldRight(q, field) <=> field = <<Percent>>)
             /\ q.conv \in IntegerChars => (FieldRight(q, field) <=> Len(field) >= WidthOf(q))
             /\ q.conv \notin Takes \cup {"%", Eof} =>
                  (FieldRight(q, field) <=> field = <<Percent, CodeOf[q.conv]>>)
<1> DEFINE s == IF q.str = NullString THEN NullText ELSE q.str
           c == q.conv
           character == Holds(q, field, <<q.val>>)
           string == Holds(q, field, Cut(s, q.precision))
           count == field = <<>>
           percent == field = <<Percent>>
           number == Len(field) >= WidthOf(q)
           other == field = <<Percent, CodeOf[c]>>
<1>1. FieldRight(q, field) <=>
        CASE c = "c" -> character [] c = "s" -> string [] c = "n" -> count
          [] c \in {"%", Eof} -> percent [] c \in IntegerChars -> number [] OTHER -> other
  BY DEF FieldRight
<1> HIDE DEF c, character, string, count, percent, number, other
<1>2. c = "c" => (FieldRight(q, field) <=> character)
  BY <1>1 DEF IntegerChars, Eof
<1>3. c = "s" => (FieldRight(q, field) <=> string)
  BY <1>1 DEF IntegerChars, Eof
<1>4. c = "n" => (FieldRight(q, field) <=> count)
  BY <1>1 DEF IntegerChars, Eof
<1>5. c \in {"%", Eof} => (FieldRight(q, field) <=> percent)
  BY <1>1 DEF IntegerChars, Eof
<1>6. c \in IntegerChars => (FieldRight(q, field) <=> number)
  BY <1>1 DEF IntegerChars, Eof
<1>7. c \notin Takes \cup {"%", Eof} => (FieldRight(q, field) <=> other)
  BY <1>1 DEF IntegerChars, Eof, Takes
<1> QED
  BY <1>2, <1>3, <1>4, <1>5, <1>6, <1>7 DEF c, character, string, count, percent, number, other

LEMMA ConvertDoes ==
  ASSUME NEW q, IsPiece(q), Meets(q), Convert
  PROVE  Calls(q) \/ \E field : Writes(q, field)
<1>1. ~q.plain
  <2>1. fmt[p] = "%"
    BY DEF Convert
  <2> SUFFICES ASSUME q.plain PROVE FALSE
    OBVIOUS
  <2>2. TextOf(q) = <<q.conv>> /\ q.conv # "%"
    BY PlainFacts
  <2>3. Len(<<q.conv>>) = 1 /\ <<q.conv>>[1] = q.conv
    OBVIOUS
  <2>4. fmt[p - 1 + 1] = <<q.conv>>[1] /\ p \in Nat
    BY <2>2, <2>3 DEF Meets, Stands
  <2>5. p - 1 + 1 = p
    BY <2>4
  <2> QED BY <2>1, <2>2, <2>3, <2>4, <2>5
<1> DEFINE x == AsRead(q)
           c == q.conv
<1>2. x.p = QualifierEnd(q) + 1 /\ x.taken = taken + Stars(q)
      /\ x.flags = FlagsOf(q) /\ x.width = WidthOf(q)
  BY ReadFields
<1>3. fmt[x.p] = c
  BY <1>1, <1>2, PartsStand
<1>4. \E y \in Conversion : y = x
  <2>1. \A y \in Conversion : y = x
    BY <1>1, ConversionIs
  <2>2. Conversion # {}
    BY DEF Convert
  <2> QED BY <2>1, <2>2
<1>5. \/ c = "c" /\ Emit(x, InField(x, <<args[x.taken + 1].int>>), 1) /\ UNCHANGED counts
      \/ c = "s" /\ Emit(x, InField(x, StringArgument(x)), 1) /\ UNCHANGED counts
      \/ c = "n" /\ Emit(x, <<>>, 1) /\ counts' = Append(counts, Len(Written))
      \/ c = "%" /\ Emit(x, <<Percent>>, 0) /\ UNCHANGED counts
      \/ c = Eof /\ Emit([x EXCEPT !.p = @ - 1], <<Percent>>, 0) /\ UNCHANGED counts
      \/ /\ c \in IntegerChars
         /\ NumberCall(IntegerOf(x, c))
         /\ stage' = "number" /\ p' = x.p + 1 /\ taken' = x.taken + 1
         /\ UNCHANGED <<meant, fmt, args, fields, counts>>
      \/ /\ c \notin Takes \cup {"%", Eof}
         /\ Emit(x, <<Percent, CodeOf[c]>>, 0) /\ UNCHANGED counts
  <2>1. \A y \in Conversion : y = x
    BY <1>1, ConversionIs
  <2> HIDE DEF x
  <2> QED BY <1>3, <2>1 DEF Convert
<1>6. WidthOf(q) \in Int
  BY <1>1, WidthType DEF Absent
<1>7. QualifierEnd(q) \in Nat /\ (QualifierEnd(q) + 1) - 0 = QualifierEnd(q) + 1
  <2>1. QualifierEnd(q) \in Nat
    BY <1>1, Lengths
  <2> QED BY <2>1
<1>8. [x EXCEPT !.p = @ - 1].p = (QualifierEnd(q) + 1) - 1 /\ [x EXCEPT !.p = @ - 1].taken = taken + Stars(q)
  BY ReadFields
<1> DEFINE y == [x EXCEPT !.p = @ - 1]
<1> HIDE DEF x
<1>9. CASE c = "c" /\ Emit(x, InField(x, <<args[x.taken + 1].int>>), 1) /\ UNCHANGED counts
  <2> DEFINE s == <<q.val>>
             field == InField(x, s)
  <2>1. c \in Takes /\ c # Eof /\ c # "n"
    BY <1>9 DEF Takes, Eof
  <2>2. args[x.taken + 1].int = q.val
    <3>1. args[taken + Stars(q) + 1] = [int |-> q.val, str |-> q.str]
      BY <1>1, <2>1, ArgsStand
    <3> DEFINE v == [int |-> q.val, str |-> q.str]
    <3>2. v.int = q.val
      OBVIOUS
    <3> HIDE DEF v
    <3>3. args[taken + Stars(q) + 1] = v
      BY <3>1 DEF v
    <3> QED BY <1>2, <3>2, <3>3
  <2>3. s \in Seq(Int)
    <3>1. q.val \in Int
      BY <1>1 DEF IsPiece
    <3> QED BY <3>1
  <2>4. Holds(q, field, s)
    <3> HIDE DEF s
    <3> QED BY <1>1, <1>2, <1>6, <2>3, FieldHolds
  <2>5. FieldRight(q, field)
    BY <1>1, <1>9, <2>4, FieldRightIs
  <2>6. Emit(x, field, 1) /\ counts' = counts
    BY <1>9, <2>2
  <2> HIDE DEF field
  <2>7. Writes(q, field)
    BY <1>1, <1>2, <1>7, <2>1, <2>5, <2>6, Emitted DEF Stores
  <2> QED BY <2>7
<1>10. CASE c = "s" /\ Emit(x, InField(x, StringArgument(x)), 1) /\ UNCHANGED counts
  <2> DEFINE s == Cut(IF q.str = NullString THEN NullText ELSE q.str, q.precision)
             field == InField(x, s)
  <2>1. c \in Takes /\ c # Eof /\ c # "n"
    BY <1>10 DEF Takes, Eof
  <2>2. StringArgument(x) = s /\ s \in Seq(Int)
    BY <1>1, <1>10, StringIs DEF x
  <2>4. Holds(q, field, s)
    <3> HIDE DEF s
    <3> QED BY <1>1, <1>2, <1>6, <2>2, FieldHolds
  <2>5. FieldRight(q, field)
    <3> HIDE DEF field
    <3> QED BY <1>1, <1>10, <2>4, FieldRightIs
  <2>6. Emit(x, field, 1) /\ counts' = counts
    BY <1>10, <2>2
  <2> HIDE DEF field
  <2>7. Writes(q, field)
    BY <1>1, <1>2, <1>7, <2>1, <2>5, <2>6, Emitted DEF Stores
  <2> QED BY <2>7
<1>11. CASE c = "n" /\ Emit(x, <<>>, 1) /\ counts' = Append(counts, Len(Written))
  <2>1. c \in Takes /\ c # Eof /\ Stores(q)
    BY <1>1, <1>11 DEF Takes, Eof, Stores
  <2>2. FieldRight(q, <<>>)
    BY <1>1, <1>11, FieldRightIs
  <2>3. Writes(q, <<>>)
    BY <1>1, <1>2, <1>7, <1>11, <2>1, <2>2, Emitted
  <2> QED BY <2>3
<1>12. CASE c = "%" /\ Emit(x, <<Percent>>, 0) /\ UNCHANGED counts
  <2>1. c \notin Takes /\ c # Eof /\ ~Stores(q)
    BY <1>12 DEF Takes, IntegerChars, Eof, Stores
  <2>2. FieldRight(q, <<Percent>>)
    BY <1>1, <1>12, FieldRightIs
  <2>3. Writes(q, <<Percent>>)
    BY <1>1, <1>2, <1>7, <1>12, <2>1, <2>2, Emitted
  <2> QED BY <2>3
<1>13. CASE c = Eof /\ Emit([x EXCEPT !.p = @ - 1], <<Percent>>, 0) /\ UNCHANGED counts
  <2>1. c \notin Takes /\ ~Stores(q)
    BY <1>13 DEF Takes, IntegerChars, Eof, Stores
  <2>2. FieldRight(q, <<Percent>>)
    BY <1>1, <1>13, FieldRightIs
  <2>3. y.p = (QualifierEnd(q) + 1) - 1 /\ y.taken = taken + Stars(q) /\ Emit(y, <<Percent>>, 0)
    BY <1>8, <1>13
  <2> HIDE DEF y
  <2>4. Writes(q, <<Percent>>)
    BY <1>1, <1>13, <2>1, <2>2, <2>3, Emitted
  <2> QED BY <2>4
<1>14. CASE /\ c \in IntegerChars
            /\ NumberCall(IntegerOf(x, c))
            /\ stage' = "number" /\ p' = x.p + 1 /\ taken' = x.taken + 1
            /\ UNCHANGED <<meant, fmt, args, fields, counts>>
  <2>1. c \in Takes /\ c # Eof
    BY <1>14 DEF Takes, IntegerChars, Eof
  <2>2. IntegerOf(x, c) = Asked(q) /\ Asked(q) \in Conversions
    BY <1>1, <1>14, AskedIs DEF x
  <2>3. /\ p + Len(TextOf(q)) = QualifierEnd(q) + 1 + 1
        /\ Len(ArgsOf(q)) = Stars(q) + 1
    BY <1>1, <2>1, PartsStand, ArgsStand
  <2>4. taken + Stars(q) + 1 = taken + (Stars(q) + 1)
    <3>1. taken \in Nat /\ Stars(q) \in Nat
      BY DEF Meets, Stars, Star
    <3> QED BY <3>1
  <2>5. Moves(q)
    BY <1>2, <1>14, <2>3, <2>4 DEF Moves
  <2> QED BY <1>1, <1>14, <2>2, <2>5 DEF Calls
<1>15. CASE /\ c \notin Takes \cup {"%", Eof}
            /\ Emit(x, <<Percent, CodeOf[c]>>, 0) /\ UNCHANGED counts
  <2>1. c \notin Takes /\ c # Eof /\ c # "%" /\ ~Stores(q)
    BY <1>15 DEF Takes, Stores
  <2>2. FieldRight(q, <<Percent, CodeOf[c]>>)
    BY <1>1, <2>1, FieldRightIs
  <2>3. Writes(q, <<Percent, CodeOf[c]>>)
    BY <1>1, <1>2, <1>7, <1>15, <2>1, <2>2, Emitted
  <2> QED BY <2>3
<1> QED BY <1>5, <1>9, <1>10, <1>11, <1>12, <1>13, <1>14, <1>15

(* How many bytes %n has stored. *)
Storing(m, f) == {k \in DOMAIN f : Stores(m[k])}
CountsFit(m, f, c) ==
  /\ Len(c) = Cardinality(Storing(m, f))
  /\ \A k \in Storing(m, f) :
       c[Cardinality({j \in Storing(m, f) : j < k}) + 1] = Len(FlattenSeq(SubSeq(f, 1, k - 1)))

Extends(g, f, x) ==
  /\ Len(f) \in Nat /\ Len(g) = Len(f) + 1 /\ DOMAIN f = 1 .. Len(f)
  /\ DOMAIN g = 1 .. Len(f) + 1
  /\ \A k \in 1 .. Len(f) : g[k] = f[k]
  /\ g[Len(f) + 1] = x
  /\ \A k \in 1 .. Len(f) + 1 : SubSeq(g, 1, k - 1) = SubSeq(f, 1, k - 1)
  /\ SubSeq(f, 1, Len(f)) = f
  /\ g \in Seq({g[k] : k \in DOMAIN g})

LEMMA OneMore ==
  ASSUME NEW S, NEW f \in Seq(S), NEW x
  PROVE  Extends(Append(f, x), f, x)
<1> DEFINE T == S \cup {x}
           g == Append(f, x)
           n == Len(f)
<1>1. f \in Seq(T) /\ x \in T /\ n \in Nat
  OBVIOUS
<1>2. /\ g \in Seq(T) /\ Len(g) = n + 1 /\ g[n + 1] = x
      /\ \A k \in 1..n : g[k] = f[k]
  <2> HIDE DEF T
  <2> QED BY <1>1, AppendProperties
<1> HIDE DEF g, T
<1>3. DOMAIN g = 1 .. n + 1 /\ DOMAIN f = 1..n
  BY <1>1, <1>2
<1> DEFINE R == {g[k] : k \in DOMAIN g}
<1>4. g \in Seq(R)
  <2>1. g = [k \in 1 .. n + 1 |-> g[k]]
    BY <1>2, <1>3
  <2>2. \A k \in 1 .. n + 1 : g[k] \in R
    BY <1>3
  <2>3. n + 1 \in Nat
    BY <1>1
  <2> HIDE DEF R, n
  <2>4. [k \in 1 .. n + 1 |-> g[k]] \in Seq(R)
    BY <2>2, <2>3, IsASeq
  <2> QED BY <2>1, <2>4
<1>5. ASSUME NEW k \in 1 .. n + 1 PROVE SubSeq(g, 1, k - 1) = SubSeq(f, 1, k - 1)
  <2>1. k - 1 \in Nat /\ k - 1 <= n
    BY <1>1
  <2> DEFINE i == k - 1
  <2>2. \A j \in 1..i : g[j] = f[j]
    BY <1>1, <1>2, <2>1
  <2> HIDE DEF i, n
  <2>3. SubSeq(g, 1, i) = [j \in 1..i |-> g[j]]
    BY <1>1, <1>2, <2>1 DEF i
  <2>4. SubSeq(f, 1, i) = [j \in 1..i |-> f[j]]
    BY <1>1, <2>1 DEF i, n
  <2>5. SubSeq(g, 1, i) = SubSeq(f, 1, i)
    BY <2>2, <2>3, <2>4
  <2> QED BY <2>5 DEF i
<1>6. SubSeq(f, 1, n) = f
  BY SubSeqFull
<1>7. Extends(g, f, x)
  BY <1>1, <1>2, <1>3, <1>4, <1>5, <1>6 DEF Extends
<1> QED BY <1>7 DEF g

LEMMA CountsGoOn ==
  ASSUME NEW m, NEW S, NEW f \in Seq(S), NEW C, NEW c \in Seq(C), CountsFit(m, f, c), NEW x
  PROVE  LET q == m[Len(f) + 1]
         IN  CountsFit(m, Append(f, x), IF Stores(q) THEN Append(c, Len(FlattenSeq(f))) ELSE c)
<1> DEFINE g == Append(f, x)
           n == Len(f)
           q == m[n + 1]
           s == Storing(m, f)
           t == Storing(m, g)
           v == Len(FlattenSeq(f))
           Before(k) == {j \in s : j < k}
           After(k) == {j \in t : j < k}
<1>1. /\ n \in Nat /\ Len(g) = n + 1 /\ DOMAIN f = 1..n /\ DOMAIN g = 1 .. n + 1
      /\ \A k \in 1 .. n + 1 : SubSeq(g, 1, k - 1) = SubSeq(f, 1, k - 1)
      /\ SubSeq(f, 1, n) = f
  BY OneMore DEF Extends
<1> HIDE DEF g, n
<1>2. s = {k \in 1..n : Stores(m[k])} /\ t = {k \in 1 .. n + 1 : Stores(m[k])}
  BY <1>1 DEF Storing
<1>3. s \subseteq 1..n /\ n + 1 \notin s /\ IF Stores(q) THEN t = s \cup {n + 1} ELSE t = s
  BY <1>1, <1>2
<1>4. IsFiniteSet(s) /\ Cardinality(s) \in Nat
  <2>1. IsFiniteSet(1..n)
    BY <1>1, FS_Interval
  <2> HIDE DEF s
  <2> QED BY <1>3, <2>1, FS_Subset, FS_CardinalityType
<1>5. Len(c) = Cardinality(s)
      /\ \A k \in s : c[Cardinality(Before(k)) + 1] = Len(FlattenSeq(SubSeq(f, 1, k - 1)))
  BY DEF CountsFit
<1>6. ASSUME NEW k \in s
      PROVE  /\ After(k) = Before(k) /\ Cardinality(Before(k)) + 1 \in 1 .. Len(c)
             /\ SubSeq(g, 1, k - 1) = SubSeq(f, 1, k - 1)
  <2>1. k \in 1..n /\ k \in 1 .. n + 1 /\ ~(n + 1 < k)
    BY <1>1, <1>3
  <2>2. After(k) = Before(k)
    BY <1>3, <2>1
  <2> DEFINE b == Before(k)
  <2>3. b \subseteq s /\ k \notin b
    BY <2>1
  <2> HIDE DEF b, s
  <2>4. b # s
    BY <2>3
  <2>5. IsFiniteSet(b) /\ Cardinality(b) <= Cardinality(s) /\ (Cardinality(b) = Cardinality(s) => b = s)
    BY <1>4, <2>3, FS_Subset
  <2>6. Cardinality(b) \in Nat
    BY <2>5, FS_CardinalityType
  <2>7. Cardinality(b) + 1 \in 1 .. Len(c)
    BY <1>4, <1>5, <2>4, <2>5, <2>6 DEF s
  <2> QED BY <1>1, <2>1, <2>2, <2>7 DEF b
<1>7. CASE Stores(q)
  <2> DEFINE d == Append(c, v)
             D == C \cup {v}
  <2>1. c \in Seq(D) /\ v \in D
    OBVIOUS
  <2>2. Len(d) = Len(c) + 1 /\ d[Len(c) + 1] = v /\ \A k \in 1 .. Len(c) : d[k] = c[k]
    <3> HIDE DEF D, v
    <3> QED BY <2>1, AppendProperties
  <2> HIDE DEF d, D, v
  <2>3. Cardinality(t) = Cardinality(s) + 1
    <3>1. t = s \cup {n + 1}
      BY <1>3, <1>7
    <3> HIDE DEF s, t
    <3> QED BY <1>3, <1>4, <3>1, FS_AddElement
  <2>4. ASSUME NEW k \in t
        PROVE  d[Cardinality(After(k)) + 1] = Len(FlattenSeq(SubSeq(g, 1, k - 1)))
    <3>1. CASE k \in s
      <4> DEFINE i == Cardinality(Before(k)) + 1
      <4>1. i \in 1 .. Len(c) /\ After(k) = Before(k) /\ SubSeq(g, 1, k - 1) = SubSeq(f, 1, k - 1)
        BY <1>6, <3>1
      <4>2. c[i] = Len(FlattenSeq(SubSeq(f, 1, k - 1)))
        BY <1>5, <3>1
      <4> HIDE DEF s, t
      <4>3. d[i] = c[i]
        BY <2>2, <4>1
      <4> QED BY <4>1, <4>2, <4>3
    <3>2. CASE k \notin s
      <4>1. k = n + 1
        BY <1>3, <1>7, <3>2
      <4>2. After(k) = s
        <5> SUFFICES ASSUME NEW j PROVE j \in t /\ j < n + 1 <=> j \in s
          BY <4>1
        <5>1. j \in s => j \in 1..n
          BY <1>3
        <5>2. j \in 1..n => j < n + 1
          BY <1>1
        <5>3. j \in t <=> j \in s \/ j = n + 1
          BY <1>3, <1>7
        <5>4. ~(n + 1 < n + 1)
          BY <1>1
        <5> HIDE DEF s, t
        <5> QED BY <5>1, <5>2, <5>3, <5>4
      <4>3. SubSeq(g, 1, k - 1) = f
        <5>1. (n + 1) - 1 = n /\ n + 1 \in 1 .. n + 1
          BY <1>1
        <5> QED BY <1>1, <4>1, <5>1
      <4>4. d[Cardinality(s) + 1] = v
        BY <1>5, <2>2
      <4> HIDE DEF s, t
      <4> QED BY <4>2, <4>3, <4>4 DEF v
    <3> QED BY <3>1, <3>2
  <2>5. Len(d) = Cardinality(t)
    BY <1>5, <2>2, <2>3
  <2>6. CountsFit(m, g, d)
    BY <2>4, <2>5 DEF CountsFit
  <2> QED BY <1>7, <2>6 DEF d, v, g, n
<1>8. CASE ~Stores(q)
  <2>1. t = s
    BY <1>3, <1>8
  <2>2. ASSUME NEW k \in t
        PROVE  c[Cardinality(After(k)) + 1] = Len(FlattenSeq(SubSeq(g, 1, k - 1)))
    <3>1. k \in s
      BY <2>1
    <3>2. /\ After(k) = Before(k) /\ SubSeq(g, 1, k - 1) = SubSeq(f, 1, k - 1)
          /\ c[Cardinality(Before(k)) + 1] = Len(FlattenSeq(SubSeq(f, 1, k - 1)))
      BY <1>5, <1>6, <3>1
    <3> HIDE DEF s, t
    <3> QED BY <3>2
  <2>3. CountsFit(m, g, c)
    BY <1>5, <2>1, <2>2 DEF CountsFit
  <2> QED BY <1>8, <2>3 DEF g, n
<1> QED BY <1>7, <1>8

(* FormatsRight of given fields, counts and so on. *)
Begun(st, f) == Len(f) + IF st = "number" THEN 1 ELSE 0
Right(st, f, c, k, t, number) ==
  LET begun == Begun(st, f)
  IN  /\ begun <= Len(meant)
      /\ k = 1 + Len(TextOfAll(SubSeq(meant, 1, begun)))
      /\ t = Len(ArgsOfAll(SubSeq(meant, 1, begun)))
      /\ st = "number" => number = Asked(meant[begun])
      /\ \A j \in DOMAIN f : FieldRight(meant[j], f[j])
      /\ CountsFit(meant, f, c)
      /\ st = "done" => begun = Len(meant)

InNumber ==
  stage = "number" => /\ Len(fields) < Len(meant)
                      /\ ~meant[Len(fields) + 1].plain /\ meant[Len(fields) + 1].conv \in IntegerChars

(* The inductive invariant: beside FormatsRight, that the format and the    *)
(* arguments are those of the pieces, and that number() runs for one that   *)
(* is an integer.                                                           *)
FormatInv ==
  /\ stage \in {"idle", "text", "number", "done"}
  /\ stage # "idle" =>
       /\ Given /\ InNumber
       /\ fields \in Seq({fields[k] : k \in DOMAIN fields})
       /\ counts \in Seq({counts[k] : k \in DOMAIN counts})
  /\ FormatsRight

LEMMA RightIs == FormatsRight <=> (stage # "idle" => Right(stage, fields, counts, p, taken, printed))
BY DEF FormatsRight, Right, Begun, CountsFit, Storing, Stores

LEMMA RightNext ==
  ASSUME UNCHANGED meant
  PROVE  FormatsRight' <=>
           (stage' # "idle" => Right(stage', fields', counts', p', taken', printed'))
BY DEF FormatsRight, Right, Begun, CountsFit, Storing, Stores

LEMMA Now ==
  ASSUME FormatInv, stage # "idle"
  PROVE  LET b == Begun(stage, fields)
         IN  /\ Len(fields) \in Nat /\ DOMAIN fields = 1 .. Len(fields) /\ Len(meant) \in Nat
             /\ b \in 0 .. Len(meant) /\ StandsAt(b)
             /\ Right(stage, fields, counts, p, taken, printed)
<1>1. Right(stage, fields, counts, p, taken, printed)
  BY RightIs DEF FormatInv
<1>2. Len(fields) \in Nat /\ DOMAIN fields = 1 .. Len(fields) /\ Len(meant) \in Nat
  BY DEF FormatInv, Given
<1> DEFINE b == Begun(stage, fields)
<1>3. b \in Nat
  BY <1>2 DEF Begun
<1>4. b <= Len(meant) /\ p = 1 + Len(TextOfAll(SubSeq(meant, 1, b)))
      /\ taken = Len(ArgsOfAll(SubSeq(meant, 1, b)))
  BY <1>1 DEF Right
<1> HIDE DEF b
<1>5. b \in 0 .. Len(meant)
  BY <1>2, <1>3, <1>4
<1>6. Given
  BY DEF FormatInv
<1>7. StandsAt(b)
  BY <1>4, <1>5, <1>6, UptoTexts DEF StandsAt
<1> QED BY <1>1, <1>2, <1>5, <1>7 DEF b

(* One piece is done with. *)
LEMMA Advances ==
  ASSUME FormatInv, stage # "idle", NEW q, NEW field, q = meant[Len(fields) + 1],
         Len(fields) < Len(meant), FieldRight(q, field),
         stage' = "text", UNCHANGED <<meant, fmt, args>>,
         p' = 1 + Len(Upto(Texts, Len(fields) + 1)), taken' = Len(Upto(Argss, Len(fields) + 1)),
         fields' = Append(fields, field),
         counts' = IF Stores(q) THEN Append(counts, Len(Written)) ELSE counts
  PROVE  FormatInv'
<1> DEFINE n == Len(fields)
<1>1. /\ n \in Nat /\ DOMAIN fields = 1..n /\ Len(meant) \in Nat
      /\ Right(stage, fields, counts, p, taken, printed)
  BY Now
<1>2. /\ fields \in Seq({fields[k] : k \in DOMAIN fields})
      /\ counts \in Seq({counts[k] : k \in DOMAIN counts}) /\ Given
  BY DEF FormatInv
<1>3. /\ Len(fields') = n + 1 /\ DOMAIN fields' = 1 .. n + 1
      /\ \A k \in 1..n : fields'[k] = fields[k]
      /\ fields'[n + 1] = field
      /\ fields' \in Seq({fields'[k] : k \in DOMAIN fields'})
  <2> DEFINE S == {fields[k] : k \in DOMAIN fields}
             g == Append(fields, field)
  <2>1. fields \in Seq(S)
    BY <1>2
  <2> HIDE DEF S
  <2>2. /\ Len(g) = n + 1 /\ DOMAIN g = 1 .. n + 1
        /\ \A k \in 1..n : g[k] = fields[k]
        /\ g[n + 1] = field
        /\ g \in Seq({g[k] : k \in DOMAIN g})
    <3>1. Extends(g, fields, field)
      BY <2>1, OneMore
    <3> HIDE DEF g
    <3> QED BY <3>1 DEF Extends
  <2>3. fields' = g
    OBVIOUS
  <2> HIDE DEF g
  <2> QED BY <2>2, <2>3
<1>4. counts' \in Seq({counts'[k] : k \in DOMAIN counts'})
  <2>1. CASE Stores(q)
    <3> DEFINE S == {counts[k] : k \in DOMAIN counts}
               g == Append(counts, Len(Written))
    <3>1. counts \in Seq(S)
      BY <1>2
    <3> HIDE DEF S
    <3>2. g \in Seq({g[k] : k \in DOMAIN g})
      <4>1. Extends(g, counts, Len(Written))
        BY <3>1, OneMore
      <4> HIDE DEF g
      <4> QED BY <4>1 DEF Extends
    <3>3. counts' = g
      BY <2>1
    <3> HIDE DEF g
    <3> QED BY <3>2, <3>3
  <2>2. CASE ~Stores(q)
    <3>1. counts' = counts
      BY <2>2
    <3> QED BY <1>2, <3>1
  <2> QED BY <2>1, <2>2
<1>5. CountsFit(meant, fields', counts')
  <2> DEFINE S == {fields[k] : k \in DOMAIN fields}
             C == {counts[k] : k \in DOMAIN counts}
  <2>1. fields \in Seq(S) /\ counts \in Seq(C)
    BY <1>2
  <2> HIDE DEF S, C
  <2>2. CountsFit(meant, fields, counts)
    BY <1>1 DEF Right
  <2>3. CountsFit(meant, Append(fields, field),
                  IF Stores(meant[Len(fields) + 1]) THEN Append(counts, Len(FlattenSeq(fields)))
                  ELSE counts)
    BY <2>1, <2>2, CountsGoOn
  <2> QED BY <2>3 DEF Written
<1> HIDE DEF n
<1>6. Begun(stage', fields') = n + 1 /\ n + 1 \in 0 .. Len(meant)
  <2>1. Begun(stage', fields') = n + 1
    BY <1>1, <1>3 DEF Begun
  <2>2. n < Len(meant)
    BY DEF n
  <2> QED BY <1>1, <2>1, <2>2
<1>7. ASSUME NEW j \in DOMAIN fields' PROVE FieldRight(meant[j], fields'[j])
  <2>1. \A k \in DOMAIN fields : FieldRight(meant[k], fields[k])
    BY <1>1 DEF Right
  <2>2. CASE j \in 1..n
    BY <1>1, <1>3, <2>1, <2>2
  <2>3. CASE j \notin 1..n
    <3>1. j = n + 1
      BY <1>1, <1>3, <2>3
    <3> QED BY <1>3, <3>1 DEF n
  <2> QED BY <2>2, <2>3
<1>8. /\ p' = 1 + Len(TextOfAll(SubSeq(meant, 1, n + 1)))
      /\ taken' = Len(ArgsOfAll(SubSeq(meant, 1, n + 1)))
  BY <1>2, <1>6, UptoTexts DEF n
<1>9. n + 1 <= Len(meant) /\ stage' # "number" /\ stage' # "done"
  BY <1>1, <1>6
<1>10. Right(stage', fields', counts', p', taken', printed')
  BY <1>5, <1>6, <1>7, <1>8, <1>9 DEF Right
<1>11. Given'
  BY <1>2 DEF Given
<1> QED BY <1>3, <1>4, <1>9, <1>10, <1>11, RightNext DEF FormatInv, InNumber

LEMMA StringsLong ==
  ASSUME DigitsInv, at = "printed"
  PROVE  Len(text) \in Int /\ Len(text) >= printed.width /\ printed \in Conversions
<1> DEFINE digits == Taken
           digitWidth == IF Len(digits) > printed.precision THEN Len(digits) ELSE printed.precision
           used == Len(SignOf(printed)) + Len(PrefixOf(printed)) + digitWidth
<1>1. printed \in Conversions /\ text = NumberText(printed, digits)
  BY DEF DigitsInv
<1>2. digits \in Seq(Int)
  <2>1. \A s \in Seq(0..15) : s \in Seq(Int)
    OBVIOUS
  <2>2. num = 0
    BY DEF DigitsInv
  <2> QED BY <2>1, <2>2, DigitsComplete
<1>3. Len(text) = IF printed.width > used THEN printed.width ELSE used
  BY <1>1, <1>2, TextLength
<1>4. printed.width \in Int /\ printed.precision \in Int
  <2>1. printed.width \in {Absent} \cup Nat /\ printed.precision \in {Absent} \cup Nat
    BY <1>1 DEF Conversions
  <2> QED BY <2>1 DEF Absent
<1>5. Len(SignOf(printed)) \in Int /\ Len(PrefixOf(printed)) \in Int
  <2>1. SignOf(printed) \in Seq(Int)
    BY DEF SignOf, Minus, Plus, Space
  <2>2. PrefixOf(printed) \in Seq(Int)
    BY DEF PrefixOf, CapitalX, SmallX
  <2> QED BY <2>1, <2>2
<1>6. used \in Int
  <2>1. Len(digits) \in Int
    BY <1>2
  <2> HIDE DEF digits
  <2>2. digitWidth \in Int
    BY <1>4, <2>1
  <2> HIDE DEF digitWidth
  <2> QED BY <1>5, <2>2
<1> HIDE DEF used
<1> QED BY <1>1, <1>3, <1>4, <1>6

LEMMA NothingFlat ==
  LET nothing == [k \in DOMAIN <<>> |-> <<>>]
  IN  nothing = <<>> /\ FlattenSeq(<<>>) = <<>>
<1>1. << >> \in Seq(Seq(Int)) /\ Len(<< >>) = 0
  OBVIOUS
<1>2. Upto(<< >>, Len(<< >>)) = FlattenSeq(<< >>) /\ Upto(<< >>, 0) = << >>
  BY <1>1, FlatStep
<1> QED BY <1>1, <1>2

LEMMA PrintfInv ==
  ASSUME NEW pieces \in Prints, Vsprintf(pieces)
  PROVE  FormatInv'
<1>1. /\ meant' = pieces /\ fmt' = Append(TextOfAll(pieces), Eof) /\ args' = ArgsOfAll(pieces)
      /\ stage' = "text" /\ p' = 1 /\ taken' = 0 /\ fields' = <<>> /\ counts' = <<>>
  BY DEF Vsprintf
<1>2. IsFormat(pieces)
  BY PrintsAssumption
<1>3. Given'
  BY <1>1, <1>2 DEF Given
<1>4. SubSeq(pieces, 1, 0) = <<>> /\ Len(pieces) \in Nat
  BY <1>2 DEF IsFormat
<1>5. TextOfAll(<<>>) = <<>> /\ ArgsOfAll(<<>>) = <<>>
  <2>1. [k \in DOMAIN << >> |-> TextOf(<< >>[k])] = << >> /\ [k \in DOMAIN << >> |-> ArgsOf(<< >>[k])] = << >>
    OBVIOUS
  <2> QED BY <2>1, NothingFlat DEF TextOfAll, ArgsOfAll
<1>6. Len(<<>>) = 0 /\ DOMAIN <<>> = {} /\ <<>> \in Seq({})
  OBVIOUS
<1>7. {j \in DOMAIN fields' : ~meant'[j].plain /\ meant'[j].conv = "n"} = {}
  BY <1>1, <1>6
<1>8. Cardinality({}) = 0
  BY FS_EmptySet
<1>9. FormatsRight'
  <2>1. Len(fields') = 0 /\ Len(counts') = 0 /\ stage' # "number" /\ stage' # "done"
    BY <1>1, <1>6
  <2>2. Len(fields') + (IF stage' = "number" THEN 1 ELSE 0) = 0
    BY <2>1
  <2>3. p' = 1 + Len(<<>>) /\ taken' = Len(<<>>) /\ 0 <= Len(pieces)
    BY <1>1, <1>4, <1>6
  <2> QED BY <1>1, <1>4, <1>5, <1>6, <1>7, <1>8, <2>1, <2>2, <2>3 DEF FormatsRight
<1>10. fields' \in Seq({fields'[k] : k \in DOMAIN fields'})
       /\ counts' \in Seq({counts'[k] : k \in DOMAIN counts'})
  BY <1>1, <1>6
<1> QED BY <1>1, <1>3, <1>9, <1>10 DEF FormatInv, InNumber

(* The character at p begins a piece, or ends the format after the last. *)
LEMMA Here ==
  ASSUME FormatInv, stage = "text"
  PROVE  LET k == Len(fields)
             q == meant[k + 1]
         IN  \/ k = Len(meant) /\ fmt[p] = Eof
             \/ /\ k < Len(meant) /\ fmt[p] # Eof /\ IsPiece(q) /\ Meets(q)
                /\ 1 + Len(Upto(Texts, k + 1)) = p + Len(TextOf(q))
                /\ Len(Upto(Argss, k + 1)) = taken + Len(ArgsOf(q))
<1> DEFINE k == Len(fields)
           q == meant[k + 1]
<1>1. k \in Nat /\ Len(meant) \in Nat /\ Begun(stage, fields) = k
  <2>1. k \in Nat /\ Len(meant) \in Nat
    BY Now
  <2> HIDE DEF k
  <2> QED BY <2>1 DEF Begun, k
<1>2. k \in 0 .. Len(meant) /\ StandsAt(k)
  BY <1>1, Now
<1>3. Given
  BY DEF FormatInv
<1> HIDE DEF k
<1>4. CASE k = Len(meant)
  BY <1>2, <1>3, <1>4, MeetsEnd DEF k
<1>5. CASE k # Len(meant)
  <2>1. k \in 0 .. Len(meant) - 1 /\ k < Len(meant)
    BY <1>1, <1>2, <1>5
  <2>2. /\ IsPiece(q) /\ Meets(q)
        /\ 1 + Len(Upto(Texts, k + 1)) = p + Len(TextOf(q))
        /\ Len(Upto(Argss, k + 1)) = taken + Len(ArgsOf(q))
    BY <1>2, <1>3, <2>1, MeetsNext
  <2> HIDE DEF q
  <2>3. fmt[p] # Eof
    <3>1. CASE q.plain
      <4>1. TextOf(q) = <<q.conv>> /\ q.conv # Eof
        BY <2>2, <3>1, PlainFacts
      <4>2. Len(<<q.conv>>) = 1 /\ <<q.conv>>[1] = q.conv
        OBVIOUS
      <4>3. fmt[p - 1 + 1] = <<q.conv>>[1] /\ p \in Nat
        BY <2>2, <4>1, <4>2 DEF Meets, Stands
      <4>4. p - 1 + 1 = p
        BY <4>3
      <4> QED BY <4>1, <4>2, <4>3, <4>4
    <3>2. CASE ~q.plain
      <4>1. fmt[p] = "%"
        BY <2>2, <3>2, PartsStand
      <4> QED BY <4>1 DEF Eof
    <3> QED BY <3>1, <3>2
  <2> QED BY <2>1, <2>2, <2>3 DEF k, q
<1> QED BY <1>4, <1>5

LEMMA ConsoleStep ==
  ASSUME FormatInv, DigitsInv, [ConsoleNext]_consoleVars
  PROVE  FormatInv' /\ [NumberNext]_<<udivVars, numberVars>>
<1> DEFINE Good == FormatInv' /\ [NumberNext]_<<udivVars, numberVars>>
           k == Len(fields)
           q == meant[k + 1]
<1>1. ASSUME UNCHANGED formatVars, printed' = printed PROVE FormatInv'
  BY <1>1, RightIs, RightNext DEF FormatInv, formatVars, Given, InNumber
<1>2. ASSUME NEW pieces \in Prints, Printf(pieces) PROVE Good
  <2>1. UNCHANGED <<udivVars, numberVars>> /\ Vsprintf(pieces)
    BY <1>2 DEF Printf, Vsprintf
  <2> QED BY <2>1, PrintfInv
<1>3. CASE OtherCalls \/ Sends \/ Transmits
  BY <1>1, <1>3 DEF OtherCalls, Sends, Transmits, numberVars
<1>4. CASE Divides
  BY <1>1, <1>4 DEF Divides, DivideElsewhere, NumberNext, numberVars
<1>5. CASE Reads
  BY <1>1, <1>5 DEF Reads, Read, NumberNext
<1>6. CASE PrintfWrites
  <2>1. stage' = "idle" /\ UNCHANGED <<udivVars, numberVars>>
    BY <1>6 DEF PrintfWrites
  <2> QED BY <2>1 DEF FormatInv, FormatsRight
<1>7. CASE NumberStep /\ UNCHANGED formatVars
  <2>1. printed' = printed
    BY <1>7 DEF NumberStep, TakeDigit, Divide, Divided, Write, numberVars
  <2> QED BY <1>1, <1>7, <2>1 DEF NumberNext
<1>8. ASSUME stage = "text", NEW field, Writes(q, field), k < Len(meant),
             1 + Len(Upto(Texts, k + 1)) = p + Len(TextOf(q)),
             Len(Upto(Argss, k + 1)) = taken + Len(ArgsOf(q))
      PROVE  Good
  <2>1. /\ fields' = Append(fields, field) /\ FieldRight(q, field)
        /\ counts' = IF Stores(q) THEN Append(counts, Len(Written)) ELSE counts
        /\ stage' = "text" /\ UNCHANGED <<meant, fmt, args>>
        /\ UNCHANGED <<udivVars, numberVars>>
        /\ p' = 1 + Len(Upto(Texts, k + 1)) /\ taken' = Len(Upto(Argss, k + 1))
    BY <1>8 DEF Writes, Moves
  <2>2. stage # "idle"
    BY <1>8
  <2>3. FormatInv'
    BY <1>8, <2>1, <2>2, Advances
  <2> QED BY <2>1, <2>3
<1>9. CASE Literal
  <2>1. stage = "text" /\ fmt[p] # Eof
    BY <1>9 DEF Literal
  <2>2. /\ k < Len(meant) /\ IsPiece(q) /\ Meets(q)
        /\ 1 + Len(Upto(Texts, k + 1)) = p + Len(TextOf(q))
        /\ Len(Upto(Argss, k + 1)) = taken + Len(ArgsOf(q))
    BY <2>1, Here
  <2>3. Writes(q, <<CodeOf[q.conv]>>)
    BY <1>9, <2>2, LiteralWrites
  <2> HIDE DEF q, k
  <2> QED BY <1>8, <2>1, <2>2, <2>3
<1>10. CASE Convert
  <2>1. stage = "text" /\ fmt[p] # Eof
    BY <1>10 DEF Convert, Eof
  <2>2. /\ k < Len(meant) /\ IsPiece(q) /\ Meets(q)
        /\ 1 + Len(Upto(Texts, k + 1)) = p + Len(TextOf(q))
        /\ Len(Upto(Argss, k + 1)) = taken + Len(ArgsOf(q))
    BY <2>1, Here
  <2>3. Calls(q) \/ \E field : Writes(q, field)
    BY <1>10, <2>2, ConvertDoes
  <2>4. CASE Calls(q)
    <3>1. /\ ~q.plain /\ q.conv \in IntegerChars
          /\ Asked(q) \in Conversions /\ NumberCall(Asked(q))
          /\ stage' = "number" /\ UNCHANGED <<meant, fmt, args, fields, counts>>
          /\ p' = 1 + Len(Upto(Texts, k + 1)) /\ taken' = Len(Upto(Argss, k + 1))
      BY <2>2, <2>4 DEF Calls, Moves
    <3>2. printed' = Asked(q)
      BY <3>1 DEF NumberCall
    <3>3. /\ k \in Nat /\ Len(meant) \in Nat /\ Given
          /\ Right(stage, fields, counts, p, taken, printed)
      BY <2>1, Now DEF FormatInv
    <3> HIDE DEF q, k
    <3>4. Begun(stage', fields') = k + 1 /\ k + 1 \in 0 .. Len(meant)
      <4>1. Begun(stage', fields') = k + 1
        BY <3>1 DEF Begun, k
      <4> QED BY <2>2, <3>3, <4>1
    <3>5. /\ p' = 1 + Len(TextOfAll(SubSeq(meant, 1, k + 1)))
          /\ taken' = Len(ArgsOfAll(SubSeq(meant, 1, k + 1)))
      BY <3>1, <3>3, <3>4, UptoTexts
    <3>6. Right(stage', fields', counts', p', taken', printed')
      <4>1. /\ \A j \in DOMAIN fields : FieldRight(meant[j], fields[j])
            /\ CountsFit(meant, fields, counts)
        BY <3>3 DEF Right
      <4>2. k + 1 <= Len(meant)
        BY <3>3, <3>4
      <4> QED BY <3>1, <3>2, <3>4, <3>5, <4>1, <4>2 DEF Right, q
    <3>7. InNumber' /\ Given'
      BY <2>2, <3>1, <3>3 DEF InNumber, Given, q, k
    <3>8. FormatInv'
      BY <2>1, <3>1, <3>6, <3>7, RightNext DEF FormatInv
    <3> QED BY <3>1, <3>8 DEF NumberNext
  <2>5. ASSUME NEW field, Writes(q, field) PROVE Good
    <3> HIDE DEF q, k
    <3> QED BY <1>8, <2>1, <2>2, <2>5
  <2> QED BY <2>3, <2>4, <2>5
<1>11. CASE Converted
  <2>1. /\ stage = "number" /\ stage' = "text" /\ fields' = Append(fields, text)
        /\ UNCHANGED <<meant, fmt, args, p, taken, counts>> /\ at = "printed" /\ NumberReturn
    BY <1>11 DEF Converted, NumberReturn
  <2>2. k < Len(meant) /\ ~q.plain /\ q.conv \in IntegerChars /\ Given
    BY <2>1 DEF FormatInv, InNumber
  <2>3. /\ k \in Nat /\ StandsAt(Begun(stage, fields))
        /\ Right(stage, fields, counts, p, taken, printed)
    BY <2>1, Now
  <2>4. Begun(stage, fields) = k + 1
    BY <2>1 DEF Begun
  <2>5. printed = Asked(q)
    BY <2>1, <2>3, <2>4 DEF Right
  <2>6. IsPiece(q)
    <3>1. k + 1 \in DOMAIN meant
      BY <2>2, <2>3 DEF Given, IsFormat
    <3> QED BY <2>2, <3>1 DEF Given, IsFormat
  <2> HIDE DEF k
  <2>7. FieldRight(q, text)
    <3>1. Len(text) \in Int /\ Len(text) >= printed.width
      BY <2>1, StringsLong
    <3>2. printed.width = IF Pointer(q) THEN Bits \div 4 ELSE WidthOf(q)
      BY <2>5 DEF Asked
    <3>3. WidthOf(q) \in Int
      <4>1. WidthOf(q) \in {Absent} \cup Nat
        BY <2>2, <2>6, WidthType
      <4> QED BY <4>1 DEF Absent
    <3>4. Pointer(q) => WidthOf(q) = Absent
      BY DEF Pointer, WidthOf
    <3>5. Bits \div 4 \in Nat
      BY BitsAssumption
    <3>6. Len(text) >= WidthOf(q)
      <4> DEFINE w == WidthOf(q)
                 b == Bits \div 4
                 l == Len(text)
      <4>1. l \in Int /\ w \in Int /\ b \in Nat /\ (l >= w \/ (l >= b /\ w = -1))
        BY <3>1, <3>2, <3>3, <3>4, <3>5 DEF Absent
      <4> HIDE DEF w, b, l
      <4>2. l >= w
        BY <4>1
      <4> QED BY <4>2 DEF w, l
    <3> HIDE DEF q
    <3> QED BY <2>2, <3>6, FieldRightIs
  <2>8. ~Stores(q)
    BY <2>2 DEF Stores, IntegerChars
  <2>9. p' = 1 + Len(Upto(Texts, k + 1)) /\ taken' = Len(Upto(Argss, k + 1))
    BY <2>1, <2>3, <2>4 DEF StandsAt
  <2>10. FormatInv'
    BY <2>1, <2>2, <2>7, <2>8, <2>9, Advances DEF k
  <2> QED BY <2>1, <2>10 DEF NumberNext
<1>12. CASE VsprintfEnd
  <2>1. /\ stage = "text" /\ fmt[p] = Eof /\ stage' = "done"
        /\ UNCHANGED <<meant, fmt, args, p, taken, fields, counts, udivVars, numberVars>>
    BY <1>12 DEF VsprintfEnd
  <2>2. k = Len(meant)
    BY <2>1, Here
  <2>3. /\ Given /\ k \in Nat
        /\ Right(stage, fields, counts, p, taken, printed)
    BY <2>1, Now DEF FormatInv
  <2>4. Begun(stage, fields) = k + 0 /\ Begun(stage', fields') = k + 0 /\ k + 0 = k
    BY <2>1, <2>3 DEF Begun
  <2> HIDE DEF k
  <2>5. Right(stage', fields', counts', p', taken', printed')
    BY <2>1, <2>2, <2>3, <2>4 DEF Right
  <2>6. InNumber' /\ Given'
    BY <2>1, <2>3 DEF InNumber, Given
  <2>7. FormatInv'
    BY <2>1, <2>5, <2>6, RightNext DEF FormatInv
  <2> QED BY <2>1, <2>7
<1>13. CASE UNCHANGED consoleVars
  BY <1>1, <1>13 DEF consoleVars, numberVars
<1> QED BY <1>2, <1>3, <1>4, <1>5, <1>6, <1>7, <1>9, <1>10, <1>11, <1>12, <1>13
       DEF ConsoleNext, Cpu, Formats, FormatStep

LEMMA ConsoleInits == ConsoleInit => NumberInit /\ FormatInv
BY DEF ConsoleInit, FormatInit, FormatInv, FormatsRight

(* Whatever printf is called for, with whatever flags, stars and            *)
(* qualifiers, and if its format ends inside a conversion: vsprintf stays   *)
(* in step with its format and its arguments, each piece is written into    *)
(* its field, number() is given what the piece says, and %n stores how much *)
(* was written before it.                                                   *)
THEOREM FormatsFollowed == ConsoleSpec => []FormatsRight
<1>1. ConsoleInit => NumberInit /\ FormatInv
  BY ConsoleInits
<1>2. FormatInv /\ DigitsInv /\ [ConsoleNext]_consoleVars
        => FormatInv' /\ [NumberNext]_<<udivVars, numberVars>>
  BY ConsoleStep
<1>3. FormatInv => FormatsRight
  BY DEF FormatInv
<1> QED BY <1>1, <1>2, <1>3, DivisionInit, DivisionStep, DigitsInit, DigitsStep, PTL DEF ConsoleSpec

(* Under printf the numbers go the way they go alone: number() and          *)
(* __udivsi3 are called for what they promise something about, so that all  *)
(* that is proved of them holds of what printf writes.                      *)
THEOREM NumbersUnderPrintf == ConsoleSpec => NumberSpec
<1>1. ConsoleInit => NumberInit /\ FormatInv
  BY ConsoleInits
<1>2. FormatInv /\ DigitsInv /\ [ConsoleNext]_consoleVars
        => FormatInv' /\ [NumberNext]_<<udivVars, numberVars>>
  BY ConsoleStep
<1> QED BY <1>1, <1>2, DivisionInit, DivisionStep, DigitsInit, DigitsStep, PTL
        DEF ConsoleSpec, NumberSpec
=============================================================================
