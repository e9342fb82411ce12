-------------------------------- MODULE Uart --------------------------------
(***************************************************************************)
(* drivers/s3c2440_uart.c: characters sent by polling, and the two number  *)
(* printers of debug.h beside it.                                          *)
(*                                                                         *)
(* Two processes: the CPU in uart_write, puthex or putdec, and the          *)
(* transmitter behind UTXH0, which is not code of the repository: a         *)
(* character written before the last one has left replaces it.             *)
(***************************************************************************)
EXTENDS Integers, Sequences

CONSTANTS
  Buffers,    \* what callers pass to uart_write: bytes, with a first 0
  Hexes,      \* what they pass to puthex
  Decimals    \* and to putdec

(* What a digit of puthex stands for: the shifts by 28, 24, ..., 0 bits. *)
Weight == <<268435456, 16777216, 1048576, 65536, 4096, 256, 16, 1>>

EndsAt(buf, k) == buf[k] = 0 /\ \A j \in 1..k-1 : buf[j] # 0

ASSUME CallAssumption ==
  /\ Buffers \subseteq Seq(0..255)
  /\ \A buf \in Buffers : \E k \in DOMAIN buf : EndsAt(buf, k)
  /\ Hexes \subseteq Nat /\ Decimals \subseteq Int      \* of 32 bits:
  /\ \A val \in Hexes : val \div Weight[1] < 16

Empty == -1       \* TXD0READY: nothing in the transmitter

VARIABLES
  opened,     \* uart_open has configured the transmitter
  call,       \* the call in progress, or the last one: <<name, argument>>
  todo,       \* the characters it has still to put
  running,    \* whether it is in progress
  tx,         \* the character in the transmitter, or Empty
  asked,      \* every character the calls so far stand for
  wire        \* what has left the board

uartVars == <<opened, call, todo, running, tx, asked, wire>>

UartInit ==
  /\ opened = FALSE /\ running = FALSE
  /\ call = <<"none", 0>>
  /\ todo = <<>> /\ tx = Empty /\ asked = <<>> /\ wire = <<>>

-----------------------------------------------------------------------------
Zero == 48      \* '0'
LetterA == 65   \* 'A'
LetterX == 120  \* 'x'

(* The string in a buffer: uart_write looks for the 0 and not at len. *)
StringOf(buf) ==
  LET end == CHOOSE k \in DOMAIN buf : EndsAt(buf, k)
  IN  SubSeq(buf, 1, end - 1)

(* Mutant: the letters start one too low. *)
HexCharLow(j) == IF j \in 0..9 THEN Zero + j ELSE LetterA + j - 11

HexChar(j) == IF j \in 0..9 THEN Zero + j ELSE LetterA + j - 10

HexString(val) ==
  <<Zero, LetterX>> \o [k \in 1..8 |-> HexChar((val \div Weight[k]) % 16)]

(* C's % and / truncate towards zero. *)
Quot(v, d) == IF v < 0 THEN -((-v) \div d) ELSE v \div d
Rem(v, d) == v - d * Quot(v, d)

(* putdec: five characters, whatever the value. *)
DecString(val) ==
  LET digit == <<Quot(val, 10000), Quot(Rem(val, 10000), 1000),
                 Quot(Rem(val, 1000), 100), Quot(Rem(val, 100), 10), Rem(val, 10)>>
  IN  [k \in 1..5 |-> (Zero + digit[k]) % 256]

-----------------------------------------------------------------------------
UartOpen == /\ ~running
            /\ opened' = TRUE
            /\ UNCHANGED <<call, todo, running, tx, asked, wire>>

(* A call that puts the characters s. Start-up opens before it prints.      *)
Begin(name, arg, s) ==
  /\ opened /\ ~running
  /\ call' = <<name, arg>>
  /\ todo' = s
  /\ running' = TRUE
  /\ asked' = asked \o s
  /\ UNCHANGED <<opened, tx, wire>>

UartWrite(buf) == Begin("uart_write", buf, StringOf(buf))
PutHex(val) == Begin("puthex", val, HexString(val))
PutDec(val) == Begin("putdec", val, DecString(val))

(* Mutant: putc does not wait. *)
PutcAtOnce ==
  /\ running /\ todo # <<>>
  /\ tx' = Head(todo)
  /\ todo' = Tail(todo)
  /\ UNCHANGED <<opened, call, running, asked, wire>>

(* putc, past its polling loop. *)
Putc ==
  /\ running /\ todo # <<>>
  /\ tx = Empty
  /\ tx' = Head(todo)
  /\ todo' = Tail(todo)
  /\ UNCHANGED <<opened, call, running, asked, wire>>

(* The call returns; its last character may still be in the transmitter.    *)
Return ==
  /\ running /\ todo = <<>>
  /\ running' = FALSE
  /\ UNCHANGED <<opened, call, todo, tx, asked, wire>>

(* The transmitter has sent its character. *)
Transmit ==
  /\ tx # Empty
  /\ wire' = Append(wire, tx)
  /\ tx' = Empty
  /\ UNCHANGED <<opened, call, todo, running, asked>>

UartCalls == \/ UartOpen
             \/ \E buf \in Buffers : UartWrite(buf)
             \/ \E val \in Hexes : PutHex(val)
             \/ \E val \in Decimals : PutDec(val)

UartNext == UartCalls \/ Putc \/ Return \/ Transmit

UartSpec == UartInit /\ [][UartNext]_uartVars
=============================================================================
