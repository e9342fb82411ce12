---------------------------- MODULE ConsoleProps ----------------------------
(***************************************************************************)
(* What callers of the UART's functions, of printf, of the reading of      *)
(* numbers and of the division under them rely on.                         *)
(***************************************************************************)
EXTENDS Console

(* The UART. *)

UartTypeOK ==
  /\ opened \in BOOLEAN /\ running \in BOOLEAN
  /\ tx \in 0..255 \cup {Empty}
  /\ todo \in Seq(0..255) /\ asked \in Seq(0..255) /\ wire \in Seq(0..255)

(* No character is lost, doubled or overtaken, also between one call and    *)
(* the next, which begins while the last character is still being sent.     *)
Sending == IF tx = Empty THEN <<>> ELSE <<tx>>
NothingLost == asked = wire \o Sending \o todo

(* The last characters on the wire are the number a puthex or putdec was    *)
(* asked to print: eight hexadecimal digits, and five decimal ones of the   *)
(* line numbers DEBUG_PUT prints, which have no more (debug.h:12).          *)
LastChars(n) == SubSeq(wire, Len(wire) - n + 1, Len(wire))
ValueOf(s, radix) ==
  LET digit(c) == IF c >= LetterA THEN c - LetterA + 10 ELSE c - Zero
      sum[k \in 0..Len(s)] == IF k = 0 THEN 0 ELSE sum[k - 1] * radix + digit(s[k])
  IN  sum[Len(s)]
FiveDigits(val) == val >= 0 /\ val < 100000

NumbersReadable ==
  ~running /\ tx = Empty =>
    /\ call[1] = "puthex" => ValueOf(LastChars(8), 16) = call[2]
    /\ call[1] = "putdec" /\ FiveDigits(call[2]) => ValueOf(LastChars(5), 10) = call[2]

(* What the inductive invariant says beyond NothingLost: no call in progress *)
(* has nothing left to put, and what was asked for ends with the number of   *)
(* the last call.                                                            *)
IdleInv == ~running => todo = <<>>

EndsWith(s) ==
  /\ Len(s) <= Len(asked)
  /\ \A k \in 1..Len(s) : asked[Len(asked) - Len(s) + k] = s[k]
LastCallInv ==
  /\ call[1] = "puthex" => call[2] \in Hexes /\ EndsWith(HexString(call[2]))
  /\ call[1] = "putdec" => call[2] \in Decimals /\ EndsWith(DecString(call[2]))

-----------------------------------------------------------------------------
(* Numbers. *)

(* What the compiler relies on when it calls __udivsi3: the result is the   *)
(* quotient, also where the last pass "may subtract too much from the       *)
(* dividend" (lib/_udivsi3.S:43-45), and 0 for a zero divisor.              *)
Quotient == pc = "done" => result = IF arg2 = 0 THEN 0 ELSE arg1 \div arg2

(* The number that was meant: a %d's argument is signed, an h keeps the low *)
(* half of it.                                                              *)
Meant ==
  LET bits == IF printed.half THEN HalfBits ELSE Bits
      w == printed.val % Bit[bits]
  IN  IF printed.conv = "d" THEN Signed(w, bits) ELSE w

(* The powers of a base. *)
PowersOf(b) ==
  LET power[n \in 0..Bits] == IF n = 0 THEN 1 ELSE b * power[n - 1]
  IN  power

(* A field is exactly as wide as asked, or as its sign, prefix and digits   *)
(* need: no blank, sign or digit is written twice or lost, whatever flags   *)
(* come together (printf.c:128-193).  This is about the number of           *)
(* characters; which they are is what ReadsBack is about.                   *)
DigitsOf(magnitude, power) ==
  CHOOSE n \in 1..Bits : power[n] > magnitude /\ (n = 1 \/ power[n - 1] <= magnitude)
Needed ==
  LET digits == DigitsOf(IF Meant < 0 THEN -Meant ELSE Meant, PowersOf(Base(printed.conv)))
      sign == IF printed.conv = "d" /\ (Meant < 0 \/ {"+", " "} \cap printed.flags # {})
              THEN 1 ELSE 0
      prefix == CASE "#" \notin printed.flags -> 0
                  [] "#" \in printed.flags /\ printed.conv = "o" -> 1
                  [] "#" \in printed.flags /\ printed.conv \in {"x", "X"} -> 2
                  [] "#" \in printed.flags /\ printed.conv \in {"d", "u"} -> 0
  IN  sign + prefix + (IF printed.precision > digits THEN printed.precision ELSE digits)
FieldFilled ==
  at = "printed" => Len(text) = IF printed.width > Needed THEN printed.width ELSE Needed

(* What printf writes, simple_strtol and simple_strtoul read: in the base   *)
(* it was printed in, unless blanks, a plus or 0X stand in front, which     *)
(* neither knows; and without a base wherever the prefix tells it.          *)
Readable == text[1] \notin {Space, Plus} /\ CapitalX \notin {text[k] : k \in DOMAIN text}
FirstDigit == IF text[1] = Minus THEN text[2] ELSE text[1]
Tells ==
  CASE printed.conv \in {"d", "u"} -> FirstDigit # 0
    [] printed.conv = "o" -> FirstDigit = 0
    [] printed.conv \in {"x", "X"} -> HexPrefix(text)
ReadsBack == base # Absent /\ Readable /\ (base = 0 => Tells) => value = Meant

(* The inductive invariant of the proofs about numbers.  The digits taken   *)
(* so far are the last ones of the magnitude: what is left is the magnitude *)
(* without them, and before the last of them was taken something was left.  *)
Left(k) == Magnitude(printed) \div PowersOf(Base(printed.conv))[k]
LastDigits == \A k \in 1..Len(tmp) : tmp[k] = Left(k - 1) % Base(printed.conv)
Taken == IF tmp = <<>> THEN <<0>> ELSE Reverse(tmp)
DigitsInv ==
  /\ at \in {"idle", "number", "dividing", "printed"}
  /\ at # "idle" => printed \in Conversions /\ LastDigits
  /\ tmp \in Seq(0..15) /\ Len(tmp) <= Bits
  /\ at \in {"number", "printed"} => /\ num = Left(Len(tmp))
                                     /\ tmp # <<>> => Left(Len(tmp) - 1) # 0
  /\ at = "dividing" => /\ tmp # <<>> /\ num # 0 /\ num = Left(Len(tmp) - 1)
                        /\ arg1 = num /\ arg2 = Base(printed.conv)
  /\ IF at = "printed" THEN num = 0 /\ text = NumberText(printed, Taken) ELSE base = Absent

(* The inductive invariant of the proofs about the division.  While the      *)
(* divisor goes up, it and curbit stand s bits above where they began.      *)
(* From then on the quotient has no bit above curbit's but those found, and *)
(* what is left is what they do not account for.                            *)
Shifted(s) == curbit = Bit[s] /\ divisor = arg2 * Bit[s]

GoesUp ==
  /\ result = 0 /\ dividend = arg1 /\ arg2 # 0
  /\ divisor \in Word
  /\ \E s \in 0 .. Bits - 1 : Shifted(s)

GoesDown ==
  /\ arg2 # 0 /\ dividend \in Word /\ dividend < 2 * divisor
  /\ \E s \in 0 .. Bits - 1, found \in 0..arg1 :
       /\ Shifted(s)
       /\ result = 2 * found * Bit[s]
       /\ arg1 = result * arg2 + dividend

DivisionInv ==
  /\ arg1 \in Word /\ arg2 \in Word /\ num \in Word
  /\ pc \in {"start", "Loop1", "Lbignum", "Loop3", "done"}
  /\ pc = "start" => dividend = arg1 /\ divisor = arg2
  /\ pc \in {"Loop1", "Lbignum"} => GoesUp
  /\ pc = "Loop3" => GoesDown
  /\ Quotient

-----------------------------------------------------------------------------
(* Formats. *)

(* What number() is to print for a piece. *)
FlagsOf(piece) ==
  {piece.flags[k] : k \in DOMAIN piece.flags}
    \cup (IF "width" \in piece.star /\ piece.width < 0 THEN {"-"} ELSE {})
WidthOf(piece) ==
  IF "width" \in piece.star /\ piece.width < 0 THEN -piece.width ELSE piece.width
Pointer(piece) == piece.conv = "p" /\ "width" \notin piece.star /\ piece.width = Absent
Asked(piece) ==
  [conv |-> CASE piece.conv \in {"d", "i"} -> "d"
              [] piece.conv \in {"x", "p"} -> "x"
              [] piece.conv \in {"u", "o", "X"} -> piece.conv,
   half |-> piece.qualifier = <<"h">> /\ piece.conv # "p",
   width |-> IF Pointer(piece) THEN Bits \div 4 ELSE WidthOf(piece),
   precision |-> piece.precision,
   flags |-> FlagsOf(piece) \cup (IF Pointer(piece) THEN {"0"} ELSE {}),
   val |-> piece.val % Bit[Bits]]

(* A field holds the text of its piece, on the side the flags say, and      *)
(* blanks up to its width.                                                  *)
Holds(piece, field, s) ==
  LET n == Len(field)
      first == IF "-" \in FlagsOf(piece) THEN 0 ELSE n - Len(s)
  IN  /\ n = Len(s) \/ (n > Len(s) /\ n = WidthOf(piece))
      /\ n >= WidthOf(piece)
      /\ \A k \in 1..n : field[k] = IF k - first \in 1 .. Len(s) THEN s[k - first] ELSE Space
Cut(s, precision) ==
  IF precision = Absent \/ precision > Len(s) THEN s ELSE SubSeq(s, 1, precision)
FieldRight(piece, field) ==
  IF piece.plain THEN field = <<CodeOf[piece.conv]>>
  ELSE CASE piece.conv = "c" -> Holds(piece, field, <<piece.val>>)
         [] piece.conv = "s" ->
              LET s == IF piece.str = NullString THEN NullText ELSE piece.str
              IN  Holds(piece, field, Cut(s, piece.precision))
         [] piece.conv = "n" -> field = <<>>
         [] piece.conv \in {"%", Eof} -> field = <<Percent>>
         [] piece.conv \in IntegerChars -> Len(field) >= WidthOf(piece)
         [] OTHER -> field = <<Percent, CodeOf[piece.conv]>>

(* vsprintf stays in step with its format and its arguments, whatever flags,*)
(* stars and qualifiers a conversion has, and if the format ends inside     *)
(* one: after each piece it stands behind its text and its arguments, has   *)
(* written its field, has given number() what it says, and %n has stored    *)
(* how much was written before it.                                          *)
FormatsRight ==
  stage # "idle" =>
    LET begun == Len(fields) + IF stage = "number" THEN 1 ELSE 0
        past == SubSeq(meant, 1, begun)
        stored == {k \in DOMAIN fields : ~meant[k].plain /\ meant[k].conv = "n"}
    IN  /\ begun <= Len(meant)
        /\ p = 1 + Len(TextOfAll(past)) /\ taken = Len(ArgsOfAll(past))
        /\ stage = "number" => printed = Asked(meant[begun])
        /\ \A k \in DOMAIN fields : FieldRight(meant[k], fields[k])
        /\ Len(counts) = Cardinality(stored)
        /\ \A k \in stored :
             LET before == {j \in stored : j < k}
             IN  counts[Cardinality(before) + 1] = Len(FlattenSeq(SubSeq(fields, 1, k - 1)))
        /\ stage = "done" => begun = Len(meant)

(* Whatever is called ends: the digits of a number come to an end, each     *)
(* division does, and the polling loop of putc.                             *)
CallsReturn == ~Idle ~> Idle
=============================================================================
