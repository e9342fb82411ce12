------------------------------- MODULE Number -------------------------------
(***************************************************************************)
(* lib/printf.c: how vsprintf's integer conversions and number() write an  *)
(* integer, and how simple_strtoul and simple_strtol read one.             *)
(*                                                                         *)
(* Characters are numbers: a digit or letter is its value, the others are  *)
(* negative.  Small and capital letters are one, but for the x of 0x, which *)
(* simple_strtoul tells apart.                                             *)
(***************************************************************************)
EXTENDS Udiv, Sequences, FiniteSets, SequencesExt

CONSTANTS
  HalfBits,         \* bits of a short; a long is a Word
  Divisions,        \* <<dividend, divisor>> of divisions elsewhere in the program
  NoConversion      \* when no number is printed

Space == -1
Minus == -2
Plus == -3
SmallX == -4
CapitalX == -5

Signed(w, bits) == IF w >= Bit[bits - 1] THEN w - Bit[bits] ELSE w
Absent == -1      \* no field width, no precision

(* What number() is asked to print: val with the flags and so on of vsprintf. *)
Conversions ==
  [conv : {"d", "u", "o", "x", "X"}, half : BOOLEAN, width : {Absent} \cup Nat,
   precision : {Absent} \cup Nat, flags : SUBSET {"-", "+", " ", "#", "0"}, val : Word]

ASSUME NumberAssumption ==
  /\ HalfBits \in 1..Bits
  /\ Bits > 4                     \* 16 is a word
  /\ NoConversion \notin Conversions
  /\ Divisions \subseteq Word \X Word

VARIABLES
  printed,  \* what is printed, or NoConversion
  at,       \* "idle", "number" in its loop, "dividing" in __udivsi3, "printed"
  num, tmp, \* locals of number(): what is left, the digits so far
  text,     \* the characters number() wrote
  base,     \* the base they were read in, if they were
  value     \* what simple_strtol (after %d) or simple_strtoul makes of them

numberVars == <<printed, at, num, tmp, text, base, value>>

-----------------------------------------------------------------------------
Base(conv) == IF conv = "o" THEN 8 ELSE IF conv \in {"x", "X"} THEN 16 ELSE 10

(* The argument as number() gets it, a long: an h takes a short of it.      *)
ArgumentOf(c) ==
  LET short == c.val % Bit[HalfBits]
  IN  Signed(IF ~c.half THEN c.val
             ELSE IF c.conv = "d" THEN Signed(short, HalfBits) % Bit[Bits] ELSE short, Bits)

SignOf(c) ==
  IF c.conv # "d" THEN <<>>
  ELSE IF ArgumentOf(c) < 0 THEN <<Minus>>
  ELSE IF "+" \in c.flags THEN <<Plus>>
  ELSE IF " " \in c.flags THEN <<Space>> ELSE <<>>

PrefixOf(c) ==
  IF "#" \notin c.flags \/ Base(c.conv) = 10 THEN <<>>
  ELSE IF c.conv = "o" THEN <<0>>
  ELSE <<0, IF c.conv = "X" THEN CapitalX ELSE SmallX>>

(* Mutant: the width of the sign is not taken off the field. *)
PaddingSignFree(width, sign, prefix, digitWidth) ==
  IF width > Len(prefix) + digitWidth THEN width - Len(prefix) - digitWidth ELSE 0

(* What is left of size to be filled. *)
Padding(width, sign, prefix, digitWidth) ==
  LET used == Len(sign) + Len(prefix) + digitWidth
  IN  IF width > used THEN width - used ELSE 0

Times(n, char) == [k \in 1..n |-> char]

(* What number() writes around the digits: blanks, sign, prefix, zeros,      *)
(* digits, blanks.  A field filled up on the right takes no zeros.          *)
NumberText(c, digits) ==
  LET sign == SignOf(c)
      digitWidth == IF Len(digits) > c.precision THEN Len(digits) ELSE c.precision
      padding == Padding(c.width, sign, PrefixOf(c), digitWidth)
      left == "-" \in c.flags
      zeros == "0" \in c.flags /\ ~left
  IN  Times(IF left \/ zeros THEN 0 ELSE padding, Space)
        \o sign \o PrefixOf(c)
        \o Times((IF zeros THEN padding ELSE 0) + digitWidth - Len(digits), 0)
        \o digits
        \o Times(IF left THEN padding ELSE 0, Space)

-----------------------------------------------------------------------------
(* A 0x in front: an x is one only if a digit follows. *)
HexPrefix(s) == Len(s) > 2 /\ s[1] = 0 /\ s[2] = SmallX /\ s[3] \in 0..15

(* Mutant: a leading zero makes the number octal whatever base is given. *)
BaseOfOctal(s, given) ==
  IF HexPrefix(s) THEN 16
  ELSE IF Len(s) > 0 /\ s[1] = 0 THEN 8
  ELSE IF given # 0 THEN given ELSE 10

BaseOf(s, given) ==
  IF HexPrefix(s) THEN 16
  ELSE IF given # 0 THEN given
  ELSE IF Len(s) > 0 /\ s[1] = 0 THEN 8 ELSE 10

(* How many digits below b there are from first on. *)
RunLength(s, first, b) ==
  Cardinality({k \in first..Len(s) : \A j \in first..k : s[j] \in 0..b-1})

(* simple_strtoul: the digits up to the first character that is none. *)
Strtoul(s, given) ==
  LET b == BaseOf(s, given)
      first == IF HexPrefix(s) THEN 3 ELSE 1
      read[k \in 0 .. RunLength(s, first, b)] ==
        IF k = 0 THEN 0 ELSE (read[k - 1] * b + s[first + k - 1]) % Bit[Bits]
  IN  read[RunLength(s, first, b)]

(* simple_strtol *)
Strtol(s, given) ==
  IF Len(s) > 0 /\ s[1] = Minus
  THEN Signed((-Strtoul(Tail(s), given)) % Bit[Bits], Bits)
  ELSE Signed(Strtoul(s, given), Bits)

-----------------------------------------------------------------------------
(* The most negative long is its own absolute value; do_div takes it as     *)
(* unsigned.                                                                *)
Magnitude(c) ==
  (IF SignOf(c) = <<Minus>> THEN -ArgumentOf(c) ELSE ArgumentOf(c)) % Bit[Bits]

NumberInit ==
  /\ printed = NoConversion /\ at = "idle"
  /\ num = 0 /\ tmp = <<>> /\ text = <<>> /\ base = Absent /\ value = 0
  /\ pc = "done" /\ result = 0 /\ curbit = 0
  /\ arg1 = 0 /\ arg2 = 0 /\ dividend = 0 /\ divisor = 0

(* The program divides elsewhere. *)
DivideElsewhere ==
  /\ at = "idle" /\ pc = "done"
  /\ \E d \in Divisions : Udivsi3(d[1], d[2])
  /\ UNCHANGED numberVars

(* number() is called... *)
NumberCall(c) ==
  /\ at = "idle" /\ pc = "done"
  /\ printed' = c /\ num' = Magnitude(c) /\ tmp' = <<>>
  /\ at' = "number"
  /\ UNCHANGED <<udivVars, text, base, value>>

(* do_div: the remainder, which the compiler's own __umodsi3 computes, is   *)
(* the next digit; __udivsi3 is called for the quotient...                  *)
TakeDigit ==
  /\ at = "number" /\ num # 0
  /\ tmp' = Append(tmp, num % Base(printed.conv))
  /\ at' = "dividing"
  /\ Udivsi3(num, Base(printed.conv))
  /\ UNCHANGED <<printed, num, text, base, value>>

Divide == UdivNext /\ UNCHANGED numberVars

(* ... which is what is left. *)
Divided ==
  /\ at = "dividing" /\ pc = "done" /\ printed # NoConversion
  /\ num' = result
  /\ at' = "number"
  /\ UNCHANGED <<udivVars, printed, tmp, text, base, value>>

(* With nothing left the digits are written, a 0 if there were none. *)
Write ==
  /\ at = "number" /\ num = 0
  /\ text' = NumberText(printed, IF tmp = <<>> THEN <<0>> ELSE Reverse(tmp))
  /\ at' = "printed"
  /\ UNCHANGED <<udivVars, printed, num, tmp, base, value>>

(* A program reads the text, in the base it was printed in or in the one    *)
(* its prefix tells (0).                                                    *)
Read(given) ==
  /\ at = "printed" /\ base = Absent /\ given \in {0, Base(printed.conv)}
  /\ base' = given
  /\ value' = IF printed.conv = "d" THEN Strtol(text, given) ELSE Strtoul(text, given)
  /\ UNCHANGED <<udivVars, printed, at, num, tmp, text>>

(* The caller has its text. *)
NumberReturn ==
  /\ at = "printed"
  /\ at' = "idle" /\ printed' = NoConversion
  /\ tmp' = <<>> /\ text' = <<>> /\ base' = Absent /\ value' = 0
  /\ UNCHANGED <<udivVars, num>>

NumberStep == TakeDigit \/ Divide \/ Divided \/ Write

NumberNext ==
  \/ \E c \in Conversions : NumberCall(c)
  \/ DivideElsewhere \/ NumberStep \/ NumberReturn
  \/ \E given \in {0, 8, 10, 16} : Read(given)

NumberSpec == NumberInit /\ [][NumberNext]_<<udivVars, numberVars>>
=============================================================================
