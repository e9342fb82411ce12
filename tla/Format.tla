------------------------------- MODULE Format -------------------------------
(***************************************************************************)
(* lib/printf.c: vsprintf, which walks over a format and an argument list  *)
(* and calls number() for the integers.                                    *)
(*                                                                         *)
(* A format is a sequence of characters; what is written consists of the   *)
(* characters of Number.  str - buf is the length of what is written.      *)
(***************************************************************************)
EXTENDS Number

CONSTANT
  CodeOf        \* the characters of formats other than digits, as written

ASSUME CodeAssumption == \A c \in DOMAIN CodeOf : CodeOf[c] \in Int

Percent == -6
Nul == -7             \* a byte of zero; the terminator of a format is Eof
Eof == "end"
FlagChars == {"-", "+", " ", "#", "0"}
DigitChars == <<"0", "1", "2", "3", "4", "5", "6", "7", "8", "9">>
NullString == <<Nul, Nul>>          \* a null pointer as a string
LessThan == -8
GreaterThan == -9
NullText == <<LessThan, 23, 30, 21, 21, GreaterThan>>      \* "<NULL>"

VARIABLES
  stage,    \* "idle", "text", "number" while number() runs, "done"
  meant,    \* what the caller wants to be written, piece by piece
  fmt,      \* the format it is written as, with its terminator
  args,     \* the arguments, as an integer or a string: [int, str]
  p,        \* index of the character fmt points to
  taken,    \* how many arguments va_arg has given
  fields,   \* what has been written for each conversion and character
  counts    \* what %n has stored

formatVars == <<stage, meant, fmt, args, p, taken, fields, counts>>

FormatInit ==
  /\ stage = "idle" /\ meant = <<>> /\ fmt = <<>> /\ args = <<>> /\ p = 0 /\ taken = 0
  /\ fields = <<>> /\ counts = <<>>

Written == FlattenSeq(fields)

(* A piece is a character (conv) that stands for itself, or a conversion of *)
(* val or str; star tells which of width and precision are arguments.       *)
Numeral(n) ==
  IF n < 10 THEN <<DigitChars[n + 1]>> ELSE <<DigitChars[(n \div 10) + 1], DigitChars[(n % 10) + 1]>>
Optional(piece, name, before) ==
  IF name \in piece.star THEN before \o <<"*">>
  ELSE IF piece[name] = Absent THEN <<>> ELSE before \o Numeral(piece[name])
TextOf(piece) ==
  IF piece.plain THEN <<piece.conv>>
  ELSE <<"%">> \o piece.flags \o Optional(piece, "width", <<>>)
         \o Optional(piece, "precision", <<".">>) \o piece.qualifier
         \o (IF piece.conv = Eof THEN <<>> ELSE <<piece.conv>>)

IntegerChars == {"d", "i", "u", "o", "x", "X", "p"}
Takes == IntegerChars \cup {"c", "s", "n"}
ArgsOf(piece) ==
  LET int(n) == <<[int |-> n, str |-> <<>>]>>
  IN  (IF "width" \in piece.star THEN int(piece.width) ELSE <<>>)
        \o (IF "precision" \in piece.star THEN int(piece.precision) ELSE <<>>)
        \o (IF ~piece.plain /\ piece.conv \in Takes
            THEN <<[int |-> piece.val, str |-> piece.str]>> ELSE <<>>)

TextOfAll(pieces) == FlattenSeq([k \in DOMAIN pieces |-> TextOf(pieces[k])])
ArgsOfAll(pieces) == FlattenSeq([k \in DOMAIN pieces |-> ArgsOf(pieces[k])])

Vsprintf(pieces) ==
  /\ stage = "idle" /\ at = "idle" /\ pc = "done"
  /\ meant' = pieces
  /\ fmt' = Append(TextOfAll(pieces), Eof) /\ args' = ArgsOfAll(pieces)
  /\ stage' = "text" /\ p' = 1 /\ taken' = 0 /\ fields' = <<>> /\ counts' = <<>>
  /\ UNCHANGED <<udivVars, numberVars>>

-----------------------------------------------------------------------------
(* The parts of a conversion, each from where x stands on. *)

(* How many characters from k on are in a set. *)
RunOf(set, k) ==
  Cardinality({j \in k .. Len(fmt) : \A i \in k..j : fmt[i] \in set})

Digits == {DigitChars[k] : k \in 1..10}
DigitValue(c) == (CHOOSE k \in 1..10 : DigitChars[k] = c) - 1

(* skip_atoi *)
SkipAtoi(k) ==
  LET i[n \in 0 .. RunOf(Digits, k)] ==
        IF n = 0 THEN 0 ELSE i[n - 1] * 10 + DigitValue(fmt[k + n - 1])
  IN  i[RunOf(Digits, k)]

Flags(x) ==
  LET run == RunOf(FlagChars, x.p)
  IN  [x EXCEPT !.p = @ + run, !.flags = {fmt[x.p + j] : j \in 0 .. run - 1}]

(* Mutant: a negative width makes the field as wide as it says. *)
FieldWidthSigned(x) ==
  IF fmt[x.p] \in Digits
  THEN [x EXCEPT !.p = @ + RunOf(Digits, x.p), !.width = SkipAtoi(x.p)]
  ELSE IF fmt[x.p] = "*"
  THEN [x EXCEPT !.p = @ + 1, !.taken = @ + 1, !.width = args[x.taken + 1].int]
  ELSE x

FieldWidth(x) ==
  IF fmt[x.p] \in Digits
  THEN [x EXCEPT !.p = @ + RunOf(Digits, x.p), !.width = SkipAtoi(x.p)]
  ELSE IF fmt[x.p] = "*"
  THEN LET w == args[x.taken + 1].int
       IN  [x EXCEPT !.p = @ + 1, !.taken = @ + 1, !.width = IF w < 0 THEN -w ELSE w,
                     !.flags = IF w < 0 THEN @ \cup {"-"} ELSE @]
  ELSE x

Precision(x) ==
  LET k == x.p + 1
      star == args[x.taken + 1].int
  IN  IF fmt[x.p] # "." THEN x
      ELSE IF fmt[k] \in Digits
      THEN [x EXCEPT !.p = k + RunOf(Digits, k), !.precision = SkipAtoi(k)]
      ELSE IF fmt[k] = "*"
      THEN [x EXCEPT !.p = k + 1, !.taken = @ + 1, !.precision = IF star < 0 THEN 0 ELSE star]
      ELSE [x EXCEPT !.p = k, !.precision = 0]

Qualifier(x) ==
  IF fmt[x.p] \in {"h", "l", "q"} THEN [x EXCEPT !.p = @ + 1, !.qualifier = fmt[x.p]] ELSE x

(* The conversion behind the % at p (a set of it alone). *)
Conversion ==
  LET begin == [p |-> p + 1, taken |-> taken, flags |-> {}, width |-> Absent,
                precision |-> Absent, qualifier |-> " "]
  IN  {Qualifier(r) : r \in {Precision(w) : w \in {FieldWidth(f) : f \in {Flags(begin)}}}}

-----------------------------------------------------------------------------
(* A text in its field. *)
InField(x, s) ==
  LET blanks == Times(IF x.width > Len(s) THEN x.width - Len(s) ELSE 0, Space)
  IN  IF "-" \in x.flags THEN s \o blanks ELSE blanks \o s

(* At most precision characters of a string. *)
StringArgument(x) ==
  LET s == args[x.taken + 1].str
      all == IF s = NullString THEN NullText ELSE s
  IN  IF x.precision \in 0 .. Len(all) THEN SubSeq(all, 1, x.precision) ELSE all

(* The call of number() for an integer conversion or a pointer.             *)
IntegerOf(x, conv) ==
  [conv |-> IF conv = "i" THEN "d" ELSE IF conv = "p" THEN "x" ELSE conv,
   half |-> conv # "p" /\ x.qualifier = "h",
   width |-> IF conv = "p" /\ x.width = Absent THEN Bits \div 4 ELSE x.width,
   precision |-> x.precision,
   flags |-> IF conv = "p" /\ x.width = Absent THEN x.flags \cup {"0"} ELSE x.flags,
   val |-> args[x.taken + 1].int % Bit[Bits]]

(* What is written for a conversion that is none of integers, and the       *)
(* pointer after it; the character behind a % that begins no conversion is  *)
(* written as it is, if there is one.                                       *)
Emit(x, field, used) ==
  /\ fields' = Append(fields, field)
  /\ p' = x.p + 1 /\ taken' = x.taken + used
  /\ UNCHANGED <<stage, meant, fmt, args, udivVars, numberVars>>

Literal ==
  /\ stage = "text" /\ fmt[p] \notin {"%", Eof}
  /\ Emit([p |-> p, taken |-> taken], <<CodeOf[fmt[p]]>>, 0)
  /\ UNCHANGED counts

Convert ==
  /\ stage = "text" /\ fmt[p] = "%"
  /\ \E x \in Conversion :
       LET c == fmt[x.p]
       IN \/ c = "c" /\ Emit(x, InField(x, <<args[x.taken + 1].int>>), 1) /\ UNCHANGED counts
          \/ c = "s" /\ Emit(x, InField(x, StringArgument(x)), 1) /\ UNCHANGED counts
          \/ c = "n" /\ Emit(x, <<>>, 1) /\ counts' = Append(counts, Len(Written))
          \/ c = "%" /\ Emit(x, <<Percent>>, 0) /\ UNCHANGED counts
          \/ c = Eof /\ Emit([x EXCEPT !.p = @ - 1], <<Percent>>, 0) /\ UNCHANGED counts
          \/ /\ c \in IntegerChars
             /\ NumberCall(IntegerOf(x, c))
             /\ stage' = "number" /\ p' = x.p + 1 /\ taken' = x.taken + 1
             /\ UNCHANGED <<meant, fmt, args, fields, counts>>
          \/ /\ c \notin Takes \cup {"%", Eof}
             /\ Emit(x, <<Percent, CodeOf[c]>>, 0) /\ UNCHANGED counts

(* number() has written its field. *)
Converted ==
  /\ stage = "number"
  /\ NumberReturn
  /\ stage' = "text" /\ fields' = Append(fields, text)
  /\ UNCHANGED <<meant, fmt, args, p, taken, counts>>

VsprintfEnd ==
  /\ stage = "text" /\ fmt[p] = Eof
  /\ stage' = "done"
  /\ UNCHANGED <<meant, fmt, args, p, taken, fields, counts, udivVars, numberVars>>

FormatStep ==
  \/ Literal \/ Convert \/ Converted \/ VsprintfEnd
  \/ NumberStep /\ UNCHANGED formatVars
=============================================================================
