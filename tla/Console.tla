------------------------------ MODULE Console -------------------------------
(***************************************************************************)
(* printf down to the line: vsprintf fills printbuffer, and device_write   *)
(* of the TTY's descriptor is uart_write.  Driver has how printf comes to  *)
(* that descriptor.  Beside it the callers of uart_write, puthex and       *)
(* putdec, and the program's own divisions.                                *)
(***************************************************************************)
EXTENDS Format, Uart

CONSTANT Prints      \* what printf is called for: sequences of pieces

(* What can be written as a format: a number in it has two digits at most,  *)
(* and a width does not begin with a 0, which is a flag; a character that   *)
(* continues a conversion does not end it; and a format can end inside its  *)
(* last piece alone.                                                        *)
IsPiece(piece) ==
  /\ piece.plain \in BOOLEAN
  /\ piece.plain => piece.conv \notin {"%", Eof} /\ piece.star = {}
  /\ ~piece.plain =>
       /\ piece.flags \in Seq(FlagChars)
       /\ piece.star \subseteq {"width", "precision"}
       /\ IF "width" \in piece.star THEN piece.width \in Int
          ELSE piece.width \in {Absent} \cup 1..99
       /\ IF "precision" \in piece.star THEN piece.precision \in Nat
          ELSE piece.precision \in {Absent} \cup 0..99
       /\ piece.qualifier \in {<<>>, <<"h">>, <<"l">>, <<"q">>}
       /\ piece.conv \notin FlagChars \cup Digits \cup {".", "*", "h", "l", "q"}
       /\ piece.val \in Int /\ piece.str \in Seq(Int)

IsFormat(pieces) ==
  /\ pieces \in Seq({pieces[k] : k \in DOMAIN pieces})
  /\ \A k \in DOMAIN pieces : /\ IsPiece(pieces[k])
                              /\ pieces[k].conv = Eof => k = Len(pieces)

ASSUME PrintsAssumption == \A pieces \in Prints : IsFormat(pieces)

consoleVars == <<udivVars, numberVars, formatVars, uartVars>>

ConsoleInit == NumberInit /\ FormatInit /\ UartInit

(* A character of Number as a byte. *)
Byte(c) ==
  IF c \in 0..9 THEN Zero + c
  ELSE IF c > 9 THEN c + 87
  ELSE CASE c = Space -> 32 [] c = Minus -> 45 [] c = Plus -> 43
         [] c = SmallX -> LetterX [] c = CapitalX -> 88
         [] c = Percent -> 37 [] c = Nul -> 0
         [] c = LessThan -> 60 [] c = GreaterThan -> 62
Printbuffer == [k \in 1 .. Len(Written) |-> Byte(Written[k])] \o <<0>>

-----------------------------------------------------------------------------
(* The CPU is in none of the functions below. *)
Idle == stage = "idle" /\ at = "idle" /\ pc = "done" /\ ~running

Printf(pieces) == Idle /\ Vsprintf(pieces) /\ UNCHANGED uartVars

Formats == FormatStep /\ UNCHANGED uartVars

(* device_write(tty_fd, 0, printbuffer, 0), and what uart_write does next.  *)
PrintfWrites ==
  /\ stage = "done"
  /\ Begin("printf", 0, StringOf(Printbuffer))
  /\ stage' = "idle" /\ meant' = <<>> /\ fmt' = <<>> /\ args' = <<>> /\ p' = 0
  /\ taken' = 0 /\ fields' = <<>> /\ counts' = <<>>
  /\ UNCHANGED <<udivVars, numberVars>>

OtherCalls == Idle /\ UartCalls /\ UNCHANGED <<udivVars, numberVars, formatVars>>
Divides == Idle /\ DivideElsewhere /\ UNCHANGED <<formatVars, uartVars>>

Sends == (Putc \/ Return) /\ UNCHANGED <<udivVars, numberVars, formatVars>>
Transmits == Transmit /\ UNCHANGED <<udivVars, numberVars, formatVars>>

(* A program that reads numbers gets what is printed to read. *)
Reads == \E given \in {0, 8, 10, 16} : Read(given) /\ UNCHANGED <<formatVars, uartVars>>

Cpu == Formats \/ PrintfWrites \/ Sends

ConsoleNext ==
  \/ \E pieces \in Prints : Printf(pieces)
  \/ OtherCalls \/ Divides \/ Reads
  \/ Cpu \/ Transmits

(* The CPU keeps running what was called, and the transmitter shifts its    *)
(* character out.                                                           *)
ConsoleFair == WF_consoleVars(Cpu) /\ WF_consoleVars(Transmits)

ConsoleSpec == ConsoleInit /\ [][ConsoleNext]_consoleVars /\ ConsoleFair
=============================================================================
