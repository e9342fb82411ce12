----------------------------- MODULE MCConsole ------------------------------
(* Longs of eight bits and shorts of four, so that numbers have one to three *)
(* digits.  A behaviour is one of                                           *)
(*  - one printf, of an integer with any flags and fields narrower and wider *)
(*    than its digits: zero, the power of a base, the most negative number   *)
(*    and the one before it;                                                 *)
(*  - one printf of two pieces, each of every kind: widths and precisions as *)
(*    numbers and as arguments, negative ones, strings that are null, longer *)
(*    and shorter than their field, a NUL, and formats that end inside a     *)
(*    conversion;                                                            *)
(*  - calls of everything, one after the other: strings that are empty, of   *)
(*    two characters, and of one with bytes behind its end; numbers at the   *)
(*    ends of their range and with every digit different, among them ones    *)
(*    putdec has no place for; and two printfs;                              *)
(*  - a division by any word of eight bits, a multiple of four as 32 is, of *)
(*    every word that ends in two equal bits: both loops shift, the second   *)
(*    up to its limit, and the last pass has one to four bits left.          *)
EXTENDS ConsoleProps

MCCodeOf == [c \in {"z"} |-> 35]
MCDivisions == {w \in Word : w % 4 \in {0, 3}} \X Word

Conv(conv) ==
  [plain |-> FALSE, conv |-> conv, flags |-> <<>>, width |-> Absent, precision |-> Absent,
   star |-> {}, qualifier |-> <<>>, val |-> 0, str |-> <<>>]
Plain(c) == [Conv(c) EXCEPT !.plain = TRUE]
Str(s) == [Conv("s") EXCEPT !.str = s]

FlagSeqs == {<<>>, <<"-">>, <<"+">>, <<" ">>, <<"#">>, <<"0">>, <<"0", "-">>, <<"+", " ">>,
             <<" ", "0">>, <<"#", "0">>, <<"0", "+">>, <<"-", "#">>, <<" ", "-">>,
             <<"#", "+", "0">>, <<"-", "#", "0">>, <<"-", "0", "+", " ", "#">>}
Numbers ==
  {<<[Conv(c) EXCEPT !.flags = f, !.width = w, !.precision = r, !.qualifier = q, !.val = v]>> :
     c \in {"d", "u", "o", "x", "X"}, f \in FlagSeqs, w \in {Absent, 3, 7},
     r \in {Absent, 0, 5}, q \in {<<>>, <<"h">>}, v \in {0, 8, 127, 128, 200}}

Pieces ==
  {Plain("z"), Conv("%"), Conv("z"), Conv("n"), Conv("i"),
   [Conv("n") EXCEPT !.qualifier = <<"l">>],
   [Conv("c") EXCEPT !.val = 12], [Conv("c") EXCEPT !.val = Nul],
   [Conv("c") EXCEPT !.val = 12, !.width = 3, !.flags = <<"-", "0">>],
   [Conv("c") EXCEPT !.val = 12, !.width = 2],
   Str(<<10, 11>>), Str(NullString), [Str(<<10, 11>>) EXCEPT !.width = 1, !.precision = 0],
   [Str(<<10, 11>>) EXCEPT !.width = 4, !.precision = 1],
   [Str(<<10, 11>>) EXCEPT !.width = -3, !.star = {"width"}],
   [Str(<<10, 11, 12>>) EXCEPT !.precision = 2, !.star = {"precision"}],
   [Str(<<10>>) EXCEPT !.width = 3, !.precision = 4, !.star = {"width", "precision"}],
   [Conv("d") EXCEPT !.val = -12, !.width = 12, !.qualifier = <<"l">>],
   [Conv("d") EXCEPT !.val = -12, !.width = -6, !.star = {"width"}, !.flags = <<"+">>],
   [Conv("x") EXCEPT !.val = 161, !.width = 4, !.precision = 3, !.star = {"width", "precision"}],
   [Conv("p") EXCEPT !.val = 10], [Conv("p") EXCEPT !.val = 10, !.width = 5]}
Ends ==
  {Conv(Eof), [Conv(Eof) EXCEPT !.width = 5], [Conv(Eof) EXCEPT !.flags = <<"-", "#">>],
   [Conv(Eof) EXCEPT !.precision = 3, !.star = {"precision"}, !.qualifier = <<"h">>]}
Pairs == {<<a, b>> : a \in Pieces, b \in Pieces \cup Ends} \cup {<<>>}

MCPrints == Numbers \cup Pairs
MCBuffers == {<<0>>, <<65, 66, 0>>, <<66, 0, 67>>}
(* TLC's integers have 32 bits with the sign: the top bit stays 0. *)
MCHexes == {0, 305441741, 2147483647}          \* 0x1234abcd
MCDecimals == {0, 9, 10, 12345, 99999, 100000, -1, -1000000}
TwoPrints == {<<Plain("z"), [Conv("d") EXCEPT !.val = 8]>>, <<Str(<<10, 11>>)>>}

VARIABLE used

MCInit == used \in {"printf", "calls", "divide"} /\ ConsoleInit

MCNext ==
  /\ UNCHANGED used
  /\ \/ used = "printf" /\ ~opened /\ UartOpen /\ UNCHANGED <<udivVars, numberVars, formatVars>>
     \/ used = "printf" /\ Idle /\ asked = <<>> /\ opened /\ \E pieces \in Prints : Printf(pieces)
     \/ used = "calls" /\ Idle /\ Len(asked) < 10 /\ opened /\ \E pieces \in TwoPrints : Printf(pieces)
     \/ used = "calls" /\ OtherCalls /\ Len(asked') < 12
     \/ used = "divide" /\ <<arg1, arg2>> = <<0, 0>> /\ Divides
     \/ Cpu \/ Reads \/ Transmits

MCSpec == MCInit /\ [][MCNext]_<<consoleVars, used>> /\ ConsoleFair
=============================================================================
