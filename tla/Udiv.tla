-------------------------------- MODULE Udiv --------------------------------
(***************************************************************************)
(* lib/_udivsi3.S: unsigned division by shifting and subtracting, which    *)
(* the compiler calls for / and % (printf's do_div among others).          *)
(*                                                                         *)
(* One step per pass through a loop.  Words have Bits bits, 32 on the ARM;  *)
(* the two constants the code compares with are the top four bits' and the *)
(* top bit's weight.                                                       *)
(***************************************************************************)
EXTENDS Integers

CONSTANT Bits

ASSUME BitsAssumption == Bits \in Nat /\ Bits >= 4

(* The weights of the bits, and that of the first bit a word has no place for. *)
Bit[n \in 0..Bits] == IF n = 0 THEN 1 ELSE 2 * Bit[n - 1]

Word == 0 .. Bit[Bits] - 1

VARIABLES
  pc,                           \* "start", a label of the loops, or "done"
  arg1, arg2,                   \* the arguments
  dividend, divisor,            \* r0 and r1
  result, curbit                \* r2 and r3

udivVars == <<pc, arg1, arg2, dividend, divisor, result, curbit>>

-----------------------------------------------------------------------------
Lsl(x, n) == (x * Bit[n]) % Bit[Bits]
Lsr(x, n) == x \div Bit[n]

(* orr with a word that has one bit or none. *)
Orr(x, bit) == IF bit = 0 \/ (x \div bit) % 2 = 1 THEN x ELSE x + bit

(* A call: the registers of result and curbit hold anything. *)
Udivsi3(x, y) ==
  /\ pc' = "start"
  /\ arg1' = x /\ arg2' = y
  /\ dividend' = x /\ divisor' = y
  /\ UNCHANGED <<result, curbit>>

(* From the entry to Loop1; Ldiv0 returns 0 after __div0. *)
Entry ==
  /\ pc = "start"
  /\ UNCHANGED <<arg1, arg2, dividend, divisor>>
  /\ \/ divisor = 0 /\ pc' = "done" /\ result' = 0 /\ UNCHANGED curbit
     \/ /\ divisor # 0
        /\ result' = 0 /\ curbit' = 1
        /\ pc' = IF dividend < divisor THEN "done" ELSE "Loop1"

(* The divisor goes up by four bits while it is below the dividend... *)
Loop1 ==
  /\ pc = "Loop1"
  /\ \/ /\ divisor < Bit[Bits - 4] /\ divisor < dividend
        /\ divisor' = Lsl(divisor, 4) /\ curbit' = Lsl(curbit, 4)
        /\ UNCHANGED pc
     \/ /\ ~(divisor < Bit[Bits - 4] /\ divisor < dividend)
        /\ pc' = "Lbignum"
        /\ UNCHANGED <<divisor, curbit>>
  /\ UNCHANGED <<arg1, arg2, dividend, result>>

(* Mutant: curbit is not shifted with the divisor. *)
LbignumBare ==
  /\ pc = "Lbignum"
  /\ \/ /\ divisor < Bit[Bits - 1] /\ divisor < dividend
        /\ divisor' = Lsl(divisor, 1)
        /\ UNCHANGED <<pc, curbit>>
     \/ /\ ~(divisor < Bit[Bits - 1] /\ divisor < dividend)
        /\ pc' = "Loop3"
        /\ UNCHANGED <<divisor, curbit>>
  /\ UNCHANGED <<arg1, arg2, dividend, result>>

(* ... and then bit by bit. *)
Lbignum ==
  /\ pc = "Lbignum"
  /\ \/ /\ divisor < Bit[Bits - 1] /\ divisor < dividend
        /\ divisor' = Lsl(divisor, 1) /\ curbit' = Lsl(curbit, 1)
        /\ UNCHANGED pc
     \/ /\ ~(divisor < Bit[Bits - 1] /\ divisor < dividend)
        /\ pc' = "Loop3"
        /\ UNCHANGED <<divisor, curbit>>
  /\ UNCHANGED <<arg1, arg2, dividend, result>>

(* One subtraction: of the divisor shifted right by n. *)
Subtract(s, n) ==
  LET d == Lsr(divisor, n)
  IN  IF s.left >= d THEN [left |-> s.left - d, found |-> Orr(s.found, Lsr(curbit, n))]
      ELSE s

Subtracted ==
  Subtract(Subtract(Subtract(Subtract([left |-> dividend, found |-> result], 0), 1), 2), 3)

(* Mutant: a pass ends the division only when nothing is left. *)
Loop3NoBitTest ==
  LET s == Subtracted
      more == s.left # 0
  IN  /\ pc = "Loop3"
      /\ dividend' = s.left /\ result' = s.found
      /\ curbit' = IF s.left # 0 THEN Lsr(curbit, 4) ELSE curbit
      /\ divisor' = IF more THEN Lsr(divisor, 4) ELSE divisor
      /\ pc' = IF more THEN "Loop3" ELSE "done"
      /\ UNCHANGED <<arg1, arg2>>

(* A pass of four subtractions; the next one is for the four bits below, if *)
(* something is left and there are bits below.                              *)
Loop3 ==
  LET s == Subtracted
      more == s.left # 0 /\ Lsr(curbit, 4) # 0
  IN  /\ pc = "Loop3"
      /\ dividend' = s.left /\ result' = s.found
      /\ curbit' = IF s.left # 0 THEN Lsr(curbit, 4) ELSE curbit
      /\ divisor' = IF more THEN Lsr(divisor, 4) ELSE divisor
      /\ pc' = IF more THEN "Loop3" ELSE "done"
      /\ UNCHANGED <<arg1, arg2>>

UdivNext == Entry \/ Loop1 \/ Lbignum \/ Loop3
=============================================================================
