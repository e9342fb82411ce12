------------------------------- MODULE Board --------------------------------
(***************************************************************************)
(* The board: start-up and the boot sequence (Boot) with the exceptions    *)
(* that can come while it runs (Exceptions).                               *)
(*                                                                         *)
(* A handler touches nothing of what Boot is about and the program goes on  *)
(* when it returns, so exceptions are let come at one place of user_main.  *)
(***************************************************************************)
EXTENDS Boot, Exceptions

boardVars == <<bootVars, excVars>>

BoardInit == BootInit /\ ExcInit

(* user_main, in no handler. *)
Runs == Cpu /\ InProgram /\ UNCHANGED excVars

(* The handlers are in place once the image is. *)
Excepted == stage = "main" /\ ExcNext /\ UNCHANGED bootVars

(* A reset takes the CPU out of any handler. *)
ResetBoard ==
  /\ (Reset \/ WatchdogReset)
  /\ here' = <<"program", "a">> /\ regs' = 0 /\ cpsr' = Masked
  /\ spsr' = [m \in Modes |-> Masked]
  /\ sp' = [m \in Modes |-> IF m = "svc" THEN ProgramStack ELSE 0]
  /\ lr' = [m \in Modes |-> IF m = "svc" THEN <<"program", "a">> ELSE Nowhere]
  /\ frames' = << >> /\ saved' = <<Nowhere, Masked>>
  /\ trap' = NoTrap /\ raised' = 0
  /\ left' = Context'

BoardNext == Runs \/ Excepted \/ ResetBoard

BoardSpec == BoardInit /\ [][BoardNext]_boardVars

Handles == Handler /\ stage = "main" /\ UNCHANGED bootVars

(* The CPU runs on, in the program and in a handler, whenever it is not     *)
(* reset: there are finitely many exceptions and resets from outside, and   *)
(* Work is not all the program does.                                        *)
BoardFairSpec == BoardSpec /\ SF_boardVars(Runs) /\ WF_boardVars(Handles)
=============================================================================
