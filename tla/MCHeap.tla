------------------------------- MODULE MCHeap -------------------------------
(* The heap of main's loop in small: every request is sizeof(int), and the  *)
(* heap has room for a few blocks and a remainder shorter than a header.    *)
EXTENDS HeapProps

(* What the proofs assume of the requests. *)
ASSUME RequestsAssumption == SameBlocks
=============================================================================
