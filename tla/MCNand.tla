------------------------------- MODULE MCNand -------------------------------
(* Nand with pages of 4 bytes addressed by binary cycles, so that all five *)
(* address cycles carry information; byte n of the flash is the number n.  *)
EXTENDS NandProps

MCFlash == [n \in 0..PageSize*Pages-1 |-> n]
(* An empty read, one inside a page, one that starts in the middle of a    *)
(* page and ends in the middle of another, one of whole pages, and one     *)
(* that ends with the last byte of the chip.                               *)
MCRequests == [addr : {0, 3, 13, 22}, len : {0, 1, 6, 10}]
=============================================================================
