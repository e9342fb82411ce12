------------------------------ MODULE MCBoard ------------------------------
(* Command lines that end in the first, in the last and behind the last byte *)
(* of a word, over memory full of small sizes and over the list of the boot  *)
(* before; one reset from outside and two exceptions after each.             *)
EXTENDS BoardProps

MCOldWords == {3}
MCStart == 871890944        \* 0x33f80000, easy-boot.lds
=============================================================================
