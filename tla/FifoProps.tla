------------------------------ MODULE FifoProps ------------------------------
(***************************************************************************)
(* What users of the byte queue rely on.                                   *)
(***************************************************************************)
EXTENDS Fifo

(* The items in the array: where pop will start to read each of them, if it *)
(* reads them one after the other, and what it will find there.             *)
StartOf[k \in 1..Len(lens)] ==
  IF k = 1 THEN bp ELSE After(StartOf[k-1], lens[k-1])
Stored ==
  [k \in 1..Len(lens) |-> [j \in 1..lens[k] |-> mem[Cell(StartOf[k], j - 1)]]]

(* push and pop implement a bounded queue of items: whatever was pushed     *)
(* stays in the array, unharmed by later pushes, until it is popped, in     *)
(* order, although the loops skip bytes when they wrap and use the byte     *)
(* behind the array.                                                        *)
Queue == INSTANCE ItemQueue WITH queue <- Stored
ImplementsQueue == Queue!Spec
-----------------------------------------------------------------------------
(***************************************************************************)
(* The inductive invariant of the proofs, for queues whose items all have  *)
(* one length: the array is a ring of places for an item.  Place 0 is only *)
(* used until the pointers wrap for the first time; the last place may be  *)
(* in two parts, behind the others and in place 0.                         *)
(***************************************************************************)
SameLengths == \A d \in Decls : \A x, y \in d.lens : x = y

ItemLen == IF decl.lens = {} THEN 1 ELSE CHOOSE len \in decl.lens : TRUE
LastPlace == (decl.cap + 1) \div ItemLen

(* k places behind place i *)
Place(i, k) == IF i + k <= LastPlace THEN i + k ELSE i + k - LastPlace

PlacesInv ==
  /\ decl \in Decls /\ DOMAIN mem = 0..decl.cap
  /\ lens = [k \in 1..Len(lens) |-> ItemLen] /\ Len(lens) \in Nat
  /\ Len(lens) * ItemLen <= decl.cap
  /\ size = decl.cap - Len(lens) * ItemLen
  /\ \E i \in 0..LastPlace : bp = i * ItemLen /\ tp = Place(i, Len(lens)) * ItemLen
=============================================================================
