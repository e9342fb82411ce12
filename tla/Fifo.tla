-------------------------------- MODULE Fifo --------------------------------
(***************************************************************************)
(* lib/FIFO.c: a byte queue in an array, used through PUSH and POP of      *)
(* includes/FIFO.h with variables of the caller.                           *)
(*                                                                         *)
(* Addresses are offsets from fifo_base; fifo_top is the capacity, one     *)
(* behind the array.  The loops compare with > fifo_top, so that byte is    *)
(* used too: here it belongs to nobody else (the padding behind an array   *)
(* whose size is no multiple of four, as in the file's demo).              *)
(***************************************************************************)
EXTENDS Integers, Sequences

CONSTANTS
  Decls,    \* the queues: [cap |-> bytes, lens |-> lengths of what users push]
  Byte      \* the values of a byte

ASSUME DeclAssumption ==
  /\ Decls # {} /\ Decls \subseteq [cap : Nat \ {0}, lens : SUBSET (Nat \ {0})]
  /\ Byte # {}

VARIABLES
  decl,     \* the queue that was declared
  mem,      \* its array and the byte behind it
  tp, bp,   \* where push writes and where pop reads next
  size,     \* the bytes still free
  lens,     \* the lengths its users have pushed and not popped yet
  answer    \* what the last call returned, and what it stored for the caller

vars == <<decl, mem, tp, bp, size, lens, answer>>

Items(len) == [1..len -> Byte]

Init ==
  /\ decl \in Decls
  /\ \E b \in Byte : mem = [a \in 0..decl.cap |-> b]
  /\ tp = 0 /\ bp = 0
  /\ size = decl.cap
  /\ lens = <<>>
  /\ answer = <<0, <<>>>>

-----------------------------------------------------------------------------
(* The byte that round count of the loop in push or pop touches, when the   *)
(* pointer was p at the call: once p + count is past fifo_top the pointer   *)
(* is reset to the base, but count goes on.                                 *)
Cell(p, count) == IF p + count > decl.cap THEN count ELSE p + count

(* Mutant: the loop leaves the pointer at the base when it has wrapped. *)
AfterBase(p, len) == IF p + len - 1 > decl.cap THEN 0 ELSE p + len

(* The pointer after the call. *)
After(p, len) == IF p + len - 1 > decl.cap THEN len ELSE p + len

(* push *)
Push(item) ==
  LET len == Len(item)
  IN  /\ UNCHANGED <<decl, bp>>
      /\ \/ /\ size - len < 0
            /\ answer' = <<-1, <<>>>>
            /\ UNCHANGED <<mem, tp, size, lens>>
         \/ /\ size - len >= 0
            /\ size' = size - len
            /\ mem' = [a \in DOMAIN mem |->
                         LET rounds == {k \in 1..len : Cell(tp, k - 1) = a}
                         IN  IF rounds = {} THEN mem[a]
                             ELSE item[CHOOSE k \in rounds : \A j \in rounds : j <= k]]
            /\ tp' = After(tp, len)
            /\ lens' = Append(lens, len)
            /\ answer' = <<0, <<>>>>

(* pop. Users pop into a variable of the type of the oldest item, which     *)
(* they know; when there is none, of any type they use.                     *)
Pop(len) ==
  /\ UNCHANGED <<decl, mem, tp>>
  /\ \/ /\ size + len > decl.cap
        /\ answer' = <<-1, <<>>>>
        /\ UNCHANGED <<bp, size, lens>>
     \/ /\ size + len <= decl.cap
        /\ size' = size + len
        /\ answer' = <<0, [k \in 1..len |-> mem[Cell(bp, k - 1)]]>>
        /\ bp' = After(bp, len)
        /\ lens' = Tail(lens)

Next == \/ \E len \in decl.lens : \E item \in Items(len) : Push(item)
        \/ \E len \in decl.lens : (lens # <<>> => len = Head(lens)) /\ Pop(len)

Spec == Init /\ [][Next]_vars
=============================================================================
