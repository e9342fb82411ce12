----------------------------- MODULE ItemQueue -----------------------------
(***************************************************************************)
(* What push and pop of lib/FIFO.c promise: a queue of items bounded by    *)
(* the bytes they take together.  An item that does not fit is refused, so *)
(* is a pop from an empty queue, and a refused call changes nothing.       *)
(***************************************************************************)
EXTENDS Integers, Sequences

CONSTANTS Decls,      \* the queues: [cap |-> bytes, lens |-> lengths of items]
          Byte        \* the values of a byte

VARIABLES decl,       \* the queue that was declared, for good
          queue,      \* the items, oldest first
          answer      \* what the last call returned and gave

vars == <<decl, queue, answer>>

Bytes(q) ==
  LET sum[k \in 0..Len(q)] == IF k = 0 THEN 0 ELSE sum[k-1] + Len(q[k])
  IN  sum[Len(q)]

Init == decl \in Decls /\ queue = <<>> /\ answer = <<0, <<>>>>

Push(item) == \/ /\ Bytes(queue) + Len(item) <= decl.cap
                 /\ queue' = Append(queue, item)
                 /\ answer' = <<0, <<>>>>
              \/ /\ Bytes(queue) + Len(item) > decl.cap
                 /\ answer' = <<-1, <<>>>>
                 /\ UNCHANGED queue

Pop == \/ /\ queue # <<>>
          /\ answer' = <<0, Head(queue)>>
          /\ queue' = Tail(queue)
       \/ /\ queue = <<>>
          /\ answer' = <<-1, <<>>>>
          /\ UNCHANGED queue

Next == /\ UNCHANGED decl
        /\ \/ \E len \in decl.lens : \E item \in [1..len -> Byte] : Push(item)
           \/ Pop

Spec == Init /\ [][Next]_vars
=============================================================================
