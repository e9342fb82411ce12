---------------------------- MODULE MCContainers ----------------------------
(* The two containers that do not know of each other: the byte queue, every *)
(* one of at most seven bytes with items of one length, which divides the   *)
(* capacity, or the capacity and the byte behind it, or neither; and two    *)
(* list heads with three entries.  A behaviour is one of the queue or one   *)
(* of the lists.                                                            *)
EXTENDS FifoProps, ListsProps

OneLength == [cap : 3..7, lens : {{1}, {2}, {3}}]

(* What the proofs assume of the queues. *)
ASSUME QueuesAssumption == SameLengths

VARIABLE used

mcVars == <<vars, listVars, used>>

MCInit == /\ used \in {"queue", "lists"}
          /\ Init /\ ListsInit
          /\ used = "lists" => decl = [cap |-> 3, lens |-> {1}] /\ mem[0] = 0

MCNext == \/ used = "queue" /\ Next /\ UNCHANGED <<listVars, used>>
          \/ used = "lists" /\ ListsNext /\ UNCHANGED <<vars, used>>

MCSpec == MCInit /\ [][MCNext]_mcVars
=============================================================================
