------------------------------ MODULE HeapProps ------------------------------
(***************************************************************************)
(* What clients of malloc and free rely on.                                *)
(***************************************************************************)
EXTENDS Heap

(* The nodes of a list, head excluded: those before the walk is back. *)
Nodes(head) ==
  LET node == Chain(mem, head)
  IN  {node[k] : k \in {k \in 1..MaxWalk : \A j \in 1..k : node[j] # head}}

(* The words of a payload. *)
Payload(ptr, size) == {ptr + 4 * k : k \in 0 .. (size + 3) \div 4 - 1}

(* No walk of malloc or free ever loses its way, and none loops. *)
NeverLost == status # "lost"

(* Both lists are circular and doubly linked through headers that know      *)
(* where they are; the allocated list holds exactly the live blocks, the    *)
(* free list none of them, in ascending order, which mem_free's search      *)
(* depends on.                                                              *)
ListsSound ==
  /\ \A head \in {FreeList, AllocList} :
       /\ \E k \in 1..MaxWalk : Chain(mem, head)[k] = head
       /\ \A n \in Nodes(head) \cup {head} : PrevOf(mem, NextOf(mem, n)) = n
       /\ \A n \in Nodes(head) : Start(mem, n) = n - 8
  /\ Nodes(AllocList) = {p - 8 : p \in DOMAIN live}
  /\ Nodes(FreeList) \cap Nodes(AllocList) = {}
  /\ \A n \in Nodes(FreeList) :
       NextOf(mem, n) # FreeList => n < NextOf(mem, n)

(* Payloads lie inside the heap and apart from one another, from the list   *)
(* heads and from every header a list still reaches.                        *)
HeaderWords(n) == {n - 8, n - 4, n, n + 4}
LiveDisjoint ==
  \A p \in DOMAIN live :
    LET mine == Payload(p, live[p])
    IN  /\ mine \subseteq Base .. End - 4
        /\ \A q \in DOMAIN live \ {p} : mine \cap Payload(q, live[q]) = {}
        /\ \A n \in Nodes(FreeList) \cup Nodes(AllocList) :
             mine \cap HeaderWords(n) = {}

(* Neither call changes a word of a payload that stays allocated: what an   *)
(* owner wrote into its block is there until it frees it.                   *)
Untouched ==
  \A p \in DOMAIN live \cap DOMAIN live' :
    \A a \in Payload(p, live[p]) : mem'[a] = mem[a]
PayloadKept == [][Untouched]_vars

(* Freeing a block a second time is refused and changes nothing.            *)
Refused == call'[1] = "free" /\ call'[2] \in dead => UNCHANGED mem /\ call'[3] = -1
DoubleFreeRefused == [][Refused]_vars

(* "this function can find out the block which can fit the requested        *)
(* sizes" (lib/mm.c:45): malloc returns NULL only if no run of bytes        *)
(* outside the live blocks is long enough.                                  *)
InUse == UNION {(p - Header) .. (p - Header) + BlockSize(live[p]) - 1 :
                  p \in DOMAIN live}
FindsFittingBlock ==
  call[1] = "malloc" /\ call[3] = 0 =>
    \A a \in {Base + 4 * k : k \in 0 .. HeapSize \div 4} :
      LET run == a .. a + BlockSize(call[2]) - 1
      IN  run \subseteq Base .. End - 1 => run \cap InUse # {}
-----------------------------------------------------------------------------
(***************************************************************************)
(* The inductive invariant of the proofs, for requests that all need a     *)
(* block of the same size.  The memory is then cut into blocks from its    *)
(* start on: c of them have been handed out at some time, and a header     *)
(* stands at the beginning of each and of the rest behind them.  Nobody    *)
(* asks for 0 bytes: such a block ends where its payload starts, and free  *)
(* also accepts this address for the block behind it.                      *)
(***************************************************************************)
SameBlocks == 0 \notin Sizes /\ \A x, y \in Sizes : BlockSize(x) = BlockSize(y)

Block == BlockSize(CHOOSE size \in Sizes : TRUE)
Top == IF Block % 4 = 0 THEN HeapSize \div Block ELSE 0
Node(k) == Base + k * Block + 8
NodesBelow(c) == {Node(k) : k \in 0 .. c - 1}

(* A list of n nodes is a way p from its head to its head that visits each  *)
(* node once and can be gone back.                                          *)
Circle(m, head, p, n) ==
  /\ p[0] = head /\ p[n + 1] = head
  /\ \A k \in 0..n : NextOf(m, p[k]) = p[k + 1] /\ PrevOf(m, p[k + 1]) = p[k]
  /\ \A j, k \in 0..n : p[j] = p[k] => j = k
Stops(p, n) == {p[k] : k \in 1..n}

(* What malloc has left in a header: the flag of a block that was cut off,  *)
(* or 0 where the block before it was handed out once more and took all     *)
(* space of this one away, or the rest of the heap.                         *)
FlagOf(n, c) == IF n = Node(c) THEN {0, End + 8 - n} ELSE {0, Block + 1}

(* No block is in both lists; the free list is ordered, and its last block  *)
(* is the rest of the heap or fits no request.                              *)
Layout(c, f, nf, a, na) ==
  /\ nf + na <= c + 1
  /\ Circle(mem, FreeList, f, nf) /\ Circle(mem, AllocList, a, na)
  /\ Stops(f, nf) \subseteq NodesBelow(c + 1) /\ Stops(a, na) \subseteq NodesBelow(c)
  /\ Stops(f, nf) \cap Stops(a, na) = {}
  /\ \A n \in Stops(f, nf) \cup Stops(a, na) :
       Start(mem, n) = n - 8 /\ Flag(mem, n) \in FlagOf(n, c)
  /\ \A j, k \in 1..nf : j < k => f[j] < f[k]
  /\ f[nf] = Node(c) \/ Flag(mem, f[nf]) = 0

(* What clients hold and held are pointers to blocks that were handed out.  *)
Held(c, a, na) ==
  /\ DOMAIN live = {n + 8 : n \in Stops(a, na)}
  /\ \A p \in DOMAIN live : live[p] \in Sizes
  /\ dead \subseteq {n + 8 : n \in NodesBelow(c)} \ DOMAIN live

Way(head, n) == [k \in 0 .. n + 1 |-> Chain(mem, head)[k]]

HeapInv ==
  /\ status # "lost" /\ DOMAIN mem = Words
  /\ \E c \in 0..Top, nf \in 1..MaxWalk - 1, na \in 0..MaxWalk - 1 :
       /\ Layout(c, Way(FreeList, nf), nf, Way(AllocList, na), na)
       /\ Held(c, Way(AllocList, na), na)
=============================================================================
