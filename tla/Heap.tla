-------------------------------- MODULE Heap --------------------------------
(***************************************************************************)
(* lib/mm.c: malloc and free, on the words of memory they work on.         *)
(*                                                                         *)
(* A block is a 16-byte header {flag, start, list} followed by its payload;*)
(* the manager keeps two circular lists linked through the headers         *)
(* (includes/linux/list.h).  Headers, list nodes and payloads live in one  *)
(* memory, addressed in bytes, one word every four: what overlaps in the   *)
(* program overlaps here.                                                  *)
(***************************************************************************)
EXTENDS Integers

CONSTANTS
  Base, HeapSize,     \* heap_manager.start and .end - .start
  Sizes               \* the sizes clients ask for

Header == 16                     \* sizeof(header)
FreeList == 8                    \* &heap_manager.free_list
AllocList == FreeList + 8        \* &heap_manager.alloc_list
End == Base + HeapSize
Lost == 0                        \* a list walk that never ends or leaves memory
FitLimit == 268435456            \* 2^28: what a search looks at of a flag

(* The two list heads, the heap, and the reserved bytes above its end that  *)
(* the header written behind the last block can reach.                      *)
Words == {FreeList, FreeList + 4, AllocList, AllocList + 4}
           \cup {Base + 4 * k : k \in 0 .. (HeapSize + Header) \div 4 - 1}

ASSUME LayoutAssumption ==
  /\ Base \in Nat /\ HeapSize \in Nat
  /\ Base % 4 = 0 /\ HeapSize % 4 = 0
  /\ Base > AllocList + 4
  /\ HeapSize > Header /\ HeapSize < Base /\ HeapSize < FitLimit
ASSUME SizesAssumption == Sizes \subseteq Nat /\ Sizes # {}

VARIABLES
  mem,      \* the words
  live,     \* payloads handed out and not given back: pointer -> size
  dead,     \* pointers given back and not handed out again
  call,     \* the call that just returned: <<name, argument, result>>
  status    \* "ok", "lost" in a broken list, or "misaligned" header

vars == <<mem, live, dead, call, status>>

-----------------------------------------------------------------------------
(* Memory. A list node n has its next pointer at n and its prev pointer at  *)
(* n + 4; the header it belongs to starts at n - 8: flag, then start.       *)
Load(m, a) == IF a \in Words THEN m[a] ELSE Lost
Store(m, a, v) == IF a \in Words THEN [m EXCEPT ![a] = v] ELSE m

NextOf(m, n) == Load(m, n)
PrevOf(m, n) == Load(m, n + 4)
Flag(m, n) == Load(m, n - 8)
Start(m, n) == Load(m, n - 4)

(* flag & 0xffffffc, the size a search compares with, and         *)
(* flag & 0xfffffffc, the size the remainder is computed from.              *)
Fits(flag) == ((flag % FitLimit) \div 4) * 4
Bytes(flag) == (flag \div 4) * 4

(* Mutant: list_insert leaves pos->prev alone. *)
ListInsertHalf(m, n, pos) ==
  LET m1 == Store(m, n + 4, PrevOf(m, pos))
      m2 == Store(m1, PrevOf(m1, pos), n)
  IN  Store(m2, n, pos)

(* list.h: __list_add, list_add_tail, __list_del, list_move_tail,           *)
(* list_insert (before pos) and list_empty.                                 *)
ListAdd(m, new, prev, next) ==
  Store(Store(Store(Store(m, next + 4, new), new, next), new + 4, prev), prev, new)
ListAddTail(m, new, head) == ListAdd(m, new, PrevOf(m, head), head)
ListDel(m, n) ==
  LET p == PrevOf(m, n)
      q == NextOf(m, n)
  IN  Store(Store(m, q + 4, p), p, q)
(* Mutant: list_move_tail does not unlink the node first. *)
ListMoveTailLinked(m, n, head) == ListAddTail(m, n, head)

ListMoveTail(m, n, head) ==
  LET unlinked == ListDel(m, n) IN ListAddTail(unlinked, n, head)
ListInsert(m, n, pos) ==
  LET m1 == Store(m, n + 4, PrevOf(m, pos))
      m2 == Store(m1, PrevOf(m1, pos), n)
  IN  Store(Store(m2, n, pos), pos + 4, n)
ListEmpty(m, head) == NextOf(m, head) = head

(* The nodes list_for_each_entry visits from a head. A list of headers that *)
(* do not overlap has no more nodes than headers fit into the memory: a     *)
(* walk that is not back at the head by then is going round.                *)
MaxWalk == HeapSize \div Header + 2
Chain(m, head) ==
  LET node[k \in 0..MaxWalk] == IF k = 0 THEN head ELSE NextOf(m, node[k - 1])
  IN  node

(* Where such a loop stops: at the first node that passes the test, back at *)
(* the head, or Lost.                                                       *)
Scan(m, head, Test(_)) ==
  LET node == Chain(m, head)
      stops == {k \in 1..MaxWalk :
                  node[k] \in {head, Lost} \/ Test(node[k])}
  IN  IF stops = {} THEN Lost
      ELSE node[CHOOSE k \in stops : \A j \in stops : k <= j]

-----------------------------------------------------------------------------
(* _heap_init: one free block, the whole heap. *)
HeapInit ==
  LET node == Base + 8
  IN  [a \in Words |-> CASE a \in {FreeList, FreeList + 4} -> node
                         [] a \in {AllocList, AllocList + 4} -> AllocList
                         [] a = Base -> HeapSize
                         [] a = Base + 4 -> Base
                         [] a \in {node, node + 4} -> FreeList
                         [] OTHER -> 0]

Init ==
  /\ mem = HeapInit
  /\ live = <<>>
  /\ dead = {}
  /\ call = <<"heap_init", 0, 0>>
  /\ status = "ok"

(* Mutant: the header is counted one word too short. *)
BlockSizeShort(size) == (size + 12) + ((size + 12) % 4)

(* mem_alloc's block size: header added, then "rounded" by its remainder.   *)
BlockSize(size) == (size + Header) + ((size + Header) % 4)

(* mem_find from the moment a free node n fits: the header of the remainder *)
(* is written behind the block even when nothing remains, and it is put on  *)
(* the free list only if that has become empty.                             *)
Carve(m, n, size) ==
  LET new == Start(m, n) + size
      m1 == Store(m, new + 4, new)
      m2 == Store(m1, new, Bytes(Flag(m1, n)) - size)
      m3 == Store(m2, n - 8, size + 1)
      m4 == ListMoveTail(m3, n, AllocList)
  IN  IF ListEmpty(m4, FreeList) THEN ListAddTail(m4, new + 8, FreeList) ELSE m4

FirstFit(size) == Scan(mem, FreeList, LAMBDA n : Fits(Flag(mem, n)) >= size)

(* malloc. Out of memory it asks mm->omb for help, which frees nothing, and *)
(* searches once more.                                                      *)
Malloc(size) ==
  LET need == BlockSize(size)
      n == FirstFit(need)
      ptr == Start(mem, n) + Header
  IN  /\ status = "ok"
      /\ \/ /\ n = Lost
            /\ status' = "lost"
            /\ UNCHANGED <<mem, live, dead, call>>
         \/ /\ n = FreeList
            /\ call' = <<"malloc", size, 0>>
            /\ UNCHANGED <<mem, live, dead, status>>
         \/ /\ n \notin {Lost, FreeList}
            /\ need % 4 # 0
            /\ status' = "misaligned"
            /\ UNCHANGED <<mem, live, dead, call>>
         \/ /\ n \notin {Lost, FreeList}
            /\ need % 4 = 0
            /\ mem' = Carve(mem, n, need)
            /\ live' = [p \in DOMAIN live \cup {ptr} |-> IF p = ptr THEN size ELSE live[p]]
            /\ dead' = dead \ {ptr}
            /\ call' = <<"malloc", size, ptr>>
            /\ UNCHANGED status

(* Mutant: the upper end of the block is not tested. *)
OwnerBelow(ptr) == Scan(mem, AllocList, LAMBDA n : ptr >= Start(mem, n))

(* The node mem_free takes for the owner of a pointer: the first allocated  *)
(* block with the pointer between its two ends. When none has it, the node  *)
(* is the list head itself, and what stands before it passes for a header.  *)
Owner(ptr) ==
  Scan(mem, AllocList, LAMBDA n : /\ ptr >= Start(mem, n)
                                  /\ ptr <= Start(mem, n) + Fits(Flag(mem, n)))

(* The first free block above the owner. *)
FirstAbove(n) == Scan(mem, FreeList, LAMBDA f : Start(mem, n) < Start(mem, f))

(* It goes back on the list in address order, if it is above the block      *)
(* before; a block with no free block above it is not freed.                *)
Placeable(n, f) ==
  /\ f # FreeList
  /\ PrevOf(mem, f) # FreeList => Start(mem, n) > Start(mem, PrevOf(mem, f))

(* free. *)
Free(ptr) ==
  LET n == Owner(ptr)
      f == FirstAbove(n)
  IN  /\ status = "ok"
      /\ \/ /\ n = Lost \/ f = Lost
            /\ status' = "lost"
            /\ UNCHANGED <<mem, live, dead, call>>
         \/ /\ n # Lost /\ f # Lost
            /\ ~Placeable(n, f)
            /\ call' = <<"free", ptr, -1>>
            /\ UNCHANGED <<mem, live, dead, status>>
         \/ /\ n # Lost /\ f # Lost
            /\ Placeable(n, f)
            /\ mem' = ListInsert(ListDel(mem, n), n, f)
            /\ live' = [p \in DOMAIN live \ {ptr} |-> live[p]]
            /\ dead' = dead \cup {ptr}
            /\ call' = <<"free", ptr, 0>>
            /\ UNCHANGED status

Next == \/ \E size \in Sizes : Malloc(size)
        \/ \E ptr \in DOMAIN live \cup dead : Free(ptr)

Spec == Init /\ [][Next]_vars
=============================================================================
