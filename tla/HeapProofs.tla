----------------------------- MODULE HeapProofs -----------------------------
(***************************************************************************)
(* Proofs about malloc and free for a heap of any size at any place, whose *)
(* clients ask for anything that needs a block of one size.                *)
(***************************************************************************)
EXTENDS HeapProps, NaturalsInduction, WellFoundedInduction, TLAPS

LEMMA LeastNat ==
  ASSUME NEW S \in SUBSET Nat, S # {}
  PROVE  \E x \in S : \A y \in S : x <= y
<1>1. PICK x \in S : \A y \in S : ~(<<y, x>> \in OpToRel(<, Nat))
  BY NatLessThanWellFounded, WFMin
<1>2. ASSUME NEW y \in S PROVE x <= y
  <2>1. x \in Nat /\ y \in Nat
    OBVIOUS
  <2>2. y < x => <<y, x>> \in OpToRel(<, Nat)
    BY <2>1, Zenon DEF OpToRel
  <2>3. ~(y < x)
    BY <1>1, <2>2
  <2> QED BY <2>1, <2>3
<1> QED BY <1>2

LEMMA MulLe ==
  ASSUME NEW x \in Int, NEW y \in Int, NEW b \in Nat, x <= y
  PROVE  x * b <= y * b /\ b * x <= b * y
OBVIOUS

LEMMA Fourth ==
  ASSUME NEW a \in Nat, a % 4 = 0
  PROVE  \E b \in Nat : a = 4 * b
OBVIOUS

LEMMA DivFacts ==
  ASSUME NEW a \in Nat, NEW b \in Nat \ {0}
  PROVE  a \div b \in Nat /\ (a \div b) * b <= a /\ a < (a \div b) * b + b
<1>1. a = b * (a \div b) + (a % b)
  BY Z3T(30)
<1>2. a % b \in 0..b-1 /\ a \div b \in Int
  OBVIOUS
<1>3. a \div b >= 0
  BY Z3T(30)
<1>4. b * (a \div b) = (a \div b) * b
  BY <1>2
<1> QED BY <1>1, <1>2, <1>3, <1>4

-----------------------------------------------------------------------------
(* The blocks.                                                              *)
LEMMA Flags ==
  ASSUME NEW b \in Nat, b % 4 = 0, b < FitLimit
  PROVE  /\ Fits(0) = 0 /\ Fits(b) = b /\ Fits(b + 1) = b
         /\ Bytes(b) = b /\ Bytes(b + 1) = b
BY DEF Fits, Bytes, FitLimit

LEMMA BlockFacts ==
  ASSUME SameBlocks
  PROVE  /\ Block \in Nat /\ Block > 16
         /\ \A size \in Sizes : BlockSize(size) = Block
         /\ Block % 4 = 0 => /\ Block >= 20
                             /\ \A size \in Sizes : 16 + 4 * ((size + 3) \div 4) <= Block
<1>1. PICK s \in Sizes : Block = BlockSize(s)
  BY SizesAssumption DEF Block
<1>2. \A size \in Sizes : BlockSize(size) = Block /\ size \in Nat \ {0}
  BY <1>1, SizesAssumption DEF SameBlocks
<1>3. ASSUME NEW size \in Nat \ {0}
      PROVE  /\ BlockSize(size) \in Nat /\ BlockSize(size) > 16
             /\ BlockSize(size) % 4 = 0 => /\ BlockSize(size) >= 20
                                           /\ 16 + 4 * ((size + 3) \div 4) <= BlockSize(size)
  BY DEF BlockSize, Header
<1> QED BY <1>1, <1>2, <1>3

LEMMA LayoutFacts ==
  /\ Base \in Nat /\ HeapSize \in Nat /\ Base % 4 = 0 /\ HeapSize % 4 = 0
  /\ Base > 20 /\ HeapSize > 16 /\ HeapSize < FitLimit /\ HeapSize < Base
  /\ End = Base + HeapSize /\ FreeList = 8 /\ AllocList = 16 /\ Header = 16 /\ Lost = 0
  /\ MaxWalk = HeapSize \div 16 + 2 /\ MaxWalk \in Nat
BY LayoutAssumption DEF End, FreeList, AllocList, Header, Lost, MaxWalk

LEMMA TopFacts ==
  ASSUME SameBlocks
  PROVE  /\ Top \in Nat /\ Top * Block <= HeapSize /\ Top + 2 <= MaxWalk
         /\ Top > 0 => Block % 4 = 0
         /\ Block % 4 = 0 => \A k \in Nat : k * Block <= HeapSize => k <= Top
<1>1. Block \in Nat /\ Block > 16 /\ HeapSize \in Nat /\ MaxWalk = HeapSize \div 16 + 2
  BY BlockFacts, LayoutFacts
<1>2. /\ HeapSize \div Block \in Nat /\ (HeapSize \div Block) * Block <= HeapSize
      /\ HeapSize < (HeapSize \div Block) * Block + Block
  BY <1>1, DivFacts
<1>3. Top \in Nat /\ Top * Block <= HeapSize /\ (Top > 0 => Block % 4 = 0)
  <2>1. 0 * Block = 0
    BY <1>1
  <2> QED BY <1>1, <1>2, <2>1 DEF Top
<1>4. Top + 2 <= MaxWalk
  <2>1. 16 * Top <= HeapSize
    <3>1. Top * 16 <= Top * Block
      BY <1>1, <1>3, MulLe
    <3>2. PICK t : t = Top * Block
      OBVIOUS
    <3> QED BY <1>1, <1>3, <3>1, <3>2
  <2> QED BY <1>1, <1>3, <2>1
<1>5. ASSUME Block % 4 = 0, NEW k \in Nat, k * Block <= HeapSize PROVE k <= Top
  <2>1. Top = HeapSize \div Block
    BY <1>5 DEF Top
  <2>2. SUFFICES ASSUME Top + 1 <= k PROVE FALSE
    BY <1>3
  <2>3. (Top + 1) * Block <= k * Block /\ (Top + 1) * Block = Top * Block + Block
    BY <1>1, <1>3, <2>2, MulLe
  <2>4. PICK x, y, z : x = Top * Block /\ y = k * Block /\ z = (Top + 1) * Block
    OBVIOUS
  <2>5. x \in Int /\ y \in Int
    BY <1>1, <1>3, <2>4
  <2>6. z <= y /\ z = x + Block /\ y <= HeapSize /\ HeapSize < x + Block
    BY <1>2, <1>5, <2>1, <2>3, <2>4
  <2> QED BY <1>1, <2>5, <2>6
<1> QED BY <1>3, <1>4, <1>5

(* Where the headers stand.                                                 *)
LEMMA NodeStep ==
  ASSUME SameBlocks, NEW j \in Nat, NEW k \in Nat
  PROVE  /\ Node(j) \in Nat /\ Node(j + 1) = Node(j) + Block
         /\ j < k => Node(j) + Block <= Node(k)
         /\ Node(j) = Node(k) => j = k
<1>1. Block \in Nat /\ Block > 16 /\ Base \in Nat
  BY BlockFacts, LayoutFacts
<1>2. \A x, y \in Nat : x < y => x * Block + Block <= y * Block
  <2>1. ASSUME NEW x \in Nat, NEW y \in Nat, x < y PROVE x * Block + Block <= y * Block
    <3>1. (x + 1) * Block <= y * Block /\ (x + 1) * Block = x * Block + Block
      BY <1>1, <2>1, MulLe
    <3> QED BY <3>1
  <2> QED BY <2>1
<1>3. j * Block \in Nat /\ k * Block \in Nat /\ (j + 1) * Block = j * Block + Block
  BY <1>1
<1>4. PICK x, y, z : x = j * Block /\ y = k * Block /\ z = (j + 1) * Block
  OBVIOUS
<1>5. (j < k => x + Block <= y) /\ (k < j => y + Block <= x)
  BY <1>2, <1>4
<1>6. Node(j) = Base + x + 8 /\ Node(k) = Base + y + 8 /\ Node(j + 1) = Base + z + 8
  BY <1>4 DEF Node
<1>7. x \in Nat /\ y \in Nat /\ z = x + Block
  BY <1>3, <1>4
<1> QED BY <1>1, <1>5, <1>6, <1>7

AllNodes == {Node(k) : k \in 0..Top}
Spots == {FreeList, AllocList} \cup AllNodes

LEMMA NodeFacts ==
  ASSUME SameBlocks, NEW n \in AllNodes
  PROVE  /\ n \in Nat /\ Base + 8 <= n /\ n <= End + 8 /\ n % 4 = 0
         /\ {n - 8, n - 4, n, n + 4} \subseteq Words
         /\ \A m \in AllNodes : n < m => n + Block <= m
<1>1. PICK k \in 0..Top : n = Node(k)
  BY DEF AllNodes
<1>2. Top \in Nat /\ Top * Block <= HeapSize /\ (Top > 0 => Block % 4 = 0) /\ Block \in Nat
  BY TopFacts, BlockFacts
<1>3. PICK x : x = k * Block
  OBVIOUS
<1>4. x \in Nat /\ x <= HeapSize
  <2>1. k * Block <= Top * Block /\ k * Block \in Nat /\ Top * Block \in Nat
    BY <1>2, MulLe
  <2>2. PICK y : y = Top * Block
    OBVIOUS
  <2> QED BY <1>2, <1>3, <2>1, <2>2, LayoutFacts
<1>5. PICK w \in Nat : x = 4 * w
  <2>1. CASE k = 0
    <3>1. x = 4 * 0
      BY <1>2, <1>3, <2>1
    <3> QED BY <3>1
  <2>2. CASE k # 0
    <3>1. Block % 4 = 0
      BY <1>2, <2>2
    <3>2. PICK b \in Nat : Block = 4 * b
      BY <1>2, <3>1, Fourth
    <3>3. k * b \in Nat /\ k * (4 * b) = 4 * (k * b)
      BY <1>2, <3>2
    <3> QED BY <1>3, <3>2, <3>3
  <2> QED BY <2>1, <2>2
<1>6. n = Base + 4 * w + 8
  BY <1>1, <1>3, <1>5 DEF Node
<1>7. n \in Nat /\ Base + 8 <= n /\ n <= End + 8 /\ n % 4 = 0
  BY <1>4, <1>5, <1>6, LayoutFacts
<1>8. {n - 8, n - 4, n, n + 4} \subseteq Words
  <2>1. PICK h \in Nat : HeapSize = 4 * h
    BY LayoutFacts
  <2>2. (HeapSize + Header) \div 4 - 1 = h + 3 /\ w <= h
    BY <1>4, <1>5, <2>1, LayoutFacts
  <2>3. ASSUME NEW d \in 0..3 PROVE Base + 4 * (w + d) \in Words
    <3>1. w + d \in 0 .. (HeapSize + Header) \div 4 - 1
      BY <2>2
    <3> QED BY <3>1 DEF Words
  <2>4. Base + 4 * (w + 0) \in Words /\ Base + 4 * (w + 1) \in Words
        /\ Base + 4 * (w + 2) \in Words /\ Base + 4 * (w + 3) \in Words
    BY <2>3
  <2>5. /\ n - 8 = Base + 4 * (w + 0) /\ n - 4 = Base + 4 * (w + 1)
        /\ n = Base + 4 * (w + 2) /\ n + 4 = Base + 4 * (w + 3)
    BY <1>6, LayoutFacts
  <2> QED BY <2>4, <2>5
<1>9. ASSUME NEW m \in AllNodes, n < m PROVE n + Block <= m
  <2>1. PICK j \in 0..Top : m = Node(j)
    BY DEF AllNodes
  <2>2. j \in Nat /\ k \in Nat
    BY <1>2
  <2>3. ~(j < k) /\ j # k
    <3>1. j < k => m + Block <= n
      BY <1>1, <2>1, <2>2, NodeStep
    <3>2. m \in Nat /\ n \in Nat
      BY <1>1, <2>1, <2>2, NodeStep
    <3> QED BY <1>1, <1>2, <1>9, <2>1, <3>1, <3>2
  <2> QED BY <1>1, <2>1, <2>2, <2>3, NodeStep
<1> QED BY <1>7, <1>8, <1>9

(* No word of a list node is one of another node, of a head or of the rest  *)
(* of a header.                                                             *)
LEMMA SpotFacts ==
  ASSUME SameBlocks
  PROVE  /\ Spots \subseteq Nat \ {Lost}
         /\ \A s \in Spots : s \in Words /\ s + 4 \in Words
         /\ \A s, t \in Spots : s # t + 4
         /\ \A n \in AllNodes, s \in Spots : n - 8 # s /\ n - 4 # s /\ n - 8 # s + 4 /\ n - 4 # s + 4
         /\ \A n, m \in AllNodes : n - 8 # m - 4
         /\ FreeList \notin AllNodes /\ AllocList \notin AllNodes
<1>1. /\ AllNodes \subseteq Nat
      /\ \A n \in AllNodes : n >= Base + 8 /\ n \in Words /\ n + 4 \in Words
      /\ \A n, m \in AllNodes : n < m => n + 16 < m
  <2>1. \A n \in AllNodes : n \in Nat /\ n >= Base + 8 /\ n \in Words /\ n + 4 \in Words
    BY NodeFacts, LayoutFacts
  <2>2. ASSUME NEW n \in AllNodes, NEW m \in AllNodes, n < m PROVE n + 16 < m
    BY <2>1, <2>2, NodeFacts, BlockFacts
  <2> QED BY <2>1, <2>2
<1>2. FreeList \in Words /\ FreeList + 4 \in Words /\ AllocList \in Words /\ AllocList + 4 \in Words
  BY DEF Words
<1>0. Base \in Nat /\ Base > 20 /\ FreeList = 8 /\ AllocList = 16 /\ Lost = 0
  BY LayoutFacts
<1>3. \A s \in Spots : s = 8 \/ s = 16 \/ s \in AllNodes
  BY <1>0 DEF Spots
<1>4. Spots \subseteq Nat \ {Lost}
  <2>1. ASSUME NEW s \in Spots PROVE s \in Nat /\ s # Lost
    <3>1. CASE s \in AllNodes
      BY <1>0, <1>1, <3>1
    <3> QED BY <1>0, <1>3, <3>1
  <2> QED BY <2>1
<1>5. \A s \in Spots : s \in Words /\ s + 4 \in Words
  BY <1>1, <1>2 DEF Spots
<1>6. ASSUME NEW s \in Spots, NEW t \in Spots PROVE s # t + 4
  <2>1. CASE s \in AllNodes /\ t \in AllNodes
    BY <1>1, <2>1
  <2>2. CASE s \in AllNodes /\ t \notin AllNodes
    BY <1>0, <1>1, <1>3, <2>2
  <2>3. CASE s \notin AllNodes /\ t \in AllNodes
    BY <1>0, <1>1, <1>3, <2>3
  <2>4. CASE s \notin AllNodes /\ t \notin AllNodes
    BY <1>3, <2>4
  <2> QED BY <2>1, <2>2, <2>3, <2>4
<1>7. ASSUME NEW n \in AllNodes, NEW s \in Spots
      PROVE  n - 8 # s /\ n - 4 # s /\ n - 8 # s + 4 /\ n - 4 # s + 4
  <2>1. CASE s \in AllNodes
    BY <1>1, <2>1
  <2>2. CASE s \notin AllNodes
    BY <1>0, <1>1, <1>3, <2>2
  <2> QED BY <2>1, <2>2
<1>8. ASSUME NEW n \in AllNodes, NEW m \in AllNodes PROVE n - 8 # m - 4
  BY <1>1
<1>9. FreeList \notin AllNodes /\ AllocList \notin AllNodes
  BY <1>0, <1>1
<1> QED BY <1>4, <1>5, <1>6, <1>7, <1>8, <1>9

-----------------------------------------------------------------------------
(* What the operations of list.h do to each word.                           *)
LEMMA LoadStore ==
  ASSUME NEW m, DOMAIN m = Words, NEW a \in Words, NEW v
  PROVE  /\ DOMAIN Store(m, a, v) = Words
         /\ \A b : Load(Store(m, a, v), b) = IF b = a THEN v ELSE Load(m, b)
BY DEF Load, Store

(* new has come between p and q, or what was between them is gone.          *)
Between(m, m2, p, new, q) ==
  /\ DOMAIN m2 = Words
  /\ \A b : Load(m2, b) = IF b = p THEN new
                          ELSE IF b = new + 4 THEN p
                          ELSE IF b = new THEN q
                          ELSE IF b = q + 4 THEN new ELSE Load(m, b)
Bypass(m, m2, p, q) ==
  /\ DOMAIN m2 = Words
  /\ \A b : Load(m2, b) = IF b = p THEN q ELSE IF b = q + 4 THEN p ELSE Load(m, b)

LEMMA Adds ==
  ASSUME SameBlocks, NEW m, DOMAIN m = Words,
         NEW new \in Spots, NEW p \in Spots, NEW q \in Spots, new # p, new # q
  PROVE  Between(m, ListAdd(m, new, p, q), p, new, q)
<1> DEFINE m1 == Store(m, q + 4, new)
           m2 == Store(m1, new, q)
           m3 == Store(m2, new + 4, p)
           m4 == Store(m3, p, new)
<1>1. /\ p \in Words /\ new \in Words /\ q + 4 \in Words /\ new + 4 \in Words
      /\ p # q + 4 /\ p # new + 4 /\ new # q + 4 /\ new # new + 4
  BY SpotFacts
<1>2. DOMAIN m1 = Words /\ \A b : Load(m1, b) = IF b = q + 4 THEN new ELSE Load(m, b)
  BY <1>1, LoadStore
<1> HIDE DEF m1
<1>3. DOMAIN m2 = Words /\ \A b : Load(m2, b) = IF b = new THEN q ELSE Load(m1, b)
  BY <1>1, <1>2, LoadStore
<1> HIDE DEF m2
<1>4. DOMAIN m3 = Words /\ \A b : Load(m3, b) = IF b = new + 4 THEN p ELSE Load(m2, b)
  BY <1>1, <1>3, LoadStore
<1> HIDE DEF m3
<1>5. DOMAIN m4 = Words /\ \A b : Load(m4, b) = IF b = p THEN new ELSE Load(m3, b)
  BY <1>1, <1>4, LoadStore
<1>6. m4 = ListAdd(m, new, p, q)
  BY DEF ListAdd, m1, m2, m3
<1> HIDE DEF m4
<1>7. q + 4 # new + 4
  BY SpotFacts
<1>8. Between(m, m4, p, new, q)
  BY <1>1, <1>2, <1>3, <1>4, <1>5, <1>7 DEF Between
<1> QED BY <1>6, <1>8

LEMMA Inserts ==
  ASSUME SameBlocks, NEW m, DOMAIN m = Words, NEW n \in Spots, NEW pos \in Spots,
         PrevOf(m, pos) \in Spots, n # pos, n # PrevOf(m, pos)
  PROVE  Between(m, ListInsert(m, n, pos), PrevOf(m, pos), n, pos)
<1>0. PICK p : p = PrevOf(m, pos)
  OBVIOUS
<1> DEFINE m1 == Store(m, n + 4, p)
           m2 == Store(m1, PrevOf(m1, pos), n)
           m3 == Store(m2, n, pos)
           m4 == Store(m3, pos + 4, n)
<1>1. /\ p \in Words /\ n \in Words /\ pos + 4 \in Words /\ n + 4 \in Words
      /\ p # pos + 4 /\ p # n + 4 /\ n # pos + 4 /\ n # n + 4 /\ pos + 4 # n + 4
  BY <1>0, SpotFacts
<1>2. DOMAIN m1 = Words /\ \A b : Load(m1, b) = IF b = n + 4 THEN p ELSE Load(m, b)
  BY <1>1, LoadStore
<1>3. PrevOf(m1, pos) = p
  BY <1>0, <1>1, <1>2 DEF PrevOf
<1>6. m4 = ListInsert(m, n, pos)
  BY <1>0 DEF ListInsert
<1>9. m2 = Store(m1, p, n)
  BY <1>3
<1> HIDE DEF m1, m2
<1>4. DOMAIN m2 = Words /\ \A b : Load(m2, b) = IF b = p THEN n ELSE Load(m1, b)
  BY <1>1, <1>2, <1>9, LoadStore
<1>5. DOMAIN m3 = Words /\ \A b : Load(m3, b) = IF b = n THEN pos ELSE Load(m2, b)
  BY <1>1, <1>4, LoadStore
<1> HIDE DEF m3
<1>7. DOMAIN m4 = Words /\ \A b : Load(m4, b) = IF b = pos + 4 THEN n ELSE Load(m3, b)
  BY <1>1, <1>5, LoadStore
<1> HIDE DEF m4
<1>8. Between(m, m4, p, n, pos)
  BY <1>0, <1>1, <1>2, <1>4, <1>5, <1>7 DEF Between
<1> QED BY <1>0, <1>6, <1>8

LEMMA Deletes ==
  ASSUME SameBlocks, NEW m, DOMAIN m = Words, NEW n,
         PrevOf(m, n) \in Spots, NextOf(m, n) \in Spots
  PROVE  Bypass(m, ListDel(m, n), PrevOf(m, n), NextOf(m, n))
<1>0. PICK p, q : p = PrevOf(m, n) /\ q = NextOf(m, n)
  OBVIOUS
<1> DEFINE m1 == Store(m, q + 4, p)
           m2 == Store(m1, p, q)
<1>1. p \in Words /\ q + 4 \in Words /\ p # q + 4
  BY <1>0, SpotFacts
<1>2. DOMAIN m1 = Words /\ \A b : Load(m1, b) = IF b = q + 4 THEN p ELSE Load(m, b)
  BY <1>1, LoadStore
<1>3. m2 = ListDel(m, n)
  BY <1>0 DEF ListDel
<1> HIDE DEF m1
<1>4. DOMAIN m2 = Words /\ \A b : Load(m2, b) = IF b = p THEN q ELSE Load(m1, b)
  BY <1>1, <1>2, LoadStore
<1> HIDE DEF m2
<1>5. Bypass(m, m2, p, q)
  BY <1>1, <1>2, <1>4 DEF Bypass
<1> QED BY <1>0, <1>3, <1>5

-----------------------------------------------------------------------------
(* What they do to a list. Seats(p, n) are its nodes and its head.          *)
Seats(p, n) == {p[k] : k \in 0..n}
Inserted(p, n, x, new) ==
  [k \in 0..n + 2 |-> IF k < x THEN p[k] ELSE IF k = x THEN new ELSE p[k - 1]]
Removed(p, n, x) == [k \in 0..n |-> IF k < x THEN p[k] ELSE p[k + 1]]

LEMMA SeatFacts ==
  ASSUME SameBlocks, NEW m, NEW head, NEW p, NEW n \in Nat, Circle(m, head, p, n),
         Seats(p, n) \subseteq Spots
  PROVE  /\ \A k \in 0..n : p[k] \in Spots /\ p[k + 1] \in Spots
         /\ \A k \in 1..n : p[k] # head
         /\ head \in Spots
<1>1. \A k \in 0..n : p[k] \in Spots
  BY DEF Seats
<1>2. 0 \in 0..n /\ p[n + 1] = p[0] /\ p[0] = head
  BY DEF Circle
<1>3. ASSUME NEW k \in 0..n PROVE p[k + 1] \in Spots
  <2>1. k + 1 \in 0..n \/ k + 1 = n + 1
    OBVIOUS
  <2> QED BY <1>1, <1>2, <2>1
<1>4. ASSUME NEW k \in 1..n PROVE p[k] # head
  BY <1>2 DEF Circle
<1> QED BY <1>1, <1>2, <1>3, <1>4

(* From m to m2 new has come before the x-th node of the list.              *)
Grows(m, m2, head, p, n, x, new) ==
  /\ n \in Nat /\ Circle(m, head, p, n) /\ Seats(p, n) \subseteq Spots
  /\ new \in Spots \ Seats(p, n) /\ x \in 1..n + 1
  /\ Between(m, m2, p[x - 1], new, p[x])

LEMMA CircleInserted ==
  ASSUME SameBlocks, NEW m, NEW m2, NEW head, NEW p, NEW n, NEW x, NEW new,
         Grows(m, m2, head, p, n, x, new)
  PROVE  /\ Circle(m2, head, Inserted(p, n, x, new), n + 1)
         /\ Seats(Inserted(p, n, x, new), n + 1) = Seats(p, n) \cup {new}
<1> USE DEF Grows
<1> DEFINE r == Inserted(p, n, x, new)
<1>1. /\ \A k \in 0..n : p[k] \in Spots /\ p[k + 1] \in Spots
      /\ \A k \in 0..n : p[k] # new
      /\ \A s, t \in Spots : s # t + 4 /\ s + 4 # t
      /\ \A s, t \in Spots : s # t => s + 4 # t + 4
      /\ new \in Spots /\ p[x - 1] # new /\ p[x] # new
  <2>1. \A k \in 0..n : p[k] \in Spots /\ p[k + 1] \in Spots
    BY SeatFacts
  <2>2. \A k \in 0..n : p[k] # new
    BY DEF Seats
  <2>3. Spots \subseteq Nat /\ \A s, t \in Spots : s # t + 4
    BY SpotFacts
  <2>4. \A s, t \in Spots : s # t => s + 4 # t + 4
    BY <2>3
  <2>5. p[x - 1] # new /\ p[x] # new
    <3>1. x - 1 \in 0..n /\ (x \in 0..n \/ x = n + 1) /\ 0 \in 0..n
      OBVIOUS
    <3> QED BY <2>2, <3>1 DEF Circle
  <2> QED BY <2>1, <2>2, <2>3, <2>4, <2>5
<1>2. p[n + 1] = p[0] /\ p[0] = head /\ \A k \in 1..n : p[k] # p[n + 1]
  BY SeatFacts DEF Circle
<1>3. \A k \in 0..n + 2 : r[k] = IF k < x THEN p[k] ELSE IF k = x THEN new ELSE p[k - 1]
  BY DEF Inserted
<1>4. r[0] = head /\ r[n + 2] = head
  BY <1>2, <1>3
<1>5. ASSUME NEW k \in 0..n + 1 PROVE NextOf(m2, r[k]) = r[k + 1] /\ PrevOf(m2, r[k + 1]) = r[k]
  <2>1. CASE k < x - 1
    <3>1. /\ k \in 0..n /\ k + 1 \in 0..n /\ x - 1 \in 0..n
          /\ r[k] = p[k] /\ r[k + 1] = p[k + 1] /\ p[k] # p[x - 1]
          /\ p[k] \in Spots /\ p[k + 1] \in Spots /\ p[x] \in Spots /\ p[x - 1] \in Spots
      BY <1>1, <1>3, <2>1 DEF Circle
    <3>2. p[k + 1] # p[x]
      <4>1. CASE x \in 0..n
        BY <2>1, <3>1, <4>1 DEF Circle
      <4>2. CASE x = n + 1
        <5>1. k + 1 \in 1..n
          BY <2>1, <4>2
        <5> QED BY <1>2, <4>2, <5>1
      <4> QED BY <4>1, <4>2
    <3>3. NextOf(m, p[k]) = p[k + 1] /\ PrevOf(m, p[k + 1]) = p[k]
      BY <3>1 DEF Circle
    <3>4. /\ p[k] # new /\ p[k + 1] # new /\ p[k] # new + 4 /\ p[k] # p[x] + 4
          /\ p[k + 1] + 4 # p[x - 1] /\ p[k + 1] + 4 # new /\ p[k + 1] + 4 # new + 4
          /\ p[k + 1] + 4 # p[x] + 4
      <4>1. p[k] # new /\ p[k + 1] # new
        BY <1>1, <3>1
      <4> QED BY <1>1, <3>1, <3>2, <4>1
    <3>5. Load(m2, p[k]) = Load(m, p[k]) /\ Load(m2, p[k + 1] + 4) = Load(m, p[k + 1] + 4)
      BY <3>1, <3>4 DEF Between
    <3> QED BY <3>1, <3>3, <3>5 DEF NextOf, PrevOf
  <2>2. CASE k = x - 1
    <3>1. r[k] = p[x - 1] /\ r[k + 1] = new
      BY <1>3, <2>2
    <3>2. p[x - 1] \in Spots /\ new + 4 # p[x - 1]
      BY <1>1
    <3>3. Load(m2, p[x - 1]) = new /\ Load(m2, new + 4) = p[x - 1]
      BY <3>2 DEF Between
    <3> QED BY <3>1, <3>3 DEF NextOf, PrevOf
  <2>3. CASE k = x
    <3>1. r[k] = new /\ r[k + 1] = p[x]
      BY <1>3, <2>3
    <3>1a. x - 1 \in 0..n /\ (x - 1) + 1 = x
      OBVIOUS
    <3>1b. p[x - 1] \in Spots /\ p[x] \in Spots
      BY <1>1, <3>1a
    <3>2. /\ p[x - 1] \in Spots /\ p[x] \in Spots /\ new # p[x - 1] /\ new # new + 4
          /\ p[x] # new
          /\ p[x] + 4 # p[x - 1] /\ p[x] + 4 # new + 4 /\ p[x] + 4 # new
      BY <1>1, <3>1b
    <3>3. Load(m2, new) = p[x] /\ Load(m2, p[x] + 4) = new
      BY <3>2 DEF Between
    <3> QED BY <3>1, <3>3 DEF NextOf, PrevOf
  <2>4. CASE k > x
    <3>1. /\ k - 1 \in 0..n /\ k - 1 \in 1..n /\ x - 1 \in 0..n
          /\ r[k] = p[k - 1] /\ r[k + 1] = p[k] /\ p[k - 1] # p[x - 1]
          /\ p[k - 1] \in Spots /\ p[k] \in Spots /\ p[x] \in Spots /\ p[x - 1] \in Spots
      BY <1>1, <1>3, <2>4 DEF Circle
    <3>2. p[k] # p[x] /\ p[k] # new
      <4>1. CASE k \in 0..n
        BY <1>1, <2>4, <4>1 DEF Circle
      <4>2. CASE k = n + 1
        <5>1. x \in 1..n /\ 0 \in 0..n
          BY <2>4, <4>2
        <5> QED BY <1>1, <1>2, <4>2, <5>1
      <4> QED BY <4>1, <4>2
    <3>3. NextOf(m, p[k - 1]) = p[k] /\ PrevOf(m, p[k]) = p[k - 1]
      <4>1. (k - 1) + 1 = k
        OBVIOUS
      <4> QED BY <3>1, <4>1 DEF Circle
    <3>4. /\ p[k - 1] # new /\ p[k - 1] # new + 4 /\ p[k - 1] # p[x] + 4
          /\ p[k] + 4 # p[x - 1] /\ p[k] + 4 # new /\ p[k] + 4 # new + 4
          /\ p[k] + 4 # p[x] + 4
      <4>1. p[k - 1] # new
        BY <1>1, <3>1
      <4> QED BY <1>1, <3>1, <3>2, <4>1
    <3>5. Load(m2, p[k - 1]) = Load(m, p[k - 1]) /\ Load(m2, p[k] + 4) = Load(m, p[k] + 4)
      BY <3>1, <3>4 DEF Between
    <3> QED BY <3>1, <3>3, <3>5 DEF NextOf, PrevOf
  <2> QED BY <2>1, <2>2, <2>3, <2>4
<1>6. ASSUME NEW j \in 0..n + 1, NEW k \in 0..n + 1, r[j] = r[k] PROVE j = k
  <2> DEFINE Old(i) == IF i < x THEN i ELSE i - 1
  <2>1. ASSUME NEW i \in 0..n + 1
        PROVE  i = x \/ (Old(i) \in 0..n /\ r[i] = p[Old(i)] /\ r[i] # new)
    <3>1. i < x => r[i] = p[i] /\ i \in 0..n
      BY <1>3
    <3>2. i > x => r[i] = p[i - 1] /\ i - 1 \in 0..n
      BY <1>3
    <3> QED BY <1>1, <3>1, <3>2
  <2>2. r[x] = new
    BY <1>3
  <2>3. ASSUME j # x, k # x PROVE Old(j) = Old(k)
    <3>1. p[Old(j)] = p[Old(k)] /\ Old(j) \in 0..n /\ Old(k) \in 0..n
      BY <1>6, <2>1, <2>3
    <3> HIDE DEF Old
    <3> QED BY <3>1 DEF Circle
  <2> HIDE DEF r
  <2>4. j = x <=> k = x
    BY <1>6, <2>1, <2>2
  <2> QED BY <2>3, <2>4
<1>7. Seats(r, n + 1) = Seats(p, n) \cup {new}
  <2>1. ASSUME NEW k \in 0..n PROVE p[k] \in Seats(r, n + 1)
    <3>1. CASE k < x
      <4>1. k \in 0..n + 1 /\ r[k] = p[k]
        BY <1>3, <3>1
      <4> QED BY <4>1 DEF Seats
    <3>2. CASE k >= x
      <4>1. k + 1 \in 0..n + 1 /\ r[k + 1] = p[k]
        BY <1>3, <3>2
      <4> QED BY <4>1 DEF Seats
    <3> QED BY <3>1, <3>2
  <2>2. new \in Seats(r, n + 1)
    <3>1. x \in 0..n + 1 /\ r[x] = new
      BY <1>3
    <3> QED BY <3>1 DEF Seats
  <2>3. ASSUME NEW k \in 0..n + 1 PROVE r[k] \in Seats(p, n) \cup {new}
    <3>1. k < x => k \in 0..n
      OBVIOUS
    <3>2. k > x => k - 1 \in 0..n
      OBVIOUS
    <3> QED BY <1>3, <3>1, <3>2 DEF Seats
  <2> QED BY <2>1, <2>2, <2>3 DEF Seats
<1>8. (n + 1) + 1 = n + 2
  OBVIOUS
<1> HIDE DEF r
<1>9. Circle(m2, head, r, n + 1)
  BY <1>4, <1>5, <1>6, <1>8 DEF Circle
<1> QED BY <1>7, <1>9 DEF r

LEMMA CircleRemoved ==
  ASSUME SameBlocks, NEW m, NEW m2, NEW head, NEW p, NEW n \in Nat,
         Circle(m, head, p, n), Seats(p, n) \subseteq Spots, NEW x \in 1..n,
         Bypass(m, m2, p[x - 1], p[x + 1])
  PROVE  /\ Circle(m2, head, Removed(p, n, x), n - 1)
         /\ Seats(Removed(p, n, x), n - 1) = Seats(p, n) \ {p[x]}
<1> DEFINE r == Removed(p, n, x)
<1>1. /\ \A k \in 0..n : p[k] \in Spots /\ p[k + 1] \in Spots
      /\ \A s, t \in Spots : s # t + 4 /\ s + 4 # t
      /\ \A s, t \in Spots : s # t => s + 4 # t + 4
  <2>1. \A k \in 0..n : p[k] \in Spots /\ p[k + 1] \in Spots
    BY SeatFacts
  <2>2. Spots \subseteq Nat /\ \A s, t \in Spots : s # t + 4
    BY SpotFacts
  <2>3. \A s, t \in Spots : s # t => s + 4 # t + 4
    BY <2>2
  <2> QED BY <2>1, <2>2, <2>3
<1>2. p[n + 1] = p[0] /\ p[0] = head /\ \A k \in 1..n : p[k] # p[n + 1]
  BY SeatFacts DEF Circle
<1>3. \A j, k \in 1..n + 1 : p[j] = p[k] => j = k
  <2> SUFFICES ASSUME NEW j \in 1..n + 1, NEW k \in 1..n + 1, p[j] = p[k] PROVE j = k
    OBVIOUS
  <2>1. j = n + 1 \/ j \in 1..n
    OBVIOUS
  <2>2. k = n + 1 \/ k \in 1..n
    OBVIOUS
  <2> QED BY <1>2, <2>1, <2>2 DEF Circle
<1>4. \A k \in 0..n : r[k] = IF k < x THEN p[k] ELSE p[k + 1]
  BY DEF Removed
<1>5. r[0] = head /\ r[n] = head
  BY <1>2, <1>4
<1>6. p[x - 1] \in Spots /\ p[x + 1] \in Spots
  <2>1. x - 1 \in 0..n
    OBVIOUS
  <2> QED BY <1>1, <2>1
<1>7. ASSUME NEW k \in 0..n - 1 PROVE NextOf(m2, r[k]) = r[k + 1] /\ PrevOf(m2, r[k + 1]) = r[k]
  <2>1. CASE k < x - 1
    <3>1. /\ k \in 0..n /\ k + 1 \in 1..n + 1 /\ x - 1 \in 0..n /\ x + 1 \in 1..n + 1
          /\ r[k] = p[k] /\ r[k + 1] = p[k + 1]
      BY <1>4, <2>1
    <3>2. p[k] # p[x - 1]
      BY <2>1, <3>1 DEF Circle
    <3>3. p[k + 1] # p[x + 1]
      BY <1>3, <2>1, <3>1
    <3>4. p[k] # p[x + 1] + 4 /\ p[k + 1] + 4 # p[x - 1] /\ p[k + 1] + 4 # p[x + 1] + 4
      BY <1>1, <1>6, <3>1, <3>3
    <3>5. Load(m2, p[k]) = Load(m, p[k]) /\ Load(m2, p[k + 1] + 4) = Load(m, p[k + 1] + 4)
      BY <3>2, <3>4 DEF Bypass
    <3> QED BY <3>1, <3>5 DEF NextOf, PrevOf, Circle
  <2>2. CASE k = x - 1
    <3>1. r[k] = p[x - 1] /\ r[k + 1] = p[x + 1]
      BY <1>4, <2>2
    <3>2. p[x + 1] + 4 # p[x - 1]
      BY <1>1, <1>6
    <3>3. Load(m2, p[x - 1]) = p[x + 1] /\ Load(m2, p[x + 1] + 4) = p[x - 1]
      BY <3>2 DEF Bypass
    <3> QED BY <3>1, <3>3 DEF NextOf, PrevOf
  <2>3. CASE k >= x
    <3>1. /\ k + 1 \in 0..n /\ (k + 1) + 1 = k + 2 /\ k + 2 \in 1..n + 1
          /\ x - 1 \in 0..n /\ x + 1 \in 1..n + 1
          /\ r[k] = p[k + 1] /\ r[k + 1] = p[k + 2]
      BY <1>4, <2>3
    <3>2. p[k + 1] # p[x - 1]
      BY <2>3, <3>1 DEF Circle
    <3>3. p[k + 2] # p[x + 1]
      BY <1>3, <2>3, <3>1
    <3>4. p[k + 1] # p[x + 1] + 4 /\ p[k + 2] + 4 # p[x - 1] /\ p[k + 2] + 4 # p[x + 1] + 4
      <4>1. p[k + 1] \in Spots /\ p[k + 2] \in Spots
        BY <1>1, <3>1
      <4> QED BY <1>1, <1>6, <3>3, <4>1
    <3>5. Load(m2, p[k + 1]) = Load(m, p[k + 1]) /\ Load(m2, p[k + 2] + 4) = Load(m, p[k + 2] + 4)
      BY <3>2, <3>4 DEF Bypass
    <3>6. NextOf(m, p[k + 1]) = p[k + 2] /\ PrevOf(m, p[k + 2]) = p[k + 1]
      BY <3>1 DEF Circle
    <3> QED BY <3>1, <3>5, <3>6 DEF NextOf, PrevOf
  <2> QED BY <2>1, <2>2, <2>3
<1>8. ASSUME NEW j \in 0..n - 1, NEW k \in 0..n - 1, r[j] = r[k] PROVE j = k
  <2> DEFINE Old(i) == IF i < x THEN i ELSE i + 1
  <2>1. ASSUME NEW i \in 0..n - 1 PROVE Old(i) \in 0..n /\ r[i] = p[Old(i)]
    BY <1>4
  <2>2. p[Old(j)] = p[Old(k)] /\ Old(j) \in 0..n /\ Old(k) \in 0..n
    BY <1>8, <2>1
  <2>3. Old(j) = Old(k)
    <3> HIDE DEF Old
    <3> QED BY <2>2 DEF Circle
  <2> QED BY <2>3
<1>9. Seats(r, n - 1) = Seats(p, n) \ {p[x]}
  <2>1. ASSUME NEW k \in 0..n, k # x PROVE p[k] \in Seats(r, n - 1)
    <3>1. CASE k < x
      <4>1. k \in 0..n - 1 /\ r[k] = p[k]
        BY <1>4, <3>1
      <4> QED BY <4>1 DEF Seats
    <3>2. CASE k > x
      <4>1. k - 1 \in 0..n - 1 /\ r[k - 1] = p[k]
        BY <1>4, <3>2
      <4> QED BY <4>1 DEF Seats
    <3> QED BY <2>1, <3>1, <3>2
  <2>2. ASSUME NEW k \in 0..n - 1 PROVE r[k] \in Seats(p, n) \ {p[x]}
    <3>1. CASE k < x
      <4>1. k \in 0..n /\ r[k] = p[k] /\ k # x
        BY <1>4, <3>1
      <4> QED BY <4>1 DEF Seats, Circle
    <3>2. CASE k >= x
      <4>1. k + 1 \in 0..n /\ r[k] = p[k + 1] /\ k + 1 # x
        BY <1>4, <3>2
      <4> QED BY <4>1 DEF Seats, Circle
    <3> QED BY <3>1, <3>2
  <2> QED BY <2>1, <2>2 DEF Seats
<1>10. (n - 1) + 1 = n
  OBVIOUS
<1> HIDE DEF r
<1>11. Circle(m2, head, r, n - 1)
  BY <1>5, <1>7, <1>8, <1>10 DEF Circle
<1> QED BY <1>9, <1>11 DEF r

(* A list keeps its links when others are written.                          *)
LEMMA CircleKept ==
  ASSUME SameBlocks, NEW m, NEW m2, NEW head, NEW p, NEW n \in Nat,
         Circle(m, head, p, n), Seats(p, n) \subseteq Spots,
         \A s \in Seats(p, n) : NextOf(m2, s) = NextOf(m, s) /\ PrevOf(m2, s) = PrevOf(m, s)
  PROVE  Circle(m2, head, p, n)
<1>1. \A k \in 0..n : p[k] \in Seats(p, n) /\ p[k + 1] \in Seats(p, n)
  <2> SUFFICES ASSUME NEW k \in 0..n PROVE p[k] \in Seats(p, n) /\ p[k + 1] \in Seats(p, n)
    OBVIOUS
  <2>1. p[n + 1] = p[0] /\ 0 \in 0..n /\ (k + 1 \in 0..n \/ k + 1 = n + 1)
    BY DEF Circle
  <2> QED BY <2>1 DEF Seats
<1> QED BY <1>1 DEF Circle

-----------------------------------------------------------------------------
(* The way a loop goes over a list.                                         *)
IsWay(g, m, head, n) ==
  g = [k \in 0..n |-> IF k = 0 THEN head ELSE NextOf(m, g[k - 1])]

LEMMA WayExists ==
  ASSUME NEW m, NEW head, NEW n \in Nat
  PROVE  \E g : IsWay(g, m, head, n)
<1> USE DEF IsWay
<1> DEFINE Is(g, i) == IsWay(g, m, head, i)
           S == {i \in Nat : ~\E g : Is(g, i)}
<1>1. CASE S = {}
  BY <1>1
<1>2. CASE S # {}
  <2>1. PICK i \in S : \A j \in S : i <= j
    <3>1. S \in SUBSET Nat
      OBVIOUS
    <3> HIDE DEF S
    <3> QED BY <1>2, <3>1, LeastNat
  <2>2. CASE i = 0
    <3>1. Is([k \in 0..0 |-> head], 0)
      OBVIOUS
    <3> QED BY <2>1, <2>2, <3>1
  <2>3. CASE i # 0
    <3>1. i - 1 \in Nat /\ i - 1 \notin S
      BY SMTT(30), <2>1, <2>3
    <3>2. PICK g : Is(g, i - 1)
      BY <3>1
    <3> DEFINE h == [k \in 0..i |-> IF k = i THEN NextOf(m, g[i - 1]) ELSE g[k]]
    <3>3. ASSUME NEW k \in 0..i PROVE h[k] = IF k = 0 THEN head ELSE NextOf(m, h[k - 1])
      <4>1. CASE k = i
        BY <2>1, <2>3, <4>1
      <4>2. CASE k # i
        <5>1. k \in 0..i - 1 /\ h[k] = g[k] /\ (k # 0 => h[k - 1] = g[k - 1])
          BY <2>1, <4>2
        <5>2. g[k] = IF k = 0 THEN head ELSE NextOf(m, g[k - 1])
          BY <3>2, <5>1
        <5> QED BY <5>1, <5>2
      <4> QED BY <4>1, <4>2
    <3>4. Is(h, i)
      BY <3>3
    <3> HIDE DEF h, Is
    <3> QED BY <2>1, <3>4
  <2> QED BY <2>2, <2>3
<1> QED BY <1>1, <1>2

LEMMA ChainIs ==
  ASSUME NEW m, NEW head, MaxWalk \in Nat
  PROVE  \A k \in 0..MaxWalk :
           Chain(m, head)[k] = IF k = 0 THEN head ELSE NextOf(m, Chain(m, head)[k - 1])
<1> DEFINE node == CHOOSE g : IsWay(g, m, head, MaxWalk)
<1>1. IsWay(node, m, head, MaxWalk)
  <2>1. \E g : IsWay(g, m, head, MaxWalk)
    BY WayExists
  <2> QED BY <2>1
<1>2. Chain(m, head) = node
  BY DEF Chain, IsWay
<1> HIDE DEF node
<1> QED BY <1>1, <1>2 DEF IsWay

LEMMA ChainGoesRound ==
  ASSUME NEW m, NEW head, NEW p, NEW n \in Nat, Circle(m, head, p, n), n + 1 <= MaxWalk,
         MaxWalk \in Nat
  PROVE  \A k \in 0..n + 1 : Chain(m, head)[k] = p[k]
<1> DEFINE S == {k \in 0..n + 1 : Chain(m, head)[k] # p[k]}
<1>1. CASE S = {}
  BY <1>1
<1>2. CASE S # {}
  <2>1. PICK i \in S : \A j \in S : i <= j
    <3>1. S \in SUBSET Nat
      OBVIOUS
    <3> HIDE DEF S
    <3> QED BY <1>2, <3>1, LeastNat
  <2>2. Chain(m, head)[i] = IF i = 0 THEN head ELSE NextOf(m, Chain(m, head)[i - 1])
    BY <2>1, ChainIs
  <2>3. i # 0 => i - 1 \in 0..n /\ Chain(m, head)[i - 1] = p[i - 1] /\ (i - 1) + 1 = i
    BY <2>1
  <2>4. i = 0 => p[i] = head
    BY DEF Circle
  <2>5. i # 0 => p[i] = NextOf(m, p[i - 1])
    BY <2>3 DEF Circle
  <2> QED BY <2>1, <2>2, <2>3, <2>4, <2>5
<1> QED BY <1>1, <1>2

(* A loop over a list that looks for the first node in wanted.              *)
Found(m, head, wanted) ==
  LET node == Chain(m, head)
      stops == {k \in 1..MaxWalk : node[k] \in {head, Lost} \/ node[k] \in wanted}
  IN  IF stops = {} THEN Lost
      ELSE node[CHOOSE k \in stops : \A j \in stops : k <= j]

LEMMA ScanFinds ==
  ASSUME SameBlocks, NEW m, NEW head, NEW p, NEW n \in Nat, Circle(m, head, p, n),
         Seats(p, n) \subseteq Spots, n + 1 <= MaxWalk, NEW wanted
  PROVE  \E x \in 1..n + 1 : /\ Found(m, head, wanted) = p[x]
                             /\ x = n + 1 \/ p[x] \in wanted
                             /\ \A j \in 1..x - 1 : p[j] \notin wanted
<1> DEFINE node == Chain(m, head)
           stops == {k \in 1..MaxWalk : node[k] \in {head, Lost} \/ node[k] \in wanted}
           found == IF stops = {} THEN Lost
                    ELSE node[CHOOSE k \in stops : \A j \in stops : k <= j]
<1>0. MaxWalk \in Nat
  BY LayoutFacts
<1>1. \A k \in 0..n + 1 : node[k] = p[k]
  BY <1>0, ChainGoesRound
<1>2. n + 1 \in stops
  <2>1. node[n + 1] = head /\ n + 1 \in 1..MaxWalk
    BY <1>0, <1>1 DEF Circle
  <2> QED BY <2>1
<1>3. PICK x \in stops : \A j \in stops : x <= j
  <2>1. stops \in SUBSET Nat
    BY <1>0
  <2> HIDE DEF stops
  <2> QED BY <1>2, <2>1, LeastNat
<1>4. (CHOOSE k \in stops : \A j \in stops : k <= j) = x
  <2>1. stops \subseteq Nat
    BY <1>0
  <2> HIDE DEF stops
  <2>2. \A y \in stops : (\A j \in stops : y <= j) => y = x
    BY <1>3, <2>1
  <2> QED BY <1>3, <2>2
<1>5. x \in 1..n + 1 /\ node[x] = p[x]
  <2>1. x \in 1..MaxWalk /\ x <= n + 1
    BY <1>2, <1>3
  <2> QED BY <1>1, <2>1
<1>6. x = n + 1 \/ p[x] \in wanted
  <2>1. p[x] \in {head, Lost} \/ p[x] \in wanted
    BY <1>3, <1>5
  <2>2. x # n + 1 => p[x] # head /\ p[x] # Lost
    <3>1. x # n + 1 => x \in 1..n /\ x \in 0..n
      BY <1>5
    <3> QED BY <3>1, SeatFacts, SpotFacts
  <2> QED BY <2>1, <2>2
<1>7. ASSUME NEW j \in 1..x - 1 PROVE p[j] \notin wanted
  <2>1. j \in 1..MaxWalk /\ j \in 0..n + 1 /\ ~(x <= j)
    BY <1>0, <1>5
  <2>2. j \notin stops
    BY <1>3, <2>1
  <2> QED BY <1>1, <2>1, <2>2
<1>8. stops # {}
  BY <1>2
<1>9. Found(m, head, wanted) = found
  BY DEF Found
<1> HIDE DEF node, stops
<1>10. found = p[x]
  BY <1>4, <1>5, <1>8
<1> HIDE DEF found
<1> QED BY <1>5, <1>6, <1>7, <1>9, <1>10

-----------------------------------------------------------------------------
(* The two lists of a state.                                                *)
LEMMA StopFacts ==
  ASSUME NEW m, NEW head, NEW p, NEW n \in Nat, Circle(m, head, p, n)
  PROVE  Seats(p, n) = Stops(p, n) \cup {head} /\ head \notin Stops(p, n)
<1>1. p[0] = head /\ 0 \in 0..n /\ \A k \in 1..n : k \in 0..n /\ p[k] # p[0]
  BY DEF Circle
<1>2. \A k \in 0..n : k = 0 \/ k \in 1..n
  OBVIOUS
<1> QED BY <1>1, <1>2 DEF Seats, Stops

(* A pair of lists and the blocks in them, c of which were handed out.      *)
Sorted(c, f, nf, a, na) ==
  /\ nf + na <= c + 1
  /\ Stops(f, nf) \subseteq NodesBelow(c + 1) /\ Stops(a, na) \subseteq NodesBelow(c)
  /\ Stops(f, nf) \cap Stops(a, na) = {}
  /\ \A j, k \in 1..nf : j < k => f[j] < f[k]

LEMMA SortedFacts ==
  ASSUME SameBlocks, NEW m, NEW c \in 0..Top, NEW nf \in Nat \ {0}, NEW na \in Nat,
         NEW f, NEW a, Circle(m, FreeList, f, nf), Circle(m, AllocList, a, na),
         Sorted(c, f, nf, a, na)
  PROVE  /\ Stops(f, nf) \subseteq AllNodes /\ Stops(a, na) \subseteq AllNodes
         /\ Seats(f, nf) \subseteq Spots /\ Seats(a, na) \subseteq Spots
         /\ Seats(f, nf) \cap Seats(a, na) = {}
         /\ nf + 1 <= MaxWalk /\ na + 1 <= MaxWalk
         /\ \A k \in 1..nf : f[k] \in AllNodes
         /\ \A k \in 1..na : a[k] \in AllNodes
<1>1. Top \in Nat /\ Top + 2 <= MaxWalk /\ MaxWalk \in Nat
  BY TopFacts, LayoutFacts
<1>2. Stops(f, nf) \subseteq AllNodes /\ Stops(a, na) \subseteq AllNodes
  BY <1>1 DEF Sorted, NodesBelow, AllNodes
<1>3. /\ Seats(f, nf) = Stops(f, nf) \cup {FreeList}
      /\ Seats(a, na) = Stops(a, na) \cup {AllocList}
  BY StopFacts
<1>4. FreeList \notin AllNodes /\ AllocList \notin AllNodes /\ FreeList # AllocList
  BY SpotFacts, LayoutFacts
<1>5. Seats(f, nf) \cap Seats(a, na) = {}
  BY <1>2, <1>3, <1>4 DEF Sorted
<1>6. nf + 1 <= MaxWalk /\ na + 1 <= MaxWalk
  BY <1>1 DEF Sorted
<1>7. (\A k \in 1..nf : f[k] \in AllNodes) /\ (\A k \in 1..na : a[k] \in AllNodes)
  BY <1>2 DEF Stops
<1> QED BY <1>2, <1>3, <1>5, <1>6, <1>7 DEF Spots

(* The words of the list nodes: an operation on lists writes no others.     *)
Links == Spots \cup {s + 4 : s \in Spots}

LEMMA OnlyLinks ==
  ASSUME NEW m, NEW m2, NEW p \in Spots, NEW new \in Spots, NEW q \in Spots,
         Between(m, m2, p, new, q) \/ Bypass(m, m2, p, q)
  PROVE  \A b : b \notin Links => Load(m2, b) = Load(m, b)
BY DEF Between, Bypass, Links

LEMMA NoLinks ==
  ASSUME SameBlocks, NEW n \in AllNodes
  PROVE  n - 8 \notin Links /\ n - 4 \notin Links
BY SpotFacts DEF Links

LEMMA Apart ==
  ASSUME SameBlocks, NEW s \in Spots, NEW t \in Spots
  PROVE  s # t + 4 /\ s + 4 # t /\ (s # t => s + 4 # t + 4)
BY SpotFacts

LEMMA OtherSeats ==
  ASSUME SameBlocks, NEW m, NEW m2, NEW p \in Spots, NEW new \in Spots, NEW q \in Spots,
         NEW s \in Spots \ {p, q, new}, Between(m, m2, p, new, q)
  PROVE  NextOf(m2, s) = NextOf(m, s) /\ PrevOf(m2, s) = PrevOf(m, s)
<1>1. /\ s # p /\ s # new /\ s # new + 4 /\ s # q + 4
      /\ s + 4 # p /\ s + 4 # new /\ s + 4 # new + 4 /\ s + 4 # q + 4
  BY Apart
<1> QED BY <1>1 DEF Between, NextOf, PrevOf

LEMMA SeatsAround ==
  ASSUME SameBlocks, NEW m, NEW m2, NEW p \in Spots, NEW q \in Spots,
         NEW s \in Spots \ {p, q}, Bypass(m, m2, p, q)
  PROVE  NextOf(m2, s) = NextOf(m, s) /\ PrevOf(m2, s) = PrevOf(m, s)
<1>1. s # p /\ s # q + 4 /\ s + 4 # p /\ s + 4 # q + 4
  BY Apart
<1> QED BY <1>1 DEF Bypass, NextOf, PrevOf

(* list_move_tail of a free block to the allocated list.                    *)
LEMMA Moves ==
  ASSUME SameBlocks, NEW m, DOMAIN m = Words, NEW f, NEW nf \in Nat, NEW a, NEW na \in Nat,
         Circle(m, FreeList, f, nf), Circle(m, AllocList, a, na),
         Seats(f, nf) \subseteq Spots, Seats(a, na) \subseteq Spots,
         Seats(f, nf) \cap Seats(a, na) = {}, NEW x \in 1..nf,
         NEW m2, m2 = ListMoveTail(m, f[x], AllocList)
  PROVE  /\ DOMAIN m2 = Words
         /\ Circle(m2, FreeList, Removed(f, nf, x), nf - 1)
         /\ Circle(m2, AllocList, Inserted(a, na, na + 1, f[x]), na + 1)
         /\ Seats(Removed(f, nf, x), nf - 1) = Seats(f, nf) \ {f[x]}
         /\ Seats(Inserted(a, na, na + 1, f[x]), na + 1) = Seats(a, na) \cup {f[x]}
         /\ \A b : b \notin Links => Load(m2, b) = Load(m, b)
<1>0. PICK n, md : n = f[x] /\ md = ListDel(m, n)
  OBVIOUS
<1>1. /\ n \in Spots /\ n \in Seats(f, nf) /\ x - 1 \in 0..nf
      /\ f[x - 1] \in Spots /\ f[x + 1] \in Spots
      /\ PrevOf(m, n) = f[x - 1] /\ NextOf(m, n) = f[x + 1]
      /\ f[x - 1] \in Seats(f, nf) /\ f[x + 1] \in Seats(f, nf)
  <2>1. x \in 0..nf /\ x - 1 \in 0..nf /\ (x - 1) + 1 = x /\ (x + 1 \in 0..nf \/ x + 1 = nf + 1)
        /\ 0 \in 0..nf
    OBVIOUS
  <2>2. f[x - 1] \in Seats(f, nf) /\ f[x] \in Seats(f, nf)
    BY <2>1 DEF Seats
  <2>3. f[x + 1] \in Seats(f, nf)
    BY <2>1 DEF Seats, Circle
  <2>4. PrevOf(m, n) = f[x - 1] /\ NextOf(m, n) = f[x + 1]
    BY <1>0, <2>1 DEF Circle
  <2> QED BY <1>0, <2>1, <2>2, <2>3, <2>4
<1>2. Bypass(m, md, f[x - 1], f[x + 1])
  <2>1. Bypass(m, ListDel(m, n), PrevOf(m, n), NextOf(m, n))
    BY <1>1, Deletes
  <2> QED BY <1>0, <1>1, <2>1
<1>3. /\ DOMAIN md = Words
      /\ Circle(md, FreeList, Removed(f, nf, x), nf - 1)
      /\ Seats(Removed(f, nf, x), nf - 1) = Seats(f, nf) \ {n}
  BY <1>0, <1>2, CircleRemoved DEF Bypass
<1>4. Circle(md, AllocList, a, na)
  <2>1. \A s \in Seats(a, na) : NextOf(md, s) = NextOf(m, s) /\ PrevOf(md, s) = PrevOf(m, s)
    <3>1. \A s \in Seats(a, na) : s \in Spots \ {f[x - 1], f[x + 1]}
      BY <1>1
    <3> QED BY <1>1, <1>2, <3>1, SeatsAround
  <2> QED BY <2>1, CircleKept
<1>5. /\ a[na] \in Spots /\ a[na] \in Seats(a, na) /\ AllocList \in Spots /\ a[na + 1] = AllocList
      /\ AllocList \in Seats(a, na) /\ PrevOf(md, AllocList) = a[na]
  <2>1. na \in 0..na /\ 0 \in 0..na /\ a[0] = AllocList
    BY DEF Circle
  <2>2. a[na] \in Seats(a, na) /\ AllocList \in Seats(a, na)
    BY <2>1 DEF Seats
  <2> QED BY <1>4, <2>1, <2>2 DEF Circle
<1>6. n # a[na] /\ n # AllocList /\ n \notin Seats(a, na)
  BY <1>1, <1>5
<1>7. Between(md, m2, a[na], n, AllocList)
  <2>1. m2 = ListAdd(md, n, a[na], AllocList)
    BY <1>0, <1>5 DEF ListMoveTail, ListAddTail
  <2> QED BY <1>1, <1>3, <1>5, <1>6, <2>1, Adds
<1>8. Circle(m2, FreeList, Removed(f, nf, x), nf - 1)
  <2> DEFINE r == Removed(f, nf, x)
  <2>1. \A s \in Seats(r, nf - 1) : s \in Spots \ {a[na], AllocList, n}
    BY <1>3, <1>5
  <2>2. \A s \in Seats(r, nf - 1) : NextOf(m2, s) = NextOf(md, s) /\ PrevOf(m2, s) = PrevOf(md, s)
    BY <1>1, <1>5, <1>7, <2>1, OtherSeats
  <2>3. nf - 1 \in Nat /\ Seats(r, nf - 1) \subseteq Spots
    BY <2>1
  <2> HIDE DEF r
  <2>4. Circle(md, FreeList, r, nf - 1)
    BY <1>3 DEF r
  <2>5. Circle(m2, FreeList, r, nf - 1)
    BY <2>2, <2>3, <2>4, CircleKept
  <2> QED BY <2>5 DEF r
<1>9. /\ Circle(m2, AllocList, Inserted(a, na, na + 1, n), na + 1)
      /\ Seats(Inserted(a, na, na + 1, n), na + 1) = Seats(a, na) \cup {n}
  <2>1. (na + 1) - 1 = na /\ na + 1 \in 1..na + 1
    OBVIOUS
  <2>2. Between(md, m2, a[(na + 1) - 1], n, a[na + 1])
    BY <1>5, <1>7, <2>1
  <2>3. Grows(md, m2, AllocList, a, na, na + 1, n)
    BY <1>1, <1>4, <1>6, <2>1, <2>2 DEF Grows
  <2> QED BY <2>3, CircleInserted
<1>10. \A b : b \notin Links => Load(m2, b) = Load(m, b)
  <2>1. \A b : b \notin Links => Load(md, b) = Load(m, b)
    BY <1>1, <1>2, OnlyLinks
  <2>2. \A b : b \notin Links => Load(m2, b) = Load(md, b)
    BY <1>1, <1>5, <1>7, OnlyLinks
  <2> QED BY <2>1, <2>2
<1> QED BY <1>0, <1>3, <1>7, <1>8, <1>9, <1>10 DEF Between

-----------------------------------------------------------------------------
(* mem_find: what is written into headers, before the block is moved.       *)
HeaderCut(m, n, h) ==
  Store(Store(Store(m, h - 4, h - 8), h - 8, Bytes(Flag(m, n)) - Block), n - 8, Block + 1)

LEMMA CarveIs ==
  ASSUME SameBlocks, NEW m, DOMAIN m = Words, NEW n \in AllNodes, NEW h \in AllNodes,
         h = n + Block, Start(m, n) = n - 8
  PROVE  Carve(m, n, Block) =
           LET m4 == ListMoveTail(HeaderCut(m, n, h), n, AllocList)
           IN  IF ListEmpty(m4, FreeList) THEN ListAddTail(m4, h, FreeList) ELSE m4
<1>1. n \in Nat /\ h \in Nat /\ Block \in Nat /\ h - 4 \in Words
  BY NodeFacts, BlockFacts
<1>2. Start(m, n) + Block = h - 8 /\ (h - 8) + 4 = h - 4 /\ (h - 8) + 8 = h
  BY <1>1
<1>3. Flag(Store(m, h - 4, h - 8), n) = Flag(m, n)
  BY <1>1, SpotFacts, LoadStore DEF Flag
<1> QED BY <1>2, <1>3 DEF Carve, HeaderCut

LEMMA CutWrites ==
  ASSUME SameBlocks, NEW m, DOMAIN m = Words, NEW n \in AllNodes, NEW h \in AllNodes, n # h,
         Start(m, n) = n - 8, NEW m3, m3 = HeaderCut(m, n, h)
  PROVE  /\ DOMAIN m3 = Words
         /\ Flag(m3, n) = Block + 1 /\ Start(m3, n) = n - 8
         /\ Flag(m3, h) = Bytes(Flag(m, n)) - Block /\ Start(m3, h) = h - 8
         /\ \A o \in AllNodes \ {n, h} : Flag(m3, o) = Flag(m, o) /\ Start(m3, o) = Start(m, o)
         /\ \A s \in Spots : NextOf(m3, s) = NextOf(m, s) /\ PrevOf(m3, s) = PrevOf(m, s)
         /\ \A b : (\A o \in AllNodes : b # o - 8 /\ b # o - 4) => Load(m3, b) = Load(m, b)
<1> DEFINE m1 == Store(m, h - 4, h - 8)
           rest == Bytes(Flag(m, n)) - Block
           m2 == Store(m1, h - 8, rest)
<1>1. n - 8 \in Words /\ h - 8 \in Words /\ h - 4 \in Words /\ AllNodes \subseteq Nat
  BY NodeFacts
<1> HIDE DEF rest
<1>2. DOMAIN m1 = Words /\ \A b : Load(m1, b) = IF b = h - 4 THEN h - 8 ELSE Load(m, b)
  BY <1>1, LoadStore
<1> HIDE DEF m1
<1>3. DOMAIN m2 = Words /\ \A b : Load(m2, b) = IF b = h - 8 THEN rest ELSE Load(m1, b)
  BY <1>1, <1>2, LoadStore
<1>4. m3 = Store(m2, n - 8, Block + 1)
  BY DEF HeaderCut, m1, rest
<1> HIDE DEF m2
<1>5. DOMAIN m3 = Words /\ \A b : Load(m3, b) = IF b = n - 8 THEN Block + 1 ELSE Load(m2, b)
  BY <1>1, <1>3, <1>4, LoadStore
<1>6. \A b : Load(m3, b) = IF b = n - 8 THEN Block + 1 ELSE IF b = h - 8 THEN rest
                           ELSE IF b = h - 4 THEN h - 8 ELSE Load(m, b)
  BY <1>2, <1>3, <1>5
<1>7. \A o, q \in AllNodes : o - 8 # q - 4 /\ (o # q => o - 8 # q - 8 /\ o - 4 # q - 4)
  BY <1>1, SpotFacts
<1>8. \A s \in Spots, o \in AllNodes : o - 8 # s /\ o - 4 # s /\ o - 8 # s + 4 /\ o - 4 # s + 4
  BY SpotFacts
<1>9. Flag(m3, n) = Block + 1 /\ Start(m3, n) = n - 8
  BY <1>6, <1>7 DEF Flag, Start
<1>10. Flag(m3, h) = rest /\ Start(m3, h) = h - 8
  BY <1>6, <1>7 DEF Flag, Start
<1>11. \A o \in AllNodes \ {n, h} : Flag(m3, o) = Flag(m, o) /\ Start(m3, o) = Start(m, o)
  BY <1>6, <1>7 DEF Flag, Start
<1>12. \A s \in Spots : NextOf(m3, s) = NextOf(m, s) /\ PrevOf(m3, s) = PrevOf(m, s)
  BY <1>6, <1>8 DEF NextOf, PrevOf
<1>13. \A b : (\A o \in AllNodes : b # o - 8 /\ b # o - 4) => Load(m3, b) = Load(m, b)
  BY <1>6
<1> QED BY <1>5, <1>9, <1>10, <1>11, <1>12, <1>13 DEF rest

(* A memory with its two lists; the clients' pointers are left out.         *)
Shape(m, c, f, nf, a, na) ==
  /\ DOMAIN m = Words
  /\ Circle(m, FreeList, f, nf) /\ Circle(m, AllocList, a, na)
  /\ Sorted(c, f, nf, a, na)
  /\ \A n \in Stops(f, nf) \cup Stops(a, na) :
       Start(m, n) = n - 8 /\ Flag(m, n) \in FlagOf(n, c)
  /\ f[nf] = Node(c) \/ Flag(m, f[nf]) = 0

(* The free block at which a search stops, and the header behind it.        *)
FirstFitting(m, f, x) ==
  /\ Fits(Flag(m, f[x])) >= Block
  /\ \A j \in 1..x - 1 : ~(Fits(Flag(m, f[j])) >= Block)
Behind(m, n, h, c, d) ==
  /\ n \in NodesBelow(d) /\ h \in NodesBelow(d + 1) /\ Block + 1 \in FlagOf(n, d)
  /\ Bytes(Flag(m, n)) - Block \in FlagOf(h, d)
  /\ NodesBelow(c) \subseteq NodesBelow(d) /\ NodesBelow(c + 1) \subseteq NodesBelow(d + 1)

LEMMA BlockFlags ==
  ASSUME SameBlocks
  PROVE  /\ Fits(0) = 0
         /\ Top > 0 => /\ Fits(Block + 1) = Block /\ Bytes(Block + 1) = Block
                       /\ Block >= 20 /\ Block % 4 = 0
<1>1. Fits(0) = 0
  BY DEF Fits, FitLimit
<1>2. ASSUME Top > 0
      PROVE  /\ Fits(Block + 1) = Block /\ Bytes(Block + 1) = Block
             /\ Block >= 20 /\ Block % 4 = 0
  <2>1. Block \in Nat /\ Block % 4 = 0 /\ Block >= 20 /\ Top \in Nat
    BY <1>2, BlockFacts, TopFacts
  <2>2. Block <= HeapSize
    <3>1. 1 * Block <= Top * Block /\ 1 * Block = Block /\ Top * Block \in Nat
      BY <1>2, <2>1, MulLe
    <3>2. PICK t : t = Top * Block
      OBVIOUS
    <3>3. t <= HeapSize /\ Block <= t
      BY <3>1, <3>2, TopFacts
    <3> QED BY <2>1, <3>1, <3>2, <3>3, LayoutFacts
  <2>3. Block < FitLimit
    BY <2>1, <2>2, LayoutFacts DEF FitLimit
  <2> QED BY <2>1, <2>3, Flags
<1> QED BY <1>1, <1>2

(* Nothing fits but a block of the wanted size that was freed, or the rest  *)
(* of the heap.                                                             *)
LEMMA BehindRest ==
  ASSUME SameBlocks, Block % 4 = 0, NEW m, NEW c \in 0..Top,
         NEW n, n = Node(c), Flag(m, n) \in FlagOf(n, c), Fits(Flag(m, n)) >= Block
  PROVE  c + 1 \in 0..Top /\ Node(c + 1) = n + Block /\ Behind(m, n, n + Block, c, c + 1)
<1>1. Block \in Nat /\ Block > 16 /\ c \in Nat /\ Top \in Nat
  BY BlockFacts, TopFacts
<1>2. n \in AllNodes /\ Node(c + 1) = n + Block
  BY <1>1, NodeStep DEF AllNodes
<1>3. n \in Nat /\ Base + 8 <= n /\ n <= End + 8 /\ n % 4 = 0
  BY <1>2, NodeFacts
<1>4. PICK b : b = End + 8 - n
  OBVIOUS
<1>5. b \in Nat /\ b % 4 = 0 /\ b < FitLimit
  BY <1>3, <1>4, LayoutFacts DEF FitLimit
<1>6. Fits(0) = 0 /\ Fits(b) = b /\ Bytes(b) = b
  BY <1>5, Flags
<1>7. Flag(m, n) = b /\ b >= Block
  BY <1>1, <1>4, <1>6 DEF FlagOf
<1>8. c + 1 \in 0..Top
  <2>1. (c + 1) * Block <= HeapSize
    <3>1. PICK t : t = (c + 1) * Block
      OBVIOUS
    <3>2. t \in Nat
      BY <1>1, <3>1
    <3>3. n + Block = Base + t + 8
      BY <1>2, <3>1 DEF Node
    <3> QED BY <1>1, <1>3, <1>4, <1>7, <3>1, <3>2, <3>3, LayoutFacts
  <2> QED BY <1>1, <2>1, TopFacts
<1>9. n \in NodesBelow(c + 1) /\ n + Block \in NodesBelow((c + 1) + 1)
      /\ NodesBelow(c) \subseteq NodesBelow(c + 1) /\ NodesBelow(c + 1) \subseteq NodesBelow((c + 1) + 1)
  <2>1. c \in 0..(c + 1) - 1 /\ c + 1 \in 0..((c + 1) + 1) - 1
        /\ 0..c - 1 \subseteq 0..(c + 1) - 1 /\ 0..(c + 1) - 1 \subseteq 0..((c + 1) + 1) - 1
    BY <1>1
  <2> QED BY <1>2, <2>1 DEF NodesBelow
<1>10. n # n + Block
  BY <1>1, <1>3
<1>11. Block + 1 \in FlagOf(n, c + 1)
  BY <1>2, <1>10 DEF FlagOf
<1>12. Bytes(Flag(m, n)) - Block \in FlagOf(n + Block, c + 1)
  <2>1. Bytes(Flag(m, n)) - Block = End + 8 - (n + Block)
    BY <1>1, <1>3, <1>4, <1>6, <1>7, LayoutFacts
  <2> QED BY <1>2, <2>1 DEF FlagOf
<1> QED BY <1>2, <1>8, <1>9, <1>11, <1>12 DEF Behind

LEMMA BehindCut ==
  ASSUME SameBlocks, Block % 4 = 0, NEW m, NEW c \in 0..Top, NEW n,
         n \in NodesBelow(c), Flag(m, n) \in FlagOf(n, c), Fits(Flag(m, n)) >= Block
  PROVE  /\ Behind(m, n, n + Block, c, c) /\ n + Block \in AllNodes
         /\ Bytes(Flag(m, n)) - Block = 0
<1>1. Block \in Nat /\ Block > 16 /\ c \in Nat /\ Top \in Nat
  BY BlockFacts, TopFacts
<1>2. PICK k \in 0..c - 1 : n = Node(k)
  BY DEF NodesBelow
<1>3. k \in Nat /\ k # c /\ k + 1 \in 0..Top /\ k + 1 \in 0..(c + 1) - 1 /\ Top > 0
  BY <1>1
<1>4. n # Node(c) /\ Node(k + 1) = n + Block
  BY <1>1, <1>2, <1>3, NodeStep
<1>5. Fits(0) = 0 /\ Bytes(Block + 1) = Block
  BY <1>3, BlockFlags
<1>6. Flag(m, n) = Block + 1 /\ FlagOf(n, c) = {0, Block + 1}
  BY <1>1, <1>4, <1>5 DEF FlagOf
<1>7. Bytes(Flag(m, n)) - Block = 0
  BY <1>1, <1>5, <1>6
<1>8. n + Block \in NodesBelow(c + 1) /\ n + Block \in AllNodes
  BY <1>3, <1>4 DEF NodesBelow, AllNodes
<1>9. 0 \in FlagOf(n + Block, c)
  BY DEF FlagOf
<1> QED BY <1>6, <1>7, <1>8, <1>9 DEF Behind

LEMMA NodesUpTo ==
  ASSUME SameBlocks, NEW c \in 0..Top
  PROVE  /\ NodesBelow(c + 1) = NodesBelow(c) \cup {Node(c)} /\ Node(c) \notin NodesBelow(c)
         /\ NodesBelow(c + 1) \subseteq AllNodes
         /\ \A n \in NodesBelow(c + 1) : n <= Node(c)
         /\ Node(c) \in Nat /\ Node(c) + Block \notin NodesBelow(c + 1)
<1>1. Block \in Nat /\ Block > 16 /\ c \in Nat /\ Top \in Nat
  BY BlockFacts, TopFacts
<1>2. 0..(c + 1) - 1 = (0..c - 1) \cup {c} /\ 0..(c + 1) - 1 \subseteq 0..Top
  BY <1>1
<1>3. ASSUME NEW k \in 0..c - 1 PROVE Node(k) \in Nat /\ Node(k) + Block <= Node(c)
  BY <1>1, NodeStep
<1>4. Node(c) \in Nat
  BY <1>1, NodeStep
<1>5. \A k \in 0..c - 1 : Node(k) < Node(c) /\ Node(k) \in Nat
  BY <1>1, <1>3, <1>4
<1>6. NodesBelow(c + 1) = NodesBelow(c) \cup {Node(c)}
  BY <1>2 DEF NodesBelow
<1>7. \A n \in NodesBelow(c) : n \in Nat /\ n < Node(c)
  BY <1>5 DEF NodesBelow
<1>8. NodesBelow(c + 1) \subseteq AllNodes
  BY <1>2 DEF NodesBelow, AllNodes
<1> QED BY <1>1, <1>4, <1>6, <1>7, <1>8

(* The words an operation may write: those of list nodes and of headers.    *)
OnlyHeaders(m, m2) ==
  \A b : b \notin Links /\ (\A o \in AllNodes : b # o - 8 /\ b # o - 4) => Load(m2, b) = Load(m, b)

LEMMA Removing ==
  ASSUME SameBlocks, NEW f, NEW nf \in Nat, NEW x \in 1..nf,
         \A j, k \in 1..nf : j < k => f[j] < f[k]
  PROVE  /\ \A j, k \in 1..nf - 1 : j < k => Removed(f, nf, x)[j] < Removed(f, nf, x)[k]
         /\ nf > 1 => Removed(f, nf, x)[nf - 1] = IF x = nf THEN f[nf - 1] ELSE f[nf]
<1> DEFINE r == Removed(f, nf, x)
<1>1. \A k \in 0..nf : r[k] = IF k < x THEN f[k] ELSE f[k + 1]
  BY DEF Removed
<1>2. ASSUME NEW j \in 1..nf - 1, NEW k \in 1..nf - 1, j < k PROVE r[j] < r[k]
  <2>1. r[j] = IF j < x THEN f[j] ELSE f[j + 1]
    BY <1>1
  <2>2. r[k] = IF k < x THEN f[k] ELSE f[k + 1]
    BY <1>1
  <2>3. j \in 1..nf /\ k \in 1..nf /\ j + 1 \in 1..nf /\ k + 1 \in 1..nf
        /\ j < k + 1 /\ j + 1 < k + 1
    BY <1>2
  <2> HIDE DEF r
  <2> QED BY <1>2, <2>1, <2>2, <2>3
<1>3. ASSUME nf > 1 PROVE r[nf - 1] = IF x = nf THEN f[nf - 1] ELSE f[nf]
  <2>1. nf - 1 \in 0..nf /\ (nf - 1 < x <=> x = nf) /\ (nf - 1) + 1 = nf
    BY <1>3
  <2> QED BY <1>1, <2>1
<1> HIDE DEF r
<1> QED BY <1>2, <1>3 DEF r

(* The state between the writes into headers and the list operations.       *)
Cuts(m, m3, c, d, f, nf, a, na, n, h) ==
  /\ c \in 0..Top /\ d \in 0..Top /\ nf \in Nat \ {0} /\ na \in Nat
  /\ Shape(m, c, f, nf, a, na)
  /\ n \in Stops(f, nf) /\ h \in AllNodes /\ h = n + Block /\ Behind(m, n, h, c, d)
  /\ d = c \/ (d = c + 1 /\ n = Node(c) /\ h = Node(d))
  /\ m3 = HeaderCut(m, n, h)

LEMMA CutShape ==
  ASSUME SameBlocks, NEW m, NEW m3, NEW c, NEW d, NEW f, NEW nf, NEW a, NEW na, NEW n, NEW h,
         Cuts(m, m3, c, d, f, nf, a, na, n, h)
  PROVE  /\ DOMAIN m3 = Words
         /\ Circle(m3, FreeList, f, nf) /\ Circle(m3, AllocList, a, na)
         /\ \A o \in Stops(f, nf) \cup Stops(a, na) \cup {h} :
              Start(m3, o) = o - 8 /\ Flag(m3, o) \in FlagOf(o, d)
         /\ \A o \in AllNodes \ {n, h} : Flag(m3, o) = Flag(m, o)
         /\ Flag(m3, h) = Bytes(Flag(m, n)) - Block
         /\ OnlyHeaders(m, m3)
<1> USE DEF Cuts
<1>1. /\ Stops(f, nf) \subseteq AllNodes /\ Stops(a, na) \subseteq AllNodes
      /\ Seats(f, nf) \subseteq Spots /\ Seats(a, na) \subseteq Spots
  BY SortedFacts DEF Shape
<1>2. n \in AllNodes /\ Start(m, n) = n - 8 /\ n # h
  <2>1. n \in AllNodes /\ Start(m, n) = n - 8
    BY <1>1 DEF Shape
  <2> QED BY <2>1, NodeFacts, BlockFacts
<1>3. /\ DOMAIN m3 = Words
      /\ Flag(m3, n) = Block + 1 /\ Start(m3, n) = n - 8
      /\ Flag(m3, h) = Bytes(Flag(m, n)) - Block /\ Start(m3, h) = h - 8
      /\ \A o \in AllNodes \ {n, h} : Flag(m3, o) = Flag(m, o) /\ Start(m3, o) = Start(m, o)
      /\ \A s \in Spots : NextOf(m3, s) = NextOf(m, s) /\ PrevOf(m3, s) = PrevOf(m, s)
      /\ \A b : (\A o \in AllNodes : b # o - 8 /\ b # o - 4) => Load(m3, b) = Load(m, b)
  BY <1>2, CutWrites DEF Shape
<1>4. Circle(m3, FreeList, f, nf)
  <2>1. \A s \in Seats(f, nf) : NextOf(m3, s) = NextOf(m, s) /\ PrevOf(m3, s) = PrevOf(m, s)
    BY <1>1, <1>3
  <2> QED BY <1>1, <2>1, CircleKept DEF Shape
<1>5. Circle(m3, AllocList, a, na)
  <2>1. \A s \in Seats(a, na) : NextOf(m3, s) = NextOf(m, s) /\ PrevOf(m3, s) = PrevOf(m, s)
    BY <1>1, <1>3
  <2> QED BY <1>1, <2>1, CircleKept DEF Shape
<1>6. ASSUME NEW o \in Stops(f, nf) \cup Stops(a, na) \cup {h}
      PROVE  Start(m3, o) = o - 8 /\ Flag(m3, o) \in FlagOf(o, d)
  <2>1. CASE o = n
    BY <1>3, <2>1 DEF Behind
  <2>2. CASE o = h
    BY <1>3, <2>2 DEF Behind
  <2>3. CASE o # n /\ o # h
    <3>1. Start(m, o) = o - 8 /\ Flag(m, o) \in FlagOf(o, c) /\ o \in AllNodes \ {n, h}
      BY <1>1, <2>3 DEF Shape
    <3>2. FlagOf(o, c) = FlagOf(o, d)
      BY <2>3 DEF FlagOf
    <3> QED BY <1>3, <3>1, <3>2
  <2> QED BY <2>1, <2>2, <2>3
<1>7. OnlyHeaders(m, m3)
  BY <1>3 DEF OnlyHeaders
<1> QED BY <1>3, <1>4, <1>5, <1>6, <1>7

(* malloc of a block that fits.                                             *)
Carving(m, m2, c, f, nf, a, na, x) ==
  /\ c \in 0..Top /\ nf \in Nat \ {0} /\ na \in Nat /\ Shape(m, c, f, nf, a, na)
  /\ x \in 1..nf /\ FirstFitting(m, f, x) /\ m2 = Carve(m, f[x], Block)

LEMMA Carves ==
  ASSUME SameBlocks, Block % 4 = 0, NEW m, NEW m2, NEW c, NEW f, NEW nf, NEW a, NEW na, NEW x,
         Carving(m, m2, c, f, nf, a, na, x)
  PROVE  \E d \in 0..Top, nf2 \in Nat \ {0} : \E f2, a2 :
           /\ Shape(m2, d, f2, nf2, a2, na + 1)
           /\ Stops(a2, na + 1) = Stops(a, na) \cup {f[x]}
           /\ NodesBelow(c) \subseteq NodesBelow(d)
           /\ OnlyHeaders(m, m2)
<1> USE DEF Carving
<1>0. PICK n, h, m3, m4 :
        /\ n = f[x] /\ h = n + Block
        /\ m3 = HeaderCut(m, n, h) /\ m4 = ListMoveTail(m3, n, AllocList)
  OBVIOUS
<1>1. /\ n \in Stops(f, nf) /\ n \in AllNodes /\ n \in NodesBelow(c + 1) /\ Start(m, n) = n - 8
      /\ Flag(m, n) \in FlagOf(n, c) /\ Fits(Flag(m, n)) >= Block
      /\ Seats(f, nf) \subseteq Spots /\ Seats(a, na) \subseteq Spots
      /\ Seats(f, nf) \cap Seats(a, na) = {}
      /\ Stops(f, nf) \subseteq AllNodes /\ Stops(a, na) \subseteq AllNodes
  <2>1. n \in Stops(f, nf)
    BY <1>0 DEF Stops
  <2> QED BY <1>0, <2>1, SortedFacts DEF Shape, Sorted, FirstFitting
<1>2. PICK d \in 0..Top :
        /\ Behind(m, n, h, c, d) /\ h \in AllNodes
        /\ \/ d = c + 1 /\ n = Node(c) /\ h = Node(d)
           \/ d = c /\ n # Node(c) /\ Bytes(Flag(m, n)) - Block = 0
  <2>1. CASE n = Node(c)
    <3>1. c + 1 \in 0..Top /\ Node(c + 1) = h /\ Behind(m, n, h, c, c + 1)
      BY <1>0, <1>1, <2>1, BehindRest
    <3>2. h \in AllNodes
      BY <3>1 DEF AllNodes
    <3> QED BY <2>1, <3>1, <3>2
  <2>2. CASE n # Node(c)
    <3>1. n \in NodesBelow(c)
      BY <1>1, <2>2, NodesUpTo
    <3> QED BY <1>0, <1>1, <2>2, <3>1, BehindCut
  <2> QED BY <2>1, <2>2
<1>3. /\ DOMAIN m3 = Words
      /\ Circle(m3, FreeList, f, nf) /\ Circle(m3, AllocList, a, na)
      /\ \A o \in Stops(f, nf) \cup Stops(a, na) \cup {h} :
           Start(m3, o) = o - 8 /\ Flag(m3, o) \in FlagOf(o, d)
      /\ \A o \in AllNodes \ {n, h} : Flag(m3, o) = Flag(m, o)
      /\ Flag(m3, h) = Bytes(Flag(m, n)) - Block
      /\ OnlyHeaders(m, m3)
  <2>1. d = c \/ (d = c + 1 /\ n = Node(c) /\ h = Node(d))
    BY <1>2
  <2>2. Cuts(m, m3, c, d, f, nf, a, na, n, h)
    BY <1>0, <1>1, <1>2, <2>1 DEF Cuts
  <2> QED BY <2>2, CutShape
<1> DEFINE r == Removed(f, nf, x)
           i == Inserted(a, na, na + 1, n)
<1>4. /\ DOMAIN m4 = Words
      /\ Circle(m4, FreeList, r, nf - 1) /\ Circle(m4, AllocList, i, na + 1)
      /\ Seats(r, nf - 1) = Seats(f, nf) \ {n} /\ Seats(i, na + 1) = Seats(a, na) \cup {n}
      /\ \A b : b \notin Links => Load(m4, b) = Load(m3, b)
  BY <1>0, <1>1, <1>3, Moves
<1>5. \A o \in AllNodes : Flag(m4, o) = Flag(m3, o) /\ Start(m4, o) = Start(m3, o)
  BY <1>4, NoLinks DEF Flag, Start
<1>6. /\ \A j, k \in 1..nf - 1 : j < k => r[j] < r[k]
      /\ nf > 1 => r[nf - 1] = IF x = nf THEN f[nf - 1] ELSE f[nf]
  BY Removing DEF Shape, Sorted
<1>7. m2 = IF ListEmpty(m4, FreeList) THEN ListAddTail(m4, h, FreeList) ELSE m4
  BY <1>0, <1>1, <1>2, CarveIs DEF Shape
<1> HIDE DEF r, i
<1>8. Stops(r, nf - 1) = Stops(f, nf) \ {n} /\ Stops(i, na + 1) = Stops(a, na) \cup {n}
  <2>1. nf - 1 \in Nat /\ na + 1 \in Nat
    OBVIOUS
  <2>2. /\ Seats(r, nf - 1) = Stops(r, nf - 1) \cup {FreeList} /\ FreeList \notin Stops(r, nf - 1)
        /\ Seats(i, na + 1) = Stops(i, na + 1) \cup {AllocList} /\ AllocList \notin Stops(i, na + 1)
    BY <1>4, <2>1, StopFacts
  <2>3. /\ Seats(f, nf) = Stops(f, nf) \cup {FreeList} /\ FreeList \notin Stops(f, nf)
        /\ Seats(a, na) = Stops(a, na) \cup {AllocList} /\ AllocList \notin Stops(a, na)
    BY StopFacts DEF Shape
  <2>4. n # FreeList /\ n # AllocList
    BY <1>1, SpotFacts
  <2> QED BY <1>4, <2>2, <2>3, <2>4
<1>9. OnlyHeaders(m, m4)
  BY <1>3, <1>4 DEF OnlyHeaders
<1>10. NodesBelow(c) \subseteq NodesBelow(d) /\ n \in NodesBelow(d)
       /\ NodesBelow(c + 1) \subseteq NodesBelow(d + 1) /\ h \in NodesBelow(d + 1)
  BY <1>2 DEF Behind
<1>11. Fits(0) = 0 /\ Fits(Block + 1) = Block /\ Block \in Nat /\ Block > 16
  <2>1. 0..d - 1 # {} /\ Top \in Nat
    BY <1>2, TopFacts DEF Behind, NodesBelow
  <2>2. Top > 0
    BY <2>1
  <2> QED BY <2>2, BlockFlags, BlockFacts
<1>12. CASE nf > 1
  <2>1. m2 = m4
    <3>1. r[1] = NextOf(m4, FreeList) /\ r[1] # FreeList
      <4>1. 0 \in 0..nf - 1 /\ 1 \in 0..nf - 1 /\ 0 + 1 = 1 /\ r[0] = FreeList
        BY <1>4, <1>12 DEF Circle
      <4> QED BY <1>4, <4>1 DEF Circle
    <3> QED BY <1>7, <3>1 DEF ListEmpty
  <2>2. r[nf - 1] = Node(d) \/ Flag(m4, r[nf - 1]) = 0
    <3>1. CASE d = c + 1 /\ n = Node(c) /\ h = Node(d)
      <4>1. x = nf
        <5>1. SUFFICES ASSUME x # nf PROVE FALSE
          OBVIOUS
        <5>2. f[x] < f[nf] /\ f[nf] \in Stops(f, nf)
          BY <5>1 DEF Shape, Sorted, Stops
        <5>3. f[nf] <= Node(c) /\ f[nf] \in Nat /\ Node(c) \in Nat
          BY <1>1, <5>2, NodesUpTo, NodeFacts DEF Shape, Sorted
        <5> QED BY <1>0, <3>1, <5>2, <5>3
      <4>2. PICK o : o = f[nf - 1]
        OBVIOUS
      <4>3. o \in Stops(f, nf) /\ o # n /\ o \in AllNodes /\ ~(Fits(Flag(m, o)) >= Block)
        <5>1. nf - 1 \in 1..nf /\ nf - 1 \in 1..x - 1 /\ nf - 1 \in 0..nf /\ nf \in 0..nf /\ nf - 1 # nf
          BY <1>12, <4>1
        <5>2. f[nf - 1] # f[nf]
          BY <5>1 DEF Shape, Circle
        <5>3. o \in Stops(f, nf)
          BY <4>2, <5>1 DEF Stops
        <5> QED BY <1>0, <1>1, <4>1, <4>2, <5>1, <5>2, <5>3 DEF FirstFitting
      <4>4. o # Node(c) /\ o # h
        <5>1. o \in NodesBelow(c + 1) /\ h \notin NodesBelow(c + 1)
          BY <1>0, <3>1, <4>3, NodesUpTo DEF Shape, Sorted
        <5> QED BY <3>1, <4>3, <5>1
      <4>5. Flag(m, o) \in {0, Block + 1}
        BY <4>3, <4>4 DEF Shape, FlagOf
      <4>6. Flag(m, o) = 0
        BY <1>11, <4>3, <4>5
      <4>7. Flag(m4, o) = 0
        BY <1>3, <1>5, <4>3, <4>4, <4>6
      <4> QED BY <1>6, <1>12, <4>1, <4>2, <4>7
    <3>2. CASE d = c /\ n # Node(c) /\ Bytes(Flag(m, n)) - Block = 0
      <4>1. x # nf
        <5>1. SUFFICES ASSUME x = nf PROVE FALSE
          OBVIOUS
        <5>2. Flag(m, n) = 0
          BY <1>0, <3>2, <5>1 DEF Shape
        <5> QED BY <1>1, <1>11, <5>2
      <4>2. PICK o : o = f[nf]
        OBVIOUS
      <4>3. r[nf - 1] = o
        BY <1>6, <1>12, <4>1, <4>2
      <4>4. o \in AllNodes /\ o # n
        <5>1. nf \in 0..nf /\ x \in 0..nf /\ nf \in 1..nf
          OBVIOUS
        <5>2. f[nf] # f[x] /\ f[nf] \in Stops(f, nf)
          BY <4>1, <5>1 DEF Shape, Circle, Stops
        <5> QED BY <1>0, <1>1, <4>2, <5>2
      <4>5. o = Node(c) \/ Flag(m, o) = 0
        BY <4>2 DEF Shape
      <4>6. o = Node(c) \/ Flag(m4, o) = 0
        BY <1>3, <1>5, <3>2, <4>4, <4>5
      <4> QED BY <3>2, <4>3, <4>6
    <3> QED BY <1>2, <3>1, <3>2
  <2>3. Sorted(d, r, nf - 1, i, na + 1)
    <3>1. (nf - 1) + (na + 1) <= d + 1
      BY <1>2 DEF Shape, Sorted
    <3>2. Stops(f, nf) \subseteq NodesBelow(c + 1) /\ Stops(a, na) \subseteq NodesBelow(c)
          /\ Stops(f, nf) \cap Stops(a, na) = {}
      BY DEF Shape, Sorted
    <3> QED BY <1>6, <1>8, <1>10, <3>1, <3>2 DEF Sorted
  <2>4. \A o \in Stops(r, nf - 1) \cup Stops(i, na + 1) :
          Start(m4, o) = o - 8 /\ Flag(m4, o) \in FlagOf(o, d)
    BY <1>1, <1>3, <1>5, <1>8
  <2>5. Shape(m2, d, r, nf - 1, i, na + 1)
    BY <1>4, <2>1, <2>2, <2>3, <2>4 DEF Shape
  <2>6. nf - 1 \in Nat \ {0}
    BY <1>12
  <2> QED BY <1>0, <1>8, <1>9, <1>10, <2>1, <2>5, <2>6
<1>13. CASE nf = 1
  <2> DEFINE g == Inserted(r, 0, 1, h)
  <2>1. x = nf /\ n = f[nf] /\ Stops(f, nf) = {n}
    <3>1. x = 1 /\ 1..nf = {1}
      BY <1>13
    <3> QED BY <1>0, <1>13, <3>1 DEF Stops
  <2>2. d = c + 1 /\ n = Node(c) /\ h = Node(d)
    <3>1. SUFFICES ASSUME n # Node(c) PROVE FALSE
      BY <1>2
    <3>2. Flag(m, n) = 0
      BY <2>1, <3>1 DEF Shape
    <3> QED BY <1>1, <1>11, <3>2
  <2>3. Circle(m4, FreeList, r, 0) /\ Stops(r, 0) = {} /\ Seats(r, 0) = {FreeList}
    <3>1. nf - 1 = 0
      BY <1>13
    <3>2. Circle(m4, FreeList, r, 0)
      BY <1>4, <3>1
    <3>3. Stops(r, 0) = {}
      BY <1>8, <2>1, <3>1
    <3> QED BY <3>2, <3>3, StopFacts
  <2>4. r[0] = FreeList /\ r[1] = FreeList /\ NextOf(m4, FreeList) = FreeList /\ PrevOf(m4, FreeList) = FreeList
    <3>1. 0 \in 0..0 /\ 0 + 1 = 1
      OBVIOUS
    <3> QED BY <2>3, <3>1 DEF Circle
  <2>5. h \in Spots /\ FreeList \in Spots /\ h # FreeList /\ h # n /\ h \notin Stops(a, na) /\ h # AllocList
    <3>1. h \notin NodesBelow(c + 1) /\ NodesBelow(c) \subseteq NodesBelow(c + 1)
      BY <1>0, <2>2, NodesUpTo
    <3>2. h # FreeList /\ h # AllocList
      BY <1>2, SpotFacts
    <3> QED BY <1>1, <1>2, <3>1, <3>2 DEF Spots, Shape, Sorted
  <2>6. Between(m4, m2, FreeList, h, FreeList)
    <3>1. m2 = ListAdd(m4, h, FreeList, FreeList)
      BY <1>7, <2>4 DEF ListEmpty, ListAddTail
    <3> QED BY <1>4, <2>5, <3>1, Adds
  <2>7. Circle(m2, FreeList, g, 1) /\ Seats(g, 1) = {FreeList, h}
    <3>1. 0 \in Nat /\ 1 \in 1..0 + 1 /\ 1 - 1 = 0 /\ 0 + 1 = 1
      OBVIOUS
    <3>2. Between(m4, m2, r[1 - 1], h, r[1])
      BY <2>4, <2>6, <3>1
    <3>3. Grows(m4, m2, FreeList, r, 0, 1, h)
      BY <2>3, <2>5, <3>1, <3>2 DEF Grows
    <3>4. /\ Circle(m2, FreeList, Inserted(r, 0, 1, h), 0 + 1)
          /\ Seats(Inserted(r, 0, 1, h), 0 + 1) = Seats(r, 0) \cup {h}
      BY <3>3, CircleInserted
    <3> QED BY <2>3, <3>1, <3>4
  <2>8. g[1] = h
    <3>1. 1 \in 0..0 + 2
      OBVIOUS
    <3> QED BY <3>1 DEF Inserted
  <2> HIDE DEF g
  <2>9. Stops(g, 1) = {h}
    BY <2>5, <2>7, StopFacts
  <2>10. Circle(m2, AllocList, i, na + 1) /\ DOMAIN m2 = Words
    <3>1. \A s \in Seats(i, na + 1) : s \in Spots \ {FreeList, h}
      <4>1. FreeList \notin Seats(i, na + 1)
        <5>1. FreeList # n /\ FreeList \in Seats(f, nf)
          BY <1>1, SpotFacts, StopFacts DEF Shape
        <5> QED BY <1>1, <1>4, <5>1
      <4>2. h \notin Seats(i, na + 1)
        <5>1. Seats(a, na) = Stops(a, na) \cup {AllocList}
          BY StopFacts DEF Shape
        <5> QED BY <1>4, <2>5, <5>1
      <4> QED BY <1>1, <1>4, <4>1, <4>2 DEF Spots
    <3>2. \A s \in Seats(i, na + 1) : NextOf(m2, s) = NextOf(m4, s) /\ PrevOf(m2, s) = PrevOf(m4, s)
      BY <2>5, <2>6, <3>1, OtherSeats
    <3>3. na + 1 \in Nat /\ Seats(i, na + 1) \subseteq Spots
      BY <3>1
    <3> QED BY <1>4, <2>6, <3>2, <3>3, CircleKept DEF Between
  <2>11. \A b : b \notin Links => Load(m2, b) = Load(m4, b)
    BY <2>5, <2>6, OnlyLinks
  <2>12. OnlyHeaders(m, m2)
    BY <1>9, <2>11 DEF OnlyHeaders
  <2>13. \A o \in Stops(g, 1) \cup Stops(i, na + 1) :
           Start(m2, o) = o - 8 /\ Flag(m2, o) \in FlagOf(o, d)
    <3>1. \A o \in AllNodes : Flag(m2, o) = Flag(m4, o) /\ Start(m2, o) = Start(m4, o)
      BY <2>11, NoLinks DEF Flag, Start
    <3> QED BY <1>1, <1>2, <1>3, <1>5, <1>8, <2>9, <3>1
  <2>14. Sorted(d, g, 1, i, na + 1)
    <3>1. 1 + (na + 1) <= d + 1
      BY <1>13, <2>2 DEF Shape, Sorted
    <3>2. Stops(a, na) \subseteq NodesBelow(c)
      BY DEF Shape, Sorted
    <3>3. Stops(g, 1) \cap Stops(i, na + 1) = {}
      BY <1>8, <2>5, <2>9
    <3>4. \A j, k \in 1..1 : j < k => g[j] < g[k]
      OBVIOUS
    <3> QED BY <1>8, <1>10, <2>9, <3>1, <3>2, <3>3, <3>4 DEF Sorted
  <2>15. Shape(m2, d, g, 1, i, na + 1)
    BY <2>2, <2>7, <2>8, <2>10, <2>13, <2>14 DEF Shape
  <2>16. 1 \in Nat \ {0}
    OBVIOUS
  <2> QED BY <1>0, <1>8, <1>10, <2>12, <2>15, <2>16
<1>14. nf = 1 \/ nf > 1
  OBVIOUS
<1> QED BY <1>12, <1>13, <1>14

LEMMA Inserting ==
  ASSUME NEW f, NEW nf \in Nat \ {0}, NEW x \in 1..nf, NEW new \in Nat,
         \A k \in 1..nf : f[k] \in Nat,
         \A j, k \in 1..nf : j < k => f[j] < f[k],
         \A j \in 1..x - 1 : f[j] < new, new < f[x]
  PROVE  /\ \A j, k \in 1..nf + 1 : j < k => Inserted(f, nf, x, new)[j] < Inserted(f, nf, x, new)[k]
         /\ Inserted(f, nf, x, new)[nf + 1] = f[nf]
<1> DEFINE r == Inserted(f, nf, x, new)
<1>1. \A k \in 1..nf + 1 : r[k] = IF k < x THEN f[k] ELSE IF k = x THEN new ELSE f[k - 1]
  BY DEF Inserted
<1>2. ASSUME NEW k \in 1..nf, x < k PROVE new < f[k]
  <2>1. f[x] < f[k] /\ f[x] \in Nat /\ f[k] \in Nat
    BY <1>2
  <2> QED BY <2>1
<1>3. ASSUME NEW j \in 1..nf + 1, NEW k \in 1..nf + 1, j < k PROVE r[j] < r[k]
  <2>1. r[j] = (IF j < x THEN f[j] ELSE IF j = x THEN new ELSE f[j - 1])
        /\ r[k] = (IF k < x THEN f[k] ELSE IF k = x THEN new ELSE f[k - 1])
    BY <1>1
  <2> HIDE DEF r
  <2>2. CASE k < x
    <3>1. j \in 1..nf /\ k \in 1..nf
      BY <1>3, <2>2
    <3> QED BY <1>3, <2>1, <2>2, <3>1
  <2>3. CASE k = x
    <3>1. j \in 1..x - 1
      BY <1>3, <2>3
    <3> QED BY <1>3, <2>1, <2>3, <3>1
  <2>4. CASE k > x
    <3>1. k - 1 \in 1..nf /\ r[k] = f[k - 1]
      BY <2>1, <2>4
    <3>2. CASE j < x
      <4>1. j \in 1..nf /\ j < k - 1
        BY <2>4, <3>2
      <4> QED BY <2>1, <3>1, <3>2, <4>1
    <3>3. CASE j = x
      <4>1. k - 1 = x \/ x < k - 1
        BY <2>4
      <4> QED BY <1>2, <2>1, <3>1, <3>3, <4>1
    <3>4. CASE j > x
      <4>1. j - 1 \in 1..nf /\ j - 1 < k - 1
        BY <1>3, <3>4
      <4> QED BY <2>1, <3>1, <3>4, <4>1
    <3> QED BY <3>2, <3>3, <3>4
  <2> QED BY <2>2, <2>3, <2>4
<1>4. r[nf + 1] = f[nf]
  <2>1. nf + 1 \in 1..nf + 1 /\ ~(nf + 1 < x) /\ nf + 1 # x /\ (nf + 1) - 1 = nf
    OBVIOUS
  <2> QED BY <1>1, <2>1
<1> HIDE DEF r
<1> QED BY <1>3, <1>4 DEF r

(* free of a block below a free one.                                        *)
Freeing(m, m2, c, f, nf, a, na, y, n, x) ==
  /\ c \in 0..Top /\ nf \in Nat \ {0} /\ na \in Nat /\ Shape(m, c, f, nf, a, na)
  /\ y \in 1..na /\ n = a[y]
  /\ x \in 1..nf /\ n < f[x] /\ \A j \in 1..x - 1 : ~(n < f[j])
  /\ m2 = ListInsert(ListDel(m, n), n, f[x])

LEMMA Frees ==
  ASSUME SameBlocks, NEW m, NEW m2, NEW c, NEW f, NEW nf, NEW a, NEW na, NEW y, NEW n, NEW x,
         Freeing(m, m2, c, f, nf, a, na, y, n, x)
  PROVE  \E f2, a2 : /\ Shape(m2, c, f2, nf + 1, a2, na - 1)
                     /\ Stops(a2, na - 1) = Stops(a, na) \ {n}
                     /\ OnlyHeaders(m, m2)
<1> USE DEF Freeing
<1>1. /\ Circle(m, FreeList, f, nf) /\ Circle(m, AllocList, a, na) /\ DOMAIN m = Words
      /\ Seats(f, nf) \subseteq Spots /\ Seats(a, na) \subseteq Spots
      /\ Seats(f, nf) \cap Seats(a, na) = {}
      /\ Stops(f, nf) \subseteq AllNodes /\ Stops(a, na) \subseteq AllNodes
      /\ \A k \in 1..nf : f[k] \in AllNodes /\ f[k] \in Nat
  BY SortedFacts, NodeFacts DEF Shape
<1>2. PICK md, l, g, q : md = ListDel(m, n) /\ l = a[y - 1] /\ g = a[y + 1] /\ q = f[x - 1]
  OBVIOUS
<1>3. /\ n \in Stops(a, na) /\ n \in Seats(a, na) /\ n \in AllNodes /\ n \in Nat /\ n \in Spots
      /\ l \in Seats(a, na) /\ g \in Seats(a, na)
      /\ PrevOf(m, n) = l /\ NextOf(m, n) = g
  <2>1. y \in 0..na /\ y - 1 \in 0..na /\ (y - 1) + 1 = y /\ (y + 1 \in 0..na \/ y + 1 = na + 1) /\ 0 \in 0..na
    OBVIOUS
  <2>2. n \in Stops(a, na)
    BY DEF Stops
  <2>3. a[y - 1] \in Seats(a, na) /\ a[y] \in Seats(a, na) /\ a[y + 1] \in Seats(a, na)
    BY <1>1, <2>1 DEF Seats, Circle
  <2>4. PrevOf(m, n) = a[y - 1] /\ NextOf(m, n) = a[y + 1]
    BY <1>1, <2>1 DEF Circle
  <2>5. n \in Nat
    BY <1>1, <2>2, NodeFacts
  <2> QED BY <1>1, <1>2, <2>2, <2>3, <2>4, <2>5
<1>4. Bypass(m, md, l, g)
  <2>1. PrevOf(m, n) \in Spots /\ NextOf(m, n) \in Spots
    BY <1>1, <1>3
  <2>2. Bypass(m, ListDel(m, n), PrevOf(m, n), NextOf(m, n))
    BY <1>1, <2>1, Deletes
  <2> QED BY <1>2, <1>3, <2>2
<1> DEFINE r == Removed(a, na, y)
           i == Inserted(f, nf, x, n)
<1>5. DOMAIN md = Words /\ Circle(md, AllocList, r, na - 1) /\ Seats(r, na - 1) = Seats(a, na) \ {n}
  BY <1>1, <1>2, <1>4, CircleRemoved DEF Bypass
<1>6. Circle(md, FreeList, f, nf)
  <2>1. \A s \in Seats(f, nf) : s \in Spots \ {l, g}
    BY <1>1, <1>3
  <2>2. \A s \in Seats(f, nf) : NextOf(md, s) = NextOf(m, s) /\ PrevOf(md, s) = PrevOf(m, s)
    BY <1>1, <1>3, <1>4, <2>1, SeatsAround
  <2> QED BY <1>1, <2>2, CircleKept
<1>7. PrevOf(md, f[x]) = q /\ f[x] \in Seats(f, nf) /\ q \in Seats(f, nf)
  <2>1. x - 1 \in 0..nf /\ (x - 1) + 1 = x /\ x \in 0..nf
    OBVIOUS
  <2> QED BY <1>2, <1>6, <2>1 DEF Circle, Seats
<1>8. n \notin Seats(f, nf) /\ n # f[x] /\ n # q
  BY <1>1, <1>3, <1>7
<1>9. Between(md, m2, q, n, f[x])
  BY <1>1, <1>2, <1>3, <1>5, <1>7, <1>8, Inserts
<1>10. Circle(m2, FreeList, i, nf + 1) /\ Seats(i, nf + 1) = Seats(f, nf) \cup {n}
  <2>1. Between(md, m2, f[x - 1], n, f[x]) /\ x \in 1..nf + 1
    BY <1>2, <1>9
  <2>2. Grows(md, m2, FreeList, f, nf, x, n)
    BY <1>1, <1>3, <1>6, <1>8, <2>1 DEF Grows
  <2> QED BY <2>2, CircleInserted
<1>11. /\ \A j, k \in 1..nf + 1 : j < k => i[j] < i[k]
       /\ i[nf + 1] = f[nf]
  <2>1. \A j, k \in 1..nf : j < k => f[j] < f[k]
    BY DEF Shape, Sorted
  <2>2. ASSUME NEW j \in 1..x - 1 PROVE f[j] < n
    <3>1. j \in 1..nf /\ j \in 0..nf
      OBVIOUS
    <3>2. f[j] \in Nat /\ f[j] # n
      BY <1>1, <1>8, <3>1 DEF Seats
    <3> QED BY <1>3, <3>2
  <2> QED BY SMTT(30), <1>1, <1>3, <2>1, <2>2, Inserting
<1> HIDE DEF r, i
<1>12. Circle(m2, AllocList, r, na - 1)
  <2>1. \A s \in Seats(r, na - 1) : s \in Spots \ {q, f[x], n}
    BY <1>1, <1>5, <1>7
  <2>2. \A s \in Seats(r, na - 1) : NextOf(m2, s) = NextOf(md, s) /\ PrevOf(m2, s) = PrevOf(md, s)
    BY <1>1, <1>3, <1>7, <1>9, <2>1, OtherSeats
  <2>3. na - 1 \in Nat /\ Seats(r, na - 1) \subseteq Spots
    BY <2>1
  <2> QED BY <1>5, <2>2, <2>3, CircleKept
<1>13. Stops(r, na - 1) = Stops(a, na) \ {n} /\ Stops(i, nf + 1) = Stops(f, nf) \cup {n}
  <2>1. na - 1 \in Nat /\ nf + 1 \in Nat
    OBVIOUS
  <2>2. /\ Seats(r, na - 1) = Stops(r, na - 1) \cup {AllocList} /\ AllocList \notin Stops(r, na - 1)
        /\ Seats(i, nf + 1) = Stops(i, nf + 1) \cup {FreeList} /\ FreeList \notin Stops(i, nf + 1)
    BY <1>5, <1>10, <2>1, StopFacts, <1>12
  <2>3. /\ Seats(f, nf) = Stops(f, nf) \cup {FreeList} /\ FreeList \notin Stops(f, nf)
        /\ Seats(a, na) = Stops(a, na) \cup {AllocList} /\ AllocList \notin Stops(a, na)
    BY <1>1, StopFacts
  <2>4. n # FreeList /\ n # AllocList
    BY <1>3, SpotFacts
  <2> QED BY <1>5, <1>10, <2>2, <2>3, <2>4
<1>14. \A b : b \notin Links => Load(m2, b) = Load(m, b)
  <2>1. \A b : b \notin Links => Load(md, b) = Load(m, b)
    BY <1>1, <1>3, <1>4, OnlyLinks
  <2>2. \A b : b \notin Links => Load(m2, b) = Load(md, b)
    BY <1>1, <1>3, <1>7, <1>9, OnlyLinks
  <2> QED BY <2>1, <2>2
<1>15. \A o \in AllNodes : Flag(m2, o) = Flag(m, o) /\ Start(m2, o) = Start(m, o)
  BY <1>14, NoLinks DEF Flag, Start
<1>16. Sorted(c, i, nf + 1, r, na - 1)
  <2>1. nf + 1 + (na - 1) <= c + 1
    BY DEF Shape, Sorted
  <2>2. NodesBelow(c) \subseteq NodesBelow(c + 1)
    BY NodesUpTo
  <2> QED BY <1>3, <1>11, <1>13, <2>1, <2>2 DEF Shape, Sorted
<1>17. \A o \in Stops(i, nf + 1) \cup Stops(r, na - 1) :
         Start(m2, o) = o - 8 /\ Flag(m2, o) \in FlagOf(o, c)
  BY <1>1, <1>3, <1>13, <1>15 DEF Shape
<1>18. i[nf + 1] = Node(c) \/ Flag(m2, i[nf + 1]) = 0
  <2>1. nf \in 1..nf
    OBVIOUS
  <2> QED BY <1>1, <1>11, <1>15, <2>1 DEF Shape
<1>19. Shape(m2, c, i, nf + 1, r, na - 1)
  BY <1>9, <1>10, <1>12, <1>16, <1>17, <1>18 DEF Shape, Between
<1>20. OnlyHeaders(m, m2)
  BY <1>14 DEF OnlyHeaders
<1> QED BY <1>13, <1>19, <1>20

-----------------------------------------------------------------------------
(* What the three searches find.                                            *)
FitIn(m) == Scan(m, FreeList, LAMBDA n : Fits(Flag(m, n)) >= Block)
OwnerIn(m, ptr) ==
  Scan(m, AllocList, LAMBDA k : /\ ptr >= Start(m, k)
                                /\ ptr <= Start(m, k) + Fits(Flag(m, k)))
AboveIn(m, o) == Scan(m, FreeList, LAMBDA k : Start(m, o) < Start(m, k))

LEMMA FitFound ==
  ASSUME SameBlocks, NEW m, NEW c \in 0..Top,
         NEW nf \in Nat \ {0}, NEW na \in Nat, NEW f, NEW a, Shape(m, c, f, nf, a, na)
  PROVE  \E x \in 1..nf + 1 :
           /\ FitIn(m) = f[x]
           /\ x = nf + 1 \/ FirstFitting(m, f, x)
<1> DEFINE node == Chain(m, FreeList)
           wanted == {n \in {node[k] : k \in 1..MaxWalk} : Fits(Flag(m, n)) >= Block}
           stops == {k \in 1..MaxWalk : node[k] \in {FreeList, Lost} \/ node[k] \in wanted}
           found == Found(m, FreeList, wanted)
<1>1. Circle(m, FreeList, f, nf) /\ Seats(f, nf) \subseteq Spots /\ nf + 1 <= MaxWalk /\ MaxWalk \in Nat
  BY SortedFacts, LayoutFacts DEF Shape
<1>2. FitIn(m) = found
  <2>1. stops = {k \in 1..MaxWalk : node[k] \in {FreeList, Lost} \/ Fits(Flag(m, node[k])) >= Block}
    OBVIOUS
  <2>2. found = IF stops = {} THEN Lost
                ELSE node[CHOOSE k \in stops : \A j \in stops : k <= j]
    BY DEF Found
  <2> HIDE DEF stops, found
  <2> QED BY <2>1, <2>2 DEF Scan, FitIn
<1>3. \E x \in 1..nf + 1 :
        /\ found = f[x] /\ (x = nf + 1 \/ f[x] \in wanted)
        /\ \A j \in 1..x - 1 : f[j] \notin wanted
  <2> HIDE DEF wanted
  <2> QED BY <1>1, ScanFinds
<1>4. \A k \in 1..nf + 1 : f[k] \in wanted <=> Fits(Flag(m, f[k])) >= Block
  <2>1. \A k \in 1..nf + 1 : k \in 1..MaxWalk /\ k \in 0..nf + 1
    BY <1>1
  <2>2. \A k \in 0..nf + 1 : node[k] = f[k]
    BY <1>1, ChainGoesRound
  <2> HIDE DEF node
  <2> QED BY <2>1, <2>2
<1> HIDE DEF wanted, found
<1>5. PICK x \in 1..nf + 1 :
        /\ found = f[x] /\ (x = nf + 1 \/ f[x] \in wanted)
        /\ \A j \in 1..x - 1 : f[j] \notin wanted
  BY <1>3
<1>6. x = nf + 1 \/ FirstFitting(m, f, x)
  <2>1. \A j \in 1..x - 1 : j \in 1..nf + 1
    OBVIOUS
  <2> QED BY <1>4, <1>5, <2>1 DEF FirstFitting
<1> QED BY <1>2, <1>5, <1>6

(* The pointer of a block that was handed out once leads to this block, if  *)
(* it is allocated and its flag is intact, or to no block.                  *)
LEMMA OwnerFound ==
  ASSUME SameBlocks, NEW m, NEW c \in 0..Top,
         NEW nf \in Nat \ {0}, NEW na \in Nat, NEW f, NEW a, Shape(m, c, f, nf, a, na),
         NEW n \in NodesBelow(c), NEW ptr, ptr = n + 8
  PROVE  \E y \in 1..na + 1 :
           /\ OwnerIn(m, ptr) = a[y]
           /\ y = na + 1 \/ a[y] = n
<1> DEFINE node == Chain(m, AllocList)
           Has(k) == ptr >= Start(m, k) /\ ptr <= Start(m, k) + Fits(Flag(m, k))
           wanted == {k \in {node[j] : j \in 1..MaxWalk} : Has(k)}
           stops == {k \in 1..MaxWalk : node[k] \in {AllocList, Lost} \/ node[k] \in wanted}
           found == Found(m, AllocList, wanted)
<1>1. /\ Circle(m, AllocList, a, na) /\ Seats(a, na) \subseteq Spots
      /\ na + 1 <= MaxWalk /\ MaxWalk \in Nat
      /\ \A k \in 1..na : a[k] \in AllNodes
  BY SortedFacts, LayoutFacts DEF Shape
<1>2. OwnerIn(m, ptr) = found
  <2>1. stops = {k \in 1..MaxWalk : node[k] \in {AllocList, Lost} \/ Has(node[k])}
    OBVIOUS
  <2>2. found = IF stops = {} THEN Lost
                ELSE node[CHOOSE k \in stops : \A j \in stops : k <= j]
    BY DEF Found
  <2> HIDE DEF stops, found
  <2> QED BY <2>1, <2>2 DEF Scan, OwnerIn
<1>3. \E y \in 1..na + 1 :
        /\ found = a[y] /\ (y = na + 1 \/ a[y] \in wanted)
        /\ \A j \in 1..y - 1 : a[j] \notin wanted
  <2> HIDE DEF wanted
  <2> QED BY <1>1, ScanFinds
<1>4. PICK y \in 1..na + 1 : found = a[y] /\ (y = na + 1 \/ a[y] \in wanted)
  BY <1>3
<1>5. ASSUME y # na + 1 PROVE a[y] = n
  <2>1. y \in 1..na /\ a[y] \in wanted
    BY <1>4, <1>5
  <2>2. PICK k : k = a[y]
    OBVIOUS
  <2>3. Has(k)
    BY <2>1, <2>2
  <2>4. k \in AllNodes /\ k \in Nat /\ n \in AllNodes /\ n \in Nat /\ k \in NodesBelow(c)
        /\ Start(m, k) = k - 8 /\ Flag(m, k) \in {0, Block + 1}
    <3>1. k \in Stops(a, na) /\ k \in AllNodes
      BY <1>1, <2>1, <2>2 DEF Stops
    <3>2. k \in NodesBelow(c) /\ Start(m, k) = k - 8 /\ Flag(m, k) \in FlagOf(k, c)
      BY <3>1 DEF Shape, Sorted
    <3>3. k # Node(c) /\ n \in AllNodes
      BY <3>2, NodesUpTo
    <3> QED BY <3>1, <3>2, <3>3, NodeFacts DEF FlagOf
  <2>5. Fits(0) = 0 /\ Fits(Block + 1) = Block /\ Block >= 20 /\ Block \in Nat
    <3>1. Top > 0
      <4>1. 0..c - 1 # {}
        BY DEF NodesBelow
      <4> QED BY <4>1, TopFacts
    <3> QED BY <3>1, BlockFlags, BlockFacts
  <2>6. (n < k => n + Block <= k) /\ (k < n => k + Block <= n)
    BY <2>4, NodeFacts
  <2> HIDE DEF wanted
  <2> QED BY <2>2, <2>3, <2>4, <2>5, <2>6
<1> HIDE DEF found
<1> QED BY <1>2, <1>4, <1>5

(* The first free block above an allocated one; above what stands before    *)
(* the list heads there is none.                                            *)
LEMMA AboveFound ==
  ASSUME SameBlocks, NEW m, NEW c \in 0..Top,
         NEW nf \in Nat \ {0}, NEW na \in Nat, NEW f, NEW a, Shape(m, c, f, nf, a, na),
         NEW o, o \in Stops(a, na) \/ o = AllocList
  PROVE  \E x \in 1..nf + 1 :
           /\ AboveIn(m, o) = f[x]
           /\ x # nf + 1 => /\ o \in Stops(a, na) /\ o < f[x]
                            /\ \A j \in 1..x - 1 : ~(o < f[j])
<1> DEFINE node == Chain(m, FreeList)
           wanted == {k \in {node[j] : j \in 1..MaxWalk} : Start(m, o) < Start(m, k)}
           stops == {k \in 1..MaxWalk : node[k] \in {FreeList, Lost} \/ node[k] \in wanted}
           found == Found(m, FreeList, wanted)
<1>1. /\ Circle(m, FreeList, f, nf) /\ Seats(f, nf) \subseteq Spots
      /\ nf + 1 <= MaxWalk /\ MaxWalk \in Nat
      /\ Stops(a, na) \subseteq AllNodes
  BY SortedFacts, LayoutFacts DEF Shape
<1>0. \A k \in 1..nf : f[k] \in AllNodes /\ f[k] \in Nat /\ Start(m, f[k]) = f[k] - 8
  <2>1. \A k \in 1..nf : f[k] \in Stops(f, nf) /\ f[k] \in AllNodes
    BY SortedFacts DEF Shape, Stops
  <2> QED BY <2>1, NodeFacts DEF Shape
<1>2. AboveIn(m, o) = found
  <2>1. stops = {k \in 1..MaxWalk : node[k] \in {FreeList, Lost} \/ Start(m, o) < Start(m, node[k])}
    OBVIOUS
  <2>2. found = IF stops = {} THEN Lost
                ELSE node[CHOOSE k \in stops : \A j \in stops : k <= j]
    BY DEF Found
  <2> HIDE DEF stops, found
  <2> QED BY <2>1, <2>2 DEF Scan, AboveIn
<1>3. \E x \in 1..nf + 1 :
        /\ found = f[x] /\ (x = nf + 1 \/ f[x] \in wanted)
        /\ \A j \in 1..x - 1 : f[j] \notin wanted
  <2> HIDE DEF wanted
  <2> QED BY <1>1, ScanFinds
<1>4. \A k \in 1..nf + 1 : f[k] \in wanted <=> Start(m, o) < Start(m, f[k])
  <2>1. \A k \in 1..nf + 1 : k \in 1..MaxWalk /\ k \in 0..nf + 1
    BY <1>1
  <2>2. \A k \in 0..nf + 1 : node[k] = f[k]
    BY <1>1, ChainGoesRound
  <2> HIDE DEF node
  <2> QED BY <2>1, <2>2
<1> HIDE DEF wanted, found
<1>5. PICK x \in 1..nf + 1 :
        /\ found = f[x] /\ (x = nf + 1 \/ f[x] \in wanted)
        /\ \A j \in 1..x - 1 : f[j] \notin wanted
  BY <1>3
<1>6. ASSUME x # nf + 1
      PROVE  o \in Stops(a, na) /\ o < f[x] /\ \A j \in 1..x - 1 : ~(o < f[j])
  <2>1. x \in 1..nf /\ nf \in 1..nf /\ Start(m, o) < f[x] - 8
    <3>1. x \in 1..nf /\ nf \in 1..nf
      BY <1>6
    <3>2. f[x] \in wanted
      BY <1>5, <1>6
    <3> QED BY <1>0, <1>4, <3>1, <3>2
  <2>2. o # AllocList
    <3>1. SUFFICES ASSUME o = AllocList PROVE FALSE
      OBVIOUS
    <3>2. Start(m, o) = f[nf]
      <4>1. Start(m, o) = PrevOf(m, FreeList)
        <5>1. o - 4 = FreeList + 4
          BY <3>1, LayoutFacts
        <5> QED BY <5>1 DEF Start, PrevOf
      <4>2. nf \in 0..nf /\ f[nf + 1] = FreeList
        BY <1>1 DEF Circle
      <4> QED BY <1>1, <4>1, <4>2 DEF Circle
    <3>3. x = nf \/ f[x] < f[nf]
      BY <2>1 DEF Shape, Sorted
    <3> QED BY <1>0, <2>1, <3>2, <3>3
  <2>3. o \in Stops(a, na) /\ o \in Nat /\ Start(m, o) = o - 8
    BY <1>1, <2>2, NodeFacts DEF Shape
  <2>4. ASSUME NEW j \in 1..x - 1 PROVE ~(o < f[j])
    <3>1. j \in 1..nf /\ j \in 1..nf + 1
      OBVIOUS
    <3>2. ~(o - 8 < f[j] - 8)
      BY <1>0, <1>4, <1>5, <2>3, <3>1
    <3> QED BY <1>0, <2>3, <3>1, <3>2
  <2>5. o < f[x]
    BY <1>0, <2>1, <2>3
  <2> QED BY <2>3, <2>4, <2>5
<1> QED BY <1>2, <1>5, <1>6

-----------------------------------------------------------------------------
(* The states of a heap.                                                    *)
LEMMA ShapeOfWay ==
  ASSUME SameBlocks, NEW m, NEW c \in 0..Top,
         NEW nf \in Nat \ {0}, NEW na \in Nat, NEW f, NEW a, Shape(m, c, f, nf, a, na),
         NEW g, NEW b, \A k \in 0..nf + 1 : g[k] = f[k], \A k \in 0..na + 1 : b[k] = a[k]
  PROVE  Shape(m, c, g, nf, b, na) /\ Stops(b, na) = Stops(a, na)
<1>1. /\ \A k \in 0..nf : k \in 0..nf + 1 /\ k + 1 \in 0..nf + 1
      /\ \A k \in 0..na : k \in 0..na + 1 /\ k + 1 \in 0..na + 1
      /\ 0 \in 0..nf + 1 /\ 0 \in 0..na + 1 /\ nf \in 0..nf + 1
      /\ nf + 1 \in 0..nf + 1 /\ na + 1 \in 0..na + 1
      /\ \A k \in 1..nf : k \in 0..nf + 1
      /\ \A k \in 1..na : k \in 0..na + 1
  OBVIOUS
<1>2. Circle(m, FreeList, g, nf)
  BY <1>1 DEF Shape, Circle
<1>3. Circle(m, AllocList, b, na)
  BY <1>1 DEF Shape, Circle
<1>4. Stops(g, nf) = Stops(f, nf) /\ Stops(b, na) = Stops(a, na) /\ g[nf] = f[nf]
  BY <1>1 DEF Stops
<1>5. \A j, k \in 1..nf : j < k => g[j] < g[k]
  BY <1>1 DEF Shape, Sorted
<1> QED BY <1>2, <1>3, <1>4, <1>5 DEF Shape, Sorted

LEMMA InvIsShape ==
  ASSUME HeapInv
  PROVE  /\ status # "lost"
         /\ \E c \in 0..Top, nf \in Nat \ {0}, na \in Nat : \E f, a :
              Shape(mem, c, f, nf, a, na) /\ Held(c, a, na)
<1>1. PICK c \in 0..Top, nf \in 1..MaxWalk - 1, na \in 0..MaxWalk - 1 :
        /\ Layout(c, Way(FreeList, nf), nf, Way(AllocList, na), na)
        /\ Held(c, Way(AllocList, na), na)
  BY DEF HeapInv
<1>2. nf \in Nat \ {0} /\ na \in Nat
  BY LayoutFacts
<1>3. PICK f, a : f = Way(FreeList, nf) /\ a = Way(AllocList, na)
  OBVIOUS
<1>4. Layout(c, f, nf, a, na) /\ Held(c, a, na) /\ DOMAIN mem = Words /\ status # "lost"
  BY <1>1, <1>3 DEF HeapInv
<1>5. Shape(mem, c, f, nf, a, na)
  BY <1>4 DEF Layout, Shape, Sorted
<1> QED BY <1>2, <1>4, <1>5

LEMMA ShapeIsInv ==
  SameBlocks =>
    \A c \in 0..Top, nf \in Nat \ {0}, na \in Nat : \A f, a :
      Shape(mem, c, f, nf, a, na) /\ Held(c, a, na) /\ status # "lost" => HeapInv
<1> SUFFICES ASSUME SameBlocks, NEW c \in 0..Top, NEW nf \in Nat \ {0}, NEW na \in Nat,
                    NEW f, NEW a, Shape(mem, c, f, nf, a, na), Held(c, a, na), status # "lost"
             PROVE  HeapInv
  OBVIOUS
<1>1. PICK g, b : g = Way(FreeList, nf) /\ b = Way(AllocList, na)
  OBVIOUS
<1>2. nf + 1 <= MaxWalk /\ na + 1 <= MaxWalk /\ MaxWalk \in Nat
  BY SortedFacts, LayoutFacts DEF Shape
<1>3. \A k \in 0..nf + 1 : g[k] = f[k]
  <2>1. \A k \in 0..nf + 1 : Chain(mem, FreeList)[k] = f[k]
    BY <1>2, ChainGoesRound DEF Shape
  <2> QED BY <1>1, <2>1 DEF Way
<1>4. \A k \in 0..na + 1 : b[k] = a[k]
  <2>1. \A k \in 0..na + 1 : Chain(mem, AllocList)[k] = a[k]
    BY <1>2, ChainGoesRound DEF Shape
  <2> QED BY <1>1, <2>1 DEF Way
<1>5. Shape(mem, c, g, nf, b, na) /\ Stops(b, na) = Stops(a, na)
  BY <1>3, <1>4, ShapeOfWay
<1>6. Layout(c, g, nf, b, na) /\ DOMAIN mem = Words
  BY <1>5 DEF Layout, Shape, Sorted
<1>7. Held(c, b, na)
  BY <1>5 DEF Held
<1>8. nf \in 1..MaxWalk - 1 /\ na \in 0..MaxWalk - 1
  BY <1>2
<1> QED BY <1>1, <1>6, <1>7, <1>8 DEF HeapInv

LEMMA ShapeIsInvNext ==
  SameBlocks =>
    \A c \in 0..Top, nf \in Nat \ {0}, na \in Nat : \A f, a :
      Shape(mem', c, f, nf, a, na) /\ Held(c, a, na)' /\ status' # "lost" => HeapInv'
<1>1. (SameBlocks =>
        \A c \in 0..Top, nf \in Nat \ {0}, na \in Nat : \A f, a :
          Shape(mem, c, f, nf, a, na) /\ Held(c, a, na) /\ status # "lost" => HeapInv)'
  BY ShapeIsInv, PTL
<1> QED BY <1>1

LEMMA MallocKeeps ==
  ASSUME SameBlocks, HeapInv, NEW size \in Sizes, Malloc(size)
  PROVE  /\ HeapInv' /\ OnlyHeaders(mem, mem')
         /\ call'[1] = "malloc" \/ dead = {}
<1>1. PICK c \in 0..Top, nf \in Nat \ {0}, na \in Nat : \E f, a :
        Shape(mem, c, f, nf, a, na) /\ Held(c, a, na)
  BY InvIsShape
<1>2. PICK f, a : Shape(mem, c, f, nf, a, na) /\ Held(c, a, na)
  BY <1>1
<1>3. BlockSize(size) = Block /\ status # "lost"
  BY BlockFacts, InvIsShape
<1>4. PICK x \in 1..nf + 1 : FirstFit(Block) = f[x] /\ (x = nf + 1 \/ FirstFitting(mem, f, x))
  BY <1>2, FitFound DEF FirstFit, FitIn
<1>5. f[nf + 1] = FreeList /\ FreeList # Lost /\ \A k \in 1..nf : f[k] \in Spots /\ f[k] # FreeList /\ f[k] # Lost
  <2>1. f[nf + 1] = FreeList
    BY <1>2 DEF Shape, Circle
  <2>2. \A k \in 1..nf : f[k] \in AllNodes
    BY <1>2, SortedFacts DEF Shape
  <2> QED BY <2>1, <2>2, SpotFacts, LayoutFacts DEF Spots
<1>6. CASE UNCHANGED <<mem, live, dead>> /\ status' # "lost" /\ (call'[1] = "malloc" \/ dead = {})
  <2>1. Shape(mem', c, f, nf, a, na) /\ Held(c, a, na)'
    BY <1>2, <1>6 DEF Held
  <2> QED BY <1>6, <2>1, ShapeIsInvNext DEF OnlyHeaders
<1>7. CASE f[x] = FreeList
  <2>1. UNCHANGED <<mem, live, dead>> /\ status' # "lost" /\ call'[1] = "malloc"
    BY <1>3, <1>4, <1>5, <1>7 DEF Malloc
  <2> QED BY <1>6, <2>1
<1>8. CASE f[x] # FreeList
  <2>1. x \in 1..nf /\ FirstFitting(mem, f, x) /\ f[x] # Lost
    BY <1>4, <1>5, <1>8
  <2>2. CASE Block % 4 # 0
    <3>1. UNCHANGED <<mem, live, dead>> /\ status' = "misaligned"
      BY <1>3, <1>4, <1>8, <2>1, <2>2 DEF Malloc
    <3>2. dead = {}
      <4>1. c = 0
        BY <2>2, TopFacts
      <4>2. NodesBelow(c) = {}
        BY <4>1 DEF NodesBelow
      <4> QED BY <1>2, <4>2 DEF Held
    <3> QED BY <1>6, <3>1, <3>2
  <2>3. CASE Block % 4 = 0
    <3>1. PICK n, ptr : n = f[x] /\ ptr = Start(mem, n) + Header
      OBVIOUS
    <3>2. /\ mem' = Carve(mem, n, Block)
          /\ live' = [p \in DOMAIN live \cup {ptr} |-> IF p = ptr THEN size ELSE live[p]]
          /\ dead' = dead \ {ptr} /\ call' = <<"malloc", size, ptr>> /\ status' = status
      BY <1>3, <1>4, <1>8, <2>1, <2>3, <3>1 DEF Malloc
    <3>3. PICK m2 : m2 = mem'
      OBVIOUS
    <3>4. PICK d \in 0..Top, nf2 \in Nat \ {0} : \E f2, a2 :
             /\ Shape(m2, d, f2, nf2, a2, na + 1)
             /\ Stops(a2, na + 1) = Stops(a, na) \cup {n}
             /\ NodesBelow(c) \subseteq NodesBelow(d)
             /\ OnlyHeaders(mem, m2)
      <4>1. Carving(mem, m2, c, f, nf, a, na, x)
        BY <1>2, <2>1, <3>1, <3>2, <3>3 DEF Carving
      <4> QED BY <2>3, <3>1, <4>1, Carves
    <3>5. PICK f2, a2 :
            /\ Shape(m2, d, f2, nf2, a2, na + 1)
            /\ Stops(a2, na + 1) = Stops(a, na) \cup {n}
            /\ NodesBelow(c) \subseteq NodesBelow(d)
            /\ OnlyHeaders(mem, m2)
      BY <3>4
    <3>6. ptr = n + 8
      <4>1. n \in AllNodes /\ Start(mem, n) = n - 8
        <5>1. n \in Stops(f, nf)
          BY <2>1, <3>1 DEF Stops
        <5> QED BY <1>2, <5>1, SortedFacts DEF Shape
      <4> QED BY <3>1, <4>1, NodeFacts, LayoutFacts
    <3>7. Held(d, a2, na + 1)'
      <4>1. DOMAIN live' = {o + 8 : o \in Stops(a2, na + 1)}
        BY <1>2, <3>2, <3>5, <3>6 DEF Held
      <4>2. \A p \in DOMAIN live' : live'[p] \in Sizes
        BY <1>2, <3>2 DEF Held
      <4>3. dead' \subseteq {o + 8 : o \in NodesBelow(d)} \ DOMAIN live'
        BY <1>2, <3>2, <3>5 DEF Held
      <4> QED BY <4>1, <4>2, <4>3 DEF Held
    <3>8. HeapInv'
      <4>1. na + 1 \in Nat /\ status' # "lost"
        BY <1>3, <3>2
      <4> QED BY <3>3, <3>5, <3>7, <4>1, ShapeIsInvNext
    <3> QED BY <3>2, <3>3, <3>5, <3>8
  <2> QED BY <2>2, <2>3
<1> QED BY <1>7, <1>8

LEMMA FreeKeeps ==
  ASSUME SameBlocks, HeapInv, NEW ptr \in DOMAIN live \cup dead, Free(ptr)
  PROVE  /\ HeapInv' /\ OnlyHeaders(mem, mem')
         /\ ptr \in dead => UNCHANGED mem /\ call'[3] = -1
         /\ call'[2] = ptr
<1>1. PICK c \in 0..Top, nf \in Nat \ {0}, na \in Nat : \E f, a :
        Shape(mem, c, f, nf, a, na) /\ Held(c, a, na)
  BY InvIsShape
<1>2. PICK f, a : Shape(mem, c, f, nf, a, na) /\ Held(c, a, na)
  BY <1>1
<1>3. status # "lost" /\ f[nf + 1] = FreeList /\ a[na + 1] = AllocList
      /\ \A k \in 1..nf : f[k] # FreeList
  <2>1. \A k \in 1..nf : f[k] \in AllNodes
    BY <1>2, SortedFacts DEF Shape
  <2> QED BY <1>2, <2>1, InvIsShape, SpotFacts DEF Shape, Circle
<1>4. PICK n \in NodesBelow(c) : ptr = n + 8 /\ (ptr \in dead => n \notin Stops(a, na))
  <2>1. CASE ptr \in DOMAIN live
    <3>1. ptr \notin dead /\ \E n \in Stops(a, na) : ptr = n + 8
      BY <1>2, <2>1 DEF Held
    <3> QED BY <1>2, <3>1 DEF Shape, Sorted
  <2>2. CASE ptr \in dead
    BY <1>2, <2>2 DEF Held
  <2> QED BY <2>1, <2>2
<1>5. PICK y \in 1..na + 1 : Owner(ptr) = a[y] /\ (y = na + 1 \/ a[y] = n)
  <2>1. \E y \in 1..na + 1 : OwnerIn(mem, ptr) = a[y] /\ (y = na + 1 \/ a[y] = n)
    BY <1>2, <1>4, OwnerFound
  <2> QED BY <2>1 DEF Owner, OwnerIn
<1>6. PICK o : o = Owner(ptr)
  OBVIOUS
<1>7. o \in Stops(a, na) \/ o = AllocList
  <2>1. y \in 1..na \/ y = na + 1
    OBVIOUS
  <2> QED BY <1>3, <1>5, <1>6, <2>1 DEF Stops
<1>8. PICK x \in 1..nf + 1 :
        /\ FirstAbove(o) = f[x]
        /\ x # nf + 1 => /\ o \in Stops(a, na) /\ o < f[x]
                         /\ \A j \in 1..x - 1 : ~(o < f[j])
  <2>1. \E x \in 1..nf + 1 :
          /\ AboveIn(mem, o) = f[x]
          /\ x # nf + 1 => /\ o \in Stops(a, na) /\ o < f[x]
                           /\ \A j \in 1..x - 1 : ~(o < f[j])
    BY <1>2, <1>7, AboveFound
  <2> QED BY <2>1 DEF FirstAbove, AboveIn
<1>9. o # Lost /\ f[x] # Lost
  <2>1. Stops(a, na) \subseteq AllNodes /\ \A k \in 1..nf : f[k] \in AllNodes
    BY <1>2, SortedFacts DEF Shape
  <2>2. x \in 1..nf \/ x = nf + 1
    OBVIOUS
  <2> QED BY <1>3, <1>7, <2>1, <2>2, SpotFacts DEF Spots
<1>10. CASE x = nf + 1
  <2>1. f[x] = FreeList
    BY <1>3, <1>10
  <2>2. ~Placeable(o, f[x])
    BY <2>1 DEF Placeable
  <2>3. UNCHANGED <<mem, live, dead, status>> /\ call' = <<"free", ptr, -1>>
    BY <1>6, <1>8, <1>9, <2>2 DEF Free
  <2>4. Shape(mem', c, f, nf, a, na) /\ Held(c, a, na)' /\ status' # "lost"
    BY <1>2, <1>3, <2>3 DEF Held
  <2> QED BY <2>3, <2>4, ShapeIsInvNext DEF OnlyHeaders
<1>11. CASE x # nf + 1
  <2>1. /\ x \in 1..nf /\ o \in Stops(a, na) /\ o < f[x] /\ \A j \in 1..x - 1 : ~(o < f[j])
        /\ y \in 1..na /\ o = a[y] /\ o = n /\ ptr \notin dead
    <3>1. x \in 1..nf /\ o \in Stops(a, na) /\ o < f[x] /\ \A j \in 1..x - 1 : ~(o < f[j])
      BY <1>8, <1>11
    <3>2. o # AllocList
      BY <1>2, <3>1, StopFacts DEF Shape
    <3>3. y # na + 1
      BY <1>3, <1>5, <1>6, <3>2
    <3> QED BY <1>4, <1>5, <1>6, <3>1, <3>3
  <2>2. CASE ~Placeable(o, f[x])
    <3>1. UNCHANGED <<mem, live, dead, status>> /\ call' = <<"free", ptr, -1>>
      BY <1>6, <1>8, <1>9, <2>2 DEF Free
    <3>2. Shape(mem', c, f, nf, a, na) /\ Held(c, a, na)' /\ status' # "lost"
      BY <1>2, <1>3, <3>1 DEF Held
    <3> QED BY <3>1, <3>2, ShapeIsInvNext DEF OnlyHeaders
  <2>3. CASE Placeable(o, f[x])
    <3>1. /\ mem' = ListInsert(ListDel(mem, o), o, f[x])
          /\ live' = [p \in DOMAIN live \ {ptr} |-> live[p]]
          /\ dead' = dead \cup {ptr} /\ call' = <<"free", ptr, 0>> /\ status' = status
      BY <1>6, <1>8, <1>9, <2>3 DEF Free
    <3>2. PICK m2 : m2 = mem'
      OBVIOUS
    <3>3. \E f2, a2 :
            /\ Shape(m2, c, f2, nf + 1, a2, na - 1)
            /\ Stops(a2, na - 1) = Stops(a, na) \ {o}
            /\ OnlyHeaders(mem, m2)
      <4>1. Freeing(mem, m2, c, f, nf, a, na, y, o, x)
        BY <1>2, <2>1, <3>1, <3>2 DEF Freeing
      <4> QED BY <4>1, Frees
    <3>4. PICK f2, a2 :
            /\ Shape(m2, c, f2, nf + 1, a2, na - 1)
            /\ Stops(a2, na - 1) = Stops(a, na) \ {o}
            /\ OnlyHeaders(mem, m2)
      BY <3>3
    <3>5. Held(c, a2, na - 1)'
      <4>1. DOMAIN live' = DOMAIN live \ {ptr}
        BY <3>1
      <4>2. \A k \in Stops(a, na) : k \in Nat
        BY <1>2, SortedFacts, NodeFacts DEF Shape
      <4>3. {k + 8 : k \in Stops(a2, na - 1)} = DOMAIN live \ {ptr}
        <5>1. \A k \in Stops(a, na) : k + 8 = ptr <=> k = o
          BY <1>4, <2>1, <4>2
        <5> QED BY <1>2, <3>4, <5>1 DEF Held
      <4>4. \A p \in DOMAIN live' : live'[p] \in Sizes
        BY <1>2, <3>1 DEF Held
      <4>5. dead' \subseteq {k + 8 : k \in NodesBelow(c)} \ DOMAIN live'
        BY <1>2, <1>4, <3>1, <4>1 DEF Held
      <4> QED BY <4>1, <4>3, <4>4, <4>5 DEF Held
    <3>6. HeapInv'
      <4>1. nf + 1 \in Nat \ {0} /\ na - 1 \in Nat /\ status' # "lost"
        BY <1>3, <2>1, <3>1
      <4> QED BY <3>2, <3>4, <3>5, <4>1, ShapeIsInvNext
    <3> QED BY <2>1, <3>1, <3>2, <3>4, <3>6
  <2> QED BY <2>2, <2>3
<1> QED BY <1>10, <1>11

LEMMA InitHolds ==
  ASSUME SameBlocks, Init
  PROVE  HeapInv
<1> DEFINE n == Base + 8
           f == [k \in 0..2 |-> IF k = 1 THEN n ELSE FreeList]
           a == [k \in 0..1 |-> AllocList]
<1>1. /\ Base \in Nat /\ Base > 20 /\ HeapSize \in Nat /\ HeapSize > 16 /\ FreeList = 8
      /\ AllocList = 16 /\ End = Base + HeapSize /\ Top \in Nat /\ Block \in Nat
  BY LayoutFacts, TopFacts, BlockFacts
<1>2. n = Node(0) /\ n \in AllNodes /\ NodesBelow(0) = {} /\ NodesBelow(0 + 1) = {n}
  <2>1. Node(0) = n
    BY <1>1 DEF Node
  <2>2. 0 \in 0..Top /\ 0..0 - 1 = {} /\ 0..(0 + 1) - 1 = {0}
    BY <1>1
  <2> QED BY <2>1, <2>2 DEF NodesBelow, AllNodes
<1>3. {n - 8, n - 4, n, n + 4} \subseteq Words
      /\ {FreeList, FreeList + 4, AllocList, AllocList + 4} \subseteq Words
  BY <1>2, NodeFacts DEF Words
<1>4. DOMAIN mem = Words
  BY DEF Init, HeapInit
<1>5. /\ NextOf(mem, FreeList) = n /\ PrevOf(mem, FreeList) = n
      /\ NextOf(mem, AllocList) = AllocList /\ PrevOf(mem, AllocList) = AllocList
      /\ NextOf(mem, n) = FreeList /\ PrevOf(mem, n) = FreeList
      /\ Flag(mem, n) = HeapSize /\ Start(mem, n) = n - 8
  <2>1. \A b \in Words : mem[b] = CASE b \in {FreeList, FreeList + 4} -> n
                                   [] b \in {AllocList, AllocList + 4} -> AllocList
                                   [] b = Base -> HeapSize
                                   [] b = Base + 4 -> Base
                                   [] b \in {n, n + 4} -> FreeList
                                   [] OTHER -> 0
    BY DEF Init, HeapInit
  <2>2. mem[8] = n /\ mem[12] = n /\ mem[16] = AllocList /\ mem[20] = AllocList
    BY <1>1, <1>3, <2>1
  <2>3. mem[Base] = HeapSize /\ mem[Base + 4] = Base
    <3>1. Base \in Words /\ Base + 4 \in Words
      <4>1. n - 8 = Base /\ n - 4 = Base + 4
        BY <1>1
      <4> QED BY <1>3, <4>1
    <3> QED BY <1>1, <2>1, <3>1
  <2>4. mem[n] = FreeList /\ mem[n + 4] = FreeList
    BY <1>1, <1>3, <2>1
  <2>5. n - 8 = Base /\ n - 4 = Base + 4 /\ FreeList + 4 = 12 /\ AllocList + 4 = 20
    BY <1>1
  <2> QED BY <1>1, <1>3, <2>2, <2>3, <2>4, <2>5 DEF NextOf, PrevOf, Flag, Start, Load
<1> HIDE DEF n
<1>6. Circle(mem, FreeList, f, 1)
  <2>1. f[0] = FreeList /\ f[1] = n /\ f[2] = FreeList /\ n # FreeList
    BY <1>1, <1>2, SpotFacts
  <2>2. 0..1 = {0, 1} /\ 0 + 1 = 1 /\ 1 + 1 = 2
    OBVIOUS
  <2> HIDE DEF f
  <2> QED BY <1>5, <2>1, <2>2 DEF Circle
<1>7. Circle(mem, AllocList, a, 0)
  <2>1. a[0] = AllocList /\ a[1] = AllocList
    OBVIOUS
  <2>2. 0..0 = {0} /\ 0 + 1 = 1
    OBVIOUS
  <2> HIDE DEF a
  <2> QED BY <1>5, <2>1, <2>2 DEF Circle
<1>8. Stops(f, 1) = {n} /\ Stops(a, 0) = {} /\ f[1] = n
  <2>1. 1..1 = {1} /\ 1..0 = {} /\ f[1] = n
    OBVIOUS
  <2> QED BY <2>1 DEF Stops
<1> HIDE DEF f, a
<1>9. Sorted(0, f, 1, a, 0)
  <2>1. 1 + 0 <= 0 + 1 /\ \A j, k \in 1..1 : j < k => f[j] < f[k]
    OBVIOUS
  <2> QED BY <1>2, <1>8, <2>1 DEF Sorted
<1>10. Flag(mem, n) \in FlagOf(n, 0)
  <2>1. End + 8 - n = HeapSize
    BY <1>1 DEF n
  <2> QED BY <1>2, <1>5, <2>1 DEF FlagOf
<1>11. Shape(mem, 0, f, 1, a, 0)
  BY <1>2, <1>4, <1>5, <1>6, <1>7, <1>8, <1>9, <1>10 DEF Shape
<1>12. Held(0, a, 0)
  BY <1>2, <1>8 DEF Init, Held
<1>13. 0 \in 0..Top /\ 1 \in Nat \ {0} /\ 0 \in Nat /\ status # "lost"
  BY <1>1 DEF Init
<1> QED BY <1>11, <1>12, <1>13, ShapeIsInv

LEMMA StepKeeps ==
  ASSUME SameBlocks, HeapInv, [Next]_vars
  PROVE  HeapInv' /\ OnlyHeaders(mem, mem') /\ (Refused \/ UNCHANGED vars)
<1>1. ASSUME NEW size \in Sizes, Malloc(size)
      PROVE  HeapInv' /\ OnlyHeaders(mem, mem') /\ Refused
  <2>1. HeapInv' /\ OnlyHeaders(mem, mem') /\ (call'[1] = "malloc" \/ dead = {})
    BY <1>1, MallocKeeps
  <2> QED BY <2>1 DEF Refused
<1>2. ASSUME NEW ptr \in DOMAIN live \cup dead, Free(ptr)
      PROVE  HeapInv' /\ OnlyHeaders(mem, mem') /\ Refused
  <2>1. /\ HeapInv' /\ OnlyHeaders(mem, mem')
        /\ ptr \in dead => UNCHANGED mem /\ call'[3] = -1
        /\ call'[2] = ptr
    BY <1>2, FreeKeeps
  <2> QED BY <2>1 DEF Refused
<1>3. CASE UNCHANGED vars
  <2>1. HeapInv'
    <3>1. PICK c \in 0..Top, nf \in Nat \ {0}, na \in Nat : \E f, a :
            Shape(mem, c, f, nf, a, na) /\ Held(c, a, na)
      BY InvIsShape
    <3>2. PICK f, a : Shape(mem, c, f, nf, a, na) /\ Held(c, a, na)
      BY <3>1
    <3>3. Shape(mem', c, f, nf, a, na) /\ Held(c, a, na)' /\ status' # "lost"
      BY <1>3, <3>2, InvIsShape DEF vars, Held
    <3> QED BY <3>3, ShapeIsInvNext
  <2> QED BY <1>3, <2>1 DEF vars, OnlyHeaders
<1> QED BY <1>1, <1>2, <1>3 DEF Next

-----------------------------------------------------------------------------
(* What the invariant says of payloads and of the lists.                    *)
LEMMA PayloadFacts ==
  ASSUME SameBlocks, NEW c \in 0..Top, NEW n \in NodesBelow(c), NEW size \in Sizes,
         NEW b \in Payload(n + 8, size)
  PROVE  /\ b \in Words /\ b \in Base .. End - 4 /\ b \notin Links
         /\ \A o \in AllNodes : b # o - 8 /\ b # o - 4 /\ b # o /\ b # o + 4
         /\ n \in Nat /\ n + 8 <= b /\ b <= n + Block - 12
<1>1. n \in AllNodes /\ n + Block \in AllNodes
  <2>1. PICK k \in 0..c - 1 : n = Node(k)
    BY DEF NodesBelow
  <2>2. k \in 0..Top /\ k + 1 \in 0..Top /\ k \in Nat
    BY TopFacts
  <2>3. n + Block = Node(k + 1)
    BY <2>1, <2>2, NodeStep
  <2> QED BY <2>1, <2>2, <2>3 DEF AllNodes
<1>2. Top > 0 /\ Block \in Nat /\ Block >= 20 /\ 16 + 4 * ((size + 3) \div 4) <= Block
  <2>1. 0..c - 1 # {} /\ Top \in Nat
    BY TopFacts DEF NodesBelow
  <2>2. Top > 0
    BY <2>1
  <2> QED BY <2>2, BlockFlags, BlockFacts
<1>3. /\ n \in Nat /\ n % 4 = 0 /\ n >= Base + 8 /\ n + Block <= End + 8
      /\ Base \in Nat /\ Base % 4 = 0 /\ Base > 20 /\ End = Base + HeapSize
      /\ HeapSize \in Nat /\ HeapSize % 4 = 0 /\ size \in Nat
  BY <1>1, NodeFacts, LayoutFacts, SizesAssumption
<1>4. PICK k \in 0 .. (size + 3) \div 4 - 1 : b = n + 8 + 4 * k
  BY DEF Payload
<1>5. b \in Nat /\ n + 8 <= b /\ b <= n + Block - 12 /\ b % 4 = 0
  BY <1>2, <1>3, <1>4
<1>6. b >= Base + 16 /\ b <= End - 4
  BY <1>2, <1>3, <1>5
<1>7. b \in Words
  <2>0. PICK u \in Nat, v \in Nat : Base = 4 * u /\ b = 4 * v
    <3>1. \E u \in Nat : Base = 4 * u
      BY <1>3, Fourth
    <3>2. \E v \in Nat : b = 4 * v
      BY <1>5, Fourth
    <3> QED BY <3>1, <3>2
  <2>1. PICK w \in Nat : b = Base + 4 * w
    <3>1. v - u \in Nat /\ b = Base + 4 * (v - u)
      BY <1>3, <1>6, <2>0
    <3> QED BY <3>1
  <2>2. w \in 0 .. (HeapSize + Header) \div 4 - 1
    BY <1>3, <1>6, <2>1, LayoutFacts
  <2> QED BY <2>1, <2>2 DEF Words
<1>8. ASSUME NEW o \in AllNodes PROVE b # o - 8 /\ b # o - 4 /\ b # o /\ b # o + 4
  <2>1. o \in Nat /\ (n < o => n + Block <= o)
    BY <1>1, NodeFacts
  <2> QED BY <1>2, <1>3, <1>5, <2>1
<1>9. b \notin Links
  <2>1. b # 8 /\ b # 12 /\ b # 16 /\ b # 20
    BY <1>3, <1>6
  <2>2. FreeList = 8 /\ AllocList = 16 /\ FreeList + 4 = 12 /\ AllocList + 4 = 20
    BY LayoutFacts
  <2> QED BY <1>8, <2>1, <2>2 DEF Links, Spots
<1> QED BY <1>3, <1>5, <1>6, <1>7, <1>8, <1>9

(* The nodes that Nodes names are the stops of the way.                     *)
LEMMA NodesAre ==
  ASSUME NEW head, NEW p, NEW n \in Nat, Circle(mem, head, p, n),
         n + 1 <= MaxWalk, MaxWalk \in Nat
  PROVE  Nodes(head) = Stops(p, n) /\ \E k \in 1..MaxWalk : Chain(mem, head)[k] = head
<1> DEFINE node == Chain(mem, head)
<1>1. \A k \in 0..n + 1 : node[k] = p[k]
  BY ChainGoesRound
<1>2. node[n + 1] = head /\ \A k \in 1..n : node[k] # head
  <2>1. n + 1 \in 0..n + 1 /\ 0 \in 0..n /\ \A k \in 1..n : k \in 0..n + 1 /\ k \in 0..n /\ k # 0
    OBVIOUS
  <2> QED BY <1>1, <2>1 DEF Circle
<1>3. Nodes(head) = {node[k] : k \in {k \in 1..MaxWalk : \A j \in 1..k : node[j] # head}}
  BY DEF Nodes
<1> HIDE DEF node
<1>4. {k \in 1..MaxWalk : \A j \in 1..k : node[j] # head} = 1..n
  <2>1. ASSUME NEW k \in 1..MaxWalk, \A j \in 1..k : node[j] # head PROVE k \in 1..n
    <3>1. ~(n + 1 \in 1..k)
      BY <1>2, <2>1
    <3> QED BY <3>1
  <2>2. ASSUME NEW k \in 1..n PROVE k \in 1..MaxWalk /\ \A j \in 1..k : node[j] # head
    <3>1. \A j \in 1..k : j \in 1..n
      OBVIOUS
    <3> QED BY <1>2, <3>1
  <2> QED BY <2>1, <2>2
<1>5. Nodes(head) = Stops(p, n)
  <2>1. \A k \in 1..n : node[k] = p[k]
    BY <1>1
  <2> QED BY <1>3, <1>4, <2>1 DEF Stops
<1>6. n + 1 \in 1..MaxWalk
  OBVIOUS
<1> QED BY <1>2, <1>5, <1>6 DEF node

LEMMA InvSound ==
  ASSUME SameBlocks, HeapInv
  PROVE  ListsSound
<1>1. PICK c \in 0..Top, nf \in Nat \ {0}, na \in Nat : \E f, a :
        Shape(mem, c, f, nf, a, na) /\ Held(c, a, na)
  BY InvIsShape
<1>2. PICK f, a : Shape(mem, c, f, nf, a, na) /\ Held(c, a, na)
  BY <1>1
<1>3. nf + 1 <= MaxWalk /\ na + 1 <= MaxWalk /\ MaxWalk \in Nat
      /\ Stops(f, nf) \subseteq AllNodes /\ Stops(a, na) \subseteq AllNodes
  BY <1>2, SortedFacts, LayoutFacts DEF Shape
<1>4. /\ Nodes(FreeList) = Stops(f, nf) /\ \E k \in 1..MaxWalk : Chain(mem, FreeList)[k] = FreeList
      /\ Nodes(AllocList) = Stops(a, na) /\ \E k \in 1..MaxWalk : Chain(mem, AllocList)[k] = AllocList
  BY <1>2, <1>3, NodesAre DEF Shape
<1>5. \A n \in Stops(f, nf) \cup {FreeList} : PrevOf(mem, NextOf(mem, n)) = n
  <2>1. \A n \in Seats(f, nf) : PrevOf(mem, NextOf(mem, n)) = n
    BY <1>2 DEF Shape, Circle, Seats
  <2> QED BY <1>2, <2>1, StopFacts DEF Shape
<1>6. \A n \in Stops(a, na) \cup {AllocList} : PrevOf(mem, NextOf(mem, n)) = n
  <2>1. \A n \in Seats(a, na) : PrevOf(mem, NextOf(mem, n)) = n
    BY <1>2 DEF Shape, Circle, Seats
  <2> QED BY <1>2, <2>1, StopFacts DEF Shape
<1>7. \A n \in Stops(f, nf) \cup Stops(a, na) : Start(mem, n) = n - 8
  BY <1>2 DEF Shape
<1>8. Stops(a, na) = {p - 8 : p \in DOMAIN live}
  <2>1. \A n \in Stops(a, na) : (n + 8) - 8 = n
    BY <1>3, NodeFacts
  <2> QED BY <1>2, <2>1 DEF Held
<1>9. Stops(f, nf) \cap Stops(a, na) = {}
  BY <1>2 DEF Shape, Sorted
<1>10. ASSUME NEW n \in Stops(f, nf), NextOf(mem, n) # FreeList PROVE n < NextOf(mem, n)
  <2>1. PICK k \in 1..nf : n = f[k]
    BY DEF Stops
  <2>2. NextOf(mem, n) = f[k + 1] /\ f[nf + 1] = FreeList
    <3>1. k \in 0..nf
      OBVIOUS
    <3> QED BY <1>2, <2>1, <3>1 DEF Shape, Circle
  <2>3. k + 1 \in 1..nf /\ k < k + 1
    <3>1. k # nf
      BY <1>10, <2>2
    <3> QED BY <3>1
  <2> QED BY <1>2, <2>1, <2>2, <2>3 DEF Shape, Sorted
<1> QED BY <1>4, <1>5, <1>6, <1>7, <1>8, <1>9, <1>10 DEF ListsSound

LEMMA InvApart ==
  ASSUME SameBlocks, HeapInv
  PROVE  LiveDisjoint
<1>1. PICK c \in 0..Top, nf \in Nat \ {0}, na \in Nat : \E f, a :
        Shape(mem, c, f, nf, a, na) /\ Held(c, a, na)
  BY InvIsShape
<1>2. PICK f, a : Shape(mem, c, f, nf, a, na) /\ Held(c, a, na)
  BY <1>1
<1>3. nf + 1 <= MaxWalk /\ na + 1 <= MaxWalk /\ MaxWalk \in Nat
      /\ Stops(f, nf) \subseteq AllNodes /\ Stops(a, na) \subseteq AllNodes
  BY <1>2, SortedFacts, LayoutFacts DEF Shape
<1>4. Nodes(FreeList) \cup Nodes(AllocList) \subseteq AllNodes
  BY <1>2, <1>3, NodesAre DEF Shape
<1>5. ASSUME NEW p \in DOMAIN live
      PROVE  \E n \in NodesBelow(c) : p = n + 8 /\ live[p] \in Sizes /\ n \in AllNodes
  BY <1>2, <1>3 DEF Held, Shape, Sorted
<1> SUFFICES ASSUME NEW p \in DOMAIN live
             PROVE  LET mine == Payload(p, live[p])
                    IN  /\ mine \subseteq Base .. End - 4
                        /\ \A q \in DOMAIN live \ {p} : mine \cap Payload(q, live[q]) = {}
                        /\ \A n \in Nodes(FreeList) \cup Nodes(AllocList) :
                             mine \cap HeaderWords(n) = {}
  BY DEF LiveDisjoint
<1>6. PICK n \in NodesBelow(c) : p = n + 8 /\ live[p] \in Sizes /\ n \in AllNodes
  BY <1>5
<1>7. \A b \in Payload(p, live[p]) :
        /\ b \in Base .. End - 4 /\ n + 8 <= b /\ b <= n + Block - 12
        /\ \A o \in AllNodes : b # o - 8 /\ b # o - 4 /\ b # o /\ b # o + 4
  BY <1>6, PayloadFacts
<1>8. ASSUME NEW q \in DOMAIN live \ {p} PROVE Payload(p, live[p]) \cap Payload(q, live[q]) = {}
  <2>1. PICK k \in NodesBelow(c) : q = k + 8 /\ live[q] \in Sizes /\ k \in AllNodes
    BY <1>5
  <2>2. \A b \in Payload(q, live[q]) : b \in Base .. End - 4 /\ k + 8 <= b /\ b <= k + Block - 12
    BY <2>1, PayloadFacts
  <2>3. /\ k \in Nat /\ n \in Nat /\ k # n /\ Block \in Nat
        /\ (k < n => k + Block <= n) /\ (n < k => n + Block <= k)
    BY <1>6, <2>1, NodeFacts, BlockFacts
  <2>4. ASSUME NEW b \in Payload(p, live[p]), b \in Payload(q, live[q]) PROVE FALSE
    <3>1. b \in Base .. End - 4 /\ n + 8 <= b /\ b <= n + Block - 12 /\ k + 8 <= b /\ b <= k + Block - 12
      BY <1>7, <2>2, <2>4
    <3>2. b \in Int
      BY <3>1
    <3> QED BY <2>3, <3>1, <3>2
  <2> QED BY <2>4
<1>9. \A o \in Nodes(FreeList) \cup Nodes(AllocList) : Payload(p, live[p]) \cap HeaderWords(o) = {}
  BY <1>4, <1>7 DEF HeaderWords
<1> QED BY <1>7, <1>8, <1>9

LEMMA InvKeeps ==
  ASSUME SameBlocks, HeapInv, OnlyHeaders(mem, mem')
  PROVE  Untouched
<1>1. PICK c \in 0..Top, nf \in Nat \ {0}, na \in Nat : \E f, a :
        Shape(mem, c, f, nf, a, na) /\ Held(c, a, na)
  BY InvIsShape
<1>2. PICK f, a : Shape(mem, c, f, nf, a, na) /\ Held(c, a, na)
  BY <1>1
<1>3. SUFFICES ASSUME NEW p \in DOMAIN live, NEW b \in Payload(p, live[p])
               PROVE  mem'[b] = mem[b]
  BY DEF Untouched
<1>4. PICK n \in NodesBelow(c) : p = n + 8 /\ live[p] \in Sizes
  BY <1>2 DEF Held, Shape, Sorted
<1>5. b \in Words /\ b \notin Links /\ \A o \in AllNodes : b # o - 8 /\ b # o - 4
  BY <1>4, PayloadFacts
<1>6. Load(mem', b) = Load(mem, b)
  BY <1>5 DEF OnlyHeaders
<1> QED BY <1>5, <1>6 DEF Load

-----------------------------------------------------------------------------
(* The invariant holds in every state.                                      *)
LEMMA Invariance ==
  ASSUME SameBlocks
  PROVE  Spec => []HeapInv
<1>1. Init => HeapInv
  BY InitHolds
<1>2. HeapInv /\ [Next]_vars => HeapInv'
  BY StepKeeps
<1> QED BY <1>1, <1>2, PTL DEF Spec

(* If all requests need a block of one size, no search of malloc or free    *)
(* loses its way, whatever clients call in whatever order.                  *)
THEOREM SearchesEnd ==
  ASSUME SameBlocks
  PROVE  Spec => []NeverLost
<1>1. HeapInv => NeverLost
  BY DEF HeapInv, NeverLost
<1> QED BY <1>1, Invariance, PTL

(* Both lists of mem_find and mem_free stay circular, the allocated list    *)
(* holds exactly what clients hold, the free list is in address order.      *)
THEOREM ListsStaySound ==
  ASSUME SameBlocks
  PROVE  Spec => []ListsSound
<1>1. HeapInv => ListsSound
  BY InvSound
<1> QED BY <1>1, Invariance, PTL

(* What malloc returns lies inside the heap and apart from what others hold *)
(* and from every header.                                                   *)
THEOREM PayloadsApart ==
  ASSUME SameBlocks
  PROVE  Spec => []LiveDisjoint
<1>1. HeapInv => LiveDisjoint
  BY InvApart
<1> QED BY <1>1, Invariance, PTL

(* Neither call writes into a payload that stays with its owner.            *)
THEOREM CallsKeepPayloads ==
  ASSUME SameBlocks
  PROVE  Spec => PayloadKept
<1>1. HeapInv /\ [Next]_vars => [Untouched]_vars
  BY StepKeeps, InvKeeps
<1> QED BY <1>1, Invariance, PTL DEF Spec, PayloadKept

(* A pointer that was given back leads free to no allocated block, so that  *)
(* a second free of it is refused and changes nothing.                      *)
THEOREM SecondFreeRefused ==
  ASSUME SameBlocks
  PROVE  Spec => DoubleFreeRefused
<1>1. HeapInv /\ [Next]_vars => [Refused]_vars
  BY StepKeeps
<1> QED BY <1>1, Invariance, PTL DEF Spec, DoubleFreeRefused
=============================================================================
