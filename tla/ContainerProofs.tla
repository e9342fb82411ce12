-------------------------- MODULE ContainerProofs --------------------------
(***************************************************************************)
(* Proof that push and pop implement a queue of items, for an array of any *)
(* size, items of any one length and any values of a byte; and that the    *)
(* rings of list.h stay sound, its loops see every entry and its calls     *)
(* make of the lists what they say, for any number of heads and entries.   *)
(***************************************************************************)
EXTENDS FifoProps, ListsProps, SequenceTheorems, NaturalsInduction, WellFoundedInduction,
        FiniteSetTheorems, TLAPS


LEMMA LeastNat ==
  ASSUME NEW S \in SUBSET Nat, S # {}
  PROVE  \E x \in S : \A y \in S : x <= y
<1>1. PICK x \in S : \A y \in S : ~(<<y, x>> \in OpToRel(<, Nat))
  BY NatLessThanWellFounded, WFMin
<1>2. ASSUME NEW y \in S PROVE x <= y
  <2>1. x \in Nat /\ y \in Nat
    OBVIOUS
  <2>2. y < x => <<y, x>> \in OpToRel(<, Nat)
    BY <2>1, Zenon DEF OpToRel
  <2>3. ~(y < x)
    BY <1>1, <2>2
  <2> QED BY <2>1, <2>3
<1> QED BY <1>2

LEMMA MulLe ==
  ASSUME NEW x \in Int, NEW y \in Int, NEW b \in Nat, x <= y
  PROVE  x * b <= y * b /\ x * b \in Int /\ y * b \in Int
OBVIOUS

LEMMA NextMul ==
  ASSUME NEW x \in Int, NEW b \in Nat
  PROVE  (x + 1) * b = x * b + b /\ (x - 1) * b = x * b - b /\ 0 * b = 0 /\ 1 * b = b
OBVIOUS

-----------------------------------------------------------------------------
(* The places of an array of cap bytes and one behind it, for items of L    *)
(* bytes: m of them and place 0.                                            *)
Divides(L, m) ==
  /\ L \in Nat \ {0} /\ m \in Nat /\ decl.cap \in Nat
  /\ m * L <= decl.cap + 1 /\ decl.cap + 1 < m * L + L

LEMMA CellOf ==
  ASSUME NEW L, NEW m, Divides(L, m), NEW i \in 0..m, NEW c \in 0..L-1
  PROVE  /\ Cell(i * L, c) = IF i = m /\ m * L + c > decl.cap THEN c ELSE i * L + c
         /\ m # 0 => Cell(i * L, c) \in 0..decl.cap
<1>1. i < m => i * L + L <= m * L
  <2>1. i < m => (i + 1) * L <= m * L
    BY MulLe DEF Divides
  <2> QED BY <2>1, NextMul DEF Divides
<1>2. i * L \in Nat /\ m * L \in Nat
  BY DEF Divides
<1>3. m # 0 => L <= m * L
  <2>1. m # 0 => 1 * L <= m * L
    BY MulLe DEF Divides
  <2> QED BY <2>1 DEF Divides
<1>4. Cell(i * L, c) = IF i = m /\ m * L + c > decl.cap THEN c ELSE i * L + c
  <2>1. CASE i < m
    BY <1>1, <1>2, <2>1 DEF Cell, Divides
  <2>2. CASE i = m
    BY <2>2 DEF Cell
  <2> QED BY <2>1, <2>2 DEF Divides
<1>5. ASSUME m # 0 PROVE Cell(i * L, c) \in 0..decl.cap
  <2>1. CASE i < m
    BY <1>1, <1>2, <1>4, <2>1 DEF Divides
  <2>2. CASE i = m
    BY <1>2, <1>3, <1>4, <1>5, <2>2 DEF Divides
  <2> QED BY <2>1, <2>2 DEF Divides
<1> QED BY <1>4, <1>5

(* An item occupies each of its bytes once.                                 *)
LEMMA CellOnce ==
  ASSUME NEW L, NEW m, Divides(L, m), m # 0, NEW i \in 0..m,
         NEW c \in 0..L-1, NEW d \in 0..L-1, Cell(i * L, c) = Cell(i * L, d)
  PROVE  c = d
<1>1. L <= m * L /\ i * L \in Nat /\ m * L \in Nat
  <2>1. 1 * L <= m * L
    BY MulLe DEF Divides
  <2> QED BY <2>1 DEF Divides
<1>2. /\ Cell(i * L, c) = IF i = m /\ m * L + c > decl.cap THEN c ELSE i * L + c
      /\ Cell(i * L, d) = IF i = m /\ m * L + d > decl.cap THEN d ELSE i * L + d
  BY CellOf
<1> QED BY <1>1, <1>2 DEF Divides

(* Two places have no byte in common, but for the first and the last.       *)
LEMMA CellsApart ==
  ASSUME NEW L, NEW m, Divides(L, m), NEW i \in 0..m, NEW k \in 0..m, i < k,
         ~(i = 0 /\ k = m), NEW c \in 0..L-1, NEW d \in 0..L-1
  PROVE  Cell(i * L, c) # Cell(k * L, d)
<1>1. i * L + L <= k * L
  <2>1. (i + 1) * L <= k * L
    BY MulLe DEF Divides
  <2> QED BY <2>1, NextMul DEF Divides
<1>2. i # 0 => L <= i * L
  <2>1. i # 0 => 1 * L <= i * L
    BY MulLe DEF Divides
  <2> QED BY <2>1 DEF Divides
<1>3. /\ Cell(i * L, c) = i * L + c
      /\ Cell(k * L, d) = IF k = m /\ m * L + d > decl.cap THEN d ELSE k * L + d
  <2>1. i # m
    BY DEF Divides
  <2> QED BY <2>1, CellOf
<1>4. i * L \in Nat /\ k * L \in Nat
  BY DEF Divides
<1> QED BY <1>1, <1>2, <1>3, <1>4 DEF Divides

LEMMA AfterPlace ==
  ASSUME NEW L, NEW m, Divides(L, m), m # 0, NEW i \in 0..m
  PROVE  After(i * L, L) = (IF i = m THEN 1 ELSE i + 1) * L
<1>1. CASE i = m
  BY <1>1 DEF After, Divides
<1>2. CASE i < m
  <2>1. (i + 1) * L <= m * L /\ (i + 1) * L = i * L + L /\ i * L \in Nat /\ m * L \in Nat
    BY <1>2, MulLe, NextMul DEF Divides
  <2> QED BY <1>2, <2>1 DEF After, Divides
<1> QED BY <1>1, <1>2 DEF Divides

-----------------------------------------------------------------------------
(* What the invariant says of the queue that was declared.                  *)
LEMMA DivFacts ==
  ASSUME NEW a \in Nat, NEW b \in Nat \ {0}
  PROVE  a \div b \in Nat /\ (a \div b) * b <= a /\ a < (a \div b) * b + b
<1>1. a = b * (a \div b) + (a % b)
  BY Z3T(30)
<1>2. a % b \in 0..b-1 /\ a \div b \in Int
  OBVIOUS
<1>3. a \div b >= 0
  BY Z3T(30)
<1>4. b * (a \div b) = (a \div b) * b
  BY <1>2
<1> QED BY <1>1, <1>2, <1>3, <1>4

LEMMA Bound ==
  ASSUME NEW x \in Nat, NEW m \in Nat, NEW L \in Nat \ {0}, x * L < m * L + L
  PROVE  x <= m
<1>1. ~(m + 1 <= x)
  <2>1. m + 1 <= x => (m + 1) * L <= x * L
    BY MulLe
  <2>2. (m + 1) * L = m * L + L /\ (m + 1) * L \in Int /\ x * L \in Int
    BY NextMul
  <2> QED BY <2>1, <2>2
<1> QED BY <1>1

LEMMA DeclFacts ==
  SameLengths /\ PlacesInv =>
    /\ Divides(ItemLen, LastPlace)
    /\ \A len \in decl.lens : len = ItemLen
    /\ Len(lens) \in Nat /\ Len(lens) <= LastPlace
<1> SUFFICES ASSUME SameLengths, PlacesInv
             PROVE  /\ Divides(ItemLen, LastPlace)
                    /\ \A len \in decl.lens : len = ItemLen
                    /\ Len(lens) \in Nat /\ Len(lens) <= LastPlace
  OBVIOUS
<1>1. decl.cap \in Nat /\ decl.lens \subseteq Nat \ {0} /\ Len(lens) \in Nat
  BY DeclAssumption DEF PlacesInv
<1>2. ItemLen \in Nat \ {0} /\ \A len \in decl.lens : len = ItemLen
  BY <1>1 DEF SameLengths, PlacesInv, ItemLen
<1>3. Divides(ItemLen, LastPlace)
  <2>1. /\ LastPlace \in Nat /\ LastPlace * ItemLen <= decl.cap + 1
        /\ decl.cap + 1 < LastPlace * ItemLen + ItemLen
    <3>1. decl.cap + 1 \in Nat
      BY <1>1
    <3> QED BY <1>2, <3>1, DivFacts DEF LastPlace
  <2> QED BY <1>1, <1>2, <2>1 DEF Divides
<1>4. Len(lens) <= LastPlace
  <2> DEFINE taken == Len(lens) * ItemLen
             room == LastPlace * ItemLen
  <2>1. taken \in Nat /\ room \in Nat
    BY <1>1, <1>2, <1>3 DEF Divides
  <2>2. taken <= decl.cap /\ decl.cap + 1 < room + ItemLen
    BY <1>3 DEF Divides, PlacesInv
  <2>3. taken < room + ItemLen
    <3> HIDE DEF taken, room
    <3> QED BY <1>1, <1>2, <2>1, <2>2
  <2> QED BY <1>1, <1>2, <1>3, <2>3, Bound DEF Divides
<1> QED BY <1>1, <1>2, <1>3, <1>4

-----------------------------------------------------------------------------
(* What is recursive, without its recursion: the bytes of items of the same *)
(* length, and the items in the array.                                      *)
LEMMA BytesEqual ==
  ASSUME NEW q, NEW L \in Nat, Len(q) \in Nat, \A k \in 1..Len(q) : Len(q[k]) = L
  PROVE  Queue!Bytes(q) = Len(q) * L
<1> DEFINE n == Len(q)
           F(f) == [k \in 0..n |-> IF k = 0 THEN 0 ELSE f[k-1] + Len(q[k])]
           g == [k \in 0..n |-> k * L]
<1>1. g = F(g)
  <2>1. ASSUME NEW k \in 1..n PROVE k * L = (k - 1) * L + L
    BY NextMul
  <2>2. ASSUME NEW k \in 0..n PROVE g[k] = F(g)[k]
    BY <2>1
  <2> QED BY <2>2
<1>2. ASSUME NEW f, f = F(f) PROVE f = g
  <2> DEFINE S == {k \in 0..n : f[k] # g[k]}
  <2>1. CASE S = {}
    <3>1. f = [k \in 0..n |-> f[k]]
      BY <1>2
    <3> QED BY <2>1, <3>1
  <2>2. CASE S # {}
    <3>1. PICK x \in S : \A y \in S : x <= y
      <4>1. S \in SUBSET Nat
        OBVIOUS
      <4> HIDE DEF S
      <4> QED BY <2>2, <4>1, LeastNat
    <3>2. f[x] = IF x = 0 THEN 0 ELSE f[x-1] + Len(q[x])
      BY <1>2
    <3>3. g[x] = IF x = 0 THEN 0 ELSE g[x-1] + Len(q[x])
      BY <1>1
    <3>4. x # 0 => x - 1 \in 0..n /\ x - 1 \notin S
      BY <3>1
    <3> QED BY <3>1, <3>2, <3>3, <3>4
  <2> QED BY <2>1, <2>2
<1>3. (CHOOSE f : f = F(f)) = g
  BY <1>1, <1>2
<1>4. Queue!Bytes(q) = (CHOOSE f : f = F(f))[n]
  BY DEF Queue!Bytes
<1>5. g[n] = n * L
  OBVIOUS
<1> HIDE DEF F, g
<1> QED BY <1>3, <1>4, <1>5

LEMMA Places ==
  ASSUME LastPlace \in Nat, NEW i \in 0..LastPlace, NEW n \in 0..LastPlace
  PROVE  /\ Place(i, n) \in 0..LastPlace /\ Place(i, 0) = i
         /\ n > 0 => /\ Place(i, n) = IF Place(i, n-1) = LastPlace THEN 1
                                      ELSE Place(i, n-1) + 1
                    /\ Place(i, n) = Place(IF i = LastPlace THEN 1 ELSE i + 1, n - 1)
<1>1. /\ i \in Nat /\ n \in Nat /\ i <= LastPlace /\ n <= LastPlace
      /\ \A x, y : Place(x, y) = IF x + y <= LastPlace THEN x + y ELSE x + y - LastPlace
  BY DEF Place
<1>2. Place(i, n) \in 0..LastPlace /\ Place(i, 0) = i
  BY <1>1
<1>3. n > 0 => Place(i, n) = IF Place(i, n-1) = LastPlace THEN 1 ELSE Place(i, n-1) + 1
  BY <1>1
<1>4. n > 0 => Place(i, n) = Place(IF i = LastPlace THEN 1 ELSE i + 1, n - 1)
  BY <1>1
<1> QED BY <1>2, <1>3, <1>4

LEMMA PlacesApart ==
  ASSUME LastPlace \in Nat, NEW i \in 0..LastPlace, NEW n \in 0..LastPlace - 1,
         NEW k \in 1..n
  PROVE  /\ Place(i, k-1) # Place(i, n)
         /\ {Place(i, k-1), Place(i, n)} # {0, LastPlace}
<1>1. /\ i \in Nat /\ n \in Nat /\ i <= LastPlace /\ n < LastPlace
      /\ \A x, y : Place(x, y) = IF x + y <= LastPlace THEN x + y ELSE x + y - LastPlace
  BY DEF Place
<1>2. Place(i, k-1) # Place(i, n)
  BY <1>1
<1>3. i = 0 => Place(i, k-1) # LastPlace /\ Place(i, n) # LastPlace
  BY <1>1
<1>4. i # 0 => Place(i, k-1) # 0 /\ Place(i, n) # 0
  BY <1>1
<1> QED BY <1>2, <1>3, <1>4

(* The items that the places hold from place i on.                          *)
Ring(i) == [k \in 1..Len(lens) |->
              [j \in 1..ItemLen |-> mem[Cell(Place(i, k - 1) * ItemLen, j - 1)]]]

LEMMA StoredRing ==
  SameLengths /\ PlacesInv =>
    \A i \in 0..LastPlace : bp = i * ItemLen => Stored = Ring(i)
<1> SUFFICES ASSUME SameLengths, PlacesInv, NEW i \in 0..LastPlace, bp = i * ItemLen
             PROVE  Stored = Ring(i)
  OBVIOUS
<1> DEFINE n == Len(lens)
           L == ItemLen
           m == LastPlace
           F(f) == [k \in 1..n |-> IF k = 1 THEN bp ELSE After(f[k-1], lens[k-1])]
           g == [k \in 1..n |-> Place(i, k - 1) * L]
<1>1. Divides(L, m) /\ n \in Nat /\ n <= m /\ (\A k \in 1..n : lens[k] = L)
  BY DeclFacts DEF PlacesInv
<1>2. ASSUME NEW k \in 1..n PROVE g[k] = IF k = 1 THEN bp ELSE After(g[k-1], lens[k-1])
  <2>1. CASE k = 1
    BY <1>1, <2>1, Places DEF Divides
  <2>2. CASE k # 1
    <3>1. /\ k - 1 \in 1..n /\ k - 1 \in 0..m /\ k - 2 \in 0..m /\ m # 0
          /\ (k - 1) - 1 = k - 2
      BY <1>1, <2>2 DEF Divides
    <3>2. /\ Place(i, k - 2) \in 0..m
          /\ Place(i, k - 1) = IF Place(i, k - 2) = m THEN 1 ELSE Place(i, k - 2) + 1
      <4>1. \A x \in 0..m : /\ Place(i, x) \in 0..m
                            /\ x > 0 => Place(i, x) = IF Place(i, x-1) = m THEN 1
                                                     ELSE Place(i, x-1) + 1
        BY <1>1, Places DEF Divides
      <4> HIDE DEF m
      <4> QED BY <2>2, <3>1, <4>1
    <3>3. After(Place(i, k - 2) * L, L) = Place(i, k - 1) * L
      BY <1>1, <3>1, <3>2, AfterPlace
    <3>4. g[k-1] = Place(i, k - 2) * L /\ lens[k-1] = L
      BY <1>1, <3>1
    <3> QED BY <2>2, <3>3, <3>4
  <2> QED BY <2>1, <2>2
<1>3. g = F(g)
  BY <1>2
<1>4. ASSUME NEW f, f = F(f) PROVE f = g
  <2> DEFINE S == {k \in 1..n : f[k] # g[k]}
  <2>1. CASE S = {}
    <3>1. f = [k \in 1..n |-> f[k]]
      BY <1>4
    <3> QED BY <2>1, <3>1
  <2>2. CASE S # {}
    <3>1. PICK x \in S : \A y \in S : x <= y
      <4>1. S \in SUBSET Nat
        OBVIOUS
      <4> HIDE DEF S
      <4> QED BY <2>2, <4>1, LeastNat
    <3>2. f[x] = IF x = 1 THEN bp ELSE After(f[x-1], lens[x-1])
      BY <1>4
    <3>3. g[x] = IF x = 1 THEN bp ELSE After(g[x-1], lens[x-1])
      BY <1>2
    <3>4. x # 1 => x - 1 \in 1..n /\ x - 1 \notin S
      BY <1>1, <3>1
    <3>5. x # 1 => f[x-1] = g[x-1]
      BY <3>4
    <3> HIDE DEF g
    <3> QED BY <3>1, <3>2, <3>3, <3>5
  <2> QED BY <2>1, <2>2
<1>5. StartOf = g
  <2>1. StartOf = CHOOSE f : f = F(f)
    BY DEF StartOf
  <2> HIDE DEF F, g
  <2> QED BY <1>3, <1>4, <2>1
<1>6. ASSUME NEW k \in 1..n
      PROVE  [j \in 1..lens[k] |-> mem[Cell(StartOf[k], j - 1)]]
               = [j \in 1..L |-> mem[Cell(Place(i, k - 1) * L, j - 1)]]
  BY <1>1, <1>5
<1> QED BY <1>6 DEF Stored, Ring

LEMMA StoredBytes ==
  SameLengths /\ PlacesInv =>
    /\ Len(Stored) = Len(lens)
    /\ Queue!Bytes(Stored) = Len(lens) * ItemLen
<1> SUFFICES ASSUME SameLengths, PlacesInv
             PROVE  /\ Len(Stored) = Len(lens)
                    /\ Queue!Bytes(Stored) = Len(lens) * ItemLen
  OBVIOUS
<1>1. PICK i \in 0..LastPlace : bp = i * ItemLen
  BY DEF PlacesInv
<1>2. Stored = Ring(i) /\ ItemLen \in Nat /\ Len(lens) \in Nat
  BY <1>1, StoredRing, DeclFacts DEF Divides
<1>3. Len(Stored) = Len(lens) /\ \A k \in 1..Len(lens) : Len(Stored[k]) = ItemLen
  BY <1>2 DEF Ring
<1> QED BY <1>2, <1>3, BytesEqual

-----------------------------------------------------------------------------
LEMMA InitMaps == SameLengths /\ Init => PlacesInv /\ Queue!Init
<1> SUFFICES ASSUME SameLengths, Init PROVE PlacesInv /\ Queue!Init
  OBVIOUS
<1>1. decl \in Decls /\ decl.cap \in Nat \ {0} /\ decl.lens \subseteq Nat \ {0}
  BY DeclAssumption DEF Init
<1>2. ItemLen \in Nat \ {0} /\ LastPlace \in Nat
  <2>1. ItemLen \in Nat \ {0}
    BY <1>1 DEF ItemLen
  <2>2. decl.cap + 1 \in Nat
    BY <1>1
  <2> QED BY <2>1, <2>2, DivFacts DEF LastPlace
<1>3. PlacesInv
  <2>1. DOMAIN mem = 0..decl.cap /\ size = decl.cap /\ lens = <<>> /\ bp = 0 /\ tp = 0
    BY DEF Init
  <2>2. Len(lens) = 0 /\ lens = [k \in 1..Len(lens) |-> ItemLen]
    BY <2>1
  <2>3. 0 \in 0..LastPlace /\ 0 * ItemLen = 0 /\ Place(0, 0) = 0
    BY <1>2 DEF Place
  <2>4. \E i \in 0..LastPlace : bp = i * ItemLen /\ tp = Place(i, Len(lens)) * ItemLen
    BY <2>1, <2>2, <2>3
  <2> QED BY <1>1, <2>1, <2>2, <2>3, <2>4 DEF PlacesInv
<1>4. Stored = <<>>
  <2>1. Stored = [k \in 1..0 |-> [j \in 1..lens[k] |-> mem[Cell(StartOf[k], j - 1)]]]
    BY DEF Init, Stored
  <2> QED BY <2>1
<1> QED BY <1>1, <1>3, <1>4 DEF Init, Queue!Init

(* The bytes of the item go to its place, and no other byte changes.        *)
LEMMA PushWrites ==
  ASSUME NEW L, NEW m, Divides(L, m), m # 0, NEW t \in 0..m, tp = t * L,
         DOMAIN mem = 0..decl.cap, NEW item, Len(item) = L, size - L >= 0, size \in Int,
         Push(item)
  PROVE  /\ DOMAIN mem' = 0..decl.cap
         /\ \A c \in 0..L-1 : mem'[Cell(tp, c)] = item[c + 1]
         /\ \A a \in 0..decl.cap :
              (\A c \in 0..L-1 : Cell(tp, c) # a) => mem'[a] = mem[a]
<1> DEFINE Rounds(a) == {k \in 1..L : Cell(tp, k - 1) = a}
           LastOf(a) == CHOOSE k \in Rounds(a) : \A j \in Rounds(a) : j <= k
<1>1. mem' = [a \in 0..decl.cap |-> IF Rounds(a) = {} THEN mem[a] ELSE item[LastOf(a)]]
  <2>1. ~(size - Len(item) < 0)
    BY DEF Divides
  <2> DEFINE Written(places, len) ==
               [a \in places |->
                  LET rounds == {k \in 1..len : Cell(tp, k - 1) = a}
                  IN  IF rounds = {} THEN mem[a]
                      ELSE item[CHOOSE k \in rounds : \A j \in rounds : j <= k]]
  <2>2. mem' = Written(DOMAIN mem, Len(item))
    BY <2>1, Zenon DEF Push
  <2>3. Written(0..decl.cap, L)
          = [a \in 0..decl.cap |-> IF Rounds(a) = {} THEN mem[a] ELSE item[LastOf(a)]]
    BY Zenon
  <2> HIDE DEF Written, Rounds, LastOf
  <2> QED BY <2>2, <2>3
<1>2. ASSUME NEW c \in 0..L-1 PROVE mem'[Cell(tp, c)] = item[c + 1]
  <2>1. Cell(tp, c) \in 0..decl.cap
    BY CellOf
  <2>2. Rounds(Cell(tp, c)) = {c + 1}
    <3>1. c + 1 \in 1..L /\ (c + 1) - 1 = c
      BY DEF Divides
    <3>2. ASSUME NEW k \in 1..L, Cell(tp, k - 1) = Cell(tp, c) PROVE k = c + 1
      <4>1. k - 1 \in 0..L-1
        BY DEF Divides
      <4>2. k - 1 = c
        BY <3>2, <4>1, CellOnce
      <4> QED BY <4>2 DEF Divides
    <3> QED BY <3>1, <3>2
  <2>3. LastOf(Cell(tp, c)) = c + 1
    <3> HIDE DEF Rounds
    <3> QED BY <2>2 DEF Divides
  <2> HIDE DEF Rounds, LastOf
  <2> QED BY <1>1, <2>1, <2>2, <2>3
<1>3. ASSUME NEW a \in 0..decl.cap, \A c \in 0..L-1 : Cell(tp, c) # a
      PROVE  mem'[a] = mem[a]
  <2>1. ASSUME NEW k \in 1..L PROVE Cell(tp, k - 1) # a
    <3>1. k - 1 \in 0..L-1
      BY DEF Divides
    <3> QED BY <1>3, <3>1
  <2>2. Rounds(a) = {}
    BY <2>1
  <2> HIDE DEF Rounds, LastOf
  <2> QED BY <1>1, <2>2
<1> QED BY <1>1, <1>2, <1>3

LEMMA AppendSame ==
  ASSUME NEW n \in Nat, NEW x
  PROVE  /\ Append([k \in 1..n |-> x], x) = [k \in 1..n + 1 |-> x]
         /\ Len([k \in 1..n + 1 |-> x]) = n + 1
OBVIOUS

LEMMA TailIs ==
  ASSUME NEW n \in Nat \ {0}, NEW S, NEW s \in [1..n -> S]
  PROVE  /\ Tail(s) = [k \in 1..n - 1 |-> s[k + 1]]
         /\ Head(s) = s[1] /\ s # <<>>
<1>1. s \in Seq(S) /\ Len(s) = n /\ s # <<>>
  OBVIOUS
<1>2. /\ Tail(s) \in Seq(S) /\ Len(Tail(s)) = n - 1
      /\ \A k \in 1..n - 1 : Tail(s)[k] = s[k + 1]
  BY <1>1, HeadTailProperties
<1>3. Tail(s) = [k \in 1..n - 1 |-> Tail(s)[k]]
  BY <1>2, LenProperties
<1> QED BY <1>1, <1>2, <1>3

LEMMA TailSame ==
  ASSUME NEW n \in Nat \ {0}, NEW x
  PROVE  /\ Tail([k \in 1..n |-> x]) = [k \in 1..n - 1 |-> x]
         /\ Len([k \in 1..n - 1 |-> x]) = n - 1
OBVIOUS

LEMMA NextStoredRing ==
  (SameLengths /\ PlacesInv =>
    \A i \in 0..LastPlace : bp = i * ItemLen => Stored = Ring(i))'
BY StoredRing, PTL

(* The places depend on nothing but the queue's declaration.                *)
LEMMA SameDecl ==
  decl' = decl => ItemLen' = ItemLen /\ LastPlace' = LastPlace
BY DEF ItemLen, LastPlace

LEMMA PushPreserves ==
  ASSUME SameLengths, PlacesInv, NEW len \in decl.lens, NEW item \in Items(len), Push(item)
  PROVE  PlacesInv' /\ decl' = decl /\ Queue!Push(item)
<1> DEFINE n == Len(lens)
           L == ItemLen
           m == LastPlace
<1>1. /\ Divides(L, m) /\ len = L /\ n \in Nat /\ n <= m
      /\ L \in Nat \ {0} /\ m \in Nat /\ decl.cap \in Nat
  BY DeclFacts DEF Divides
<1>2. PICK i \in 0..m : bp = i * L /\ tp = Place(i, n) * L
  BY DEF PlacesInv
<1>3. Len(item) = L /\ item = [j \in 1..L |-> item[j]]
  BY <1>1 DEF Items
<1>4. decl' = decl /\ L' = L /\ m' = m
  BY SameDecl DEF Push
<1>5. /\ decl \in Decls /\ DOMAIN mem = 0..decl.cap /\ lens = [k \in 1..n |-> L]
      /\ n * L \in Nat /\ m * L \in Nat /\ n * L <= decl.cap /\ size = decl.cap - n * L
      /\ size \in Int /\ (n + 1) * L = n * L + L
  <2>1. n * L \in Nat /\ m * L \in Nat /\ (n + 1) * L = n * L + L
    BY <1>1, NextMul
  <2> QED BY <1>1, <2>1 DEF PlacesInv
<1>6. Stored = Ring(i) /\ Queue!Bytes(Stored) = n * L /\ Len(Stored) = n
  BY <1>2, StoredRing, StoredBytes
<1>0. m = LastPlace /\ L = ItemLen /\ n = Len(lens)
  OBVIOUS
<1> HIDE DEF n, L, m
<1>7. CASE size - L < 0
  <2>1. UNCHANGED <<decl, bp, mem, tp, size, lens>> /\ answer' = <<-1, <<>>>>
    <3>1. ~(size - L >= 0)
      BY <1>1, <1>5, <1>7
    <3> QED BY <1>3, <3>1, Zenon DEF Push
  <2>2. PlacesInv'
    <3>1. Len(lens)' = Len(lens) /\ ItemLen' = ItemLen /\ LastPlace' = LastPlace
          /\ \A x, y : Place(x, y)' = Place(x, y)
      BY <2>1 DEF ItemLen, LastPlace, Place
    <3> QED BY <2>1, <3>1 DEF PlacesInv
  <2>3. Stored' = Stored
    BY <2>1 DEF Stored, StartOf, Cell, After
  <2>4. Queue!Bytes(Stored) + Len(item) > decl.cap
    BY SMTT(30), <1>1, <1>3, <1>5, <1>6, <1>7
  <2>5. Queue!Push(item)
    BY <2>1, <2>3, <2>4, Zenon DEF Queue!Push
  <2> QED BY <1>4, <2>2, <2>5
<1>8. CASE size - L >= 0
  <2>1. /\ bp' = bp /\ size' = size - L /\ tp' = After(tp, L)
        /\ lens' = Append(lens, L) /\ answer' = <<0, <<>>>>
    <3>1. ~(size - L < 0)
      BY <1>1, <1>5, <1>8
    <3> QED BY <1>3, <3>1, Zenon DEF Push
  <2>2. n < m /\ n + 1 <= m /\ m # 0
    <3>1. n # m
      <4>1. m * L >= 0 /\ decl.cap + 1 < m * L + L /\ n * L + L <= decl.cap
        BY <1>1, <1>5, <1>8 DEF Divides
      <4>2. n = m => n * L = m * L
        OBVIOUS
      <4> DEFINE taken == n * L
                 room == m * L
      <4>3. taken \in Int /\ room \in Int
        BY <1>5
      <4> HIDE DEF taken, room
      <4> QED BY <1>1, <4>1, <4>2, <4>3 DEF taken, room
    <3> QED BY <1>1, <3>1
  <2> DEFINE t == Place(i, n)
  <2>3. /\ t \in 0..m
        /\ Place(i, n + 1) \in 0..m
        /\ Place(i, n + 1) = IF t = m THEN 1 ELSE t + 1
        /\ \A k \in 1..n : /\ Place(i, k-1) \in 0..m /\ Place(i, k-1) # t
                           /\ {Place(i, k-1), t} # {0, m}
    <3>1. n \in 0..m-1 /\ n \in 0..m /\ n + 1 \in 0..m /\ n + 1 > 0 /\ (n + 1) - 1 = n
      BY <1>1, <2>2
    <3>2. \A x \in 0..m : /\ Place(i, x) \in 0..m
                          /\ x > 0 => Place(i, x) = IF Place(i, x-1) = m THEN 1
                                                   ELSE Place(i, x-1) + 1
      BY <1>1, Places DEF m
    <3>3. \A k \in 1..n : Place(i, k-1) # t /\ {Place(i, k-1), t} # {0, m}
      BY <1>1, <2>2, <3>1, PlacesApart DEF m
    <3>4. \A k \in 1..n : k - 1 \in 0..m
      BY <1>1
    <3> QED BY <3>1, <3>2, <3>3, <3>4
  <2>4. /\ DOMAIN mem' = 0..decl.cap
        /\ \A c \in 0..L-1 : mem'[Cell(tp, c)] = item[c + 1]
        /\ \A a \in 0..decl.cap :
             (\A c \in 0..L-1 : Cell(tp, c) # a) => mem'[a] = mem[a]
    <3>1. t \in 0..m /\ tp = t * L
      BY <1>2, <2>3
    <3> HIDE DEF t
    <3>2. PICK here, bytes, last : here = t /\ bytes = L /\ last = m
      OBVIOUS
    <3>3. /\ DOMAIN mem' = 0..decl.cap
          /\ \A c \in 0..bytes-1 : mem'[Cell(tp, c)] = item[c + 1]
          /\ \A a \in 0..decl.cap :
               (\A c \in 0..bytes-1 : Cell(tp, c) # a) => mem'[a] = mem[a]
      <4>1. /\ Divides(bytes, last) /\ last # 0 /\ here \in 0..last /\ tp = here * bytes
            /\ DOMAIN mem = 0..decl.cap /\ Len(item) = bytes
            /\ size - bytes >= 0 /\ size \in Int
        BY <1>1, <1>3, <1>5, <1>8, <2>2, <3>1, <3>2
      <4> QED BY <4>1, PushWrites
    <3> QED BY <3>2, <3>3
  <2>5. Len(lens') = n + 1 /\ lens' = [k \in 1..n + 1 |-> L]
    <3>1. lens' = Append([k \in 1..n |-> L], L)
      BY <1>5, <2>1
    <3> QED BY <1>1, <3>1, AppendSame
  <2>6. tp' = Place(i, n + 1) * L
    BY <1>1, <1>2, <2>1, <2>2, <2>3, AfterPlace
  <2>7. PlacesInv'
    <3>1. Len(lens') * L <= decl.cap /\ size' = decl.cap - Len(lens') * L
      <4>1. Len(lens') * L = n * L + L
        BY <1>5, <2>5
      <4> DEFINE taken == n * L
                 left == Len(lens') * L
      <4>2. left = taken + L /\ taken \in Nat /\ size = decl.cap - taken
        BY <1>5, <4>1
      <4> HIDE DEF taken, left
      <4>3. left <= decl.cap /\ size' = decl.cap - left
        BY <1>1, <1>8, <2>1, <4>2
      <4> QED BY <4>3 DEF left
    <3>2. (Place(i, Len(lens)))' = Place(i, n + 1)
      BY <1>4, <2>5 DEF Place, m
    <3>3. Len(lens') \in Nat
      BY <1>1, <2>5
    <3> QED BY <1>2, <1>4, <1>5, <2>1, <2>4, <2>5, <2>6, <3>1, <3>2, <3>3 DEF PlacesInv, L, m
  <2>8. Queue!Push(item)
    <3>1. Stored' = Ring(i)'
      BY <1>2, <1>4, <2>1, <2>7, NextStoredRing DEF L, m
    <3>2. Ring(i)' = [k \in 1..n + 1 |->
                       [j \in 1..L |-> mem'[Cell(Place(i, k - 1) * L, j - 1)]]]
      BY <1>4, <2>5 DEF Ring, Cell, Place, L, m
    <3>3. ASSUME NEW k \in 1..n, NEW j \in 1..L
          PROVE  mem'[Cell(Place(i, k - 1) * L, j - 1)] = mem[Cell(Place(i, k - 1) * L, j - 1)]
      <4>1. j - 1 \in 0..L-1
        BY <1>1
      <4>2. ASSUME NEW c \in 0..L-1 PROVE Cell(tp, c) # Cell(Place(i, k - 1) * L, j - 1)
        <5>1. CASE Place(i, k - 1) < t
          BY <1>1, <1>2, <2>3, <4>1, <5>1, CellsApart
        <5>2. CASE t < Place(i, k - 1)
          BY <1>1, <1>2, <2>3, <4>1, <5>2, CellsApart
        <5> QED BY <1>1, <2>3, <5>1, <5>2
      <4>3. Cell(Place(i, k - 1) * L, j - 1) \in 0..decl.cap
        BY <1>1, <2>2, <2>3, <4>1, CellOf
      <4> QED BY <2>4, <4>2, <4>3
    <3>4. [j \in 1..L |-> mem'[Cell(Place(i, (n + 1) - 1) * L, j - 1)]] = item
      <4>1. \A j \in 1..L : j - 1 \in 0..L-1 /\ (j - 1) + 1 = j /\ (n + 1) - 1 = n
        BY <1>1
      <4>2. \A j \in 1..L : mem'[Cell(tp, j - 1)] = item[j]
        BY <2>4, <4>1
      <4>3. (n + 1) - 1 = n
        BY <1>1
      <4> QED BY <1>2, <1>3, <4>2, <4>3
    <3>5. Stored' = Append(Stored, item)
      <4> DEFINE R == Ring(i)
      <4>1. R = [k \in 1..n |-> [j \in 1..L |-> mem[Cell(Place(i, k - 1) * L, j - 1)]]]
        BY DEF Ring, n, L
      <4>2. Len(R) = n /\ Append(R, item) = [k \in 1..n + 1 |-> IF k = n + 1 THEN item ELSE R[k]]
        BY <1>1, <4>1
      <4>3. ASSUME NEW k \in 1..n + 1
            PROVE  [j \in 1..L |-> mem'[Cell(Place(i, k - 1) * L, j - 1)]]
                     = IF k = n + 1 THEN item ELSE R[k]
        <5>1. CASE k = n + 1
          BY <3>4, <5>1
        <5>2. CASE k # n + 1
          <6>1. k \in 1..n
            BY <1>1, <5>2
          <6> QED BY <3>3, <4>1, <5>2, <6>1
        <5> QED BY <5>1, <5>2
      <4> HIDE DEF R
      <4> QED BY <1>6, <3>1, <3>2, <4>2, <4>3 DEF R
    <3>6. Queue!Bytes(Stored) + Len(item) <= decl.cap
      BY SMTT(30), <1>1, <1>3, <1>5, <1>6, <1>8
    <3> QED BY <2>1, <3>5, <3>6, Zenon DEF Queue!Push
  <2> QED BY <1>4, <2>7, <2>8
<1> QED BY <1>1, <1>5, <1>7, <1>8

(* The oldest item is read from place i, and the ring goes on behind it.    *)
LEMMA PopPreserves ==
  ASSUME SameLengths, PlacesInv, NEW len \in decl.lens,
         lens # <<>> => len = Head(lens), Pop(len)
  PROVE  PlacesInv' /\ decl' = decl /\ Queue!Pop
<1> DEFINE n == Len(lens)
           L == ItemLen
           m == LastPlace
<1>1. /\ Divides(L, m) /\ len = L /\ n \in Nat /\ n <= m
      /\ L \in Nat \ {0} /\ m \in Nat /\ decl.cap \in Nat
  BY DeclFacts DEF Divides
<1>2. PICK i \in 0..m : bp = i * L /\ tp = Place(i, n) * L
  BY DEF PlacesInv
<1>3. decl' = decl /\ mem' = mem /\ tp' = tp /\ L' = L /\ m' = m
  BY SameDecl DEF Pop
<1>4. /\ decl \in Decls /\ DOMAIN mem = 0..decl.cap /\ lens = [k \in 1..n |-> L]
      /\ n * L \in Nat /\ n * L <= decl.cap /\ size = decl.cap - n * L
      /\ size \in Int /\ (n - 1) * L = n * L - L /\ (n # 0 => L <= n * L)
  <2>1. n * L \in Nat /\ (n - 1) * L = n * L - L
    BY <1>1, NextMul
  <2>2. n # 0 => 1 * L <= n * L
    BY <1>1, MulLe
  <2> QED BY <1>1, <2>1, <2>2 DEF PlacesInv
<1>5. Stored = Ring(i)
  BY <1>2, StoredRing
<1>6. Ring(i) = [k \in 1..n |-> [j \in 1..L |-> mem[Cell(Place(i, k - 1) * L, j - 1)]]]
  BY DEF Ring
<1>0. m = LastPlace /\ L = ItemLen /\ n = Len(lens)
  OBVIOUS
<1> HIDE DEF n, L, m
<1>7. CASE n = 0
  <2>1. ~(size + L <= decl.cap)
    <3>1. n * L = 0
      BY <1>1, <1>7, NextMul
    <3> QED BY <1>1, <1>4, <3>1
  <2>2. UNCHANGED <<decl, bp, mem, tp, size, lens>> /\ answer' = <<-1, <<>>>>
    BY <1>1, <1>3, <2>1, Zenon DEF Pop
  <2>3. PlacesInv'
    <3>1. Len(lens)' = Len(lens) /\ ItemLen' = ItemLen /\ LastPlace' = LastPlace
          /\ \A x, y : Place(x, y)' = Place(x, y)
      BY <2>2 DEF ItemLen, LastPlace, Place
    <3> QED BY <2>2, <3>1 DEF PlacesInv
  <2>4. Stored' = Stored
    BY <2>2 DEF Stored, StartOf, Cell, After
  <2>5. Stored = <<>>
    BY <1>5, <1>6, <1>7
  <2> QED BY <1>3, <2>2, <2>3, <2>4, <2>5, Zenon DEF Queue!Pop
<1>8. CASE n # 0
  <2>0. PICK next : next = IF i = m THEN 1 ELSE i + 1
    OBVIOUS
  <2>1. /\ size' = size + L /\ bp' = After(bp, L) /\ lens' = Tail(lens)
        /\ answer' = <<0, [k \in 1..L |-> mem[Cell(bp, k - 1)]]>>
    <3>1. ~(size + L > decl.cap)
      BY <1>1, <1>4, <1>8
    <3> QED BY <1>1, <3>1, Zenon DEF Pop
  <2>2. m # 0 /\ n \in 1..m /\ next \in 0..m
    BY <1>1, <1>8, <2>0
  <2>3. bp' = next * L
    BY <1>1, <1>2, <2>0, <2>1, <2>2, AfterPlace
  <2>4. Len(lens') = n - 1 /\ lens' = [k \in 1..n - 1 |-> L]
    <3>1. lens' = Tail([k \in 1..n |-> L])
      BY <1>4, <2>1
    <3> QED BY <1>1, <1>8, <3>1, TailSame
  <2>5. /\ Place(i, 0) = i
        /\ \A x \in 1..n : Place(i, x) = Place(next, x - 1)
    <3>1. \A x \in 0..m : /\ Place(i, 0) = i
                          /\ x > 0 => Place(i, x) = Place(next, x - 1)
      BY <1>1, <2>0, Places DEF m
    <3> QED BY <1>1, <2>2, <3>1
  <2>6. PlacesInv'
    <3>1. Len(lens') * L <= decl.cap /\ size' = decl.cap - Len(lens') * L
      <4>1. Len(lens') * L = n * L - L
        BY <1>4, <2>4
      <4> DEFINE taken == n * L
                 left == Len(lens') * L
      <4>2. left = taken - L /\ taken \in Nat /\ taken <= decl.cap /\ size = decl.cap - taken
        BY <1>4, <4>1
      <4> HIDE DEF taken, left
      <4>3. left <= decl.cap /\ size' = decl.cap - left
        BY <1>1, <2>1, <4>2
      <4> QED BY <4>3 DEF left
    <3>2. (Place(next, Len(lens)))' = Place(i, n)
      <4>1. (Place(next, Len(lens)))' = Place(next, n - 1)
        BY <1>3, <2>4 DEF Place, m
      <4> QED BY <2>2, <2>5, <4>1
    <3>3. Len(lens') \in Nat
      BY <1>1, <1>8, <2>4
    <3>4. tp' = Place(i, n) * L
      BY <1>2, <1>3
    <3> QED BY <1>3, <1>4, <2>2, <2>3, <2>4, <3>1, <3>2, <3>3, <3>4 DEF PlacesInv, L, m
  <2>7. /\ Tail(Ring(i)) = [k \in 1..n - 1 |-> Ring(i)[k + 1]]
        /\ Head(Ring(i)) = Ring(i)[1] /\ Ring(i) # <<>>
    <3>1. PICK r, places : r = Ring(i) /\ places = n
      OBVIOUS
    <3>2. r = [k \in 1..places |-> r[k]] /\ places \in Nat \ {0}
      BY <1>1, <1>6, <1>8, <3>1
    <3>3. r \in [1..places -> {r[k] : k \in 1..places}]
      BY <3>2
    <3>4. /\ Tail(r) = [k \in 1..places - 1 |-> r[k + 1]]
          /\ Head(r) = r[1] /\ r # <<>>
      BY <3>2, <3>3, TailIs
    <3> QED BY <3>1, <3>4
  <2>8. Stored' = Tail(Stored)
    <3>1. Stored' = Ring(next)'
      BY <1>3, <2>2, <2>3, <2>6, NextStoredRing DEF L, m
    <3>2. Ring(next)' = [k \in 1..n - 1 |->
                          [j \in 1..L |-> mem[Cell(Place(next, k - 1) * L, j - 1)]]]
      BY <1>3, <2>4 DEF Ring, Cell, Place, L, m
    <3>3. ASSUME NEW k \in 1..n - 1 PROVE Place(next, k - 1) = Place(i, (k + 1) - 1)
      BY <1>1, <2>5
    <3> DEFINE R == Ring(i)
    <3>4. Tail(R) = [k \in 1..n - 1 |-> R[k + 1]]
      BY <2>7
    <3>5. ASSUME NEW k \in 1..n - 1
          PROVE  [j \in 1..L |-> mem[Cell(Place(next, k - 1) * L, j - 1)]] = R[k + 1]
      <4>1. k + 1 \in 1..n
        BY <1>1
      <4> QED BY <1>6, <3>3, <4>1
    <3> HIDE DEF R
    <3> QED BY <1>5, <3>1, <3>2, <3>4, <3>5 DEF R
  <2>9. Head(Stored) = [k \in 1..L |-> mem[Cell(bp, k - 1)]] /\ Stored # <<>>
    <3>1. Head(Ring(i)) = Ring(i)[1] /\ Ring(i) # <<>> /\ 1 \in 1..n
      BY <1>1, <1>8, <2>7
    <3>2. Ring(i)[1] = [j \in 1..L |-> mem[Cell(Place(i, 1 - 1) * L, j - 1)]]
      BY <1>6, <3>1
    <3>3. Place(i, 1 - 1) * L = bp
      BY <1>2, <2>5
    <3> QED BY <1>5, <3>1, <3>2, <3>3
  <2> QED BY <1>3, <2>1, <2>6, <2>8, <2>9, Zenon DEF Queue!Pop
<1> QED BY <1>7, <1>8

LEMMA StepMaps ==
  SameLengths /\ PlacesInv /\ [Next]_vars => PlacesInv' /\ [Queue!Next]_(Queue!vars)
<1> SUFFICES ASSUME SameLengths, PlacesInv, [Next]_vars
             PROVE  PlacesInv' /\ [Queue!Next]_(Queue!vars)
  OBVIOUS
<1>1. ASSUME NEW len \in decl.lens, NEW item \in Items(len), Push(item)
      PROVE  PlacesInv' /\ Queue!Next
  <2>1. PlacesInv' /\ decl' = decl /\ Queue!Push(item)
    BY <1>1, PushPreserves
  <2> QED BY <1>1, <2>1 DEF Queue!Next, Items
<1>2. ASSUME NEW len \in decl.lens, lens # <<>> => len = Head(lens), Pop(len)
      PROVE  PlacesInv' /\ Queue!Next
  <2>1. PlacesInv' /\ decl' = decl /\ Queue!Pop
    BY <1>2, PopPreserves
  <2> QED BY <2>1 DEF Queue!Next
<1>3. CASE UNCHANGED vars
  <2>1. PlacesInv'
    <3>1. Len(lens)' = Len(lens) /\ ItemLen' = ItemLen /\ LastPlace' = LastPlace
          /\ \A x, y : Place(x, y)' = Place(x, y)
      BY <1>3 DEF vars, ItemLen, LastPlace, Place
    <3> QED BY <1>3, <3>1 DEF vars, PlacesInv
  <2>2. Stored' = Stored
    BY <1>3 DEF vars, Stored, StartOf, Cell, After
  <2> QED BY <1>3, <2>1, <2>2 DEF vars, Queue!vars
<1> QED BY <1>1, <1>2, <1>3 DEF Next

(* push and pop implement the queue of ItemQueue.tla: for every capacity,   *)
(* every length of the items and every content, each push and pop of the    *)
(* code is one of the queue or is refused where the queue refuses it, and   *)
(* no item is harmed between its push and its pop, whatever wraps.          *)
THEOREM FifoIsQueue == ASSUME SameLengths PROVE Spec => ImplementsQueue
<1>1. Init => PlacesInv /\ Queue!Init
  BY InitMaps
<1>2. PlacesInv /\ [Next]_vars => PlacesInv' /\ [Queue!Next]_(Queue!vars)
  BY StepMaps
<1> QED BY <1>1, <1>2, PTL DEF Spec, ImplementsQueue, Queue!Spec

-----------------------------------------------------------------------------

Pointers == [Nodes -> Nodes \cup {NULL}]
AllLinks == [next : Pointers, prev : Pointers]

(* What Link does, as the proofs below use it. *)
Linked(l, a, b, new) ==
  /\ new \in AllLinks
  /\ new.next[a] = b /\ \A x \in Nodes \ {a} : new.next[x] = l.next[x]
  /\ new.prev[b] = a /\ \A x \in Nodes \ {b} : new.prev[x] = l.prev[x]

LEMMA LinkIs == \A l \in AllLinks, a, b \in Nodes : Linked(l, a, b, Link(l, a, b))
BY DEF Link, AllLinks, Pointers, Linked

LEMMA LinkedLinks == \A l, a, b, new : Linked(l, a, b, new) => new \in AllLinks
BY DEF Linked

(* An operation on a ring of nodes is safe if the nodes it leaves are.      *)
LEMMA InitSound ==
  ASSUME NEW l \in AllLinks, NEW S \in SUBSET Nodes, Sound(l, S), NEW h \in Nodes \ S
  PROVE  INIT_LIST_HEAD(l, h) \in AllLinks /\ Sound(INIT_LIST_HEAD(l, h), S \cup {h})
<1>1. Linked(l, h, h, INIT_LIST_HEAD(l, h))
  BY LinkIs DEF INIT_LIST_HEAD
<1> QED BY <1>1 DEF Sound, Linked

LEMMA DropSound ==
  ASSUME NEW l, NEW S, Sound(l, S), NEW h \in S, l.next[h] = h
  PROVE  Sound(l, S \ {h})
BY DEF Sound

LEMMA AddSound ==
  ASSUME NEW l \in AllLinks, NEW S \in SUBSET Nodes, Sound(l, S),
         NEW e \in Nodes \ S, NEW p \in S
  PROVE  /\ AddBetween(l, e, p, l.next[p]) \in AllLinks
         /\ Sound(AddBetween(l, e, p, l.next[p]), S \cup {e})
<1> DEFINE n == l.next[p]
           l1 == Link(l, e, n)
           l2 == Link(l1, p, e)
<1>1. n \in S /\ n \in Nodes /\ p \in Nodes /\ e # n /\ e # p /\ l.prev[n] = p
  BY DEF Sound
<1> HIDE DEF n
<1>2. Linked(l, e, n, l1)
  BY <1>1, LinkIs
<1> HIDE DEF l1
<1>3. Linked(l1, p, e, l2)
  BY <1>1, <1>2, LinkIs, LinkedLinks
<1> HIDE DEF l2
<1>4. Sound(l2, S \cup {e})
  BY <1>1, <1>2, <1>3 DEF Sound, Linked, n
<1> QED BY <1>3, <1>4 DEF Linked, AddBetween, n, l1, l2

(* Before a node is behind the one in front of it. *)
LEMMA AddTailSound ==
  ASSUME NEW l \in AllLinks, NEW S \in SUBSET Nodes, Sound(l, S),
         NEW e \in Nodes \ S, NEW n \in S
  PROVE  /\ AddBetween(l, e, l.prev[n], n) \in AllLinks
         /\ Sound(AddBetween(l, e, l.prev[n], n), S \cup {e})
<1>1. l.prev[n] \in S /\ l.next[l.prev[n]] = n
  BY DEF Sound
<1> QED BY <1>1, AddSound

LEMMA UnlinkSound ==
  ASSUME NEW l \in AllLinks, NEW S \in SUBSET Nodes, Sound(l, S), NEW e \in S
  PROVE  Unlink(l, e) \in AllLinks /\ Sound(Unlink(l, e), S \ {e})
<1>1. l.prev[e] \in S /\ l.next[e] \in S
  BY DEF Sound
<1> DEFINE l1 == Link(l, l.prev[e], l.next[e])
<1>2. Linked(l, l.prev[e], l.next[e], l1)
  BY <1>1, LinkIs
<1> HIDE DEF l1
<1>3. Sound(l1, S \ {e})
  BY SMTT(30), <1>1, <1>2 DEF Sound, Linked
<1> QED BY <1>2, <1>3 DEF Unlink, l1, Linked

LEMMA PoisonSound ==
  ASSUME NEW l \in AllLinks, NEW S \in SUBSET Nodes, Sound(l, S), NEW e \in Nodes \ S
  PROVE  Poisoned(l, e) \in AllLinks /\ Sound(Poisoned(l, e), S)
BY DEF Poisoned, Sound, AllLinks, Pointers

LEMMA ReplaceSound ==
  ASSUME NEW l \in AllLinks, NEW S \in SUBSET Nodes, Sound(l, S),
         NEW old \in S, NEW new \in Nodes \ S
  PROVE  /\ Replace(l, old, new) \in AllLinks
         /\ Sound(Replace(l, old, new), (S \ {old}) \cup {new})
<1> DEFINE n == l.next[old]
           l1 == Link(l, new, n)
           p == l1.prev[old]
           l2 == Link(l1, p, new)
<1>1. n \in S /\ n \in Nodes /\ new # n /\ l.prev[n] = old
  BY DEF Sound
<1> HIDE DEF n
<1>2. Linked(l, new, n, l1)
  BY <1>1, LinkIs
<1> HIDE DEF l1
<1>3. p = IF old = n THEN new ELSE l.prev[old]
  BY <1>1, <1>2 DEF Linked
<1>4. p \in Nodes
  BY <1>3 DEF Sound
<1> HIDE DEF p
<1>5. Linked(l1, p, new, l2)
  BY <1>2, <1>4, LinkIs, LinkedLinks
<1> HIDE DEF l2
<1>6. Sound(l2, (S \ {old}) \cup {new})
  BY <1>1, <1>2, <1>3, <1>5 DEF Sound, Linked, n
<1> QED BY <1>5, <1>6 DEF Linked, Replace, n, l1, p, l2

LEMMA CutSound ==
  ASSUME NEW l \in AllLinks, NEW S \in SUBSET Nodes, Sound(l, S),
         NEW list \in Nodes \ S, NEW head \in S, NEW entry \in S, entry # head
  PROVE  /\ Cut(l, list, head, entry) \in AllLinks
         /\ Sound(Cut(l, list, head, entry), S \cup {list})
<1> DEFINE f == l.next[head]
           n == l.next[entry]
           l1 == Link(l, list, f)
           l2 == Link(l1, entry, list)
           l3 == Link(l2, head, n)
<1>1. /\ {f, n, head, entry} \subseteq S /\ f # n /\ l.prev[f] = head /\ l.prev[n] = entry
      /\ {f, n, head, entry, list} \subseteq Nodes
  BY DEF Sound
<1> HIDE DEF f, n
<1>2. Linked(l, list, f, l1)
  BY <1>1, LinkIs
<1> HIDE DEF l1
<1>3. Linked(l1, entry, list, l2)
  BY <1>1, <1>2, LinkIs, LinkedLinks
<1> HIDE DEF l2
<1>4. Linked(l2, head, n, l3)
  BY <1>1, <1>3, LinkIs, LinkedLinks
<1> HIDE DEF l3
<1>5. ASSUME NEW x \in S \cup {list}
      PROVE  l3.next[x] \in S \cup {list} /\ l3.prev[l3.next[x]] = x
  BY <1>1, <1>2, <1>3, <1>4 DEF Sound, Linked, f, n
<1>6. ASSUME NEW x \in S \cup {list}
      PROVE  l3.prev[x] \in S \cup {list} /\ l3.next[l3.prev[x]] = x
  BY <1>1, <1>2, <1>3, <1>4 DEF Sound, Linked, f, n
<1>7. Sound(l3, S \cup {list})
  BY <1>5, <1>6 DEF Sound
<1> QED BY <1>4, <1>7 DEF Linked, Cut, f, n, l1, l2, l3

LEMMA SpliceSound ==
  ASSUME NEW l \in AllLinks, NEW S \in SUBSET Nodes, Sound(l, S),
         NEW list \in S, l.next[list] # list, NEW p \in S,
         p # list, l.next[p] # list
  PROVE  /\ SpliceBetween(l, list, p, l.next[p]) \in AllLinks
         /\ Sound(SpliceBetween(l, list, p, l.next[p]), S \ {list})
<1> DEFINE n == l.next[p]
           first == l.next[list]
           last == l.prev[list]
           l1 == Link(l, p, first)
           l2 == Link(l1, last, n)
<1>1. /\ {n, first, last, p} \subseteq S \ {list}
      /\ l.prev[n] = p /\ l.prev[first] = list /\ l.next[last] = list
      /\ p # last /\ n # first
  BY DEF Sound
<1> HIDE DEF n, first, last
<1>2. Linked(l, p, first, l1)
  BY <1>1, LinkIs
<1> HIDE DEF l1
<1>3. Linked(l1, last, n, l2)
  BY <1>1, <1>2, LinkIs, LinkedLinks
<1> HIDE DEF l2
<1>4. Sound(l2, S \ {list})
  <2>1. /\ l2.next[p] = first /\ l2.next[last] = n
        /\ \A x \in Nodes \ {p, last} : l2.next[x] = l.next[x]
    BY <1>1, <1>2, <1>3 DEF Linked
  <2>2. /\ l2.prev[first] = p /\ l2.prev[n] = last
        /\ \A x \in Nodes \ {first, n} : l2.prev[x] = l.prev[x]
    BY <1>1, <1>2, <1>3 DEF Linked
  <2> SUFFICES ASSUME NEW x \in S \ {list}
               PROVE  /\ l2.next[x] \in S \ {list} /\ l2.prev[l2.next[x]] = x
                      /\ l2.prev[x] \in S \ {list} /\ l2.next[l2.prev[x]] = x
    BY DEF Sound
  <2>3. l2.next[x] \in S \ {list} /\ l2.prev[l2.next[x]] = x
    <3>1. CASE x \in {p, last}
      BY <1>1, <2>1, <2>2, <3>1
    <3>2. CASE x \notin {p, last}
      <4>1. /\ l.next[x] \in S /\ l.prev[l.next[x]] = x
            /\ l.next[x] # list /\ l.next[x] \notin {first, n}
        BY <1>1, <3>2 DEF Sound, first, last, n
      <4> QED BY <2>1, <2>2, <3>2, <4>1
    <3> QED BY <3>1, <3>2
  <2>4. l2.prev[x] \in S \ {list} /\ l2.next[l2.prev[x]] = x
    <3>1. CASE x \in {first, n}
      BY <1>1, <2>1, <2>2, <3>1
    <3>2. CASE x \notin {first, n}
      <4>1. /\ l.prev[x] \in S /\ l.next[l.prev[x]] = x
            /\ l.prev[x] # list /\ l.prev[x] \notin {p, last}
        BY <1>1, <3>2 DEF Sound, first, last, n
      <4> QED BY <2>1, <2>2, <3>2, <4>1
    <3> QED BY <3>1, <3>2
  <2> QED BY <2>3, <2>4
<1>5. SpliceBetween(l, list, p, l.next[p]) = l2
  <2>1. l1.next = [l.next EXCEPT ![p] = first]
    BY DEF l1, Link
  <2> QED BY DEF SpliceBetween, n, first, last, l1, l2
<1> QED BY <1>3, <1>4, <1>5 DEF Linked

-----------------------------------------------------------------------------
(* The same operations leave each ring to one head.                         *)
HasOwner(l, S) == \E owner \in [S -> S \cap Heads] : Owned(l, S, owner)

LEMMA OwnedIs ==
  ASSUME NEW l, NEW S, NEW f, Owned(l, S, f)
  PROVE  HasOwner(l, S)
BY DEF HasOwner, Owned

(* All that matters is next, for the nodes in use. *)
LEMMA OwnedKept ==
  ASSUME NEW l, NEW new, NEW S, HasOwner(l, S), \A x \in S : new.next[x] = l.next[x]
  PROVE  HasOwner(new, S)
BY DEF HasOwner, Owned

LEMMA NextOf ==
  ASSUME NEW l \in AllLinks, NEW a \in Nodes, NEW b \in Nodes
  PROVE  /\ Link(l, a, b) \in AllLinks
         /\ Link(l, a, b).next[a] = b
         /\ \A x \in Nodes \ {a} : Link(l, a, b).next[x] = l.next[x]
BY LinkIs DEF Linked

LEMMA InitOwned ==
  ASSUME NEW l \in AllLinks, NEW S \in SUBSET Nodes, Sound(l, S), HasOwner(l, S),
         NEW h \in Heads \ S
  PROVE  HasOwner(INIT_LIST_HEAD(l, h), S \cup {h})
<1>1. PICK f \in [S -> S \cap Heads] : Owned(l, S, f)
  BY DEF HasOwner
<1> DEFINE new == INIT_LIST_HEAD(l, h)
           g == [x \in S \cup {h} |-> IF x = h THEN h ELSE f[x]]
<1>2. new.next[h] = h /\ \A x \in S : new.next[x] = l.next[x] /\ l.next[x] \in S
  BY NextOf DEF INIT_LIST_HEAD, Nodes, Sound
<1> HIDE DEF new
<1>3. Owned(new, S \cup {h}, g)
  BY <1>1, <1>2 DEF Owned
<1> QED BY <1>3, OwnedIs DEF new

LEMMA AddOwned ==
  ASSUME NEW l \in AllLinks, NEW S \in SUBSET Nodes, Sound(l, S), HasOwner(l, S),
         NEW e \in Entries \ S, NEW p \in S, NEW n \in S, l.next[p] = n
  PROVE  HasOwner(AddBetween(l, e, p, n), S \cup {e})
<1>1. PICK f \in [S -> S \cap Heads] : Owned(l, S, f)
  BY DEF HasOwner
<1> DEFINE l1 == Link(l, e, n)
           new == Link(l1, p, e)
           g == [x \in S \cup {e} |-> IF x = e THEN f[p] ELSE f[x]]
<1>2. /\ l1 \in AllLinks /\ l1.next[e] = n
      /\ \A x \in Nodes \ {e} : l1.next[x] = l.next[x]
  BY NextOf DEF Nodes
<1> HIDE DEF l1
<1>3. new.next[p] = e /\ \A x \in Nodes \ {p} : new.next[x] = l1.next[x]
  BY SMTT(30), <1>2, NextOf DEF Nodes
<1> HIDE DEF new
<1>4. /\ new.next[p] = e /\ new.next[e] = n /\ f[n] = f[p]
      /\ \A x \in S \ {p} : new.next[x] = l.next[x] /\ l.next[x] \in S
  BY <1>1, <1>2, <1>3 DEF Owned, Sound, Nodes
<1>5. g \in [S \cup {e} -> (S \cup {e}) \cap Heads] /\ e \notin Heads
  BY NodeAssumption
<1>6. Owned(new, S \cup {e}, g)
  BY <1>1, <1>4, <1>5 DEF Owned
<1> QED BY <1>6, OwnedIs DEF new, l1, AddBetween

LEMMA UnlinkOwned ==
  ASSUME NEW l \in AllLinks, NEW S \in SUBSET Nodes, Sound(l, S), HasOwner(l, S),
         NEW e \in S \cap Entries
  PROVE  HasOwner(Unlink(l, e), S \ {e})
<1>1. PICK f \in [S -> S \cap Heads] : Owned(l, S, f)
  BY DEF HasOwner
<1> DEFINE p == l.prev[e]
           new == Unlink(l, e)
           g == [x \in S \ {e} |-> f[x]]
<1>2. p \in S /\ l.next[p] = e /\ l.next[e] \in S
  BY DEF Sound
<1>3. new.next[p] = l.next[e] /\ \A x \in S \ {p} : new.next[x] = l.next[x]
  <2> DEFINE n == l.next[e]
  <2>1. new = Link(l, p, n) /\ p \in Nodes /\ n \in Nodes
    BY <1>2 DEF Unlink
  <2> HIDE DEF new, p, n
  <2>2. new.next[p] = n /\ \A x \in Nodes \ {p} : new.next[x] = l.next[x]
    BY ZenonT(30), <2>1, NextOf
  <2> QED BY <2>2 DEF n
<1> HIDE DEF new, p
<1>4. \A x \in S \ {e} : /\ new.next[x] = IF x = p THEN l.next[e] ELSE l.next[x]
                         /\ x # p => l.next[x] \in S \ {e}
                         /\ x = p => l.next[e] # e
  BY <1>2, <1>3 DEF Sound, p
<1>5. \A x \in S : f[l.next[x]] = f[x]
  BY <1>1 DEF Owned
<1>6. \A x \in S \ {e} : new.next[x] \in S \ {e} /\ f[new.next[x]] = f[x]
  BY <1>2, <1>4, <1>5
<1>7. e \notin Heads
  BY NodeAssumption
<1>8. Owned(new, S \ {e}, g)
  BY <1>1, <1>6, <1>7 DEF Owned
<1> QED BY <1>8, OwnedIs DEF new

LEMMA DropOwned ==
  ASSUME NEW l \in AllLinks, NEW S \in SUBSET Nodes, Sound(l, S), HasOwner(l, S),
         NEW h \in S, l.next[h] = h, NEW other \in S \cap Heads, other # h
  PROVE  HasOwner(l, S \ {h})
<1>1. PICK f \in [S -> S \cap Heads] : Owned(l, S, f)
  BY DEF HasOwner
<1> DEFINE g == [x \in S \ {h} |-> IF f[x] = h THEN other ELSE f[x]]
<1>2. \A x \in S \ {h} : l.next[x] \in S \ {h}
  BY DEF Sound
<1>3. Owned(l, S \ {h}, g)
  BY <1>1, <1>2 DEF Owned
<1> QED BY <1>3, OwnedIs

LEMMA ReplaceOwned ==
  ASSUME NEW l \in AllLinks, NEW S \in SUBSET Nodes, Sound(l, S), HasOwner(l, S),
         NEW old \in S, NEW new \in Nodes \ S, old \in Heads <=> new \in Heads
  PROVE  HasOwner(Replace(l, old, new), (S \ {old}) \cup {new})
<1>1. PICK f \in [S -> S \cap Heads] : Owned(l, S, f)
  BY DEF HasOwner
<1> DEFINE n == l.next[old]
           l1 == Link(l, new, n)
           p == l1.prev[old]
           l2 == Link(l1, p, new)
           T == (S \ {old}) \cup {new}
           label(h) == IF h = old THEN new ELSE h
           g == [x \in T |-> IF x = new THEN label(f[old]) ELSE label(f[x])]
<1>2. n \in S /\ n \in Nodes /\ new # n /\ l.prev[n] = old
  BY DEF Sound
<1> HIDE DEF n
<1>3. Linked(l, new, n, l1)
  BY <1>2, LinkIs
<1> HIDE DEF l1
<1>4. p = IF old = n THEN new ELSE l.prev[old]
  BY <1>2, <1>3 DEF Linked
<1>5. p \in Nodes /\ (old # n => p \in S \ {old} /\ l.next[p] = old)
  BY <1>4 DEF Sound, n
<1> HIDE DEF p
<1>6. Linked(l1, p, new, l2)
  BY <1>3, <1>5, LinkIs, LinkedLinks
<1> HIDE DEF l2
<1>7. \A x \in S \ {old} : l2.next[x] = IF l.next[x] = old THEN new ELSE l.next[x]
  <2> SUFFICES ASSUME NEW x \in S \ {old}
               PROVE  l2.next[x] = IF l.next[x] = old THEN new ELSE l.next[x]
    OBVIOUS
  <2>1. l1.next[x] = l.next[x]
    BY <1>3 DEF Linked
  <2>2. x = p <=> l.next[x] = old
    BY <1>4, <1>5 DEF Sound, n
  <2> QED BY <1>6, <2>1, <2>2 DEF Linked
<1>8. l2.next[new] = IF n = old THEN new ELSE n
  BY <1>2, <1>3, <1>4, <1>5, <1>6 DEF Linked
<1>9. \A x \in S : f[l.next[x]] = f[x] /\ l.next[x] \in S /\ f[x] \in S \cap Heads
  BY <1>1 DEF Owned, Sound
<1>10. g \in [T -> T \cap Heads]
  BY <1>9
<1>11. \A h \in T \cap Heads : g[h] = h
  BY <1>1 DEF Owned
<1>12. \A x \in T : g[l2.next[x]] = g[x]
  <2> SUFFICES ASSUME NEW x \in T PROVE g[l2.next[x]] = g[x]
    OBVIOUS
  <2>1. CASE x = new
    BY <1>2, <1>8, <1>9, <2>1 DEF n
  <2>2. CASE x # new
    BY <1>7, <1>9, <2>2
  <2> QED BY <2>1, <2>2
<1> HIDE DEF T, g
<1>13. Owned(l2, T, g)
  BY <1>10, <1>11, <1>12 DEF Owned
<1> QED BY <1>13, OwnedIs DEF Replace, T, l2, p, l1, n

LEMMA SpliceOwned ==
  ASSUME NEW l \in AllLinks, NEW S \in SUBSET Nodes, Sound(l, S), HasOwner(l, S),
         NEW list \in S \cap Heads, NEW head \in S \cap Heads, list # head,
         l.next[list] # list, NEW p \in S, NEW n \in S, l.next[p] = n,
         p = head \/ n = head, n # list, p # list
  PROVE  HasOwner(SpliceBetween(l, list, p, n), S \ {list})
<1>1. PICK f \in [S -> S \cap Heads] : Owned(l, S, f)
  BY DEF HasOwner
<1> DEFINE first == l.next[list]
           last == l.prev[list]
           l1 == Link(l, p, first)
           new == Link(l1, last, n)
           T == S \ {list}
           g == [x \in T |-> IF f[x] = list THEN head ELSE f[x]]
<1>2. /\ first \in T /\ last \in T /\ l.next[last] = list /\ p # last
  BY DEF Sound
<1>3. f[first] = list /\ f[last] = list /\ f[p] = head /\ f[n] = head
  BY <1>1, <1>2 DEF Owned
<1> HIDE DEF first, last
<1>4. /\ l1 \in AllLinks /\ l1.next[p] = first
      /\ \A x \in Nodes \ {p} : l1.next[x] = l.next[x]
  BY <1>2, NextOf
<1> HIDE DEF l1
<1>5. new.next[last] = n /\ \A x \in Nodes \ {last} : new.next[x] = l1.next[x]
  BY <1>2, <1>4, NextOf
<1> HIDE DEF new
<1>6. \A x \in T : /\ new.next[x] = IF x = last THEN n ELSE IF x = p THEN first ELSE l.next[x]
                   /\ x # last => l.next[x] \in T
  BY <1>2, <1>4, <1>5 DEF Sound, last
<1>7. \A x \in S : f[l.next[x]] = f[x] /\ f[x] \in S \cap Heads
  BY <1>1 DEF Owned
<1>8. \A x \in T : g[new.next[x]] = g[x]
  BY <1>2, <1>3, <1>6, <1>7
<1>9. g \in [T -> T \cap Heads] /\ \A h \in T \cap Heads : g[h] = h
  BY <1>1 DEF Owned
<1> HIDE DEF T, g
<1>10. Owned(new, T, g)
  BY <1>8, <1>9 DEF Owned
<1>11. SpliceBetween(l, list, p, n) = new
  <2>1. l1.prev[list] = last
    <3>1. l1.prev = [l.prev EXCEPT ![first] = p] /\ first # list
      BY <1>2 DEF l1, Link, T
    <3>2. list \in Nodes /\ l.prev \in Pointers
      BY DEF AllLinks
    <3> QED BY <3>1, <3>2 DEF last, Pointers
  <2> QED BY <2>1 DEF SpliceBetween, new, l1, first, last
<1> QED BY <1>10, <1>11, OwnedIs DEF T

-----------------------------------------------------------------------------
(* The way along next from a head comes back to it, after every entry of    *)
(* the ring and no other node.                                              *)

LEMMA Induct ==
  ASSUME NEW S, 0 \in S, \A n \in Nat : n \in S => n + 1 \in S
  PROVE  Nat \subseteq S
<1> SUFFICES ASSUME Nat \ S # {} PROVE FALSE
  OBVIOUS
<1>1. PICK x \in Nat \ S : \A y \in Nat \ S : ~(<<y, x>> \in OpToRel(<, Nat))
  <2> DEFINE T == Nat \ S
  <2>1. T \in SUBSET Nat /\ T # {}
    OBVIOUS
  <2> HIDE DEF T
  <2>2. \E x \in T : \A y \in T : ~(<<y, x>> \in OpToRel(<, Nat))
    BY <2>1, NatLessThanWellFounded, WFMin
  <2> QED BY <2>2 DEF T
<1>2. x - 1 \in Nat /\ (x - 1) + 1 = x /\ x - 1 < x
  OBVIOUS
<1>3. <<x - 1, x>> \in OpToRel(<, Nat)
  BY <1>2, Zenon DEF OpToRel
<1> QED BY <1>1, <1>2, <1>3

IsWay(f, l, h, n) ==
  f = [k \in 0..n |-> IF k = 0 THEN h ELSE IF f[k - 1] \in Nodes THEN l.next[f[k - 1]] ELSE NULL]

LEMMA WayExists ==
  ASSUME NEW l, NEW h, NEW n \in Nat
  PROVE  \E f : IsWay(f, l, h, n)
<1> DEFINE S == {i \in Nat : \E f : IsWay(f, l, h, i)}
           NodeAfter(x) == IF x \in Nodes THEN l.next[x] ELSE NULL
<1>1. 0 \in S
  <2>1. IsWay([k \in 0..0 |-> h], l, h, 0)
    BY DEF IsWay
  <2> QED BY <2>1
<1>2. ASSUME NEW i \in Nat, i \in S PROVE i + 1 \in S
  <2>1. PICK f : IsWay(f, l, h, i)
    BY <1>2
  <2> DEFINE g == [k \in 0 .. i + 1 |-> IF k = i + 1 THEN NodeAfter(f[i]) ELSE f[k]]
  <2>2. ASSUME NEW k \in 0 .. i + 1 PROVE g[k] = IF k = 0 THEN h ELSE NodeAfter(g[k - 1])
    <3>1. CASE k = i + 1
      BY <3>1
    <3>2. CASE k # i + 1
      <4>1. k \in 0..i /\ g[k] = f[k] /\ (k # 0 => g[k - 1] = f[k - 1])
        BY <3>2
      <4>2. f[k] = IF k = 0 THEN h ELSE NodeAfter(f[k - 1])
        BY <2>1, <4>1 DEF IsWay
      <4> QED BY <4>1, <4>2
    <3> QED BY <3>1, <3>2
  <2>3. IsWay(g, l, h, i + 1)
    BY <2>2 DEF IsWay
  <2> HIDE DEF g
  <2> QED BY <2>3
<1> HIDE DEF S
<1>3. n \in S
  BY <1>1, <1>2, Induct
<1> QED BY <1>3 DEF S

(* s has the entries of the ring of h in order. *)
RingIs(l, S, h, s) ==
  /\ s \in Seq(S \cap Entries) /\ IsInjective(s)
  /\ l.next[h] = IF Len(s) = 0 THEN h ELSE s[1]
  /\ \A k \in 1..Len(s) : l.next[s[k]] = IF k = Len(s) THEN h ELSE s[k + 1]

Good(l, S) == l \in AllLinks /\ S \in SUBSET Nodes /\ Sound(l, S) /\ HasOwner(l, S)

(* Two places of the way at one node are a round apart. *)
LEMMA Rounds ==
  ASSUME Good(links, live), NEW n \in Nat, NEW step, NEW h \in Ready,
         IsWay(step, links, h, n), \A k \in 0..n : step[k] \in live
  PROVE  \A i, j \in 0..n : i < j /\ step[i] = step[j] => step[j - i] = h
<1>1. step[0] = h /\ \A k \in 1..n : links.next[step[k - 1]] = step[k]
  <2>1. \A k \in 0..n : step[k] = IF k = 0 THEN h ELSE IF step[k - 1] \in Nodes
                                    THEN links.next[step[k - 1]] ELSE NULL
    BY DEF IsWay
  <2>2. \A k \in 1..n : k - 1 \in 0..n /\ step[k - 1] \in Nodes
    BY DEF Good
  <2> QED BY <2>1, <2>2
<1>2. \A k \in 1..n : links.prev[step[k]] = step[k - 1]
  <2> SUFFICES ASSUME NEW k \in 1..n PROVE links.prev[step[k]] = step[k - 1]
    OBVIOUS
  <2>1. k - 1 \in 0..n
    OBVIOUS
  <2> QED BY <1>1, <2>1 DEF Good, Sound
<1> DEFINE T == {i \in Nat : \A j \in 0..n : i < j /\ step[i] = step[j] => step[j - i] = h}
<1>3. 0 \in T
  BY <1>1
<1>4. ASSUME NEW i \in Nat, i \in T PROVE i + 1 \in T
  <2> SUFFICES ASSUME NEW j \in 0..n, i + 1 < j, step[i + 1] = step[j]
               PROVE  step[j - (i + 1)] = h
    OBVIOUS
  <2>1. i + 1 \in 1..n /\ j \in 1..n /\ (i + 1) - 1 = i
    OBVIOUS
  <2>2. step[i] = step[j - 1]
    BY <1>2, <2>1
  <2>3. j - 1 \in 0..n /\ i < j - 1 /\ (j - 1) - i = j - (i + 1)
    BY <2>1
  <2> QED BY <1>4, <2>2, <2>3
<1> HIDE DEF T
<1>5. Nat \subseteq T
  BY <1>3, <1>4, Induct
<1> QED BY <1>5 DEF T

LEMMA ContentsRing ==
  ASSUME Good(links, live), NEW h \in Ready
  PROVE  RingIs(links, live, h, Contents(h))
<1> DEFINE n == Cardinality(Entries) + 1
           step == CHOOSE f : IsWay(f, links, h, n)
           back == {k \in 1..n : step[k] = h}
           m == CHOOSE k \in back : \A j \in back : k <= j
           len == IF back = {} THEN Cardinality(Entries) ELSE m - 1
           s == [k \in 1..len |-> step[k]]
<1>1. n \in Nat /\ Cardinality(Entries) \in Nat
  BY NodeAssumption, FS_CardinalityType
<1>2. Contents(h) = s
  BY DEF Contents, IsWay
<1>3. IsWay(step, links, h, n)
  BY <1>1, WayExists
<1> HIDE DEF step
<1>4. PICK owner \in [live -> live \cap Heads] : Owned(links, live, owner)
  BY DEF Good, HasOwner
<1>5. \A k \in 0..n : step[k] = IF k = 0 THEN h ELSE IF step[k - 1] \in Nodes
                                   THEN links.next[step[k - 1]] ELSE NULL
  BY <1>3 DEF IsWay
<1>6. \A k \in 0..n : step[k] \in live /\ owner[step[k]] = h
  <2> DEFINE T == {k \in Nat : k <= n => step[k] \in live /\ owner[step[k]] = h}
  <2>1. 0 \in T
    BY <1>1, <1>4, <1>5 DEF Owned, Ready
  <2>2. ASSUME NEW k \in Nat, k \in T PROVE k + 1 \in T
    <3> SUFFICES ASSUME k + 1 <= n PROVE step[k + 1] \in live /\ owner[step[k + 1]] = h
      OBVIOUS
    <3>1. k + 1 \in 0..n /\ k + 1 # 0 /\ (k + 1) - 1 = k /\ step[k] \in live /\ owner[step[k]] = h
      BY <1>1, <2>2
    <3>2. step[k + 1] = links.next[step[k]]
      BY <1>5, <3>1 DEF Good
    <3> QED BY <1>4, <3>1, <3>2 DEF Good, Sound, Owned
  <2> HIDE DEF T
  <2>3. Nat \subseteq T
    BY <2>1, <2>2, Induct
  <2> QED BY <1>1, <2>3 DEF T
<1>7. \A k \in 0..n : step[k] = h \/ step[k] \in live \cap Entries
  BY <1>4, <1>6 DEF Good, Owned, Nodes
<1>8. \A i, j \in 0..n : i < j /\ step[i] = step[j] => step[j - i] = h
  BY <1>1, <1>3, <1>6, Rounds
<1>9. back # {}
  <2> SUFFICES ASSUME back = {} PROVE FALSE
    OBVIOUS
  <2> DEFINE f == [k \in 1..n |-> step[k]]
  <2>1. \A k \in 1..n : step[k] \in Entries
    BY <1>1, <1>7
  <2>2. \A i, j \in 1..n : step[i] = step[j] => i = j
    <3> SUFFICES ASSUME NEW i \in 1..n, NEW j \in 1..n, step[i] = step[j], i < j PROVE FALSE
      BY <1>1
    <3>1. i \in 0..n /\ j \in 0..n /\ j - i \in 1..n
      BY <1>1
    <3> QED BY <1>8, <3>1
  <2>3. f \in Injection(1..n, Entries)
    BY <2>1, <2>2 DEF Injection, IsInjective
  <2>4. Cardinality(1..n) <= Cardinality(Entries)
    BY <2>3, NodeAssumption, FS_Injection
  <2>5. Cardinality(1..n) = n
    BY <1>1, FS_Interval
  <2> QED BY <1>1, <2>4, <2>5
<1>10. m \in 1..n /\ step[m] = h /\ \A j \in 1 .. m - 1 : step[j] # h
  <2>1. back \in SUBSET Nat
    OBVIOUS
  <2> HIDE DEF back
  <2>2. m \in back /\ \A j \in back : m <= j
    BY <1>9, <2>1, LeastNat
  <2> HIDE DEF m
  <2> QED BY <1>1, <2>2 DEF back
<1>11. s = [k \in 1 .. m - 1 |-> step[k]]
  BY <1>9
<1> HIDE DEF back, m, s, n
<1>12. \A k \in 1 .. m - 1 : s[k] = step[k] /\ step[k] \in live \cap Entries
  <2> SUFFICES ASSUME NEW k \in 1 .. m - 1 PROVE s[k] = step[k] /\ step[k] \in live \cap Entries
    OBVIOUS
  <2>1. k \in 0..n
    BY <1>1, <1>10
  <2> QED BY <1>7, <1>10, <1>11, <2>1
<1>13. s \in Seq(live \cap Entries) /\ Len(s) = m - 1 /\ m - 1 \in Nat
  BY <1>1, <1>10, <1>11, <1>12
<1>14. IsInjective(s)
  <2> SUFFICES ASSUME NEW i \in 1 .. m - 1, NEW j \in 1 .. m - 1, s[i] = s[j], i < j PROVE FALSE
    BY <1>11, <1>13 DEF IsInjective
  <2>1. i \in 0..n /\ j \in 0..n /\ j - i \in 1 .. m - 1
    BY <1>1, <1>10
  <2> QED BY <1>8, <1>10, <1>12, <2>1
<1>15. \A k \in 1..m : step[k] = links.next[step[k - 1]]
  <2> SUFFICES ASSUME NEW k \in 1..m PROVE step[k] = links.next[step[k - 1]]
    OBVIOUS
  <2>1. k \in 0..n /\ k - 1 \in 0..n
    BY <1>1, <1>10
  <2> QED BY <1>5, <1>6, <2>1 DEF Good
<1>16. links.next[h] = IF Len(s) = 0 THEN h ELSE s[1]
  <2>1. step[0] = h /\ 1 \in 1..m /\ step[1] = links.next[step[0]]
    BY <1>1, <1>5, <1>10, <1>15
  <2> QED BY <1>10, <1>12, <1>13, <2>1
<1>17. ASSUME NEW k \in 1..Len(s) PROVE links.next[s[k]] = IF k = Len(s) THEN h ELSE s[k + 1]
  <2>1. k + 1 \in 1..m /\ (k + 1) - 1 = k /\ s[k] = step[k]
    BY <1>1, <1>10, <1>12, <1>13
  <2>2. links.next[s[k]] = step[k + 1]
    BY <1>15, <2>1
  <2> QED BY <1>10, <1>12, <1>13, <2>2
<1> QED BY <1>2, <1>13, <1>14, <1>16, <1>17 DEF RingIs

LEMMA RingPrev ==
  ASSUME NEW l, NEW S, Sound(l, S), NEW h \in S, NEW s, RingIs(l, S, h, s)
  PROVE  /\ l.prev[h] = IF Len(s) = 0 THEN h ELSE s[Len(s)]
         /\ \A k \in 1..Len(s) : l.prev[s[k]] = IF k = 1 THEN h ELSE s[k - 1]
<1>1. Len(s) \in Nat /\ \A k \in 1..Len(s) : s[k] \in S
  BY ElementOfSeq DEF RingIs
<1>2. l.prev[h] = IF Len(s) = 0 THEN h ELSE s[Len(s)]
  <2>1. CASE Len(s) = 0
    BY <2>1 DEF Sound, RingIs
  <2>2. CASE Len(s) # 0
    <3>1. Len(s) \in 1..Len(s)
      BY <1>1, <2>2
    <3> QED BY <1>1, <2>2, <3>1 DEF Sound, RingIs
  <2> QED BY <2>1, <2>2
<1>3. ASSUME NEW k \in 1..Len(s) PROVE l.prev[s[k]] = IF k = 1 THEN h ELSE s[k - 1]
  <2>1. CASE k = 1
    BY <2>1 DEF Sound, RingIs
  <2>2. CASE k # 1
    <3>1. k - 1 \in 1..Len(s) /\ k - 1 # Len(s) /\ (k - 1) + 1 = k
      BY <1>1, <2>2
    <3>2. l.next[s[k - 1]] = s[k]
      BY <3>1 DEF RingIs
    <3> QED BY <1>1, <2>2, <3>1, <3>2 DEF Sound
  <2> QED BY <2>1, <2>2
<1> QED BY <1>2, <1>3

LEMMA RingOwned ==
  ASSUME NEW l, NEW S, NEW f, Owned(l, S, f), NEW h \in S \cap Heads, NEW s, RingIs(l, S, h, s)
  PROVE  \A k \in 1..Len(s) : f[s[k]] = h
<1> DEFINE T == {k \in Nat : k \in 1..Len(s) => f[s[k]] = h}
<1>1. Len(s) \in Nat /\ \A k \in 1..Len(s) : s[k] \in S
  BY ElementOfSeq DEF RingIs
<1>2. 0 \in T
  OBVIOUS
<1>3. ASSUME NEW k \in Nat, k \in T PROVE k + 1 \in T
  <2> SUFFICES ASSUME k + 1 \in 1..Len(s) PROVE f[s[k + 1]] = h
    OBVIOUS
  <2>1. CASE k = 0
    <3>1. l.next[h] = s[1] /\ f[h] = h
      BY <2>1 DEF RingIs, Owned
    <3> QED BY <2>1, <3>1 DEF Owned
  <2>2. CASE k # 0
    <3>1. k \in 1..Len(s) /\ k # Len(s)
      BY <1>1, <2>2
    <3>2. l.next[s[k]] = s[k + 1] /\ s[k] \in S /\ f[s[k]] = h
      BY <1>1, <1>3, <3>1 DEF RingIs
    <3> QED BY <3>2 DEF Owned
  <2> QED BY <2>1, <2>2
<1> HIDE DEF T
<1>4. Nat \subseteq T
  BY <1>2, <1>3, Induct
<1> QED BY <1>1, <1>4 DEF T

LEMMA CutOwned ==
  ASSUME NEW l \in AllLinks, NEW S \in SUBSET Nodes, Sound(l, S), HasOwner(l, S),
         NEW list \in Heads \ S, NEW head \in S \cap Heads, NEW s, RingIs(l, S, head, s),
         NEW k \in 1..Len(s)
  PROVE  HasOwner(Cut(l, list, head, s[k]), S \cup {list})
<1>1. PICK f \in [S -> S \cap Heads] : Owned(l, S, f)
  BY DEF HasOwner
<1> DEFINE entry == s[k]
           n == l.next[entry]
           first == l.next[head]
           l1 == Link(l, list, first)
           l2 == Link(l1, entry, list)
           new == Link(l2, head, n)
           seg == {s[j] : j \in 1..k}
           T == S \cup {list}
           g == [x \in T |-> IF x \in seg \cup {list} THEN list ELSE f[x]]
<1>2. /\ Len(s) \in Nat /\ k \in Nat /\ 1 <= k /\ k <= Len(s)
      /\ \A j \in 1..Len(s) : s[j] \in S \cap Entries /\ f[s[j]] = head
  BY <1>1, RingOwned, ElementOfSeq DEF RingIs
<1>3. /\ l.next[head] = s[1] /\ n = IF k = Len(s) THEN head ELSE s[k + 1]
      /\ \A j \in 1 .. k - 1 : l.next[s[j]] = s[j + 1]
      /\ \A j \in 1..k : l.prev[s[j]] = IF j = 1 THEN head ELSE s[j - 1]
  <2>1. /\ l.next[head] = s[1]
        /\ \A j \in 1..Len(s) : l.next[s[j]] = IF j = Len(s) THEN head ELSE s[j + 1]
    BY <1>2 DEF RingIs
  <2>2. \A j \in 1..Len(s) : l.prev[s[j]] = IF j = 1 THEN head ELSE s[j - 1]
    BY RingPrev
  <2>3. n = IF k = Len(s) THEN head ELSE s[k + 1]
    BY <2>1
  <2>4. \A j \in 1 .. k - 1 : j \in 1..Len(s) /\ j # Len(s)
    BY <1>2
  <2>5. \A j \in 1..k : j \in 1..Len(s)
    BY <1>2
  <2> HIDE DEF n
  <2> QED BY <2>1, <2>2, <2>3, <2>4, <2>5
<1>4. s[1] \in seg /\ entry \in seg /\ seg \subseteq S \cap Entries /\ seg \cap Heads = {}
  BY <1>2, NodeAssumption
<1>5. n \in S /\ n \notin seg /\ f[n] = head
  <2>1. \A j \in 1..k : k + 1 \in 1..Len(s) => s[j] # s[k + 1]
    BY <1>2 DEF RingIs, IsInjective
  <2>2. CASE k = Len(s)
    BY <1>1, <1>3, <1>4, <2>2 DEF Owned
  <2>3. CASE k # Len(s)
    BY <1>2, <1>3, <2>1, <2>3
  <2> QED BY <2>2, <2>3
<1>6. \A x \in S : l.next[x] \in S /\ f[l.next[x]] = f[x] /\ f[x] \in S \cap Heads
  BY <1>1 DEF Sound, Owned
<1>7. \A x \in S : l.next[x] \in seg => x \in seg \cup {head}
  <2> SUFFICES ASSUME NEW x \in S, NEW j \in 1..k, l.next[x] = s[j] PROVE x \in seg \cup {head}
    OBVIOUS
  <2>1. l.prev[s[j]] = x
    BY DEF Sound
  <2>2. j # 1 => j - 1 \in 1..k
    BY <1>2
  <2> QED BY <1>3, <2>1, <2>2
<1>8. \A x \in seg : x # entry => l.next[x] \in seg
  <2> SUFFICES ASSUME NEW j \in 1..k, s[j] # entry PROVE l.next[s[j]] \in seg
    OBVIOUS
  <2>1. j \in 1 .. k - 1 /\ j + 1 \in 1..k
    BY <1>2
  <2> QED BY <1>3, <2>1
<1>9. {entry, n, first, list, head} \subseteq Nodes /\ first = s[1]
  BY <1>3, <1>4, <1>5 DEF Nodes
<1> HIDE DEF entry, n, first, seg
<1>10. /\ l1 \in AllLinks /\ l1.next[list] = s[1]
      /\ \A x \in Nodes \ {list} : l1.next[x] = l.next[x]
  <2>1. list \in Nodes /\ first \in Nodes
    BY <1>9
  <2>2. /\ l1 \in AllLinks /\ l1.next[list] = first
        /\ \A x \in Nodes \ {list} : l1.next[x] = l.next[x]
    BY <2>1, NextOf
  <2> QED BY <1>9, <2>2
<1> HIDE DEF l1
<1>11. /\ l2 \in AllLinks /\ l2.next[entry] = list
       /\ \A x \in Nodes \ {entry} : l2.next[x] = l1.next[x]
  BY <1>9, <1>10, NextOf
<1> HIDE DEF l2
<1>12. new.next[head] = n /\ \A x \in Nodes \ {head} : new.next[x] = l2.next[x]
  BY <1>9, <1>11, NextOf
<1> HIDE DEF new
<1>13. /\ new.next[list] = s[1] /\ new.next[entry] = list /\ new.next[head] = n
       /\ \A x \in S \ {head, entry} : new.next[x] = l.next[x]
  BY <1>4, <1>10, <1>11, <1>12, NodeAssumption DEF Nodes
<1>14. \A x \in T : g[new.next[x]] = g[x]
  <2> SUFFICES ASSUME NEW x \in T PROVE g[new.next[x]] = g[x]
    OBVIOUS
  <2>1. CASE x \in {list, entry}
    BY <1>4, <1>13, <2>1
  <2>2. CASE x = head
    <3>1. f[head] = head /\ head \notin seg
      BY <1>1, <1>4 DEF Owned
    <3> QED BY <1>5, <1>13, <2>2, <3>1
  <2>3. CASE x \in seg \ {entry}
    BY <1>4, <1>8, <1>13, <2>3
  <2>4. CASE x \in S \ (seg \cup {head})
    BY <1>4, <1>6, <1>7, <1>13, <2>4
  <2> QED BY <2>1, <2>2, <2>3, <2>4
<1>15. g \in [T -> T \cap Heads] /\ \A h \in T \cap Heads : g[h] = h
  BY <1>1, <1>4, <1>6 DEF Owned
<1> HIDE DEF T, g
<1>16. Owned(new, T, g)
  BY <1>14, <1>15 DEF Owned
<1> QED BY <1>16, OwnedIs DEF Cut, T, new, l2, l1, n, entry, first

-----------------------------------------------------------------------------
(* What the operations leave of both.                                       *)

LEMMA InitGood ==
  ASSUME NEW l, NEW S, Good(l, S), NEW h \in Heads \ S
  PROVE  Good(INIT_LIST_HEAD(l, h), S \cup {h})
BY InitSound, InitOwned DEF Good, Nodes

(* A node that is not in use matters to no ring. *)
LEMMA ApartGood ==
  ASSUME NEW l, NEW S, Good(l, S), NEW e \in Nodes \ S
  PROVE  Good(INIT_LIST_HEAD(l, e), S) /\ Good(Poisoned(l, e), S)
<1>1. Linked(l, e, e, INIT_LIST_HEAD(l, e))
  BY LinkIs DEF INIT_LIST_HEAD, Good
<1>2. INIT_LIST_HEAD(l, e) \in AllLinks /\ Sound(INIT_LIST_HEAD(l, e), S)
  BY <1>1 DEF Good, Sound, Linked
<1>3. HasOwner(INIT_LIST_HEAD(l, e), S)
  BY <1>1, OwnedKept DEF Good, Linked
<1>4. Poisoned(l, e) \in AllLinks /\ Sound(Poisoned(l, e), S)
  BY PoisonSound DEF Good
<1>5. \A x \in S : Poisoned(l, e).next[x] = l.next[x]
  BY DEF Poisoned, Good, AllLinks, Pointers
<1>6. HasOwner(Poisoned(l, e), S)
  BY <1>5, OwnedKept DEF Good
<1> QED BY <1>2, <1>3, <1>4, <1>6 DEF Good

LEMMA AddGood ==
  ASSUME NEW l, NEW S, Good(l, S), NEW e \in Entries \ S, NEW p \in S
  PROVE  /\ Good(AddBetween(l, e, p, l.next[p]), S \cup {e})
         /\ Good(AddBetween(l, e, l.prev[p], p), S \cup {e})
<1>1. /\ l.next[p] \in S /\ l.prev[p] \in S /\ l.next[l.prev[p]] = p
      /\ e \in Nodes \ S /\ S \cup {e} \in SUBSET Nodes
  BY DEF Good, Sound, Nodes
<1>2. Good(AddBetween(l, e, p, l.next[p]), S \cup {e})
  BY <1>1, AddSound, AddOwned DEF Good
<1>3. Good(AddBetween(l, e, l.prev[p], p), S \cup {e})
  BY <1>1, AddTailSound, AddOwned DEF Good
<1> QED BY <1>2, <1>3

LEMMA UnlinkGood ==
  ASSUME NEW l, NEW S, Good(l, S), NEW e \in S \cap Entries
  PROVE  Good(Unlink(l, e), S \ {e})
BY UnlinkSound, UnlinkOwned DEF Good

LEMMA DropGood ==
  ASSUME NEW l, NEW S, Good(l, S), NEW h \in S, l.next[h] = h,
         NEW other \in S \cap Heads, other # h
  PROVE  Good(l, S \ {h})
BY DropSound, DropOwned DEF Good

LEMMA ReplaceGood ==
  ASSUME NEW l, NEW S, Good(l, S), NEW old \in S, NEW new \in Nodes \ S,
         old \in Heads <=> new \in Heads
  PROVE  Good(Replace(l, old, new), (S \ {old}) \cup {new})
BY ReplaceSound, ReplaceOwned DEF Good

LEMMA CutGood ==
  ASSUME NEW l, NEW S, Good(l, S), NEW list \in Heads \ S, NEW head \in S \cap Heads,
         NEW s, RingIs(l, S, head, s), NEW k \in 1..Len(s)
  PROVE  Good(Cut(l, list, head, s[k]), S \cup {list})
<1>1. s[k] \in S /\ s[k] # head
  BY ElementOfSeq, NodeAssumption DEF RingIs
<1> QED BY <1>1, CutSound, CutOwned DEF Good, Nodes

LEMMA SpliceGood ==
  ASSUME NEW l, NEW S, Good(l, S), NEW list \in S \cap Heads, NEW head \in S \cap Heads,
         list # head, l.next[list] # list, l.next[head] # list, l.prev[head] # list
  PROVE  /\ Good(SpliceBetween(l, list, head, l.next[head]), S \ {list})
         /\ Good(SpliceBetween(l, list, l.prev[head], head), S \ {list})
<1>1. /\ l.next[head] \in S /\ l.prev[head] \in S /\ l.next[l.prev[head]] = head
      /\ l \in AllLinks /\ S \in SUBSET Nodes /\ S \ {list} \in SUBSET Nodes
      /\ Sound(l, S) /\ HasOwner(l, S)
  BY DEF Good, Sound
<1>2. Good(SpliceBetween(l, list, head, l.next[head]), S \ {list})
  <2>1. HasOwner(SpliceBetween(l, list, head, l.next[head]), S \ {list})
    BY <1>1, SpliceOwned
  <2> QED BY <1>1, <2>1, SpliceSound DEF Good
<1>3. Good(SpliceBetween(l, list, l.prev[head], head), S \ {list})
  <2>1. HasOwner(SpliceBetween(l, list, l.prev[head], head), S \ {list})
    BY <1>1, SpliceOwned
  <2> QED BY <1>1, <2>1, SpliceSound DEF Good
<1> QED BY <1>2, <1>3

-----------------------------------------------------------------------------
RingsInv == Good(links, live)

LEMMA RingsInit == ListsInit => RingsInv
<1> SUFFICES ASSUME ListsInit PROVE RingsInv
  OBVIOUS
<1>1. links \in AllLinks /\ live \in SUBSET Nodes /\ Sound(links, live)
  BY DEF ListsInit, AllLinks, Pointers, Sound
<1>2. Owned(links, live, [x \in {} |-> NULL])
  BY DEF ListsInit, Owned
<1> QED BY <1>1, <1>2, OwnedIs DEF RingsInv, Good

LEMMA AddHolds ==
  ASSUME RingsInv, NEW e \in Entries, NEW pos \in Nodes, Add(e, pos) \/ Insert(e, pos)
  PROVE  RingsInv'
<1>1. e \in Entries \ live /\ pos \in live /\ live' = live \cup {e}
  BY DEF Add, Insert, Ready
<1>2. \/ links' = AddBetween(links, e, pos, links.next[pos])
      \/ links' = AddBetween(links, e, links.prev[pos], pos)
  BY DEF Add, Insert, Do, ListAdd, ListAddTail
<1> QED BY <1>1, <1>2, AddGood DEF RingsInv

LEMMA MoveHolds ==
  ASSUME RingsInv, NEW e \in Listed, NEW h \in Ready, h # e,
         \/ links' = ListAdd(Unlink(links, e), e, h)
         \/ links' = ListAddTail(Unlink(links, e), e, h),
         UNCHANGED live
  PROVE  RingsInv'
<1> DEFINE out == Unlink(links, e)
           S == live \ {e}
<1>1. Good(out, S)
  BY UnlinkGood DEF RingsInv, Listed
<1>2. h \in S /\ e \in Entries \ S /\ S \cup {e} = live
  BY DEF RingsInv, Listed, Ready
<1> HIDE DEF S, out
<1>3. \/ links' = AddBetween(out, e, h, out.next[h])
      \/ links' = AddBetween(out, e, out.prev[h], h)
  BY DEF ListAdd, ListAddTail, out
<1>4. Good(links', S \cup {e})
  <2>1. /\ Good(AddBetween(out, e, h, out.next[h]), S \cup {e})
        /\ Good(AddBetween(out, e, out.prev[h], h), S \cup {e})
    BY <1>1, <1>2, AddGood
  <2> QED BY <1>3, <2>1
<1> QED BY <1>2, <1>4 DEF RingsInv

LEMMA RemoveHolds ==
  ASSUME RingsInv, NEW e \in Listed, live' = live \ {e},
         \/ links' = Poisoned(Unlink(links, e), e)
         \/ links' = INIT_LIST_HEAD(Unlink(links, e), e)
  PROVE  RingsInv'
<1>1. Good(Unlink(links, e), live \ {e}) /\ e \in Nodes \ (live \ {e})
  BY UnlinkGood DEF RingsInv, Listed, Nodes
<1> QED BY <1>1, ApartGood DEF RingsInv

LEMMA ReplaceHolds ==
  ASSUME RingsInv, NEW old \in live, NEW new \in Nodes \ live,
         old \in Heads <=> new \in Heads,
         \/ /\ links' = Replace(links, old, new)
            /\ live' = (live \ {old}) \cup {new}
         \/ /\ links' = INIT_LIST_HEAD(Replace(links, old, new), old)
            /\ \/ live' = (live \ {old}) \cup {new}
               \/ live' = live \cup {new} /\ old \in Heads
  PROVE  RingsInv'
<1> DEFINE out == Replace(links, old, new)
           S == (live \ {old}) \cup {new}
<1>1. Good(out, S) /\ old \in Nodes \ S /\ S \cup {old} = live \cup {new}
  BY ReplaceGood DEF RingsInv, Good
<1> HIDE DEF S, out
<1>2. CASE links' = out /\ live' = S
  BY <1>1, <1>2 DEF RingsInv
<1>3. CASE links' = INIT_LIST_HEAD(out, old) /\ live' = S
  BY <1>1, <1>3, ApartGood DEF RingsInv
<1>4. CASE links' = INIT_LIST_HEAD(out, old) /\ live' = live \cup {new} /\ old \in Heads
  <2>1. Good(links', S \cup {old})
    BY <1>1, <1>4, InitGood
  <2> QED BY <1>1, <1>4, <2>1 DEF RingsInv
<1> QED BY <1>2, <1>3, <1>4 DEF out, S

LEMMA CutHolds ==
  ASSUME RingsInv, NEW list \in Heads, NEW head \in Heads, NEW entry, CutPosition(list, head, entry)
  PROVE  RingsInv'
<1>1. /\ list # head /\ head \in live
      /\ list \in live => links.next[list] = list
  BY DEF CutPosition, Ready, ListEmpty
<1>2. CASE links' = links /\ UNCHANGED live
  BY <1>2 DEF RingsInv
<1> DEFINE S == live \ {list}
           s == Contents(head)
<1>3. Good(links, S)
  <2>1. CASE list \in live
    BY <1>1, <2>1, DropGood DEF RingsInv
  <2>2. CASE list \notin live
    <3>1. S = live
      BY <2>2
    <3> QED BY <3>1 DEF RingsInv
  <2> QED BY <2>1, <2>2
<1>4. list \in Heads \ S /\ head \in S \cap Heads /\ S \cup {list} = live \cup {list}
  BY <1>1
<1>5. RingIs(links, S, head, s)
  <2>1. RingIs(links, live, head, s)
    BY <1>1, ContentsRing DEF RingsInv, Ready
  <2>2. S \cap Entries = live \cap Entries
    BY NodeAssumption
  <2> HIDE DEF S, s
  <2> QED BY <2>1, <2>2 DEF RingIs
<1>6. CASE links' = INIT_LIST_HEAD(links, list) /\ live' = live \cup {list}
  <2> HIDE DEF S
  <2> QED BY <1>3, <1>4, <1>6, InitGood DEF RingsInv
<1>7. CASE entry # head /\ links' = Cut(links, list, head, entry) /\ live' = live \cup {list}
  <2>1. PICK k \in DOMAIN s : entry = s[k]
    BY <1>7 DEF CutPosition
  <2> HIDE DEF S, s
  <2>2. k \in 1..Len(s)
    BY <1>5, <2>1 DEF RingIs
  <2>3. Good(links', S \cup {list})
    BY <1>3, <1>4, <1>5, <1>7, <2>1, <2>2, CutGood
  <2> QED BY <1>4, <1>7, <2>3 DEF RingsInv
<1> QED BY <1>2, <1>6, <1>7 DEF CutPosition, Do

LEMMA SpliceHolds ==
  ASSUME RingsInv, NEW list \in Heads, NEW head \in Heads, Splice(list, head)
  PROVE  RingsInv'
<1> DEFINE front == SpliceBetween(links, list, head, links.next[head])
           tail == SpliceBetween(links, list, links.prev[head], head)
           S == live \ {list}
<1>1. /\ list \in live \cap Heads /\ head \in live \cap Heads /\ list # head
      /\ links.next[head] # list /\ links.prev[head] # list
  BY DEF Splice, Ready
<1>2. links.next[list] # list => Good(front, S) /\ Good(tail, S)
  BY <1>1, SpliceGood DEF RingsInv
<1>3. list \in Heads \ S /\ S \cup {list} = live
  BY <1>1
<1>4. \/ links' = links /\ UNCHANGED live
      \/ links.next[list] # list /\ links' \in {front, tail} /\ live' = S
      \/ /\ links.next[list] # list /\ UNCHANGED live
         /\ links' \in {INIT_LIST_HEAD(front, list), INIT_LIST_HEAD(tail, list)}
  BY DEF Splice, Do, ListEmpty
<1> HIDE DEF front, tail, S
<1>5. CASE links' = links /\ UNCHANGED live
  BY <1>5 DEF RingsInv
<1>6. CASE links.next[list] # list /\ links' \in {front, tail} /\ live' = S
  BY <1>2, <1>6 DEF RingsInv
<1>7. CASE /\ links.next[list] # list /\ UNCHANGED live
           /\ links' \in {INIT_LIST_HEAD(front, list), INIT_LIST_HEAD(tail, list)}
  <2>1. Good(links', S \cup {list})
    BY <1>2, <1>3, <1>7, InitGood
  <2> QED BY <1>3, <1>7, <2>1 DEF RingsInv
<1> QED BY <1>4, <1>5, <1>6, <1>7

LEMMA RingsHold == RingsInv /\ [ListsNext]_listVars => RingsInv'
<1> SUFFICES ASSUME RingsInv, [ListsNext]_listVars PROVE RingsInv'
  OBVIOUS
<1>1. ASSUME NEW h \in Heads, Initialise(h) PROVE RingsInv'
  <2>1. h \in Heads \ live /\ links' = INIT_LIST_HEAD(links, h) /\ live' = live \cup {h}
    BY <1>1 DEF Initialise, Do
  <2> QED BY <2>1, InitGood DEF RingsInv
<1>2. ASSUME NEW e \in Entries, NEW h \in Heads, Add(e, h) PROVE RingsInv'
  BY <1>2, AddHolds DEF Nodes
<1>3. ASSUME NEW e \in Entries, NEW h \in Heads, Move(e, h) PROVE RingsInv'
  <2>1. e \in Listed /\ h \in Ready /\ h # e
    BY <1>3, NodeAssumption DEF Move
  <2> QED BY <1>3, <2>1, MoveHolds DEF Move, Do
<1>4. ASSUME NEW e \in Entries, NEW pos \in Nodes, Insert(e, pos) PROVE RingsInv'
  BY <1>4, AddHolds
<1>5. ASSUME NEW e \in Entries, Del(e) PROVE RingsInv'
  BY <1>5, RemoveHolds DEF Del, Do
<1>6. ASSUME NEW e \in Entries, NEW new \in Entries, ReplaceEntry(e, new) PROVE RingsInv'
  <2>1. e \in live /\ new \in Nodes \ live /\ (e \in Heads <=> new \in Heads)
    BY <1>6, NodeAssumption DEF ReplaceEntry, Listed, Nodes
  <2> QED BY <1>6, <2>1, ReplaceHolds DEF ReplaceEntry, Do
<1>7. ASSUME NEW h \in Heads, NEW new \in Heads, ReplaceHead(h, new) PROVE RingsInv'
  <2>1. h \in live /\ new \in Nodes \ live
    BY <1>7 DEF ReplaceHead, Ready, Nodes
  <2> QED BY <1>7, <2>1, ReplaceHolds DEF ReplaceHead, Do
<1>8. ASSUME NEW list \in Heads, NEW head \in Heads, NEW entry \in Nodes,
             CutPosition(list, head, entry)
      PROVE RingsInv'
  BY <1>8, CutHolds
<1>9. ASSUME NEW list \in Heads, NEW head \in Heads, Splice(list, head) PROVE RingsInv'
  BY <1>9, SpliceHolds
<1>10. CASE \/ \E h \in Heads, way \in {"next", "prev"} : ForEachSafe(h, way)
            \/ ForEachSafeNext \/ ForEachSafeEnd \/ UNCHANGED listVars
  BY <1>10 DEF ForEachSafe, ForEachSafeNext, ForEachSafeEnd, listVars, RingsInv
<1>11. CASE Body
  <2>1. walk.pos \in Listed
    BY <1>11 DEF Body
  <2>2. CASE /\ links' = INIT_LIST_HEAD(Unlink(links, walk.pos), walk.pos)
             /\ live' = live \ {walk.pos}
    BY <2>1, <2>2, RemoveHolds
  <2>3. ASSUME NEW h \in Ready, links' = ListAddTail(Unlink(links, walk.pos), walk.pos, h),
               UNCHANGED live
        PROVE RingsInv'
    BY <2>1, <2>3, MoveHolds, NodeAssumption DEF Ready, Listed
  <2> QED BY <1>11, <2>2, <2>3 DEF Body
<1> QED BY <1>1, <1>2, <1>3, <1>4, <1>5, <1>6, <1>7, <1>8, <1>9, <1>10, <1>11
        DEF ListsNext

(* Whatever calls are made on however many heads and entries, next and prev *)
(* of what is in a list stay each other's inverse (list.h:36-345).          *)
THEOREM RingsStaySound == ListsSpec => []RingsSound
<1>1. RingsInv => RingsSound
  BY DEF RingsInv, Good, RingsSound
<1> QED BY RingsInit, RingsHold, <1>1, PTL DEF ListsSpec

-----------------------------------------------------------------------------
(* Loops.                                                                   *)
LoopTypes == [head : Heads, way : {"next", "prev"}, pos : Nodes, n : Nodes \cup {NULL},
              seen : Seq(Entries), due : Seq(Entries)]
LoopType == walk = Idle \/ walk \in LoopTypes

(* Where a loop over due from h on leads. *)
Stop(due, h, j) == IF j = Len(due) + 1 THEN h ELSE due[j]

LEMMA StopIs ==
  ASSUME NEW due \in Seq(Entries), NEW h \in Heads
  PROVE  /\ Len(due) \in Nat /\ Len(Append(due, h)) = Len(due) + 1
         /\ \A j \in 1 .. Len(due) + 1 :
              Append(due, h)[j] = Stop(due, h, j) /\ Stop(due, h, j) \in Nodes
         /\ \A j \in 1..Len(due) : Append(due, h)[j] = due[j] /\ due[j] \in Entries
         /\ Append(due, h) \in Seq(Nodes)
<1>1. due \in Seq(Nodes) /\ h \in Nodes /\ \A j \in 1..Len(due) : due[j] \in Entries
  BY ElementOfSeq DEF Nodes
<1> QED BY <1>1, AppendProperties DEF Stop, Nodes

(* Both ways round, a ring is a course from its head back to it. *)
Course(way, h, due) ==
  /\ due \in Seq(Entries) /\ IsInjective(due)
  /\ \A j \in 1..Len(due) : due[j] \in live
  /\ links[way][h] = Stop(due, h, 1)
  /\ \A j \in 1..Len(due) : links[way][due[j]] = Stop(due, h, j + 1)

LEMMA NextCourse ==
  ASSUME RingsInv, NEW h \in Ready
  PROVE  Course("next", h, Contents(h))
<1> DEFINE s == Contents(h)
<1>1. RingIs(links, live, h, s)
  BY ContentsRing DEF RingsInv
<1> HIDE DEF s
<1>2. Len(s) \in Nat /\ s \in Seq(Entries) /\ \A j \in 1..Len(s) : s[j] \in live
  BY <1>1, ElementOfSeq DEF RingIs
<1> QED BY <1>1, <1>2 DEF RingIs, Course, Stop, s

LEMMA PrevCourse ==
  ASSUME RingsInv, NEW h \in Ready
  PROVE  Course("prev", h, Reverse(Contents(h)))
<1> DEFINE s == Contents(h)
           r == Reverse(s)
<1>1. RingIs(links, live, h, s)
  BY ContentsRing DEF RingsInv
<1>2. /\ links.prev[h] = IF Len(s) = 0 THEN h ELSE s[Len(s)]
      /\ \A k \in 1..Len(s) : links.prev[s[k]] = IF k = 1 THEN h ELSE s[k - 1]
  BY <1>1, RingPrev DEF RingsInv, Good, Ready
<1> HIDE DEF s
<1>3. Len(s) \in Nat /\ s \in Seq(Entries) /\ \A j \in 1..Len(s) : s[j] \in live /\ s[j] \in Entries
  BY <1>1, ElementOfSeq DEF RingIs
<1>4. /\ r = [i \in 1..Len(s) |-> s[Len(s) - i + 1]]
      /\ \A j \in 1..Len(s) : Len(s) - j + 1 \in 1..Len(s)
  BY <1>3 DEF Reverse
<1> HIDE DEF r
<1>5. r \in Seq(Entries) /\ Len(r) = Len(s) /\ \A j \in 1..Len(s) : r[j] = s[Len(s) - j + 1]
  BY <1>3, <1>4
<1>6. IsInjective(r)
  <2> SUFFICES ASSUME NEW i \in 1..Len(s), NEW j \in 1..Len(s), r[i] = r[j] PROVE i = j
    BY <1>4, <1>5 DEF IsInjective
  <2>1. Len(s) - i + 1 = Len(s) - j + 1
    <3> DEFINE a == Len(s) - i + 1
               b == Len(s) - j + 1
    <3>1. a \in 1..Len(s) /\ b \in 1..Len(s) /\ s[a] = s[b]
      BY <1>4, <1>5
    <3>2. a \in DOMAIN s /\ b \in DOMAIN s
      BY <1>3, <3>1
    <3> HIDE DEF a, b
    <3>3. a = b
      BY <1>1, <3>1, <3>2 DEF RingIs, IsInjective
    <3> QED BY <3>3 DEF a, b
  <2> QED BY <1>3, <2>1
<1>7. ASSUME NEW j \in 1..Len(s) PROVE links.prev[r[j]] = Stop(r, h, j + 1)
  <2> DEFINE k == Len(s) - j + 1
  <2>1. k \in 1..Len(s) /\ r[j] = s[k] /\ (k = 1 <=> j + 1 = Len(s) + 1)
    BY <1>3, <1>4, <1>5
  <2>2. k # 1 => j + 1 \in 1..Len(s) /\ Len(s) - (j + 1) + 1 = k - 1
    BY <1>3
  <2> HIDE DEF k
  <2> QED BY SMTT(30), <1>2, <1>5, <2>1, <2>2 DEF Stop
<1>8. links.prev[h] = Stop(r, h, 1)
  <2>1. Len(s) # 0 => 1 \in 1..Len(s) /\ Len(s) - 1 + 1 = Len(s)
    BY <1>3
  <2> QED BY <1>2, <1>3, <1>5, <2>1 DEF Stop
<1> QED BY <1>3, <1>4, <1>5, <1>6, <1>7, <1>8 DEF Course, r, s

(* A loop at the i-th node of its course, in terms of its fields. *)
LoopAt(l, nodes, pos, n, way, head, due, i) ==
  /\ head \in nodes \cap Heads
  /\ due \in Seq(Entries) /\ IsInjective(due)
  /\ i \in 1 .. Len(due) + 1
  /\ pos = Stop(due, head, i)
  /\ i <= Len(due) => n = Stop(due, head, i + 1)
  /\ \A j \in i + 1 .. Len(due) :
       due[j] \in nodes /\ l[way][due[j]] = Stop(due, head, j + 1)

LEMMA LoopIs ==
  ASSUME NEW l, NEW nodes, NEW w \in LoopTypes
  PROVE  LoopRight(l, nodes, w) <=>
           /\ LoopAt(l, nodes, w.pos, w.n, w.way, w.head, w.due, Len(w.seen) + 1)
           /\ w.seen = SubSeq(w.due, 1, Len(w.seen))
<1> DEFINE due == w.due
           head == w.head
           i == Len(w.seen) + 1
<1>1. head \in Heads /\ due \in Seq(Entries) /\ i \in Nat /\ i - 1 = Len(w.seen)
  BY DEF LoopTypes
<1>2. LoopRight(l, nodes, w) <=>
        /\ head \in nodes \cap Heads
        /\ due \in Seq(Entries) /\ IsInjective(due)
        /\ i \in 1 .. Len(due) + 1 /\ w.seen = SubSeq(due, 1, i - 1)
        /\ w.pos = Append(due, head)[i]
        /\ i <= Len(due) => w.n = Append(due, head)[i + 1]
        /\ \A j \in i + 1 .. Len(due) :
             due[j] \in nodes /\ l[w.way][due[j]] = Append(due, head)[j + 1]
  BY DEF LoopRight
<1> HIDE DEF due, head, i
<1>3. /\ Len(due) \in Nat
      /\ \A j \in 1 .. Len(due) + 1 : Append(due, head)[j] = Stop(due, head, j)
  BY <1>1, StopIs
<1>4. /\ i \in 1 .. Len(due) + 1 => Append(due, head)[i] = Stop(due, head, i)
      /\ i <= Len(due) => Append(due, head)[i + 1] = Stop(due, head, i + 1)
      /\ \A j \in i + 1 .. Len(due) : Append(due, head)[j + 1] = Stop(due, head, j + 1)
  BY <1>1, <1>3
<1>5. LoopRight(l, nodes, w) <=> /\ LoopAt(l, nodes, w.pos, w.n, w.way, head, due, i)
                                /\ w.seen = SubSeq(due, 1, Len(w.seen))
  BY <1>1, <1>2, <1>4 DEF LoopAt
<1> QED BY <1>5 DEF due, head, i

LEMMA LoopBegins ==
  ASSUME RingsInv, NEW h \in Heads, NEW way \in {"next", "prev"}, ForEachSafe(h, way)
  PROVE  walk' \in LoopTypes /\ LoopRight(links', live', walk')
<1> DEFINE due == IF way = "next" THEN Contents(h) ELSE Reverse(Contents(h))
           pos == links[way][h]
           n == links[way][pos]
<1>1. /\ h \in Ready /\ UNCHANGED <<links, live>>
      /\ walk' = [head |-> h, way |-> way, pos |-> pos, n |-> n, seen |-> <<>>, due |-> due]
  BY DEF ForEachSafe
<1>2. Course(way, h, due)
  BY <1>1, NextCourse, PrevCourse
<1> HIDE DEF due
<1>3. due \in Seq(Entries) /\ Len(due) \in Nat
  BY <1>2 DEF Course
<1>4. pos = Stop(due, h, 1)
  BY <1>2 DEF Course
<1>5. 1 <= Len(due) => n = Stop(due, h, 1 + 1)
  <2> SUFFICES ASSUME 1 <= Len(due) PROVE n = Stop(due, h, 1 + 1)
    OBVIOUS
  <2>1. 1 \in 1..Len(due) /\ pos = due[1]
    BY <1>3, <1>4 DEF Stop
  <2> QED BY <1>2, <2>1 DEF Course
<1>6. pos \in live /\ n \in live
  <2>1. pos \in live
    <3>1. h \in live
      BY <1>1 DEF Ready
    <3> QED BY <1>2, <1>3, <1>4, <3>1 DEF Course, Stop
  <2> QED BY <2>1 DEF RingsInv, Good, Sound
<1> HIDE DEF pos, n
<1>7. walk' \in LoopTypes
  <2>1. <<>> \in Seq(Entries) /\ pos \in Nodes /\ n \in Nodes
    BY <1>6 DEF RingsInv, Good
  <2> QED BY <1>1, <1>3, <2>1 DEF LoopTypes
<1>8. \A j \in 1 + 1 .. Len(due) :
        due[j] \in live /\ links[way][due[j]] = Stop(due, h, j + 1)
  <2>1. \A j \in 1 + 1 .. Len(due) : j \in 1..Len(due)
    OBVIOUS
  <2> QED BY <1>2, <2>1 DEF Course
<1>9. LoopAt(links, live, pos, n, way, h, due, 1)
  <2>1. h \in live \cap Heads /\ IsInjective(due) /\ 1 \in 1 .. Len(due) + 1
    BY <1>1, <1>2, <1>3 DEF Course, Ready
  <2> QED BY <1>3, <1>4, <1>5, <1>8, <2>1 DEF LoopAt
<1>10. /\ walk'.head = h /\ walk'.way = way /\ walk'.pos = pos /\ walk'.n = n
       /\ walk'.seen = <<>> /\ walk'.due = due
  BY <1>1
<1>11. Len(<<>>) + 1 = 1 /\ <<>> = SubSeq(due, 1, Len(<<>>))
  BY <1>3
<1>12. LoopRight(links, live, walk')
  BY <1>7, <1>9, <1>10, <1>11, LoopIs
<1> QED BY <1>1, <1>7, <1>12

LEMMA LoopGoesOn ==
  ASSUME RingsInv, walk \in LoopTypes, LoopRight(links, live, walk), ForEachSafeNext
  PROVE  walk' \in LoopTypes /\ LoopRight(links', live', walk')
<1> DEFINE due == walk.due
           head == walk.head
           way == walk.way
           seen == walk.seen
           i == Len(seen) + 1
           next == links[way][walk.n]
           more == Append(seen, walk.pos)
<1>1. /\ walk.pos # head /\ UNCHANGED <<links, live>>
      /\ walk' = [walk EXCEPT !.pos = walk.n, !.n = next, !.seen = more]
  BY DEF ForEachSafeNext
<1>2. LoopAt(links, live, walk.pos, walk.n, way, head, due, i) /\ seen = SubSeq(due, 1, Len(seen))
  BY LoopIs
<1>3. /\ walk'.head = head /\ walk'.way = way /\ walk'.due = due
      /\ walk'.pos = walk.n /\ walk'.n = next /\ walk'.seen = more
  BY <1>1 DEF LoopTypes
<1>4. seen \in Seq(Entries) /\ due \in Seq(Entries) /\ head \in Heads /\ way \in {"next", "prev"}
      /\ Len(seen) \in Nat /\ Len(due) \in Nat
  BY DEF LoopTypes
<1> HIDE DEF due, head, way, seen, next, more
<1>5. i \in 1..Len(due) /\ walk.pos = due[i]
  BY <1>1, <1>2, <1>4 DEF LoopAt, Stop
<1>6. /\ \A j \in 1..Len(due) : due[j] \in Entries
      /\ \A j \in 1 .. Len(due) + 1 : Stop(due, head, j) \in Nodes
  BY <1>4, StopIs
<1>7. more \in Seq(Entries) /\ Len(more) = i
  BY <1>4, <1>5, <1>6 DEF more
<1>8. more = SubSeq(due, 1, Len(more))
  <2>1. /\ SubSeq(due, 1, i) \in Seq(Entries) /\ Len(SubSeq(due, 1, i)) = i
        /\ \A k \in 1..i : SubSeq(due, 1, i)[k] = due[k]
    BY <1>4, <1>5
  <2>2. \A k \in 1..i : more[k] = due[k]
    <3> SUFFICES ASSUME NEW k \in 1..i PROVE more[k] = due[k]
      OBVIOUS
    <3>1. k # i => k \in 1..Len(seen) /\ more[k] = seen[k]
      BY <1>4, <1>5 DEF more
    <3>2. \A j \in 1..Len(seen) : SubSeq(due, 1, Len(seen))[j] = due[j]
      BY <1>4, <1>5
    <3>3. k = i => more[k] = walk.pos
      BY <1>4, <1>5 DEF more
    <3> QED BY <1>2, <1>5, <3>1, <3>2, <3>3
  <2>3. \A k \in 1..i : more[k] = SubSeq(due, 1, i)[k]
    BY <2>1, <2>2
  <2> QED BY <1>7, <2>1, <2>3, SeqEqual
<1>9. walk.n = Stop(due, head, i + 1) /\ i + 1 \in 1 .. Len(due) + 1
  BY <1>2, <1>4, <1>5 DEF LoopAt
<1>10. i + 1 <= Len(due) => next = Stop(due, head, (i + 1) + 1)
  <2> SUFFICES ASSUME i + 1 <= Len(due) PROVE next = Stop(due, head, (i + 1) + 1)
    OBVIOUS
  <2>1. i + 1 \in i + 1 .. Len(due) /\ walk.n = due[i + 1]
    BY <1>4, <1>5, <1>9 DEF Stop
  <2> QED BY <1>2, <2>1 DEF LoopAt, next
<1>11. walk.n \in Nodes /\ next \in Nodes
  <2>1. walk.n \in live
    <3>1. CASE i = Len(due)
      BY <1>2, <1>9, <3>1 DEF Stop, LoopAt
    <3>2. CASE i # Len(due)
      <4>1. i + 1 \in i + 1 .. Len(due) /\ walk.n = due[i + 1]
        BY <1>4, <1>5, <1>9, <3>2 DEF Stop
      <4> QED BY <1>2, <4>1 DEF LoopAt
    <3> QED BY <3>1, <3>2
  <2>2. links.next[walk.n] \in Nodes /\ links.prev[walk.n] \in Nodes /\ walk.n \in Nodes
    BY <2>1 DEF RingsInv, Good, Sound
  <2> QED BY <1>4, <2>2 DEF next
<1>12. walk' \in LoopTypes
  BY <1>1, <1>7, <1>11 DEF LoopTypes
<1>13. LoopAt(links, live, walk.n, next, way, head, due, i + 1)
  <2>1. \A j \in (i + 1) + 1 .. Len(due) : j \in i + 1 .. Len(due)
    BY <1>4, <1>5
  <2> HIDE DEF i
  <2> QED BY <1>2, <1>9, <1>10, <2>1 DEF LoopAt
<1>14. LoopRight(links, live, walk')
  <2>1. Len(more) + 1 = i + 1
    BY <1>7
  <2> QED BY <1>3, <1>8, <1>12, <1>13, <2>1, LoopIs
<1> QED BY <1>1, <1>12, <1>14

(* What a body may do leaves the other entries of the list linked as they   *)
(* were, but for the ones that were next to it.                             *)
LEMMA UnlinkKeeps ==
  ASSUME NEW l, NEW S, Good(l, S), NEW e \in S, NEW x \in S \ {e}
  PROVE  /\ l.next[x] # e => Unlink(l, e).next[x] = l.next[x]
         /\ l.prev[x] # e => Unlink(l, e).prev[x] = l.prev[x]
<1> DEFINE p == l.prev[e]
           n == l.next[e]
           out == Unlink(l, e)
<1>1. p \in S /\ n \in S /\ l.next[p] = e /\ l.prev[n] = e /\ S \subseteq Nodes /\ l \in AllLinks
  BY DEF Good, Sound
<1>2. Linked(l, p, n, out)
  BY <1>1, LinkIs DEF Unlink
<1> HIDE DEF out, p, n
<1>3. /\ l.next[x] # e => out.next[x] = l.next[x]
      /\ l.prev[x] # e => out.prev[x] = l.prev[x]
  BY <1>1, <1>2 DEF Linked
<1> QED BY <1>3 DEF out

LEMMA InitKeeps ==
  ASSUME NEW l, NEW S, Good(l, S), NEW e \in Nodes \ S, NEW x \in S
  PROVE  INIT_LIST_HEAD(l, e).next[x] = l.next[x] /\ INIT_LIST_HEAD(l, e).prev[x] = l.prev[x]
<1>1. Linked(l, e, e, INIT_LIST_HEAD(l, e))
  BY LinkIs DEF INIT_LIST_HEAD, Good
<1> QED BY <1>1 DEF Linked, Good

LEMMA AddTailKeeps ==
  ASSUME NEW l, NEW S, Good(l, S), NEW e \in Entries \ S, NEW h \in S \cap Heads, NEW x \in S \ {h}
  PROVE  /\ l.next[x] # h => ListAddTail(l, e, h).next[x] = l.next[x]
         /\ ListAddTail(l, e, h).prev[x] = l.prev[x]
<1> DEFINE q == l.prev[h]
           l1 == Link(l, e, h)
           new == Link(l1, q, e)
<1>1. q \in S /\ l.next[q] = h /\ S \subseteq Nodes /\ l \in AllLinks /\ e \in Nodes /\ h \in Nodes
  BY DEF Good, Sound, Nodes
<1> HIDE DEF q
<1>2. Linked(l, e, h, l1)
  BY <1>1, LinkIs
<1> HIDE DEF l1
<1>3. Linked(l1, q, e, new)
  BY <1>1, <1>2, LinkIs, LinkedLinks
<1> HIDE DEF new
<1>4. (l.next[x] # h => new.next[x] = l.next[x]) /\ new.prev[x] = l.prev[x]
  BY <1>1, <1>2, <1>3 DEF Linked
<1> QED BY <1>4 DEF ListAddTail, AddBetween, new, l1, q

LEMMA LoopKept ==
  ASSUME RingsInv, walk \in LoopTypes, LoopRight(links, live, walk), Body
  PROVE  LoopRight(links', live', walk)
<1> DEFINE due == walk.due
           head == walk.head
           way == walk.way
           pos == walk.pos
           i == Len(walk.seen) + 1
           out == Unlink(links, pos)
           S == live \ {pos}
<1>1. /\ LoopAt(links, live, pos, walk.n, way, head, due, i)
      /\ walk.seen = SubSeq(due, 1, Len(walk.seen))
  BY LoopIs
<1>2. /\ pos \in Listed
      /\ \/ links' = INIT_LIST_HEAD(out, pos) /\ live' = S
         \/ \E h \in Ready \ {head} : links' = ListAddTail(out, pos, h) /\ live' = live
  BY DEF Body
<1>3. /\ due \in Seq(Entries) /\ head \in Heads /\ way \in {"next", "prev"} /\ Len(due) \in Nat
      /\ i \in Nat
  BY DEF LoopTypes
<1> HIDE DEF due, head, way, pos, i
<1>4. \A j \in 1..Len(due) : due[j] \in Entries
  BY <1>3, StopIs
<1>5. pos \in live /\ pos \in Entries /\ pos \notin Heads /\ pos \in Nodes \ S
  BY <1>2, NodeAssumption DEF Listed, Nodes
<1>6. i \in 1..Len(due) /\ pos = due[i]
  BY <1>1, <1>3, <1>5 DEF LoopAt, Stop
<1>7. Good(links, live) /\ Good(out, S)
  BY <1>5, UnlinkGood DEF RingsInv
<1>8. ASSUME NEW j \in i + 1 .. Len(due)
      PROVE  /\ due[j] \in S /\ due[j] \in Entries
             /\ Stop(due, head, j + 1) \notin (Heads \ {head}) \cup {pos}
             /\ links[way][due[j]] = Stop(due, head, j + 1)
  <2>1. /\ j \in 1..Len(due) /\ j # i /\ i \in DOMAIN due /\ j \in DOMAIN due
        /\ j + 1 # Len(due) + 1 => j + 1 \in 1..Len(due) /\ j + 1 # i /\ j + 1 \in DOMAIN due
    BY <1>3, <1>6
  <2>2. due[j] # due[i] /\ (j + 1 # Len(due) + 1 => due[j + 1] # due[i])
    BY <1>1, <2>1 DEF LoopAt, IsInjective
  <2>3. due[j] \in live /\ links[way][due[j]] = Stop(due, head, j + 1)
    BY <1>1 DEF LoopAt
  <2>4. Stop(due, head, j + 1) \notin (Heads \ {head}) \cup {pos}
    BY <1>3, <1>4, <1>5, <1>6, <2>1, <2>2, NodeAssumption DEF Stop
  <2> QED BY <1>4, <1>6, <2>1, <2>2, <2>3, <2>4
<1> HIDE DEF out, S
<1>9. ASSUME NEW j \in i + 1 .. Len(due)
      PROVE  out[way][due[j]] = Stop(due, head, j + 1)
  <2>1. due[j] \in live \ {pos}
    BY <1>8 DEF S
  <2>2. /\ links.next[due[j]] # pos => out.next[due[j]] = links.next[due[j]]
        /\ links.prev[due[j]] # pos => out.prev[due[j]] = links.prev[due[j]]
    BY <1>5, <1>7, <2>1, UnlinkKeeps DEF out
  <2> QED BY <1>3, <1>8, <2>2
<1>10. ASSUME NEW j \in i + 1 .. Len(due)
       PROVE  due[j] \in live' /\ links'[way][due[j]] = Stop(due, head, j + 1)
  <2>1. CASE links' = INIT_LIST_HEAD(out, pos) /\ live' = S
    <3>1. links'.next[due[j]] = out.next[due[j]] /\ links'.prev[due[j]] = out.prev[due[j]]
      BY <1>5, <1>7, <1>8, <2>1, InitKeeps
    <3> QED BY <1>3, <1>8, <1>9, <2>1, <3>1
  <2>2. ASSUME NEW h \in Ready \ {head}, links' = ListAddTail(out, pos, h), live' = live
        PROVE  due[j] \in live' /\ links'[way][due[j]] = Stop(due, head, j + 1)
    <3>1. h \in S \cap Heads /\ pos \in Entries \ S /\ due[j] \in S \ {h}
      BY <1>5, <1>8, NodeAssumption DEF Ready, S
    <3>2. /\ out.next[due[j]] # h => links'.next[due[j]] = out.next[due[j]]
          /\ links'.prev[due[j]] = out.prev[due[j]]
      BY <1>7, <2>2, <3>1, AddTailKeeps
    <3>3. out[way][due[j]] # h
      BY <1>8, <1>9, <3>1
    <3> QED BY <1>3, <1>9, <2>2, <3>1, <3>2, <3>3 DEF S
  <2> QED BY <1>2, <2>1, <2>2
<1>11. head \in live' \cap Heads
  BY <1>1, <1>2, <1>5 DEF LoopAt, S
<1>12. LoopAt(links', live', pos, walk.n, way, head, due, i)
  BY <1>1, <1>10, <1>11 DEF LoopAt
<1> QED BY <1>1, <1>12, LoopIs DEF pos, way, head, due, i

LoopsInv == walk = Idle \/ (walk \in LoopTypes /\ LoopRight(links, live, walk))

LEMMA LoopsHold == RingsInv /\ LoopsInv /\ [ListsNext]_listVars => LoopsInv'
<1> SUFFICES ASSUME RingsInv, LoopsInv, [ListsNext]_listVars PROVE LoopsInv'
  OBVIOUS
<1>1. ASSUME NEW h \in Heads, NEW way \in {"next", "prev"}, ForEachSafe(h, way) PROVE LoopsInv'
  BY <1>1, LoopBegins DEF LoopsInv
<1>2. CASE ForEachSafeNext
  BY <1>2, LoopGoesOn DEF LoopsInv, ForEachSafeNext
<1>3. CASE ForEachSafeEnd
  BY <1>3 DEF ForEachSafeEnd, LoopsInv, Idle
<1>4. CASE Body
  <2>1. walk \in LoopTypes /\ LoopRight(links, live, walk) /\ UNCHANGED walk
    BY <1>4 DEF LoopsInv, Body
  <2>2. LoopRight(links', live', walk)
    BY <1>4, <2>1, LoopKept
  <2> QED BY <2>1, <2>2 DEF LoopsInv
<1>5. CASE walk = Idle /\ UNCHANGED walk
  BY <1>5 DEF LoopsInv, Idle
<1>6. CASE UNCHANGED listVars
  BY <1>6 DEF LoopsInv, listVars, Idle
<1> QED BY <1>1, <1>2, <1>3, <1>4, <1>5, <1>6
        DEF ListsNext, Initialise, Add, Move, Insert, Del, ReplaceEntry, ReplaceHead,
            CutPosition, Splice, Do

(* What the tests look at tells how long a ring is. *)
LEMMA TestsRight ==
  ASSUME RingsInv, NEW h \in Ready
  PROVE  /\ ListEmpty(h) <=> Contents(h) = <<>>
         /\ ListEmptyCareful(h) <=> Contents(h) = <<>>
         /\ ListIsSingular(h) <=> Len(Contents(h)) = 1
         /\ \A k \in DOMAIN Contents(h) : ListIsLast(Contents(h)[k], h) <=> k = Len(Contents(h))
<1> DEFINE s == Contents(h)
<1>1. RingIs(links, live, h, s) /\ Sound(links, live) /\ h \in live
  BY ContentsRing DEF RingsInv, Good, Ready
<1>2. links.prev[h] = IF Len(s) = 0 THEN h ELSE s[Len(s)]
  BY <1>1, RingPrev
<1> HIDE DEF s
<1>3. /\ s \in Seq(Entries) /\ Len(s) \in Nat /\ DOMAIN s = 1..Len(s)
      /\ s = <<>> <=> Len(s) = 0
  BY <1>1 DEF RingIs
<1>4. h \notin Entries /\ \A k \in 1..Len(s) : s[k] \in Entries /\ s[k] # h
  BY <1>3, ElementOfSeq, NodeAssumption DEF Ready
<1>5. links.next[h] = IF Len(s) = 0 THEN h ELSE s[1]
  BY <1>1 DEF RingIs
<1>6. Len(s) # 0 => 1 \in 1..Len(s) /\ Len(s) \in 1..Len(s)
  BY <1>3
<1>7. ListEmpty(h) <=> s = <<>>
  BY <1>3, <1>4, <1>5, <1>6 DEF ListEmpty
<1>8. ListEmptyCareful(h) <=> s = <<>>
  BY <1>2, <1>3, <1>4, <1>5, <1>6 DEF ListEmptyCareful
<1>9. ListIsSingular(h) <=> Len(s) = 1
  <2>1. Len(s) # 0 /\ s[1] = s[Len(s)] => Len(s) = 1
    <3>1. \A a, b \in 1..Len(s) : s[a] = s[b] => a = b
      BY <1>1, <1>3 DEF RingIs, IsInjective
    <3> QED BY <1>6, <3>1
  <2> QED BY <1>2, <1>3, <1>5, <1>7, <2>1 DEF ListIsSingular
<1>10. ASSUME NEW k \in DOMAIN s PROVE ListIsLast(s[k], h) <=> k = Len(s)
  <2>1. k \in 1..Len(s) /\ (k # Len(s) => k + 1 \in 1..Len(s))
    BY <1>3
  <2>2. links.next[s[k]] = IF k = Len(s) THEN h ELSE s[k + 1]
    BY <1>1, <2>1 DEF RingIs
  <2> QED BY <1>4, <2>1, <2>2 DEF ListIsLast
<1> QED BY <1>7, <1>8, <1>9, <1>10 DEF s

LEMMA LoopsSee ==
  ASSUME LoopsInv, walk # Idle
  PROVE  Append(walk.seen, walk.pos) = SubSeq(Append(walk.due, walk.head), 1, Len(walk.seen) + 1)
<1> DEFINE due == walk.due
           head == walk.head
           seen == walk.seen
           i == Len(seen) + 1
           all == Append(due, head)
<1>1. LoopAt(links, live, walk.pos, walk.n, walk.way, head, due, i) /\ seen = SubSeq(due, 1, Len(seen))
  BY LoopIs DEF LoopsInv
<1>2. seen \in Seq(Entries) /\ due \in Seq(Entries) /\ head \in Heads /\ walk.pos \in Nodes
      /\ Len(seen) \in Nat
  BY DEF LoopsInv, LoopTypes
<1> HIDE DEF due, head, seen
<1>3. /\ Len(due) \in Nat /\ Len(all) = Len(due) + 1 /\ all \in Seq(Nodes)
      /\ \A j \in 1 .. Len(due) + 1 : all[j] = Stop(due, head, j)
      /\ \A j \in 1..Len(due) : all[j] = due[j]
  BY <1>2, StopIs
<1> HIDE DEF all
<1>4. i \in 1 .. Len(due) + 1 /\ walk.pos = all[i]
  BY <1>1, <1>3 DEF LoopAt
<1>5. \A k \in 1..Len(seen) : seen[k] = all[k]
  <2>1. \A k \in 1..Len(seen) : SubSeq(due, 1, Len(seen))[k] = due[k] /\ k \in 1..Len(due)
    BY <1>2, <1>3, <1>4
  <2> QED BY <1>1, <1>3, <2>1
<1> DEFINE a == Append(seen, walk.pos)
           b == SubSeq(all, 1, i)
<1>6. seen \in Seq(Nodes)
  BY <1>2 DEF Nodes
<1>7. /\ a \in Seq(Nodes) /\ Len(a) = i /\ a[i] = walk.pos
      /\ \A k \in 1..Len(seen) : a[k] = seen[k]
  BY <1>2, <1>6
<1>8. /\ b \in Seq(Nodes) /\ Len(b) = i /\ \A k \in 1..i : b[k] = all[k]
  BY <1>2, <1>3, <1>4
<1> HIDE DEF a, b
<1>9. \A k \in 1..i : a[k] = b[k]
  BY <1>2, <1>4, <1>5, <1>7, <1>8
<1>10. a = b
  BY <1>7, <1>8, <1>9
<1> QED BY <1>10 DEF a, b, all, due, head, seen

(* A loop that allows its body to remove the entry it stands at sees each   *)
(* entry of its list once and in order, whatever the body does with it, for *)
(* any number of lists and entries and after any calls; and list_empty and  *)
(* the like tell the length of a list (list.h:187-216, 398-460).            *)
THEOREM LoopsSeeAll == ListsSpec => []SeenRight
<1>1. ListsInit => LoopsInv
  BY DEF ListsInit, LoopsInv
<1>2. RingsInv /\ LoopsInv => SeenRight
  BY LoopsSee, TestsRight DEF SeenRight
<1> QED BY <1>1, <1>2, RingsInit, RingsHold, LoopsHold, PTL DEF ListsSpec

-----------------------------------------------------------------------------
(* A head that is in no use joins no ring by itself: the calls leave nothing *)
(* behind that points back to it.  So the heads in use can be told from the *)
(* pointers alone.                                                          *)
LEMMA LinkLeft ==
  ASSUME NEW l \in AllLinks, NEW S \in SUBSET Nodes, LeftBehind(l, S),
         NEW a \in S \cup Entries, NEW b \in Nodes
  PROVE  Link(l, a, b) \in AllLinks /\ LeftBehind(Link(l, a, b), S)
<1>1. a \in Nodes
  BY DEF Nodes
<1>2. Linked(l, a, b, Link(l, a, b))
  BY <1>1, LinkIs
<1>3. \A h \in Heads \ S : h \in Nodes /\ h # a
  BY NodeAssumption DEF Nodes
<1> QED BY <1>2, <1>3 DEF Linked, LeftBehind

LEMMA MoreInUse ==
  ASSUME NEW l, NEW S, NEW T, LeftBehind(l, S), S \cap Heads \subseteq T
  PROVE  LeftBehind(l, T)
BY DEF LeftBehind

LEMMA InitLeft ==
  ASSUME NEW l \in AllLinks, NEW S \in SUBSET Nodes, LeftBehind(l, S), NEW h \in Nodes
  PROVE  LeftBehind(INIT_LIST_HEAD(l, h), S \cup {h})
<1>1. LeftBehind(l, S \cup {h}) /\ S \cup {h} \in SUBSET Nodes /\ h \in S \cup {h}
  BY MoreInUse
<1> QED BY <1>1, LinkLeft DEF INIT_LIST_HEAD

LEMMA ApartLeft ==
  ASSUME NEW l \in AllLinks, NEW S \in SUBSET Nodes, LeftBehind(l, S), NEW e \in Entries
  PROVE  LeftBehind(INIT_LIST_HEAD(l, e), S) /\ LeftBehind(Poisoned(l, e), S)
<1>1. LeftBehind(INIT_LIST_HEAD(l, e), S)
  BY LinkLeft DEF INIT_LIST_HEAD, Nodes
<1>2. ASSUME NEW h \in Heads \ S, Poisoned(l, e).next[h] \in Nodes
      PROVE  Poisoned(l, e).prev[Poisoned(l, e).next[h]] # h
  <2>1. h # e /\ h # NULL /\ h \in Nodes
    BY NodeAssumption DEF Nodes
  <2>2. /\ Poisoned(l, e).next[h] = l.next[h]
        /\ Poisoned(l, e).prev[l.next[h]] = IF l.next[h] = e THEN NULL ELSE l.prev[l.next[h]]
    BY <1>2, <2>1 DEF Poisoned, AllLinks, Pointers
  <2> QED BY <1>2, <2>1, <2>2 DEF LeftBehind
<1> QED BY <1>1, <1>2 DEF LeftBehind

LEMMA AddLeft ==
  ASSUME NEW l \in AllLinks, NEW S \in SUBSET Nodes, LeftBehind(l, S),
         NEW e \in Entries, NEW p \in S, NEW n \in S
  PROVE  LeftBehind(AddBetween(l, e, p, n), S \cup {e})
<1>1. Link(l, e, n) \in AllLinks /\ LeftBehind(Link(l, e, n), S)
  BY LinkLeft
<1>2. LeftBehind(AddBetween(l, e, p, n), S)
  BY <1>1, LinkLeft DEF AddBetween, Nodes
<1> QED BY <1>2, MoreInUse

LEMMA UnlinkLeft ==
  ASSUME NEW l \in AllLinks, NEW S \in SUBSET Nodes, Sound(l, S), LeftBehind(l, S),
         NEW e \in S \cap Entries
  PROVE  LeftBehind(Unlink(l, e), S \ {e})
<1>1. l.prev[e] \in S /\ l.next[e] \in Nodes
  BY DEF Sound
<1>2. LeftBehind(Unlink(l, e), S)
  BY <1>1, LinkLeft DEF Unlink
<1> QED BY <1>2, MoreInUse, NodeAssumption

LEMMA ReplaceLeft ==
  ASSUME NEW l \in AllLinks, NEW S \in SUBSET Nodes, Sound(l, S), LeftBehind(l, S),
         NEW old \in S, NEW new \in Nodes \ S, old \in Heads <=> new \in Heads
  PROVE  LeftBehind(Replace(l, old, new), (S \ {old}) \cup {new})
<1> DEFINE n == l.next[old]
           l1 == Link(l, new, n)
           p == l1.prev[old]
           l2 == Link(l1, p, new)
           T == S \cup {new}
<1>1. n \in S /\ n \in Nodes /\ new # n /\ l.prev[n] = old /\ T \in SUBSET Nodes /\ new \in T
  BY DEF Sound
<1>2. LeftBehind(l, T)
  BY MoreInUse
<1> HIDE DEF n
<1>3. Linked(l, new, n, l1)
  BY <1>1, LinkIs
<1>4. l1 \in AllLinks /\ LeftBehind(l1, T)
  BY <1>1, <1>2, LinkLeft
<1> HIDE DEF l1
<1>5. p = (IF old = n THEN new ELSE l.prev[old]) /\ p \in T
  BY <1>1, <1>3 DEF Linked, Sound
<1> HIDE DEF p
<1>6. Linked(l1, p, new, l2)
  BY <1>1, <1>4, <1>5, LinkIs
<1>7. LeftBehind(l2, T)
  BY <1>1, <1>4, <1>5, LinkLeft
<1> HIDE DEF l2, T
<1>8. old # p /\ old # new
  <2>1. l.next[l.prev[old]] = old
    BY DEF Sound
  <2> QED BY <1>1, <1>5, <2>1 DEF n
<1>9. l2.next[old] = n /\ l2.prev[n] = new
  BY <1>1, <1>3, <1>6, <1>8 DEF Linked, n
<1>10. LeftBehind(l2, (S \ {old}) \cup {new})
  BY <1>7, <1>8, <1>9 DEF LeftBehind, T
<1> QED BY <1>10 DEF Replace, n, l1, p, l2

LEMMA CutLeft ==
  ASSUME NEW l \in AllLinks, NEW S \in SUBSET Nodes, LeftBehind(l, S), Sound(l, S),
         NEW list \in Nodes, NEW head \in S, NEW entry \in S
  PROVE  LeftBehind(Cut(l, list, head, entry), S \cup {list})
<1> DEFINE f == l.next[head]
           n == l.next[entry]
           l1 == Link(l, list, f)
           l2 == Link(l1, entry, list)
           T == S \cup {list}
<1>1. /\ f \in Nodes /\ n \in Nodes /\ list \in T /\ entry \in T /\ head \in T
      /\ T \in SUBSET Nodes /\ LeftBehind(l, T)
  BY MoreInUse DEF Sound
<1> HIDE DEF f, n, T
<1>2. l1 \in AllLinks /\ LeftBehind(l1, T)
  BY <1>1, LinkLeft
<1> HIDE DEF l1
<1>3. l2 \in AllLinks /\ LeftBehind(l2, T)
  BY <1>1, <1>2, LinkLeft
<1> HIDE DEF l2
<1>4. LeftBehind(Link(l2, head, n), T)
  BY <1>1, <1>3, LinkLeft
<1> QED BY <1>4 DEF Cut, f, n, l1, l2, T

LEMMA SpliceLeft ==
  ASSUME NEW l \in AllLinks, NEW S \in SUBSET Nodes, Sound(l, S), LeftBehind(l, S),
         NEW list \in S, l.next[list] # list, NEW p \in S, p # list, l.next[p] # list
  PROVE  LeftBehind(SpliceBetween(l, list, p, l.next[p]), S \ {list})
<1> DEFINE n == l.next[p]
           first == l.next[list]
           l1 == Link(l, p, first)
           last == l.prev[list]
           l2 == Link(l1, last, n)
<1>1. /\ {n, first, last, p} \subseteq S \ {list}
      /\ l.prev[n] = p /\ l.prev[first] = list /\ l.next[last] = list
      /\ p # last /\ n # first /\ {n, first, last, p} \subseteq Nodes
  BY DEF Sound
<1> HIDE DEF n, first, last
<1>2. Linked(l, p, first, l1)
  BY <1>1, LinkIs
<1>3. l1 \in AllLinks /\ LeftBehind(l1, S)
  BY <1>1, LinkLeft
<1> HIDE DEF l1
<1>4. Linked(l1, last, n, l2)
  BY <1>1, <1>3, LinkIs
<1>5. LeftBehind(l2, S)
  BY <1>1, <1>3, LinkLeft
<1> HIDE DEF l2
<1>6. l2.next[list] = first /\ l2.prev[first] = p
  BY <1>1, <1>2, <1>4 DEF Linked, first
<1>7. LeftBehind(l2, S \ {list})
  BY <1>1, <1>5, <1>6 DEF LeftBehind
<1> QED BY <1>7 DEF SpliceBetween, n, first, last, l1, l2

LEMMA AddKeepsLeft ==
  ASSUME RingsInv, NoneJoins, NEW e \in Entries, NEW pos \in Nodes, Add(e, pos) \/ Insert(e, pos)
  PROVE  NoneJoins'
<1>1. pos \in live /\ links.next[pos] \in live /\ links.prev[pos] \in live
      /\ live' = live \cup {e} /\ links \in AllLinks /\ live \in SUBSET Nodes
  BY DEF Add, Insert, Ready, RingsInv, Good, Sound
<1>2. \/ links' = AddBetween(links, e, pos, links.next[pos])
      \/ links' = AddBetween(links, e, links.prev[pos], pos)
  BY DEF Add, Insert, Do, ListAdd, ListAddTail
<1>3. LeftBehind(links', live \cup {e})
  BY <1>1, <1>2, AddLeft DEF NoneJoins
<1> QED BY <1>1, <1>3 DEF NoneJoins

LEMMA MoveKeepsLeft ==
  ASSUME RingsInv, NoneJoins, NEW e \in Listed, NEW h \in Ready,
         \/ links' = ListAdd(Unlink(links, e), e, h)
         \/ links' = ListAddTail(Unlink(links, e), e, h),
         UNCHANGED live
  PROVE  NoneJoins'
<1> DEFINE out == Unlink(links, e)
           S == live \ {e}
<1>1. out \in AllLinks /\ Sound(out, S) /\ LeftBehind(out, S) /\ S \in SUBSET Nodes
  BY UnlinkGood, UnlinkLeft DEF RingsInv, Good, Listed, NoneJoins
<1>2. h \in S /\ e \in Entries /\ S \cup {e} = live
  BY NodeAssumption DEF Listed, Ready
<1> HIDE DEF out, S
<1>3. out.next[h] \in S /\ out.prev[h] \in S
  BY <1>1, <1>2 DEF Sound
<1>4. links' = AddBetween(out, e, h, out.next[h]) \/ links' = AddBetween(out, e, out.prev[h], h)
  BY DEF ListAdd, ListAddTail, out
<1>5. LeftBehind(links', S \cup {e})
  BY <1>1, <1>2, <1>3, <1>4, AddLeft
<1> QED BY <1>2, <1>5 DEF NoneJoins

LEMMA RemoveKeepsLeft ==
  ASSUME RingsInv, NoneJoins, NEW e \in Listed, live' = live \ {e},
         \/ links' = Poisoned(Unlink(links, e), e)
         \/ links' = INIT_LIST_HEAD(Unlink(links, e), e)
  PROVE  NoneJoins'
<1>1. /\ Unlink(links, e) \in AllLinks /\ live \ {e} \in SUBSET Nodes
      /\ LeftBehind(Unlink(links, e), live \ {e})
  BY UnlinkGood, UnlinkLeft DEF RingsInv, Good, Listed, NoneJoins
<1> QED BY <1>1, ApartLeft DEF NoneJoins, Listed

LEMMA ReplaceKeepsLeft ==
  ASSUME RingsInv, NoneJoins, NEW old \in live, NEW new \in Nodes \ live,
         old \in Heads <=> new \in Heads,
         \/ /\ links' = Replace(links, old, new)
            /\ live' = (live \ {old}) \cup {new}
         \/ /\ links' = INIT_LIST_HEAD(Replace(links, old, new), old)
            /\ \/ live' = (live \ {old}) \cup {new} /\ old \in Entries
               \/ live' = live \cup {new}
  PROVE  NoneJoins'
<1> DEFINE out == Replace(links, old, new)
           S == (live \ {old}) \cup {new}
<1>1. /\ LeftBehind(out, S) /\ S \in SUBSET Nodes /\ out \in AllLinks
      /\ S \cup {old} = live \cup {new} /\ old \in Nodes
  BY ReplaceGood, ReplaceLeft DEF RingsInv, Good, NoneJoins
<1> HIDE DEF S, out
<1>2. CASE links' = out /\ live' = S
  BY <1>1, <1>2 DEF NoneJoins
<1>3. CASE links' = INIT_LIST_HEAD(out, old) /\ live' = S /\ old \in Entries
  BY <1>1, <1>3, ApartLeft DEF NoneJoins
<1>4. CASE links' = INIT_LIST_HEAD(out, old) /\ live' = live \cup {new}
  <2>1. LeftBehind(links', S \cup {old})
    BY <1>1, <1>4, InitLeft
  <2> QED BY <1>1, <1>4, <2>1 DEF NoneJoins
<1> QED BY <1>2, <1>3, <1>4 DEF out, S

LEMMA CutKeepsLeft ==
  ASSUME RingsInv, NoneJoins, NEW list \in Heads, NEW head \in Heads, NEW entry,
         CutPosition(list, head, entry)
  PROVE  NoneJoins'
<1>1. head \in live /\ list \in Nodes /\ links \in AllLinks /\ live \in SUBSET Nodes
      /\ Sound(links, live)
  BY DEF CutPosition, Ready, RingsInv, Good, Nodes
<1>2. CASE links' = links /\ UNCHANGED live
  BY <1>2 DEF NoneJoins
<1>3. CASE links' = INIT_LIST_HEAD(links, list) /\ live' = live \cup {list}
  BY <1>1, <1>3, InitLeft DEF NoneJoins
<1>4. CASE entry # head /\ links' = Cut(links, list, head, entry) /\ live' = live \cup {list}
  <2>1. entry \in live
    BY <1>4 DEF CutPosition, Listed
  <2>2. LeftBehind(links', live \cup {list})
    BY <1>1, <1>4, <2>1, CutLeft DEF NoneJoins
  <2> QED BY <1>4, <2>2 DEF NoneJoins
<1> QED BY <1>2, <1>3, <1>4 DEF CutPosition, Do

LEMMA SpliceKeepsLeft ==
  ASSUME RingsInv, NoneJoins, NEW list \in Heads, NEW head \in Heads, Splice(list, head)
  PROVE  NoneJoins'
<1> DEFINE p == links.prev[head]
           front == SpliceBetween(links, list, head, links.next[head])
           tail == SpliceBetween(links, list, p, head)
           S == live \ {list}
<1>1. /\ list \in live \cap Heads /\ head \in live \cap Heads /\ list # head
      /\ links.next[head] # list /\ p # list
      /\ links \in AllLinks /\ live \in SUBSET Nodes /\ Sound(links, live)
      /\ LeftBehind(links, live) /\ S \in SUBSET Nodes /\ S \cup {list} = live
  BY DEF Splice, Ready, RingsInv, Good, NoneJoins
<1>2. p \in live /\ links.next[p] = head
  BY <1>1 DEF Sound
<1>3. ASSUME links.next[list] # list
      PROVE  LeftBehind(front, S) /\ LeftBehind(tail, S) /\ front \in AllLinks /\ tail \in AllLinks
  <2>1. LeftBehind(front, S) /\ LeftBehind(tail, S)
    BY <1>1, <1>2, <1>3, SpliceLeft
  <2>2. Good(front, S) /\ Good(tail, S)
    BY <1>1, <1>3, SpliceGood DEF RingsInv
  <2> QED BY <2>1, <2>2 DEF Good
<1>4. \/ links' = links /\ UNCHANGED live
      \/ links.next[list] # list /\ links' \in {front, tail} /\ live' = S
      \/ /\ links.next[list] # list /\ UNCHANGED live
         /\ links' \in {INIT_LIST_HEAD(front, list), INIT_LIST_HEAD(tail, list)}
  BY DEF Splice, Do, ListEmpty
<1> HIDE DEF front, tail, S, p
<1>5. CASE links' = links /\ UNCHANGED live
  BY <1>5 DEF NoneJoins
<1>6. CASE links.next[list] # list /\ links' \in {front, tail} /\ live' = S
  BY <1>3, <1>6 DEF NoneJoins
<1>7. CASE /\ links.next[list] # list /\ UNCHANGED live
           /\ links' \in {INIT_LIST_HEAD(front, list), INIT_LIST_HEAD(tail, list)}
  <2>1. LeftBehind(links', S \cup {list})
    BY <1>1, <1>3, <1>7, InitLeft
  <2> QED BY <1>1, <1>7, <2>1 DEF NoneJoins
<1> QED BY <1>4, <1>5, <1>6, <1>7

LEMMA NoneJoinsHolds == RingsInv /\ NoneJoins /\ [ListsNext]_listVars => NoneJoins'
<1> SUFFICES ASSUME RingsInv, NoneJoins, [ListsNext]_listVars PROVE NoneJoins'
  OBVIOUS
<1>1. ASSUME NEW h \in Heads, Initialise(h) PROVE NoneJoins'
  <2>1. links' = INIT_LIST_HEAD(links, h) /\ live' = live \cup {h} /\ h \in Nodes
    BY <1>1 DEF Initialise, Do, Nodes
  <2> QED BY <2>1, InitLeft DEF RingsInv, Good, NoneJoins
<1>2. ASSUME NEW e \in Entries, NEW h \in Heads, Add(e, h) PROVE NoneJoins'
  BY <1>2, AddKeepsLeft DEF Nodes
<1>3. ASSUME NEW e \in Entries, NEW h \in Heads, Move(e, h) PROVE NoneJoins'
  BY <1>3, MoveKeepsLeft DEF Move, Do
<1>4. ASSUME NEW e \in Entries, NEW pos \in Nodes, Insert(e, pos) PROVE NoneJoins'
  BY <1>4, AddKeepsLeft
<1>5. ASSUME NEW e \in Entries, Del(e) PROVE NoneJoins'
  BY <1>5, RemoveKeepsLeft DEF Del, Do
<1>6. ASSUME NEW e \in Entries, NEW new \in Entries, ReplaceEntry(e, new) PROVE NoneJoins'
  <2>1. e \in live /\ new \in Nodes \ live /\ (e \in Heads <=> new \in Heads)
    BY <1>6, NodeAssumption DEF ReplaceEntry, Listed, Nodes
  <2> QED BY <1>6, <2>1, ReplaceKeepsLeft DEF ReplaceEntry, Do
<1>7. ASSUME NEW h \in Heads, NEW new \in Heads, ReplaceHead(h, new) PROVE NoneJoins'
  <2>1. h \in live /\ new \in Nodes \ live
    BY <1>7 DEF ReplaceHead, Ready, Nodes
  <2> QED BY <1>7, <2>1, ReplaceKeepsLeft DEF ReplaceHead, Do
<1>8. ASSUME NEW list \in Heads, NEW head \in Heads, NEW entry \in Nodes,
             CutPosition(list, head, entry)
      PROVE NoneJoins'
  BY <1>8, CutKeepsLeft
<1>9. ASSUME NEW list \in Heads, NEW head \in Heads, Splice(list, head) PROVE NoneJoins'
  BY <1>9, SpliceKeepsLeft
<1>10. CASE \/ \E h \in Heads, way \in {"next", "prev"} : ForEachSafe(h, way)
            \/ ForEachSafeNext \/ ForEachSafeEnd \/ UNCHANGED listVars
  BY <1>10 DEF ForEachSafe, ForEachSafeNext, ForEachSafeEnd, listVars, NoneJoins
<1>11. CASE Body
  <2>1. walk.pos \in Listed
    BY <1>11 DEF Body
  <2>2. CASE /\ links' = INIT_LIST_HEAD(Unlink(links, walk.pos), walk.pos)
             /\ live' = live \ {walk.pos}
    BY <2>1, <2>2, RemoveKeepsLeft
  <2>3. ASSUME NEW h \in Ready, links' = ListAddTail(Unlink(links, walk.pos), walk.pos, h),
               UNCHANGED live
        PROVE NoneJoins'
    BY <2>1, <2>3, MoveKeepsLeft
  <2> QED BY <1>11, <2>2, <2>3 DEF Body
<1> QED BY <1>1, <1>2, <1>3, <1>4, <1>5, <1>6, <1>7, <1>8, <1>9, <1>10, <1>11
        DEF ListsNext

-----------------------------------------------------------------------------
(* The calls as operations on sequences.  Around a ring the entries come    *)
(* after the head, and before it.                                           *)
Around(s, h, k) == IF k \in 1..Len(s) THEN s[k] ELSE h

LEMMA RingGives ==
  ASSUME NEW l, NEW S, Sound(l, S), NEW h \in S \cap Heads, NEW s, RingIs(l, S, h, s)
  PROVE  /\ Len(s) \in Nat /\ \A k \in 1..Len(s) : s[k] \in S \cap Entries /\ s[k] # h
         /\ \A k \in Int : Around(s, h, k) \in S
         /\ \A k \in 0..Len(s) : l.next[Around(s, h, k)] = Around(s, h, k + 1)
         /\ \A k \in 1 .. Len(s) + 1 : l.prev[Around(s, h, k)] = Around(s, h, k - 1)
         /\ \A j \in 1..Len(s), k \in Int : Around(s, h, k) = s[j] => k = j
<1>1. Len(s) \in Nat /\ \A k \in 1..Len(s) : s[k] \in S \cap Entries /\ s[k] # h
  BY ElementOfSeq, NodeAssumption DEF RingIs
<1>2. \A k \in Int : Around(s, h, k) \in S
  BY <1>1 DEF Around
<1>3. ASSUME NEW k \in 0..Len(s) PROVE l.next[Around(s, h, k)] = Around(s, h, k + 1)
  <2>1. CASE k = 0
    BY <1>1, <2>1 DEF RingIs, Around
  <2>2. CASE k # 0
    <3>1. k \in 1..Len(s) /\ (k + 1 \in 1..Len(s) <=> k # Len(s))
      BY <1>1, <2>2
    <3> QED BY <3>1 DEF RingIs, Around
  <2> QED BY <2>1, <2>2
<1>4. ASSUME NEW k \in 1 .. Len(s) + 1 PROVE l.prev[Around(s, h, k)] = Around(s, h, k - 1)
  <2>1. k - 1 \in 0..Len(s) /\ (k - 1) + 1 = k /\ k - 1 \in Int
    BY <1>1
  <2>2. l.next[Around(s, h, k - 1)] = Around(s, h, k) /\ Around(s, h, k - 1) \in S
    BY <1>2, <1>3, <2>1
  <2> QED BY <2>2 DEF Sound
<1>5. ASSUME NEW j \in 1..Len(s), NEW k \in Int, Around(s, h, k) = s[j] PROVE k = j
  BY <1>1, <1>5 DEF Around, RingIs, IsInjective
<1> QED BY <1>1, <1>2, <1>3, <1>4, <1>5

LEMMA RingFrom ==
  ASSUME NEW l, NEW S, NEW h, NEW s \in Seq(S \cap Entries),
         \A i, j \in 1..Len(s) : s[i] = s[j] => i = j,
         \A k \in 0..Len(s) : l.next[Around(s, h, k)] = Around(s, h, k + 1)
  PROVE  RingIs(l, S, h, s)
<1>1. Len(s) \in Nat /\ DOMAIN s = 1..Len(s)
  OBVIOUS
<1>2. l.next[h] = IF Len(s) = 0 THEN h ELSE s[1]
  <2>1. 0 \in 0..Len(s) /\ 0 + 1 = 1 /\ ~(0 \in 1..Len(s)) /\ (1 \in 1..Len(s) <=> Len(s) # 0)
    BY <1>1
  <2> QED BY <2>1 DEF Around
<1>3. ASSUME NEW k \in 1..Len(s) PROVE l.next[s[k]] = IF k = Len(s) THEN h ELSE s[k + 1]
  <2>1. Len(s) \in Nat
    BY <1>1
  <2>2. k \in 0..Len(s) /\ (k + 1 \in 1..Len(s) <=> k # Len(s))
    BY <2>1
  <2> QED BY <2>2 DEF Around
<1> QED BY <1>1, <1>2, <1>3 DEF RingIs, IsInjective

(* A ring has one sequence of entries. *)
LEMMA RingOnce ==
  ASSUME NEW l, NEW S, NEW T, NEW h \in Heads, NEW s, NEW t,
         RingIs(l, S, h, s), RingIs(l, T, h, t)
  PROVE  s = t
<1>1. /\ Len(s) \in Nat /\ \A k \in 1..Len(s) : s[k] # h
      /\ Len(t) \in Nat /\ \A k \in 1..Len(t) : t[k] # h
  BY ElementOfSeq, NodeAssumption DEF RingIs
<1> DEFINE U == {k \in Nat : /\ k <= Len(s) <=> k <= Len(t)
                             /\ k \in 1..Len(s) => s[k] = t[k]}
<1>2. 0 \in U
  BY <1>1
<1>3. ASSUME NEW k \in Nat, k \in U PROVE k + 1 \in U
  <2>1. CASE k = 0
    <3>1. l.next[h] = (IF Len(s) = 0 THEN h ELSE s[1])
          /\ l.next[h] = (IF Len(t) = 0 THEN h ELSE t[1])
      BY DEF RingIs
    <3> QED BY <1>1, <2>1, <3>1
  <2>2. CASE k # 0 /\ k <= Len(s)
    <3>1. k \in 1..Len(s) /\ k \in 1..Len(t) /\ s[k] = t[k]
      BY <1>1, <1>3, <2>2
    <3>2. /\ l.next[s[k]] = IF k = Len(s) THEN h ELSE s[k + 1]
          /\ l.next[t[k]] = IF k = Len(t) THEN h ELSE t[k + 1]
      BY <3>1 DEF RingIs
    <3>3. /\ k # Len(s) => k + 1 \in 1..Len(s) /\ s[k + 1] # h
          /\ k # Len(t) => k + 1 \in 1..Len(t) /\ t[k + 1] # h
      BY <1>1, <3>1
    <3> QED BY <1>1, <3>1, <3>2, <3>3
  <2>3. CASE k > Len(s)
    BY <1>1, <1>3, <2>3
  <2> QED BY <1>1, <2>1, <2>2, <2>3
<1> HIDE DEF U
<1>4. Nat \subseteq U
  BY <1>2, <1>3, Induct
<1>5. \A k \in Nat : /\ k <= Len(s) <=> k <= Len(t)
                     /\ k \in 1..Len(s) => s[k] = t[k]
  BY <1>4 DEF U
<1>6. Len(s) = Len(t)
  BY <1>1, <1>5
<1>7. \A k \in 1..Len(s) : s[k] = t[k]
  BY <1>1, <1>5
<1>8. s \in Seq(Entries) /\ t \in Seq(Entries)
  BY DEF RingIs
<1> QED BY <1>6, <1>7, <1>8, SeqEqual

(* What is in the lists, and that it is all there is to say of them. *)
Rings(l, S, L) ==
  /\ Good(l, S) /\ LeftBehind(l, S)
  /\ L = [h \in S \cap Heads |-> L[h]]
  /\ \A h \in S \cap Heads : RingIs(l, S, h, L[h])

LEMMA RingsOnce ==
  ASSUME NEW l, NEW S, NEW T, NEW L, NEW M, Rings(l, S, L), Rings(l, T, M)
  PROVE  L = M
<1>1. S \cap Heads = T \cap Heads
  BY DEF Rings, Good, Sound, LeftBehind
<1>2. \A h \in S \cap Heads : L[h] = M[h]
  BY <1>1, RingOnce DEF Rings
<1>3. L = [h \in S \cap Heads |-> L[h]] /\ M = [h \in T \cap Heads |-> M[h]]
  BY DEF Rings
<1> QED BY <1>1, <1>2, <1>3

LEMMA ListsRings == RingsInv /\ NoneJoins => Rings(links, live, Lists)
<1> SUFFICES ASSUME RingsInv, NoneJoins PROVE Rings(links, live, Lists)
  OBVIOUS
<1>1. \A h \in Ready : RingIs(links, live, h, Contents(h))
  BY ContentsRing DEF RingsInv
<1>2. Lists = [h \in live \cap Heads |-> Lists[h]]
  BY DEF Lists, Ready
<1>3. \A h \in live \cap Heads : Lists[h] = Contents(h)
  BY DEF Lists, Ready
<1> QED BY <1>1, <1>2, <1>3 DEF Rings, RingsInv, NoneJoins, Ready

(* Two heads have no node in common. *)
LEMMA RingsDisjoint ==
  ASSUME NEW l, NEW S, NEW L, Good(l, S), \A h \in S \cap Heads : RingIs(l, S, h, L[h]),
         NEW g \in S \cap Heads, NEW h \in S \cap Heads, g # h
  PROVE  \A i, j \in Int : Around(L[g], g, i) # Around(L[h], h, j)
<1>1. PICK f \in [S -> S \cap Heads] : Owned(l, S, f)
  BY DEF Good, HasOwner
<1>2. f[g] = g /\ f[h] = h
  BY <1>1 DEF Owned
<1>3. \A i \in 1..Len(L[g]) : f[L[g][i]] = g
  BY <1>1, RingOwned
<1>4. \A i \in 1..Len(L[h]) : f[L[h][i]] = h
  BY <1>1, RingOwned
<1>5. \A i, j \in Int : f[Around(L[g], g, i)] = g /\ f[Around(L[h], h, j)] = h
  BY <1>2, <1>3, <1>4 DEF Around
<1> QED BY <1>5

LEMMA RingsApart ==
  ASSUME NEW l, NEW S, NEW L, Rings(l, S, L), NEW g \in S \cap Heads, NEW h \in S \cap Heads, g # h
  PROVE  \A i, j \in Int : Around(L[g], g, i) # Around(L[h], h, j)
BY RingsDisjoint DEF Rings

(* A ring none of whose pointers along next changes stays. *)
LEMMA RingKept ==
  ASSUME NEW l, NEW new, NEW S, NEW T, NEW h, NEW s, RingIs(l, S, h, s),
         S \cap Entries \subseteq T \/ \A k \in 1..Len(s) : s[k] \in T,
         \A k \in Int : new.next[Around(s, h, k)] = l.next[Around(s, h, k)]
  PROVE  RingIs(new, T, h, s)
<1>1. s \in Seq(S \cap Entries) /\ Len(s) \in Nat /\ \A k \in 1..Len(s) : s[k] \in S \cap Entries
  BY ElementOfSeq DEF RingIs
<1>2. \A k \in 1..Len(s) : s[k] \in T \cap Entries
  BY <1>1
<1>3. s \in Seq(T \cap Entries)
  BY <1>1, <1>2
<1>4. new.next[h] = l.next[h]
  <2>1. Around(s, h, 0) = h /\ 0 \in Int
    BY DEF Around
  <2> QED BY <2>1
<1>5. \A k \in 1..Len(s) : new.next[s[k]] = l.next[s[k]]
  <2>1. \A k \in 1..Len(s) : Around(s, h, k) = s[k] /\ k \in Int
    BY DEF Around
  <2> QED BY <2>1
<1> QED BY <1>3, <1>4, <1>5 DEF RingIs

LEMMA InsertIs ==
  ASSUME NEW S, NEW s \in Seq(S), NEW e \in S, NEW k \in 1 .. Len(s) + 1
  PROVE  /\ InsertAt(s, k, e) \in Seq(S) /\ Len(InsertAt(s, k, e)) = Len(s) + 1
         /\ \A i \in 1 .. Len(s) + 1 :
              InsertAt(s, k, e)[i] = IF i < k THEN s[i] ELSE IF i = k THEN e ELSE s[i - 1]
<1> DEFINE a == SubSeq(s, 1, k - 1)
           b == SubSeq(s, k, Len(s))
           c == a \o <<e>>
<1>1. Len(s) \in Nat /\ k \in Nat /\ \A i \in 1..Len(s) : s[i] \in S
  BY ElementOfSeq
<1>2. a \in Seq(S) /\ Len(a) = k - 1 /\ \A i \in 1 .. k - 1 : a[i] = s[i]
  BY <1>1, SubSeqProperties
<1>3. b \in Seq(S) /\ Len(b) = Len(s) - k + 1 /\ \A i \in 1 .. Len(s) - k + 1 : b[i] = s[k + i - 1]
  BY <1>1, SubSeqProperties
<1>4. <<e>> \in Seq(S) /\ Len(<<e>>) = 1 /\ <<e>>[1] = e
  OBVIOUS
<1> HIDE DEF a, b
<1>5. /\ c \in Seq(S) /\ Len(c) = k
      /\ \A i \in 1..k : c[i] = IF i < k THEN s[i] ELSE e
  <2>1. /\ c \in Seq(S) /\ Len(c) = Len(a) + 1
        /\ \A i \in 1 .. Len(a) + 1 : c[i] = IF i <= Len(a) THEN a[i] ELSE <<e>>[i - Len(a)]
    BY <1>2, <1>4, ConcatProperties
  <2> HIDE DEF c
  <2>2. Len(a) + 1 = k /\ \A i \in 1..k : i <= Len(a) <=> i < k
    BY <1>1, <1>2
  <2>3. ASSUME NEW i \in 1..k PROVE c[i] = IF i < k THEN s[i] ELSE e
    <3>1. c[i] = IF i < k THEN a[i] ELSE <<e>>[i - Len(a)]
      BY <2>1, <2>2
    <3>2. CASE i < k
      <4>1. i \in 1 .. k - 1
        BY <1>1, <3>2
      <4> QED BY <1>2, <3>1, <3>2, <4>1
    <3>3. CASE ~(i < k)
      <4>1. i - Len(a) = 1
        BY <1>1, <1>2, <3>3
      <4> QED BY <1>4, <3>1, <3>3, <4>1
    <3> QED BY <3>2, <3>3
  <2> QED BY <2>1, <2>2, <2>3
<1> HIDE DEF c
<1>6. /\ c \o b \in Seq(S) /\ Len(c \o b) = Len(c) + Len(b)
      /\ \A i \in 1 .. Len(c) + Len(b) : (c \o b)[i] = IF i <= Len(c) THEN c[i] ELSE b[i - Len(c)]
  BY <1>3, <1>5, ConcatProperties
<1>7. InsertAt(s, k, e) = c \o b
  BY DEF InsertAt, a, b, c
<1> DEFINE t == c \o b
<1> HIDE DEF t
<1>8. \A i \in 1 .. Len(s) + 1 : t[i] = IF i < k THEN s[i] ELSE IF i = k THEN e ELSE s[i - 1]
  <2> SUFFICES ASSUME NEW i \in 1 .. Len(s) + 1
               PROVE  t[i] = IF i < k THEN s[i] ELSE IF i = k THEN e ELSE s[i - 1]
    OBVIOUS
  <2>1. i \in 1 .. Len(c) + Len(b)
    BY <1>1, <1>3, <1>5
  <2>2. t[i] = IF i <= k THEN c[i] ELSE b[i - k]
    BY <1>5, <1>6, <2>1 DEF t
  <2>3. CASE i <= k
    <3>1. i \in 1..k
      BY <1>1, <2>3
    <3> QED BY <1>1, <1>5, <2>2, <2>3, <3>1
  <2>4. CASE ~(i <= k)
    <3>1. i - k \in 1 .. Len(s) - k + 1 /\ k + (i - k) - 1 = i - 1
      BY <1>1, <2>4
    <3> QED BY <1>1, <1>3, <2>2, <2>4, <3>1
  <2> QED BY <2>3, <2>4
<1> QED BY <1>1, <1>3, <1>5, <1>6, <1>7, <1>8 DEF t

LEMMA InsertRing ==
  ASSUME NEW l, NEW new, NEW S, Sound(l, S), NEW h \in S \cap Heads, NEW s, RingIs(l, S, h, s),
         NEW e \in Entries \ S, NEW k \in 1 .. Len(s) + 1,
         new.next[Around(s, h, k - 1)] = e, new.next[e] = Around(s, h, k),
         \A x \in S \ {Around(s, h, k - 1)} : new.next[x] = l.next[x]
  PROVE  RingIs(new, S \cup {e}, h, InsertAt(s, k, e))
<1> DEFINE t == InsertAt(s, k, e)
           T == S \cup {e}
<1>1. /\ Len(s) \in Nat /\ \A i \in 1..Len(s) : s[i] \in S \cap Entries
      /\ \A i \in Int : Around(s, h, i) \in S
      /\ \A i \in 0..Len(s) : l.next[Around(s, h, i)] = Around(s, h, i + 1)
      /\ \A j \in 1..Len(s), i \in Int : Around(s, h, i) = s[j] => i = j
  BY RingGives
<1>2. k \in Nat /\ 1 <= k /\ k <= Len(s) + 1 /\ e \in T \cap Entries
  BY <1>1
<1>3. s \in Seq(T \cap Entries)
  BY DEF RingIs
<1>4. /\ t \in Seq(T \cap Entries) /\ Len(t) = Len(s) + 1
      /\ \A i \in 1 .. Len(s) + 1 : t[i] = IF i < k THEN s[i] ELSE IF i = k THEN e ELSE s[i - 1]
  <2> DEFINE U == T \cap Entries
  <2>1. s \in Seq(U) /\ e \in U
    BY <1>2, <1>3
  <2> HIDE DEF U
  <2>2. /\ t \in Seq(U) /\ Len(t) = Len(s) + 1
        /\ \A i \in 1 .. Len(s) + 1 : t[i] = IF i < k THEN s[i] ELSE IF i = k THEN e ELSE s[i - 1]
    BY <2>1, InsertIs
  <2> QED BY <2>2 DEF U
<1> HIDE DEF t, T
<1>5. \A i, j \in 1..Len(s) : s[i] = s[j] => i = j
  BY DEF RingIs, IsInjective
<1>6. ASSUME NEW i \in 1..Len(t), NEW j \in 1..Len(t), t[i] = t[j] PROVE i = j
  <2> DEFINE I(x) == IF x < k THEN x ELSE x - 1
  <2>1. \A x \in 1..Len(t) : x # k => I(x) \in 1..Len(s) /\ t[x] = s[I(x)] /\ t[x] # e
    <3> SUFFICES ASSUME NEW x \in 1..Len(t), x # k
                 PROVE  I(x) \in 1..Len(s) /\ t[x] = s[I(x)] /\ t[x] # e
      OBVIOUS
    <3>1. I(x) \in 1..Len(s) /\ x \in 1 .. Len(s) + 1
      BY <1>1, <1>2, <1>4
    <3>2. t[x] = s[I(x)]
      BY <1>4, <3>1
    <3> HIDE DEF I
    <3> QED BY <1>1, <3>1, <3>2
  <2>2. t[k] = e
    BY <1>2, <1>4
  <2>3. CASE i = k \/ j = k
    BY <1>6, <2>1, <2>2, <2>3
  <2>4. CASE i # k /\ j # k
    <3>1. I(i) = I(j)
      <4> HIDE DEF I
      <4> QED BY <1>5, <1>6, <2>1, <2>4
    <3> QED BY <1>2, <1>4, <2>4, <3>1
  <2> QED BY <2>3, <2>4
<1>7. /\ \A i \in Int : i < k => Around(t, h, i) = Around(s, h, i)
      /\ Around(t, h, k) = e
      /\ \A i \in Int : i > k => Around(t, h, i) = Around(s, h, i - 1)
  <2>1. ASSUME NEW i \in Int, i < k PROVE Around(t, h, i) = Around(s, h, i)
    <3>1. i \in 1..Len(t) <=> i \in 1..Len(s)
      BY <1>1, <1>2, <1>4, <2>1
    <3>2. i \in 1..Len(s) => t[i] = s[i]
      BY <1>1, <1>4, <2>1
    <3> QED BY <3>1, <3>2 DEF Around
  <2>2. Around(t, h, k) = e
    <3>1. k \in 1..Len(t) /\ k \in 1 .. Len(s) + 1
      BY <1>1, <1>2, <1>4
    <3>2. t[k] = e
      BY <1>2, <1>4, <3>1
    <3> QED BY <3>1, <3>2 DEF Around
  <2>3. ASSUME NEW i \in Int, i > k PROVE Around(t, h, i) = Around(s, h, i - 1)
    <3>1. i \in 1..Len(t) <=> i - 1 \in 1..Len(s)
      BY <1>1, <1>2, <1>4, <2>3
    <3>2. i - 1 \in 1..Len(s) => t[i] = s[i - 1]
      BY <1>1, <1>2, <1>4, <2>3
    <3> QED BY <3>1, <3>2 DEF Around
  <2> QED BY <2>1, <2>2, <2>3
<1>8. ASSUME NEW i \in 0..Len(t) PROVE new.next[Around(t, h, i)] = Around(t, h, i + 1)
  <2>0. i \in Int /\ i + 1 \in Int /\ i - 1 \in Int /\ (i + 1) - 1 = i /\ (i - 1) + 1 = i /\ k - 1 \in Int
    BY <1>1, <1>2
  <2>1. CASE i < k - 1
    <3>1. /\ i \in 0..Len(s) /\ k - 1 \in 1..Len(s) /\ i < k /\ i + 1 < k /\ i # k - 1
      BY <1>1, <1>2, <1>4, <2>1
    <3>2. Around(s, h, k - 1) = s[k - 1]
      BY <3>1 DEF Around
    <3>3. Around(s, h, i) \in S \ {Around(s, h, k - 1)}
      BY <1>1, <2>0, <3>1, <3>2
    <3> QED BY <1>1, <1>7, <2>0, <3>1, <3>3
  <2>2. CASE i = k - 1
    <3>1. i < k /\ i + 1 = k
      BY <1>2, <2>2
    <3> QED BY <1>7, <2>0, <2>2, <3>1
  <2>3. CASE i = k
    <3>1. i + 1 > k /\ (i + 1) - 1 = k
      BY <1>2, <2>3
    <3> QED BY <1>7, <2>0, <2>3, <3>1
  <2>4. CASE i > k
    <3>1. i - 1 \in 1..Len(s) /\ i - 1 \in 0..Len(s) /\ i - 1 # k - 1 /\ i + 1 > k
      BY <1>1, <1>2, <1>4, <2>4
    <3>2. Around(s, h, i - 1) = s[i - 1]
      BY <3>1 DEF Around
    <3>3. Around(s, h, i - 1) \in S \ {Around(s, h, k - 1)}
      BY <1>1, <2>0, <3>1, <3>2
    <3> QED BY <1>1, <1>7, <2>0, <2>4, <3>1, <3>3
  <2> QED BY <1>2, <2>0, <2>1, <2>2, <2>3, <2>4
<1> QED BY <1>4, <1>6, <1>8, RingFrom DEF t, T

LEMMA InsertLists ==
  ASSUME NEW l, NEW S, NEW L, Rings(l, S, L), NEW e \in Entries \ S, NEW h \in S \cap Heads,
         NEW k \in 1 .. Len(L[h]) + 1
  PROVE  Rings(AddBetween(l, e, Around(L[h], h, k - 1), Around(L[h], h, k)), S \cup {e},
               [L EXCEPT ![h] = InsertAt(@, k, e)])
<1> DEFINE s == L[h]
           p == Around(s, h, k - 1)
           n == Around(s, h, k)
           l1 == Link(l, e, n)
           new == AddBetween(l, e, p, n)
           T == S \cup {e}
           M == [L EXCEPT ![h] = InsertAt(@, k, e)]
<1>1. /\ RingIs(l, S, h, s) /\ Good(l, S) /\ LeftBehind(l, S)
      /\ l \in AllLinks /\ S \in SUBSET Nodes /\ Sound(l, S)
  BY DEF Rings, Good
<1>2. /\ Len(s) \in Nat /\ \A i \in Int : Around(s, h, i) \in S
      /\ \A i \in 0..Len(s) : l.next[Around(s, h, i)] = Around(s, h, i + 1)
  BY <1>1, RingGives
<1>3. k - 1 \in 0..Len(s) /\ k \in Int /\ k - 1 \in Int /\ (k - 1) + 1 = k
  BY <1>2
<1>4. p \in S /\ n \in S /\ l.next[p] = n
  BY <1>2, <1>3
<1> HIDE DEF p, n, s
<1>5. Good(new, T)
  BY <1>1, <1>4, AddGood
<1>6. LeftBehind(new, T)
  BY <1>1, <1>4, AddLeft
<1>7. /\ new.next[p] = e /\ new.next[e] = n
      /\ \A x \in S \ {p} : new.next[x] = l.next[x]
  <2>0. e \in Nodes /\ n \in Nodes /\ p \in Nodes
    BY <1>1, <1>4 DEF Nodes
  <2>1. /\ l1 \in AllLinks /\ l1.next[e] = n
        /\ \A x \in Nodes \ {e} : l1.next[x] = l.next[x]
    BY <1>1, <2>0, NextOf
  <2> HIDE DEF l1
  <2>2. /\ Link(l1, p, e).next[p] = e
        /\ \A x \in Nodes \ {p} : Link(l1, p, e).next[x] = l1.next[x]
    BY <2>0, <2>1, NextOf
  <2>3. new = Link(l1, p, e)
    BY DEF AddBetween, l1
  <2> QED BY <1>1, <1>4, <2>0, <2>1, <2>2, <2>3
<1> HIDE DEF new
<1>8. RingIs(new, T, h, InsertAt(s, k, e))
  BY <1>1, <1>7, InsertRing DEF p, n, s
<1>9. ASSUME NEW g \in S \cap Heads, g # h PROVE RingIs(new, T, g, L[g])
  <2>1. RingIs(l, S, g, L[g])
    BY DEF Rings
  <2>2. \A i \in Int : Around(L[g], g, i) \in S
    BY <1>1, <2>1, RingGives
  <2>3. \A i \in Int : Around(L[g], g, i) # p
    BY <1>3, <1>9, RingsApart DEF p, s
  <2> QED BY <1>7, <2>1, <2>2, <2>3, RingKept
<1>10. T \cap Heads = S \cap Heads
  BY NodeAssumption
<1>11. /\ M = [g \in T \cap Heads |-> M[g]]
       /\ \A g \in T \cap Heads : M[g] = IF g = h THEN InsertAt(s, k, e) ELSE L[g]
  <2>1. L = [g \in S \cap Heads |-> L[g]]
    BY DEF Rings
  <2> HIDE DEF T
  <2> QED BY <1>10, <2>1 DEF s
<1> HIDE DEF M, T
<1>12. \A g \in T \cap Heads : RingIs(new, T, g, M[g])
  BY <1>8, <1>9, <1>10, <1>11
<1>13. Rings(new, T, M)
  BY <1>5, <1>6, <1>11, <1>12 DEF Rings
<1> QED BY <1>13 DEF new, T, M, p, n, s

LEMMA RemoveIs ==
  ASSUME NEW S, NEW s \in Seq(S), NEW k \in 1..Len(s)
  PROVE  /\ RemoveAt(s, k) \in Seq(S) /\ Len(RemoveAt(s, k)) = Len(s) - 1
         /\ \A i \in 1 .. Len(s) - 1 : RemoveAt(s, k)[i] = IF i < k THEN s[i] ELSE s[i + 1]
<1> DEFINE a == SubSeq(s, 1, k - 1)
           b == SubSeq(s, k + 1, Len(s))
<1>1. Len(s) \in Nat /\ k \in Nat /\ 1 <= k /\ k <= Len(s) /\ \A i \in 1..Len(s) : s[i] \in S
  BY ElementOfSeq
<1>2. a \in Seq(S) /\ Len(a) = k - 1 /\ \A i \in 1 .. k - 1 : a[i] = s[i]
  BY <1>1, SubSeqProperties
<1>3. b \in Seq(S) /\ Len(b) = Len(s) - k /\ \A i \in 1 .. Len(s) - k : b[i] = s[k + i]
  <2>1. /\ b \in Seq(S)
        /\ Len(b) = IF k + 1 <= Len(s) THEN Len(s) - (k + 1) + 1 ELSE 0
        /\ \A i \in 1 .. Len(s) - (k + 1) + 1 : b[i] = s[(k + 1) + i - 1]
    BY <1>1, SubSeqProperties
  <2> HIDE DEF b
  <2>2. Len(s) - (k + 1) + 1 = Len(s) - k /\ \A i \in 1 .. Len(s) - k : (k + 1) + i - 1 = k + i
    BY <1>1
  <2> QED BY <1>1, <2>1, <2>2
<1> HIDE DEF a, b
<1> DEFINE t == a \o b
<1>4. /\ t \in Seq(S) /\ Len(t) = Len(a) + Len(b)
      /\ \A i \in 1 .. Len(a) + Len(b) : t[i] = IF i <= Len(a) THEN a[i] ELSE b[i - Len(a)]
  BY <1>2, <1>3, ConcatProperties
<1> HIDE DEF t
<1>5. ASSUME NEW i \in 1 .. Len(s) - 1 PROVE t[i] = IF i < k THEN s[i] ELSE s[i + 1]
  <2>1. i \in 1 .. Len(a) + Len(b)
    BY <1>1, <1>2, <1>3
  <2>2. CASE i < k
    <3>1. i \in 1 .. k - 1
      BY <1>1, <2>2
    <3> QED BY <1>1, <1>2, <1>4, <2>1, <2>2, <3>1
  <2>3. CASE ~(i < k)
    <3>1. i - (k - 1) \in 1 .. Len(s) - k /\ k + (i - (k - 1)) = i + 1
      BY <1>1, <2>3
    <3> QED BY <1>1, <1>2, <1>3, <1>4, <2>1, <2>3, <3>1
  <2> QED BY <2>2, <2>3
<1>6. RemoveAt(s, k) = t
  BY DEF RemoveAt, a, b, t
<1> QED BY <1>1, <1>2, <1>3, <1>4, <1>5, <1>6

LEMMA RemoveRing ==
  ASSUME NEW l, NEW new, NEW S, Sound(l, S), NEW h \in S \cap Heads, NEW s, RingIs(l, S, h, s),
         NEW k \in 1..Len(s), new.next[Around(s, h, k - 1)] = Around(s, h, k + 1),
         \A x \in S \ {Around(s, h, k - 1), s[k]} : new.next[x] = l.next[x]
  PROVE  RingIs(new, S \ {s[k]}, h, RemoveAt(s, k))
<1> DEFINE t == RemoveAt(s, k)
           T == S \ {s[k]}
           I(i) == IF i < k THEN i ELSE i + 1
<1>1. /\ Len(s) \in Nat /\ \A i \in 1..Len(s) : s[i] \in S \cap Entries
      /\ \A i \in Int : Around(s, h, i) \in S
      /\ \A i \in 0..Len(s) : l.next[Around(s, h, i)] = Around(s, h, i + 1)
      /\ \A j \in 1..Len(s), i \in Int : Around(s, h, i) = s[j] => i = j
  BY RingGives
<1>2. k \in Nat /\ 1 <= k /\ k <= Len(s) /\ k - 1 \in Int /\ k + 1 \in Int
  BY <1>1
<1>3. \A i, j \in 1..Len(s) : s[i] = s[j] => i = j
  BY DEF RingIs, IsInjective
<1>4. /\ t \in Seq(S \cap Entries) /\ Len(t) = Len(s) - 1
      /\ \A i \in 1 .. Len(s) - 1 : t[i] = IF i < k THEN s[i] ELSE s[i + 1]
  BY RemoveIs DEF RingIs
<1> HIDE DEF t
<1>5. \A i \in 1..Len(t) : t[i] = s[I(i)] /\ I(i) \in 1..Len(s) /\ I(i) # k
  BY <1>1, <1>2, <1>4
<1>6. \A i \in Int : Around(t, h, i) = Around(s, h, I(i))
  <2> SUFFICES ASSUME NEW i \in Int PROVE Around(t, h, i) = Around(s, h, I(i))
    OBVIOUS
  <2>1. CASE i \in 1..Len(t)
    BY <1>5, <2>1 DEF Around
  <2>2. CASE i \notin 1..Len(t)
    <3>1. I(i) \notin 1..Len(s)
      BY <1>1, <1>2, <1>4, <2>2
    <3> HIDE DEF I
    <3> QED BY <2>2, <3>1 DEF Around
  <2> QED BY <2>1, <2>2
<1>7. t \in Seq(T \cap Entries)
  <2>1. \A i \in 1..Len(t) : t[i] \in T \cap Entries
    <3> SUFFICES ASSUME NEW i \in 1..Len(t) PROVE t[i] \in T \cap Entries
      OBVIOUS
    <3>1. PICK j \in 1..Len(s) : t[i] = s[j] /\ j # k
      <4> HIDE DEF I
      <4> QED BY <1>5
    <3> QED BY <1>1, <1>3, <3>1
  <2> HIDE DEF T
  <2> QED BY <1>4, <2>1
<1>8. ASSUME NEW i \in 1..Len(t), NEW j \in 1..Len(t), t[i] = t[j] PROVE i = j
  <2>1. I(i) = I(j)
    <3>1. PICK a, b \in 1..Len(s) : t[i] = s[a] /\ t[j] = s[b] /\ a = I(i) /\ b = I(j)
      <4> HIDE DEF I
      <4> QED BY <1>5
    <3> HIDE DEF I
    <3>2. a = b
      <4>1. s[a] = s[b]
        BY <1>8, <3>1
      <4> QED BY <1>3, <4>1
    <3> QED BY <3>1, <3>2
  <2> QED BY <1>2, <1>4, <2>1
<1>9. ASSUME NEW i \in 0..Len(t) PROVE new.next[Around(t, h, i)] = Around(t, h, i + 1)
  <2>0. i \in Int /\ i + 1 \in Int /\ I(i) \in Int
    BY <1>1, <1>2, <1>4
  <2>1. CASE i = k - 1
    <3>1. I(i) = k - 1 /\ I(i + 1) = k + 1
      BY <1>2, <2>1
    <3> HIDE DEF I
    <3> QED BY <1>6, <2>0, <3>1
  <2>2. CASE i # k - 1
    <3>1. I(i) \in 0..Len(s) /\ I(i + 1) = I(i) + 1 /\ I(i) # k - 1 /\ I(i) # k
      BY <1>1, <1>2, <1>4, <2>2
    <3> HIDE DEF I
    <3>2. Around(s, h, I(i)) # s[k]
      BY <1>1, <2>0, <3>1
    <3>3. Around(s, h, I(i)) # Around(s, h, k - 1)
      <4>1. CASE k - 1 \in 1..Len(s)
        BY <1>1, <2>0, <3>1, <4>1 DEF Around
      <4>2. CASE k - 1 \notin 1..Len(s)
        <5>1. k = 1 /\ I(i) \in 1..Len(s)
          BY <1>1, <1>2, <3>1, <4>2
        <5>2. Around(s, h, k - 1) = h /\ Around(s, h, I(i)) = s[I(i)]
          BY <4>2, <5>1 DEF Around
        <5> QED BY <1>1, <5>1, <5>2, NodeAssumption
      <4> QED BY <4>1, <4>2
    <3> DEFINE a == I(i)
               x == Around(s, h, a)
    <3>4. Around(t, h, i) = x /\ Around(t, h, i + 1) = Around(s, h, a + 1)
      BY <1>6, <2>0, <3>1
    <3>5. x \in S \ {Around(s, h, k - 1), s[k]} /\ l.next[x] = Around(s, h, a + 1)
      BY <1>1, <2>0, <3>1, <3>2, <3>3
    <3> HIDE DEF a, x
    <3> QED BY <3>4, <3>5
  <2> QED BY <2>1, <2>2
<1> QED BY <1>7, <1>8, <1>9, RingFrom DEF t, T

LEMMA RemoveLists ==
  ASSUME NEW l, NEW S, NEW L, Rings(l, S, L), NEW e \in S \cap Entries
  PROVE  Rings(Unlink(l, e), S \ {e},
               [h \in S \cap Heads |-> IF \E k \in DOMAIN L[h] : L[h][k] = e
                                       THEN RemoveAt(L[h], At(L[h], e)) ELSE L[h]])
<1> DEFINE p == l.prev[e]
           n == l.next[e]
           new == Unlink(l, e)
           T == S \ {e}
           M == [h \in S \cap Heads |-> IF \E k \in DOMAIN L[h] : L[h][k] = e
                                        THEN RemoveAt(L[h], At(L[h], e)) ELSE L[h]]
<1>1. /\ Good(l, S) /\ LeftBehind(l, S) /\ l \in AllLinks /\ S \in SUBSET Nodes /\ Sound(l, S)
      /\ \A h \in S \cap Heads : RingIs(l, S, h, L[h])
  BY DEF Rings, Good
<1>2. p \in S /\ n \in S /\ l.next[p] = e /\ p \in Nodes /\ n \in Nodes
  BY <1>1 DEF Sound
<1>3. Good(new, T) /\ LeftBehind(new, T)
  BY <1>1, UnlinkGood, UnlinkLeft
<1>4. new.next[p] = n /\ \A x \in S \ {p} : new.next[x] = l.next[x]
  <2>1. /\ Link(l, p, n).next[p] = n
        /\ \A x \in Nodes \ {p} : Link(l, p, n).next[x] = l.next[x]
    <3> HIDE DEF p, n
    <3> QED BY <1>1, <1>2, NextOf
  <2> QED BY <1>1, <2>1 DEF Unlink
<1> HIDE DEF new
<1>5. T \cap Heads = S \cap Heads
  BY NodeAssumption
<1>6. ASSUME NEW h \in S \cap Heads PROVE RingIs(new, T, h, M[h])
  <2> DEFINE s == L[h]
  <2>1. /\ Len(s) \in Nat /\ DOMAIN s = 1..Len(s) /\ \A k \in 1..Len(s) : s[k] \in S \cap Entries
        /\ \A i \in Int : Around(s, h, i) \in S
        /\ \A i \in 0..Len(s) : l.next[Around(s, h, i)] = Around(s, h, i + 1)
        /\ \A i \in 1 .. Len(s) + 1 : l.prev[Around(s, h, i)] = Around(s, h, i - 1)
    <3>1. RingIs(l, S, h, s)
      BY <1>1
    <3> HIDE DEF s
    <3>2. DOMAIN s = 1..Len(s)
      BY <3>1 DEF RingIs
    <3>3. Sound(l, S)
      BY <1>1
    <3> QED BY <3>1, <3>2, <3>3, RingGives
  <2>2. \A i, j \in 1..Len(s) : s[i] = s[j] => i = j
    BY <1>1, <2>1 DEF RingIs, IsInjective
  <2>3. CASE \E k \in 1..Len(s) : s[k] = e
    <3>1. PICK k \in 1..Len(s) : s[k] = e
      BY <2>3
    <3>2. At(s, e) = k
      BY <2>1, <2>2, <3>1 DEF At
    <3>3. M[h] = RemoveAt(s, k)
      BY <2>1, <3>1, <3>2
    <3>4. /\ k \in 0..Len(s) /\ k \in 1 .. Len(s) + 1 /\ Around(s, h, k) = e
      BY <2>1, <3>1 DEF Around
    <3>5. p = Around(s, h, k - 1) /\ n = Around(s, h, k + 1)
      BY <2>1, <3>4
    <3>6. RingIs(l, S, h, s)
      BY <1>1
    <3> HIDE DEF p, n, M, s, T
    <3>7. RingIs(new, S \ {s[k]}, h, RemoveAt(s, k))
      BY <1>1, <1>4, <3>5, <3>6, RemoveRing
    <3> QED BY <3>1, <3>3, <3>7 DEF T
  <2>4. CASE ~(\E k \in 1..Len(s) : s[k] = e)
    <3>1. M[h] = s
      BY <2>1, <2>4
    <3>2. ASSUME NEW i \in Int PROVE Around(s, h, i) # p
      <4>1. PICK j \in 0..Len(s) : Around(s, h, i) = Around(s, h, j)
        <5>1. CASE i \in 1..Len(s)
          BY <5>1
        <5>2. CASE i \notin 1..Len(s)
          <6>1. 0 \in 0..Len(s) /\ 0 \notin 1..Len(s)
            BY <2>1
          <6> QED BY <5>2, <6>1 DEF Around
        <5> QED BY <5>1, <5>2
      <4>2. Around(s, h, j + 1) # e
        BY <2>4, NodeAssumption DEF Around
      <4> QED BY <1>2, <2>1, <4>1, <4>2
    <3>3. \A k \in 1..Len(s) : s[k] \in T
      BY <2>1, <2>4
    <3>4. RingIs(l, S, h, s)
      BY <1>1
    <3>5. \A i \in Int : new.next[Around(s, h, i)] = l.next[Around(s, h, i)]
      BY <1>4, <2>1, <3>2
    <3> HIDE DEF M, s, T, p
    <3>6. RingIs(new, T, h, s)
      BY <3>3, <3>4, <3>5, RingKept
    <3> QED BY <3>1, <3>6
  <2> QED BY <2>3, <2>4
<1>7. M = [h \in T \cap Heads |-> M[h]]
  <2> HIDE DEF T
  <2> QED BY <1>5
<1> HIDE DEF M, T
<1>8. Rings(new, T, M)
  BY <1>3, <1>5, <1>6, <1>7 DEF Rings
<1> QED BY <1>8 DEF new, T, M

(* An entry that is in no list matters to none. *)
LEMMA ApartLists ==
  ASSUME NEW l, NEW S, NEW L, Rings(l, S, L), NEW e \in Entries \ S
  PROVE  Rings(Poisoned(l, e), S, L) /\ Rings(INIT_LIST_HEAD(l, e), S, L)
<1>1. Good(l, S) /\ LeftBehind(l, S) /\ l \in AllLinks /\ S \in SUBSET Nodes /\ Sound(l, S) /\ e \in Nodes \ S
  BY DEF Rings, Good, Nodes
<1>2. \A new \in {Poisoned(l, e), INIT_LIST_HEAD(l, e)} : Good(new, S) /\ LeftBehind(new, S)
  BY <1>1, ApartGood, ApartLeft
<1>3. \A new \in {Poisoned(l, e), INIT_LIST_HEAD(l, e)} : \A x \in S : new.next[x] = l.next[x]
  <2>1. \A x \in S : Poisoned(l, e).next[x] = l.next[x]
    BY <1>1 DEF Poisoned, AllLinks, Pointers
  <2>2. \A x \in S : INIT_LIST_HEAD(l, e).next[x] = l.next[x]
    BY <1>1, NextOf DEF INIT_LIST_HEAD
  <2> QED BY <2>1, <2>2
<1>4. ASSUME NEW new \in {Poisoned(l, e), INIT_LIST_HEAD(l, e)}, NEW h \in S \cap Heads
      PROVE  RingIs(new, S, h, L[h])
  <2>1. RingIs(l, S, h, L[h])
    BY DEF Rings
  <2>2. \A i \in Int : Around(L[h], h, i) \in S
    BY <1>1, <2>1, RingGives
  <2> QED BY <1>3, <2>1, <2>2, RingKept
<1> QED BY <1>2, <1>4 DEF Rings

LEMMA InitLists ==
  ASSUME NEW l, NEW S, NEW L, Rings(l, S, L), NEW h \in Heads \ S
  PROVE  Rings(INIT_LIST_HEAD(l, h), S \cup {h},
               [g \in (S \cup {h}) \cap Heads |-> IF g = h THEN <<>> ELSE L[g]])
<1> DEFINE new == INIT_LIST_HEAD(l, h)
           T == S \cup {h}
           M == [g \in T \cap Heads |-> IF g = h THEN <<>> ELSE L[g]]
<1>1. Good(l, S) /\ LeftBehind(l, S) /\ l \in AllLinks /\ S \in SUBSET Nodes /\ Sound(l, S) /\ h \in Nodes
  BY DEF Rings, Good, Nodes
<1>2. Good(new, T) /\ LeftBehind(new, T)
  BY <1>1, InitGood, InitLeft
<1>3. new.next[h] = h /\ \A x \in S : new.next[x] = l.next[x]
  BY <1>1, NextOf DEF INIT_LIST_HEAD
<1> HIDE DEF new
<1>4. ASSUME NEW g \in S \cap Heads PROVE RingIs(new, T, g, L[g])
  <2>1. RingIs(l, S, g, L[g])
    BY DEF Rings
  <2>2. \A i \in Int : Around(L[g], g, i) \in S
    BY <1>1, <2>1, RingGives
  <2> QED BY <1>3, <2>1, <2>2, RingKept
<1>5. RingIs(new, T, h, <<>>)
  BY <1>3 DEF RingIs, IsInjective
<1>6. \A g \in T \cap Heads : RingIs(new, T, g, M[g])
  BY <1>4, <1>5
<1>7. M = [g \in T \cap Heads |-> M[g]]
  OBVIOUS
<1> HIDE DEF M, T
<1>8. Rings(new, T, M)
  BY <1>2, <1>6, <1>7 DEF Rings
<1> QED BY <1>8 DEF new, T, M

LEMMA PlacesDiffer ==
  ASSUME NEW S, NEW h \in Heads, NEW s, NEW l, RingIs(l, S, h, s)
  PROVE  \A i, j \in 0..Len(s) : Around(s, h, i) = Around(s, h, j) => i = j
<1>1. Len(s) \in Nat /\ \A k \in 1..Len(s) : s[k] # h
  BY ElementOfSeq, NodeAssumption DEF RingIs
<1>2. \A i, j \in 1..Len(s) : s[i] = s[j] => i = j
  BY DEF RingIs, IsInjective
<1>3. \A i \in 0..Len(s) : i = 0 \/ i \in 1..Len(s)
  BY <1>1
<1>4. 0 \notin 1..Len(s)
  BY <1>1
<1> QED BY <1>1, <1>2, <1>3, <1>4 DEF Around

LEMMA ReplaceNext ==
  ASSUME NEW l \in AllLinks, NEW S \in SUBSET Nodes, Sound(l, S),
         NEW old \in S, NEW new \in Nodes \ S
  PROVE  /\ l.next[old] = old =>
              /\ Replace(l, old, new).next[new] = new
              /\ \A x \in S : Replace(l, old, new).next[x] = l.next[x]
         /\ l.next[old] # old =>
              /\ Replace(l, old, new).next[new] = l.next[old]
              /\ Replace(l, old, new).next[l.prev[old]] = new
              /\ \A x \in S \ {l.prev[old]} : Replace(l, old, new).next[x] = l.next[x]
<1> DEFINE n == l.next[old]
           l1 == Link(l, new, n)
           p == l1.prev[old]
           l2 == Link(l1, p, new)
<1>1. n \in Nodes /\ new # n /\ l.prev[old] \in S /\ l.next[l.prev[old]] = old
  BY DEF Sound
<1> HIDE DEF n
<1>2. Linked(l, new, n, l1)
  BY <1>1, LinkIs
<1>3. l1 \in AllLinks
  BY <1>2, LinkedLinks
<1> HIDE DEF l1
<1>4. p = (IF old = n THEN new ELSE l.prev[old]) /\ p \in Nodes
  BY <1>1, <1>2 DEF Linked
<1> HIDE DEF p
<1>5. Linked(l1, p, new, l2)
  BY <1>3, <1>4, LinkIs
<1> HIDE DEF l2
<1>6. Replace(l, old, new) = l2
  BY DEF Replace, n, l1, p, l2
<1>7. CASE n = old
  BY <1>2, <1>4, <1>5, <1>6, <1>7 DEF Linked, n
<1>8. CASE n # old
  <2>1. p = l.prev[old] /\ p # new
    BY <1>1, <1>4, <1>8
  <2> QED BY <1>1, <1>2, <1>5, <1>6, <1>8, <2>1 DEF Linked, n
<1> QED BY <1>7, <1>8 DEF n

LEMMA ReplaceLists ==
  ASSUME NEW l, NEW S, NEW L, Rings(l, S, L), NEW h \in S \cap Heads, NEW k \in DOMAIN L[h],
         NEW e \in Entries \ S
  PROVE  Rings(Replace(l, L[h][k], e), (S \ {L[h][k]}) \cup {e}, [L EXCEPT ![h] = [@ EXCEPT ![k] = e]])
<1> DEFINE s == L[h]
           old == s[k]
           new == Replace(l, old, e)
           T == (S \ {old}) \cup {e}
           t == [s EXCEPT ![k] = e]
           M == [L EXCEPT ![h] = t]
<1>1. /\ Good(l, S) /\ LeftBehind(l, S) /\ l \in AllLinks /\ S \in SUBSET Nodes /\ Sound(l, S)
      /\ RingIs(l, S, h, s) /\ e \in Nodes \ S
  BY DEF Rings, Good, Nodes
<1> HIDE DEF s
<1>2. /\ Len(s) \in Nat /\ \A i \in 1..Len(s) : s[i] \in S \cap Entries /\ s[i] # h
      /\ \A i \in Int : Around(s, h, i) \in S
      /\ \A i \in 0..Len(s) : l.next[Around(s, h, i)] = Around(s, h, i + 1)
      /\ \A i \in 1 .. Len(s) + 1 : l.prev[Around(s, h, i)] = Around(s, h, i - 1)
  BY <1>1, RingGives
<1>3. \A i, j \in 0..Len(s) : Around(s, h, i) = Around(s, h, j) => i = j
  BY <1>1, PlacesDiffer
<1>4. k \in 1..Len(s) /\ Len(s) \in Nat
  BY <1>1, <1>2 DEF RingIs, s
<1>5. /\ k \in 0..Len(s) /\ k - 1 \in 0..Len(s) /\ k \in 1 .. Len(s) + 1 /\ k - 1 \in Int
      /\ k # k - 1 /\ (k - 1) + 1 = k /\ k + 1 \in Int
  BY <1>4
<1> DEFINE p == Around(s, h, k - 1)
           n == Around(s, h, k + 1)
<1>6. /\ old = Around(s, h, k) /\ old \in S \cap Entries /\ l.prev[old] = p /\ l.next[old] = n
      /\ p \in S
  BY <1>2, <1>4, <1>5 DEF Around
<1> HIDE DEF old
<1>7. n # old
  <2>1. p # old
    BY <1>3, <1>5, <1>6
  <2> QED BY <1>1, <1>6, <2>1 DEF Sound
<1> HIDE DEF p, n
<1>8. /\ new.next[e] = n /\ new.next[p] = e
      /\ \A x \in S \ {p} : new.next[x] = l.next[x]
  BY <1>1, <1>6, <1>7, ReplaceNext
<1>9. Good(new, T) /\ LeftBehind(new, T)
  BY <1>1, <1>6, ReplaceGood, ReplaceLeft, NodeAssumption
<1> HIDE DEF new
<1>10. T \cap Heads = S \cap Heads
  BY <1>6, NodeAssumption
<1>11. RingIs(new, T, h, t)
  <2>1. \A i \in 1..Len(s) : s[i] \in Entries /\ (i # k => s[i] \in S \ {old})
    <3>1. \A i \in 1..Len(s) : i \in 0..Len(s) /\ Around(s, h, i) = s[i]
      BY <1>4 DEF Around
    <3>2. \A i \in 1..Len(s) : i # k => Around(s, h, i) # Around(s, h, k)
      BY <1>3, <1>4, <3>1
    <3> QED BY <1>2, <1>6, <3>1, <3>2
  <2>2. s \in Seq(Entries) /\ \A i, j \in 1..Len(s) : s[i] = s[j] => i = j
    BY <1>1 DEF RingIs, IsInjective
  <2>3. t \in Seq(Entries) /\ Len(t) = Len(s) /\ \A i \in 1..Len(s) : t[i] = IF i = k THEN e ELSE s[i]
    BY <1>4, <2>2, ExceptSeq
  <2> HIDE DEF t
  <2>4. t \in Seq(T \cap Entries)
    <3>1. \A i \in 1..Len(t) : t[i] \in T \cap Entries
      BY <2>1, <2>3
    <3> HIDE DEF T
    <3> QED BY <2>3, <3>1
  <2>5. \A i, j \in 1..Len(t) : t[i] = t[j] => i = j
    <3> SUFFICES ASSUME NEW i \in 1..Len(s), NEW j \in 1..Len(s), t[i] = t[j] PROVE i = j
      BY <2>3
    <3>1. e # s[i] /\ e # s[j]
      BY <1>2
    <3>2. t[i] = (IF i = k THEN e ELSE s[i]) /\ t[j] = (IF j = k THEN e ELSE s[j])
      BY <2>3
    <3>3. CASE i = k \/ j = k
      BY <3>1, <3>2, <3>3
    <3>4. CASE i # k /\ j # k
      BY <2>2, <3>2, <3>4
    <3> QED BY <3>3, <3>4
  <2>6. \A i \in Int : Around(t, h, i) = IF i = k THEN e ELSE Around(s, h, i)
    BY <1>4, <2>3 DEF Around
  <2>7. ASSUME NEW i \in 0..Len(t) PROVE new.next[Around(t, h, i)] = Around(t, h, i + 1)
    <3>0. i \in 0..Len(s) /\ i \in Int /\ i + 1 \in Int
      BY <1>4, <2>3
    <3>1. CASE i = k - 1
      <4>1. i # k /\ i + 1 = k
        BY <1>4, <3>1
      <4> QED BY <1>8, <2>6, <3>0, <3>1, <4>1 DEF p
    <3>2. CASE i = k
      <4>1. i + 1 # k
        BY <1>4, <3>2
      <4> QED BY <1>8, <2>6, <3>0, <3>2, <4>1 DEF n
    <3>3. CASE i # k - 1 /\ i # k
      <4>1. i + 1 # k
        BY <1>4, <3>0, <3>3
      <4>2. Around(s, h, i) \in S \ {p}
        BY <1>2, <1>3, <1>5, <3>0, <3>3 DEF p
      <4> QED BY <1>2, <1>8, <2>6, <3>0, <3>3, <4>1, <4>2
    <3> QED BY <3>1, <3>2, <3>3
  <2> QED BY <2>4, <2>5, <2>7, RingFrom
<1>12. ASSUME NEW g \in S \cap Heads, g # h PROVE RingIs(new, T, g, L[g])
  <2>1. RingIs(l, S, g, L[g])
    BY DEF Rings
  <2>2. \A i \in Int : Around(L[g], g, i) \in S
    BY <1>1, <2>1, RingGives
  <2>3. \A i, j \in Int : Around(L[g], g, i) # Around(s, h, j)
    BY <1>12, RingsApart DEF s
  <2>4. \A i \in Int : Around(L[g], g, i) # p /\ Around(L[g], g, i) # old
    BY <1>5, <1>6, <2>3 DEF p
  <2>5. \A i \in 1..Len(L[g]) : L[g][i] \in T
    <3>1. \A i \in 1..Len(L[g]) : i \in Int /\ Around(L[g], g, i) = L[g][i]
      BY DEF Around
    <3> QED BY <2>2, <2>4, <3>1
  <2>6. \A i \in Int : new.next[Around(L[g], g, i)] = l.next[Around(L[g], g, i)]
    BY <1>8, <2>2, <2>4
  <2> HIDE DEF T
  <2> QED BY <2>1, <2>5, <2>6, RingKept
<1>13. /\ M = [g \in T \cap Heads |-> M[g]]
       /\ \A g \in T \cap Heads : M[g] = IF g = h THEN t ELSE L[g]
  <2>1. L = [g \in S \cap Heads |-> L[g]]
    BY DEF Rings
  <2> HIDE DEF T, t
  <2> QED BY <1>10, <2>1
<1> HIDE DEF M, T, t
<1>14. \A g \in T \cap Heads : RingIs(new, T, g, M[g])
  BY <1>10, <1>11, <1>12, <1>13
<1>15. Rings(new, T, M)
  BY <1>9, <1>13, <1>14 DEF Rings
<1> QED BY <1>15 DEF new, T, M, t, old, s

LEMMA ReplaceHeadLists ==
  ASSUME NEW l, NEW S, NEW L, Rings(l, S, L), NEW h \in S \cap Heads, NEW new \in Heads \ S
  PROVE  Rings(Replace(l, h, new), (S \ {h}) \cup {new},
               [g \in ((S \ {h}) \cup {new}) \cap Heads |-> IF g = new THEN L[h] ELSE L[g]])
<1> DEFINE s == L[h]
           out == Replace(l, h, new)
           T == (S \ {h}) \cup {new}
           M == [g \in T \cap Heads |-> IF g = new THEN s ELSE L[g]]
           p == l.prev[h]
<1>1. /\ Good(l, S) /\ LeftBehind(l, S) /\ l \in AllLinks /\ S \in SUBSET Nodes /\ Sound(l, S)
      /\ RingIs(l, S, h, s) /\ new \in Nodes \ S
  BY DEF Rings, Good, Nodes
<1> HIDE DEF s
<1>2. /\ Len(s) \in Nat /\ DOMAIN s = 1..Len(s) /\ \A i \in 1..Len(s) : s[i] \in S \cap Entries /\ s[i] # h
  BY <1>1, RingGives DEF RingIs
<1>3. /\ l.next[h] = IF Len(s) = 0 THEN h ELSE s[1]
      /\ p = IF Len(s) = 0 THEN h ELSE s[Len(s)]
      /\ \A k \in 1..Len(s) : l.next[s[k]] = IF k = Len(s) THEN h ELSE s[k + 1]
  BY <1>1, RingPrev DEF RingIs
<1>4. \A i, j \in 1..Len(s) : s[i] = s[j] => i = j
  BY <1>1 DEF RingIs, IsInjective
<1>5. Good(out, T) /\ LeftBehind(out, T)
  BY <1>1, ReplaceGood, ReplaceLeft
<1> DEFINE none == Len(s) = 0
<1>6. (l.next[h] = h) <=> none
  <2>1. ~none => 1 \in 1..Len(s)
    BY <1>2
  <2> QED BY <1>2, <1>3, <2>1
<1>7. /\ none => out.next[new] = new /\ \A x \in S : out.next[x] = l.next[x]
      /\ ~none => /\ out.next[new] = s[1] /\ out.next[p] = new
                  /\ \A x \in S \ {p} : out.next[x] = l.next[x]
  <2> HIDE DEF out, none
  <2>1. /\ l.next[h] = h =>
              /\ out.next[new] = new
              /\ \A x \in S : out.next[x] = l.next[x]
        /\ l.next[h] # h =>
              /\ out.next[new] = l.next[h]
              /\ out.next[l.prev[h]] = new
              /\ \A x \in S \ {l.prev[h]} : out.next[x] = l.next[x]
    BY <1>1, ReplaceNext DEF out
  <2> QED BY <1>3, <1>6, <2>1 DEF none
<1> HIDE DEF out
<1>8. RingIs(out, T, new, s)
  <2>1. s \in Seq(T \cap Entries)
    <3>1. \A i \in 1..Len(s) : s[i] \in T \cap Entries
      BY <1>2
    <3>2. s \in Seq(S \cap Entries)
      BY <1>1 DEF RingIs
    <3> HIDE DEF T
    <3> QED BY <3>1, <3>2
  <2>2. out.next[new] = IF Len(s) = 0 THEN new ELSE s[1]
    BY <1>7
  <2>3. ASSUME NEW k \in 1..Len(s) PROVE out.next[s[k]] = IF k = Len(s) THEN new ELSE s[k + 1]
    <3>0. Len(s) # 0 /\ Len(s) \in 1..Len(s)
      BY <1>2
    <3>1. ~none /\ Len(s) \in 1..Len(s) /\ p = s[Len(s)]
      <4> HIDE DEF p
      <4> QED BY <1>3, <3>0
    <3>2. CASE k = Len(s)
      BY <1>7, <3>1, <3>2
    <3>3. CASE k # Len(s)
      <4>1. s[k] \in S \ {p}
        BY <1>2, <1>4, <3>1, <3>3
      <4> QED BY <1>3, <1>7, <3>1, <3>3, <4>1
    <3> QED BY <3>2, <3>3
  <2>4. IsInjective(s)
    BY <1>1 DEF RingIs
  <2> QED BY <2>1, <2>2, <2>3, <2>4 DEF RingIs
<1>9. ASSUME NEW g \in S \cap Heads, g # h PROVE RingIs(out, T, g, L[g])
  <2>1. RingIs(l, S, g, L[g])
    BY DEF Rings
  <2>2. \A i \in Int : Around(L[g], g, i) \in S
    BY <1>1, <2>1, RingGives
  <2>3. \A i, j \in Int : Around(L[g], g, i) # Around(s, h, j)
    BY <1>9, RingsApart DEF s
  <2>4. p = Around(s, h, Len(s)) /\ Len(s) \in Int
    <3>1. (Len(s) \in 1..Len(s)) <=> Len(s) # 0
      BY <1>2
    <3>2. Around(s, h, Len(s)) = IF Len(s) = 0 THEN h ELSE s[Len(s)]
      BY <3>1 DEF Around
    <3>3. p = IF Len(s) = 0 THEN h ELSE s[Len(s)]
      BY <1>3
    <3>4. Len(s) \in Int
      BY <1>2
    <3> HIDE DEF p
    <3> QED BY <3>2, <3>3, <3>4
  <2>5. \A i \in Int : Around(L[g], g, i) # p
    BY <2>3, <2>4
  <2>6. \A i \in Int : out.next[Around(L[g], g, i)] = l.next[Around(L[g], g, i)]
    <3> HIDE DEF p, none
    <3> QED BY <1>7, <2>2, <2>5
  <2>7. S \cap Entries \subseteq T
    BY NodeAssumption
  <2> HIDE DEF T
  <2> QED BY <2>1, <2>6, <2>7, RingKept
<1>10. /\ M = [g \in T \cap Heads |-> M[g]]
       /\ \A g \in T \cap Heads : M[g] = IF g = new THEN s ELSE L[g]
  OBVIOUS
<1> HIDE DEF M
<1>11. \A g \in T \cap Heads : RingIs(out, T, g, M[g])
  BY <1>8, <1>9, <1>10
<1>12. Rings(out, T, M)
  BY <1>5, <1>10, <1>11 DEF Rings
<1> QED BY <1>12 DEF out, T, M, s

(* What cutting does to the pointers along next. *)
LEMMA CutNext ==
  ASSUME NEW l \in AllLinks, NEW S \in SUBSET Nodes, Sound(l, S),
         NEW list \in Nodes \ S, NEW head \in S, NEW entry \in S, entry # head
  PROVE  /\ Cut(l, list, head, entry).next[list] = l.next[head]
         /\ Cut(l, list, head, entry).next[entry] = list
         /\ Cut(l, list, head, entry).next[head] = l.next[entry]
         /\ \A x \in S \ {head, entry} : Cut(l, list, head, entry).next[x] = l.next[x]
<1> DEFINE f == l.next[head]
           n == l.next[entry]
           l1 == Link(l, list, f)
           l2 == Link(l1, entry, list)
           l3 == Link(l2, head, n)
<1>1. {f, n, head, entry, list} \subseteq Nodes
  BY DEF Sound
<1> HIDE DEF f, n
<1>2. Linked(l, list, f, l1)
  BY <1>1, LinkIs
<1> HIDE DEF l1
<1>3. Linked(l1, entry, list, l2)
  BY <1>1, <1>2, LinkIs, LinkedLinks
<1> HIDE DEF l2
<1>4. Linked(l2, head, n, l3)
  BY <1>1, <1>3, LinkIs, LinkedLinks
<1>5. Cut(l, list, head, entry) = l3
  BY DEF Cut, f, n, l1, l2
<1> HIDE DEF l3
<1> QED BY <1>1, <1>2, <1>3, <1>4, <1>5 DEF Linked, f, n

LEMMA CutRings ==
  ASSUME NEW l, NEW S, NEW L, Good(l, S), \A h \in S \cap Heads : RingIs(l, S, h, L[h]),
         NEW h \in S \cap Heads, NEW list \in Heads \ S, NEW s, s = L[h], NEW k \in 1..Len(s)
  PROVE  /\ Good(Cut(l, list, h, s[k]), S \cup {list})
         /\ RingIs(Cut(l, list, h, s[k]), S \cup {list}, list, SubSeq(s, 1, k))
         /\ RingIs(Cut(l, list, h, s[k]), S \cup {list}, h, SubSeq(s, k + 1, Len(s)))
         /\ \A g \in (S \cap Heads) \ {h} : RingIs(Cut(l, list, h, s[k]), S \cup {list}, g, L[g])
<1> DEFINE new == Cut(l, list, h, s[k])
           T == S \cup {list}
           N == Len(s)
           a == SubSeq(s, 1, k)
           b == SubSeq(s, k + 1, N)
<1>1. /\ l \in AllLinks /\ S \in SUBSET Nodes /\ Sound(l, S) /\ RingIs(l, S, h, s)
      /\ list \in Nodes \ S
  BY DEF Good, Nodes
<1>2. /\ N \in Nat /\ \A i \in 1..N : s[i] \in S \cap Entries /\ s[i] # h
      /\ s \in Seq(S \cap Entries)
  <2>1. s \in Seq(S \cap Entries)
    BY <1>1 DEF RingIs
  <2>2. N \in Nat /\ \A i \in 1..N : s[i] \in S \cap Entries /\ s[i] # h
    BY <1>1, RingGives
  <2> QED BY <2>1, <2>2
<1>3. \A i, j \in 1..N : s[i] = s[j] => i = j
  BY <1>1 DEF RingIs, IsInjective
<1>4. N # 0 /\ 1 \in 1..N /\ k \in Nat /\ k >= 1 /\ k <= N
  BY <1>2
<1>5. /\ l.next[h] = s[1] /\ \A i \in 1..N : l.next[s[i]] = IF i = N THEN h ELSE s[i + 1]
  BY <1>1, <1>4 DEF RingIs
<1>6. Good(new, T)
  BY <1>1, CutGood
<1>7. /\ new.next[list] = s[1] /\ new.next[s[k]] = list
      /\ new.next[h] = IF k = N THEN h ELSE s[k + 1]
      /\ \A x \in S \ {h, s[k]} : new.next[x] = l.next[x]
  BY <1>1, <1>2, <1>5, CutNext
<1> HIDE DEF new
<1>8. \A i \in 1..N : i # k => new.next[s[i]] = IF i = N THEN h ELSE s[i + 1]
  BY <1>2, <1>3, <1>5, <1>7
<1> HIDE DEF N
<1>9. \A i \in 1..N : s[i] \in T \cap Entries
  BY <1>2
<1> HIDE DEF T
<1>10. RingIs(new, T, list, a)
  <2>1. a \in Seq(S \cap Entries) /\ Len(a) = k /\ \A i \in 1..k : a[i] = s[i]
    BY <1>2, <1>4, SubSeqProperties DEF N
  <2> HIDE DEF a
  <2>2. \A i \in 1..k : i \in 1..N
    BY <1>2, <1>4
  <2>3. a \in Seq(T \cap Entries)
    BY <1>9, <2>1, <2>2
  <2>4. \A i, j \in 1..k : a[i] = a[j] => i = j
    BY <1>3, <2>1, <2>2
  <2>5. new.next[list] = a[1] /\ k # 0
    BY <1>4, <1>7, <2>1
  <2>6. ASSUME NEW i \in 1..k PROVE new.next[a[i]] = IF i = k THEN list ELSE a[i + 1]
    <3>1. CASE i = k
      BY <1>7, <2>1, <3>1
    <3>2. CASE i # k
      <4>1. i # N /\ i + 1 \in 1..k
        BY <1>2, <1>4, <3>2
      <4> QED BY <1>8, <2>1, <2>2, <3>2, <4>1
    <3> QED BY <3>1, <3>2
  <2> QED BY <2>1, <2>3, <2>4, <2>5, <2>6 DEF RingIs, IsInjective
<1>11. RingIs(new, T, h, b)
  <2> DEFINE M == N - k
  <2>0. M \in Nat /\ (M = 0 <=> k = N) /\ \A i \in 1..M : k + i \in 1..N /\ k + i # k
    BY <1>2, <1>4
  <2>1. b \in Seq(S \cap Entries) /\ Len(b) = M /\ \A i \in 1..M : b[i] = s[k + i]
    <3>1. /\ b \in Seq(S \cap Entries)
          /\ Len(b) = IF k + 1 <= N THEN N - (k + 1) + 1 ELSE 0
          /\ \A i \in 1 .. N - (k + 1) + 1 : b[i] = s[(k + 1) + i - 1]
      BY <1>2, <1>4, SubSeqProperties DEF N
    <3> HIDE DEF b
    <3>2. N - (k + 1) + 1 = M /\ \A i \in 1..M : (k + 1) + i - 1 = k + i
      BY <1>2, <1>4
    <3> QED BY <1>2, <1>4, <3>1, <3>2
  <2> HIDE DEF b
  <2>3. b \in Seq(T \cap Entries)
    BY <1>9, <2>0, <2>1
  <2>4. \A i, j \in 1..M : b[i] = b[j] => i = j
    <3> SUFFICES ASSUME NEW i \in 1..M, NEW j \in 1..M, b[i] = b[j] PROVE i = j
      OBVIOUS
    <3>1. k + i = k + j
      <4>1. k + i \in 1..N /\ k + j \in 1..N /\ s[k + i] = s[k + j]
        BY <2>0, <2>1
      <4> QED BY <1>3, <4>1
    <3> QED BY <1>4, <2>0, <3>1
  <2>5. new.next[h] = IF M = 0 THEN h ELSE b[1]
    <3>1. CASE M = 0
      BY <1>7, <2>0, <3>1
    <3>2. CASE M # 0
      <4>1. 1 \in 1..M
        BY <2>0, <3>2
      <4> QED BY <1>7, <2>0, <2>1, <3>2, <4>1
    <3> QED BY <3>1, <3>2
  <2>6. ASSUME NEW i \in 1..M PROVE new.next[b[i]] = IF i = M THEN h ELSE b[i + 1]
    <3>1. new.next[s[k + i]] = IF k + i = N THEN h ELSE s[(k + i) + 1]
      BY <1>8, <2>0
    <3>2. CASE i = M
      <4>1. k + i = N
        BY <1>2, <1>4, <3>2
      <4> QED BY <2>1, <3>1, <3>2, <4>1
    <3>3. CASE i # M
      <4>1. k + i # N /\ i + 1 \in 1..M /\ (k + i) + 1 = k + (i + 1)
        BY <1>2, <1>4, <3>3
      <4> QED BY <2>1, <3>1, <3>3, <4>1
    <3> QED BY <3>2, <3>3
  <2> HIDE DEF M
  <2> QED BY <2>1, <2>3, <2>4, <2>5, <2>6 DEF RingIs, IsInjective
<1>12. ASSUME NEW g \in (S \cap Heads) \ {h} PROVE RingIs(new, T, g, L[g])
  <2>1. RingIs(l, S, g, L[g])
    OBVIOUS
  <2>2. \A i \in Int : Around(L[g], g, i) \in S
    BY <1>1, <2>1, RingGives
  <2>3. \A i, j \in Int : Around(L[g], g, i) # Around(s, h, j)
    BY RingsDisjoint
  <2>4. 0 \in Int /\ k \in Int /\ Around(s, h, 0) = h /\ Around(s, h, k) = s[k]
    BY <1>4 DEF Around
  <2>5. \A i \in Int : new.next[Around(L[g], g, i)] = l.next[Around(L[g], g, i)]
    BY <1>7, <2>2, <2>3, <2>4
  <2>6. S \cap Entries \subseteq T
    BY DEF T
  <2> QED BY <2>1, <2>5, <2>6, RingKept
<1> QED BY <1>6, <1>10, <1>11, <1>12 DEF new, T, N

AfterCut(S, L, list, h, k) ==
  [g \in (S \cup {list}) \cap Heads |->
     IF g = list THEN SubSeq(L[h], 1, k)
     ELSE IF g = h THEN SubSeq(L[h], k + 1, Len(L[h])) ELSE L[g]]

LEMMA CutLists ==
  ASSUME NEW l, NEW S, NEW L, Rings(l, S, L), NEW h \in S \cap Heads, NEW list \in Heads \ {h},
         list \in S => l.next[list] = list, NEW k \in DOMAIN L[h]
  PROVE  Rings(Cut(l, list, h, L[h][k]), S \cup {list}, AfterCut(S, L, list, h, k))
<1> DEFINE s == L[h]
           R == S \ {list}
           T == S \cup {list}
           new == Cut(l, list, h, s[k])
           M == [g \in T \cap Heads |-> IF g = list THEN SubSeq(s, 1, k)
                                        ELSE IF g = h THEN SubSeq(s, k + 1, Len(s)) ELSE L[g]]
<1>1. /\ Good(l, S) /\ LeftBehind(l, S) /\ l \in AllLinks /\ S \in SUBSET Nodes /\ Sound(l, S)
      /\ \A g \in S \cap Heads : RingIs(l, S, g, L[g])
  BY DEF Rings, Good
<1>2. k \in 1..Len(s) /\ s[k] \in S /\ s[k] \in Entries
  <2>1. s \in Seq(S \cap Entries)
    BY <1>1 DEF RingIs
  <2> HIDE DEF s
  <2> QED BY <2>1, ElementOfSeq DEF s
<1>3. Good(l, R)
  <2>1. CASE list \in S
    BY <1>1, <2>1, DropGood
  <2>2. CASE list \notin S
    <3>1. R = S
      BY <2>2
    <3> QED BY <1>1, <3>1
  <2> QED BY <2>1, <2>2
<1>4. R \cup {list} = T /\ h \in R \cap Heads /\ list \in Heads \ R /\ S \cap Entries \subseteq R
  BY NodeAssumption
<1>5. ASSUME NEW g \in R \cap Heads PROVE RingIs(l, R, g, L[g])
  <2>1. RingIs(l, S, g, L[g])
    BY <1>1
  <2> HIDE DEF R
  <2> QED BY <1>4, <2>1, RingKept
<1>6. LeftBehind(new, T)
  <2>1. list \in Nodes /\ h \in S
    BY DEF Nodes
  <2> HIDE DEF s
  <2> QED BY <1>1, <1>2, <2>1, CutLeft
<1> HIDE DEF R, T, new, s
<1>7. /\ Good(new, T) /\ RingIs(new, T, list, SubSeq(s, 1, k))
      /\ RingIs(new, T, h, SubSeq(s, k + 1, Len(s)))
      /\ \A g \in (R \cap Heads) \ {h} : RingIs(new, T, g, L[g])
  <2>1. s = L[h]
    BY DEF s
  <2> QED BY <1>2, <1>3, <1>4, <1>5, <2>1, CutRings DEF new
<1>8. T \cap Heads = (R \cap Heads) \cup {list}
  BY <1>4
<1>9. /\ M = [g \in T \cap Heads |-> M[g]]
      /\ \A g \in T \cap Heads : M[g] = IF g = list THEN SubSeq(s, 1, k)
                                        ELSE IF g = h THEN SubSeq(s, k + 1, Len(s)) ELSE L[g]
  OBVIOUS
<1> HIDE DEF M
<1>10. \A g \in T \cap Heads : RingIs(new, T, g, M[g])
  BY <1>7, <1>8, <1>9
<1>11. Rings(new, T, M)
  BY <1>6, <1>7, <1>9, <1>10 DEF Rings
<1> QED BY <1>11 DEF new, T, M, s, AfterCut

(* Two chains of entries, one after the other. *)
LEMMA JoinRing ==
  ASSUME NEW l, NEW S, NEW h, NEW s \in Seq(S \cap Entries), NEW t \in Seq(S \cap Entries),
         \A i, j \in 1..Len(s) : s[i] = s[j] => i = j,
         \A i, j \in 1..Len(t) : t[i] = t[j] => i = j,
         \A i \in 1..Len(s), j \in 1..Len(t) : s[i] # t[j],
         l.next[h] = IF Len(s) # 0 THEN s[1] ELSE IF Len(t) # 0 THEN t[1] ELSE h,
         \A i \in 1..Len(s) :
           l.next[s[i]] = IF i # Len(s) THEN s[i + 1] ELSE IF Len(t) # 0 THEN t[1] ELSE h,
         \A i \in 1..Len(t) : l.next[t[i]] = IF i # Len(t) THEN t[i + 1] ELSE h
  PROVE  RingIs(l, S, h, s \o t)
<1> DEFINE c == s \o t
           M == Len(s)
           N == Len(t)
           P == M + N
<1>1. M \in Nat /\ N \in Nat
  OBVIOUS
<1>2. /\ c \in Seq(S \cap Entries) /\ Len(c) = P
      /\ \A i \in 1..P : c[i] = IF i <= M THEN s[i] ELSE t[i - M]
  BY ConcatProperties
<1>3. /\ \A i \in 1..M : i \in 1..P /\ c[i] = s[i]
      /\ \A i \in 1..N : M + i \in 1..P /\ c[M + i] = t[i]
  <2>1. ASSUME NEW i \in 1..M PROVE i \in 1..P /\ c[i] = s[i]
    <3>1. i \in 1..P /\ i <= M
      BY <1>1
    <3> HIDE DEF c, M, N, P
    <3> QED BY <1>2, <3>1
  <2>2. ASSUME NEW i \in 1..N PROVE M + i \in 1..P /\ c[M + i] = t[i]
    <3>1. M + i \in 1..P /\ ~(M + i <= M) /\ (M + i) - M = i
      BY <1>1
    <3> HIDE DEF c, M, N, P
    <3> QED BY <1>2, <3>1
  <2> QED BY <2>1, <2>2
<1>4. \A x \in 1..P : x \in 1..M \/ (x - M \in 1..N /\ x = M + (x - M))
  BY <1>1
<1> HIDE DEF c
<1>5. ASSUME NEW x \in 1..P, NEW y \in 1..P, c[x] = c[y] PROVE x = y
  <2> HIDE DEF M, N, P
  <2>1. CASE x \in 1..M /\ y \in 1..M
    BY <1>3, <1>5, <2>1 DEF M
  <2>2. CASE x \notin 1..M /\ y \notin 1..M
    <3>1. /\ x - M \in 1..N /\ x = M + (x - M) /\ c[x] = t[x - M]
          /\ y - M \in 1..N /\ y = M + (y - M) /\ c[y] = t[y - M]
      BY <1>3, <1>4, <2>2
    <3>2. x - M = y - M
      BY <1>5, <3>1 DEF N
    <3> QED BY <3>1, <3>2
  <2>3. CASE x \in 1..M /\ y \notin 1..M
    <3>1. y - M \in 1..N /\ c[y] = t[y - M] /\ c[x] = s[x]
      BY <1>3, <1>4, <2>3
    <3> QED BY <1>5, <2>3, <3>1 DEF M, N
  <2>4. CASE x \notin 1..M /\ y \in 1..M
    <3>1. x - M \in 1..N /\ c[x] = t[x - M] /\ c[y] = s[y]
      BY <1>3, <1>4, <2>4
    <3> QED BY <1>5, <2>4, <3>1 DEF M, N
  <2> QED BY <2>1, <2>2, <2>3, <2>4
<1>6. l.next[h] = IF P = 0 THEN h ELSE c[1]
  <2>1. CASE M # 0
    <3>1. 1 \in 1..M /\ P # 0
      BY <1>1, <2>1
    <3> QED BY <1>3, <2>1, <3>1
  <2>2. CASE M = 0 /\ N # 0
    <3>1. 1 \in 1..N /\ P # 0 /\ M + 1 = 1
      BY <1>1, <2>2
    <3>2. c[1] = t[1]
      <4> HIDE DEF M, N, P
      <4> QED BY <1>3, <3>1
    <3> QED BY <2>2, <3>1, <3>2
  <2>3. CASE M = 0 /\ N = 0
    BY <2>3
  <2> QED BY <2>1, <2>2, <2>3
<1>7. ASSUME NEW x \in 1..P PROVE l.next[c[x]] = IF x = P THEN h ELSE c[x + 1]
  <2>1. CASE x \in 1..M
    <3>1. c[x] = s[x] /\ l.next[c[x]] = IF x # M THEN s[x + 1] ELSE IF N # 0 THEN t[1] ELSE h
      BY <1>3, <2>1
    <3>2. CASE x # M
      <4>1. x + 1 \in 1..M /\ x # P
        BY <1>1, <2>1, <3>2
      <4> HIDE DEF M, N, P
      <4> QED BY <1>3, <3>1, <3>2, <4>1
    <3>3. CASE x = M
      <4>1. (x = P <=> N = 0) /\ (N # 0 => 1 \in 1..N)
        BY <1>1, <3>3
      <4> HIDE DEF M, N, P
      <4> QED BY <1>3, <3>1, <3>3, <4>1
    <3> QED BY <3>2, <3>3
  <2>2. CASE x \notin 1..M
    <3> DEFINE i == x - M
    <3>1. i \in 1..N /\ x = M + i /\ (x = P <=> i = N)
      <4> HIDE DEF M, N
      <4> QED BY <1>1, <1>4, <2>2
    <3>2. c[x] = t[i] /\ l.next[t[i]] = IF i # N THEN t[i + 1] ELSE h
      <4> HIDE DEF i
      <4> QED BY <1>3, <3>1
    <3>3. i # N => i + 1 \in 1..N /\ x + 1 = M + (i + 1)
      BY <1>1, <3>1
    <3> HIDE DEF M, N, P, i
    <3> QED BY <1>3, <3>1, <3>2, <3>3
  <2> QED BY <2>1, <2>2
<1> HIDE DEF P
<1>8. RingIs(l, S, h, c)
  BY <1>2, <1>5, <1>6, <1>7 DEF RingIs, IsInjective
<1> QED BY <1>8 DEF c

LEMMA SpliceNext ==
  ASSUME NEW l \in AllLinks, NEW S \in SUBSET Nodes, Sound(l, S),
         NEW list \in S, l.next[list] # list, NEW p \in S, p # list, l.next[p] # list
  PROVE  /\ SpliceBetween(l, list, p, l.next[p]).next[p] = l.next[list]
         /\ SpliceBetween(l, list, p, l.next[p]).next[l.prev[list]] = l.next[p]
         /\ \A x \in S \ {p, l.prev[list]} : SpliceBetween(l, list, p, l.next[p]).next[x] = l.next[x]
<1> DEFINE n == l.next[p]
           first == l.next[list]
           last == l.prev[list]
           l1 == Link(l, p, first)
           l2 == Link(l1, last, n)
<1>1. /\ {n, first, last, p} \subseteq S \ {list} /\ l.prev[first] = list /\ l.next[last] = list
      /\ p # last
  BY DEF Sound
<1> HIDE DEF n, first, last
<1>2. Linked(l, p, first, l1)
  BY <1>1, LinkIs
<1>3. SpliceBetween(l, list, p, n) = l2
  BY DEF SpliceBetween, n, first, last, l1, l2
<1> HIDE DEF l1
<1>4. Linked(l1, last, n, l2)
  BY <1>1, <1>2, LinkIs, LinkedLinks
<1> HIDE DEF l2
<1> QED BY <1>1, <1>2, <1>3, <1>4 DEF Linked, n, first, last

AfterSplice(S, L, list, h, p) ==
  [g \in (S \ {list}) \cap Heads |->
     IF g # h THEN L[g] ELSE IF p = h THEN L[list] \o L[h] ELSE L[h] \o L[list]]

LEMMA SpliceLists ==
  ASSUME NEW l, NEW S, NEW L, Rings(l, S, L), NEW h \in S \cap Heads, NEW list \in S \cap Heads,
         h # list, L[list] # << >>, NEW p \in {h, l.prev[h]}
  PROVE  Rings(SpliceBetween(l, list, p, l.next[p]), S \ {list}, AfterSplice(S, L, list, h, p))
<1> DEFINE s == L[h]
           t == L[list]
           M == Len(s)
           N == Len(t)
           T == S \ {list}
           new == SpliceBetween(l, list, p, l.next[p])
           last == l.prev[list]
           K == [g \in T \cap Heads |-> IF g # h THEN L[g] ELSE IF p = h THEN t \o s ELSE s \o t]
<1>1. /\ Good(l, S) /\ LeftBehind(l, S) /\ l \in AllLinks /\ S \in SUBSET Nodes /\ Sound(l, S)
      /\ RingIs(l, S, h, s) /\ RingIs(l, S, list, t) /\ list \in Nodes
  BY DEF Rings, Good
<1>2. t # << >>
  OBVIOUS
<1> HIDE DEF s, t
<1>3. /\ M \in Nat /\ s \in Seq(S \cap Entries) /\ \A i \in 1..M : s[i] \in S \cap Entries /\ s[i] # h
      /\ \A i, j \in 1..M : s[i] = s[j] => i = j
      /\ l.next[h] = IF M = 0 THEN h ELSE s[1]
      /\ l.prev[h] = IF M = 0 THEN h ELSE s[M]
      /\ \A i \in 1..M : l.next[s[i]] = IF i = M THEN h ELSE s[i + 1]
  <2>1. M \in Nat /\ \A i \in 1..M : s[i] \in S \cap Entries /\ s[i] # h
    BY <1>1, RingGives
  <2>2. l.prev[h] = IF M = 0 THEN h ELSE s[M]
    BY <1>1, RingPrev
  <2> QED BY <1>1, <2>1, <2>2 DEF RingIs, IsInjective
<1>4. /\ N \in Nat \ {0} /\ t \in Seq(S \cap Entries)
      /\ \A i \in 1..N : t[i] \in S \cap Entries /\ t[i] # list
      /\ \A i, j \in 1..N : t[i] = t[j] => i = j
      /\ l.next[list] = t[1] /\ last = t[N] /\ last \in S /\ t[1] # list
      /\ \A i \in 1..N : l.next[t[i]] = IF i = N THEN list ELSE t[i + 1]
  <2>1. N \in Nat /\ \A i \in 1..N : t[i] \in S \cap Entries /\ t[i] # list
    BY <1>1, RingGives
  <2>2. last = IF N = 0 THEN list ELSE t[N]
    BY <1>1, RingPrev
  <2>3. t \in Seq(S \cap Entries)
    BY <1>1 DEF RingIs
  <2>4. N # 0
    BY <1>2, <2>3, EmptySeq
  <2>5. 1 \in 1..N /\ N \in 1..N
    BY <2>1, <2>4
  <2> QED BY <1>1, <2>1, <2>2, <2>3, <2>4, <2>5 DEF RingIs, IsInjective
<1> HIDE DEF N, M, last
<1>5. /\ \A i \in 1..M : i \in Int /\ s[i] = Around(s, h, i)
      /\ \A i \in 1..N : i \in Int /\ t[i] = Around(t, list, i)
      /\ 0 \in Int /\ Around(s, h, 0) = h /\ Around(t, list, 0) = list
  BY DEF Around, M, N
<1>6. /\ \A i \in 1..M, j \in 1..N : s[i] # t[j]
      /\ \A i \in 1..M : s[i] # list
      /\ \A j \in 1..N : t[j] # h
  <2>1. \A i, j \in Int : Around(s, h, i) # Around(t, list, j)
    BY RingsApart DEF s, t
  <2> QED BY <1>5, <2>1
<1>7. M # 0 => M \in 1..M /\ 1 \in 1..M
  BY <1>3
<1>8. N \in 1..N /\ 1 \in 1..N
  BY <1>4
<1>9. p \in S /\ p # list /\ l.next[p] # list /\ l.prev[h] # list /\ l.next[h] # list /\ l.next[list] # list
  BY <1>1, <1>3, <1>4, <1>6, <1>7, <1>8 DEF Sound
<1>10. l.next[l.prev[h]] = h
  BY <1>1 DEF Sound
<1>11. Good(new, T)
  <2>1. /\ Good(SpliceBetween(l, list, h, l.next[h]), T)
        /\ Good(SpliceBetween(l, list, l.prev[h], h), T)
    BY <1>1, <1>9, SpliceGood
  <2> QED BY <1>10, <2>1
<1>12. LeftBehind(new, T)
  BY <1>1, <1>9, SpliceLeft
<1>13. /\ new.next[p] = t[1] /\ new.next[t[N]] = l.next[p]
       /\ \A x \in S \ {p, t[N]} : new.next[x] = l.next[x]
  BY <1>1, <1>4, <1>9, SpliceNext DEF last
<1> HIDE DEF new
<1>14. s \in Seq(T \cap Entries) /\ t \in Seq(T \cap Entries)
  <2>1. T \cap Entries = S \cap Entries
    BY NodeAssumption
  <2> HIDE DEF T
  <2> QED BY <1>3, <1>4, <2>1
<1>15. \A i \in 1..N : i # N => new.next[t[i]] = t[i + 1]
  <2> SUFFICES ASSUME NEW i \in 1..N, i # N PROVE new.next[t[i]] = t[i + 1]
    OBVIOUS
  <2>1. t[i] # t[N] /\ t[i] # p
    BY <1>3, <1>4, <1>6, <1>7, <1>8
  <2> QED BY <1>4, <1>13, <2>1
<1> DEFINE r == IF p = h THEN t \o s ELSE s \o t
<1>16. RingIs(new, T, h, r)
  <2>1. CASE p = h
    <3>1. \A i \in 1..M : new.next[s[i]] = IF i # M THEN s[i + 1] ELSE h
      <4> SUFFICES ASSUME NEW i \in 1..M PROVE new.next[s[i]] = IF i # M THEN s[i + 1] ELSE h
        OBVIOUS
      <4>1. s[i] \in S \ {p, t[N]}
        BY <1>3, <1>6, <1>8, <2>1
      <4> QED BY <1>3, <1>13, <4>1
    <3>2. new.next[h] = t[1] /\ new.next[t[N]] = IF M # 0 THEN s[1] ELSE h
      BY <1>3, <1>13, <2>1
    <3>3. \A i \in 1..N : new.next[t[i]] = IF i # N THEN t[i + 1] ELSE IF M # 0 THEN s[1] ELSE h
      BY <1>15, <3>2
    <3>4. RingIs(new, T, h, t \o s)
      BY <1>3, <1>4, <1>6, <1>14, <3>1, <3>2, <3>3, JoinRing DEF M, N
    <3> QED BY <2>1, <3>4
  <2>2. CASE p # h
    <3>1. M # 0 /\ p = s[M] /\ l.next[p] = h
      BY <1>3, <1>10, <2>2
    <3>2. \A i \in 1..M : new.next[s[i]] = IF i # M THEN s[i + 1] ELSE t[1]
      BY <1>3, <1>6, <1>7, <1>8, <1>13, <3>1
    <3>3. new.next[h] = s[1] /\ new.next[t[N]] = h
      BY <1>3, <1>6, <1>8, <1>13, <2>2, <3>1
    <3>4. \A i \in 1..N : new.next[t[i]] = IF i # N THEN t[i + 1] ELSE h
      BY <1>15, <3>3
    <3>5. RingIs(new, T, h, s \o t)
      BY <1>3, <1>4, <1>6, <1>14, <3>1, <3>2, <3>3, <3>4, JoinRing DEF M, N
    <3> QED BY <2>2, <3>5
  <2> QED BY <2>1, <2>2
<1>17. ASSUME NEW g \in T \cap Heads, g # h PROVE RingIs(new, T, g, L[g])
  <2>1. RingIs(l, S, g, L[g]) /\ g \in S \cap Heads /\ g # list
    BY DEF Rings
  <2>2. \A i \in Int : Around(L[g], g, i) \in S
    BY <1>1, <2>1, RingGives
  <2>3. \A i, j \in Int : Around(L[g], g, i) # Around(s, h, j)
    BY <1>17, <2>1, RingsApart DEF s
  <2>4. \A i, j \in Int : Around(L[g], g, i) # Around(t, list, j)
    BY <2>1, RingsApart DEF t
  <2>5. \A i \in Int : Around(L[g], g, i) # p /\ Around(L[g], g, i) # t[N]
    BY <1>3, <1>5, <1>7, <1>8, <2>3, <2>4
  <2>6. \A i \in Int : new.next[Around(L[g], g, i)] = l.next[Around(L[g], g, i)]
    BY <1>13, <2>2, <2>5
  <2>7. S \cap Entries \subseteq T
    BY NodeAssumption
  <2> HIDE DEF T
  <2> QED BY <2>1, <2>6, <2>7, RingKept
<1>18. /\ K = [g \in T \cap Heads |-> K[g]]
       /\ \A g \in T \cap Heads : K[g] = IF g # h THEN L[g] ELSE r
  OBVIOUS
<1> HIDE DEF K, r
<1>19. \A g \in T \cap Heads : RingIs(new, T, g, K[g])
  BY <1>16, <1>17, <1>18
<1>20. Rings(new, T, K)
  BY <1>11, <1>12, <1>18, <1>19 DEF Rings
<1> QED BY <1>20 DEF new, T, K, s, t, AfterSplice

LEMMA InsertEnds ==
  ASSUME NEW S, NEW s \in Seq(S), NEW e \in S
  PROVE  InsertAt(s, 1, e) = <<e>> \o s /\ InsertAt(s, Len(s) + 1, e) = Append(s, e)
<1>1. Len(s) \in Nat /\ 1 \in 1 .. Len(s) + 1 /\ Len(s) + 1 \in 1 .. Len(s) + 1
  OBVIOUS
<1>2. InsertAt(s, 1, e) = <<e>> \o s
  <2> DEFINE a == InsertAt(s, 1, e)
             b == <<e>> \o s
  <2>1. /\ a \in Seq(S) /\ Len(a) = Len(s) + 1
        /\ \A i \in 1 .. Len(s) + 1 : a[i] = IF i < 1 THEN s[i] ELSE IF i = 1 THEN e ELSE s[i - 1]
    BY <1>1, InsertIs
  <2>2. <<e>> \in Seq(S) /\ Len(<<e>>) = 1 /\ <<e>>[1] = e
    OBVIOUS
  <2>3. /\ b \in Seq(S) /\ Len(b) = 1 + Len(s)
        /\ \A i \in 1 .. 1 + Len(s) : b[i] = IF i <= 1 THEN <<e>>[i] ELSE s[i - 1]
    BY <2>2, ConcatProperties
  <2> HIDE DEF a, b
  <2>4. \A i \in 1 .. Len(s) + 1 : a[i] = b[i]
    <3> SUFFICES ASSUME NEW i \in 1 .. Len(s) + 1 PROVE a[i] = b[i]
      OBVIOUS
    <3>1. i \in 1 .. 1 + Len(s) /\ ~(i < 1) /\ (i <= 1 <=> i = 1)
      BY <1>1
    <3> QED BY <2>1, <2>2, <2>3, <3>1
  <2>5. a = b
    BY <1>1, <2>1, <2>3, <2>4, SeqEqual
  <2> QED BY <2>5 DEF a, b
<1>3. InsertAt(s, Len(s) + 1, e) = Append(s, e)
  <2> DEFINE a == InsertAt(s, Len(s) + 1, e)
             b == Append(s, e)
             n == Len(s) + 1
  <2>1. /\ a \in Seq(S) /\ Len(a) = Len(s) + 1
        /\ \A i \in 1 .. Len(s) + 1 : a[i] = IF i < n THEN s[i] ELSE IF i = n THEN e ELSE s[i - 1]
    BY <1>1, InsertIs
  <2>2. b \in Seq(S) /\ Len(b) = n /\ \A i \in 1..n : b[i] = IF i < n THEN s[i] ELSE e
    BY <1>1
  <2> HIDE DEF a, b
  <2>3. \A i \in 1 .. Len(s) + 1 : a[i] = b[i]
    BY <1>1, <2>1, <2>2
  <2>4. a = b
    BY <1>1, <2>1, <2>2, <2>3, SeqEqual
  <2> QED BY <2>4 DEF a, b
<1> QED BY <1>2, <1>3

LEMMA AddLists ==
  ASSUME NEW l, NEW S, NEW L, Rings(l, S, L), NEW e \in Entries \ S, NEW h \in S \cap Heads
  PROVE  /\ Rings(ListAdd(l, e, h), S \cup {e}, [L EXCEPT ![h] = <<e>> \o @])
         /\ Rings(ListAddTail(l, e, h), S \cup {e}, [L EXCEPT ![h] = Append(@, e)])
         /\ \A k \in DOMAIN L[h] :
              /\ Rings(AddBetween(l, e, l.prev[L[h][k]], L[h][k]), S \cup {e},
                       [L EXCEPT ![h] = InsertAt(@, k, e)])
              /\ Rings(AddBetween(l, e, L[h][k], l.next[L[h][k]]), S \cup {e},
                       [L EXCEPT ![h] = InsertAt(@, k + 1, e)])
<1> DEFINE s == L[h]
           N == Len(s)
<1>1. Sound(l, S) /\ RingIs(l, S, h, s)
  BY DEF Rings, Good
<1>2. N \in Nat /\ s \in Seq(Entries) /\ DOMAIN s = 1..N
  <2>1. s \in Seq(S \cap Entries)
    BY <1>1 DEF RingIs
  <2> HIDE DEF s
  <2> QED BY <2>1
<1>3. /\ \A k \in 0..N : l.next[Around(s, h, k)] = Around(s, h, k + 1)
      /\ \A k \in 1 .. N + 1 : l.prev[Around(s, h, k)] = Around(s, h, k - 1)
  <2> HIDE DEF s
  <2> QED BY <1>1, RingGives
<1>4. \A k \in 1 .. N + 1 :
        Rings(AddBetween(l, e, Around(s, h, k - 1), Around(s, h, k)), S \cup {e},
              [L EXCEPT ![h] = InsertAt(s, k, e)])
  BY InsertLists
<1>5. InsertAt(s, 1, e) = <<e>> \o s /\ InsertAt(s, N + 1, e) = Append(s, e)
  <2> HIDE DEF s
  <2> QED BY <1>2, InsertEnds
<1> HIDE DEF s
<1>6. Rings(ListAdd(l, e, h), S \cup {e}, [L EXCEPT ![h] = <<e>> \o s])
  <2>1. 1 \in 1 .. N + 1 /\ 1 - 1 = 0 /\ 0 \in 0..N /\ 0 + 1 = 1 /\ 0 \notin 1..Len(s)
    BY <1>2
  <2>2. Around(s, h, 0) = h
    BY <2>1 DEF Around
  <2>3. l.next[h] = Around(s, h, 1)
    BY <1>3, <2>1, <2>2
  <2>4. Rings(AddBetween(l, e, Around(s, h, 0), Around(s, h, 1)), S \cup {e},
              [L EXCEPT ![h] = InsertAt(s, 1, e)])
    BY <1>4, <2>1
  <2> QED BY <1>5, <2>2, <2>3, <2>4 DEF ListAdd
<1>7. Rings(ListAddTail(l, e, h), S \cup {e}, [L EXCEPT ![h] = Append(s, e)])
  <2> DEFINE k == N + 1
  <2>1. k \in 1 .. N + 1 /\ k \notin 1..Len(s)
    BY <1>2
  <2>2. Around(s, h, k) = h
    BY <2>1 DEF Around
  <2>3. l.prev[h] = Around(s, h, k - 1)
    <3> HIDE DEF k
    <3> QED BY <1>3, <2>1, <2>2
  <2>4. InsertAt(s, k, e) = Append(s, e)
    BY <1>5
  <2> HIDE DEF k
  <2>5. Rings(AddBetween(l, e, Around(s, h, k - 1), Around(s, h, k)), S \cup {e},
              [L EXCEPT ![h] = InsertAt(s, k, e)])
    BY <1>4, <2>1
  <2> QED BY <2>2, <2>3, <2>4, <2>5 DEF ListAddTail
<1>8. ASSUME NEW k \in DOMAIN s
      PROVE  Rings(AddBetween(l, e, l.prev[s[k]], s[k]), S \cup {e}, [L EXCEPT ![h] = InsertAt(s, k, e)])
  <2>1. k \in 1 .. N + 1 /\ k \in 1..Len(s)
    BY <1>2
  <2>2. Around(s, h, k) = s[k]
    BY <2>1 DEF Around
  <2>3. l.prev[s[k]] = Around(s, h, k - 1)
    BY <1>3, <2>1, <2>2
  <2>4. Rings(AddBetween(l, e, Around(s, h, k - 1), Around(s, h, k)), S \cup {e},
              [L EXCEPT ![h] = InsertAt(s, k, e)])
    BY <1>4, <2>1
  <2> QED BY <2>2, <2>3, <2>4
<1>9. ASSUME NEW k \in DOMAIN s
      PROVE  Rings(AddBetween(l, e, s[k], l.next[s[k]]), S \cup {e}, [L EXCEPT ![h] = InsertAt(s, k + 1, e)])
  <2>1. k + 1 \in 1 .. N + 1 /\ k \in 1..Len(s) /\ k \in 0..N /\ (k + 1) - 1 = k
    BY <1>2
  <2>2. Around(s, h, k) = s[k]
    BY <2>1 DEF Around
  <2>3. l.next[s[k]] = Around(s, h, k + 1)
    BY <1>3, <2>1, <2>2
  <2> DEFINE j == k + 1
  <2>4. Rings(AddBetween(l, e, Around(s, h, j - 1), Around(s, h, j)), S \cup {e},
              [L EXCEPT ![h] = InsertAt(s, j, e)])
    <3> HIDE DEF j
    <3> QED BY <1>4, <2>1 DEF j
  <2>5. j - 1 = k
    BY <2>1
  <2> QED BY <2>2, <2>3, <2>4, <2>5
<1> QED BY <1>6, <1>7, <1>8, <1>9 DEF s

(* What the lists are is known from the pointers that a call leaves.        *)
LEMMA GivenIs ==
  ASSUME NEW h \in Ready, NEW s
  PROVE  [Lists EXCEPT ![h] = s] = Given(Ready, h, s)
<1>1. DOMAIN Lists = Ready /\ Lists = [g \in Ready |-> Lists[g]]
  BY DEF Lists
<1> QED BY <1>1 DEF Given

LEMMA CallBegins ==
  ASSUME Rings(links, live, Lists), NEW new, NEW T, NEW M, Rings(new, T, M),
         NEW h \in Heads \ live, new = INIT_LIST_HEAD(links, h)
  PROVE  M = Given(Ready \cup {h}, h, <<>>)
<1> DEFINE K == [g \in (live \cup {h}) \cap Heads |-> IF g = h THEN <<>> ELSE Lists[g]]
<1>1. Rings(new, live \cup {h}, K)
  BY InitLists
<1>2. (live \cup {h}) \cap Heads = Ready \cup {h}
  BY DEF Ready
<1>3. K = Given(Ready \cup {h}, h, <<>>)
  BY <1>2 DEF Given
<1> HIDE DEF K
<1>4. M = K
  BY <1>1, RingsOnce
<1> QED BY <1>3, <1>4

LEMMA CallAdds ==
  ASSUME Rings(links, live, Lists), NEW new, NEW T, NEW M, Rings(new, T, M),
         NEW e \in Entries \ live, NEW h \in Ready
  PROVE  /\ new = ListAdd(links, e, h) => M = Given(Ready, h, <<e>> \o Lists[h])
         /\ new = ListAddTail(links, e, h) => M = Given(Ready, h, Append(Lists[h], e))
         /\ \A k \in DOMAIN Lists[h] :
              /\ new = AddBetween(links, e, links.prev[Lists[h][k]], Lists[h][k]) =>
                   M = Given(Ready, h, InsertAt(Lists[h], k, e))
              /\ new = AddBetween(links, e, Lists[h][k], links.next[Lists[h][k]]) =>
                   M = Given(Ready, h, InsertAt(Lists[h], k + 1, e))
<1> DEFINE S == live \cup {e}
           L == Lists
<1>1. /\ Rings(ListAdd(links, e, h), S, [L EXCEPT ![h] = <<e>> \o L[h]])
      /\ Rings(ListAddTail(links, e, h), S, [L EXCEPT ![h] = Append(L[h], e)])
      /\ \A k \in DOMAIN L[h] :
           /\ Rings(AddBetween(links, e, links.prev[L[h][k]], L[h][k]), S,
                    [L EXCEPT ![h] = InsertAt(L[h], k, e)])
           /\ Rings(AddBetween(links, e, L[h][k], links.next[L[h][k]]), S,
                    [L EXCEPT ![h] = InsertAt(L[h], k + 1, e)])
  BY AddLists DEF Ready
<1>2. ASSUME new = ListAdd(links, e, h) PROVE M = Given(Ready, h, <<e>> \o Lists[h])
  <2>1. M = [L EXCEPT ![h] = <<e>> \o L[h]]
    BY <1>1, <1>2, RingsOnce
  <2> QED BY <2>1, GivenIs
<1>3. ASSUME new = ListAddTail(links, e, h) PROVE M = Given(Ready, h, Append(Lists[h], e))
  <2>1. M = [L EXCEPT ![h] = Append(L[h], e)]
    BY <1>1, <1>3, RingsOnce
  <2> QED BY <2>1, GivenIs
<1>4. ASSUME NEW k \in DOMAIN Lists[h],
             new = AddBetween(links, e, links.prev[Lists[h][k]], Lists[h][k])
      PROVE  M = Given(Ready, h, InsertAt(Lists[h], k, e))
  <2>1. M = [L EXCEPT ![h] = InsertAt(L[h], k, e)]
    BY <1>1, <1>4, RingsOnce
  <2> QED BY <2>1, GivenIs
<1>5. ASSUME NEW k \in DOMAIN Lists[h],
             new = AddBetween(links, e, Lists[h][k], links.next[Lists[h][k]])
      PROVE  M = Given(Ready, h, InsertAt(Lists[h], k + 1, e))
  <2>1. M = [L EXCEPT ![h] = InsertAt(L[h], k + 1, e)]
    BY <1>1, <1>5, RingsOnce
  <2> QED BY <2>1, GivenIs
<1> QED BY <1>2, <1>3, <1>4, <1>5

LEMMA CallRemoves ==
  ASSUME Rings(links, live, Lists), NEW new, NEW T, NEW M, Rings(new, T, M), NEW e \in Listed
  PROVE  /\ new \in {Poisoned(Unlink(links, e), e), INIT_LIST_HEAD(Unlink(links, e), e)} =>
              M = Without(e)
         /\ \A h \in Ready :
              /\ new = ListAdd(Unlink(links, e), e, h) => M = [Without(e) EXCEPT ![h] = <<e>> \o @]
              /\ new = ListAddTail(Unlink(links, e), e, h) =>
                   M = [Without(e) EXCEPT ![h] = Append(@, e)]
<1> DEFINE out == Unlink(links, e)
           S == live \ {e}
           L == Without(e)
<1>1. Rings(out, S, L)
  BY RemoveLists DEF Listed, Ready, Without
<1>2. e \in Entries \ S /\ Ready = S \cap Heads
  BY NodeAssumption DEF Listed, Ready
<1> HIDE DEF out, S, L
<1>3. Rings(Poisoned(out, e), S, L) /\ Rings(INIT_LIST_HEAD(out, e), S, L)
  BY <1>1, <1>2, ApartLists
<1>4. new \in {Poisoned(out, e), INIT_LIST_HEAD(out, e)} => M = L
  BY <1>3, RingsOnce
<1>5. ASSUME NEW h \in Ready
      PROVE  /\ new = ListAdd(out, e, h) => M = [L EXCEPT ![h] = <<e>> \o @]
             /\ new = ListAddTail(out, e, h) => M = [L EXCEPT ![h] = Append(@, e)]
  <2> DEFINE front == [L EXCEPT ![h] = <<e>> \o @]
             tail == [L EXCEPT ![h] = Append(@, e)]
  <2>1. /\ Rings(ListAdd(out, e, h), S \cup {e}, front)
        /\ Rings(ListAddTail(out, e, h), S \cup {e}, tail)
    BY <1>1, <1>2, AddLists
  <2> HIDE DEF front, tail
  <2>2. new = ListAdd(out, e, h) => M = front
    BY <2>1, RingsOnce
  <2>3. new = ListAddTail(out, e, h) => M = tail
    BY <2>1, RingsOnce
  <2> QED BY <2>2, <2>3 DEF front, tail
<1> QED BY <1>4, <1>5 DEF out, L

ReplacesIn(h, new, M) ==
  /\ \A k \in DOMAIN Lists[h], e \in Entries \ live :
       new \in {Replace(links, Lists[h][k], e),
                INIT_LIST_HEAD(Replace(links, Lists[h][k], e), Lists[h][k])} =>
         M = Given(Ready, h, [Lists[h] EXCEPT ![k] = e])
  /\ \A g \in Heads \ live :
       /\ new = Replace(links, h, g) => M = Given((Ready \ {h}) \cup {g}, g, Lists[h])
       /\ new = INIT_LIST_HEAD(Replace(links, h, g), h) =>
            M = [Given(Ready \cup {g}, g, Lists[h]) EXCEPT ![h] = << >>]

LEMMA CallReplaces ==
  ASSUME Rings(links, live, Lists), NEW new, NEW T, NEW M, Rings(new, T, M), NEW h \in Ready
  PROVE  ReplacesIn(h, new, M)
<1> DEFINE L == Lists
<1>1. DOMAIN L = Ready /\ h \in live \cap Heads
  BY DEF Lists, Ready
<1>2. ASSUME NEW k \in DOMAIN Lists[h], NEW e \in Entries \ live,
             new \in {Replace(links, Lists[h][k], e),
                      INIT_LIST_HEAD(Replace(links, Lists[h][k], e), Lists[h][k])}
      PROVE  M = Given(Ready, h, [Lists[h] EXCEPT ![k] = e])
  <2> DEFINE old == L[h][k]
             S == (live \ {old}) \cup {e}
             out == Replace(links, old, e)
             s == [L[h] EXCEPT ![k] = e]
             K == [L EXCEPT ![h] = s]
  <2>1. Rings(out, S, K)
    BY <1>1, ReplaceLists
  <2>2. old \in Entries \ S
    <3>1. RingIs(links, live, h, L[h]) /\ k \in DOMAIN L[h]
      BY <1>1 DEF Rings
    <3>2. L[h] \in Seq(live \cap Entries)
      BY <3>1 DEF RingIs
    <3>3. old \in live \cap Entries
      BY <3>1, <3>2
    <3> QED BY <3>3
  <2> HIDE DEF S, K, out, old
  <2>3. Rings(INIT_LIST_HEAD(out, old), S, K)
    BY <2>1, <2>2, ApartLists
  <2>4. new \in {out, INIT_LIST_HEAD(out, old)}
    BY <1>2 DEF out, old
  <2>5. M = K
    BY <2>1, <2>3, <2>4, RingsOnce
  <2> HIDE DEF s
  <2> QED BY <2>5, GivenIs DEF K, s
<1>3. ASSUME NEW g \in Heads \ live
      PROVE  /\ new = Replace(links, h, g) => M = Given((Ready \ {h}) \cup {g}, g, Lists[h])
             /\ new = INIT_LIST_HEAD(Replace(links, h, g), h) =>
                  M = [Given(Ready \cup {g}, g, Lists[h]) EXCEPT ![h] = << >>]
  <2> DEFINE S == (live \ {h}) \cup {g}
             out == Replace(links, h, g)
             K == [x \in S \cap Heads |-> IF x = g THEN L[h] ELSE L[x]]
             N == [x \in (S \cup {h}) \cap Heads |-> IF x = h THEN << >> ELSE K[x]]
  <2>1. Rings(out, S, K)
    BY <1>1, ReplaceHeadLists
  <2>2. h \in Heads \ S
    BY <1>1
  <2>3. K = Given((Ready \ {h}) \cup {g}, g, Lists[h])
    <3>1. S \cap Heads = (Ready \ {h}) \cup {g}
      BY DEF Ready
    <3> HIDE DEF S
    <3> QED BY <3>1 DEF Given
  <2> HIDE DEF K, out
  <2>4. Rings(INIT_LIST_HEAD(out, h), S \cup {h}, N)
    <3> HIDE DEF S
    <3> QED BY <2>1, <2>2, InitLists
  <2> HIDE DEF N
  <2>5. new = out => M = K
    BY <2>1, RingsOnce
  <2>6. new = INIT_LIST_HEAD(out, h) => M = N
    BY <2>4, RingsOnce
  <2>7. (S \cup {h}) \cap Heads = Ready \cup {g}
    BY <1>1 DEF Ready
  <2>8. \A x \in (Ready \cup {g}) \ {h} : x \in S \cap Heads
    BY DEF Ready
  <2> DEFINE G == Given(Ready \cup {g}, g, L[h])
  <2>9. G = [x \in Ready \cup {g} |-> IF x = g THEN L[h] ELSE L[x]]
    BY DEF Given
  <2>10. N = [x \in Ready \cup {g} |-> IF x = h THEN << >> ELSE K[x]]
    BY <2>7 DEF N
  <2>11. \A x \in (Ready \cup {g}) \ {h} : K[x] = G[x]
    <3> HIDE DEF G, S
    <3> QED BY <2>8, <2>9 DEF K
  <2> HIDE DEF G
  <2>12. N = [G EXCEPT ![h] = << >>]
    <3>1. DOMAIN G = Ready \cup {g} /\ G = [x \in Ready \cup {g} |-> G[x]]
      BY <2>9
    <3> QED BY <2>10, <2>11, <3>1
  <2> QED BY <2>3, <2>5, <2>6, <2>12 DEF G, out
<1> QED BY <1>2, <1>3 DEF ReplacesIn

ListsCut(h, list, k) ==
  [Given(Ready \cup {list}, list, SubSeq(Lists[h], 1, k)) EXCEPT ![h] = SubSeq(@, k + 1, Len(@))]

(* A head that is initialised has an empty list, whether it was in use with *)
(* an empty one or not in use.                                              *)
LEMMA CallEmpties ==
  ASSUME Rings(links, live, Lists), NEW new, NEW T, NEW M, Rings(new, T, M),
         NEW list \in Heads, list \in live => ListEmpty(list),
         new = INIT_LIST_HEAD(links, list)
  PROVE  M = Given(Ready \cup {list}, list, <<>>)
<1>1. CASE list \notin live
  BY <1>1, CallBegins
<1>2. CASE list \in live
  <2>1. /\ links \in AllLinks /\ links.next[list] = list /\ links.prev[list] = list
        /\ RingIs(links, live, list, Lists[list]) /\ list \in Nodes /\ list \in Ready
    BY <1>2 DEF Rings, Good, Sound, ListEmpty, Nodes, Ready
  <2>2. INIT_LIST_HEAD(links, list) = links
    BY <2>1 DEF INIT_LIST_HEAD, Link, AllLinks, Pointers
  <2>3. M = Lists
    BY <2>2, RingsOnce
  <2>4. Lists[list] = <<>>
    <3> DEFINE s == Lists[list]
    <3>1. RingIs(links, live, list, s) /\ Sound(links, live) /\ list \in live \cap Heads
      BY <1>2, <2>1 DEF Rings, Good
    <3> HIDE DEF s
    <3>2. Len(s) \in Nat /\ \A k \in 1..Len(s) : s[k] # list
      BY <3>1, RingGives
    <3>3. ~(1 \in 1..Len(s))
      BY <2>1, <3>1, <3>2 DEF RingIs
    <3>4. Len(s) = 0 /\ s \in Seq(live \cap Entries)
      BY <3>1, <3>2, <3>3 DEF RingIs
    <3> QED BY <3>4, EmptySeq DEF s
  <2>5. Ready \cup {list} = Ready
    BY <2>1
  <2>6. Lists = [g \in Ready |-> Lists[g]]
    BY DEF Lists
  <2> QED BY <2>3, <2>4, <2>5, <2>6 DEF Given
<1> QED BY <1>1, <1>2

LEMMA CallCuts ==
  ASSUME Rings(links, live, Lists), NEW new, NEW T, NEW M, Rings(new, T, M),
         NEW h \in Ready, NEW list \in Heads, NEW k \in DOMAIN Lists[h],
         list # h, list \in live => ListEmpty(list), new = Cut(links, list, h, Lists[h][k])
  PROVE  M = ListsCut(h, list, k)
<1> DEFINE s == Lists[h]
           a == SubSeq(s, 1, k)
           b == SubSeq(s, k + 1, Len(s))
           K == AfterCut(live, Lists, list, h, k)
           G == Given(Ready \cup {list}, list, a)
<1>1. Rings(new, live \cup {list}, K)
  <2>1. h \in live \cap Heads /\ list \in Heads \ {h} /\ (list \in live => links.next[list] = list)
    BY DEF ListEmpty, Ready
  <2>2. Rings(Cut(links, list, h, Lists[h][k]), live \cup {list}, K)
    BY <2>1, CutLists
  <2> QED BY <2>2
<1> HIDE DEF K
<1>2. M = K
  BY <1>1, RingsOnce
<1>3. (live \cup {list}) \cap Heads = Ready \cup {list}
  BY DEF Ready
<1>4. K = [g \in Ready \cup {list} |-> IF g = list THEN a ELSE IF g = h THEN b ELSE Lists[g]]
  BY <1>3 DEF K, AfterCut
<1>5. G = [g \in Ready \cup {list} |-> IF g = list THEN a ELSE Lists[g]]
  BY DEF Given
<1> HIDE DEF G, a, b, s
<1>6. G[h] = s
  BY <1>5 DEF s
<1>7. K = [G EXCEPT ![h] = b]
  BY <1>4, <1>5
<1> QED BY <1>2, <1>6, <1>7 DEF G, a, b, s, ListsCut

(* What a splice leaves if it makes c of the list at h: with the head list  *)
(* left behind, or initialised.                                             *)
LEMMA SpliceLeaves ==
  ASSUME NEW new, NEW T, NEW M, Rings(new, T, M), NEW h \in Ready, NEW list \in Ready, h # list,
         NEW c, NEW out, Rings(out, live \ {list}, Given(Ready \ {list}, h, c))
  PROVE  /\ new = out => M = Given(Ready \ {list}, h, c)
         /\ new = INIT_LIST_HEAD(out, list) => M = [Lists EXCEPT ![h] = c, ![list] = << >>]
<1> DEFINE K == Given(Ready \ {list}, h, c)
           S == live \ {list}
           N == [g \in (S \cup {list}) \cap Heads |-> IF g = list THEN << >> ELSE K[g]]
<1>1. list \in Heads \ S /\ (S \cup {list}) \cap Heads = Ready
  BY DEF Ready
<1>2. K = [g \in Ready \ {list} |-> IF g = h THEN c ELSE Lists[g]]
  BY DEF Given
<1> HIDE DEF K, S
<1>3. Rings(out, S, K)
  BY DEF K, S
<1>4. Rings(INIT_LIST_HEAD(out, list), S \cup {list}, N)
  BY <1>1, <1>3, InitLists
<1>5. N = [g \in Ready |-> IF g = list THEN << >> ELSE IF g = h THEN c ELSE Lists[g]]
  BY <1>1, <1>2
<1> HIDE DEF N
<1>6. N = [Lists EXCEPT ![h] = c, ![list] = << >>]
  <2>1. DOMAIN Lists = Ready /\ Lists = [g \in Ready |-> Lists[g]]
    BY DEF Lists
  <2> QED BY <1>5, <2>1
<1>7. new = out => M = K
  BY <1>3, RingsOnce
<1>8. new = INIT_LIST_HEAD(out, list) => M = N
  BY <1>4, RingsOnce
<1> QED BY <1>6, <1>7, <1>8 DEF K

SplicesTo(h, list, new, M) ==
  LET front == SpliceBetween(links, list, h, links.next[h])
      tail == SpliceBetween(links, list, links.prev[h], h)
  IN  /\ new = front => M = Given(Ready \ {list}, h, Lists[list] \o Lists[h])
      /\ new = tail => M = Given(Ready \ {list}, h, Lists[h] \o Lists[list])
      /\ new = INIT_LIST_HEAD(front, list) =>
           M = [Lists EXCEPT ![h] = Lists[list] \o @, ![list] = << >>]
      /\ new = INIT_LIST_HEAD(tail, list) =>
           M = [Lists EXCEPT ![h] = @ \o Lists[list], ![list] = << >>]

LEMMA CallSplices ==
  ASSUME Rings(links, live, Lists), NEW new, NEW T, NEW M, Rings(new, T, M),
         NEW h \in Ready, NEW list \in Ready, h # list, Lists[list] # << >>
  PROVE  SplicesTo(h, list, new, M)
<1> DEFINE s == Lists[h]
           t == Lists[list]
           p == links.prev[h]
           front == SpliceBetween(links, list, h, links.next[h])
           tail == SpliceBetween(links, list, p, h)
<1>1. /\ h \in live \cap Heads /\ list \in live \cap Heads
      /\ Sound(links, live) /\ RingIs(links, live, h, s) /\ RingIs(links, live, list, t)
  BY DEF Ready, Rings, Good
<1>2. links.next[p] = h
  BY <1>1 DEF Sound
<1>3. \A q \in {h, p} : Rings(SpliceBetween(links, list, q, links.next[q]), live \ {list},
                              AfterSplice(live, Lists, list, h, q))
  <2> SUFFICES ASSUME NEW q \in {h, links.prev[h]}
               PROVE  Rings(SpliceBetween(links, list, q, links.next[q]), live \ {list},
                            AfterSplice(live, Lists, list, h, q))
    OBVIOUS
  <2> QED BY <1>1, SpliceLists
<1>4. (live \ {list}) \cap Heads = Ready \ {list}
  BY DEF Ready
<1>5. s \in Seq(Entries) /\ t \in Seq(Entries)
  <2>1. s \in Seq(live \cap Entries) /\ t \in Seq(live \cap Entries)
    BY <1>1 DEF RingIs
  <2> HIDE DEF s, t
  <2> QED BY <2>1
<1>6. AfterSplice(live, Lists, list, h, h) = Given(Ready \ {list}, h, t \o s)
  BY <1>4 DEF AfterSplice, Given
<1>7. ASSUME p = h PROVE t \o s = s \o t
  <2>1. /\ p = IF Len(s) = 0 THEN h ELSE s[Len(s)]
        /\ Len(s) \in Nat /\ \A k \in 1..Len(s) : s[k] # h
    <3> HIDE DEF s
    <3>1. p = IF Len(s) = 0 THEN h ELSE s[Len(s)]
      BY <1>1, RingPrev
    <3>2. Len(s) \in Nat /\ \A k \in 1..Len(s) : s[k] # h
      BY <1>1, RingGives
    <3> QED BY <3>1, <3>2
  <2> HIDE DEF s, t, p
  <2>2. Len(s) # 0 => Len(s) \in 1..Len(s)
    BY <2>1
  <2>3. s = << >>
    BY <1>5, <1>7, <2>1, <2>2, EmptySeq
  <2> QED BY <1>5, <2>3, ConcatEmptySeq
<1>8. AfterSplice(live, Lists, list, h, p) = Given(Ready \ {list}, h, s \o t)
  <2> DEFINE c == s \o t
             d == t \o s
  <2>1. AfterSplice(live, Lists, list, h, p)
          = [g \in Ready \ {list} |-> IF g # h THEN Lists[g] ELSE IF p = h THEN d ELSE c]
    BY <1>4 DEF AfterSplice
  <2>2. p = h => d = c
    BY <1>7
  <2> HIDE DEF c, d, p
  <2>3. AfterSplice(live, Lists, list, h, p) = [g \in Ready \ {list} |-> IF g = h THEN c ELSE Lists[g]]
    BY <2>1, <2>2
  <2> QED BY <2>3 DEF Given, c
<1>9. /\ Rings(front, live \ {list}, Given(Ready \ {list}, h, t \o s))
      /\ Rings(tail, live \ {list}, Given(Ready \ {list}, h, s \o t))
  BY <1>2, <1>3, <1>6, <1>8
<1>10. /\ new = front => M = Given(Ready \ {list}, h, t \o s)
       /\ new = INIT_LIST_HEAD(front, list) => M = [Lists EXCEPT ![h] = t \o s, ![list] = << >>]
  <2> DEFINE c == t \o s
  <2> HIDE DEF front, tail, c, s, t, p
  <2>1. Rings(front, live \ {list}, Given(Ready \ {list}, h, c))
    BY <1>9 DEF c
  <2>2. /\ new = front => M = Given(Ready \ {list}, h, c)
        /\ new = INIT_LIST_HEAD(front, list) => M = [Lists EXCEPT ![h] = c, ![list] = << >>]
    BY <2>1, SpliceLeaves
  <2> QED BY <2>2 DEF c
<1>11. /\ new = tail => M = Given(Ready \ {list}, h, s \o t)
       /\ new = INIT_LIST_HEAD(tail, list) => M = [Lists EXCEPT ![h] = s \o t, ![list] = << >>]
  <2> DEFINE c == s \o t
  <2> HIDE DEF front, tail, c, s, t, p
  <2>1. Rings(tail, live \ {list}, Given(Ready \ {list}, h, c))
    BY <1>9 DEF c
  <2>2. /\ new = tail => M = Given(Ready \ {list}, h, c)
        /\ new = INIT_LIST_HEAD(tail, list) => M = [Lists EXCEPT ![h] = c, ![list] = << >>]
    BY <2>1, SpliceLeaves
  <2> QED BY <2>2 DEF c
<1> QED BY <1>10, <1>11 DEF SplicesTo

(* The parts of CallRight for any links afterwards.                         *)
LEMMA CallIs ==
  ASSUME Rings(links, live, Lists), Rings(links', live', Lists')
  PROVE  CallRight
<1> DEFINE new == links'
           T == live'
           M == Lists'
<1>1. Rings(new, T, M)
  OBVIOUS
<1>2. new = links => M = Lists
  <2> HIDE DEF new, T, M
  <2> QED BY <1>1, RingsOnce
<1>3. AddRight
  <2> HIDE DEF new, T, M
  <2>1. ASSUME NEW h \in Heads \ live
        PROVE  new = INIT_LIST_HEAD(links, h) => M = Given(Ready \cup {h}, h, <<>>)
    BY <1>1, CallBegins
  <2>2. ASSUME NEW e \in Entries \ live, NEW h \in Ready
        PROVE  /\ new = ListAdd(links, e, h) => M = Given(Ready, h, <<e>> \o Lists[h])
               /\ new = ListAddTail(links, e, h) => M = Given(Ready, h, Append(Lists[h], e))
               /\ \A k \in DOMAIN Lists[h] :
                    /\ new = AddBetween(links, e, links.prev[Lists[h][k]], Lists[h][k]) =>
                         M = Given(Ready, h, InsertAt(Lists[h], k, e))
                    /\ new = AddBetween(links, e, Lists[h][k], links.next[Lists[h][k]]) =>
                         M = Given(Ready, h, InsertAt(Lists[h], k + 1, e))
    BY <1>1, CallAdds
  <2> QED BY <2>1, <2>2 DEF AddRight, new, M
<1>4. DelRight
  <2> HIDE DEF new, T, M
  <2>1. ASSUME NEW e \in Listed
        PROVE  /\ new \in {Poisoned(Unlink(links, e), e), INIT_LIST_HEAD(Unlink(links, e), e)} =>
                    M = Without(e)
               /\ \A h \in Ready :
                    /\ new = ListAdd(Unlink(links, e), e, h) =>
                         M = [Without(e) EXCEPT ![h] = <<e>> \o @]
                    /\ new = ListAddTail(Unlink(links, e), e, h) =>
                         M = [Without(e) EXCEPT ![h] = Append(@, e)]
    BY <1>1, CallRemoves
  <2> QED BY <2>1 DEF DelRight, new, M
<1>5. ReplaceRight
  <2> HIDE DEF new, T, M
  <2>1. ASSUME NEW h \in Ready PROVE ReplacesIn(h, new, M)
    BY <1>1, CallReplaces
  <2> QED BY <2>1 DEF ReplacesIn, ReplaceRight, new, M
<1>6. CutRight
  <2> HIDE DEF new, T, M
  <2>1. ASSUME NEW h \in Ready, NEW list \in Heads, h # list, list \in live => ListEmpty(list)
        PROVE  /\ new = INIT_LIST_HEAD(links, list) => M = Given(Ready \cup {list}, list, <<>>)
               /\ \A k \in DOMAIN Lists[h] :
                    new = Cut(links, list, h, Lists[h][k]) => M = ListsCut(h, list, k)
    <3>1. new = INIT_LIST_HEAD(links, list) => M = Given(Ready \cup {list}, list, <<>>)
      BY <1>1, <2>1, CallEmpties
    <3>2. ASSUME NEW k \in DOMAIN Lists[h], new = Cut(links, list, h, Lists[h][k])
          PROVE  M = ListsCut(h, list, k)
      BY <1>1, <2>1, <3>2, CallCuts
    <3> QED BY <3>1, <3>2
  <2> QED BY <2>1 DEF CutRight, ListsCut, new, M
<1>7. SpliceRight
  <2> HIDE DEF new, T, M
  <2>1. ASSUME NEW h \in Ready, NEW list \in Ready, h # list, Lists[list] # << >>
        PROVE  SplicesTo(h, list, new, M)
    BY <1>1, <2>1, CallSplices
  <2> QED BY <2>1 DEF SplicesTo, SpliceRight, new, M
<1> QED BY <1>2, <1>3, <1>4, <1>5, <1>6, <1>7 DEF CallRight, new, M

(* Whatever calls were made before, each call changes the lists as one on   *)
(* sequences does, and no other list (list.h:35-345).                       *)
THEOREM CallsAsSequences == ListsSpec => CallsRight
<1> DEFINE Inv == RingsInv /\ NoneJoins
<1>1. ListsInit => Inv
  <2>1. ListsInit => NoneJoins
    BY NodeAssumption DEF ListsInit, NoneJoins, LeftBehind, Nodes
  <2> QED BY <2>1, RingsInit
<1>2. Inv /\ [ListsNext]_listVars => Inv'
  BY RingsHold, NoneJoinsHolds
<1>3. Inv => Rings(links, live, Lists)
  BY ListsRings
<1>4. Rings(links, live, Lists) /\ Rings(links, live, Lists)' => CallRight
  BY CallIs
<1> HIDE DEF Inv
<1> QED BY <1>1, <1>2, <1>3, <1>4, PTL DEF ListsSpec, CallsRight
=============================================================================
