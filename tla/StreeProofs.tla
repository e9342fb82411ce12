---------------------------- MODULE StreeProofs ----------------------------
(***************************************************************************)
(* Proofs about the search trees for any nodes with any keys: while users  *)
(* only add and search, and of each deletion and move from sound trees.    *)
(***************************************************************************)
EXTENDS StreeProps, NaturalsInduction, WellFoundedInduction, FiniteSetTheorems, TLAPS

LEMMA LeastNat ==
  ASSUME NEW S \in SUBSET Nat, S # {}
  PROVE  \E x \in S : \A y \in S : x <= y
<1>1. PICK x \in S : \A y \in S : ~(<<y, x>> \in OpToRel(<, Nat))
  BY NatLessThanWellFounded, WFMin
<1>2. ASSUME NEW y \in S PROVE x <= y
  <2>1. x \in Nat /\ y \in Nat
    OBVIOUS
  <2>2. y < x => <<y, x>> \in OpToRel(<, Nat)
    BY <2>1, Zenon DEF OpToRel
  <2>3. ~(y < x)
    BY <1>1, <2>2
  <2> QED BY <2>1, <2>3
<1> QED BY <1>2

LEMMA Induct ==
  ASSUME NEW S, 0 \in S, \A n \in Nat : n \in S => n + 1 \in S
  PROVE  Nat \subseteq S
<1> SUFFICES ASSUME Nat \ S # {} PROVE FALSE
  OBVIOUS
<1> DEFINE T == Nat \ S
<1>1. PICK x \in T : \A y \in T : x <= y
  <2>1. T \in SUBSET Nat /\ T # {}
    OBVIOUS
  <2> HIDE DEF T
  <2> QED BY <2>1, LeastNat
<1>2. x \in Nat /\ x # 0 /\ x \notin S
  BY <1>1
<1>3. x - 1 \in Nat /\ (x - 1) + 1 = x /\ ~(x <= x - 1)
  BY <1>2
<1>4. x - 1 \in S
  BY <1>1, <1>3
<1> QED BY <1>2, <1>3, <1>4

-----------------------------------------------------------------------------
(* Links l with a shape: D[n] is the set of the nodes below n.              *)
Places == Nodes \cup {Null}
Forest(l, t, D) ==
  /\ l \in Linkage /\ t \in [Nodes -> Roots \cup {Null}]
  /\ D \in [Places -> SUBSET Nodes] /\ D[Null] = {}
  /\ Shape(l, t, D)

LEMMA Fields ==
  ASSUME NEW l \in Linkage, NEW n \in Nodes
  PROVE  l.lh[n] \in Places /\ l.rh[n] \in Places /\ l.parent[n] \in Places
BY DEF Linkage, Places

(* Trees get smaller downwards, so a way down ends. *)
LEMMA Smaller ==
  ASSUME NEW l, NEW t, NEW D, Forest(l, t, D), NEW x \in Nodes, NEW m \in D[x], m # x
  PROVE  /\ Cardinality(D[m]) \in Nat /\ Cardinality(D[x]) \in Nat
         /\ Cardinality(D[m]) < Cardinality(D[x])
<1>1. D[x] \subseteq Nodes /\ m \in Nodes /\ D[m] \subseteq D[x]
  BY DEF Forest, Shape, Places
<1>2. l.lh[x] \in Places /\ l.rh[x] \in Places
  BY Fields DEF Forest
<1>3. x \in D[x] /\ m \in D[l.lh[x]] \cup D[l.rh[x]]
  BY DEF Forest, Shape
<1>4. x \notin D[m]
  <2>1. Key[x] \in Int
    BY NodeAssumption
  <2>2. x \notin D[l.lh[x]] /\ x \notin D[l.rh[x]]
    BY <2>1 DEF Forest, Shape
  <2>3. CASE m \in D[l.lh[x]]
    <3>1. l.lh[x] \in Nodes
      BY <1>2, <2>3 DEF Forest, Places
    <3>2. D[m] \subseteq D[l.lh[x]]
      BY <2>3, <3>1 DEF Forest, Shape
    <3> QED BY <2>2, <3>2
  <2>4. CASE m \in D[l.rh[x]]
    <3>1. l.rh[x] \in Nodes
      BY <1>2, <2>4 DEF Forest, Places
    <3>2. D[m] \subseteq D[l.rh[x]]
      BY <2>4, <3>1 DEF Forest, Shape
    <3> QED BY <2>2, <3>2
  <2> QED BY <1>3, <2>3, <2>4
<1>5. IsFiniteSet(D[x]) /\ IsFiniteSet(D[m])
  BY <1>1, NodeAssumption, FS_Subset
<1> QED BY <1>1, <1>3, <1>4, <1>5, FS_Subset, FS_CardinalityType

LEMMA MaxNat == Max \in Nat /\ IsFiniteSet(Nodes)
BY NodeAssumption, FS_CardinalityType DEF Max

(* The levels by which Under collects the nodes. *)
IsLevels(f, l, n, i) ==
  f = [k \in 0..i |->
        IF k = 0 THEN {n} \ {Null}
        ELSE f[k - 1] \cup (({l.lh[m] : m \in f[k - 1]} \cup {l.rh[m] : m \in f[k - 1]}) \ {Null})]

LEMMA LevelsExist ==
  ASSUME NEW l, NEW n, NEW i \in Nat
  PROVE  \E f : IsLevels(f, l, n, i)
<1> DEFINE S == {j \in Nat : \E f : IsLevels(f, l, n, j)}
           Grown(M) == M \cup (({l.lh[m] : m \in M} \cup {l.rh[m] : m \in M}) \ {Null})
<1>1. 0 \in S
  <2>1. IsLevels([k \in 0..0 |-> {n} \ {Null}], l, n, 0)
    BY DEF IsLevels
  <2> QED BY <2>1
<1>2. ASSUME NEW j \in Nat, j \in S PROVE j + 1 \in S
  <2>1. PICK f : IsLevels(f, l, n, j)
    BY <1>2
  <2> DEFINE g == [k \in 0 .. j + 1 |-> IF k = j + 1 THEN Grown(f[j]) ELSE f[k]]
  <2>2. ASSUME NEW k \in 0 .. j + 1 PROVE g[k] = IF k = 0 THEN {n} \ {Null} ELSE Grown(g[k - 1])
    <3> HIDE DEF Grown
    <3>1. CASE k = j + 1
      BY <3>1
    <3>2. CASE k # j + 1
      <4>1. k \in 0..j /\ g[k] = f[k] /\ (k # 0 => g[k - 1] = f[k - 1])
        BY <3>2
      <4>2. f[k] = IF k = 0 THEN {n} \ {Null} ELSE Grown(f[k - 1])
        BY <2>1, <4>1 DEF IsLevels, Grown
      <4> QED BY <4>1, <4>2
    <3> QED BY <3>1, <3>2
  <2>3. IsLevels(g, l, n, j + 1)
    BY <2>2 DEF IsLevels
  <2> HIDE DEF g
  <2> QED BY <2>3
<1> HIDE DEF S
<1>3. i \in S
  BY <1>1, <1>2, Induct
<1> QED BY <1>3 DEF S

(* Under finds what is below a node. *)
LEMMA UnderIs ==
  ASSUME NEW l, NEW t, NEW D, Forest(l, t, D), NEW n \in Places
  PROVE  Under(l, n) = D[n]
<1> DEFINE f == CHOOSE g : IsLevels(g, l, n, Max)
<1>1. Under(l, n) = f[Max]
  BY DEF Under, IsLevels
<1>2. IsLevels(f, l, n, Max)
  BY MaxNat, LevelsExist
<1> HIDE DEF f
<1>3. f[0] = {n} \ {Null}
  BY <1>2, MaxNat DEF IsLevels
<1>4. ASSUME NEW k \in Nat, k + 1 <= Max
      PROVE  f[k + 1] = f[k] \cup (({l.lh[m] : m \in f[k]} \cup {l.rh[m] : m \in f[k]}) \ {Null})
  <2>1. k + 1 \in 0..Max /\ k + 1 # 0 /\ (k + 1) - 1 = k
    BY <1>4, MaxNat
  <2> QED BY <1>2, <2>1 DEF IsLevels
<1>5. f[Max] \subseteq D[n]
  <2> DEFINE S == {k \in Nat : k <= Max => f[k] \subseteq D[n]}
  <2>1. 0 \in S
    BY <1>3 DEF Forest, Shape, Places
  <2>2. ASSUME NEW k \in Nat, k \in S PROVE k + 1 \in S
    <3> SUFFICES ASSUME k + 1 <= Max PROVE f[k + 1] \subseteq D[n]
      OBVIOUS
    <3>1. f[k] \subseteq D[n]
      BY <2>2, MaxNat
    <3>2. ASSUME NEW m \in f[k] PROVE {l.lh[m], l.rh[m]} \ {Null} \subseteq D[n]
      <4>1. m \in D[n] /\ n \in Nodes /\ m \in Nodes
        BY <3>1 DEF Forest, Places
      <4>2. D[m] \subseteq D[n]
        BY <4>1 DEF Forest, Shape
      <4>3. ASSUME NEW c \in {l.lh[m], l.rh[m]} \ {Null} PROVE c \in D[m]
        <5>1. c \in Nodes
          BY <4>1, Fields DEF Forest, Places
        <5>2. c \in D[c] /\ D[c] \subseteq D[m]
          BY <4>1, <5>1 DEF Forest, Shape
        <5> QED BY <5>2
      <4> QED BY <4>2, <4>3
    <3> QED BY <1>4, <3>1, <3>2
  <2> HIDE DEF S
  <2>3. Max \in S
    BY <2>1, <2>2, Induct, MaxNat
  <2> QED BY <2>3, MaxNat DEF S
<1>6. D[n] \subseteq f[Max]
  <2> DEFINE S == {k \in Nat : k <= Max =>
                     \A m \in D[n] : Max <= Cardinality(D[m]) + k => m \in f[k]}
  <2>1. 0 \in S
    <3> SUFFICES ASSUME NEW m \in D[n], Max <= Cardinality(D[m]) + 0 PROVE m \in f[0]
      OBVIOUS
    <3>1. n \in Nodes /\ n # Null
      BY NodeAssumption DEF Forest, Places
    <3>2. CASE m = n
      BY <1>3, <3>1, <3>2
    <3>3. CASE m # n
      <4>1. /\ Cardinality(D[m]) \in Nat /\ Cardinality(D[n]) \in Nat
            /\ Cardinality(D[m]) < Cardinality(D[n])
        BY <3>1, <3>3, Smaller
      <4>2. D[n] \subseteq Nodes
        BY DEF Forest
      <4>3. Cardinality(D[n]) <= Max
        BY <4>2, MaxNat, FS_Subset DEF Max
      <4> QED BY <4>1, <4>3, MaxNat
    <3> QED BY <3>2, <3>3
  <2>2. ASSUME NEW k \in Nat, k \in S PROVE k + 1 \in S
    <3> SUFFICES ASSUME k + 1 <= Max
                 PROVE  \A m \in D[n] : Max <= Cardinality(D[m]) + (k + 1) => m \in f[k + 1]
      OBVIOUS
    <3> SUFFICES ASSUME NEW m \in D[n], Max <= Cardinality(D[m]) + (k + 1)
                 PROVE  m \in f[k + 1]
      OBVIOUS
    <3>1. n \in Nodes /\ n # Null /\ m \in Nodes
      BY NodeAssumption DEF Forest, Places
    <3>2. k <= Max /\ \A q \in D[n] : Max <= Cardinality(D[q]) + k => q \in f[k]
      BY <2>2, MaxNat
    <3>3. CASE m = n
      <4> DEFINE T == {j \in Nat : j <= Max => n \in f[j]}
      <4>1. 0 \in T
        BY <1>3, <3>1
      <4>2. ASSUME NEW j \in Nat, j \in T PROVE j + 1 \in T
        <5> SUFFICES ASSUME j + 1 <= Max PROVE n \in f[j + 1]
          OBVIOUS
        <5>1. n \in f[j]
          BY <4>2, MaxNat
        <5> QED BY <1>4, <5>1
      <4> HIDE DEF T
      <4>3. k + 1 \in T
        BY <4>1, <4>2, Induct
      <4> QED BY <3>3, <4>3 DEF T
    <3>4. CASE m # n
      <4> DEFINE p == l.parent[m]
      <4>1. p \in D[n] /\ p \in Nodes /\ p # Null
        BY <3>1, <3>4, NodeAssumption DEF Forest, Shape
      <4>2. m \in {l.lh[p], l.rh[p]}
        BY <3>1, <4>1 DEF Forest, Shape
      <4>3. m \in D[p] /\ m # p
        <5>1. m \in D[m] /\ D[p] = {p} \cup D[l.lh[p]] \cup D[l.rh[p]]
          BY <3>1, <4>1 DEF Forest, Shape
        <5>2. Key[p] \in Int
          BY <4>1, NodeAssumption
        <5>3. p \notin D[l.lh[p]] /\ p \notin D[l.rh[p]]
          BY <4>1, <5>2 DEF Forest, Shape
        <5> QED BY <4>2, <5>1, <5>3
      <4>4. /\ Cardinality(D[m]) \in Nat /\ Cardinality(D[p]) \in Nat
            /\ Cardinality(D[m]) < Cardinality(D[p])
        BY <4>1, <4>3, Smaller
      <4>5. Max <= Cardinality(D[p]) + k
        BY <4>4, MaxNat
      <4>6. p \in f[k]
        BY <3>2, <4>1, <4>5
      <4> QED BY <1>4, <3>1, <4>2, <4>6, NodeAssumption
    <3> QED BY <3>3, <3>4
  <2> HIDE DEF S
  <2>3. Max \in S
    BY <2>1, <2>2, Induct, MaxNat
  <2>4. ASSUME NEW m \in D[n] PROVE Max <= Cardinality(D[m]) + Max
    <3>1. D[m] \subseteq Nodes
      BY DEF Forest, Places
    <3>2. Cardinality(D[m]) \in Nat
      BY <3>1, MaxNat, FS_Subset, FS_CardinalityType
    <3> QED BY <3>2, MaxNat
  <2> QED BY <2>3, <2>4, MaxNat DEF S
<1> QED BY <1>1, <1>5, <1>6
-----------------------------------------------------------------------------
(* A node that the walk for a key may visit: what lies above it has sent    *)
(* the walk there, and the key is nowhere else.                             *)
OnWay(l, D, root, key, n) ==
  /\ n \in D[root]
  /\ \A x \in Nodes : /\ n \in D[l.lh[x]] => key < Key[x]
                      /\ n \in D[l.rh[x]] => key > Key[x]
  /\ \A m \in D[root] : Key[m] = key => m \in D[n]

LEMMA RootOnWay ==
  ASSUME NEW l, NEW t, NEW D, Forest(l, t, D), NEW root \in Roots, NEW key \in Int
  PROVE  OnWay(l, D, root, key, root)
<1>1. root \in Nodes /\ D[root] = {n \in Nodes : t[n] = root} /\ root \in D[root] /\ t[root] = root
  BY NodeAssumption DEF Forest, Shape
<1>2. ASSUME NEW x \in Nodes, root \in D[l.lh[x]] \cup D[l.rh[x]] PROVE FALSE
  <2>1. root \in D[x] /\ t[root] = t[x]
    BY <1>2 DEF Forest, Shape
  <2>2. x \in D[root]
    BY <1>1, <2>1
  <2>3. l.lh[x] \in Places /\ l.rh[x] \in Places
    BY Fields DEF Forest
  <2>4. \A y \in {l.lh[x], l.rh[x]} : root \in D[y] => x \in D[y]
    <3> SUFFICES ASSUME NEW y \in {l.lh[x], l.rh[x]}, root \in D[y] PROVE x \in D[y]
      OBVIOUS
    <3>1. y \in Nodes
      BY <2>3 DEF Forest, Places
    <3> QED BY <2>2, <3>1 DEF Forest, Shape
  <2>5. Key[x] \in Int
    BY NodeAssumption
  <2> QED BY <1>2, <2>4, <2>5 DEF Forest, Shape
<1> QED BY <1>1, <1>2 DEF OnWay

LEMMA ChildOnWay ==
  ASSUME NEW l, NEW t, NEW D, Forest(l, t, D), NEW root \in Roots, NEW key \in Int,
         NEW n, OnWay(l, D, root, key, n), Key[n] # key, ChildFor(l, n, key) # Null
  PROVE  LET c == ChildFor(l, n, key) IN OnWay(l, D, root, key, c) /\ c \in D[n] /\ c # n
<1> DEFINE c == ChildFor(l, n, key)
<1>1. root \in Nodes /\ n \in Nodes /\ n \in D[root]
  BY NodeAssumption DEF Forest, Places, OnWay
<1>2. /\ Key[n] \in Int /\ l.lh[n] \in Places /\ l.rh[n] \in Places
      /\ \A x \in Nodes : Key[x] \in Int
  BY <1>1, NodeAssumption, Fields DEF Forest
<1>3. \/ c = l.lh[n] /\ key < Key[n]
      \/ c = l.rh[n] /\ key > Key[n]
  BY <1>2 DEF ChildFor
<1>4. c \in Nodes /\ c # Null
  BY <1>2, <1>3 DEF Places
<1> HIDE DEF c
<1>5. c \in D[c] /\ D[n] = {n} \cup D[l.lh[n]] \cup D[l.rh[n]] /\ l.parent[c] = n
  BY <1>1, <1>3, <1>4 DEF Forest, Shape
<1>6. \A m \in D[l.lh[n]] : Key[m] < Key[n] /\ m \in Nodes
  BY <1>1, <1>2 DEF Forest, Shape
<1>7. \A m \in D[l.rh[n]] : Key[m] > Key[n] /\ m \in Nodes
  BY <1>1, <1>2 DEF Forest, Shape
<1>8. c \in D[n] /\ c # n
  BY <1>2, <1>3, <1>5, <1>6, <1>7
<1>9. c \in D[root]
  <2>1. D[n] \subseteq D[root]
    BY <1>1 DEF Forest, Shape
  <2> QED BY <1>8, <2>1
<1>10. ASSUME NEW x \in Nodes, NEW y \in {l.lh[x], l.rh[x]}, c \in D[y]
       PROVE  n \in D[y] \/ (x = n /\ y = c)
  <2>1. y \in Nodes /\ y # Null
    BY <1>10, NodeAssumption, Fields DEF Forest, Places
  <2>2. CASE c = y
    BY <1>5, <2>1, <2>2 DEF Forest, Shape
  <2>3. CASE c # y
    BY <1>5, <1>10, <2>1, <2>3 DEF Forest, Shape
  <2> QED BY <2>2, <2>3
<1>11. ASSUME NEW x \in Nodes, c \in D[l.lh[x]] PROVE key < Key[x]
  <2>1. CASE n \in D[l.lh[x]]
    BY <2>1 DEF OnWay
  <2>2. CASE x = n /\ l.lh[x] = c
    <3>1. Key[c] < Key[n]
      BY <1>6, <1>11, <2>2
    <3>2. ~(c = l.rh[n] /\ key > Key[n])
      <4> SUFFICES ASSUME c = l.rh[n] PROVE FALSE
        OBVIOUS
      <4>1. Key[c] > Key[n]
        BY <1>5, <1>7
      <4> QED BY <1>2, <1>4, <3>1, <4>1
    <3> QED BY <1>3, <2>2, <3>2
  <2> QED BY <1>10, <1>11, <2>1, <2>2
<1>12. ASSUME NEW x \in Nodes, c \in D[l.rh[x]] PROVE key > Key[x]
  <2>1. CASE n \in D[l.rh[x]]
    BY <2>1 DEF OnWay
  <2>2. CASE x = n /\ l.rh[x] = c
    <3>1. Key[c] > Key[n]
      BY <1>7, <1>12, <2>2
    <3>2. ~(c = l.lh[n] /\ key < Key[n])
      <4> SUFFICES ASSUME c = l.lh[n] PROVE FALSE
        OBVIOUS
      <4>1. Key[c] < Key[n]
        BY <1>5, <1>6
      <4> QED BY <1>2, <1>4, <3>1, <4>1
    <3> QED BY <1>3, <2>2, <3>2
  <2> QED BY <1>10, <1>12, <2>1, <2>2
<1>13. ASSUME NEW m \in D[root], Key[m] = key PROVE m \in D[c]
  <2>1. m \in D[n] /\ m # n
    BY <1>13 DEF OnWay
  <2>2. m \in D[l.lh[n]] \/ m \in D[l.rh[n]]
    BY <1>5, <2>1
  <2> QED BY <1>2, <1>3, <1>6, <1>7, <1>13, <2>2
<1>14. OnWay(l, D, root, key, c) /\ c \in D[n] /\ c # n
  BY <1>8, <1>9, <1>11, <1>12, <1>13 DEF OnWay
<1> QED BY <1>14 DEF c

IsWay(f, l, root, key, i) ==
  f = [k \in 0..i |-> IF k = 0 THEN root
                      ELSE IF f[k - 1] = Null THEN Null ELSE ChildFor(l, f[k - 1], key)]

LEMMA WayExists ==
  ASSUME NEW l, NEW root, NEW key, NEW i \in Nat
  PROVE  \E f : IsWay(f, l, root, key, i)
<1> DEFINE S == {j \in Nat : \E f : IsWay(f, l, root, key, j)}
           NodeAfter(x) == IF x = Null THEN Null ELSE ChildFor(l, x, key)
<1>1. 0 \in S
  <2>1. IsWay([k \in 0..0 |-> root], l, root, key, 0)
    BY DEF IsWay
  <2> QED BY <2>1
<1>2. ASSUME NEW j \in Nat, j \in S PROVE j + 1 \in S
  <2>1. PICK f : IsWay(f, l, root, key, j)
    BY <1>2
  <2> DEFINE g == [k \in 0 .. j + 1 |-> IF k = j + 1 THEN NodeAfter(f[j]) ELSE f[k]]
  <2>2. ASSUME NEW k \in 0 .. j + 1 PROVE g[k] = IF k = 0 THEN root ELSE NodeAfter(g[k - 1])
    <3> HIDE DEF NodeAfter
    <3>1. CASE k = j + 1
      BY <3>1
    <3>2. CASE k # j + 1
      <4>1. k \in 0..j /\ g[k] = f[k] /\ (k # 0 => g[k - 1] = f[k - 1])
        BY <3>2
      <4>2. f[k] = IF k = 0 THEN root ELSE NodeAfter(f[k - 1])
        BY <2>1, <4>1 DEF IsWay, NodeAfter
      <4> QED BY <4>1, <4>2
    <3> QED BY <3>1, <3>2
  <2>3. IsWay(g, l, root, key, j + 1)
    BY <2>2 DEF IsWay
  <2> HIDE DEF g
  <2> QED BY <2>3
<1> HIDE DEF S
<1>3. i \in S
  BY <1>1, <1>2, Induct
<1> QED BY <1>3 DEF S

(* The walk ends, in the tree and at the only place for the key.            *)
LEMMA AddsWhere ==
  ASSUME NEW l, NEW t, NEW D, Forest(l, t, D), NEW root \in Roots, NEW key \in Int
  PROVE  LET at == AddsAt(l, root, key)
         IN  /\ OnWay(l, D, root, key, at) /\ at \in Nodes
             /\ Key[at] = key \/ ChildFor(l, at, key) = Null
<1> DEFINE f == CHOOSE g : IsWay(g, l, root, key, Max)
           stops == {k \in 0..Max : /\ f[k] # Null
                                    /\ Key[f[k]] = key \/ ChildFor(l, f[k], key) = Null}
<1>1. AddsAt(l, root, key) = IF stops = {} THEN Null ELSE f[First(stops)]
  BY DEF AddsAt, Walk, IsWay
<1>2. IsWay(f, l, root, key, Max)
  BY MaxNat, WayExists
<1> HIDE DEF f
<1>3. f[0] = root
  BY <1>2, MaxNat DEF IsWay
<1>4. ASSUME NEW k \in Nat, k + 1 <= Max
      PROVE  f[k + 1] = IF f[k] = Null THEN Null ELSE ChildFor(l, f[k], key)
  <2>1. k + 1 \in 0..Max /\ k + 1 # 0 /\ (k + 1) - 1 = k
    BY <1>4, MaxNat
  <2> QED BY <1>2, <2>1 DEF IsWay
<1>5. \A n \in Nodes : n # Null
  BY NodeAssumption
<1>6. \A n : OnWay(l, D, root, key, n) => n \in Nodes
  BY NodeAssumption DEF OnWay, Forest, Places
<1> DEFINE Fine(k) == /\ OnWay(l, D, root, key, f[k])
                      /\ Cardinality(D[f[k]]) \in Nat /\ Cardinality(D[f[k]]) + k <= Max
<1>7. \A k \in Nat : k <= Max /\ (\A j \in 0 .. k - 1 : j \notin stops) => Fine(k)
  <2> DEFINE S == {k \in Nat : k <= Max /\ (\A j \in 0 .. k - 1 : j \notin stops) => Fine(k)}
  <2>1. 0 \in S
    <3>1. OnWay(l, D, root, key, root)
      BY RootOnWay
    <3>2. D[root] \subseteq Nodes
      BY NodeAssumption DEF Forest, Places
    <3>3. Cardinality(D[root]) \in Nat /\ Cardinality(D[root]) <= Max
      BY <3>2, MaxNat, FS_Subset, FS_CardinalityType DEF Max
    <3> QED BY <1>3, <3>1, <3>3
  <2>2. ASSUME NEW k \in Nat, k \in S PROVE k + 1 \in S
    <3> SUFFICES ASSUME k + 1 <= Max, \A j \in 0 .. (k + 1) - 1 : j \notin stops PROVE Fine(k + 1)
      OBVIOUS
    <3>1. k \in 0 .. (k + 1) - 1 /\ k <= Max /\ k \in 0..Max
          /\ 0 .. k - 1 \subseteq 0 .. (k + 1) - 1
      BY MaxNat
    <3>2. Fine(k)
      BY <2>2, <3>1
    <3>3. f[k] \in Nodes /\ f[k] # Null
      BY <1>5, <1>6, <3>2
    <3>4. Key[f[k]] # key /\ ChildFor(l, f[k], key) # Null
      BY <3>1, <3>3
    <3>5. f[k + 1] = ChildFor(l, f[k], key)
      BY <1>4, <3>3
    <3>6. OnWay(l, D, root, key, f[k + 1]) /\ f[k + 1] \in D[f[k]] /\ f[k + 1] # f[k]
      BY <3>2, <3>4, <3>5, ChildOnWay
    <3>7. /\ Cardinality(D[f[k + 1]]) \in Nat /\ Cardinality(D[f[k]]) \in Nat
          /\ Cardinality(D[f[k + 1]]) < Cardinality(D[f[k]])
      BY <3>3, <3>6, Smaller
    <3> QED BY <3>2, <3>6, <3>7, MaxNat
  <2> HIDE DEF S
  <2>3. Nat \subseteq S
    BY <2>1, <2>2, Induct
  <2> QED BY <2>3 DEF S
<1>8. stops # {}
  <2> SUFFICES ASSUME stops = {} PROVE FALSE
    OBVIOUS
  <2>1. Fine(Max)
    BY <1>7, MaxNat
  <2>2. f[Max] \in Nodes /\ f[Max] \in D[f[Max]] /\ D[f[Max]] \subseteq Nodes
    BY <1>6, <2>1 DEF Forest, Shape, Places
  <2>3. IsFiniteSet(D[f[Max]]) /\ Cardinality(D[f[Max]]) # 0
    BY <2>2, MaxNat, FS_Subset, FS_EmptySet
  <2> QED BY <2>1, <2>3, MaxNat
<1>9. /\ First(stops) \in stops /\ \A j \in stops : First(stops) <= j
  <2>1. stops \in SUBSET Nat
    BY MaxNat
  <2> HIDE DEF stops
  <2> QED BY <1>8, <2>1, LeastNat DEF First
<1> DEFINE m == First(stops)
<1>10. m \in 0..Max /\ m \in Nat /\ m <= Max /\ \A j \in 0 .. m - 1 : j \notin stops
  BY <1>9, MaxNat
<1>11. f[m] # Null /\ (Key[f[m]] = key \/ ChildFor(l, f[m], key) = Null)
  BY <1>9
<1>12. AddsAt(l, root, key) = f[m]
  BY <1>1, <1>8
<1> HIDE DEF m, stops
<1>13. OnWay(l, D, root, key, f[m])
  BY <1>7, <1>10
<1> QED BY <1>6, <1>11, <1>12, <1>13
-----------------------------------------------------------------------------
(* A new node in its place: it is below whatever its parent is below.       *)
Grown(D, n, at) == [x \in Places |-> IF at \in D[x] THEN D[x] \cup {n} ELSE D[x]]

LEMMA Grows ==
  ASSUME NEW l, NEW t, NEW D, Forest(l, t, D), NEW root \in Roots,
         NEW n \in Nodes, t[n] = Null, NEW at \in Nodes, OnWay(l, D, root, Key[n], at),
         Key[at] # Key[n], ChildFor(l, at, Key[n]) = Null
  PROVE  Forest(Linked(l, n, at), [t EXCEPT ![n] = root], Grown(D, n, at))
<1> DEFINE l2 == Linked(l, n, at)
           t2 == [t EXCEPT ![n] = root]
           E == Grown(D, n, at)
           right == Key[n] > Key[at]
<1>1. /\ root \in Nodes /\ \A x \in Nodes : x # Null /\ Key[x] \in Int
      /\ Roots \subseteq Nodes
  BY NodeAssumption
<1>2. /\ l.lh \in [Nodes -> Places] /\ l.rh \in [Nodes -> Places]
      /\ l.parent \in [Nodes -> Places] /\ t \in [Nodes -> Roots \cup {Null}]
      /\ l \in Linkage
  BY DEF Forest, Linkage, Places
<1>3. /\ l2 \in Linkage
      /\ \A x \in Nodes : /\ l2.lh[x] = IF x = at /\ ~right THEN n ELSE l.lh[x]
                          /\ l2.rh[x] = IF x = at /\ right THEN n ELSE l.rh[x]
                          /\ l2.parent[x] = IF x = n THEN at ELSE l.parent[x]
  <2>1. CASE right
    <3>1. l2 = [l EXCEPT !.rh[at] = n, !.parent[n] = at]
      BY <2>1 DEF Linked
    <3> HIDE DEF right, l2
    <3> QED BY <1>2, <2>1, <3>1 DEF Linkage, Places
  <2>2. CASE ~right
    <3>1. l2 = [l EXCEPT !.lh[at] = n, !.parent[n] = at]
      BY <2>2 DEF Linked
    <3> HIDE DEF right, l2
    <3> QED BY <1>2, <2>2, <3>1 DEF Linkage, Places
  <2> QED BY <2>1, <2>2
<1> HIDE DEF l2
<1>4. t2 \in [Nodes -> Roots \cup {Null}] /\ \A x \in Nodes : t2[x] = IF x = n THEN root ELSE t[x]
  BY <1>2
<1> HIDE DEF t2
<1>5. /\ t[at] = root /\ at # n /\ n \notin Roots
      /\ \A r \in Roots : t[r] = r /\ D[r] = {x \in Nodes : t[x] = r}
  <2>1. \A r \in Roots : t[r] = r /\ D[r] = {x \in Nodes : t[x] = r}
    BY DEF Forest, Shape
  <2>2. at \in D[root]
    BY DEF OnWay
  <2> QED BY <1>1, <2>1, <2>2
<1>6. l.lh[n] = Null /\ l.rh[n] = Null /\ l.parent[n] = Null /\ D[n] = {n} /\ D[Null] = {}
  BY DEF Forest, Shape
<1>7. \A x \in Places : D[x] \subseteq Nodes /\ (n \in D[x] => x = n)
  <2> SUFFICES ASSUME NEW x \in Places PROVE D[x] \subseteq Nodes /\ (n \in D[x] => x = n)
    OBVIOUS
  <2>1. D[x] \subseteq Nodes
    BY DEF Forest
  <2>2. ASSUME n \in D[x], x # n PROVE FALSE
    <3>1. x \in Nodes
      BY <1>6, <2>2 DEF Places
    <3>2. l.parent[n] \in D[x]
      BY <2>2, <3>1 DEF Forest, Shape
    <3> QED BY <1>1, <1>6, <2>1, <3>2
  <2> QED BY <2>1, <2>2
<1>8. \A x \in Nodes : l.lh[x] # n /\ l.rh[x] # n
  BY <1>1, <1>6 DEF Forest, Shape
<1>9. \A x \in Nodes : /\ x \in D[x] /\ D[x] = {x} \cup D[l.lh[x]] \cup D[l.rh[x]]
                       /\ \A m \in D[l.lh[x]] : Key[m] < Key[x]
                       /\ \A m \in D[l.rh[x]] : Key[m] > Key[x]
                       /\ l.lh[x] \in Places /\ l.rh[x] \in Places
  BY <1>2 DEF Forest, Shape
<1>10. \A x \in Places : E[x] = IF at \in D[x] THEN D[x] \cup {n} ELSE D[x]
  BY DEF Grown
<1>11. E \in [Places -> SUBSET Nodes] /\ E[Null] = {} /\ E[n] = {n}
  BY <1>5, <1>6, <1>7, <1>10 DEF Grown, Places
<1> HIDE DEF E
<1>12. at \notin D[l.lh[at]] /\ at \notin D[l.rh[at]]
  BY <1>1, <1>9
<1>13. IF right THEN l.rh[at] = Null ELSE l.lh[at] = Null /\ Key[n] < Key[at]
  BY <1>1 DEF ChildFor
<1>14. \A x \in Nodes : t2[x] = Null => l2.lh[x] = Null /\ l2.rh[x] = Null /\ l2.parent[x] = Null
  <2>1. \A x \in Nodes : t[x] = Null => l.lh[x] = Null /\ l.rh[x] = Null /\ l.parent[x] = Null
    BY DEF Forest, Shape
  <2> QED BY <1>1, <1>3, <1>4, <1>5, <2>1
<1>15. ASSUME NEW r \in Roots PROVE t2[r] = r /\ E[r] = {x \in Nodes : t2[x] = r}
  <2>1. r \in Nodes /\ r \in Places /\ r # n /\ t[r] = r /\ D[r] = {x \in Nodes : t[x] = r} /\ r # Null
    BY <1>1, <1>5 DEF Places
  <2>2. at \in D[r] <=> r = root
    BY <1>5, <2>1
  <2>3. ASSUME NEW x \in Nodes PROVE x \in E[r] <=> t2[x] = r
    <3>1. x \in D[r] <=> t[x] = r
      BY <2>1
    <3>2. t2[x] = IF x = n THEN root ELSE t[x]
      BY <1>4
    <3>3. x \in E[r] <=> x \in D[r] \/ (r = root /\ x = n)
      BY <1>10, <2>1, <2>2
    <3>4. t[n] # r
      BY <2>1
    <3> QED BY <3>1, <3>2, <3>3, <3>4
  <2>4. E[r] \subseteq Nodes
    BY <1>11, <2>1
  <2> QED BY <1>4, <2>1, <2>3, <2>4
<1>16. ASSUME NEW x \in Nodes PROVE E[x] = {x} \cup E[l2.lh[x]] \cup E[l2.rh[x]]
  <2>1. x \in Places
    BY DEF Places
  <2>2. CASE x = at
    <3>1. E[x] = D[x] \cup {n} /\ E[l.lh[x]] = D[l.lh[x]] /\ E[l.rh[x]] = D[l.rh[x]]
      BY <1>9, <1>10, <1>12, <2>1, <2>2
    <3>2. CASE right
      <4>1. l2.lh[x] = l.lh[x] /\ l2.rh[x] = n /\ D[l.rh[x]] = {}
        BY <1>3, <1>6, <1>13, <2>2, <3>2
      <4> QED BY <1>9, <1>11, <3>1, <4>1
    <3>3. CASE ~right
      <4>1. l2.lh[x] = n /\ l2.rh[x] = l.rh[x] /\ D[l.lh[x]] = {}
        BY <1>3, <1>6, <1>13, <2>2, <3>3
      <4> QED BY <1>9, <1>11, <3>1, <4>1
    <3> QED BY <3>2, <3>3
  <2>3. CASE x # at
    <3>1. l2.lh[x] = l.lh[x] /\ l2.rh[x] = l.rh[x]
      BY <1>3, <2>3
    <3>2. /\ l.lh[x] \in Places /\ l.rh[x] \in Places
          /\ D[x] = {x} \cup D[l.lh[x]] \cup D[l.rh[x]]
      BY <1>9
    <3>3. /\ E[l.lh[x]] = IF at \in D[l.lh[x]] THEN D[l.lh[x]] \cup {n} ELSE D[l.lh[x]]
          /\ E[l.rh[x]] = IF at \in D[l.rh[x]] THEN D[l.rh[x]] \cup {n} ELSE D[l.rh[x]]
          /\ E[x] = IF at \in D[x] THEN D[x] \cup {n} ELSE D[x]
      BY <1>10, <2>1, <3>2
    <3>4. CASE at \in D[x]
      <4>1. at \in D[l.lh[x]] \/ at \in D[l.rh[x]]
        BY <2>3, <3>2, <3>4
      <4>2. E[l.lh[x]] \cup E[l.rh[x]] = D[l.lh[x]] \cup D[l.rh[x]] \cup {n}
        BY <3>3, <4>1
      <4> QED BY <3>1, <3>2, <3>3, <3>4, <4>2
    <3>5. CASE at \notin D[x]
      <4>1. at \notin D[l.lh[x]] /\ at \notin D[l.rh[x]]
        BY <3>2, <3>5
      <4> QED BY <3>1, <3>2, <3>3, <3>5, <4>1
    <3> QED BY <3>4, <3>5
  <2> QED BY <2>2, <2>3
<1>17. ASSUME NEW x \in Nodes, NEW m \in E[l2.lh[x]] PROVE Key[m] < Key[x]
  <2>1. CASE x = at /\ ~right
    BY <1>3, <1>11, <1>13, <1>17, <2>1
  <2>2. CASE ~(x = at /\ ~right)
    <3>1. l2.lh[x] = l.lh[x] /\ l.lh[x] \in Places
      BY <1>3, <1>9, <2>2
    <3>2. m \in D[l.lh[x]] \/ (m = n /\ at \in D[l.lh[x]])
      BY <1>10, <1>17, <3>1
    <3> QED BY <1>9, <3>2 DEF OnWay
  <2> QED BY <2>1, <2>2
<1>18. ASSUME NEW x \in Nodes, NEW m \in E[l2.rh[x]] PROVE Key[m] > Key[x]
  <2>1. CASE x = at /\ right
    BY <1>3, <1>11, <1>18, <2>1
  <2>2. CASE ~(x = at /\ right)
    <3>1. l2.rh[x] = l.rh[x] /\ l.rh[x] \in Places
      BY <1>3, <1>9, <2>2
    <3>2. m \in D[l.rh[x]] \/ (m = n /\ at \in D[l.rh[x]])
      BY <1>10, <1>18, <3>1
    <3> QED BY <1>9, <3>2 DEF OnWay
  <2> QED BY <2>1, <2>2
<1>19. ASSUME NEW x \in Nodes, NEW m \in E[x]
       PROVE  t2[m] = t2[x] /\ E[m] \subseteq E[x] /\ (m # x => l2.parent[m] \in E[x])
  <2>1. x \in Places /\ n \in Places
    BY DEF Places
  <2>2. CASE m = n
    <3>1. CASE x = n
      BY <2>2, <3>1
    <3>2. CASE x # n
      <4>1. at \in D[x] /\ E[x] = D[x] \cup {n}
        BY <1>7, <1>10, <1>19, <2>1, <2>2, <3>2
      <4>2. t[at] = t[x]
        BY <4>1 DEF Forest, Shape
      <4> QED BY <1>3, <1>4, <1>5, <1>11, <2>2, <3>2, <4>1, <4>2
    <3> QED BY <3>1, <3>2
  <2>3. CASE m # n
    <3>1. m \in D[x] /\ m \in Nodes /\ m \in Places /\ x # n
      BY <1>6, <1>7, <1>10, <1>11, <1>19, <2>1, <2>3 DEF Places
    <3>2. t[m] = t[x] /\ D[m] \subseteq D[x] /\ (m # x => l.parent[m] \in D[x])
      BY <3>1 DEF Forest, Shape
    <3>3. E[m] \subseteq E[x]
      BY <1>10, <2>1, <3>1, <3>2
    <3> QED BY <1>3, <1>4, <1>10, <2>1, <2>3, <3>1, <3>2, <3>3
  <2> QED BY <2>2, <2>3
<1>20. ASSUME NEW x \in Nodes, NEW m \in {l2.lh[x], l2.rh[x]} \ {Null} PROVE l2.parent[m] = x
  <2>1. CASE m = n
    BY <1>3, <1>8, <1>20, <2>1
  <2>2. CASE m # n
    <3>1. m \in {l.lh[x], l.rh[x]} \ {Null}
      BY <1>3, <1>20, <2>2
    <3>2. m \in Nodes
      BY <1>9, <3>1 DEF Places
    <3> QED BY <1>3, <2>2, <3>1, <3>2 DEF Forest, Shape
  <2> QED BY <2>1, <2>2
<1>21. ASSUME NEW x \in Nodes, l2.parent[x] # Null
       PROVE  x \in {l2.lh[l2.parent[x]], l2.rh[l2.parent[x]]}
  <2>1. CASE x = n
    BY <1>3, <2>1
  <2>2. CASE x # n
    <3> DEFINE p == l.parent[x]
    <3>1. l2.parent[x] = p /\ p # Null /\ p \in Nodes
      BY <1>2, <1>3, <1>21, <2>2 DEF Places
    <3>2. x \in {l.lh[p], l.rh[p]}
      BY <3>1 DEF Forest, Shape
    <3> HIDE DEF p
    <3> QED BY <1>1, <1>3, <1>13, <3>1, <3>2
  <2> QED BY <2>1, <2>2
<1>22. Shape(l2, t2, E)
  BY <1>14, <1>15, <1>16, <1>17, <1>18, <1>19, <1>20, <1>21 DEF Shape
<1> QED BY <1>3, <1>4, <1>11, <1>22 DEF Forest, l2, t2, E
-----------------------------------------------------------------------------
(* The shape in terms of the nodes that Under finds.                        *)
LEMMA ForestUnder ==
  ASSUME NEW l, NEW t, NEW D, Forest(l, t, D)
  PROVE  D = [n \in Places |-> Under(l, n)]
<1>1. \A n \in Places : D[n] = Under(l, n)
  BY UnderIs
<1> QED BY <1>1 DEF Forest

LEMMA UnderNull == \A l : Under(l, Null) = {}
<1> SUFFICES ASSUME NEW l PROVE Under(l, Null) = {}
  OBVIOUS
<1> DEFINE f == CHOOSE g : IsLevels(g, l, Null, Max)
<1>1. Under(l, Null) = f[Max]
  BY DEF Under, IsLevels
<1>2. IsLevels(f, l, Null, Max)
  BY MaxNat, LevelsExist
<1> HIDE DEF f
<1> DEFINE S == {k \in Nat : k <= Max => f[k] = {}}
<1>3. 0 \in S
  BY <1>2, MaxNat DEF IsLevels
<1>4. ASSUME NEW k \in Nat, k \in S PROVE k + 1 \in S
  <2> SUFFICES ASSUME k + 1 <= Max PROVE f[k + 1] = {}
    OBVIOUS
  <2>1. k + 1 \in 0..Max /\ k + 1 # 0 /\ (k + 1) - 1 = k /\ f[k] = {}
    BY <1>4, MaxNat
  <2>2. f[k + 1] = f[k] \cup (({l.lh[m] : m \in f[k]} \cup {l.rh[m] : m \in f[k]}) \ {Null})
    BY <1>2, <2>1 DEF IsLevels
  <2> QED BY <2>1, <2>2
<1> HIDE DEF S
<1>5. Max \in S
  BY <1>3, <1>4, Induct, MaxNat
<1> QED BY <1>1, <1>5, MaxNat DEF S
LEMMA UnderNodes ==
  ASSUME NEW l \in Linkage, NEW n \in Places
  PROVE  Under(l, n) \subseteq Nodes
<1> DEFINE f == CHOOSE g : IsLevels(g, l, n, Max)
<1>1. Under(l, n) = f[Max]
  BY DEF Under, IsLevels
<1>2. IsLevels(f, l, n, Max)
  BY MaxNat, LevelsExist
<1> HIDE DEF f
<1> DEFINE S == {k \in Nat : k <= Max => f[k] \subseteq Nodes}
<1>3. 0 \in S
  BY <1>2, MaxNat DEF IsLevels, Places
<1>4. ASSUME NEW k \in Nat, k \in S PROVE k + 1 \in S
  <2> SUFFICES ASSUME k + 1 <= Max PROVE f[k + 1] \subseteq Nodes
    OBVIOUS
  <2>1. k + 1 \in 0..Max /\ k + 1 # 0 /\ (k + 1) - 1 = k /\ f[k] \subseteq Nodes
    BY <1>4, MaxNat
  <2>2. f[k + 1] = f[k] \cup (({l.lh[m] : m \in f[k]} \cup {l.rh[m] : m \in f[k]}) \ {Null})
    BY <1>2, <2>1 DEF IsLevels
  <2>3. \A m \in f[k] : l.lh[m] \in Places /\ l.rh[m] \in Places
    BY <2>1, Fields
  <2> QED BY <2>1, <2>2, <2>3 DEF Places
<1> HIDE DEF S
<1>5. Max \in S
  BY <1>3, <1>4, Induct, MaxNat
<1> QED BY <1>1, <1>5, MaxNat DEF S

Found(l) == [n \in Places |-> Under(l, n)]

LEMMA FoundForest ==
  ASSUME NEW l, NEW t
  PROVE  (l \in Linkage /\ t \in [Nodes -> Roots \cup {Null}] /\ Shape(l, t, Found(l)))
           <=> \E D : Forest(l, t, D)
<1>1. ASSUME l \in Linkage, t \in [Nodes -> Roots \cup {Null}], Shape(l, t, Found(l))
      PROVE  Forest(l, t, Found(l))
  <2>1. Found(l) \in [Places -> SUBSET Nodes] /\ Found(l)[Null] = {}
    BY <1>1, UnderNodes, UnderNull DEF Found, Places
  <2> QED BY <1>1, <2>1 DEF Forest
<1>2. ASSUME NEW D, Forest(l, t, D)
      PROVE  l \in Linkage /\ t \in [Nodes -> Roots \cup {Null}] /\ Shape(l, t, Found(l))
  <2>1. D = Found(l)
    BY <1>2, ForestUnder DEF Found
  <2> QED BY <1>2, <2>1 DEF Forest
<1> QED BY <1>1, <1>2

LEMMA ShapeIs == ShapeInv <=> Forest(link, tree, Found(link))
<1>1. [n \in Nodes \cup {Null} |-> Below(n)] = Found(link)
  BY DEF Below, Found, Places
<1>2. ShapeInv <=> \E D : Forest(link, tree, D)
  BY <1>1, FoundForest DEF ShapeInv
<1>3. \A D : Forest(link, tree, D) => D = Found(link)
  BY ForestUnder DEF Found
<1> QED BY <1>2, <1>3

LEMMA NewShape == (\E D : Forest(link', tree', D)) => ShapeInv'
<1> SUFFICES ASSUME \E D : Forest(link', tree', D) PROVE ShapeInv'
  OBVIOUS
<1>1. link' \in Linkage /\ tree' \in [Nodes -> Roots \cup {Null}] /\ Shape(link', tree', Found(link'))
  BY FoundForest
<1>2. [n \in Nodes \cup {Null} |-> Under(link', n)] = Found(link')
  BY DEF Found, Places
<1> QED BY <1>1, <1>2 DEF ShapeInv, Below

LEMMA InitShape == Init => TreesInv
<1> SUFFICES ASSUME Init PROVE TreesInv
  OBVIOUS
<1> DEFINE D == [n \in Places |-> IF n = Null THEN {} ELSE {n}]
<1>1. Null \notin Nodes /\ Roots \subseteq Nodes
  BY NodeAssumption
<1>2. link \in Linkage /\ tree \in [Nodes -> Roots \cup {Null}]
  BY DEF Init, Alone, Linkage
<1>3. D \in [Places -> SUBSET Nodes] /\ D[Null] = {} /\ \A n \in Nodes : D[n] = {n}
  BY <1>1 DEF Places
<1> HIDE DEF D
<1>4. /\ \A n \in Nodes : link.lh[n] = Null /\ link.rh[n] = Null /\ link.parent[n] = Null
      /\ \A n \in Nodes : tree[n] = IF n \in Roots THEN n ELSE Null
  BY DEF Init, Alone
<1>5. \A r \in Roots : tree[r] = r /\ D[r] = {n \in Nodes : tree[n] = r}
  <2> SUFFICES ASSUME NEW r \in Roots PROVE tree[r] = r /\ D[r] = {n \in Nodes : tree[n] = r}
    OBVIOUS
  <2>1. \A n \in Nodes : tree[n] = r <=> n = r
    BY <1>1, <1>4
  <2> QED BY <1>1, <1>3, <2>1
<1>6. Shape(link, tree, D)
  BY <1>1, <1>3, <1>4, <1>5 DEF Shape
<1>7. ShapeInv
  BY <1>2, <1>3, <1>6, ShapeIs, ForestUnder DEF Forest, Found
<1> QED BY <1>7 DEF Init, TreesInv

(* What an addition does: there always is a place, and the key decides.     *)
LEMMA AddAnswers ==
  ASSUME ShapeInv, NEW n \in Nodes, NEW root \in Roots, Add(n, root)
  PROVE  /\ ShapeInv'
         /\ answer' = -1 <=> \E m \in Below(root) : Key[m] = Key[n]
<1> DEFINE D == Found(link)
           at == AddsAt(link, root, Key[n])
           l == [link EXCEPT !.lh[n] = Null, !.rh[n] = Null, !.parent[n] = Null]
<1>1. Forest(link, tree, D) /\ Below(root) = D[root] /\ Key[n] \in Int /\ root \in Nodes
  BY ShapeIs, NodeAssumption DEF Below, Found, Places
<1>2. tree[n] = Null
  BY DEF Add
<1>3. l = link
  <2>1. link \in Linkage /\ link.lh[n] = Null /\ link.rh[n] = Null /\ link.parent[n] = Null
    BY <1>1, <1>2 DEF Forest, Shape
  <2> QED BY <2>1 DEF Linkage
<1>4. TreeAdd(link, n, root)
  BY <1>3 DEF Add
<1>5. OnWay(link, D, root, Key[n], at) /\ at \in Nodes /\ at # Null
      /\ (Key[at] = Key[n] \/ ChildFor(link, at, Key[n]) = Null)
  BY <1>1, AddsWhere, NodeAssumption
<1>6. tree \in [Nodes -> Roots \cup {Null}]
  BY <1>1 DEF Forest
<1> HIDE DEF D, at, l
<1>7. CASE Key[at] = Key[n]
  <2>1. link' = link /\ answer' = -1 /\ tree' = [tree EXCEPT ![n] = Null]
    BY <1>4, <1>7 DEF TreeAdd, at
  <2>2. tree' = tree
    BY <1>2, <1>6, <2>1
  <2>3. ShapeInv'
    BY <1>1, <2>1, <2>2, NewShape
  <2>4. at \in Below(root)
    BY <1>1, <1>5 DEF OnWay
  <2> QED BY <1>7, <2>1, <2>3, <2>4
<1>8. CASE Key[at] # Key[n]
  <2>1. link' = Linked(link, n, at) /\ answer' = 0 /\ tree' = [tree EXCEPT ![n] = root]
    BY <1>4, <1>5, <1>8 DEF TreeAdd, at
  <2>2. ShapeInv'
    BY <1>1, <1>2, <1>5, <1>8, <2>1, Grows, NewShape
  <2>3. ASSUME NEW m \in D[root], Key[m] = Key[n] PROVE FALSE
    <3>1. m \in D[at] /\ m # at
      BY <1>5, <1>8, <2>3 DEF OnWay
    <3>2. m \in D[link.lh[at]] \/ m \in D[link.rh[at]]
      BY <1>1, <1>5, <3>1 DEF Forest, Shape
    <3>3. /\ m \in D[link.lh[at]] => Key[n] < Key[at]
          /\ m \in D[link.rh[at]] => Key[n] > Key[at]
      BY <1>1, <1>5, <2>3 DEF Forest, Shape
    <3>4. Key[at] \in Int /\ D[Null] = {}
      BY <1>1, <1>5, NodeAssumption DEF Forest
    <3> QED BY <1>1, <1>5, <1>8, <3>2, <3>3, <3>4 DEF ChildFor
  <2> QED BY <1>1, <2>1, <2>2, <2>3
<1> QED BY <1>7, <1>8

LEMMA TreesHold == TreesInv /\ [Next]_vars => TreesInv'
<1> SUFFICES ASSUME TreesInv, [Next]_vars PROVE TreesInv'
  OBVIOUS
<1>1. CASE \E root \in Roots, key \in Sought : Search(root, key)
  BY <1>1 DEF Search, TreesInv, ShapeInv, Below
<1>2. ASSUME NEW n \in Nodes, NEW root \in Roots, Add(n, root) PROVE TreesInv'
  <2>1. deletes' = deletes
    BY <1>2 DEF Add
  <2> QED BY <1>2, <2>1, AddAnswers DEF TreesInv
<1>3. ASSUME NEW n \in Nodes, NEW root \in Roots, NodeMove(n, root) PROVE TreesInv'
  BY <1>3 DEF NodeMove, TreesInv
<1>4. ASSUME NEW n \in Nodes, Del(n) PROVE TreesInv'
  BY <1>4 DEF Del, TreesInv
<1>5. CASE UNCHANGED vars
  BY <1>5 DEF vars, TreesInv, ShapeInv, Below
<1> QED BY <1>1, <1>2, <1>3, <1>4, <1>5 DEF Next

(* While users only add and search, each tree reaches exactly the nodes     *)
(* that were added to it, in the order of their keys, and every node knows  *)
(* its parent, for any nodes, keys and trees (stree.c:30-57).               *)
THEOREM TreesStaySound == Spec => []TreesSound
<1>1. TreesInv => TreesSound
  <2> SUFFICES ASSUME ShapeInv PROVE Sound
    BY DEF TreesInv, TreesSound
  <2> DEFINE D == Found(link)
  <2>1. Forest(link, tree, D) /\ \A n \in Places : Below(n) = D[n]
    BY ShapeIs DEF Below, Found
  <2> HIDE DEF D
  <2>2. Roots \subseteq Nodes /\ Nodes \subseteq Places
    BY NodeAssumption DEF Places
  <2>3. \A n \in Nodes : Below(link.lh[n]) = D[link.lh[n]] /\ Below(link.rh[n]) = D[link.rh[n]]
    BY <2>1, Fields DEF Forest
  <2>4. Reached
    BY <2>1, <2>2 DEF Reached, Forest, Shape
  <2>5. InOrder
    BY <2>1, <2>3 DEF InOrder, InTrees, Forest, Shape
  <2>6. ParentsKnown
    BY <2>1, NodeAssumption DEF ParentsKnown, InTrees, Forest, Shape
  <2> QED BY <2>4, <2>5, <2>6 DEF Sound
<1> QED BY <1>1, InitShape, TreesHold, PTL DEF Spec

(* And stree_add refuses a node exactly when its tree has the key, so no    *)
(* key is in a tree twice; the walk down to its place always ends.          *)
THEOREM KeysAddedOnce == Spec => AddsOnce
<1>1. TreesInv /\ [Next]_vars => [RefusesEqual]_vars
  <2> SUFFICES ASSUME TreesInv, Next, call' # call, call'[1] = "add", deletes = 0
               PROVE  answer' = -1 <=> Key[call'[2]] \in KeysOf(call'[3])
    BY DEF RefusesEqual
  <2>1. ASSUME NEW root \in Roots, NEW key \in Sought, Search(root, key) PROVE FALSE
    <3>1. call' = <<"search", key, root>>
      BY <2>1 DEF Search
    <3> QED BY <3>1
  <2>2. ASSUME NEW n \in Nodes, NEW root \in Roots, Add(n, root)
        PROVE  answer' = -1 <=> Key[call'[2]] \in KeysOf(call'[3])
    <3>1. call' = <<"add", n, root>> /\ ShapeInv
      BY <2>2 DEF Add, TreesInv
    <3>2. answer' = -1 <=> \E m \in Below(root) : Key[m] = Key[n]
      BY <2>2, <3>1, AddAnswers
    <3>3. call'[2] = n /\ call'[3] = root
      BY <3>1
    <3>4. KeysOf(call'[3]) = {Key[m] : m \in Below(root)}
      BY <3>3 DEF KeysOf
    <3>5. Key[n] \in KeysOf(call'[3]) <=> \E m \in Below(root) : Key[m] = Key[n]
      BY <3>4
    <3> HIDE DEF KeysOf
    <3> QED BY <3>2, <3>3, <3>5
  <2>3. ASSUME NEW n \in Nodes, NEW root \in Roots, NodeMove(n, root) PROVE FALSE
    BY <2>3 DEF NodeMove
  <2>4. ASSUME NEW n \in Nodes, Del(n) PROVE FALSE
    BY <2>4 DEF Del
  <2> QED BY <2>1, <2>2, <2>3, <2>4 DEF Next
<1> QED BY <1>1, InitShape, TreesHold, PTL DEF Spec, AddsOnce
-----------------------------------------------------------------------------
(* What Under finds with any links: the least set with n in it that no link *)
(* leaves, since the levels cannot grow more than Max times.                *)
Leads(l, m) == {l.lh[m], l.rh[m]} \ {Null}
NoneLeaves(l, X) == \A m \in X : Leads(l, m) \subseteq X

LEMMA UnderLeast ==
  ASSUME NEW l, NEW n, NEW X, n # Null => n \in X, NoneLeaves(l, X)
  PROVE  Under(l, n) \subseteq X
<1> DEFINE f == CHOOSE g : IsLevels(g, l, n, Max)
<1>1. Under(l, n) = f[Max]
  BY DEF Under, IsLevels
<1>2. IsLevels(f, l, n, Max)
  BY MaxNat, LevelsExist
<1> HIDE DEF f
<1> DEFINE S == {k \in Nat : k <= Max => f[k] \subseteq X}
<1>3. 0 \in S
  BY <1>2, MaxNat DEF IsLevels
<1>4. ASSUME NEW k \in Nat, k \in S PROVE k + 1 \in S
  <2> SUFFICES ASSUME k + 1 <= Max PROVE f[k + 1] \subseteq X
    OBVIOUS
  <2>1. k + 1 \in 0..Max /\ k + 1 # 0 /\ (k + 1) - 1 = k /\ f[k] \subseteq X
    BY <1>4, MaxNat
  <2>2. f[k + 1] = f[k] \cup (({l.lh[m] : m \in f[k]} \cup {l.rh[m] : m \in f[k]}) \ {Null})
    BY <1>2, <2>1 DEF IsLevels
  <2>3. \A m \in f[k] : {l.lh[m], l.rh[m]} \ {Null} \subseteq X
    BY <2>1 DEF NoneLeaves, Leads
  <2> QED BY <2>1, <2>2, <2>3
<1> HIDE DEF S
<1>5. Max \in S
  BY <1>3, <1>4, Induct, MaxNat
<1> QED BY <1>1, <1>5, MaxNat DEF S

LEMMA Fewer ==
  ASSUME NEW S, IsFiniteSet(S), NEW T, T \subseteq S, T # S
  PROVE  /\ Cardinality(T) \in Nat /\ Cardinality(S) \in Nat
         /\ Cardinality(T) < Cardinality(S)
<1>1. Cardinality(T) <= Cardinality(S) /\ Cardinality(T) # Cardinality(S) /\ IsFiniteSet(T)
  BY FS_Subset
<1>2. Cardinality(T) \in Nat /\ Cardinality(S) \in Nat
  BY <1>1, FS_CardinalityType
<1> QED BY <1>1, <1>2

LEMMA UnderClosed ==
  ASSUME NEW l \in Linkage, NEW n \in Places
  PROVE  NoneLeaves(l, Under(l, n)) /\ (n # Null => n \in Under(l, n))
<1> DEFINE f == CHOOSE g : IsLevels(g, l, n, Max)
<1>1. Under(l, n) = f[Max]
  BY DEF Under, IsLevels
<1>2. IsLevels(f, l, n, Max)
  BY MaxNat, LevelsExist
<1> HIDE DEF f
<1>3. f[0] = {n} \ {Null}
  BY <1>2, MaxNat DEF IsLevels
<1>4. ASSUME NEW k \in Nat, k + 1 <= Max
      PROVE  f[k + 1] = f[k] \cup (({l.lh[m] : m \in f[k]} \cup {l.rh[m] : m \in f[k]}) \ {Null})
  <2>1. k + 1 \in 0..Max /\ k + 1 # 0 /\ (k + 1) - 1 = k
    BY <1>4, MaxNat
  <2> QED BY <1>2, <2>1 DEF IsLevels
<1> DEFINE Good(k) == /\ f[k] \subseteq Nodes /\ (n # Null => n \in f[k])
                      /\ NoneLeaves(l, f[k]) \/ k + 1 <= Cardinality(f[k])
           S == {k \in Nat : k <= Max => Good(k)}
<1>5. 0 \in S
  <2>1. f[0] \subseteq Nodes /\ (n # Null => n \in f[0])
    BY <1>3 DEF Places
  <2>2. CASE n = Null
    BY <1>3, <2>1, <2>2 DEF NoneLeaves
  <2>3. CASE n # Null
    <3>1. f[0] = {n}
      BY <1>3, <2>3
    <3>2. Cardinality(f[0]) = 1
      BY <3>1, FS_Singleton
    <3> QED BY <2>1, <3>2
  <2> QED BY <2>2, <2>3
<1>6. ASSUME NEW k \in Nat, k \in S PROVE k + 1 \in S
  <2> SUFFICES ASSUME k + 1 <= Max PROVE Good(k + 1)
    OBVIOUS
  <2>1. Good(k)
    BY <1>6, MaxNat
  <2>2. f[k + 1] = f[k] \cup (({l.lh[m] : m \in f[k]} \cup {l.rh[m] : m \in f[k]}) \ {Null})
    BY <1>4
  <2>3. \A m \in f[k] : l.lh[m] \in Places /\ l.rh[m] \in Places
    BY <2>1, Fields
  <2>4. f[k + 1] \subseteq Nodes /\ f[k] \subseteq f[k + 1] /\ (n # Null => n \in f[k + 1])
    BY <2>1, <2>2, <2>3 DEF Places
  <2>5. CASE NoneLeaves(l, f[k])
    <3>1. f[k + 1] = f[k]
      BY <2>2, <2>5 DEF NoneLeaves, Leads
    <3> QED BY <2>4, <2>5, <3>1
  <2>6. CASE ~NoneLeaves(l, f[k])
    <3>1. k + 1 <= Cardinality(f[k])
      BY <2>1, <2>6
    <3>2. PICK m \in f[k] : ~(Leads(l, m) \subseteq f[k])
      BY <2>6 DEF NoneLeaves
    <3>3. f[k] # f[k + 1]
      BY <2>2, <3>2 DEF Leads
    <3>4. IsFiniteSet(f[k + 1])
      BY <2>4, MaxNat, FS_Subset
    <3>5. Cardinality(f[k]) < Cardinality(f[k + 1])
      BY <2>4, <3>3, <3>4, Fewer
    <3>6. Cardinality(f[k]) \in Nat /\ Cardinality(f[k + 1]) \in Nat
      BY <2>4, <3>4, FS_Subset, FS_CardinalityType
    <3>7. (k + 1) + 1 <= Cardinality(f[k + 1])
      BY <3>1, <3>5, <3>6
    <3> QED BY <2>4, <3>7
  <2> QED BY <2>5, <2>6
<1> HIDE DEF S
<1>7. Max \in S
  BY <1>5, <1>6, Induct, MaxNat
<1>8. Good(Max)
  BY <1>7, MaxNat DEF S
<1>9. Cardinality(f[Max]) <= Max /\ Cardinality(f[Max]) \in Nat
  BY <1>8, MaxNat, FS_Subset, FS_CardinalityType DEF Max
<1>10. NoneLeaves(l, f[Max])
  BY <1>8, <1>9, MaxNat
<1> QED BY <1>1, <1>8, <1>10

LEMMA UnderFix ==
  ASSUME NEW l \in Linkage, NEW n \in Nodes
  PROVE  Under(l, n) = {n} \cup Under(l, l.lh[n]) \cup Under(l, l.rh[n])
<1> DEFINE U == {n} \cup Under(l, l.lh[n]) \cup Under(l, l.rh[n])
<1>1. n \in Places /\ n # Null /\ l.lh[n] \in Places /\ l.rh[n] \in Places
  BY Fields, NodeAssumption DEF Places
<1>2. NoneLeaves(l, Under(l, n)) /\ n \in Under(l, n)
  BY <1>1, UnderClosed
<1>3. \A c \in {l.lh[n], l.rh[n]} : c # Null => c \in Under(l, n)
  BY <1>2 DEF NoneLeaves, Leads
<1>4. Under(l, l.lh[n]) \subseteq Under(l, n) /\ Under(l, l.rh[n]) \subseteq Under(l, n)
  BY <1>2, <1>3, UnderLeast
<1>5. /\ NoneLeaves(l, Under(l, l.lh[n])) /\ (l.lh[n] # Null => l.lh[n] \in Under(l, l.lh[n]))
      /\ NoneLeaves(l, Under(l, l.rh[n])) /\ (l.rh[n] # Null => l.rh[n] \in Under(l, l.rh[n]))
  BY <1>1, UnderClosed
<1>6. NoneLeaves(l, U) /\ n \in U
  BY <1>5 DEF NoneLeaves, Leads
<1> HIDE DEF U
<1>7. Under(l, n) \subseteq U
  BY <1>6, UnderLeast
<1> QED BY <1>2, <1>4, <1>7 DEF U

(* A set for each node that is the node and its children's sets is what is  *)
(* below the node, if no node is below itself: the sets get smaller.        *)
LEMMA TreeUnder ==
  ASSUME NEW l \in Linkage, NEW T \in SUBSET Nodes, NoneLeaves(l, T), NEW E,
         \A x \in T \cup {Null} : E[x] \subseteq Nodes, E[Null] = {},
         \A x \in T : /\ E[x] = {x} \cup E[l.lh[x]] \cup E[l.rh[x]]
                      /\ x \notin E[l.lh[x]] /\ x \notin E[l.rh[x]]
  PROVE  \A x \in T \cup {Null} : Under(l, x) = E[x]
<1> DEFINE S == {k \in Nat : \A x \in T \cup {Null} : Cardinality(E[x]) <= k => Under(l, x) = E[x]}
<1>1. \A x \in T \cup {Null} : IsFiniteSet(E[x]) /\ Cardinality(E[x]) \in Nat
  BY MaxNat, FS_Subset, FS_CardinalityType
<1>2. Under(l, Null) = E[Null]
  BY UnderNull
<1>3. \A x \in T : l.lh[x] \in T \cup {Null} /\ l.rh[x] \in T \cup {Null}
  BY DEF NoneLeaves, Leads
<1>4. 0 \in S
  <2> SUFFICES ASSUME NEW x \in T, Cardinality(E[x]) <= 0 PROVE FALSE
    BY <1>2
  <2>1. E[x] = {}
    BY <1>1, FS_EmptySet
  <2> QED BY <2>1
<1>5. ASSUME NEW k \in Nat, k \in S PROVE k + 1 \in S
  <2>1. ASSUME NEW x \in T, Cardinality(E[x]) <= k + 1 PROVE Under(l, x) = E[x]
    <3>1. ASSUME NEW c \in {l.lh[x], l.rh[x]} PROVE Under(l, c) = E[c]
      <4>1. c \in T \cup {Null} /\ E[c] \subseteq E[x] /\ x \in E[x] /\ x \notin E[c]
        BY <1>3
      <4>2. IsFiniteSet(E[x]) /\ E[c] # E[x]
        BY <1>1, <4>1
      <4>3. /\ Cardinality(E[c]) \in Nat /\ Cardinality(E[x]) \in Nat
            /\ Cardinality(E[c]) < Cardinality(E[x])
        BY <4>1, <4>2, Fewer
      <4>4. Cardinality(E[c]) <= k
        BY <2>1, <4>3
      <4> QED BY <1>5, <4>1, <4>4
    <3>2. Under(l, x) = {x} \cup Under(l, l.lh[x]) \cup Under(l, l.rh[x])
      BY UnderFix
    <3>3. E[x] = {x} \cup E[l.lh[x]] \cup E[l.rh[x]]
      OBVIOUS
    <3> QED BY <3>1, <3>2, <3>3
  <2>2. \A x \in T \cup {Null} : Cardinality(E[x]) <= k + 1 => Under(l, x) = E[x]
    BY <1>2, <2>1
  <2> QED BY <2>2
<1> HIDE DEF S
<1>6. Nat \subseteq S
  BY <1>4, <1>5, Induct
<1> SUFFICES ASSUME NEW x \in T \cup {Null} PROVE Under(l, x) = E[x]
  OBVIOUS
<1>7. Cardinality(E[x]) \in S /\ Cardinality(E[x]) \in Nat
  BY <1>1, <1>6
<1>8. Cardinality(E[x]) <= Cardinality(E[x])
  BY <1>7
<1> QED BY <1>7, <1>8 DEF S
-----------------------------------------------------------------------------
(* The links of the nodes in trees. A node that has been deleted keeps the  *)
(* links it had; without those a sound tree has the shape it had before the *)
(* first deletion.                                                          *)
InTreesOf(t) == {n \in Nodes : t[n] # Null}
Tidy(l, t) ==
  [lh     |-> [n \in Nodes |-> IF t[n] = Null THEN Null ELSE l.lh[n]],
   rh     |-> [n \in Nodes |-> IF t[n] = Null THEN Null ELSE l.rh[n]],
   parent |-> [n \in Nodes |-> IF t[n] = Null THEN Null ELSE l.parent[n]]]

ReachedIn(l, t) == \A root \in Roots : Under(l, root) = {n \in Nodes : t[n] = root}
InOrderIn(l, t) ==
  \A n \in InTreesOf(t) : /\ \A m \in Under(l, l.lh[n]) : Key[m] < Key[n]
                          /\ \A m \in Under(l, l.rh[n]) : Key[m] > Key[n]
ParentsIn(l, t) == \A n \in InTreesOf(t), m \in Nodes :
                     (l.lh[n] = m \/ l.rh[n] = m) => l.parent[m] = n
Linking(l, t) == /\ l \in Linkage /\ t \in [Nodes -> Roots \cup {Null}]
                 /\ \A r \in Roots : t[r] = r /\ l.parent[r] = Null
BelowIn(l, t) == [x \in Places |-> IF x = Null THEN {} ELSE IF t[x] = Null THEN {x}
                                   ELSE Under(l, x)]

LEMMA TidyIs ==
  ASSUME NEW l \in Linkage, NEW t \in [Nodes -> Roots \cup {Null}]
  PROVE  /\ Tidy(l, t) \in Linkage
         /\ \A n \in Nodes :
              IF t[n] = Null
              THEN Tidy(l, t).lh[n] = Null /\ Tidy(l, t).rh[n] = Null /\ Tidy(l, t).parent[n] = Null
              ELSE /\ Tidy(l, t).lh[n] = l.lh[n] /\ Tidy(l, t).rh[n] = l.rh[n]
                   /\ Tidy(l, t).parent[n] = l.parent[n]
<1>1. \A n \in Nodes : l.lh[n] \in Places /\ l.rh[n] \in Places /\ l.parent[n] \in Places
  BY Fields
<1>2. Tidy(l, t) \in Linkage
  BY <1>1 DEF Tidy, Linkage, Places
<1> QED BY <1>2 DEF Tidy

(* A tree keeps its nodes: the links of a node in a tree lead to others.    *)
LEMMA KeptIn ==
  ASSUME NEW l, NEW t, Linking(l, t), ReachedIn(l, t), NEW n \in InTreesOf(t)
  PROVE  /\ n \in Under(l, t[n]) /\ t[n] \in Roots /\ t[t[n]] = t[n]
         /\ \A m \in Under(l, n) : m \in InTreesOf(t) /\ t[m] = t[n]
         /\ Under(l, n) \subseteq Under(l, t[n])
<1>1. n \in Nodes /\ t[n] \in Roots /\ t[t[n]] = t[n] /\ t[n] \in Places /\ n # Null
  BY NodeAssumption DEF Linking, InTreesOf, Places
<1>2. Under(l, t[n]) = {m \in Nodes : t[m] = t[n]}
  BY <1>1 DEF ReachedIn
<1>3. NoneLeaves(l, Under(l, t[n]))
  BY <1>1, UnderClosed DEF Linking
<1>4. Under(l, n) \subseteq Under(l, t[n])
  BY <1>1, <1>2, <1>3, UnderLeast
<1>5. t[n] # Null
  BY DEF InTreesOf
<1> QED BY <1>1, <1>2, <1>4, <1>5 DEF InTreesOf

LEMMA SoundTidy ==
  ASSUME NEW l, NEW t, Linking(l, t), ReachedIn(l, t), InOrderIn(l, t), ParentsIn(l, t)
  PROVE  Forest(Tidy(l, t), t, BelowIn(l, t))
<1> DEFINE k == Tidy(l, t)
           D == BelowIn(l, t)
           T == InTreesOf(t)
<1>1. /\ l \in Linkage /\ t \in [Nodes -> Roots \cup {Null}] /\ Roots \subseteq Nodes
      /\ \A n \in Nodes : n # Null /\ n \in Places
      /\ \A r \in Roots : t[r] = r /\ l.parent[r] = Null
  BY NodeAssumption DEF Linking, Places
<1>2. k \in Linkage /\ \A n \in Nodes :
         IF t[n] = Null THEN k.lh[n] = Null /\ k.rh[n] = Null /\ k.parent[n] = Null
         ELSE k.lh[n] = l.lh[n] /\ k.rh[n] = l.rh[n] /\ k.parent[n] = l.parent[n]
  BY <1>1, TidyIs
<1>3. \A n : n \in T <=> n \in Nodes /\ t[n] # Null
  BY DEF InTreesOf
<1>4. \A n \in Nodes : D[n] = IF t[n] = Null THEN {n} ELSE Under(l, n)
  BY <1>1 DEF BelowIn
<1>5. D[Null] = {} /\ D \in [Places -> SUBSET Nodes]
  BY <1>1, UnderNodes DEF BelowIn, Places
<1> HIDE DEF D, k, T
<1>6. ASSUME NEW n \in T
      PROVE  /\ n \in Nodes /\ t[n] # Null /\ n \in Under(l, n) /\ NoneLeaves(l, Under(l, n))
             /\ \A m \in Under(l, n) : m \in T /\ m \in Nodes /\ t[m] = t[n] /\ D[m] = Under(l, m)
  <2>1. n \in Nodes /\ t[n] # Null
    BY <1>3
  <2>2. \A m \in Under(l, n) : m \in T /\ t[m] = t[n]
    BY KeptIn DEF T
  <2>3. n \in Under(l, n) /\ NoneLeaves(l, Under(l, n))
    BY <1>1, <2>1, UnderClosed
  <2> QED BY <1>3, <1>4, <2>1, <2>2, <2>3
<1>7. ASSUME NEW n \in T, NEW c \in {l.lh[n], l.rh[n]}
      PROVE  /\ c \in Places /\ D[c] = Under(l, c)
             /\ c # Null => c \in T /\ c \in Under(l, n) /\ l.parent[c] = n
  <2>1. n \in Nodes
    BY <1>3
  <2>2. c \in Places
    BY <1>1, <2>1, Fields
  <2>3. CASE c = Null
    BY <1>5, <2>2, <2>3, UnderNull
  <2>4. CASE c # Null
    <3>1. c \in Under(l, n) /\ c \in Nodes
      BY <1>6, <2>2, <2>4 DEF NoneLeaves, Leads, Places
    <3>2. c \in T /\ D[c] = Under(l, c)
      BY <1>6, <3>1
    <3>3. l.parent[c] = n
      BY <3>1 DEF ParentsIn, T
    <3> QED BY <2>2, <3>1, <3>2, <3>3
  <2> QED BY <2>3, <2>4
<1>8. ASSUME NEW r \in Roots PROVE t[r] = r /\ D[r] = {n \in Nodes : t[n] = r}
  <2>1. r \in Nodes /\ t[r] = r /\ r # Null
    BY <1>1
  <2>2. D[r] = Under(l, r)
    BY <1>4, <2>1
  <2> QED BY <2>1, <2>2 DEF ReachedIn
<1>9. ASSUME NEW n \in Nodes
      PROVE  /\ D[n] = {n} \cup D[k.lh[n]] \cup D[k.rh[n]]
             /\ \A m \in D[k.lh[n]] : Key[m] < Key[n]
             /\ \A m \in D[k.rh[n]] : Key[m] > Key[n]
  <2>1. CASE t[n] = Null
    BY <1>2, <1>4, <1>5, <2>1
  <2>2. CASE t[n] # Null
    <3>1. n \in T /\ D[n] = Under(l, n) /\ k.lh[n] = l.lh[n] /\ k.rh[n] = l.rh[n]
      BY <1>2, <1>3, <1>4, <2>2
    <3>2. D[l.lh[n]] = Under(l, l.lh[n]) /\ D[l.rh[n]] = Under(l, l.rh[n])
      BY <1>7, <3>1
    <3>3. Under(l, n) = {n} \cup Under(l, l.lh[n]) \cup Under(l, l.rh[n])
      BY <1>1, UnderFix
    <3>4. /\ \A m \in Under(l, l.lh[n]) : Key[m] < Key[n]
          /\ \A m \in Under(l, l.rh[n]) : Key[m] > Key[n]
      BY <3>1 DEF InOrderIn, T
    <3> QED BY <3>1, <3>2, <3>3, <3>4
  <2> QED BY <2>1, <2>2
<1>10. ASSUME NEW n \in Nodes, NEW m \in D[n]
       PROVE  t[m] = t[n] /\ D[m] \subseteq D[n] /\ (m # n => k.parent[m] \in D[n])
  <2>1. CASE t[n] = Null
    BY <1>4, <2>1
  <2>2. CASE t[n] # Null
    <3>1. n \in T /\ D[n] = Under(l, n) /\ m \in Under(l, n)
      BY <1>3, <1>4, <2>2
    <3>2. m \in T /\ m \in Nodes /\ t[m] = t[n] /\ D[m] = Under(l, m) /\ NoneLeaves(l, Under(l, n))
      BY <1>6, <3>1
    <3>3. Under(l, m) \subseteq Under(l, n)
      BY <3>1, <3>2, UnderLeast
    <3>4. m # n => l.parent[m] \in Under(l, n)
      <4> DEFINE X == {q \in Under(l, n) : q = n \/ l.parent[q] \in Under(l, n)}
      <4>1. n \in X
        BY <1>6, <3>1
      <4>2. ASSUME NEW q \in X, NEW c \in Leads(l, q) PROVE c \in X
        <5>1. q \in T /\ q \in Under(l, n)
          BY <1>6, <3>1
        <5>2. l.parent[c] = q
          BY <1>7, <5>1 DEF Leads
        <5>3. c \in Under(l, n)
          BY <3>2, <5>1 DEF NoneLeaves
        <5> QED BY <5>1, <5>2, <5>3
      <4>3. NoneLeaves(l, X)
        BY <4>2 DEF NoneLeaves
      <4> HIDE DEF X
      <4>4. Under(l, n) \subseteq X
        BY <4>1, <4>3, UnderLeast
      <4> QED BY <3>1, <4>4 DEF X
    <3>5. k.parent[m] = l.parent[m]
      BY <1>2, <1>3, <3>2
    <3> QED BY <3>1, <3>2, <3>3, <3>4, <3>5
  <2> QED BY <2>1, <2>2
<1>11. ASSUME NEW n \in Nodes, NEW m \in {k.lh[n], k.rh[n]} \ {Null} PROVE k.parent[m] = n
  <2>1. n \in T /\ m \in {l.lh[n], l.rh[n]}
    BY <1>2, <1>3
  <2>2. m \in T /\ l.parent[m] = n
    BY <1>7, <2>1
  <2> QED BY <1>2, <1>3, <2>2
<1>12. ASSUME NEW n \in Nodes, k.parent[n] # Null
       PROVE  n \in {k.lh[k.parent[n]], k.rh[k.parent[n]]}
  <2>1. n \in T /\ k.parent[n] = l.parent[n]
    BY <1>2, <1>3, <1>12
  <2> DEFINE r == t[n]
             X == {q \in Under(l, r) : q = r \/ (\E p \in T : q \in Leads(l, p) /\ l.parent[q] = p)}
  <2>2. n \in Under(l, r) /\ r \in Roots /\ t[r] = r /\ r \in Nodes /\ r \in T
    BY <1>1, <1>3, <2>1, KeptIn DEF T
  <2>3. r \in X
    BY <1>6, <2>2
  <2>4. ASSUME NEW q \in X, NEW c \in Leads(l, q) PROVE c \in X
    <3>1. q \in T /\ q \in Under(l, r)
      BY <1>6, <2>2
    <3>2. l.parent[c] = q
      BY <1>7, <3>1 DEF Leads
    <3>3. c \in Under(l, r)
      BY <1>6, <2>2, <3>1 DEF NoneLeaves
    <3> QED BY <3>1, <3>2, <3>3
  <2>5. NoneLeaves(l, X)
    BY <2>4 DEF NoneLeaves
  <2>6. r # Null
    BY <1>1, <2>2
  <2> HIDE DEF X, r
  <2>7. Under(l, r) \subseteq X
    BY <2>3, <2>5, UnderLeast
  <2>8. n # r
    BY <1>1, <1>12, <2>1, <2>2
  <2>9. PICK p \in T : n \in Leads(l, p) /\ l.parent[n] = p
    BY <2>2, <2>7, <2>8 DEF X
  <2>10. k.lh[p] = l.lh[p] /\ k.rh[p] = l.rh[p]
    BY <1>2, <1>3
  <2> QED BY <2>1, <2>9, <2>10 DEF Leads
<1>13. \A n \in Nodes : t[n] = Null => k.lh[n] = Null /\ k.rh[n] = Null /\ k.parent[n] = Null
  BY <1>2
<1>14. Shape(k, t, D)
  BY <1>8, <1>9, <1>10, <1>11, <1>12, <1>13 DEF Shape
<1> QED BY <1>1, <1>2, <1>5, <1>14 DEF Forest, k, D

(* What the shape says of the links of a node in a tree.                    *)
LEMMA TreeFacts ==
  ASSUME NEW l, NEW t, NEW D, l \in Linkage, Forest(Tidy(l, t), t, D), NEW n \in InTreesOf(t)
  PROVE  /\ n \in Nodes /\ n # Null /\ Key[n] \in Int /\ t[n] \in Roots
         /\ l.lh[n] \in InTreesOf(t) \cup {Null} /\ l.rh[n] \in InTreesOf(t) \cup {Null}
         /\ D[n] = {n} \cup D[l.lh[n]] \cup D[l.rh[n]] /\ D[Null] = {}
         /\ n \notin D[l.lh[n]] /\ n \notin D[l.rh[n]]
         /\ \A m \in D[l.lh[n]] : Key[m] < Key[n]
         /\ \A m \in D[l.rh[n]] : Key[m] > Key[n]
         /\ \A m \in {l.lh[n], l.rh[n]} \ {Null} : l.parent[m] = n
         /\ \A m \in D[n] : /\ m \in InTreesOf(t) /\ t[m] = t[n] /\ D[m] \subseteq D[n]
                            /\ m # n => l.parent[m] \in D[n]
         /\ l.parent[n] # Null => /\ l.parent[n] \in InTreesOf(t)
                                  /\ n \in {l.lh[l.parent[n]], l.rh[l.parent[n]]}
<1> DEFINE k == Tidy(l, t)
           T == InTreesOf(t)
<1>1. /\ t \in [Nodes -> Roots \cup {Null}] /\ Roots \subseteq Nodes /\ T \subseteq Nodes
      /\ \A x \in Nodes : x # Null /\ x \in Places /\ Key[x] \in Int
      /\ \A x : x \in T <=> x \in Nodes /\ t[x] # Null
  BY NodeAssumption DEF Forest, InTreesOf, Places
<1>2. \A x \in Nodes : IF x \in T
         THEN k.lh[x] = l.lh[x] /\ k.rh[x] = l.rh[x] /\ k.parent[x] = l.parent[x]
         ELSE k.lh[x] = Null /\ k.rh[x] = Null /\ k.parent[x] = Null
  BY <1>1, TidyIs
<1>3. D \in [Places -> SUBSET Nodes] /\ D[Null] = {} /\ Shape(k, t, D) /\ n \in T
  BY DEF Forest
<1> HIDE DEF k, T
<1>4. \A x \in Nodes : x \in D[x] /\ \A m \in D[x] : m \in Nodes /\ t[m] = t[x] /\ D[m] \subseteq D[x]
  BY <1>1, <1>3 DEF Shape
<1>5. /\ n \in Nodes /\ n # Null /\ Key[n] \in Int /\ t[n] \in Roots
      /\ l.lh[n] \in Places /\ l.rh[n] \in Places /\ l.parent[n] \in Places
  BY <1>1, <1>3, Fields
<1>6. D[n] = {n} \cup D[l.lh[n]] \cup D[l.rh[n]]
  BY <1>2, <1>3, <1>5 DEF Shape
<1>7. /\ \A m \in D[l.lh[n]] : Key[m] < Key[n]
      /\ \A m \in D[l.rh[n]] : Key[m] > Key[n]
  BY <1>2, <1>3, <1>5 DEF Shape
<1>8. n \notin D[l.lh[n]] /\ n \notin D[l.rh[n]]
  BY <1>5, <1>7
<1>9. \A m \in D[n] : m \in T /\ t[m] = t[n] /\ D[m] \subseteq D[n]
  BY <1>1, <1>3, <1>4
<1>10. ASSUME NEW c \in {l.lh[n], l.rh[n]}, c # Null PROVE c \in T /\ l.parent[c] = n
  <2>1. c \in Nodes
    BY <1>5, <1>10 DEF Places
  <2>2. c \in T
    BY <1>4, <1>6, <1>9, <2>1
  <2>3. k.parent[c] = n
    BY <1>2, <1>3, <1>5, <1>10 DEF Shape
  <2> QED BY <1>2, <2>1, <2>2, <2>3
<1>11. ASSUME NEW m \in D[n], m # n PROVE l.parent[m] \in D[n]
  <2>1. m \in T /\ m \in Nodes
    BY <1>1, <1>9
  <2>2. k.parent[m] \in D[n]
    BY <1>3, <1>5, <1>11 DEF Shape
  <2> QED BY <1>2, <2>1, <2>2
<1>12. ASSUME l.parent[n] # Null
       PROVE  l.parent[n] \in T /\ n \in {l.lh[l.parent[n]], l.rh[l.parent[n]]}
  <2>1. k.parent[n] = l.parent[n] /\ l.parent[n] \in Nodes
    BY <1>2, <1>3, <1>5, <1>12 DEF Places
  <2>2. n \in {k.lh[l.parent[n]], k.rh[l.parent[n]]}
    BY <1>3, <1>5, <1>12, <2>1 DEF Shape
  <2> QED BY <1>2, <1>5, <2>1, <2>2
<1> QED BY <1>3, <1>5, <1>6, <1>7, <1>8, <1>9, <1>10, <1>11, <1>12 DEF T

(* And back: what such a shape says of the links as they are.               *)
LEMMA TidySound ==
  ASSUME NEW l, NEW t, NEW D, l \in Linkage, Forest(Tidy(l, t), t, D)
  PROVE  /\ ReachedIn(l, t) /\ InOrderIn(l, t) /\ ParentsIn(l, t)
         /\ \A n \in InTreesOf(t) : Under(l, n) = D[n]
<1> DEFINE k == Tidy(l, t)
           T == InTreesOf(t)
<1>1. /\ t \in [Nodes -> Roots \cup {Null}] /\ Roots \subseteq Nodes /\ T \subseteq Nodes
      /\ \A n \in Nodes : n # Null
      /\ \A n : n \in T <=> n \in Nodes /\ t[n] # Null
  BY NodeAssumption DEF Forest, InTreesOf
<1>2. /\ D \in [Places -> SUBSET Nodes] /\ D[Null] = {} /\ Forest(k, t, D)
      /\ \A r \in Roots : t[r] = r /\ D[r] = {n \in Nodes : t[n] = r}
  BY DEF Forest, Shape
<1> HIDE DEF k, T
<1>3. ASSUME NEW n \in T
      PROVE  /\ n \in Nodes /\ l.lh[n] \in T \cup {Null} /\ l.rh[n] \in T \cup {Null}
             /\ D[n] = {n} \cup D[l.lh[n]] \cup D[l.rh[n]]
             /\ n \notin D[l.lh[n]] /\ n \notin D[l.rh[n]]
             /\ \A m \in D[l.lh[n]] : Key[m] < Key[n]
             /\ \A m \in D[l.rh[n]] : Key[m] > Key[n]
  BY TreeFacts DEF T
<1>4. ASSUME NEW n \in T, NEW c \in {l.lh[n], l.rh[n]}, c # Null
      PROVE  c \in T /\ l.parent[c] = n
  BY <1>4, TreeFacts DEF T
<1>5. NoneLeaves(l, T)
  BY <1>4 DEF NoneLeaves, Leads
<1>6. \A x \in T \cup {Null} : D[x] \subseteq Nodes
  BY <1>1, <1>2 DEF Places
<1>7. \A x \in T \cup {Null} : Under(l, x) = D[x]
  BY <1>1, <1>2, <1>3, <1>5, <1>6, TreeUnder
<1>8. ReachedIn(l, t)
  <2> SUFFICES ASSUME NEW r \in Roots PROVE Under(l, r) = {n \in Nodes : t[n] = r}
    BY DEF ReachedIn
  <2>1. r \in T /\ D[r] = {n \in Nodes : t[n] = r}
    BY <1>1, <1>2
  <2> QED BY <1>7, <2>1
<1>9. InOrderIn(l, t)
  <2> SUFFICES ASSUME NEW n \in T
               PROVE  /\ \A m \in Under(l, l.lh[n]) : Key[m] < Key[n]
                      /\ \A m \in Under(l, l.rh[n]) : Key[m] > Key[n]
    BY DEF InOrderIn, T
  <2>1. Under(l, l.lh[n]) = D[l.lh[n]] /\ Under(l, l.rh[n]) = D[l.rh[n]]
    BY <1>4, <1>7
  <2> QED BY <1>3, <2>1
<1>10. ParentsIn(l, t)
  BY <1>1, <1>4 DEF ParentsIn, T
<1> QED BY <1>7, <1>8, <1>9, <1>10 DEF T
-----------------------------------------------------------------------------
(* The heir of a node: the last of the left subtree, by the keys.           *)
IsRightWay(f, l, c, i) ==
  f = [k \in 0..i |-> IF k = 0 THEN c ELSE IF f[k - 1] = Null THEN Null ELSE l.rh[f[k - 1]]]

LEMMA RightWayExists ==
  ASSUME NEW l, NEW c, NEW i \in Nat
  PROVE  \E f : IsRightWay(f, l, c, i)
<1> DEFINE S == {j \in Nat : \E f : IsRightWay(f, l, c, j)}
           NodeAfter(x) == IF x = Null THEN Null ELSE l.rh[x]
<1>1. 0 \in S
  <2>1. IsRightWay([k \in 0..0 |-> c], l, c, 0)
    BY DEF IsRightWay
  <2> QED BY <2>1
<1>2. ASSUME NEW j \in Nat, j \in S PROVE j + 1 \in S
  <2>1. PICK f : IsRightWay(f, l, c, j)
    BY <1>2
  <2> DEFINE g == [k \in 0 .. j + 1 |-> IF k = j + 1 THEN NodeAfter(f[j]) ELSE f[k]]
  <2>2. ASSUME NEW k \in 0 .. j + 1 PROVE g[k] = IF k = 0 THEN c ELSE NodeAfter(g[k - 1])
    <3> HIDE DEF NodeAfter
    <3>1. CASE k = j + 1
      BY <3>1
    <3>2. CASE k # j + 1
      <4>1. k \in 0..j /\ g[k] = f[k] /\ (k # 0 => g[k - 1] = f[k - 1])
        BY <3>2
      <4>2. f[k] = IF k = 0 THEN c ELSE NodeAfter(f[k - 1])
        BY <2>1, <4>1 DEF IsRightWay, NodeAfter
      <4> QED BY <4>1, <4>2
    <3> QED BY <3>1, <3>2
  <2>3. IsRightWay(g, l, c, j + 1)
    BY <2>2 DEF IsRightWay
  <2> HIDE DEF g
  <2> QED BY <2>3
<1> HIDE DEF S
<1>3. i \in S
  BY <1>1, <1>2, Induct
<1> QED BY <1>3 DEF S

LEMMA HeirIs ==
  ASSUME NEW l, NEW t, NEW D, l \in Linkage, Forest(Tidy(l, t), t, D),
         NEW n \in InTreesOf(t), l.lh[n] # Null
  PROVE  LET h == Heir(l, n)
         IN  /\ h \in D[l.lh[n]] /\ l.rh[h] = Null
             /\ \A m \in D[l.lh[n]] : m # h => Key[m] < Key[h]
<1> DEFINE c == l.lh[n]
           T == InTreesOf(t)
           f == CHOOSE g : IsRightWay(g, l, c, Max)
           ends == {k \in 0..Max : f[k] # Null /\ l.rh[f[k]] = Null}
<1>1. Heir(l, n) = IF ends = {} THEN Null ELSE f[First(ends)]
  BY DEF Heir, Walk, IsRightWay
<1>2. IsRightWay(f, l, c, Max)
  BY MaxNat, RightWayExists
<1> HIDE DEF f
<1>3. f[0] = c
  BY <1>2, MaxNat DEF IsRightWay
<1>4. ASSUME NEW k \in Nat, k + 1 <= Max
      PROVE  f[k + 1] = IF f[k] = Null THEN Null ELSE l.rh[f[k]]
  <2>1. k + 1 \in 0..Max /\ k + 1 # 0 /\ (k + 1) - 1 = k
    BY <1>4, MaxNat
  <2> QED BY <1>2, <2>1 DEF IsRightWay
<1>5. c \in T /\ c # Null
  BY TreeFacts DEF T
<1> DEFINE Fine(k) == /\ f[k] \in D[c] /\ f[k] \in T
                      /\ \A m \in D[c] : m \in D[f[k]] \/ Key[m] < Key[f[k]]
                      /\ Cardinality(D[f[k]]) \in Nat /\ Cardinality(D[f[k]]) + k <= Max
<1> HIDE DEF c, T
<1>6. \A x \in T : /\ x \in Nodes /\ x # Null /\ Key[x] \in Int /\ x \in D[x]
                   /\ D[x] \subseteq T /\ D[x] \subseteq Nodes
                   /\ \A m \in D[x] : D[m] \subseteq D[x]
  <2> SUFFICES ASSUME NEW x \in T PROVE /\ x \in Nodes /\ x # Null /\ Key[x] \in Int /\ x \in D[x]
                   /\ D[x] \subseteq T /\ D[x] \subseteq Nodes
                   /\ \A m \in D[x] : D[m] \subseteq D[x]
    OBVIOUS
  <2>1. D[x] \subseteq T
    BY TreeFacts DEF T
  <2>2. T \subseteq Nodes
    BY DEF T, InTreesOf
  <2> QED BY <2>1, <2>2, TreeFacts DEF T
<1>7. \A k \in Nat : k <= Max /\ (\A j \in 0 .. k - 1 : j \notin ends) => Fine(k)
  <2> DEFINE S == {k \in Nat : k <= Max /\ (\A j \in 0 .. k - 1 : j \notin ends) => Fine(k)}
  <2>1. 0 \in S
    <3>1. Cardinality(D[c]) \in Nat /\ Cardinality(D[c]) <= Max
      BY <1>5, <1>6, MaxNat, FS_Subset, FS_CardinalityType DEF Max
    <3>2. Fine(0)
      BY <1>3, <1>5, <1>6, <3>1
    <3> QED BY <3>2
  <2>2. ASSUME NEW k \in Nat, k \in S PROVE k + 1 \in S
    <3> SUFFICES ASSUME k + 1 <= Max, \A j \in 0 .. (k + 1) - 1 : j \notin ends PROVE Fine(k + 1)
      OBVIOUS
    <3>1. k \in 0 .. (k + 1) - 1 /\ k <= Max /\ k \in 0..Max
          /\ 0 .. k - 1 \subseteq 0 .. (k + 1) - 1
      BY MaxNat
    <3>2. Fine(k)
      BY <2>2, <3>1
    <3> DEFINE x == f[k]
               y == l.rh[x]
    <3>3. x \in T /\ x # Null /\ y # Null /\ f[k + 1] = y
      BY <1>4, <1>6, <3>1, <3>2
    <3>4. /\ y \in T /\ D[x] = {x} \cup D[l.lh[x]] \cup D[y] /\ x \notin D[y]
          /\ \A m \in D[l.lh[x]] : Key[m] < Key[x]
          /\ \A m \in D[y] : Key[m] > Key[x]
      BY <3>3, TreeFacts DEF T
    <3> HIDE DEF x, y
    <3>5. y \in D[y] /\ y \in D[x] /\ D[x] \subseteq D[c] /\ Key[y] > Key[x]
      BY <1>5, <1>6, <3>2, <3>4 DEF x
    <3>6. ASSUME NEW m \in D[c] PROVE m \in D[y] \/ Key[m] < Key[y]
      <4>1. Key[m] \in Int /\ Key[x] \in Int /\ Key[y] \in Int
        BY <1>5, <1>6, <3>3, <3>4
      <4>2. m \in D[x] \/ Key[m] < Key[x]
        BY <3>2 DEF x
      <4>3. m \in D[y] \/ m = x \/ Key[m] < Key[x]
        BY <3>4, <4>2
      <4> QED BY <3>5, <4>1, <4>3
    <3>7. IsFiniteSet(D[x]) /\ D[y] # D[x] /\ D[y] \subseteq D[x]
      BY <1>6, <3>3, <3>4, <3>5, MaxNat, FS_Subset
    <3>8. /\ Cardinality(D[y]) \in Nat /\ Cardinality(D[x]) \in Nat
          /\ Cardinality(D[y]) < Cardinality(D[x])
      BY <3>7, Fewer
    <3>9. Cardinality(D[x]) + k <= Max
      BY <3>2 DEF x
    <3>10. Cardinality(D[y]) + (k + 1) <= Max
      BY <3>8, <3>9, MaxNat
    <3>11. y \in D[c]
      BY <3>5
    <3> QED BY <3>3, <3>4, <3>6, <3>8, <3>10, <3>11
  <2> HIDE DEF S
  <2>3. Nat \subseteq S
    BY <2>1, <2>2, Induct
  <2> QED BY <2>3 DEF S
<1>8. ends # {}
  <2> SUFFICES ASSUME ends = {} PROVE FALSE
    OBVIOUS
  <2>1. Fine(Max)
    BY <1>7, MaxNat
  <2>2. f[Max] \in D[f[Max]] /\ D[f[Max]] \subseteq Nodes
    BY <1>6, <2>1
  <2>3. IsFiniteSet(D[f[Max]]) /\ Cardinality(D[f[Max]]) # 0
    BY <2>2, MaxNat, FS_Subset, FS_EmptySet
  <2> QED BY <2>1, <2>3, MaxNat
<1>9. First(ends) \in ends /\ \A j \in ends : First(ends) <= j
  <2>1. ends \in SUBSET Nat
    BY MaxNat
  <2> HIDE DEF ends
  <2> QED BY <1>8, <2>1, LeastNat DEF First
<1> DEFINE q == First(ends)
<1>10. q \in Nat /\ q <= Max /\ \A j \in 0 .. q - 1 : j \notin ends
  BY <1>9, MaxNat
<1>11. f[q] # Null /\ l.rh[f[q]] = Null /\ Heir(l, n) = f[q]
  BY <1>1, <1>8, <1>9
<1> HIDE DEF q, ends
<1>12. Fine(q)
  BY <1>7, <1>10
<1>13. ASSUME NEW m \in D[c], m # f[q] PROVE Key[m] < Key[f[q]]
  <2>1. m \in D[f[q]] \/ Key[m] < Key[f[q]]
    BY <1>12
  <2>2. /\ D[f[q]] = {f[q]} \cup D[l.lh[f[q]]] \cup D[l.rh[f[q]]] /\ D[Null] = {}
        /\ \A x \in D[l.lh[f[q]]] : Key[x] < Key[f[q]]
    BY <1>12, TreeFacts DEF T
  <2> QED BY <1>11, <1>13, <2>1, <2>2
<1> QED BY <1>11, <1>12, <1>13 DEF c

(* Sets of nodes that fit the links and the keys are what the trees reach.  *)
LEMMA FitsTrees ==
  ASSUME NEW l \in Linkage, NEW t, NEW E, NEW T, T = InTreesOf(t),
         \A x \in T \cup {Null} : E[x] \subseteq Nodes, E[Null] = {},
         \A x \in T : /\ l.lh[x] \in T \cup {Null} /\ l.rh[x] \in T \cup {Null}
                      /\ E[x] = {x} \cup E[l.lh[x]] \cup E[l.rh[x]]
                      /\ \A m \in E[l.lh[x]] : Key[m] < Key[x]
                      /\ \A m \in E[l.rh[x]] : Key[m] > Key[x],
         \A r \in Roots : t[r] = r /\ E[r] = {n \in Nodes : t[n] = r}
  PROVE  ReachedIn(l, t) /\ InOrderIn(l, t)
<1>1. T \in SUBSET Nodes
  BY DEF InTreesOf
<1>2. NoneLeaves(l, T)
  BY DEF NoneLeaves, Leads
<1>3. ASSUME NEW x \in T PROVE x \notin E[l.lh[x]] /\ x \notin E[l.rh[x]]
  <2>1. Key[x] \in Int
    BY <1>1, NodeAssumption
  <2> QED BY <2>1
<1>4. \A x \in T \cup {Null} : Under(l, x) = E[x]
  BY <1>1, <1>2, <1>3, TreeUnder
<1>5. ReachedIn(l, t)
  <2> SUFFICES ASSUME NEW r \in Roots PROVE Under(l, r) = {n \in Nodes : t[n] = r}
    BY DEF ReachedIn
  <2>1. r \in T
    BY NodeAssumption DEF InTreesOf
  <2> QED BY <1>4, <2>1
<1>6. InOrderIn(l, t)
  <2> SUFFICES ASSUME NEW n \in T
               PROVE  /\ \A m \in Under(l, l.lh[n]) : Key[m] < Key[n]
                      /\ \A m \in Under(l, l.rh[n]) : Key[m] > Key[n]
    BY DEF InOrderIn
  <2>1. Under(l, l.lh[n]) = E[l.lh[n]] /\ Under(l, l.rh[n]) = E[l.rh[n]]
    BY <1>4
  <2> QED BY <2>1
<1> QED BY <1>5, <1>6

(* The roots are below no other node.                                       *)
LEMMA RootsOnTop ==
  ASSUME NEW l, NEW t, NEW D, Linking(l, t), Forest(Tidy(l, t), t, D)
  PROVE  /\ l \in Linkage /\ t \in [Nodes -> Roots \cup {Null}] /\ InTreesOf(t) \subseteq Nodes
         /\ \A r \in Roots : /\ r \in InTreesOf(t) /\ t[r] = r /\ l.parent[r] = Null
                             /\ D[r] = {x \in Nodes : t[x] = r}
                             /\ \A x \in InTreesOf(t) : x # r => r \notin D[x]
<1>1. l \in Linkage /\ t \in [Nodes -> Roots \cup {Null}] /\ Roots \subseteq Nodes /\ Null \notin Nodes
  BY NodeAssumption DEF Linking
<1>2. ASSUME NEW r \in Roots
      PROVE  r \in InTreesOf(t) /\ t[r] = r /\ l.parent[r] = Null /\ D[r] = {x \in Nodes : t[x] = r}
  BY <1>1 DEF InTreesOf, Linking, Forest, Shape
<1>3. ASSUME NEW r \in Roots, NEW x \in InTreesOf(t), x # r PROVE r \notin D[x]
  <2>1. Null \notin InTreesOf(t)
    BY <1>1 DEF InTreesOf
  <2> QED BY <1>1, <1>2, <1>3, <2>1, TreeFacts
<1> QED BY <1>1, <1>2, <1>3 DEF InTreesOf

(* stree_del of a left child without a left child: its right child takes    *)
(* its place.                                                               *)
LEMMA DelLeft ==
  ASSUME NEW l, NEW t, NEW D, Linking(l, t), Forest(Tidy(l, t), t, D),
         NEW n \in InTreesOf(t), l.parent[n] # Null, l.lh[l.parent[n]] = n, l.lh[n] = Null
  PROVE  LET l2 == [l EXCEPT !.lh[l.parent[n]] = l.rh[n]]
             t2 == [t EXCEPT ![n] = Null]
         IN  ReachedIn(l2, t2) /\ InOrderIn(l2, t2)
<1> DEFINE p == l.parent[n]
           l2 == [l EXCEPT !.lh[p] = l.rh[n]]
           t2 == [t EXCEPT ![n] = Null]
           T == InTreesOf(t)
           T2 == InTreesOf(t2)
           E == [x \in Places |-> D[x] \ {n}]
<1>1. /\ l \in Linkage /\ t \in [Nodes -> Roots \cup {Null}] /\ T \subseteq Nodes /\ n \in T
      /\ \A r \in Roots : /\ r \in T /\ t[r] = r /\ l.parent[r] = Null
                          /\ D[r] = {x \in Nodes : t[x] = r}
  BY RootsOnTop DEF T
<1>2. Null \notin Nodes
  BY NodeAssumption
<1>3. \A x \in T :
         /\ x \in Nodes /\ x # Null /\ Key[x] \in Int
         /\ l.lh[x] \in T \cup {Null} /\ l.rh[x] \in T \cup {Null}
         /\ D[x] = {x} \cup D[l.lh[x]] \cup D[l.rh[x]] /\ D[Null] = {}
         /\ x \notin D[l.lh[x]] /\ x \notin D[l.rh[x]]
         /\ \A m \in D[l.lh[x]] : Key[m] < Key[x]
         /\ \A m \in D[l.rh[x]] : Key[m] > Key[x]
         /\ \A m \in {l.lh[x], l.rh[x]} \ {Null} : l.parent[m] = x
         /\ D[x] \subseteq T
  BY <1>1, TreeFacts DEF T
<1>4. p \in T /\ p # n /\ l.lh[p] = n /\ l.rh[p] # n
  <2>1. p \in T
    BY <1>1, TreeFacts DEF T
  <2>2. n \notin D[l.rh[p]] /\ n \in D[n] /\ n \notin D[l.lh[n]]
    <3>1. n \in D[n] /\ n \in D[l.lh[p]] /\ Key[n] \in Int /\ Key[p] \in Int
      BY <1>1, <1>3, <2>1
    <3> QED BY <1>1, <1>3, <2>1, <3>1
  <2>3. p # n
    BY <1>1, <1>3, <2>2
  <2> QED BY <2>1, <2>2, <2>3
<1>5. l2 \in Linkage /\ \A x \in Nodes : /\ l2.lh[x] = IF x = p THEN l.rh[n] ELSE l.lh[x]
                                         /\ l2.rh[x] = l.rh[x]
  BY <1>1, <1>3, <1>4 DEF Linkage
<1>6. T2 = T \ {n} /\ \A x \in Nodes : t2[x] = IF x = n THEN Null ELSE t[x]
  BY <1>1 DEF InTreesOf
<1>7. \A x \in T \cup {Null} : E[x] = D[x] \ {n}
  BY <1>1 DEF Places
<1>8. n \notin Roots
  BY <1>1
<1> HIDE DEF p, l2, t2, T, T2, E
<1>9. ASSUME NEW x \in T2
      PROVE  /\ l2.lh[x] \in T2 \cup {Null} /\ l2.rh[x] \in T2 \cup {Null}
             /\ E[x] = {x} \cup E[l2.lh[x]] \cup E[l2.rh[x]]
             /\ \A m \in E[l2.lh[x]] : Key[m] < Key[x]
             /\ \A m \in E[l2.rh[x]] : Key[m] > Key[x]
  <2>1. x \in T /\ x # n /\ x \in Nodes /\ n \in Nodes
    BY <1>1, <1>3, <1>6
  <2>2. CASE x = p
    <3>1. l2.lh[x] = l.rh[n] /\ l2.rh[x] = l.rh[x] /\ l.rh[x] # n
      BY <1>4, <1>5, <2>1, <2>2
    <3>2. D[n] = {n} \cup D[l.rh[n]] /\ n \notin D[l.rh[n]]
      BY <1>1, <1>3
    <3>3. D[x] = {x} \cup D[n] \cup D[l.rh[x]]
      BY <1>3, <1>4, <2>1, <2>2
    <3>4. E[l.rh[n]] = D[l.rh[n]] \ {n} /\ E[l.rh[x]] = D[l.rh[x]] \ {n} /\ E[x] = D[x] \ {n}
      BY <1>1, <1>3, <1>7, <2>1
    <3>5. \A m \in D[n] : Key[m] < Key[x]
      BY <1>3, <1>4, <2>1, <2>2
    <3>6. l.rh[n] \in T \cup {Null} /\ l.rh[n] # n /\ l.rh[x] \in T \cup {Null}
      BY <1>1, <1>3, <2>1, <3>2
    <3>7. \A m \in D[l.rh[x]] : Key[m] > Key[x]
      BY <1>1, <2>1, TreeFacts DEF T
    <3>8. E[x] = {x} \cup E[l.rh[n]] \cup E[l.rh[x]]
      BY <2>1, <3>2, <3>3, <3>4
    <3>9. /\ \A m \in E[l.rh[n]] : Key[m] < Key[x]
          /\ \A m \in E[l.rh[x]] : Key[m] > Key[x]
      BY <3>2, <3>4, <3>5, <3>7
    <3> QED BY <1>6, <3>1, <3>6, <3>8, <3>9
  <2>3. CASE x # p
    <3>1. l2.lh[x] = l.lh[x] /\ l2.rh[x] = l.rh[x]
      BY <1>5, <2>1, <2>3
    <3>2. l.lh[x] # n /\ l.rh[x] # n
      <4>1. n # Null /\ \A m \in {l.lh[x], l.rh[x]} \ {Null} : l.parent[m] = x
        BY <1>1, <1>2, <2>1, TreeFacts DEF T
      <4> QED BY <2>3, <4>1 DEF p
    <3>3. E[l.lh[x]] = D[l.lh[x]] \ {n} /\ E[l.rh[x]] = D[l.rh[x]] \ {n} /\ E[x] = D[x] \ {n}
      BY <1>3, <1>7, <2>1
    <3>4. /\ l.lh[x] \in T \cup {Null} /\ l.rh[x] \in T \cup {Null}
          /\ D[x] = {x} \cup D[l.lh[x]] \cup D[l.rh[x]]
          /\ \A m \in D[l.lh[x]] : Key[m] < Key[x]
          /\ \A m \in D[l.rh[x]] : Key[m] > Key[x]
      BY <1>1, <2>1, TreeFacts DEF T
    <3>5. E[x] = {x} \cup E[l.lh[x]] \cup E[l.rh[x]]
      BY <2>1, <3>3, <3>4
    <3> QED BY <1>6, <3>1, <3>2, <3>3, <3>4, <3>5
  <2> QED BY <2>2, <2>3
<1>10. \A r \in Roots : t2[r] = r /\ E[r] = {x \in Nodes : t2[x] = r}
  <2> SUFFICES ASSUME NEW r \in Roots PROVE t2[r] = r /\ E[r] = {x \in Nodes : t2[x] = r}
    OBVIOUS
  <2>1. r \in Nodes /\ r # n /\ r # Null /\ t[r] = r
    BY <1>1, <1>2, <1>8
  <2>2. E[r] = {x \in Nodes : t[x] = r} \ {n}
    BY <1>1, <1>7
  <2> QED BY <1>6, <2>1, <2>2
<1>11. (\A x \in T2 \cup {Null} : E[x] \subseteq Nodes) /\ E[Null] = {}
  <2>1. D[Null] = {} /\ \A x \in T : D[x] \subseteq T
    BY <1>1, TreeFacts DEF T
  <2> QED BY <1>1, <1>6, <1>7, <2>1
<1>12. ReachedIn(l2, t2) /\ InOrderIn(l2, t2)
  BY <1>5, <1>9, <1>10, <1>11, FitsTrees DEF T2
<1> QED BY <1>12 DEF l2, t2, p

(* Where an heir comes from: it is the right child of its parent, unless it *)
(* is the left child of the node itself.                                    *)
LEMMA HeirFacts ==
  ASSUME NEW l, NEW t, NEW D, Linking(l, t), Forest(Tidy(l, t), t, D),
         NEW n \in InTreesOf(t), l.parent[n] # Null, l.rh[l.parent[n]] = n, l.lh[n] # Null
  PROVE  LET p == l.parent[n]
             h == Heir(l, n)
             C == D[l.lh[n]]
             R == D[l.rh[n]]
         IN  /\ p \in InTreesOf(t) /\ p # n /\ p \notin D[n] /\ D[l.lh[p]] \cap D[n] = {}
             /\ h \in C /\ l.rh[h] = Null /\ \A m \in C : m # h => Key[m] < Key[h]
             /\ D[n] = {n} \cup C \cup R /\ n \notin C \cup R /\ C \cap R = {}
             /\ \A m \in C : m # l.lh[n] => l.parent[m] \in C
             /\ l.parent[l.lh[n]] = n
             /\ h # l.lh[n] => LET q == l.parent[h]
                               IN  q \in C /\ q # h /\ l.rh[q] = h /\ l.lh[q] # h
<1> DEFINE p == l.parent[n]
           h == Heir(l, n)
           C == D[l.lh[n]]
           R == D[l.rh[n]]
           T == InTreesOf(t)
<1>1. l \in Linkage /\ n \in T /\ T \subseteq Nodes
  BY DEF T, Linking, InTreesOf
<1>2. p \in T /\ \A x \in T : x \in Nodes /\ x # Null /\ Key[x] \in Int /\ D[x] \subseteq T
  BY <1>1, TreeFacts DEF T
<1>3. h \in C /\ l.rh[h] = Null /\ \A m \in C : m # h => Key[m] < Key[h]
  BY <1>1, HeirIs
<1>4. /\ D[n] = {n} \cup C \cup R /\ n \notin C \cup R /\ l.lh[n] \in T /\ C \subseteq D[n]
      /\ \A m \in C : Key[m] < Key[n]
      /\ \A m \in R : Key[m] > Key[n]
      /\ l.parent[l.lh[n]] = n
  BY <1>1, TreeFacts DEF T
<1>5. /\ D[p] = {p} \cup D[l.lh[p]] \cup D[n] /\ p \notin D[n]
      /\ \A m \in D[l.lh[p]] : Key[m] < Key[p]
      /\ \A m \in D[n] : Key[m] > Key[p]
  BY <1>1, <1>2, TreeFacts DEF T
<1> HIDE DEF p, h, C, R, T
<1>6. p # n
  BY <1>4, <1>5
<1>7. \A m \in D[n] : Key[m] \in Int
  BY <1>1, <1>2
<1>8. D[l.lh[p]] \cap D[n] = {}
  BY <1>2, <1>5, <1>7
<1>9. C \cap R = {}
  BY <1>2, <1>1, <1>4, <1>7
<1>10. \A m \in C : m # l.lh[n] => l.parent[m] \in C
  BY <1>1, <1>4, TreeFacts DEF T, C
<1>11. ASSUME h # l.lh[n]
       PROVE  l.parent[h] \in C /\ l.parent[h] # h /\ l.rh[l.parent[h]] = h /\ l.lh[l.parent[h]] # h
  <2> DEFINE q == l.parent[h]
  <2>1. q \in C /\ h \in T /\ q \in T /\ q # Null
    BY <1>1, <1>2, <1>3, <1>4, <1>10, <1>11
  <2>2. h \in {l.lh[q], l.rh[q]}
    BY <1>1, <2>1, TreeFacts DEF T
  <2>3. h \in D[h] /\ h # Null
    BY <1>1, <2>1, TreeFacts DEF T
  <2>4. l.lh[q] # h
    <3> SUFFICES ASSUME l.lh[q] = h PROVE FALSE
      OBVIOUS
    <3>1. Key[h] < Key[q]
      BY <1>1, <2>1, <2>3, TreeFacts DEF T
    <3>2. q = h \/ Key[q] < Key[h]
      BY <1>3, <2>1
    <3> QED BY <1>2, <2>1, <3>1, <3>2
  <2>5. q # h
    <3> SUFFICES ASSUME q = h PROVE FALSE
      OBVIOUS
    <3>1. h \notin D[l.rh[h]] /\ h \notin D[l.lh[h]]
      BY <1>1, <2>1, TreeFacts DEF T
    <3> QED BY <2>2, <2>3, <3>1
  <2> QED BY <2>1, <2>2, <2>4, <2>5
<1> QED BY <1>2, <1>3, <1>4, <1>5, <1>6, <1>8, <1>9, <1>10, <1>11 DEF p, h, C, R, T

LEMMA RecordSet ==
  ASSUME NEW l, NEW a, NEW b, NEW c, l = [lh |-> a, rh |-> b, parent |-> c],
         NEW p, NEW x, NEW y
  PROVE  /\ [l EXCEPT !.lh[p] = x] = [lh |-> [a EXCEPT ![p] = x], rh |-> b, parent |-> c]
         /\ [l EXCEPT !.rh[p] = y] = [lh |-> a, rh |-> [b EXCEPT ![p] = y], parent |-> c]
         /\ [l EXCEPT !.lh[p] = x, !.rh[p] = y]
              = [lh |-> [a EXCEPT ![p] = x], rh |-> [b EXCEPT ![p] = y], parent |-> c]
<1>1. l.lh = a /\ l.rh = b
  OBVIOUS
<1>2. [l EXCEPT !.lh[p] = x] = [lh |-> [a EXCEPT ![p] = x], rh |-> b, parent |-> c]
  BY <1>1
<1>3. [l EXCEPT !.rh[p] = y] = [lh |-> a, rh |-> [b EXCEPT ![p] = y], parent |-> c]
  BY <1>1
<1> DEFINE k == [l EXCEPT !.lh[p] = x]
<1>4. [l EXCEPT !.lh[p] = x, !.rh[p] = y] = [k EXCEPT !.rh[p] = y]
  OBVIOUS
<1>5. k = [lh |-> [a EXCEPT ![p] = x], rh |-> b, parent |-> c] /\ k.rh = b
  BY <1>2
<1> HIDE DEF k
<1>6. [k EXCEPT !.rh[p] = y] = [lh |-> [a EXCEPT ![p] = x], rh |-> [b EXCEPT ![p] = y], parent |-> c]
  BY <1>5
<1> QED BY <1>2, <1>3, <1>4, <1>6

(* The links after stree_del of a right child with a left child, whether    *)
(* the heir was its child or further down.                                  *)
LEMMA UnlinkedIs ==
  ASSUME NEW l, NEW t, NEW D, Linking(l, t), Forest(Tidy(l, t), t, D),
         NEW n \in InTreesOf(t), l.parent[n] # Null, l.rh[l.parent[n]] = n, l.lh[n] # Null
  PROVE  LET p == l.parent[n]
             h == Heir(l, n)
             l2 == Unlinked(l, n)
         IN  /\ l2 \in Linkage
             /\ \A x \in Nodes :
                  /\ l2.lh[x] = IF x = h /\ h # l.lh[n] THEN l.lh[n] ELSE l.lh[x]
                  /\ l2.rh[x] = IF x = p THEN h ELSE IF x = h THEN l.rh[n]
                                ELSE IF x = l.parent[h] /\ h # l.lh[n] THEN l.lh[h] ELSE l.rh[x]
                  /\ l2.parent[x] = l.parent[x]
<1> DEFINE p == l.parent[n]
           h == Heir(l, n)
           q == l.parent[h]
           l2 == Unlinked(l, n)
           T == InTreesOf(t)
<1>1. l \in Linkage /\ n \in T /\ T \subseteq Nodes /\ Null \notin Nodes
  BY NodeAssumption DEF T, Linking, InTreesOf
<1>2. /\ p \in T /\ p # n /\ p \notin D[n] /\ D[l.lh[p]] \cap D[n] = {} /\ h \in D[l.lh[n]]
      /\ D[l.lh[n]] \subseteq D[n] /\ n \notin D[l.lh[n]]
      /\ h # l.lh[n] => q \in D[l.lh[n]] /\ q # h
  BY HeirFacts DEF T
<1>3. \A x \in T : x \in D[x] /\ D[x] \subseteq T
  BY <1>1, TreeFacts DEF T
<1>4. h \in Nodes /\ n \in Nodes /\ p \in Nodes /\ (h # l.lh[n] => q \in Nodes)
  BY <1>1, <1>2, <1>3
<1>5. h # n /\ h # p /\ (h # l.lh[n] => q # n /\ q # p)
  BY <1>2
<1>6. l.lh[p] # n
  BY <1>1, <1>2, <1>3
<1>7. /\ l.lh \in [Nodes -> Places] /\ l.rh \in [Nodes -> Places] /\ l.parent \in [Nodes -> Places]
      /\ l = [lh |-> l.lh, rh |-> l.rh, parent |-> l.parent] /\ Nodes \subseteq Places
  BY <1>1 DEF Linkage, Places
<1> DEFINE left == IF h = l.lh[n] THEN l.lh ELSE [l.lh EXCEPT ![h] = l.lh[n]]
           right == IF h = l.lh[n] THEN [[l.rh EXCEPT ![p] = h] EXCEPT ![h] = l.rh[n]]
                    ELSE [[[l.rh EXCEPT ![p] = h] EXCEPT ![q] = l.lh[h]] EXCEPT ![h] = l.rh[n]]
<1>8. l2 = [lh |-> left, rh |-> right, parent |-> l.parent]
  <2> DEFINE placed == [l EXCEPT !.lh[p] = IF @ = n THEN h ELSE @, !.rh[p] = h]
             freed == [placed EXCEPT !.rh[q] = l.lh[h]]
             kept == [freed EXCEPT !.lh[h] = freed.lh[n]]
  <2>1. l2 = IF h = l.lh[n] THEN [placed EXCEPT !.rh[h] = placed.rh[n]]
             ELSE [kept EXCEPT !.rh[h] = kept.rh[n]]
    BY DEF Unlinked
  <2> HIDE DEF p, h, q, l2
  <2>2. placed = [lh |-> l.lh, rh |-> [l.rh EXCEPT ![p] = h], parent |-> l.parent]
    <3>1. placed = [lh |-> [l.lh EXCEPT ![p] = IF @ = n THEN h ELSE @],
                    rh |-> [l.rh EXCEPT ![p] = h], parent |-> l.parent]
      <4> DEFINE v == IF l.lh[p] = n THEN h ELSE l.lh[p]
      <4>1. placed = [l EXCEPT !.lh[p] = v, !.rh[p] = h]
        OBVIOUS
      <4>2. [l.lh EXCEPT ![p] = IF @ = n THEN h ELSE @] = [l.lh EXCEPT ![p] = v]
        OBVIOUS
      <4> HIDE DEF v, placed
      <4> QED BY <1>7, <4>1, <4>2, RecordSet
    <3>2. [l.lh EXCEPT ![p] = IF @ = n THEN h ELSE @] = l.lh
      BY <1>6, <1>7
    <3> QED BY <3>1, <3>2
  <2> HIDE DEF placed
  <2>3. placed.rh[n] = l.rh[n] /\ placed.lh = l.lh
    BY <1>2, <1>4, <1>7, <2>2
  <2>4. freed = [lh |-> l.lh, rh |-> [placed.rh EXCEPT ![q] = l.lh[h]], parent |-> l.parent]
    BY <2>2
  <2> HIDE DEF freed
  <2>5. kept = [lh |-> [l.lh EXCEPT ![h] = l.lh[n]], rh |-> freed.rh, parent |-> l.parent]
    BY <2>4
  <2> HIDE DEF kept
  <2>6. CASE h = l.lh[n]
    BY <2>1, <2>2, <2>3, <2>6
  <2>7. CASE h # l.lh[n]
    <3>1. kept.rh[n] = l.rh[n]
      <4>1. placed.rh \in [Nodes -> Places]
        BY <1>4, <1>7, <2>2
      <4> QED BY <1>4, <1>5, <2>3, <2>4, <2>5, <2>7, <4>1
    <3> QED BY <2>1, <2>2, <2>4, <2>5, <2>7, <3>1
  <2> QED BY <2>6, <2>7
<1>9. l.lh[n] \in Places /\ l.rh[n] \in Places /\ l.lh[h] \in Places
  BY <1>4, <1>7
<1> HIDE DEF p, h, q, l2
<1>10. left \in [Nodes -> Places] /\ right \in [Nodes -> Places]
  BY <1>4, <1>7, <1>9
<1>11. \A x \in Nodes :
         /\ left[x] = IF x = h /\ h # l.lh[n] THEN l.lh[n] ELSE l.lh[x]
         /\ right[x] = IF x = p THEN h ELSE IF x = h THEN l.rh[n]
                       ELSE IF x = q /\ h # l.lh[n] THEN l.lh[h] ELSE l.rh[x]
  BY <1>2, <1>4, <1>5, <1>7
<1> HIDE DEF left, right
<1>12. l2 \in Linkage
  BY <1>7, <1>8, <1>10 DEF Linkage, Places
<1> QED BY <1>8, <1>11, <1>12 DEF p, h, q, l2

(* It leaves the tree with every other node, and in order: the heir has the *)
(* keys of the left subtree on its left and those of the right one on its   *)
(* right.                                                                   *)
LEMMA DelRight ==
  ASSUME NEW l, NEW t, NEW D, Linking(l, t), Forest(Tidy(l, t), t, D),
         NEW n \in InTreesOf(t), l.parent[n] # Null, l.rh[l.parent[n]] = n, l.lh[n] # Null
  PROVE  LET l2 == Unlinked(l, n)
             t2 == [t EXCEPT ![n] = Null]
         IN  ReachedIn(l2, t2) /\ InOrderIn(l2, t2)
<1> DEFINE p == l.parent[n]
           h == Heir(l, n)
           q == l.parent[h]
           C == D[l.lh[n]]
           R == D[l.rh[n]]
           l2 == Unlinked(l, n)
           t2 == [t EXCEPT ![n] = Null]
           T == InTreesOf(t)
           T2 == InTreesOf(t2)
           deep == h # l.lh[n]
           E == [x \in Places |-> IF x = h THEN D[n] \ {n}
                                  ELSE IF x \in C THEN D[x] \ {h} ELSE D[x] \ {n}]
<1>1. /\ l \in Linkage /\ t \in [Nodes -> Roots \cup {Null}] /\ T \subseteq Nodes /\ n \in T
      /\ Null \notin Nodes /\ Forest(Tidy(l, t), t, D)
      /\ \A r \in Roots : /\ r \in T /\ t[r] = r /\ l.parent[r] = Null
                          /\ D[r] = {x \in Nodes : t[x] = r}
                          /\ \A x \in T : x # r => r \notin D[x]
  BY RootsOnTop, NodeAssumption DEF T
<1>2. /\ p \in T /\ p # n /\ p \notin D[n] /\ D[l.lh[p]] \cap D[n] = {} /\ l.rh[p] = n
      /\ h \in C /\ l.rh[h] = Null /\ \A m \in C : m # h => Key[m] < Key[h]
  BY HeirFacts DEF T
<1>3. /\ D[n] = {n} \cup C \cup R /\ n \notin C \cup R /\ C \cap R = {}
      /\ \A m \in C : m # l.lh[n] => l.parent[m] \in C
      /\ l.parent[l.lh[n]] = n
      /\ deep => q \in C /\ q # h /\ l.rh[q] = h /\ l.lh[q] # h
  BY HeirFacts
<1>4. /\ l2 \in Linkage
      /\ \A x \in Nodes :
           /\ l2.lh[x] = IF x = h /\ deep THEN l.lh[n] ELSE l.lh[x]
           /\ l2.rh[x] = IF x = p THEN h ELSE IF x = h THEN l.rh[n]
                         ELSE IF x = q /\ deep THEN l.lh[h] ELSE l.rh[x]
  BY UnlinkedIs
<1>5. T2 = T \ {n} /\ \A x \in Nodes : t2[x] = IF x = n THEN Null ELSE t[x]
  BY <1>1 DEF InTreesOf
<1>6. /\ l.lh[n] \in T /\ l.rh[n] \in T \cup {Null} /\ n \in Nodes
      /\ \A m \in C : Key[m] < Key[n]
      /\ \A m \in R : Key[m] > Key[n]
  BY <1>1, TreeFacts DEF T
<1>7. \A x \in T : x \in Nodes /\ x # Null /\ Key[x] \in Int /\ x \in D[x] /\ D[x] \subseteq T
  BY <1>1, TreeFacts DEF T
<1>8. D[Null] = {} /\ h \in T /\ h # n /\ h # p /\ n \notin Roots /\ p \notin C /\ C \subseteq D[n]
      /\ R \subseteq D[n] /\ C \subseteq T /\ R \subseteq T
  <2>1. D[Null] = {}
    BY DEF Forest
  <2> QED BY <1>1, <1>2, <1>3, <1>6, <1>7, <2>1
<1>9. /\ E[h] = D[n] \ {n}
      /\ \A x \in C : x # h => E[x] = D[x] \ {h}
      /\ \A x \in T : x \notin C => E[x] = D[x] \ {n}
  <2>1. T \subseteq Places
    BY <1>1 DEF Places
  <2> HIDE DEF p, h, q, C, R, l2, t2, T, T2, deep
  <2> QED BY <1>2, <1>8, <2>1
<1>10. E[Null] = {}
  <2>1. Null # h /\ Null \notin C /\ Null \in Places
    BY <1>1, <1>8 DEF Places
  <2> QED BY <1>8, <2>1
<1> HIDE DEF p, h, q, C, R, l2, t2, T, T2, E, deep
<1> DEFINE Fits(x, a, b) == /\ a \in T2 \cup {Null} /\ b \in T2 \cup {Null}
                            /\ E[x] = {x} \cup E[a] \cup E[b]
                            /\ \A m \in E[a] : Key[m] < Key[x]
                            /\ \A m \in E[b] : Key[m] > Key[x]
<1>11. ASSUME NEW x \in T, NEW c \in {l.lh[x], l.rh[x]}, c # Null
       PROVE  c \in T /\ l.parent[c] = x /\ c \in D[x] /\ (c \in C => x \in C \/ x = n)
  <2>1. c \in T /\ l.parent[c] = x
    BY <1>1, <1>11, TreeFacts DEF T
  <2>2. c \in D[c] /\ c \in D[x]
    BY <1>1, <1>7, <2>1, TreeFacts DEF T
  <2> QED BY <1>3, <2>1, <2>2
<1>12. Fits(h, l2.lh[h], l2.rh[h])
  <2>1. h \in Nodes /\ l2.rh[h] = l.rh[n]
    BY <1>4, <1>7, <1>8
  <2>2. E[l.rh[n]] = R /\ l.rh[n] \in T2 \cup {Null}
    <3>1. CASE l.rh[n] = Null
      BY <1>8, <1>10, <3>1 DEF R
    <3>2. CASE l.rh[n] # Null
      <4>1. l.rh[n] \in R /\ l.rh[n] \in T
        BY <1>6, <1>7, <3>2 DEF R
      <4>2. l.rh[n] # h /\ l.rh[n] \notin C /\ l.rh[n] # n
        BY <1>2, <1>3, <4>1
      <4>3. E[l.rh[n]] = R \ {n}
        BY <1>9, <4>1, <4>2 DEF R
      <4> QED BY <1>3, <1>5, <4>1, <4>2, <4>3
    <3> QED BY <3>1, <3>2
  <2>3. E[l2.lh[h]] = C \ {h} /\ l2.lh[h] \in T2 \cup {Null}
    <3>1. CASE deep
      <4>1. l2.lh[h] = l.lh[n] /\ l.lh[n] # h /\ l.lh[n] \in T
        BY <1>4, <1>6, <2>1, <3>1 DEF deep
      <4>2. l.lh[n] \in C /\ l.lh[n] # n
        BY <1>3, <1>7, <4>1 DEF C
      <4> QED BY <1>5, <1>9, <4>1, <4>2 DEF C
    <3>2. CASE ~deep
      <4>1. l2.lh[h] = l.lh[h] /\ h = l.lh[n] /\ C = D[h]
        BY <1>4, <2>1, <3>2 DEF deep, C
      <4>2. /\ l.lh[h] \in T \cup {Null} /\ D[h] = {h} \cup D[l.lh[h]] \cup D[l.rh[h]]
            /\ h \notin D[l.lh[h]]
        BY <1>1, <1>8, TreeFacts DEF T
      <4>3. C \ {h} = D[l.lh[h]]
        <5>1. D[l.rh[h]] = {}
          BY <1>2, <1>8
        <5> QED BY <4>1, <4>2, <5>1
      <4>4. CASE l.lh[h] = Null
        BY <1>8, <1>10, <4>1, <4>3, <4>4
      <4>5. CASE l.lh[h] # Null
        <5>1. l.lh[h] \in T /\ l.lh[h] \in D[l.lh[h]]
          BY <1>7, <4>2, <4>5
        <5>2. l.lh[h] \in C /\ l.lh[h] # h /\ l.lh[h] # n
          BY <1>3, <4>3, <5>1
        <5>3. E[l.lh[h]] = D[l.lh[h]] \ {h}
          BY <1>9, <5>1, <5>2
        <5> QED BY <1>5, <4>1, <4>2, <4>3, <5>1, <5>2, <5>3
      <4> QED BY <4>4, <4>5
    <3> QED BY <3>1, <3>2
  <2>4. E[h] = {h} \cup (C \ {h}) \cup R
    BY <1>2, <1>3, <1>8, <1>9
  <2>5. \A m \in R : Key[m] > Key[h]
    <3>1. Key[h] < Key[n] /\ \A m \in R : Key[m] > Key[n]
      BY <1>2, <1>6
    <3>2. Key[h] \in Int /\ Key[n] \in Int /\ \A m \in R : Key[m] \in Int
      BY <1>1, <1>7, <1>8
    <3> QED BY <3>1, <3>2
  <2> QED BY <1>2, <2>1, <2>2, <2>3, <2>4, <2>5
<1>13. Fits(p, l2.lh[p], l2.rh[p])
  <2>1. p \in Nodes /\ l2.rh[p] = h /\ l2.lh[p] = l.lh[p]
    BY <1>2, <1>4, <1>7, <1>8
  <2>2. /\ D[p] = {p} \cup D[l.lh[p]] \cup D[n]
        /\ \A m \in D[l.lh[p]] : Key[m] < Key[p]
        /\ \A m \in D[n] : Key[m] > Key[p]
        /\ l.lh[p] \in T \cup {Null}
    BY <1>1, <1>2, TreeFacts DEF T
  <2>3. E[l.lh[p]] = D[l.lh[p]] /\ l.lh[p] \in T2 \cup {Null}
    <3>1. CASE l.lh[p] = Null
      BY <1>8, <1>10, <3>1
    <3>2. CASE l.lh[p] # Null
      <4>1. l.lh[p] \in T /\ l.lh[p] \in D[l.lh[p]] /\ n \in D[n]
        BY <1>1, <1>7, <2>2, <3>2
      <4>2. l.lh[p] \notin D[n] /\ n \notin D[l.lh[p]]
        BY <1>2, <4>1
      <4>3. l.lh[p] # h /\ l.lh[p] \notin C /\ l.lh[p] # n
        BY <1>2, <1>8, <4>1, <4>2
      <4>4. E[l.lh[p]] = D[l.lh[p]] \ {n}
        BY <1>9, <4>1, <4>3
      <4> QED BY <1>5, <4>1, <4>2, <4>3, <4>4
    <3> QED BY <3>1, <3>2
  <2>4. E[h] = D[n] \ {n} /\ E[p] = D[p] \ {n} /\ h \in T2
    BY <1>2, <1>5, <1>8, <1>9
  <2>5. n \notin D[l.lh[p]]
    BY <1>1, <1>2, <1>7
  <2>6. E[p] = {p} \cup E[l.lh[p]] \cup E[h]
    BY <1>2, <2>2, <2>3, <2>4, <2>5
  <2> QED BY <2>1, <2>2, <2>3, <2>4, <2>6
<1>14. ASSUME NEW x \in C, x # h PROVE Fits(x, l2.lh[x], l2.rh[x])
  <2>1. /\ x \in T /\ x \in T2 /\ x \in Nodes /\ x # p /\ E[x] = D[x] \ {h} /\ x # n
        /\ l2.lh[x] = l.lh[x]
        /\ l2.rh[x] = IF x = q /\ deep THEN l.lh[h] ELSE l.rh[x]
    BY <1>3, <1>4, <1>5, <1>7, <1>8, <1>9, <1>14
  <2>2. /\ D[x] = {x} \cup D[l.lh[x]] \cup D[l.rh[x]]
        /\ \A m \in D[l.lh[x]] : Key[m] < Key[x]
        /\ \A m \in D[l.rh[x]] : Key[m] > Key[x]
        /\ x \notin D[l.lh[x]] /\ x \notin D[l.rh[x]]
    BY <1>1, <2>1, TreeFacts DEF T
  <2>3. ASSUME NEW y \in T, NEW c \in {l.lh[y], l.rh[y]}, c # h, y \in C
        PROVE  E[c] = D[c] \ {h} /\ c \in T2 \cup {Null} /\ (c # Null => c \in C)
    <3>1. CASE c = Null
      BY <1>8, <1>10, <3>1
    <3>2. CASE c # Null
      <4>1. c \in T /\ c \in D[y]
        BY <1>11, <2>3, <3>2
      <4>2. D[y] \subseteq C
        BY <1>1, <1>6, <2>3, TreeFacts DEF T, C
      <4>3. c \in C /\ c # n
        BY <1>3, <4>1, <4>2
      <4> QED BY <1>5, <1>9, <2>3, <4>1, <4>3
    <3> QED BY <3>1, <3>2
  <2>4. CASE x = q /\ deep
    <3>1. l.rh[x] = h /\ l.lh[x] # h
      BY <1>3, <2>4
    <3>2. E[l.lh[x]] = D[l.lh[x]] \ {h} /\ l.lh[x] \in T2 \cup {Null}
      BY <1>14, <2>1, <2>3, <3>1
    <3>3. /\ D[h] = {h} \cup D[l.lh[h]] /\ h \notin D[l.lh[h]] /\ l.lh[h] # h /\ h \in C
      <4>1. /\ D[h] = {h} \cup D[l.lh[h]] \cup D[l.rh[h]] /\ h \notin D[l.lh[h]]
        BY <1>1, <1>8, TreeFacts DEF T
      <4>2. h \in D[h]
        BY <1>7, <1>8
      <4> QED BY <1>2, <1>8, <4>1, <4>2
    <3>4. E[l.lh[h]] = D[l.lh[h]] /\ l.lh[h] \in T2 \cup {Null}
      <4>1. E[l.lh[h]] = D[l.lh[h]] \ {h} /\ l.lh[h] \in T2 \cup {Null}
        BY <1>8, <2>3, <3>3
      <4> QED BY <3>3, <4>1
    <3>5. h \notin D[l.lh[x]]
      <4>1. Key[h] > Key[x] /\ Key[h] \in Int /\ Key[x] \in Int
        BY <1>7, <1>8, <2>1, <2>2, <3>1, <3>3
      <4> QED BY <2>2, <4>1
    <3>6. l2.lh[x] = l.lh[x] /\ l2.rh[x] = l.lh[h]
      BY <2>1, <2>4
    <3>7. E[x] = {x} \cup E[l.lh[x]] \cup E[l.lh[h]]
      BY <1>14, <2>1, <2>2, <3>1, <3>2, <3>3, <3>4, <3>5
    <3>8. \A m \in E[l.lh[h]] : Key[m] > Key[x]
      BY <2>2, <3>1, <3>3, <3>4
    <3>9. \A m \in E[l.lh[x]] : Key[m] < Key[x]
      BY <2>2, <3>2
    <3> QED BY <3>2, <3>4, <3>6, <3>7, <3>8, <3>9
  <2>5. CASE ~(x = q /\ deep)
    <3>1. l2.lh[x] = l.lh[x] /\ l2.rh[x] = l.rh[x]
      BY <2>1, <2>5
    <3>2. ASSUME NEW c \in {l.lh[x], l.rh[x]} PROVE c # h
      <4> SUFFICES ASSUME c = h PROVE FALSE
        OBVIOUS
      <4>1. l.parent[h] = x
        BY <1>7, <1>8, <1>11, <2>1
      <4>2. ~deep
        BY <2>5, <4>1 DEF q
      <4>3. l.parent[h] = n
        BY <1>3, <4>2 DEF deep
      <4> QED BY <2>1, <4>1, <4>3
    <3>3. /\ E[l.lh[x]] = D[l.lh[x]] \ {h} /\ l.lh[x] \in T2 \cup {Null}
          /\ E[l.rh[x]] = D[l.rh[x]] \ {h} /\ l.rh[x] \in T2 \cup {Null}
      BY <1>14, <2>1, <2>3, <3>2
    <3>4. E[x] = {x} \cup E[l.lh[x]] \cup E[l.rh[x]]
      BY <1>14, <2>1, <2>2, <3>3
    <3> QED BY <2>2, <3>1, <3>3, <3>4
  <2> QED BY <2>4, <2>5
<1>15. ASSUME NEW x \in T2, x \notin C, x # p PROVE Fits(x, l2.lh[x], l2.rh[x])
  <2>1. x \in T /\ x # n /\ x # h /\ x \in Nodes /\ E[x] = D[x] \ {n} /\ (deep => x # q)
    BY <1>2, <1>3, <1>5, <1>7, <1>9, <1>15
  <2>2. l2.lh[x] = l.lh[x] /\ l2.rh[x] = l.rh[x]
    BY <1>4, <1>15, <2>1
  <2>3. ASSUME NEW c \in {l.lh[x], l.rh[x]} PROVE E[c] = D[c] \ {n} /\ c \in T2 \cup {Null}
    <3>1. CASE c = Null
      BY <1>8, <1>10, <3>1
    <3>2. CASE c # Null
      <4>1. c \in T /\ l.parent[c] = x /\ (c \in C => x \in C \/ x = n)
        BY <1>11, <2>1, <3>2
      <4>2. c # n /\ c \notin C /\ c # h
        BY <1>2, <1>15, <2>1, <4>1 DEF p
      <4> QED BY <1>5, <1>9, <4>1, <4>2
    <3> QED BY <3>1, <3>2
  <2>4. /\ D[x] = {x} \cup D[l.lh[x]] \cup D[l.rh[x]]
        /\ \A m \in D[l.lh[x]] : Key[m] < Key[x]
        /\ \A m \in D[l.rh[x]] : Key[m] > Key[x]
    BY <1>1, <2>1, TreeFacts DEF T
  <2>5. E[x] = {x} \cup E[l.lh[x]] \cup E[l.rh[x]]
    BY <2>1, <2>3, <2>4
  <2> QED BY <2>2, <2>3, <2>4, <2>5
<1>16. \A x \in T2 : Fits(x, l2.lh[x], l2.rh[x])
  BY <1>12, <1>13, <1>14, <1>15
<1>17. \A r \in Roots : t2[r] = r /\ E[r] = {x \in Nodes : t2[x] = r}
  <2> SUFFICES ASSUME NEW r \in Roots PROVE t2[r] = r /\ E[r] = {x \in Nodes : t2[x] = r}
    OBVIOUS
  <2>1. r \in Nodes /\ r # n /\ r # Null /\ t[r] = r /\ r \in T
    BY <1>1, <1>8
  <2>2. r \notin C
    <3>1. l.lh[n] # r
      BY <1>1, <1>3, <2>1, <1>6, <1>7
    <3> QED BY <1>1, <1>6, <3>1 DEF C
  <2>3. E[r] = {x \in Nodes : t[x] = r} \ {n}
    <3>1. E[r] = D[r] \ {n}
      BY <1>9, <2>1, <2>2
    <3> QED BY <1>1, <3>1
  <2> QED BY <1>5, <2>1, <2>3
<1>18. \A x \in T2 \cup {Null} : E[x] \subseteq Nodes
  <2> SUFFICES ASSUME NEW x \in T2 PROVE E[x] \subseteq Nodes
    BY <1>10
  <2>1. x \in T /\ D[x] \subseteq T /\ D[n] \subseteq T
    BY <1>1, <1>5, <1>7
  <2>2. E[x] \in {D[n] \ {n}, D[x] \ {h}, D[x] \ {n}}
    BY <1>9, <2>1
  <2> QED BY <1>1, <2>1, <2>2
<1>19. ReachedIn(l2, t2) /\ InOrderIn(l2, t2)
  <2> HIDE DEF Fits
  <2>1. \A x \in T2 : /\ l2.lh[x] \in T2 \cup {Null} /\ l2.rh[x] \in T2 \cup {Null}
                      /\ E[x] = {x} \cup E[l2.lh[x]] \cup E[l2.rh[x]]
                      /\ \A m \in E[l2.lh[x]] : Key[m] < Key[x]
                      /\ \A m \in E[l2.rh[x]] : Key[m] > Key[x]
    BY <1>16 DEF Fits
  <2> QED BY <1>4, <1>10, <1>17, <1>18, <2>1, FitsTrees DEF T2
<1> QED BY <1>19 DEF l2, t2
-----------------------------------------------------------------------------
(* What holds of the links whatever users delete: they lead to nodes, and   *)
(* the root of a tree stays in it and has no parent.                        *)
LinksInv == Linking(link, tree)

LEMMA SetIn ==
  ASSUME NEW f \in [Nodes -> Places], NEW a, NEW v, a \in Nodes => v \in Places
  PROVE  [f EXCEPT ![a] = v] \in [Nodes -> Places]
OBVIOUS

LEMMA LinkageIs ==
  /\ \A l \in Linkage : /\ l.lh \in [Nodes -> Places] /\ l.rh \in [Nodes -> Places]
                        /\ l.parent \in [Nodes -> Places]
                        /\ l = [lh |-> l.lh, rh |-> l.rh, parent |-> l.parent]
  /\ \A a, b, c \in [Nodes -> Places] : [lh |-> a, rh |-> b, parent |-> c] \in Linkage
BY DEF Linkage, Places

LEMMA HeirPlace ==
  ASSUME NEW l \in Linkage, NEW n \in Nodes
  PROVE  Heir(l, n) \in Places
<1> DEFINE f == CHOOSE g : IsRightWay(g, l, l.lh[n], Max)
           ends == {k \in 0..Max : f[k] # Null /\ l.rh[f[k]] = Null}
<1>1. Heir(l, n) = IF ends = {} THEN Null ELSE f[First(ends)]
  BY DEF Heir, Walk, IsRightWay
<1>2. IsRightWay(f, l, l.lh[n], Max)
  BY MaxNat, RightWayExists
<1> HIDE DEF f
<1> DEFINE S == {k \in Nat : k <= Max => f[k] \in Places}
<1>3. 0 \in S
  BY <1>2, MaxNat, Fields DEF IsRightWay
<1>4. ASSUME NEW k \in Nat, k \in S PROVE k + 1 \in S
  <2> SUFFICES ASSUME k + 1 <= Max PROVE f[k + 1] \in Places
    OBVIOUS
  <2>1. k + 1 \in 0..Max /\ k + 1 # 0 /\ (k + 1) - 1 = k /\ f[k] \in Places
    BY <1>4, MaxNat
  <2>2. f[k + 1] = IF f[k] = Null THEN Null ELSE l.rh[f[k]]
    BY <1>2, <2>1 DEF IsRightWay
  <2> QED BY <2>1, <2>2, Fields DEF Places
<1> HIDE DEF S
<1>5. \A k \in Nat : k <= Max => f[k] \in Places
  <2>1. Nat \subseteq S
    BY <1>3, <1>4, Induct
  <2> QED BY <2>1 DEF S
<1>6. ends # {} => First(ends) \in ends
  <2>1. ends \in SUBSET Nat
    BY MaxNat
  <2> HIDE DEF ends
  <2> QED BY <2>1, LeastNat DEF First
<1>7. ends # {} => First(ends) \in Nat /\ First(ends) <= Max
  BY <1>6, MaxNat
<1> HIDE DEF ends
<1> QED BY <1>1, <1>5, <1>7 DEF Places

LEMMA AddsPlace ==
  ASSUME NEW l \in Linkage, NEW root \in Roots, NEW key
  PROVE  AddsAt(l, root, key) \in Places
<1> DEFINE f == CHOOSE g : IsWay(g, l, root, key, Max)
           stops == {k \in 0..Max : /\ f[k] # Null
                                    /\ Key[f[k]] = key \/ ChildFor(l, f[k], key) = Null}
<1>1. AddsAt(l, root, key) = IF stops = {} THEN Null ELSE f[First(stops)]
  BY DEF AddsAt, Walk, IsWay
<1>2. IsWay(f, l, root, key, Max)
  BY MaxNat, WayExists
<1> HIDE DEF f
<1> DEFINE S == {k \in Nat : k <= Max => f[k] \in Places}
<1>3. 0 \in S
  BY <1>2, MaxNat, NodeAssumption DEF IsWay, Places
<1>4. ASSUME NEW k \in Nat, k \in S PROVE k + 1 \in S
  <2> SUFFICES ASSUME k + 1 <= Max PROVE f[k + 1] \in Places
    OBVIOUS
  <2>1. k + 1 \in 0..Max /\ k + 1 # 0 /\ (k + 1) - 1 = k /\ f[k] \in Places
    BY <1>4, MaxNat
  <2>2. f[k + 1] = IF f[k] = Null THEN Null ELSE ChildFor(l, f[k], key)
    BY <1>2, <2>1 DEF IsWay
  <2> QED BY <2>1, <2>2, Fields DEF Places, ChildFor
<1> HIDE DEF S
<1>5. \A k \in Nat : k <= Max => f[k] \in Places
  <2>1. Nat \subseteq S
    BY <1>3, <1>4, Induct
  <2> QED BY <2>1 DEF S
<1>6. stops # {} => First(stops) \in stops
  <2>1. stops \in SUBSET Nat
    BY MaxNat
  <2> HIDE DEF stops
  <2> QED BY <2>1, LeastNat DEF First
<1>7. stops # {} => First(stops) \in Nat /\ First(stops) <= Max
  BY <1>6, MaxNat
<1> HIDE DEF stops
<1> QED BY <1>1, <1>5, <1>7 DEF Places

LEMMA UnlinkedLinkage ==
  ASSUME link \in Linkage, NEW n \in Nodes, DelFate(n) = "ok"
  PROVE  Unlinked(link, n) \in Linkage /\ Unlinked(link, n).parent = link.parent
<1> DEFINE l == link
           a == l.lh
           b == l.rh
           c == l.parent
           p == c[n]
           h == Heir(l, n)
           v == IF a[p] = n THEN h ELSE a[p]
           placed == [l EXCEPT !.lh[p] = IF @ = n THEN h ELSE @, !.rh[p] = h]
           freed == [placed EXCEPT !.rh[c[h]] = a[h]]
           kept == [freed EXCEPT !.lh[h] = freed.lh[n]]
           l2 == Unlinked(l, n)
<1>1. /\ a \in [Nodes -> Places] /\ b \in [Nodes -> Places] /\ c \in [Nodes -> Places]
      /\ l = [lh |-> a, rh |-> b, parent |-> c]
      /\ \A x, y, z \in [Nodes -> Places] : [lh |-> x, rh |-> y, parent |-> z] \in Linkage
  BY LinkageIs
<1>2. h \in Places /\ n \in Places
  BY HeirPlace DEF Places
<1>3. a[n] # Null => h \in Nodes
  BY <1>2 DEF DelFate, Places
<1>4. /\ a[n] = Null /\ a[p] = n => l2 = [l EXCEPT !.lh[p] = b[n]]
      /\ a[n] = Null /\ a[p] # n => l2 = [l EXCEPT !.rh[p] = n]
      /\ a[n] # Null /\ h = a[n] => l2 = [placed EXCEPT !.rh[h] = placed.rh[n]]
      /\ a[n] # Null /\ h # a[n] => l2 = [kept EXCEPT !.rh[h] = kept.rh[n]]
  BY DEF Unlinked
<1>5. placed = [l EXCEPT !.lh[p] = v, !.rh[p] = h]
  OBVIOUS
<1>6. p \in Nodes => v \in Places
  BY <1>1, <1>2
<1> HIDE DEF l, a, b, c, p, h, v, l2
<1>7. CASE a[n] = Null /\ a[p] = n
  <2>1. l2 = [lh |-> [a EXCEPT ![p] = b[n]], rh |-> b, parent |-> c]
    <3>1. l2 = [l EXCEPT !.lh[p] = b[n]]
      BY <1>4, <1>7
    <3> QED BY <1>1, <3>1, RecordSet
  <2>2. [a EXCEPT ![p] = b[n]] \in [Nodes -> Places]
    BY <1>1, SetIn
  <2> QED BY <1>1, <2>1, <2>2 DEF l2, c, l
<1>8. CASE a[n] = Null /\ a[p] # n
  <2>1. l2 = [lh |-> a, rh |-> [b EXCEPT ![p] = n], parent |-> c]
    <3>1. l2 = [l EXCEPT !.rh[p] = n]
      BY <1>4, <1>8
    <3> QED BY <1>1, <3>1, RecordSet
  <2>2. [b EXCEPT ![p] = n] \in [Nodes -> Places]
    BY <1>1, <1>2, SetIn
  <2> QED BY <1>1, <2>1, <2>2 DEF l2, c, l
<1> DEFINE a2 == [a EXCEPT ![p] = v]
           b2 == [b EXCEPT ![p] = h]
<1>9. placed = [lh |-> a2, rh |-> b2, parent |-> c]
  <2> HIDE DEF placed
  <2> QED BY <1>1, <1>5, RecordSet
<1>10. a2 \in [Nodes -> Places] /\ b2 \in [Nodes -> Places]
  BY <1>1, <1>2, <1>6, SetIn
<1> HIDE DEF a2, b2, placed
<1>11. CASE a[n] # Null /\ h = a[n]
  <2>1. l2 = [lh |-> a2, rh |-> [b2 EXCEPT ![h] = b2[n]], parent |-> c]
    <3>1. l2 = [placed EXCEPT !.rh[h] = b2[n]]
      BY <1>4, <1>9, <1>11
    <3> QED BY <1>9, <3>1, RecordSet
  <2>2. [b2 EXCEPT ![h] = b2[n]] \in [Nodes -> Places]
    BY <1>10, SetIn
  <2> QED BY <1>1, <1>10, <2>1, <2>2 DEF l2, c, l
<1>12. CASE a[n] # Null /\ h # a[n]
  <2> DEFINE b3 == [b2 EXCEPT ![c[h]] = a[h]]
             a3 == [a2 EXCEPT ![h] = a2[n]]
             b4 == [b3 EXCEPT ![h] = b3[n]]
  <2>1. a[h] \in Places
    BY <1>1, <1>3, <1>12
  <2>2. b3 \in [Nodes -> Places] /\ a3 \in [Nodes -> Places]
    BY <1>10, <2>1, SetIn
  <2>3. freed = [lh |-> a2, rh |-> b3, parent |-> c]
    <3> HIDE DEF freed
    <3>1. freed = [placed EXCEPT !.rh[c[h]] = a[h]]
      BY DEF freed
    <3> QED BY <1>9, <3>1, RecordSet
  <2> HIDE DEF b3, freed
  <2>4. kept = [lh |-> a3, rh |-> b3, parent |-> c]
    <3>1. kept = [freed EXCEPT !.lh[h] = a2[n]]
      BY <2>3
    <3> HIDE DEF kept
    <3> QED BY <2>3, <3>1, RecordSet
  <2> HIDE DEF a3, kept
  <2>5. l2 = [lh |-> a3, rh |-> b4, parent |-> c]
    <3>1. l2 = [kept EXCEPT !.rh[h] = b3[n]]
      BY <1>4, <1>12, <2>4
    <3> QED BY <2>4, <3>1, RecordSet
  <2>6. b4 \in [Nodes -> Places]
    BY <2>2, SetIn
  <2> HIDE DEF b4
  <2> QED BY <1>1, <2>2, <2>5, <2>6 DEF l2, c, l
<1> QED BY <1>7, <1>8, <1>11, <1>12

LEMMA LinkedLinkage ==
  ASSUME NEW l \in Linkage, NEW n \in Nodes, NEW at \in Nodes
  PROVE  Linked(l, n, at) \in Linkage /\ Linked(l, n, at).parent = [l.parent EXCEPT ![n] = at]
<1> DEFINE a == l.lh
           b == l.rh
           c == l.parent
           c2 == [c EXCEPT ![n] = at]
<1>1. /\ a \in [Nodes -> Places] /\ b \in [Nodes -> Places] /\ c \in [Nodes -> Places]
      /\ l = [lh |-> a, rh |-> b, parent |-> c] /\ n \in Places /\ at \in Places
      /\ \A x, y, z \in [Nodes -> Places] : [lh |-> x, rh |-> y, parent |-> z] \in Linkage
  BY LinkageIs DEF Places
<1> HIDE DEF a, b, c
<1>2. c2 \in [Nodes -> Places]
  BY <1>1, SetIn
<1>3. CASE Key[n] > Key[at]
  <2>1. Linked(l, n, at) = [l EXCEPT !.rh[at] = n, !.parent[n] = at]
    BY <1>3 DEF Linked
  <2>2. Linked(l, n, at) = [lh |-> a, rh |-> [b EXCEPT ![at] = n], parent |-> c2]
    BY <1>1, <2>1
  <2>3. [b EXCEPT ![at] = n] \in [Nodes -> Places]
    BY <1>1, SetIn
  <2> QED BY <1>1, <1>2, <2>2, <2>3 DEF c
<1>4. CASE ~(Key[n] > Key[at])
  <2>1. Linked(l, n, at) = [l EXCEPT !.lh[at] = n, !.parent[n] = at]
    BY <1>4 DEF Linked
  <2>2. Linked(l, n, at) = [lh |-> [a EXCEPT ![at] = n], rh |-> b, parent |-> c2]
    BY <1>1, <2>1
  <2>3. [a EXCEPT ![at] = n] \in [Nodes -> Places]
    BY <1>1, SetIn
  <2> QED BY <1>1, <1>2, <2>2, <2>3 DEF c
<1> QED BY <1>3, <1>4

(* The result of an addition for a node that is no root.                    *)
LEMMA AddsLinking ==
  ASSUME NEW l, Linking(l, tree), NEW n \in Nodes \ Roots, NEW root \in Roots, TreeAdd(l, n, root)
  PROVE  LinksInv'
<1> DEFINE at == AddsAt(l, root, Key[n])
<1>1. /\ l \in Linkage /\ tree \in [Nodes -> Roots \cup {Null}] /\ at \in Places
      /\ \A r \in Roots : tree[r] = r /\ l.parent[r] = Null /\ r \in Nodes
  BY AddsPlace, NodeAssumption DEF Linking
<1>2. tree' \in [Nodes -> Roots \cup {Null}] /\ \A r \in Roots : tree'[r] = r
  <2>1. tree' = [tree EXCEPT ![n] = IF answer' = 0 THEN root ELSE Null]
    BY DEF TreeAdd
  <2> QED BY <1>1, <2>1
<1>3. link' = l \/ (at \in Nodes /\ link' = Linked(l, n, at))
  BY <1>1 DEF TreeAdd, Places
<1> HIDE DEF at
<1>4. link' \in Linkage /\ \A r \in Roots : link'.parent[r] = Null
  <2>1. CASE link' = l
    BY <1>1, <2>1
  <2>2. CASE at \in Nodes /\ link' = Linked(l, n, at)
    <3>1. link' \in Linkage /\ link'.parent = [l.parent EXCEPT ![n] = at]
      BY <1>1, <2>2, LinkedLinkage
    <3>2. l.parent \in [Nodes -> Places]
      BY <1>1, LinkageIs
    <3> QED BY <1>1, <3>1, <3>2
  <2> QED BY <1>3, <2>1, <2>2
<1> QED BY <1>2, <1>4 DEF LinksInv, Linking

LEMMA LinksHold == LinksInv /\ [Next]_vars => LinksInv'
<1> SUFFICES ASSUME LinksInv, [Next]_vars PROVE LinksInv'
  OBVIOUS
<1>1. /\ link \in Linkage /\ tree \in [Nodes -> Roots \cup {Null}]
      /\ \A r \in Roots : tree[r] = r /\ link.parent[r] = Null /\ r \in Nodes /\ r # Null
  BY NodeAssumption DEF LinksInv, Linking
<1>2. CASE \E root \in Roots, key \in Sought : Search(root, key)
  BY <1>2 DEF Search, LinksInv
<1>3. ASSUME NEW n \in Nodes, NEW root \in Roots, Add(n, root) PROVE LinksInv'
  <2> DEFINE a == link.lh
             b == link.rh
             c == link.parent
             l == [link EXCEPT !.lh[n] = Null, !.rh[n] = Null, !.parent[n] = Null]
  <2>1. TreeAdd(l, n, root) /\ n \notin Roots
    BY <1>1, <1>3 DEF Add
  <2>2. a \in [Nodes -> Places] /\ b \in [Nodes -> Places] /\ c \in [Nodes -> Places]
        /\ link = [lh |-> a, rh |-> b, parent |-> c] /\ Null \in Places
    BY <1>1, LinkageIs DEF Places
  <2> HIDE DEF a, b, c
  <2>3. l = [lh |-> [a EXCEPT ![n] = Null], rh |-> [b EXCEPT ![n] = Null],
             parent |-> [c EXCEPT ![n] = Null]]
    <3> DEFINE k == [link EXCEPT !.lh[n] = Null, !.rh[n] = Null]
    <3>1. l = [k EXCEPT !.parent[n] = Null]
      OBVIOUS
    <3>2. k = [link EXCEPT !.lh[n] = Null, !.rh[n] = Null]
      OBVIOUS
    <3> HIDE DEF k, l
    <3>3. k = [lh |-> [a EXCEPT ![n] = Null], rh |-> [b EXCEPT ![n] = Null], parent |-> c]
      BY <2>2, <3>2, RecordSet
    <3> QED BY <3>1, <3>3
  <2>4. /\ [a EXCEPT ![n] = Null] \in [Nodes -> Places] /\ [b EXCEPT ![n] = Null] \in [Nodes -> Places]
        /\ [c EXCEPT ![n] = Null] \in [Nodes -> Places]
    BY <2>2, SetIn
  <2> HIDE DEF l
  <2>5. l \in Linkage /\ \A r \in Roots : l.parent[r] = Null
    BY <1>1, <2>1, <2>2, <2>3, <2>4, LinkageIs DEF c
  <2>6. Linking(l, tree)
    BY <1>1, <2>5 DEF Linking
  <2> QED BY <2>1, <2>6, AddsLinking
<1>4. ASSUME NEW n \in Nodes, NEW root \in Roots, NodeMove(n, root) PROVE LinksInv'
  <2>1. n \in Nodes \ Roots
    BY <1>4 DEF NodeMove
  <2>2. CASE DelFate(n) = "ok" /\ TreeAdd(Unlinked(link, n), n, root)
    <3>1. Unlinked(link, n) \in Linkage /\ Unlinked(link, n).parent = link.parent
      BY <1>1, <2>2, UnlinkedLinkage
    <3>2. Linking(Unlinked(link, n), tree)
      BY <1>1, <3>1 DEF Linking
    <3> QED BY <2>1, <2>2, <3>2, AddsLinking
  <2>3. CASE UNCHANGED <<link, tree>>
    BY <2>3 DEF LinksInv
  <2> QED BY <1>4, <2>2, <2>3 DEF NodeMove
<1>5. ASSUME NEW n \in Nodes, Del(n) PROVE LinksInv'
  <2>1. CASE UNCHANGED <<link, tree>>
    BY <2>1 DEF LinksInv
  <2>2. CASE /\ link.parent[n] # Null /\ DelFate(n) = "ok"
             /\ link' = Unlinked(link, n) /\ tree' = [tree EXCEPT ![n] = Null]
    <3>1. link' \in Linkage /\ link'.parent = link.parent
      BY <1>1, <2>2, UnlinkedLinkage
    <3>2. n \notin Roots
      BY <1>1, <2>2
    <3>3. tree' \in [Nodes -> Roots \cup {Null}] /\ \A r \in Roots : tree'[r] = r
      BY <1>1, <2>2, <3>2
    <3> QED BY <1>1, <3>1, <3>3 DEF LinksInv, Linking
  <2> QED BY <1>5, <2>1, <2>2 DEF Del
<1>6. CASE UNCHANGED vars
  BY <1>6 DEF vars, LinksInv
<1> QED BY <1>2, <1>3, <1>4, <1>5, <1>6 DEF Next

LEMMA InitLinks == Init => LinksInv
BY NodeAssumption DEF Init, Alone, LinksInv, Linking, Linkage

LEMMA SoundShape ==
  ASSUME LinksInv, Sound
  PROVE  Forest(Tidy(link, tree), tree, BelowIn(link, tree))
<1>1. Linking(link, tree)
  BY DEF LinksInv
<1>2. ReachedIn(link, tree)
  BY DEF Sound, Reached, ReachedIn, Below
<1>3. InOrderIn(link, tree) /\ ParentsIn(link, tree)
  BY DEF Sound, InOrder, InOrderIn, ParentsKnown, ParentsIn, InTrees, InTreesOf, Below
<1> QED BY <1>1, <1>2, <1>3, SoundTidy

(* Where stree_del does what its name says, whatever was deleted before:    *)
(* from a sound tree it takes a left child without a left child, or a right *)
(* child with one, and leaves the tree with every other node and in order   *)
(* (stree.c:58-92).                                                         *)
THEOREM DeletesKeepTheRest == Spec => DeletesWhereItCan
<1>1. LinksInv /\ [Next]_vars => [Removes]_vars
  <2> SUFFICES ASSUME LinksInv, Next, call' # call, call'[1] = "del", Removable(call'[2]), Sound
               PROVE  answer' = 0 /\ Reached' /\ InOrder'
    BY DEF Removes
  <2>1. ASSUME NEW root \in Roots, NEW key \in Sought, Search(root, key) PROVE FALSE
    <3>1. call' = <<"search", key, root>>
      BY <2>1 DEF Search
    <3> QED BY <3>1
  <2>2. ASSUME NEW n \in Nodes, NEW root \in Roots, Add(n, root) PROVE FALSE
    <3>1. call' = <<"add", n, root>>
      BY <2>2 DEF Add
    <3> QED BY <3>1
  <2>3. ASSUME NEW n \in Nodes, NEW root \in Roots, NodeMove(n, root) PROVE FALSE
    <3>1. call' = <<"move", n, root>>
      BY <2>3 DEF NodeMove
    <3> QED BY <3>1
  <2>4. ASSUME NEW n \in Nodes, Del(n) PROVE answer' = 0 /\ Reached' /\ InOrder'
    <3> DEFINE l == link
               t == tree
               p == link.parent[n]
               D == BelowIn(link, tree)
    <3>1. call' = <<"del", n, tree[n]>> /\ tree[n] # Null
      BY <2>4 DEF Del
    <3>2. Removable(n) /\ n \in InTreesOf(t)
      <4>1. call'[2] = n
        BY <3>1
      <4> QED BY <3>1, <4>1 DEF InTreesOf
    <3>3. Linking(l, t) /\ Forest(Tidy(l, t), t, D)
      BY SoundShape DEF LinksInv
    <3>4. p # Null /\ ((l.lh[p] = n /\ l.lh[n] = Null) \/ (l.rh[p] = n /\ l.lh[n] # Null))
      BY <3>2 DEF Removable
    <3>5. DelFate(n) = "ok"
      <4>1. CASE l.lh[n] = Null
        BY <4>1 DEF DelFate
      <4>2. CASE l.lh[n] # Null
        <5> HIDE DEF D
        <5>1. l.rh[p] = n
          BY <3>4, <4>2
        <5>2. Heir(l, n) \in D[l.lh[n]] /\ (Heir(l, n) # l.lh[n] => l.parent[Heir(l, n)] \in D[l.lh[n]])
          BY <3>2, <3>3, <3>4, <4>2, <5>1, HeirFacts
        <5>3. l.lh[n] \in InTreesOf(t) /\ l \in Linkage
          BY <3>2, <3>3, <4>2, TreeFacts DEF Linking
        <5>4. D[l.lh[n]] \subseteq InTreesOf(t) /\ Null \notin InTreesOf(t)
          BY <3>3, <5>3, TreeFacts
        <5> QED BY <5>2, <5>4 DEF DelFate
      <4> QED BY <4>1, <4>2
    <3>6. answer' = 0 /\ link' = Unlinked(l, n) /\ tree' = [t EXCEPT ![n] = Null]
      BY <2>4, <3>4, <3>5 DEF Del
    <3> HIDE DEF D
    <3>7. ReachedIn(link', tree') /\ InOrderIn(link', tree')
      <4>1. CASE l.lh[n] = Null
        <5>1. Unlinked(l, n) = [l EXCEPT !.lh[l.parent[n]] = l.rh[n]]
          BY <3>4, <4>1 DEF Unlinked
        <5>2. l.parent[n] # Null /\ l.lh[l.parent[n]] = n
          BY <3>4, <4>1
        <5>3. /\ ReachedIn([l EXCEPT !.lh[l.parent[n]] = l.rh[n]], [t EXCEPT ![n] = Null])
              /\ InOrderIn([l EXCEPT !.lh[l.parent[n]] = l.rh[n]], [t EXCEPT ![n] = Null])
          BY <3>2, <3>3, <4>1, <5>2, DelLeft
        <5>4. tree' = [t EXCEPT ![n] = Null] /\ link' = [l EXCEPT !.lh[l.parent[n]] = l.rh[n]]
          BY <3>6, <5>1
        <5> QED BY <5>3, <5>4, Zenon
      <4>2. CASE l.lh[n] # Null
        <5>1. l.parent[n] # Null /\ l.rh[l.parent[n]] = n
          BY <3>4, <4>2
        <5>2. ReachedIn(Unlinked(l, n), [t EXCEPT ![n] = Null])
              /\ InOrderIn(Unlinked(l, n), [t EXCEPT ![n] = Null])
          BY <3>2, <3>3, <4>2, <5>1, DelRight
        <5> QED BY <3>6, <5>2
      <4> QED BY <4>1, <4>2
    <3>8. Reached'
      BY <3>7 DEF Reached, ReachedIn, Below
    <3>9. InOrder'
      BY <3>7 DEF InOrder, InOrderIn, InTrees, InTreesOf, Below
    <3> QED BY <3>6, <3>8, <3>9
  <2> QED BY <2>1, <2>2, <2>3, <2>4 DEF Next
<1> QED BY <1>1, InitLinks, LinksHold, PTL DEF Spec, DeletesWhereItCan
-----------------------------------------------------------------------------
(* Moving a leaf: what the walk of stree_add does not see of a deleted node.*)
LEMMA AddsAtTidy ==
  ASSUME NEW l, NEW t, NEW D, l \in Linkage, Forest(Tidy(l, t), t, D),
         NEW root \in Roots, NEW key
  PROVE  AddsAt(l, root, key) = AddsAt(Tidy(l, t), root, key)
<1> DEFINE k == Tidy(l, t)
           T == InTreesOf(t)
           f == CHOOSE g : IsWay(g, l, root, key, Max)
           e == CHOOSE g : IsWay(g, k, root, key, Max)
           stops == {j \in 0..Max : /\ f[j] # Null
                                    /\ Key[f[j]] = key \/ ChildFor(l, f[j], key) = Null}
           ends == {j \in 0..Max : /\ e[j] # Null
                                   /\ Key[e[j]] = key \/ ChildFor(k, e[j], key) = Null}
<1>1. /\ AddsAt(l, root, key) = IF stops = {} THEN Null ELSE f[First(stops)]
      /\ AddsAt(k, root, key) = IF ends = {} THEN Null ELSE e[First(ends)]
  BY DEF AddsAt, Walk, IsWay
<1>2. IsWay(f, l, root, key, Max) /\ IsWay(e, k, root, key, Max)
  BY MaxNat, WayExists
<1> HIDE DEF f, e
<1>3. root \in T
  BY NodeAssumption DEF Forest, Shape, InTreesOf
<1>4. ASSUME NEW x \in T
      PROVE  ChildFor(l, x, key) = ChildFor(k, x, key) /\ ChildFor(l, x, key) \in T \cup {Null}
  <2>1. x \in Nodes /\ t[x] # Null /\ l.lh[x] \in T \cup {Null} /\ l.rh[x] \in T \cup {Null}
    BY TreeFacts DEF InTreesOf
  <2>2. k.lh[x] = l.lh[x] /\ k.rh[x] = l.rh[x]
    BY <2>1, TidyIs DEF Forest
  <2> HIDE DEF k, T
  <2> QED BY <2>1, <2>2 DEF ChildFor
<1> HIDE DEF k, T
<1> DEFINE S == {j \in Nat : j <= Max => e[j] = f[j] /\ f[j] \in T \cup {Null}}
<1>5. 0 \in S
  BY <1>2, <1>3, MaxNat DEF IsWay
<1>6. ASSUME NEW j \in Nat, j \in S PROVE j + 1 \in S
  <2> SUFFICES ASSUME j + 1 <= Max PROVE e[j + 1] = f[j + 1] /\ f[j + 1] \in T \cup {Null}
    OBVIOUS
  <2>1. /\ j + 1 \in 0..Max /\ j + 1 # 0 /\ (j + 1) - 1 = j
        /\ e[j] = f[j] /\ f[j] \in T \cup {Null}
    BY <1>6, MaxNat
  <2>2. /\ f[j + 1] = IF f[j] = Null THEN Null ELSE ChildFor(l, f[j], key)
        /\ e[j + 1] = IF e[j] = Null THEN Null ELSE ChildFor(k, e[j], key)
    BY <1>2, <2>1 DEF IsWay
  <2> QED BY <1>4, <2>1, <2>2
<1> HIDE DEF S
<1>7. \A j \in 0..Max : e[j] = f[j] /\ f[j] \in T \cup {Null}
  <2>1. Nat \subseteq S
    BY <1>5, <1>6, Induct
  <2>2. \A j \in 0..Max : j \in Nat /\ j <= Max
    BY MaxNat
  <2> QED BY <2>1, <2>2 DEF S
<1>8. stops = ends
  <2>1. \A j \in 0..Max : f[j] # Null => ChildFor(l, f[j], key) = ChildFor(k, e[j], key)
    BY <1>4, <1>7
  <2> QED BY <1>7, <2>1
<1>9. stops # {} => First(stops) \in 0..Max
  <2>1. stops \in SUBSET Nat /\ stops \subseteq 0..Max
    BY MaxNat
  <2> HIDE DEF stops, ends
  <2> QED BY <2>1, LeastNat DEF First
<1> HIDE DEF stops, ends
<1> QED BY <1>1, <1>7, <1>8, <1>9 DEF k

LEMMA LinkedIs ==
  ASSUME NEW l \in Linkage, NEW n \in Nodes, NEW at \in Nodes
  PROVE  \A x \in Nodes :
           /\ Linked(l, n, at).lh[x] = IF x = at /\ ~(Key[n] > Key[at]) THEN n ELSE l.lh[x]
           /\ Linked(l, n, at).rh[x] = IF x = at /\ Key[n] > Key[at] THEN n ELSE l.rh[x]
           /\ Linked(l, n, at).parent[x] = IF x = n THEN at ELSE l.parent[x]
<1> DEFINE right == Key[n] > Key[at]
           l2 == Linked(l, n, at)
<1>1. /\ l.lh \in [Nodes -> Places] /\ l.rh \in [Nodes -> Places] /\ l.parent \in [Nodes -> Places]
      /\ l \in Linkage
  BY LinkageIs
<1>2. CASE right
  <2>1. l2 = [l EXCEPT !.rh[at] = n, !.parent[n] = at]
    BY <1>2 DEF Linked
  <2> HIDE DEF right, l2
  <2>2. \A x \in Nodes : /\ l2.lh[x] = l.lh[x]
                         /\ l2.rh[x] = IF x = at THEN n ELSE l.rh[x]
                         /\ l2.parent[x] = IF x = n THEN at ELSE l.parent[x]
    BY <1>1, <2>1 DEF Linkage, Places
  <2> QED BY <1>2, <2>2 DEF right, l2
<1>3. CASE ~right
  <2>1. l2 = [l EXCEPT !.lh[at] = n, !.parent[n] = at]
    BY <1>3 DEF Linked
  <2> HIDE DEF right, l2
  <2>2. \A x \in Nodes : /\ l2.lh[x] = IF x = at THEN n ELSE l.lh[x]
                         /\ l2.rh[x] = l.rh[x]
                         /\ l2.parent[x] = IF x = n THEN at ELSE l.parent[x]
    BY <1>1, <2>1 DEF Linkage, Places
  <2> QED BY <1>3, <2>2 DEF right, l2
<1> QED BY <1>2, <1>3

(* The keys of a tree when the walk for one has ended.                      *)
LEMMA KeyThere ==
  ASSUME NEW l, NEW t, NEW D, Forest(l, t, D), NEW root \in Roots, NEW key \in Int,
         NEW at \in Nodes, OnWay(l, D, root, key, at), Key[at] # key, ChildFor(l, at, key) = Null
  PROVE  \A m \in D[root] : Key[m] # key
<1> SUFFICES ASSUME NEW m \in D[root], Key[m] = key PROVE FALSE
  OBVIOUS
<1>1. m \in D[at] /\ m # at
  BY DEF OnWay
<1>2. m \in D[l.lh[at]] \/ m \in D[l.rh[at]]
  BY <1>1 DEF Forest, Shape
<1>3. /\ m \in D[l.lh[at]] => key < Key[at]
      /\ m \in D[l.rh[at]] => key > Key[at]
  BY DEF Forest, Shape
<1>4. Key[at] \in Int /\ D[Null] = {}
  BY NodeAssumption DEF Forest
<1> QED BY <1>2, <1>3, <1>4 DEF ChildFor

(* Without the leaf its tree is as sound as it was.                         *)
LEMMA LeafGone ==
  ASSUME NEW l, NEW t, NEW D, Linking(l, t), Forest(Tidy(l, t), t, D),
         NEW n \in InTreesOf(t), l.parent[n] # Null, l.lh[l.parent[n]] = n,
         l.lh[n] = Null, l.rh[n] = Null
  PROVE  LET l1 == [l EXCEPT !.lh[l.parent[n]] = Null]
             t1 == [t EXCEPT ![n] = Null]
         IN  /\ Linking(l1, t1) /\ Forest(Tidy(l1, t1), t1, BelowIn(l1, t1))
             /\ l1.lh[n] = Null /\ l1.rh[n] = Null
<1> DEFINE p == l.parent[n]
           l1 == [l EXCEPT !.lh[p] = Null]
           t1 == [t EXCEPT ![n] = Null]
<1>1. /\ l \in Linkage /\ t \in [Nodes -> Roots \cup {Null}] /\ n \in Nodes /\ n \in InTreesOf(t)
      /\ \A r \in Roots : t[r] = r /\ l.parent[r] = Null
  BY DEF Linking, InTreesOf
<1>2. ReachedIn(l1, t1) /\ InOrderIn(l1, t1)
  BY DelLeft
<1>3. ParentsIn(l, t) /\ Null \notin Nodes
  BY <1>1, TidySound, NodeAssumption
<1>4. /\ l.lh \in [Nodes -> Places] /\ l.rh \in [Nodes -> Places] /\ l.parent \in [Nodes -> Places]
      /\ l = [lh |-> l.lh, rh |-> l.rh, parent |-> l.parent] /\ Null \in Places
  BY <1>1, LinkageIs DEF Places
<1> HIDE DEF p
<1>5. l1 = [lh |-> [l.lh EXCEPT ![p] = Null], rh |-> l.rh, parent |-> l.parent]
  <2>1. l1 = [l EXCEPT !.lh[p] = Null]
    OBVIOUS
  <2> HIDE DEF l1
  <2> QED BY <1>4, <2>1, RecordSet
<1> HIDE DEF l1
<1>6. [l.lh EXCEPT ![p] = Null] \in [Nodes -> Places]
  BY <1>4, SetIn
<1>7. l1 \in Linkage /\ l1.parent = l.parent /\ l1.rh = l.rh
      /\ \A x \in Nodes : l1.lh[x] = IF x = p THEN Null ELSE l.lh[x]
  BY <1>4, <1>5, <1>6, LinkageIs
<1>8. n \notin Roots
  BY <1>1
<1>9. Linking(l1, t1)
  BY <1>1, <1>7, <1>8 DEF Linking
<1>10. ParentsIn(l1, t1)
  <2> SUFFICES ASSUME NEW x \in InTreesOf(t1), NEW m \in Nodes, l1.lh[x] = m \/ l1.rh[x] = m
               PROVE  l1.parent[m] = x
    BY DEF ParentsIn
  <2>1. x \in Nodes /\ x \in InTreesOf(t)
    BY <1>1 DEF InTreesOf
  <2>2. l.lh[x] = m \/ l.rh[x] = m
    BY <1>3, <1>7, <2>1
  <2> QED BY <1>3, <1>7, <2>1, <2>2 DEF ParentsIn
<1>11. l1.lh[n] = Null /\ l1.rh[n] = Null
  BY <1>1, <1>7
<1> HIDE DEF t1
<1>12. Forest(Tidy(l1, t1), t1, BelowIn(l1, t1))
  BY <1>2, <1>9, <1>10, SoundTidy
<1> QED BY <1>9, <1>11, <1>12 DEF l1, t1, p

(* Adding a node without children under a sound tree, with the links other  *)
(* deleted nodes have left as they are.                                     *)
LEMMA LeafAdded ==
  ASSUME NEW l, NEW t, NEW D, Linking(l, t), Forest(Tidy(l, t), t, D),
         NEW n \in Nodes, t[n] = Null, l.lh[n] = Null, l.rh[n] = Null,
         NEW root \in Roots, NEW at \in Nodes, OnWay(Tidy(l, t), D, root, Key[n], at),
         Key[at] # Key[n], ChildFor(Tidy(l, t), at, Key[n]) = Null
  PROVE  LET l2 == Linked(l, n, at)
             t2 == [t EXCEPT ![n] = root]
         IN  l2 \in Linkage /\ \E E : Forest(Tidy(l2, t2), t2, E)
<1> DEFINE k == Tidy(l, t)
           l2 == Linked(l, n, at)
           k2 == Linked(k, n, at)
           t2 == [t EXCEPT ![n] = root]
<1>1. /\ l \in Linkage /\ t \in [Nodes -> Roots \cup {Null}] /\ k \in Linkage
      /\ root # Null /\ l2 \in Linkage /\ k2 \in Linkage
  BY TidyIs, LinkedLinkage, NodeAssumption DEF Linking
<1>2. t[at] # Null
  <2>1. at \in D[root] /\ root \in Nodes /\ t[root] = root
    BY NodeAssumption DEF OnWay, Linking
  <2>2. t[at] = t[root]
    BY <2>1 DEF Forest, Shape
  <2> QED BY <1>1, <2>1, <2>2
<1>3. Forest(k2, t2, Grown(D, n, at))
  BY Grows
<1>4. t2 \in [Nodes -> Roots \cup {Null}] /\ \A x \in Nodes : t2[x] = IF x = n THEN root ELSE t[x]
  BY <1>1
<1> DEFINE k3 == Tidy(l2, t2)
<1>5. \A x \in Nodes :
         /\ k.lh[x] = IF t[x] = Null THEN Null ELSE l.lh[x]
         /\ k.rh[x] = IF t[x] = Null THEN Null ELSE l.rh[x]
         /\ k.parent[x] = IF t[x] = Null THEN Null ELSE l.parent[x]
  BY <1>1, TidyIs
<1>6. \A x \in Nodes :
         /\ k3.lh[x] = IF t2[x] = Null THEN Null ELSE l2.lh[x]
         /\ k3.rh[x] = IF t2[x] = Null THEN Null ELSE l2.rh[x]
         /\ k3.parent[x] = IF t2[x] = Null THEN Null ELSE l2.parent[x]
  <2> HIDE DEF l2, t2, k
  <2> QED BY <1>1, <1>4, TidyIs
<1>7. \A x \in Nodes :
         /\ l2.lh[x] = IF x = at /\ ~(Key[n] > Key[at]) THEN n ELSE l.lh[x]
         /\ l2.rh[x] = IF x = at /\ Key[n] > Key[at] THEN n ELSE l.rh[x]
         /\ l2.parent[x] = IF x = n THEN at ELSE l.parent[x]
  BY <1>1, LinkedIs
<1>8. \A x \in Nodes :
         /\ k2.lh[x] = IF x = at /\ ~(Key[n] > Key[at]) THEN n ELSE k.lh[x]
         /\ k2.rh[x] = IF x = at /\ Key[n] > Key[at] THEN n ELSE k.rh[x]
         /\ k2.parent[x] = IF x = n THEN at ELSE k.parent[x]
  BY <1>1, LinkedIs
<1> HIDE DEF k2, k
<1>9. k3 \in Linkage
  <2> HIDE DEF l2, t2
  <2> QED BY <1>1, <1>4, TidyIs
<1> HIDE DEF k3, l2, t2
<1>10. \A x \in Nodes : k3.lh[x] = k2.lh[x] /\ k3.rh[x] = k2.rh[x] /\ k3.parent[x] = k2.parent[x]
  <2> SUFFICES ASSUME NEW x \in Nodes
               PROVE  k3.lh[x] = k2.lh[x] /\ k3.rh[x] = k2.rh[x] /\ k3.parent[x] = k2.parent[x]
    OBVIOUS
  <2>1. CASE x = n
    BY <1>1, <1>2, <1>4, <1>5, <1>6, <1>7, <1>8, <2>1
  <2>2. CASE x # n
    BY <1>2, <1>4, <1>5, <1>6, <1>7, <1>8, <2>2
  <2> QED BY <2>1, <2>2
<1>11. k3 = k2
  <2>1. /\ k3 = [lh |-> k3.lh, rh |-> k3.rh, parent |-> k3.parent]
        /\ k2 = [lh |-> k2.lh, rh |-> k2.rh, parent |-> k2.parent]
        /\ k3.lh \in [Nodes -> Places] /\ k3.rh \in [Nodes -> Places]
        /\ k3.parent \in [Nodes -> Places]
        /\ k2.lh \in [Nodes -> Places] /\ k2.rh \in [Nodes -> Places]
        /\ k2.parent \in [Nodes -> Places]
    BY <1>1, <1>9, LinkageIs
  <2>2. k3.lh = k2.lh
    BY <1>10, <2>1
  <2>3. k3.rh = k2.rh
    BY <1>10, <2>1
  <2>4. k3.parent = k2.parent
    BY <1>10, <2>1
  <2> QED BY <2>1, <2>2, <2>3, <2>4
<1>12. Forest(k3, t2, Grown(D, n, at))
  BY <1>3, <1>11
<1> QED BY <1>1, <1>12 DEF k3, l2, t2

LEMMA SoundAgain ==
  ASSUME LinksInv', \E D : Forest(Tidy(link', tree'), tree', D)
  PROVE  Sound'
<1>1. link' \in Linkage
  BY DEF LinksInv, Linking
<1>2. ReachedIn(link', tree') /\ InOrderIn(link', tree') /\ ParentsIn(link', tree')
  BY <1>1, TidySound
<1>3. Reached'
  BY <1>2 DEF Reached, ReachedIn, Below
<1>4. InOrder'
  BY <1>2 DEF InOrder, InOrderIn, InTrees, InTreesOf, Below
<1>5. ParentsKnown'
  BY <1>2 DEF ParentsKnown, ParentsIn, InTrees, InTreesOf
<1> QED BY <1>3, <1>4, <1>5 DEF Sound

(* node_move of a leaf on the left leaves both trees sound, parents         *)
(* included, and puts the node into the other one exactly when that does    *)
(* not have its key (stree.c:94-103).                                       *)
THEOREM LeavesMoveSoundly == Spec => MovesLeaves
<1>1. LinksInv /\ LinksInv' /\ [Next]_vars => [Moves]_vars
  <2> SUFFICES ASSUME LinksInv, LinksInv', Next, call' # call, call'[1] = "move",
                      Leaf(call'[2]), Removable(call'[2]), Sound
               PROVE  Sound' /\ (answer' = 0 <=> Key[call'[2]] \notin KeysOf(call'[3]))
    BY DEF Moves
  <2>1. ASSUME NEW root \in Roots, NEW key \in Sought, Search(root, key) PROVE FALSE
    <3>1. call' = <<"search", key, root>>
      BY <2>1 DEF Search
    <3> QED BY <3>1
  <2>2. ASSUME NEW n \in Nodes, NEW root \in Roots, Add(n, root) PROVE FALSE
    <3>1. call' = <<"add", n, root>>
      BY <2>2 DEF Add
    <3> QED BY <3>1
  <2>3. ASSUME NEW n \in Nodes, NEW root \in Roots, NodeMove(n, root)
        PROVE  Sound' /\ (answer' = 0 <=> Key[call'[2]] \notin KeysOf(call'[3]))
    <3> DEFINE l == link
               t == tree
               p == link.parent[n]
               D == BelowIn(link, tree)
               l1 == [l EXCEPT !.lh[l.parent[n]] = Null]
               t1 == [t EXCEPT ![n] = Null]
               D1 == BelowIn(l1, t1)
               at == AddsAt(l1, root, Key[n])
    <3>1. /\ call' = <<"move", n, root>> /\ tree[n] # Null /\ tree[n] # root /\ Key[n] \in Int
          /\ root # Null /\ root \in Nodes /\ Null \notin Nodes
      BY <2>3, NodeAssumption DEF NodeMove
    <3>2. n \in InTreesOf(t) /\ l.lh[n] = Null /\ l.rh[n] = Null /\ p # Null /\ l.lh[p] = n
      <4>1. call'[2] = n
        BY <3>1
      <4> QED BY <3>1, <4>1 DEF InTreesOf, Leaf, Removable
    <3>3. Linking(l, t) /\ Forest(Tidy(l, t), t, D)
      BY SoundShape DEF LinksInv
    <3> HIDE DEF D
    <3>4. /\ Linking(l1, t1) /\ Forest(Tidy(l1, t1), t1, D1)
          /\ l1.lh[n] = Null /\ l1.rh[n] = Null
      BY <3>2, <3>3, LeafGone
    <3>5. Unlinked(l, n) = l1
      BY <3>2 DEF Unlinked
    <3>6. TreeAdd(l1, n, root)
      <4>1. DelFate(n) = "ok"
        BY <3>2 DEF DelFate
      <4>2. TreeAdd(Unlinked(l, n), n, root)
        BY <2>3, <4>1 DEF NodeMove
      <4> QED BY <3>5, <4>2
    <3>7. D1[root] = Below(root)
      <4>1. t \in [Nodes -> Roots \cup {Null}] /\ t[root] = root
        BY <3>3 DEF Linking
      <4>2. D1[root] = {x \in Nodes : t1[x] = root}
        BY <3>4 DEF Forest, Shape
      <4>3. {x \in Nodes : t1[x] = root} = {x \in Nodes : t[x] = root}
        BY <3>1, <4>1
      <4>4. Below(root) = {x \in Nodes : t[x] = root}
        BY DEF Sound, Reached
      <4> QED BY <4>2, <4>3, <4>4
    <3>8. t1[n] = Null /\ [t1 EXCEPT ![n] = root] = [t EXCEPT ![n] = root] /\ l1 \in Linkage
      BY <3>3, <3>4 DEF Linking
    <3> HIDE DEF l1, t1, D1
    <3>9. at = AddsAt(Tidy(l1, t1), root, Key[n])
      BY <3>4, <3>8, AddsAtTidy
    <3>10. /\ OnWay(Tidy(l1, t1), D1, root, Key[n], at) /\ at \in Nodes
           /\ Key[at] = Key[n] \/ ChildFor(Tidy(l1, t1), at, Key[n]) = Null
      BY <3>1, <3>4, <3>9, AddsWhere
    <3>11. /\ Key[at] = Key[n] => link' = l1 /\ answer' = -1 /\ tree' = [t EXCEPT ![n] = Null]
           /\ Key[at] # Key[n] => link' = Linked(l1, n, at) /\ answer' = 0
                                  /\ tree' = [t EXCEPT ![n] = root]
      <4>1. /\ IF at = Null \/ Key[at] = Key[n] THEN link' = l1 /\ answer' = -1
                ELSE link' = Linked(l1, n, at) /\ answer' = 0
            /\ tree' = [t EXCEPT ![n] = IF answer' = 0 THEN root ELSE Null]
        BY <3>6 DEF TreeAdd
      <4>2. at # Null
        BY <3>1, <3>10
      <4> HIDE DEF at
      <4>3. CASE Key[at] = Key[n]
        <5>1. link' = l1 /\ answer' = -1
          BY <4>1, <4>3
        <5> QED BY <4>1, <4>3, <5>1
      <4>4. CASE Key[at] # Key[n]
        <5>1. link' = Linked(l1, n, at) /\ answer' = 0
          BY <4>1, <4>2, <4>4
        <5> QED BY <4>1, <4>4, <5>1
      <4> QED BY <4>3, <4>4
    <3> HIDE DEF at
    <3>12. KeysOf(root) = {Key[m] : m \in D1[root]}
      BY <3>7 DEF KeysOf
    <3>13. Sound' /\ (answer' = 0 <=> Key[n] \notin {Key[m] : m \in D1[root]})
      <4>1. CASE Key[at] = Key[n]
        <5>1. link' = l1 /\ tree' = t1 /\ answer' = -1
          BY <3>11, <4>1 DEF t1
        <5>2. Forest(Tidy(link', tree'), tree', D1)
          BY <3>4, <5>1
        <5>3. at \in D1[root]
          BY <3>10 DEF OnWay
        <5> QED BY <4>1, <5>1, <5>2, <5>3, SoundAgain
      <4>2. CASE Key[at] # Key[n]
        <5>1. link' = Linked(l1, n, at) /\ tree' = [t1 EXCEPT ![n] = root] /\ answer' = 0
          BY <3>8, <3>11, <4>2
        <5>2. ChildFor(Tidy(l1, t1), at, Key[n]) = Null
          BY <3>10, <4>2
        <5>3. \E E : Forest(Tidy(Linked(l1, n, at), [t1 EXCEPT ![n] = root]),
                            [t1 EXCEPT ![n] = root], E)
          BY <3>4, <3>8, <3>10, <4>2, <5>2, LeafAdded
        <5>4. Sound'
          BY <5>1, <5>3, SoundAgain
        <5>5. \A m \in D1[root] : Key[m] # Key[n]
          BY <3>1, <3>4, <3>10, <4>2, <5>2, KeyThere
        <5> QED BY <5>1, <5>4, <5>5
      <4> QED BY <4>1, <4>2
    <3>14. call'[2] = n /\ call'[3] = root
      BY <3>1
    <3> QED BY <3>12, <3>13, <3>14
  <2>4. ASSUME NEW n \in Nodes, Del(n) PROVE FALSE
    <3>1. call' = <<"del", n, tree[n]>>
      BY <2>4 DEF Del
    <3> QED BY <3>1
  <2> QED BY <2>1, <2>2, <2>3, <2>4 DEF Next
<1> QED BY <1>1, InitLinks, LinksHold, PTL DEF Spec, MovesLeaves
=============================================================================
