---------------------------- MODULE DriverProofs ----------------------------
(***************************************************************************)
(* Proofs about the driver layer for any drivers, names, calls and sizes   *)
(* with no more drivers than slots: its tables agree, device_open never    *)
(* writes in front of its table, and descriptors are stable.               *)
(***************************************************************************)
EXTENDS DriverProps, FiniteSetTheorems, TLAPS

-----------------------------------------------------------------------------
(* The least and the greatest member exist, so the CHOOSE of SetMin and     *)
(* SetMax are them.                                                         *)
LEMMA SetMinIn ==
  ASSUME NEW S \in SUBSET Nat, S # {}
  PROVE  SetMin(S) \in S /\ \A y \in S : SetMin(S) <= y
<1>1. PICK x \in S : \A y \in S : ~(<<y, x>> \in OpToRel(<, Nat))
  BY NatLessThanWellFounded, WFMin
<1>2. ASSUME NEW y \in S PROVE x <= y
  <2>1. x \in Nat /\ y \in Nat
    OBVIOUS
  <2>2. y < x => <<y, x>> \in OpToRel(<, Nat)
    BY <2>1, Zenon DEF OpToRel
  <2>3. ~(y < x)
    BY <1>1, <2>2
  <2> QED BY <2>1, <2>3
<1> QED BY <1>2 DEF SetMin

LEMMA SetMaxIn ==
  ASSUME NEW n \in Nat, NEW S \in SUBSET (0..n), S # {}
  PROVE  SetMax(S) \in S /\ \A y \in S : SetMax(S) >= y
<1> DEFINE T == {n - x : x \in S}
<1>0. \A x \in S : x \in Nat /\ x <= n
  OBVIOUS
<1>1. T \in SUBSET Nat /\ T # {}
  <2>1. \A x \in S : n - x \in Nat
    BY <1>0
  <2>2. PICK x \in S : TRUE
    OBVIOUS
  <2> QED BY <2>1, <2>2
<1>2. PICK t \in T : \A u \in T : t <= u
  BY <1>1, SetMinIn
<1>3. PICK x \in S : t = n - x
  BY <1>2
<1>4. \A y \in S : x >= y
  BY <1>0, <1>2, <1>3
<1> QED BY <1>3, <1>4 DEF SetMax

-----------------------------------------------------------------------------
LEMMA Basics ==
  /\ Boards = 0..MaxBoard-1 /\ MaxBoard \in Nat \ {0}
  /\ Slots = 0..MaxDev-1 /\ MaxDev \in Nat \ {0}
  /\ Devices = 1..Len(Drivers) /\ Len(Drivers) \in Nat /\ Len(Drivers) <= MaxDev
  /\ Null \notin Devices
  /\ IsFiniteSet(Devices) /\ Cardinality(Devices) = Len(Drivers)
<1>1. Drivers \in Seq(Names)
  BY NameAssumption
<1>2. Devices = 1..Len(Drivers) /\ Len(Drivers) \in Nat
  BY <1>1 DEF Devices
<1>3. IsFiniteSet(Devices) /\ Cardinality(Devices) = Len(Drivers)
  <2>1. 1 \in Int /\ Len(Drivers) \in Int
    BY <1>2
  <2>2. /\ IsFiniteSet(1..Len(Drivers))
        /\ Cardinality(1..Len(Drivers)) = IF 1 > Len(Drivers) THEN 0 ELSE Len(Drivers) - 1 + 1
    BY <2>1, FS_Interval, Zenon
  <2> QED BY <1>2, <2>2
<1> QED BY <1>2, <1>3, SizeAssumption DEF Boards, Slots, Null

(* The listed devices of a board are devices; there are no more of them     *)
(* than slots, so the first devs slots are slots of the table.              *)
LEMMA ListedBound ==
  ASSUME RegistryTypes, NEW b \in Boards
  PROVE  /\ Listed(b) \subseteq Devices
         /\ IsFiniteSet(Listed(b))
         /\ CountAgrees(b) => devs[b] <= MaxDev
<1>1. Listed(b) \subseteq Devices
  BY DEF Listed, Members, RegistryTypes
<1>2. IsFiniteSet(Listed(b)) /\ Cardinality(Listed(b)) <= Len(Drivers)
  BY <1>1, Basics, FS_Subset
<1> QED BY <1>1, <1>2, Basics, FS_CardinalityType DEF CountAgrees

-----------------------------------------------------------------------------
(* When device_open finds a device in the class list, its search loop has   *)
(* left an empty slot: if all were taken, each by another listed device,    *)
(* the device would be in one of them and the loop would have stopped.      *)
LEMMA FoundNeedsEmptySlot ==
  ASSUME RegistryTypes, TablesAgree,
         NEW b \in Boards, NEW c \in Classes, NEW name, NEW g,
         Hits(b, name, g) = {}, FoundAt(b, c, name) # {}
  PROVE  EmptySlots(b) # {}
<1> SUFFICES ASSUME EmptySlots(b) = {} PROVE FALSE
  OBVIOUS
<1>1. devs[b] \in Nat /\ devs[b] <= MaxDev /\ devs[b] = Cardinality(Listed(b))
  BY ListedBound DEF TablesAgree, CountAgrees, RegistryTypes
<1> DEFINE D == 0..devs[b]-1
           f == [s \in D |-> open[b][s]]
<1>2. D \subseteq Slots
  BY <1>1, Basics
<1>3. \A s \in D : open[b][s] # Null /\ open[b][s] \in Listed(b)
  BY <1>2 DEF EmptySlots, TablesAgree, OpenAgrees
<1>4. f \in Injection(D, Listed(b))
  <2>1. f \in [D -> Listed(b)]
    BY <1>3
  <2>2. \A s, t \in D : open[b][s] = open[b][t] => s = t
    BY <1>2, <1>3 DEF TablesAgree, OpenAgrees
  <2> QED BY <2>1, <2>2 DEF Injection, IsInjective
<1>5. Cardinality(D) = Cardinality(Listed(b))
  BY <1>1, FS_Interval
<1>6. f \in Surjection(D, Listed(b))
  BY <1>4, <1>5, ListedBound, FS_Injection
<1>7. PICK k \in DOMAIN list[b][c] : Like(dtype[list[b][c][k]], name)
  BY DEF FoundAt
<1>8. list[b][c][k] \in Listed(b)
  BY <1>7 DEF Listed, Members
<1>9. PICK s \in D : open[b][s] = list[b][c][k]
  BY <1>6, <1>8 DEF Surjection
<1>10. s \in Hits(b, name, g)
  BY <1>3, <1>7, <1>9 DEF Hits
<1> QED BY <1>10

-----------------------------------------------------------------------------
(* What device_open does to the open table, whatever the path and whatever  *)
(* comes of reading a null slot: it leaves every filled slot alone, keeps    *)
(* the table in agreement with the lists, and finds an empty slot whenever   *)
(* it opens a device.                                                        *)
OpenKeeps(o) ==
  /\ o.status = status
  /\ o.open \in [Boards -> [Slots -> Devices \cup {Null}]]
  /\ \A b \in Boards : OpenAgrees(b, o.open)
  /\ \A b \in Boards, s \in Slots : open[b][s] # Null => o.open[b][s] = open[b][s]
  /\ \A b \in Boards : type[b] = NoName => \A s \in Slots : o.open[b][s] = Null

LEMMA OpenSound ==
  ASSUME IInv, NEW path, NEW g
  PROVE  OpenKeeps(OpenWith(path, g))
<1> DEFINE boards == {b \in Boards : Like(type[b], path.board)}
           nb == SetMax(boards)
           at == FoundAt(nb, path.class, path.device)
           nd == SetMax(EmptySlots(nb))
           o == OpenWith(path, g)
<1> HIDE DEF boards, nb, at, nd
<1>1. OpenKeeps([fd |-> 0, open |-> open, status |-> status])
  BY DEF OpenKeeps, IInv, RegistryTypes, TablesAgree, UnusedInv
<1>2. CASE ~(boards # {} /\ Hits(nb, path.device, g) = {}
               /\ path.class \in Classes /\ at # {})
  <2>1. o.open = open /\ o.status = status
    BY <1>2 DEF OpenWith, boards, nb, at
  <2> QED BY <1>1, <2>1 DEF OpenKeeps
<1>3. CASE boards # {} /\ Hits(nb, path.device, g) = {}
             /\ path.class \in Classes /\ at # {}
  <2>1. nb \in boards /\ nb \in Boards
    <3>1. boards \in SUBSET (0..MaxBoard-1) /\ MaxBoard-1 \in Nat
      BY Basics DEF boards
    <3> QED BY <1>3, <3>1, SetMaxIn DEF nb, boards
  <2>2. EmptySlots(nb) # {}
    BY <1>3, <2>1, FoundNeedsEmptySlot DEF at, IInv
  <2>3. devs[nb] \in Nat /\ devs[nb] <= MaxDev
    BY <2>1, ListedBound DEF IInv, TablesAgree, RegistryTypes
  <2>4. nd \in Slots /\ nd < devs[nb] /\ open[nb][nd] = Null
    <3>1. EmptySlots(nb) \in SUBSET (0..MaxDev-1) /\ MaxDev-1 \in Nat
      BY <2>3, Basics DEF EmptySlots
    <3>2. nd \in EmptySlots(nb)
      BY <2>2, <3>1, SetMaxIn DEF nd
    <3> QED BY <3>1, <3>2, <2>3, Basics DEF EmptySlots
  <2> DEFINE e == list[nb][path.class][SetMax(at)]
  <2>5. /\ e \in Devices /\ e \in Listed(nb)
        /\ Like(dtype[e], path.device)
    <3>1. list[nb][path.class] \in Seq(Devices)
      BY <1>3, <2>1 DEF IInv, RegistryTypes
    <3>2. at \in SUBSET (0..Len(list[nb][path.class]))
             /\ Len(list[nb][path.class]) \in Nat
      BY <3>1 DEF at, FoundAt
    <3>3. SetMax(at) \in at
      BY <1>3, <3>2, SetMaxIn
    <3> DEFINE m == SetMax(at)
    <3> HIDE DEF m
    <3>4. m \in DOMAIN list[nb][path.class] /\ Like(dtype[list[nb][path.class][m]], path.device)
      BY <3>3 DEF at, FoundAt, m
    <3>5. e = list[nb][path.class][m]
      BY DEF m
    <3>6. e \in Devices
      BY <3>1, <3>4, <3>5
    <3>7. e \in Members(list[nb][path.class])
      BY <3>4, <3>5 DEF Members
    <3>8. e \in Listed(nb)
      BY <1>3, <3>7 DEF Listed
    <3> QED BY <3>4, <3>5, <3>6, <3>8
  <2> HIDE DEF e
  <2>6. \A s \in Slots : open[nb][s] # e
    <3> SUFFICES ASSUME NEW s \in Slots, open[nb][s] = e PROVE FALSE
      OBVIOUS
    <3>1. e # Null
      BY <2>5, Basics
    <3>2. s \in 0..devs[nb]-1
      BY <2>1, <2>3, <3>1, Basics DEF IInv, TablesAgree, OpenAgrees
    <3> QED BY <1>3, <2>5, <3>1, <3>2 DEF Hits
  <2>7. o.open = [open EXCEPT ![nb][nd] = e] /\ o.status = status
    <3>1. ~(nd < 0)
      BY <2>4, Basics
    <3> QED BY <1>3, <2>2, <3>1 DEF OpenWith, boards, nb, at, nd, e
  <2> DEFINE w == [open EXCEPT ![nb][nd] = e]
  <2>8. open \in [Boards -> [Slots -> Devices \cup {Null}]]
    BY DEF IInv, RegistryTypes
  <2>9. /\ w \in [Boards -> [Slots -> Devices \cup {Null}]]
        /\ w[nb][nd] = e
        /\ \A b \in Boards, s \in Slots :
             ~(b = nb /\ s = nd) => w[b][s] = open[b][s]
    BY <2>1, <2>4, <2>5, <2>8
  <2> HIDE DEF w
  <2>10. ASSUME NEW b \in Boards PROVE OpenAgrees(b, w)
    <3>1. OpenAgrees(b, open)
      BY DEF IInv, TablesAgree
    <3> QED BY <2>1, <2>4, <2>5, <2>6, <2>9, <3>1 DEF OpenAgrees
  <2>11. type[nb] # NoName
    BY <2>1, NameAssumption DEF boards, Like
  <2>12. \A b \in Boards : type[b] = NoName => \A s \in Slots : w[b][s] = Null
    BY <2>9, <2>11 DEF IInv, UnusedInv
  <2>13. o.open = w
    BY <2>7 DEF w
  <2> QED BY <2>4, <2>7, <2>9, <2>10, <2>12, <2>13 DEF OpenKeeps
<1> QED BY <1>2, <1>3

(* An action that changes no more of the registry than the open table, and  *)
(* that as device_open does, keeps the invariant.                           *)
LEMMA OpenPreserves ==
  ASSUME IInv, status = "ok", NEW path, NEW g,
         open' = OpenWith(path, g).open, NeverCorrupt',
         UNCHANGED <<type, flag, devs, list, dtype, dclass>>
  PROVE  IInv' /\ KeepsSlots
<1>1. OpenKeeps(OpenWith(path, g))
  BY OpenSound
<1>2. RegistryTypes'
  BY <1>1 DEF IInv, RegistryTypes, OpenKeeps
<1>3. UnusedInv'
  BY <1>1 DEF IInv, UnusedInv, OpenKeeps
<1>4. ClassInv'
  BY DEF IInv, ClassInv
<1>5. TablesAgree'
  <2>1. \A b \in Boards : Listed(b)' = Listed(b)
    BY DEF Listed, Members
  <2>2. \A b \in Boards : CountAgrees(b)' /\ ListedOnce(b)'
    BY <2>1 DEF IInv, TablesAgree, CountAgrees, ListedOnce
  <2>3. ASSUME NEW b \in Boards PROVE OpenAgrees(b, open)'
    <3>1. OpenAgrees(b, OpenWith(path, g).open)
      BY <1>1 DEF OpenKeeps
    <3> QED BY <2>1, <3>1 DEF OpenAgrees
  <2> QED BY <2>2, <2>3 DEF TablesAgree
<1>6. KeepsSlots
  BY <1>1 DEF KeepsSlots, OpenKeeps
<1> QED BY <1>2, <1>3, <1>4, <1>5, <1>6 DEF IInv

-----------------------------------------------------------------------------
(* Consing a new device onto a class list. *)
LEMMA ConsFacts ==
  ASSUME NEW q \in Seq(Devices), NEW d \in Devices
  PROVE  /\ <<d>> \o q \in Seq(Devices)
         /\ Len(q) \in Nat /\ DOMAIN q = 1..Len(q)
         /\ DOMAIN (<<d>> \o q) = 1..Len(q)+1
         /\ (<<d>> \o q)[1] = d
         /\ \A k \in 2..Len(q)+1 : (<<d>> \o q)[k] = q[k-1] /\ k-1 \in DOMAIN q
         /\ Members(<<d>> \o q) = Members(q) \cup {d}
<1>1. /\ <<d>> \o q \in Seq(Devices)
      /\ Len(q) \in Nat /\ DOMAIN q = 1..Len(q)
      /\ DOMAIN (<<d>> \o q) = 1..Len(q)+1
      /\ (<<d>> \o q)[1] = d
  OBVIOUS
<1>2. \A k \in 2..Len(q)+1 : (<<d>> \o q)[k] = q[k-1] /\ k-1 \in DOMAIN q
  OBVIOUS
<1>3. \A k \in 1..Len(q) : (<<d>> \o q)[k+1] = q[k]
  OBVIOUS
<1>4. Members(<<d>> \o q) = Members(q) \cup {d}
  <2>1. ASSUME NEW x \in Members(<<d>> \o q) PROVE x \in Members(q) \cup {d}
    <3>1. PICK k \in 1..Len(q)+1 : x = (<<d>> \o q)[k]
      BY <1>1 DEF Members
    <3>2. k = 1 \/ k \in 2..Len(q)+1
      BY <1>1
    <3> QED BY <1>1, <1>2, <3>1, <3>2 DEF Members
  <2>2. ASSUME NEW x \in Members(q) PROVE x \in Members(<<d>> \o q)
    <3>1. PICK k \in 1..Len(q) : x = q[k]
      BY <1>1 DEF Members
    <3>2. k+1 \in 1..Len(q)+1
      BY <1>1
    <3> QED BY <1>1, <1>3, <3>1, <3>2 DEF Members
  <2>3. d \in Members(<<d>> \o q)
    <3>1. 1 \in 1..Len(q)+1
      BY <1>1
    <3> QED BY <1>1, <3>1 DEF Members
  <2> QED BY <2>1, <2>2, <2>3
<1> QED BY <1>1, <1>2, <1>4

(* A driver that add_device accepts was in no list: in its own class list   *)
(* its name would have been taken, and it is listed under its class only.   *)
LEMMA RegisterPreserves ==
  ASSUME IInv, NEW b \in Boards, NEW r \in Registrations, RegisterDevice(b, r)
  PROVE  IInv' /\ KeepsSlots
<1> USE DEF IInv
<1>1. open' = open /\ flag' = flag /\ type' = type /\ status' = status
  BY DEF RegisterDevice
<1>2. KeepsSlots
  BY <1>1 DEF KeepsSlots
<1>3. CASE UNCHANGED <<devs, list, dtype, dclass>>
  <2>1. \A a \in Boards : Listed(a)' = Listed(a)
    BY <1>3 DEF Listed, Members
  <2>2. TablesAgree'
    BY <1>1, <1>3, <2>1 DEF TablesAgree, CountAgrees, ListedOnce, OpenAgrees
  <2> QED BY <1>1, <1>2, <1>3, <2>2 DEF RegistryTypes, UnusedInv, ClassInv, NeverCorrupt
<1>4. CASE ~UNCHANGED <<devs, list, dtype, dclass>>
  <2> DEFINE d == SetMin(DriversLike(r.driver))
             c == r.class
  <2>1. DriversLike(r.driver) # {}
    BY <1>4 DEF RegisterDevice
  <2>2. d \in Devices
    <3>1. DriversLike(r.driver) \in SUBSET Nat /\ DriversLike(r.driver) \subseteq Devices
      BY Basics DEF DriversLike
    <3> QED BY <2>1, <3>1, SetMinIn
  <2>3. /\ d \in Listed(b) => dclass[d] = c
        /\ \A a \in Boards \ {b} : d \notin Listed(a)
        /\ dtype' = [dtype EXCEPT ![d] = r.device]
        /\ dclass' = [dclass EXCEPT ![d] = c]
        /\ AddDevice(b, d, c, r.device)
    BY <1>4 DEF RegisterDevice
  <2> HIDE DEF d
  <2>4. c \in Classes /\ r.device \in Names
    BY CallAssumption
  <2>5. /\ dtype' \in [Devices -> Names \cup {NoName}]
        /\ dclass' \in [Devices -> Classes]
        /\ dtype'[d] = r.device /\ dclass'[d] = c
        /\ \A x \in Devices \ {d} : dclass'[x] = dclass[x]
    BY <2>2, <2>3, <2>4 DEF RegistryTypes
  <2>6. type[b] # NoName
    BY DEF RegisterDevice, UnusedInv
  <2>7. \A a \in Boards, e \in Classes :
           /\ list[a][e] \in Seq(Devices)
           /\ \A k \in DOMAIN list[a][e] : /\ list[a][e][k] \in Devices
                                           /\ list[a][e][k] \in Listed(a)
    <3> SUFFICES ASSUME NEW a \in Boards, NEW e \in Classes
                 PROVE  /\ list[a][e] \in Seq(Devices)
                        /\ \A k \in DOMAIN list[a][e] : /\ list[a][e][k] \in Devices
                                                        /\ list[a][e][k] \in Listed(a)
      OBVIOUS
    <3>1. list[a][e] \in Seq(Devices)
      BY DEF RegistryTypes
    <3> QED BY <3>1 DEF Listed, Members
  (* The class of what was listed before does not change. *)
  <2>8. \A a \in Boards, e \in Classes : \A k \in DOMAIN list[a][e] :
           dclass'[list[a][e][k]] = e
    <3> SUFFICES ASSUME NEW a \in Boards, NEW e \in Classes, NEW k \in DOMAIN list[a][e]
                 PROVE  dclass'[list[a][e][k]] = e
      OBVIOUS
    <3>1. dclass[list[a][e][k]] = e
      BY DEF ClassInv
    <3>2. CASE list[a][e][k] = d
      BY <2>3, <2>5, <2>7, <3>1, <3>2
    <3> QED BY <2>5, <2>7, <3>1, <3>2
  <2>9. CASE UNCHANGED <<devs, list>>
    <3>1. \A a \in Boards : Listed(a)' = Listed(a)
      BY <2>9 DEF Listed, Members
    <3>2. TablesAgree'
      BY <1>1, <2>9, <3>1 DEF TablesAgree, CountAgrees, ListedOnce, OpenAgrees
    <3>3. ClassInv'
      BY <2>8, <2>9 DEF ClassInv
    <3>4. RegistryTypes' /\ UnusedInv'
      BY <1>1, <2>5, <2>9 DEF RegistryTypes, UnusedInv
    <3> QED BY <1>1, <1>2, <3>2, <3>3, <3>4 DEF NeverCorrupt
  <2>10. CASE ~UNCHANGED <<devs, list>>
    <3> DEFINE q == list[b][c]
    <3>1. /\ ~\E p \in Members(q) : Like(dtype'[p], r.device)
          /\ list' = [list EXCEPT ![b][c] = <<d>> \o @]
          /\ devs' = [devs EXCEPT ![b] = @ + 1]
      BY <2>3, <2>10 DEF AddDevice
    <3>2. d \notin Listed(b)
      <4>1. d \notin Members(q)
        BY <2>4, <2>5, <3>1, NameAssumption DEF Like
      <4>2. ASSUME d \in Listed(b) PROVE FALSE
        <5>1. PICK e \in Classes : d \in Members(list[b][e])
          BY <4>2 DEF Listed
        <5>2. PICK k \in DOMAIN list[b][e] : d = list[b][e][k]
          BY <5>1 DEF Members
        <5>3. dclass[d] = e /\ dclass[d] = c
          BY <2>3, <4>2, <5>2 DEF ClassInv
        <5> QED BY <4>1, <5>1, <5>3
      <4> QED BY <4>2
    <3>3. q \in Seq(Devices)
      BY <2>4, <2>7
    <3>4. /\ list' \in [Boards -> [Classes -> Seq(Devices)]]
          /\ list'[b][c] = <<d>> \o q
          /\ \A a \in Boards, e \in Classes :
               ~(a = b /\ e = c) => list'[a][e] = list[a][e]
      <4>1. list \in [Boards -> [Classes -> Seq(Devices)]]
        BY DEF RegistryTypes
      <4>2. <<d>> \o q \in Seq(Devices)
        BY <2>2, <3>3, ConsFacts
      <4> QED BY <2>4, <3>1, <4>1, <4>2
    <3>5. /\ devs' \in [Boards -> Nat] /\ devs'[b] = devs[b] + 1 /\ devs[b] \in Nat
          /\ \A a \in Boards \ {b} : devs'[a] = devs[a]
      BY <3>1 DEF RegistryTypes
    <3>6. \A a \in Boards \ {b} : Listed(a)' = Listed(a)
      BY <3>4 DEF Listed
    <3>7. Listed(b)' = Listed(b) \cup {d}
      <4>1. Members(<<d>> \o q) = Members(q) \cup {d}
        BY <2>2, <3>3, ConsFacts
      <4>2. \A e \in Classes : Members(list'[b][e])
                                 = IF e = c THEN Members(list[b][e]) \cup {d}
                                   ELSE Members(list[b][e])
        BY <2>4, <3>4, <4>1
      <4> HIDE DEF q, c
      <4>3. Listed(b)' = UNION {Members(list'[b][e]) : e \in Classes}
        BY DEF Listed, Members
      <4> QED BY <2>4, <4>2, <4>3 DEF Listed
    <3>8. \A a \in Boards : CountAgrees(a)'
      <4>1. CountAgrees(b)'
        <5>1. Cardinality(Listed(b) \cup {d}) = Cardinality(Listed(b)) + 1
          BY <3>2, ListedBound, FS_AddElement
        <5> QED BY <3>5, <3>7, <5>1 DEF CountAgrees, TablesAgree
      <4> QED BY <3>5, <3>6, <4>1 DEF CountAgrees, TablesAgree
    (* Every entry of the new lists is an old one at its new place or d. *)
    <3>9. ASSUME NEW e \in Classes, NEW k \in DOMAIN list'[b][e]
          PROVE  \/ e = c /\ k = 1 /\ list'[b][e][k] = d
                 \/ /\ list'[b][e][k] = list[b][e][IF e = c THEN k-1 ELSE k]
                    /\ (IF e = c THEN k-1 ELSE k) \in DOMAIN list[b][e]
                    /\ e = c => k \in Nat
      <4>1. CASE e = c
        <5>1. k \in 1..Len(q)+1 /\ Len(q) \in Nat
          BY <2>2, <3>3, <3>4, <4>1, ConsFacts
        <5>2. k = 1 \/ k \in 2..Len(q)+1
          BY <5>1
        <5> QED BY SMTT(30), <2>2, <3>3, <3>4, <4>1, <5>1, <5>2, ConsFacts
      <4>2. CASE e # c
        BY <3>4, <4>2
      <4> QED BY <4>1, <4>2
    <3>10. \A a \in Boards : ListedOnce(a)'
      <4>1. ASSUME NEW a \in Boards \ {b} PROVE ListedOnce(a)'
        <5>1. ListedOnce(a) /\ \A e \in Classes : list'[a][e] = list[a][e]
          BY <3>4 DEF TablesAgree
        <5> QED BY <5>1 DEF ListedOnce
      <4>2. ListedOnce(b)'
        <5> SUFFICES ASSUME NEW e \in Classes, NEW f \in Classes,
                            NEW k \in DOMAIN list'[b][e], NEW m \in DOMAIN list'[b][f],
                            list'[b][e][k] = list'[b][f][m]
                     PROVE  e = f /\ k = m
          BY DEF ListedOnce
        <5>1. ListedOnce(b)
          BY DEF TablesAgree
        <5>2. \A x \in Classes : \A i \in DOMAIN list[b][x] : list[b][x][i] # d
          BY <2>7, <3>2
        <5>3. CASE list'[b][e][k] = d
          <6>1. e = c /\ k = 1
            BY <3>9, <5>2, <5>3
          <6>2. list'[b][f][m] = d
            BY <5>3
          <6>3. f = c /\ m = 1
            BY <3>9, <5>2, <6>2
          <6> QED BY <6>1, <6>3
        <5>4. CASE list'[b][e][k] # d
          <6> DEFINE k0 == IF e = c THEN k-1 ELSE k
                     m0 == IF f = c THEN m-1 ELSE m
          <6>1. /\ k0 \in DOMAIN list[b][e] /\ list'[b][e][k] = list[b][e][k0]
                /\ e = c => k \in Nat
            BY <3>9, <5>4
          <6>2. /\ m0 \in DOMAIN list[b][f] /\ list'[b][f][m] = list[b][f][m0]
                /\ f = c => m \in Nat
            BY <3>9, <5>4
          <6>3. e = f /\ k0 = m0
            <7> HIDE DEF k0, m0
            <7>1. list[b][e][k0] = list[b][f][m0]
              BY <6>1, <6>2
            <7> QED BY <5>1, <6>1, <6>2, <7>1 DEF ListedOnce
          <6> QED BY <6>1, <6>2, <6>3
        <5> QED BY <5>3, <5>4
      <4> QED BY <4>1, <4>2
    <3>11. \A a \in Boards : OpenAgrees(a, open)'
      <4>1. \A a \in Boards : OpenAgrees(a, open)
        BY DEF TablesAgree
      <4>2. \A a \in Boards : Listed(a) \subseteq Listed(a)' /\ devs'[a] >= devs[a] /\ devs[a] \in Nat /\ devs'[a] \in Nat
        <5> SUFFICES ASSUME NEW a \in Boards
                     PROVE  /\ Listed(a) \subseteq Listed(a)' /\ devs'[a] >= devs[a]
                            /\ devs[a] \in Nat /\ devs'[a] \in Nat
          OBVIOUS
        <5>1. devs[a] \in Nat
          BY DEF RegistryTypes
        <5>2. CASE a = b
          BY <3>5, <3>7, <5>1, <5>2
        <5>3. CASE a # b
          BY <3>5, <3>6, <5>1, <5>3
        <5> QED BY <5>2, <5>3
      <4>3. ASSUME NEW a \in Boards PROVE OpenAgrees(a, open)'
        <5> SUFFICES ASSUME NEW s \in Slots, open[a][s] # Null
                     PROVE  /\ open[a][s] \in Listed(a)'
                            /\ s < devs'[a]
                            /\ \A t \in Slots \ {s} : open[a][t] # open[a][s]
          BY <1>1 DEF OpenAgrees
        <5>1. /\ open[a][s] \in Listed(a) /\ s < devs[a]
              /\ \A t \in Slots \ {s} : open[a][t] # open[a][s]
          BY <4>1 DEF OpenAgrees
        <5>2. s \in Int
          BY Basics
        <5> QED BY <4>2, <5>1, <5>2
      <4> QED BY <4>3
    <3>12. ClassInv'
      <4>1. ASSUME NEW a \in Boards, NEW e \in Classes, NEW k \in DOMAIN list'[a][e]
            PROVE  dclass'[list'[a][e][k]] = e
        <5>1. CASE a = b
          BY <2>5, <2>8, <3>9, <5>1
        <5>2. CASE a # b
          <6>1. list'[a][e] = list[a][e]
            BY <3>4, <5>2
          <6> QED BY <2>8, <6>1
        <5> QED BY <5>1, <5>2
      <4> QED BY <4>1 DEF ClassInv
    <3>13. RegistryTypes'
      BY <1>1, <2>5, <3>4, <3>5 DEF RegistryTypes
    <3>14. UnusedInv'
      BY <1>1, <2>6, <3>4, <3>5 DEF UnusedInv
    <3> QED BY <1>1, <1>2, <3>8, <3>10, <3>11, <3>12, <3>13, <3>14
            DEF TablesAgree, NeverCorrupt
  <2> QED BY <2>9, <2>10
<1> QED BY <1>3, <1>4

-----------------------------------------------------------------------------
(* A slot that board_req takes had a null type, so nothing on it changes by *)
(* being initialised.                                                       *)
LEMMA BoardReqKeeps ==
  ASSUME IInv, NEW name \in BoardReqs, BoardReq(name)
  PROVE  /\ list' = list /\ open' = open
         /\ UNCHANGED <<devs, dtype, dclass>>
         /\ type' \in [Boards -> Names \cup {NoName}]
         /\ flag' \in [Boards -> BOOLEAN]
         /\ \A b \in Boards : /\ flag'[b] => type'[b] # NoName
                              /\ type'[b] = NoName => type[b] = NoName
         /\ status' # "corrupt" /\ status' # "wild"
<1> USE DEF IInv
<1> DEFINE free == {b \in Boards : type[b] = NoName}
           end == IF free = {} THEN MaxBoard ELSE SetMin(free)
<1>1. CASE UNCHANGED <<type, flag, list, open>>
  BY <1>1 DEF BoardReq, RegistryTypes, UnusedInv, NeverCorrupt
<1>2. CASE /\ end < MaxBoard
           /\ type' = [b \in Boards |-> IF b = end THEN name
                                        ELSE IF b > end THEN Forbid ELSE type[b]]
           /\ flag' = [flag EXCEPT ![end] = TRUE]
           /\ list' = [list EXCEPT ![end] = [c \in Classes |-> <<>>]]
           /\ open' = [open EXCEPT ![end] = [s \in Slots |-> Null]]
           /\ UNCHANGED status
  <2>1. free # {}
    BY <1>2, Basics
  <2>2. free \in SUBSET Nat
    BY Basics
  <2>3. end \in free /\ end \in Boards
    BY <2>1, <2>2, SetMinIn
  <2> HIDE DEF end
  <2>4. name \in Names /\ Forbid \in Names
    BY NameAssumption
  <2>5. list[end] = [c \in Classes |-> <<>>] /\ open[end] = [s \in Slots |-> Null]
    BY <2>3 DEF UnusedInv, RegistryTypes
  <2>6. list' = list /\ open' = open
    BY <1>2, <2>3, <2>5 DEF RegistryTypes
  <2>7. \A b \in Boards : type'[b] \in {name, Forbid, type[b]}
    BY <1>2
  <2>8. /\ type' \in [Boards -> Names \cup {NoName}]
        /\ \A b \in Boards : type'[b] = NoName => type[b] = NoName
    BY <1>2, <2>4, NameAssumption DEF RegistryTypes
  <2>9. \A b \in Boards : flag'[b] => type'[b] # NoName
    <3>1. type'[end] = name
      BY <1>2, <2>3
    <3>2. \A b \in Boards \ {end} : flag'[b] = flag[b]
      BY <1>2 DEF RegistryTypes
    <3> QED BY <2>4, <2>8, <3>1, <3>2, NameAssumption DEF UnusedInv
  <2>10. flag' \in [Boards -> BOOLEAN]
    BY <1>2, <2>3 DEF RegistryTypes
  <2> QED BY <1>2, <2>6, <2>8, <2>9, <2>10 DEF BoardReq, NeverCorrupt
<1> QED BY <1>1, <1>2 DEF BoardReq

LEMMA BoardReqPreserves ==
  ASSUME IInv, NEW name \in BoardReqs, BoardReq(name)
  PROVE  IInv' /\ KeepsSlots
<1> USE DEF IInv
<1>1. /\ list' = list /\ open' = open
      /\ UNCHANGED <<devs, dtype, dclass>>
      /\ type' \in [Boards -> Names \cup {NoName}]
      /\ flag' \in [Boards -> BOOLEAN]
      /\ \A b \in Boards : /\ flag'[b] => type'[b] # NoName
                           /\ type'[b] = NoName => type[b] = NoName
      /\ status' # "corrupt"
  BY BoardReqKeeps
<1>2. \A b \in Boards : Listed(b)' = Listed(b)
  BY <1>1 DEF Listed, Members
<1>3. TablesAgree'
  BY <1>1, <1>2 DEF TablesAgree, CountAgrees, ListedOnce, OpenAgrees
<1>4. RegistryTypes' /\ UnusedInv' /\ ClassInv' /\ NeverCorrupt'
  BY <1>1 DEF RegistryTypes, UnusedInv, ClassInv, NeverCorrupt
<1> QED BY <1>1, <1>3, <1>4 DEF KeepsSlots

LEMMA PrintfPreserves ==
  ASSUME IInv, Printf
  PROVE  IInv' /\ KeepsSlots
<1>1. /\ status = "ok"
      /\ UNCHANGED <<type, flag, devs, list, dtype, dclass>>
  BY DEF Printf
<1>2. CASE ttyFd = -1
  <2>1. PICK g \in NullMatch :
           /\ open' = OpenWith(TtyPath, g).open
           /\ status' \in {OpenWith(TtyPath, g).status, "wild"}
    BY <1>2 DEF Printf, Opens
  <2>2. NeverCorrupt'
    <3>1. OpenWith(TtyPath, g).status = status
      BY OpenSound DEF OpenKeeps
    <3> QED BY <1>1, <2>1, <3>1 DEF NeverCorrupt
  <2> QED BY <1>1, <2>1, <2>2, OpenPreserves
<1>3. CASE ttyFd # -1
  <2>1. open' = open /\ NeverCorrupt'
    BY <1>1, <1>3 DEF Printf, NeverCorrupt
  <2>2. \A b \in Boards : Listed(b)' = Listed(b)
    BY <1>1 DEF Listed, Members
  <2>3. TablesAgree'
    BY <1>1, <2>1, <2>2 DEF IInv, TablesAgree, CountAgrees, ListedOnce, OpenAgrees
  <2> QED BY <1>1, <2>1, <2>3
          DEF IInv, RegistryTypes, UnusedInv, ClassInv, KeepsSlots
<1> QED BY <1>2, <1>3

LEMMA DeviceOpenPreserves ==
  ASSUME IInv, NEW path \in Paths, DeviceOpen(path)
  PROVE  IInv' /\ KeepsSlots
<1>1. PICK g \in NullMatch : /\ open' = OpenWith(path, g).open
                             /\ status' = OpenWith(path, g).status
  BY DEF DeviceOpen, Opens
<1>2. NeverCorrupt'
  BY <1>1, OpenSound DEF OpenKeeps, DeviceOpen, NeverCorrupt
<1> QED BY <1>1, <1>2, OpenPreserves DEF DeviceOpen

-----------------------------------------------------------------------------
LEMMA InitHolds == Init => IInv
<1> SUFFICES ASSUME Init PROVE IInv
  OBVIOUS
<1>1. RegistryTypes
  BY DEF Init, RegistryTypes, Classes
<1>2. \A b \in Boards, c \in Classes : list[b][c] = <<>> /\ Members(list[b][c]) = {}
  BY DEF Init, Members
<1>3. \A b \in Boards : Listed(b) = {}
  BY <1>2 DEF Listed
<1>4. TablesAgree
  <2>1. \A b \in Boards : CountAgrees(b)
    BY <1>3, FS_EmptySet DEF Init, CountAgrees
  <2>2. \A b \in Boards : ListedOnce(b)
    BY <1>2 DEF ListedOnce
  <2>3. \A b \in Boards : OpenAgrees(b, open)
    BY DEF Init, OpenAgrees
  <2> QED BY <2>1, <2>2, <2>3 DEF TablesAgree
<1> QED BY <1>1, <1>2, <1>4 DEF IInv, Init, UnusedInv, ClassInv, NeverCorrupt

LEMMA StepHolds == IInv /\ [Next]_vars => IInv' /\ [KeepsSlots]_vars
<1> SUFFICES ASSUME IInv, [Next]_vars PROVE IInv' /\ [KeepsSlots]_vars
  OBVIOUS
<1>1. ASSUME NEW n \in BoardReqs, BoardReq(n) PROVE IInv' /\ KeepsSlots
  BY <1>1, BoardReqPreserves
<1>2. ASSUME NEW b \in Boards, NEW r \in Registrations, RegisterDevice(b, r)
      PROVE  IInv' /\ KeepsSlots
  BY <1>2, RegisterPreserves
<1>3. ASSUME NEW p \in Paths, DeviceOpen(p) PROVE IInv' /\ KeepsSlots
  BY <1>3, DeviceOpenPreserves
<1>4. CASE Printf
  BY <1>4, PrintfPreserves
<1>5. CASE UNCHANGED vars
  <2>1. \A b \in Boards : Listed(b)' = Listed(b)
    BY <1>5 DEF Listed, Members, vars
  <2> QED BY <1>5, <2>1 DEF vars, IInv, RegistryTypes, UnusedInv, ClassInv, NeverCorrupt,
                   TablesAgree, CountAgrees, ListedOnce, OpenAgrees
<1> QED BY <1>1, <1>2, <1>3, <1>4, <1>5 DEF Next

-----------------------------------------------------------------------------
(* Descriptors.                                                             *)
LEMMA ModFacts == 
  ASSUME NEW a \in Int, NEW b \in Nat \ {0}
  PROVE  /\ a % b \in 0..b-1 /\ a \div b \in Int
         /\ a = b * (a \div b) + (a % b)
<1>1. a % b \in 0..b-1 /\ a \div b \in Int
  OBVIOUS
<1>2. b \in Int /\ b > 0
  OBVIOUS
<1>3. a = b * (a \div b) + (a % b)
  BY <1>2, Z3T(30)
<1> QED BY <1>1, <1>3

LEMMA ModUnique ==
  ASSUME NEW q \in Int, NEW b \in Nat \ {0}, NEW r \in 0..b-1
  PROVE  (q * b + r) \div b = q /\ (q * b + r) % b = r
OBVIOUS

LEMMA MulLe ==
  ASSUME NEW x \in Int, NEW y \in Int, NEW b \in Nat, x <= y
  PROVE  x * b <= y * b
OBVIOUS
(* A descriptor of a slot of a board, or of no slot, is no error; it is taken *)
(* apart into the board and the slot it was made of.                         *)
LEMMA FdIn ==
  ASSUME NEW nb \in Boards, NEW nd \in -1..MaxDev-1
  PROVE  GetFd(nb, nd) \in Fd /\ GetFd(nb, nd) >= 0
<1>1. /\ nb \in Int /\ nb <= MaxBoard - 1 /\ nb >= 0 /\ MaxBoard \in Nat
      /\ FdBase \in Nat \ {0} /\ nd % FdBase \in 0..FdBase-1
  BY SizeAssumption DEF Boards
<1>2. nb * FdBase <= (MaxBoard - 1) * FdBase /\ nb * FdBase >= 0 * FdBase
  BY <1>1, MulLe
<1>3. (MaxBoard - 1) * FdBase = MaxBoard * FdBase - FdBase
  BY <1>1
<1> QED BY <1>1, <1>2, <1>3 DEF GetFd, Fd

LEMMA FdBack ==
  ASSUME NEW nd \in Slots
  PROVE  FdBoard(GetFd(0, nd)) = 0 /\ \A nb \in Boards : FdSlot(GetFd(nb, nd)) = nd
<1>1. nd \in 0..FdBase-1 /\ FdBase \in Nat \ {0} /\ nd % FdBase = nd
  BY SizeAssumption DEF Slots
<1>2. \A nb \in Int : FdSlot(GetFd(nb, nd)) = nd /\ GetFd(nb, nd) \div FdBase = nb
  BY <1>1, ModUnique DEF FdSlot, GetFd
<1>3. 0 % FdBase = 0
  BY <1>1
<1> QED BY <1>2, <1>3 DEF FdBoard, Boards

LEMMA FdBoards ==
  ASSUME NEW fd \in Fd, fd # -1
  PROVE  FdBoard(fd) \in Boards
<1>1. PICK q : q = fd \div FdBase
  OBVIOUS
<1>2. fd \in Nat /\ fd <= MaxBoard * FdBase - 1 /\ FdBase \in Nat \ {0} /\ MaxBoard \in Nat
  BY SizeAssumption DEF Fd
<1>3. q \in Nat
  BY <1>1, <1>2
<1>4. PICK r \in 0..FdBase-1 : fd = FdBase * q + r
  <2>1. fd % FdBase \in 0..FdBase-1 /\ fd = FdBase * (fd \div FdBase) + (fd % FdBase)
    BY <1>2, ModFacts
  <2> QED BY <1>1, <2>1
<1>5. q <= MaxBoard - 1
  <2>1. q >= MaxBoard => MaxBoard * FdBase <= q * FdBase
    BY <1>2, <1>3, MulLe
  <2>2. q * FdBase = FdBase * q /\ q * FdBase \in Int /\ MaxBoard * FdBase \in Int
    BY <1>2, <1>3
  <2> QED BY <1>2, <1>3, <1>4, <2>1, <2>2
<1>6. q % FdBase <= q /\ q % FdBase \in Nat
  BY <1>2, <1>3
<1> QED BY <1>1, <1>2, <1>3, <1>5, <1>6 DEF FdBoard, Boards

(* What device_open returns, and which device a call through it reaches.    *)
LEMMA OpenFd ==
  ASSUME IInv, NEW path, NEW g
  PROVE  OpenWith(path, g).fd \in Fd
<1> DEFINE boards == {b \in Boards : Like(type[b], path.board)}
           nb == SetMax(boards)
           hits == Hits(nb, path.device, g)
           nd == IF EmptySlots(nb) = {} THEN -1 ELSE SetMax(EmptySlots(nb))
<1>1. -1 \in Fd
  <2>1. MaxBoard * FdBase \in Nat
    BY SizeAssumption
  <2> QED BY <2>1 DEF Fd
<1>2. CASE boards = {}
  BY <1>1, <1>2 DEF OpenWith
<1>3. CASE boards # {}
  <2>1. nb \in Boards
    <3>1. boards \in SUBSET (0..MaxBoard-1) /\ MaxBoard-1 \in Nat
      BY Basics
    <3> QED BY <1>3, <3>1, SetMaxIn
  <2> HIDE DEF nb
  <2>2. devs[nb] \in Nat /\ devs[nb] <= MaxDev
    BY <2>1, ListedBound DEF IInv, TablesAgree, RegistryTypes
  <2>3. GetFd(nb, nd) \in Fd
    <3>1. EmptySlots(nb) \in SUBSET (0..MaxDev-1) /\ MaxDev-1 \in Nat
      BY <2>2, Basics DEF EmptySlots
    <3>2. EmptySlots(nb) # {} => SetMax(EmptySlots(nb)) \in 0..MaxDev-1
      BY <3>1, SetMaxIn
    <3>3. nd \in -1..MaxDev-1
      BY <3>1, <3>2
    <3> QED BY <2>1, <3>3, FdIn
  <2>4. hits # {} => GetFd(nb, SetMin(hits)) \in Fd
    <3>1. hits \in SUBSET (0..MaxDev-1) /\ hits \in SUBSET Nat
      BY <2>2, Basics DEF Hits
    <3>2. hits # {} => SetMin(hits) \in -1..MaxDev-1
      BY <3>1, SetMinIn, Basics
    <3> QED BY <2>1, <3>2, FdIn
  <2> QED BY <1>1, <1>3, <2>3, <2>4 DEF OpenWith, nb
<1> QED BY <1>2, <1>3

LEMMA TargetType ==
  ASSUME NEW table \in [Boards -> [Slots -> Devices \cup {Null}]], NEW fd \in Fd, fd # -1,
         NEW op
  PROVE  Target(table, fd, op) \in Devices \cup {Null}
BY FdBoards DEF Target

LEMMA CallTypesStep == IInv /\ CallTypes /\ [Next]_vars => CallTypes'
<1> SUFFICES ASSUME IInv, CallTypes, [Next]_vars PROVE CallTypes'
  OBVIOUS
<1> USE DEF CallTypes
<1>1. ASSUME NEW n \in BoardReqs, BoardReq(n) PROVE CallTypes'
  BY <1>1 DEF BoardReq
<1>2. ASSUME NEW b \in Boards, NEW r \in Registrations, RegisterDevice(b, r)
      PROVE  CallTypes'
  BY <1>2 DEF RegisterDevice
<1>3. ASSUME NEW p \in Paths, DeviceOpen(p) PROVE CallTypes'
  <2>1. PICK g \in NullMatch : /\ status' = OpenWith(p, g).status
                               /\ answer' = <<p, OpenWith(p, g).fd>>
    BY <1>3 DEF DeviceOpen, Opens
  <2>2. OpenWith(p, g).status = status /\ OpenWith(p, g).fd \in Fd
    BY OpenSound, OpenFd DEF OpenKeeps
  <2> QED BY <1>3, <2>1, <2>2 DEF DeviceOpen
<1>4. CASE Printf
  <2>1. PICK o : /\ o \in IF ttyFd = -1 THEN Opens(TtyPath)
                           ELSE {[fd |-> ttyFd, open |-> open, status |-> status]}
                 /\ ttyFd' = o.fd
                 /\ o.fd = -1 => status' = o.status /\ UNCHANGED console
                 /\ o.fd # -1 => /\ console' = Target(o.open, o.fd, "write")
                                 /\ status' \in {"wild", o.status}
    BY <1>4 DEF Printf
  <2>2. /\ o.fd \in Fd /\ o.status = status
        /\ o.open \in [Boards -> [Slots -> Devices \cup {Null}]]
    BY <2>1, OpenSound, OpenFd DEF OpenKeeps, Opens, IInv, RegistryTypes
  <2>3. o.fd # -1 => console' \in Devices \cup {Null}
    BY <2>1, <2>2, TargetType
  <2> QED BY <1>4, <2>1, <2>2, <2>3 DEF Printf
<1>5. CASE UNCHANGED vars
  BY <1>5 DEF vars
<1> QED BY <1>1, <1>2, <1>3, <1>4, <1>5 DEF Next

(* The registry invariant holds of every board, driver, name and call.      *)
LEMMA InvariantHolds == Spec => []IInv
<1>1. IInv /\ [Next]_vars => IInv'
  BY StepHolds
<1> QED BY InitHolds, <1>1, PTL DEF Spec

LEMMA CallTypesHold == Spec => []CallTypes
<1>1. Init => CallTypes
  BY SizeAssumption DEF Init, CallTypes, Fd
<1> QED BY <1>1, InvariantHolds, CallTypesStep, PTL DEF Spec

(* The pool, the lists, the table of open devices, descriptors and answers  *)
(* have their types; no count exceeds the number of drivers.                *)
THEOREM DriverTypes == Spec => []TypeOK
<1>1. IInv /\ CallTypes => TypeOK
  <2> SUFFICES ASSUME IInv, CallTypes, NEW b \in Boards PROVE devs[b] \in 0..Len(Drivers)
    BY DEF TypeOK, CallTypes, IInv, RegistryTypes
  <2>1. devs[b] = Cardinality(Listed(b)) /\ devs[b] \in Nat
    BY DEF IInv, TablesAgree, CountAgrees, RegistryTypes
  <2>2. Cardinality(Listed(b)) <= Len(Drivers)
    BY ListedBound, Basics, FS_Subset DEF IInv
  <2> QED BY <2>1, <2>2, Basics
<1> QED BY <1>1, InvariantHolds, CallTypesHold, PTL

-----------------------------------------------------------------------------
(* One board is ever in use.                                                *)
LEMMA ZeroIsBoard == 0 \in Boards /\ \A S \in SUBSET Boards : S # {} /\ 0 \in S => SetMin(S) = 0
<1>1. 0 \in Boards /\ Boards \subseteq Nat
  BY Basics
<1>2. ASSUME NEW S \in SUBSET Boards, 0 \in S PROVE SetMin(S) = 0
  <2>1. S \in SUBSET Nat /\ S # {}
    BY <1>1, <1>2
  <2>2. SetMin(S) \in Nat /\ SetMin(S) <= 0
    BY <1>2, <2>1, SetMinIn
  <2> QED BY <2>2
<1> QED BY <1>1, <1>2

LEMMA PoolStep == IInv /\ PoolInv /\ [Next]_vars => PoolInv'
<1> SUFFICES ASSUME IInv, PoolInv, [Next]_vars PROVE PoolInv'
  OBVIOUS
<1>1. CASE UNCHANGED <<type, flag>>
  BY <1>1 DEF PoolInv
<1>2. ASSUME NEW name \in BoardReqs, BoardReq(name), ~UNCHANGED <<type, flag>>
      PROVE  PoolInv'
  <2> DEFINE free == {b \in Boards : type[b] = NoName}
             end == IF free = {} THEN MaxBoard ELSE SetMin(free)
  <2>1. /\ end < MaxBoard
        /\ type' = [b \in Boards |-> IF b = end THEN name
                                     ELSE IF b > end THEN Forbid ELSE type[b]]
        /\ flag' = [flag EXCEPT ![end] = TRUE]
    BY <1>2 DEF BoardReq
  <2>2. free # {}
    BY <2>1, Basics
  <2>3. \A b \in Boards : type[b] = NoName /\ ~flag[b]
    BY <2>2, NameAssumption DEF PoolInv
  <2>4. end = 0
    <3>1. free = Boards
      BY <2>3
    <3> QED BY <2>2, <3>1, ZeroIsBoard
  <2>5. \A b \in Boards : b > 0 <=> b # 0
    BY Basics
  <2> QED BY <2>1, <2>3, <2>4, <2>5, ZeroIsBoard DEF PoolInv, IInv, RegistryTypes
<1>3. Next => UNCHANGED <<type, flag>> \/ \E n \in BoardReqs : BoardReq(n)
  BY DEF Next, RegisterDevice, DeviceOpen, Printf
<1> QED BY <1>1, <1>2, <1>3 DEF vars

LEMMA PoolHolds == Spec => []PoolInv
<1>1. Init => PoolInv
  BY DEF Init, PoolInv
<1> QED BY <1>1, InvariantHolds, PoolStep, PTL DEF Spec

LEMMA UsedIsZero ==
  ASSUME PoolInv, NEW b \in UsedBoards
  PROVE  /\ b = 0 /\ UsedBoards = {0} /\ type[0] \in BoardReqs
         /\ \A c \in Boards \ {0} : type[c] = Forbid
BY ZeroIsBoard DEF PoolInv, UsedBoards

(* Opening a device that is listed on the board in use gives a slot that a  *)
(* listed device of that name is in.                                        *)
LEMMA OpenFinds ==
  ASSUME IInv, PoolInv, UsedBoards # {}, NEW path,
         Like(type[0], path.board), ~Like(Forbid, path.board),
         path.class \in Classes, FoundAt(0, path.class, path.device) # {}
  PROVE  \E s \in Slots : LET o == OpenWith(path, FALSE)
                          IN  /\ o.fd = GetFd(0, s)
                              /\ o.open[0][s] \in Listed(0) /\ o.open[0][s] # Null
                              /\ Like(dtype[o.open[0][s]], path.device)
<1> DEFINE boards == {b \in Boards : Like(type[b], path.board)}
           hits == Hits(0, path.device, FALSE)
           at == FoundAt(0, path.class, path.device)
           nd == SetMax(EmptySlots(0))
           o == OpenWith(path, FALSE)
<1>1. boards = {0} /\ SetMax(boards) = 0 /\ boards # {}
  <2>1. boards = {0}
    BY UsedIsZero, ZeroIsBoard
  <2> QED BY <2>1 DEF SetMax
<1>2. devs[0] \in Nat /\ devs[0] <= MaxDev
  BY ZeroIsBoard, ListedBound DEF IInv, TablesAgree, RegistryTypes
<1>3. OpenAgrees(0, o.open)
  BY OpenSound, ZeroIsBoard DEF OpenKeeps
<1> SUFFICES ASSUME TRUE
             PROVE  \E s \in Slots : /\ o.fd = GetFd(0, s) /\ o.open[0][s] # Null
                                     /\ Like(dtype[o.open[0][s]], path.device)
  BY <1>3 DEF OpenAgrees
<1>4. CASE hits # {}
  <2>1. hits \in SUBSET Nat /\ hits \subseteq Slots
    BY <1>2, Basics DEF Hits
  <2>2. PICK s \in hits : s = SetMin(hits)
    BY <1>4, <2>1, SetMinIn
  <2>3. open[0][s] # Null /\ Like(dtype[open[0][s]], path.device)
    BY <2>2 DEF Hits
  <2>4. o.fd = GetFd(0, s) /\ o.open = open
    BY <1>1, <1>4, <2>2 DEF OpenWith
  <2> HIDE DEF o
  <2> QED BY <2>1, <2>3, <2>4
<1>5. CASE hits = {}
  <2>1. EmptySlots(0) # {}
    BY <1>5, ZeroIsBoard, FoundNeedsEmptySlot DEF IInv
  <2>2. EmptySlots(0) \in SUBSET (0..MaxDev-1) /\ MaxDev-1 \in Nat
    BY <1>2, Basics DEF EmptySlots
  <2>3. PICK s \in Slots : s = nd /\ ~(s < 0)
    <3>1. nd \in 0..MaxDev-1
      BY <2>1, <2>2, SetMaxIn
    <3> HIDE DEF nd
    <3> QED BY <3>1, Basics
  <2> DEFINE e == list[0][path.class][SetMax(at)]
  <2>4. Like(dtype[e], path.device) /\ e # Null
    <3>1. list[0][path.class] \in Seq(Devices)
      BY ZeroIsBoard DEF IInv, RegistryTypes
    <3>2. at \in SUBSET (0..Len(list[0][path.class])) /\ Len(list[0][path.class]) \in Nat
      BY <3>1 DEF FoundAt
    <3>3. PICK m \in at : m = SetMax(at)
      BY <3>2, SetMaxIn
    <3>4. m \in DOMAIN list[0][path.class] /\ Like(dtype[list[0][path.class][m]], path.device)
      BY <3>3 DEF FoundAt
    <3>5. list[0][path.class][m] \in Devices
      BY <3>1, <3>4
    <3> QED BY <3>3, <3>4, <3>5, Basics
  <2> HIDE DEF e
  <2>5. o.fd = GetFd(0, s) /\ o.open = [open EXCEPT ![0][s] = e]
    BY <1>1, <1>5, <2>1, <2>3 DEF OpenWith, e
  <2> HIDE DEF o
  <2>6. o.open[0][s] = e
    <3>1. open \in [Boards -> [Slots -> Devices \cup {Null}]] /\ 0 \in Boards
      BY ZeroIsBoard DEF IInv, RegistryTypes
    <3> QED BY <2>5, <3>1
  <2> QED BY <2>4, <2>5, <2>6
<1> QED BY <1>4, <1>5

LEMMA RegisteredOpensStep ==
  ASSUME PathsClear, IInv, PoolInv, RegisteredOpens, [Next]_vars
  PROVE  RegisteredOpens'
<1>1. CASE \E p \in Paths : DeviceOpen(p)
  <2>1. PICK p \in Paths : DeviceOpen(p)
    BY <1>1
  <2> DEFINE o == OpenWith(p, FALSE)
  <2>2. /\ open' = o.open /\ answer' = <<p, o.fd>>
        /\ UNCHANGED <<type, flag, devs, list, dtype, dclass>> /\ UsedBoards # {}
    BY <2>1 DEF DeviceOpen, Opens, PathsClear
  <2>3. UsedBoards' = UsedBoards /\ \A b, c, n : FoundAt(b, c, n)' = FoundAt(b, c, n)
    BY <2>2 DEF UsedBoards, FoundAt
  <2> SUFFICES ASSUME NEW b \in UsedBoards, Like(type[b], p.board), p.class \in Classes,
                      FoundAt(b, p.class, p.device) # {}
               PROVE  /\ o.fd # -1 /\ FdSlot(o.fd) \in Slots
                      /\ o.open[FdBoard(o.fd)][FdSlot(o.fd)] # Null
                      /\ Like(dtype[o.open[FdBoard(o.fd)][FdSlot(o.fd)]], p.device)
    <3> HIDE DEF o
    <3> QED BY <2>2, <2>3 DEF RegisteredOpens
  <2>4. b = 0 /\ ~Like(Forbid, p.board)
    BY UsedIsZero DEF PathsClear
  <2>5. PICK s \in Slots : /\ o.fd = GetFd(0, s) /\ o.open[0][s] # Null
                           /\ Like(dtype[o.open[0][s]], p.device)
    BY <2>4, OpenFinds
  <2>6. s \in -1..MaxDev-1
    BY Basics
  <2>7. GetFd(0, s) >= 0 /\ GetFd(0, s) \in Int
    BY <2>6, FdIn, ZeroIsBoard DEF Fd
  <2>8. FdBoard(o.fd) = 0 /\ FdSlot(o.fd) = s
    BY <2>5, FdBack, ZeroIsBoard
  <2> HIDE DEF o
  <2> QED BY <2>5, <2>7, <2>8
<1>2. CASE UNCHANGED vars
  <2>1. UsedBoards' = UsedBoards /\ \A b, c, n : FoundAt(b, c, n)' = FoundAt(b, c, n)
    BY <1>2 DEF UsedBoards, FoundAt, vars
  <2> QED BY <1>2, <2>1 DEF RegisteredOpens, vars
<1>3. CASE ~(\E p \in Paths : DeviceOpen(p)) /\ ~UNCHANGED vars
  <2>1. answer' = NoCall
    BY <1>3 DEF Next, BoardReq, RegisterDevice, Printf
  <2> QED BY <2>1 DEF RegisteredOpens
<1> QED BY <1>1, <1>2, <1>3

-----------------------------------------------------------------------------
(* The console.                                                             *)
LEMMA RegisterLists ==
  ASSUME IInv, NEW b \in Boards, NEW r \in Registrations, RegisterDevice(b, r),
         NEW d, d = SetMin(DriversLike(r.driver))
  PROVE  \/ UNCHANGED <<list, dtype, dclass>>
         \/ /\ DriversLike(r.driver) # {} /\ d \in Devices
            /\ \A a \in Boards : d \in Listed(a) => Reregister
            /\ dtype' = [dtype EXCEPT ![d] = r.device]
            /\ dclass' = [dclass EXCEPT ![d] = r.class]
            /\ \A a \in Boards : /\ Listed(a) \subseteq Listed(a)'
                                 /\ Listed(a)' \subseteq Listed(a) \cup {d}
<1> SUFFICES ASSUME ~UNCHANGED <<list, dtype, dclass>>
             PROVE  /\ DriversLike(r.driver) # {} /\ d \in Devices
                    /\ \A a \in Boards : d \in Listed(a) => Reregister
                    /\ dtype' = [dtype EXCEPT ![d] = r.device]
                    /\ dclass' = [dclass EXCEPT ![d] = r.class]
                    /\ \A a \in Boards : /\ Listed(a) \subseteq Listed(a)'
                                         /\ Listed(a)' \subseteq Listed(a) \cup {d}
  OBVIOUS
<1>1. /\ DriversLike(r.driver) # {}
      /\ \A a \in Boards : d \in Listed(a) => Reregister
      /\ dtype' = [dtype EXCEPT ![d] = r.device]
      /\ dclass' = [dclass EXCEPT ![d] = r.class]
      /\ AddDevice(b, d, r.class, r.device)
  BY DEF RegisterDevice
<1>2. d \in Devices
  <2>1. DriversLike(r.driver) \in SUBSET Nat /\ DriversLike(r.driver) \subseteq Devices
    BY Basics DEF DriversLike
  <2> QED BY <1>1, <2>1, SetMinIn
<1>3. ASSUME NEW a \in Boards
      PROVE  Listed(a) \subseteq Listed(a)' /\ Listed(a)' \subseteq Listed(a) \cup {d}
  <2>1. CASE UNCHANGED list
    BY <2>1 DEF Listed, Members
  <2>2. CASE list' = [list EXCEPT ![b][r.class] = <<d>> \o @]
    <3>1. r.class \in Classes
      BY CallAssumption
    <3>2. ASSUME NEW c \in Classes
          PROVE  /\ Members(list[a][c]) \subseteq Members(list'[a][c])
                 /\ Members(list'[a][c]) \subseteq Members(list[a][c]) \cup {d}
      <4>1. list[a][c] \in Seq(Devices)
        BY DEF IInv, RegistryTypes
      <4>2. list'[a][c] \in {list[a][c], <<d>> \o list[a][c]}
        BY <2>2, <3>1 DEF IInv, RegistryTypes
      <4>3. Members(<<d>> \o list[a][c]) = Members(list[a][c]) \cup {d}
        BY <1>2, <4>1, ConsFacts
      <4> QED BY <4>2, <4>3
    <3>3. Listed(a)' = UNION {Members(list'[a][c]) : c \in Classes}
      BY DEF Listed, Members
    <3> QED BY <3>2, <3>3 DEF Listed
  <2> QED BY <1>1, <2>1, <2>2 DEF AddDevice
<1> QED BY <1>1, <1>2, <1>3

LEMMA OthersKeepLists ==
  ASSUME IInv, [Next]_vars, ~\E b \in Boards, r \in Registrations : RegisterDevice(b, r)
  PROVE  /\ UNCHANGED <<list, dtype, dclass>> /\ \A a \in Boards : Listed(a)' = Listed(a)
         /\ \A d, r : RegisteredBy(d, r) => RegisteredBy(d, r)'
<1>1. ASSUME NEW n \in BoardReqs, BoardReq(n) PROVE UNCHANGED <<list, dtype, dclass>>
  BY <1>1, BoardReqKeeps
<1>2. UNCHANGED <<list, dtype, dclass>>
  BY <1>1 DEF Next, vars, DeviceOpen, Printf
<1> QED BY <1>2 DEF Listed, Members, RegisteredBy

LEMMA ListedStep == IInv /\ ListedInv /\ [Next]_vars => ListedInv'
<1> SUFFICES ASSUME IInv, ListedInv, [Next]_vars PROVE ListedInv'
  OBVIOUS
<1>1. ASSUME NEW b \in Boards, NEW r \in Registrations, RegisterDevice(b, r)
      PROVE  ListedInv'
  <2>1. PICK d : d = SetMin(DriversLike(r.driver))
    OBVIOUS
  <2>2. CASE UNCHANGED <<list, dtype, dclass>>
    <3>1. \A a \in Boards : Listed(a)' = Listed(a)
      BY <2>2 DEF Listed, Members
    <3> QED BY <2>2, <3>1 DEF ListedInv, RegisteredBy
  <2>3. CASE ~UNCHANGED <<list, dtype, dclass>>
    <3>1. /\ DriversLike(r.driver) # {} /\ d \in Devices
          /\ dtype' = [dtype EXCEPT ![d] = r.device]
          /\ dclass' = [dclass EXCEPT ![d] = r.class]
          /\ \A a \in Boards : Listed(a)' \subseteq Listed(a) \cup {d}
      BY <1>1, <2>1, <2>3, RegisterLists
    <3>2. RegisteredBy(d, r)'
      BY <2>1, <3>1 DEF RegisteredBy, IInv, RegistryTypes
    <3>3. ASSUME NEW a \in Boards, NEW e \in Listed(a)', e # d
          PROVE  \E q \in Registrations : RegisteredBy(e, q)'
      <4>1. PICK q \in Registrations : RegisteredBy(e, q)
        BY <3>1, <3>3 DEF ListedInv
      <4>2. dtype'[e] = dtype[e] /\ dclass'[e] = dclass[e]
        BY <3>1, <3>3 DEF IInv, RegistryTypes
      <4> QED BY <4>1, <4>2 DEF RegisteredBy
    <3> QED BY <3>2, <3>3 DEF ListedInv
  <2> QED BY <2>2, <2>3
<1>2. CASE ~\E b \in Boards, r \in Registrations : RegisterDevice(b, r)
  BY <1>2, OthersKeepLists DEF ListedInv
<1> QED BY <1>1, <1>2

LEMMA ListedHolds == Spec => []ListedInv
<1>1. Init => ListedInv
  <2> SUFFICES ASSUME Init, NEW b \in Boards PROVE Listed(b) = {}
    BY DEF ListedInv
  <2>1. \A c \in Classes : Members(list[b][c]) = {}
    BY DEF Init, Members
  <2> QED BY <2>1 DEF Listed
<1> QED BY <1>1, InvariantHolds, ListedStep, PTL DEF Spec

(* The TTY stays the TTY: no listed device is registered again.             *)
LEMMA TtyStays ==
  ASSUME ConsoleCalls, IInv, [Next]_vars, NEW e, TtyDevice(e)
  PROVE  TtyDevice(e)'
<1>1. ASSUME NEW b \in Boards, NEW r \in Registrations, RegisterDevice(b, r)
      PROVE  TtyDevice(e)'
  <2>1. PICK d : d = SetMin(DriversLike(r.driver))
    OBVIOUS
  <2>2. CASE UNCHANGED <<list, dtype, dclass>>
    BY <2>2 DEF TtyDevice, Listed, Members
  <2>3. CASE ~UNCHANGED <<list, dtype, dclass>>
    <3>1. /\ dtype' = [dtype EXCEPT ![d] = r.device] /\ d \notin Listed(0)
          /\ Listed(0) \subseteq Listed(0)'
      BY <1>1, <2>1, <2>3, RegisterLists, ZeroIsBoard DEF ConsoleCalls
    <3>2. e \in Listed(0) /\ e # d /\ e \in Devices
      BY <3>1, ListedBound, ZeroIsBoard DEF TtyDevice, IInv
    <3>3. dtype'[e] = dtype[e]
      BY <3>1, <3>2 DEF IInv, RegistryTypes
    <3> QED BY <3>1, <3>2, <3>3 DEF TtyDevice
  <2> QED BY <2>2, <2>3
<1>2. CASE ~\E b \in Boards, r \in Registrations : RegisterDevice(b, r)
  BY <1>2, OthersKeepLists, ZeroIsBoard DEF TtyDevice
<1> QED BY <1>1, <1>2

LEMMA TtyWrites ==
  ASSUME ConsoleCalls, ListedInv, NEW e, TtyDevice(e)
  PROVE  Like(dtype[e], Tty) /\ dclass[e] = "CPU" /\ "write" \in Ops[e]
<1>1. PICK r \in Registrations : RegisteredBy(e, r)
  BY ZeroIsBoard DEF TtyDevice, ListedInv
<1> QED BY <1>1 DEF TtyDevice, RegisteredBy, ConsoleCalls

(* A call through the descriptor of a slot that the TTY is in reaches it.   *)
LEMMA TtyReached ==
  ASSUME ConsoleCalls, ListedInv, NEW table, NEW s \in Slots,
         TtyDevice(table[0][s]), table[0][s] # Null
  PROVE  GetFd(0, s) # -1 /\ Target(table, GetFd(0, s), "write") = table[0][s]
<1>1. s \in -1..MaxDev-1
  BY Basics
<1>2. GetFd(0, s) >= 0 /\ GetFd(0, s) \in Int
  BY <1>1, FdIn, ZeroIsBoard DEF Fd
<1>3. FdBoard(GetFd(0, s)) = 0 /\ FdSlot(GetFd(0, s)) = s
  BY FdBack, ZeroIsBoard
<1>4. "write" \in Ops[table[0][s]]
  BY TtyWrites
<1> QED BY <1>2, <1>3, <1>4 DEF Target

LEMMA ConsoleStep ==
  ASSUME ConsoleCalls, IInv, PoolInv, ListedInv, ConsoleInv, [Next]_vars
  PROVE  ConsoleInv'
<1>1. CASE UNCHANGED <<ttyFd, console>> /\ status' # "wild"
  <2>1. \A b \in Boards, s \in Slots : open[b][s] # Null => open'[b][s] = open[b][s]
    BY StepHolds DEF KeepsSlots, vars
  <2>2. ASSUME ttyFd # -1
        PROVE  (\E s \in Slots : /\ ttyFd = GetFd(0, s) /\ open[0][s] # Null
                                 /\ TtyDevice(open[0][s]))'
    <3>1. PICK s \in Slots : ttyFd = GetFd(0, s) /\ open[0][s] # Null /\ TtyDevice(open[0][s])
      BY <2>2 DEF ConsoleInv
    <3>2. PICK e : e = open[0][s]
      OBVIOUS
    <3>3. TtyDevice(e)' /\ open'[0][s] = e
      BY <2>1, <3>1, <3>2, TtyStays, ZeroIsBoard
    <3> QED BY <1>1, <3>1, <3>2, <3>3 DEF TtyDevice
  <2>3. ASSUME console # Null PROVE TtyDevice(console)'
    <3>1. PICK e : e = console
      OBVIOUS
    <3>2. TtyDevice(e)'
      BY <2>3, <3>1, TtyStays DEF ConsoleInv
    <3> QED BY <1>1, <3>1, <3>2
  <2> QED BY <1>1, <2>2, <2>3 DEF ConsoleInv
<1>2. CASE Printf
  <2>1. /\ UNCHANGED <<type, flag, devs, list, dtype, dclass>> /\ status = "ok"
        /\ UsedBoards # {} /\ TtyListed
    BY <1>2 DEF Printf, ConsoleCalls
  <2>2. UsedBoards = {0} /\ type[0] \in BoardReqs /\ SetMin(UsedBoards) = 0
    BY <2>1, UsedIsZero, ZeroIsBoard DEF UsedBoards
  <2>3. \E s \in Slots : /\ ttyFd' = GetFd(0, s) /\ status' \in {"ok", "wild"}
                         /\ open'[0][s] # Null /\ TtyDevice(open'[0][s])
                         /\ ttyFd' # -1 => /\ console' = Target(open', ttyFd', "write")
                                           /\ console' # Null => status' = "ok"
    <3>1. CASE ttyFd # -1
      BY <1>2, <2>1, <3>1 DEF Printf, ConsoleInv
    <3>2. CASE ttyFd = -1
      <4>1. PICK path : /\ path = TtyPath /\ path.board = type[0]
                        /\ path.class = "CPU" /\ path.device = Tty
        <5>1. TtyPath = [board |-> type[0], class |-> "CPU", device |-> Tty]
          BY <2>2 DEF TtyPath
        <5> QED BY <5>1
      <4> DEFINE o == OpenWith(path, FALSE)
      <4>2. Like(type[0], type[0]) /\ ~Like(Forbid, type[0])
        BY <2>2, NameAssumption DEF Like, ConsoleCalls, PathsClear
      <4>3. FoundAt(0, "CPU", Tty) # {}
        BY <2>1, <2>2 DEF TtyListed
      <4>4. PICK s \in Slots : /\ o.fd = GetFd(0, s) /\ o.open[0][s] \in Listed(0)
                               /\ o.open[0][s] # Null /\ Like(dtype[o.open[0][s]], Tty)
        BY <2>1, <4>1, <4>2, <4>3, OpenFinds DEF Classes
      <4>5. o.status = "ok"
        BY <2>1, OpenSound DEF OpenKeeps
      <4>6. /\ open' = o.open /\ ttyFd' = o.fd
            /\ o.fd = -1 => status' = o.status
            /\ o.fd # -1 => /\ console' = Target(o.open, o.fd, "write")
                            /\ status' = IF console' = Null THEN "wild" ELSE o.status
        BY <1>2, <3>2, <4>1 DEF Printf, Opens, ConsoleCalls, PathsClear
      <4> HIDE DEF o
      <4> QED BY <4>4, <4>5, <4>6 DEF TtyDevice
    <3> QED BY <3>1, <3>2
  <2>4. PICK s \in Slots : /\ ttyFd' = GetFd(0, s) /\ status' \in {"ok", "wild"}
                           /\ open'[0][s] # Null /\ TtyDevice(open'[0][s])
                           /\ ttyFd' # -1 => /\ console' = Target(open', ttyFd', "write")
                                             /\ console' # Null => status' = "ok"
    BY <2>3
  <2>5. PICK table : table = open'
    OBVIOUS
  <2>6. ttyFd' # -1 /\ console' = table[0][s]
    BY <2>4, <2>5, TtyReached
  <2>7. PICK e : e = table[0][s]
    OBVIOUS
  <2>8. TtyDevice(e)'
    BY <2>4, <2>5, <2>7, TtyStays
  <2> QED BY <2>4, <2>5, <2>6, <2>7, <2>8 DEF ConsoleInv
<1>3. ASSUME ~Printf PROVE UNCHANGED <<ttyFd, console>> /\ status' # "wild"
  <2>1. ASSUME NEW p \in Paths, DeviceOpen(p) PROVE status' # "wild"
    BY <2>1, OpenSound DEF DeviceOpen, Opens, OpenKeeps
  <2>2. ASSUME NEW n \in BoardReqs, BoardReq(n) PROVE status' # "wild"
    BY <2>2, BoardReqKeeps
  <2> QED BY <1>3, <2>1, <2>2 DEF Next, vars, BoardReq, RegisterDevice, DeviceOpen, ConsoleInv
<1> QED BY <1>1, <1>2, <1>3

(* device_open never stores through slot -1: whenever it finds a device, the *)
(* search of the open table has left an empty slot (driver.c:158-211).       *)
THEOREM NeverInFrontOfTheTable == Spec => []NeverCorrupt
<1>1. IInv => NeverCorrupt
  BY DEF IInv
<1> QED BY InvariantHolds, <1>1, PTL

(* The device count, the class lists and the open table of every board      *)
(* agree after any calls, failed registrations included (driver.c:86-211).  *)
THEOREM RegistryAgrees == Spec => []TablesAgree
<1>1. IInv => TablesAgree
  BY DEF IInv
<1> QED BY InvariantHolds, <1>1, PTL

(* No later call changes what an open descriptor stands for                 *)
(* (driver.c:171-211).                                                      *)
THEOREM DescriptorsKept == Spec => DescriptorsStable
<1>1. IInv /\ [Next]_vars => [KeepsSlots]_vars
  BY StepHolds
<1> QED BY InvariantHolds, <1>1, PTL DEF Spec, DescriptorsStable

(* Opening a device that is registered gives a descriptor whose slot holds a *)
(* device of that name, whatever was registered and opened before            *)
(* (driver.c:139-211).                                                       *)
THEOREM RegisteredDevicesOpen ==
  ASSUME PathsClear
  PROVE  Spec => []RegisteredOpens
<1>1. Init => RegisteredOpens
  BY DEF Init, RegisteredOpens
<1>2. IInv /\ PoolInv /\ RegisteredOpens /\ [Next]_vars => RegisteredOpens'
  BY RegisteredOpensStep
<1> QED BY <1>1, <1>2, InvariantHolds, PoolHolds, PTL DEF Spec

(* printf reaches the device that was registered as the TTY, at its first   *)
(* call and through the descriptor it keeps (printf.c:46-70).               *)
THEOREM ConsoleReachesTty ==
  ASSUME ConsoleCalls
  PROVE  Spec => []ConsoleIsTty
<1>1. Init => ConsoleInv
  BY DEF Init, ConsoleInv
<1>2. IInv /\ PoolInv /\ ListedInv /\ ConsoleInv /\ [Next]_vars => ConsoleInv'
  BY ConsoleStep
<1>3. ListedInv /\ ConsoleInv => ConsoleIsTty
  BY TtyWrites DEF ConsoleInv, ConsoleIsTty
<1> QED BY <1>1, <1>2, <1>3, InvariantHolds, PoolHolds, ListedHolds, PTL DEF Spec
=============================================================================
