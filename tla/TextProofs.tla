----------------------------- MODULE TextProofs -----------------------------
(***************************************************************************)
(* Proofs about the splitting of paths, for any names, any buffers that    *)
(* hold them and any old contents of these; about two strings taken apart  *)
(* by strtok and strsep, in any memory; and about one call of any other    *)
(* function of lib/string.c, in any memory.                                *)
(***************************************************************************)
EXTENDS StringProps, SequenceTheorems, NaturalsInduction, WellFoundedInduction,
        FiniteSetTheorems, TLAPS

LEMMA Induct ==
  ASSUME NEW S, 0 \in S, \A n \in Nat : n \in S => n + 1 \in S
  PROVE  Nat \subseteq S
<1> SUFFICES ASSUME Nat \ S # {} PROVE FALSE
  OBVIOUS
<1> DEFINE T == Nat \ S
<1>1. PICK x \in T : \A y \in T : ~(<<y, x>> \in OpToRel(<, Nat))
  <2>1. T \in SUBSET Nat /\ T # {}
    OBVIOUS
  <2> HIDE DEF T
  <2> QED BY <2>1, NatLessThanWellFounded, WFMin
<1>2. x \in Nat /\ x # 0 /\ x \notin S
  BY <1>1
<1>3. x - 1 \in Nat /\ (x - 1) + 1 = x /\ x - 1 < x
  BY <1>2
<1>4. <<x - 1, x>> \in OpToRel(<, Nat)
  BY <1>2, <1>3, Zenon DEF OpToRel
<1>5. x - 1 \in S
  BY <1>1, <1>3, <1>4
<1> QED BY <1>2, <1>3, <1>5

-----------------------------------------------------------------------------
(* strnchr goes up from s to a place q where it has counted n slashes, or   *)
(* where the string ends; C[p] counts those before p.                       *)
CountsFrom(m, N, s, n, q, C) ==
  /\ N \in Nat /\ DOMAIN m = 0..N /\ n \in Nat /\ s \in Nat /\ q \in s .. N + 1
  /\ C \in [s..q -> Nat] /\ C[s] = 0 /\ (C[q] >= n \/ m[q] = End)
  /\ \A p \in s .. q - 1 : /\ m[p] # End /\ C[p] < n
                           /\ C[p + 1] = IF m[p] = Slash THEN C[p] + 1 ELSE C[p]

LEMMA StrnchrFrom ==
  ASSUME NEW m, NEW N, NEW s, NEW n, NEW q, NEW C, CountsFrom(m, N, s, n, q, C)
  PROVE  Strnchr(m, s, n) = IF C[q] = 0 THEN Null ELSE q
<1>0. /\ N \in Nat /\ DOMAIN m = 0..N /\ n \in Nat /\ s \in Nat /\ q \in s .. N + 1
      /\ C \in [s..q -> Nat] /\ C[s] = 0 /\ (C[q] >= n \/ m[q] = End)
      /\ \A p \in s .. q - 1 : /\ m[p] # End /\ C[p] < n
                               /\ C[p + 1] = IF m[p] = Slash THEN C[p] + 1 ELSE C[p]
  BY DEF CountsFrom
<1> DEFINE passes == Cardinality(DOMAIN m) + 1
           Stop(x) == m[x.p] = End \/ x.count >= n
           Step(x) == [p |-> x.p + 1, count |-> IF m[x.p] = Slash THEN x.count + 1 ELSE x.count]
           Way(f) == f = [k \in 0..passes |->
                            IF k = 0 THEN [p |-> s, count |-> 0]
                            ELSE IF Stop(f[k - 1]) THEN f[k - 1] ELSE Step(f[k - 1])]
           f == CHOOSE g : Way(g)
           At(k) == [p |-> IF s + k <= q THEN s + k ELSE q,
                     count |-> IF s + k <= q THEN C[s + k] ELSE C[q]]
<1>1. passes = N + 2
  BY <1>0, FS_Interval
<1>2. Strnchr(m, s, n) = IF f[passes].count = 0 THEN Null ELSE f[passes].p
  BY DEF Strnchr, Loop
<1> HIDE DEF passes
<1>3. At(0) = [p |-> s, count |-> 0]
  BY <1>0, <1>1
<1>4. ASSUME NEW k \in Nat PROVE At(k + 1) = IF Stop(At(k)) THEN At(k) ELSE Step(At(k))
  <2>1. CASE s + k < q
    <3>0. s \in Nat /\ q \in Nat /\ n \in Nat
      BY <1>0
    <3>1. PICK j \in Nat : j = s + k
      BY <3>0
    <3>2. /\ j \in s .. q - 1 /\ j \in s..q /\ j <= q /\ j + 1 <= q
          /\ s + (k + 1) = j + 1 /\ s + k = j
      BY <2>1, <3>0, <3>1
    <3>3. At(k) = [p |-> j, count |-> C[j]] /\ At(k + 1) = [p |-> j + 1, count |-> C[j + 1]]
      BY <3>2
    <3>4. /\ m[j] # End /\ C[j] < n
          /\ C[j + 1] = IF m[j] = Slash THEN C[j] + 1 ELSE C[j]
      BY <1>0, <3>2
    <3>5. C[j] \in Nat
      BY <1>0, <3>2
    <3>6. ~ (C[j] >= n)
      BY <3>0, <3>4, <3>5
    <3>7. ~ Stop(At(k))
      BY <3>3, <3>4, <3>6
    <3> QED BY <3>3, <3>4, <3>7
  <2>2. CASE s + k >= q
    <3>0. s \in Nat /\ q \in Nat
      BY <1>0
    <3>1. At(k) = [p |-> q, count |-> C[q]] /\ At(k + 1) = [p |-> q, count |-> C[q]]
      BY <2>2, <3>0
    <3>2. Stop(At(k))
      BY <1>0, <3>1
    <3> QED BY <3>1, <3>2
  <2> QED BY <1>0, <2>1, <2>2
<1> HIDE DEF Stop, Step, At
<1>5. Way([k \in 0..passes |-> At(k)])
  <2> DEFINE g == [k \in 0..passes |-> At(k)]
  <2>1. ASSUME NEW k \in 0..passes
        PROVE  g[k] = IF k = 0 THEN [p |-> s, count |-> 0]
                      ELSE IF Stop(g[k - 1]) THEN g[k - 1] ELSE Step(g[k - 1])
    <3>1. CASE k = 0
      BY <1>3, <3>1
    <3>2. CASE k # 0
      <4>1. k - 1 \in Nat /\ (k - 1) + 1 = k /\ k - 1 \in 0..passes
        BY <1>0, <1>1, <3>2
      <4>2. At(k) = IF Stop(At(k - 1)) THEN At(k - 1) ELSE Step(At(k - 1))
        BY <1>4, <4>1
      <4> QED BY <3>2, <4>1, <4>2
    <3> QED BY <3>1, <3>2
  <2> QED BY <2>1
<1>6. Way(f)
  BY <1>5
<1> HIDE DEF f
<1> DEFINE S == {k \in Nat : k <= passes => f[k] = At(k)}
<1>7. 0 \in S
  BY <1>3, <1>6
<1>8. ASSUME NEW k \in Nat, k \in S PROVE k + 1 \in S
  <2> SUFFICES ASSUME k + 1 <= passes PROVE f[k + 1] = At(k + 1)
    OBVIOUS
  <2>1. k + 1 \in 0..passes /\ k + 1 # 0 /\ (k + 1) - 1 = k /\ f[k] = At(k)
    BY <1>0, <1>1, <1>8
  <2>2. f[k + 1] = IF Stop(f[k]) THEN f[k] ELSE Step(f[k])
    BY <1>6, <2>1
  <2> QED BY <1>4, <2>1, <2>2
<1> HIDE DEF S
<1>9. passes \in S
  <2>1. passes \in Nat
    BY <1>0, <1>1
  <2> QED BY <1>7, <1>8, <2>1, Induct
<1>10. f[passes] = At(passes)
  BY <1>0, <1>1, <1>9 DEF S
<1>11. At(passes).count = C[q] /\ At(passes).p = q
  BY <1>0, <1>1 DEF At
<1> QED BY <1>0, <1>2, <1>10, <1>11

(* In a path there are enough of them, and no terminator before q.          *)
Counts(m, N, n, q, C) ==
  /\ N \in Nat /\ DOMAIN m = 0..N /\ n \in Nat \ {0} /\ q \in 0 .. N + 1
  /\ C \in [0..q -> Nat] /\ C[0] = 0 /\ C[q] = n
  /\ \A p \in 0 .. q - 1 : /\ m[p] # End /\ C[p] < n
                           /\ C[p + 1] = IF m[p] = Slash THEN C[p] + 1 ELSE C[p]

LEMMA StrnchrIs ==
  ASSUME NEW m, NEW N, NEW n, NEW q, NEW C, Counts(m, N, n, q, C)
  PROVE  Strnchr(m, 0, n) = q
<1>1. CountsFrom(m, N, 0, n, q, C) /\ C[q] = n /\ n # 0
  BY DEF Counts, CountsFrom
<1> QED BY <1>1, StrnchrFrom

LEMMA StrlenIs ==
  ASSUME NEW N \in Nat, NEW m, DOMAIN m = 0..N, m[N] = End, \A p \in 0 .. N - 1 : m[p] # End
  PROVE  Strlen(m, 0) = N
<1>1. Cardinality(DOMAIN m) = N + 1
  BY FS_Interval
<1>2. \A p \in 0 .. N + 1 : m[p] = End /\ (\A q \in 0 .. p - 1 : ~(m[q] = End)) <=> p = N
  OBVIOUS
<1> QED BY <1>1, <1>2 DEF Strlen, Upwards
-----------------------------------------------------------------------------
(* A path in memory: where its names are. *)
Name(n, i) == IF i = 1 THEN n.board ELSE IF i = 2 THEN n.class ELSE n.device
From(n, i) == IF i = 1 THEN 1
              ELSE IF i = 2 THEN Len(n.board) + 2 ELSE Len(n.board) + Len(n.class) + 3
PathLen(n) == Len(n.board) + Len(n.class) + Len(n.device) + 3 + (IF n.slash THEN 1 ELSE 0)

LEMMA NameIs ==
  ASSUME NEW n \in Paths, NEW i \in 1..3
  PROVE  /\ Name(n, i) \in Seq(Nat \ {Slash, End}) /\ Len(Name(n, i)) \in 1 .. BufSize - 1
         /\ \A k \in 1..Len(Name(n, i)) : Name(n, i)[k] \in Nat \ {Slash, End}
<1>1. Name(n, i) \in Boards \cup Classes \cup Devices
  BY DEF Paths, Name
<1>2. /\ Name(n, i) \in Seq(Nat \ {Slash, End}) /\ Name(n, i) # <<>>
      /\ Len(Name(n, i)) < BufSize /\ BufSize \in Nat
  BY <1>1, NameAssumption
<1> HIDE DEF Name
<1>3. Len(Name(n, i)) # 0 /\ Len(Name(n, i)) \in Nat
  BY <1>2, EmptySeq
<1> QED BY <1>2, <1>3, ElementOfSeq

LEMMA PathSizes ==
  ASSUME NEW n \in Paths
  PROVE  /\ Len(n.board) \in 1 .. BufSize - 1 /\ Len(n.class) \in 1 .. BufSize - 1
         /\ Len(n.device) \in 1 .. BufSize - 1 /\ n.slash \in BOOLEAN
         /\ PathLen(n) \in Nat /\ PathLen(n) < TmpSize /\ TmpSize \in Nat /\ BufSize \in Nat
         /\ BufSize < TmpSize
<1>1. /\ Len(n.board) \in 1 .. BufSize - 1 /\ Len(n.class) \in 1 .. BufSize - 1
      /\ Len(n.device) \in 1 .. BufSize - 1
  <2>1. Name(n, 1) = n.board /\ Name(n, 2) = n.class /\ Name(n, 3) = n.device
    BY DEF Name
  <2>2. 1 \in 1..3 /\ 2 \in 1..3 /\ 3 \in 1..3
    OBVIOUS
  <2> QED BY <2>1, <2>2, NameIs
<1> DEFINE b == Len(n.board)
           c == Len(n.class)
           d == Len(n.device)
           e == IF n.slash THEN 1 ELSE 0
<1>2. n.slash \in BOOLEAN /\ PathLen(n) = b + c + d + 3 + e /\ e \in 0..1
  BY DEF Paths, PathLen
<1>3. BufSize \in Nat /\ TmpSize \in Nat /\ 3 * BufSize + 1 < TmpSize
  BY NameAssumption
<1>4. b \in 1 .. BufSize - 1 /\ c \in 1 .. BufSize - 1 /\ d \in 1 .. BufSize - 1
  BY <1>1
<1> HIDE DEF b, c, d, e
<1>5. PathLen(n) \in Nat /\ PathLen(n) < TmpSize /\ BufSize < TmpSize
  BY <1>2, <1>3, <1>4
<1> QED BY <1>1, <1>2, <1>3, <1>5

LEMMA PathIs ==
  ASSUME NEW n \in Paths
  PROVE  LET m == PathOf(n)
             b == Len(n.board)
             c == Len(n.class)
             d == Len(n.device)
         IN  /\ DOMAIN m = 0..PathLen(n) /\ m[PathLen(n)] = End
             /\ \A k \in 0 .. PathLen(n) - 1 : m[k] \in Nat \ {End}
             /\ m[0] = Slash /\ \A k \in 0 .. b - 1 : m[1 + k] = n.board[k + 1]
             /\ m[b + 1] = Slash /\ \A k \in 0 .. c - 1 : m[b + 2 + k] = n.class[k + 1]
             /\ m[b + c + 2] = Slash /\ \A k \in 0 .. d - 1 : m[b + c + 3 + k] = n.device[k + 1]
             /\ n.slash => m[b + c + d + 3] = Slash
<1> DEFINE m == PathOf(n)
           b == Len(n.board)
           c == Len(n.class)
           d == Len(n.device)
           C == Nat \ {End}
           tail == IF n.slash THEN <<Slash>> ELSE <<>>
           t1 == <<Slash>> \o n.board
           t2 == t1 \o <<Slash>>
           t3 == t2 \o n.class
           t4 == t3 \o <<Slash>>
           t5 == t4 \o n.device
           text == t5 \o tail
<1>1. /\ n.board \in Seq(C) /\ n.class \in Seq(C) /\ n.device \in Seq(C)
      /\ b \in Nat /\ c \in Nat /\ d \in Nat
      /\ Len(n.board) = b /\ Len(n.class) = c /\ Len(n.device) = d
  <2>1. /\ n.board \in Seq(Nat \ {Slash, End}) /\ n.class \in Seq(Nat \ {Slash, End})
        /\ n.device \in Seq(Nat \ {Slash, End})
    BY NameIs DEF Name
  <2> QED BY <2>1
<1>2. <<Slash>> \in Seq(C) /\ Len(<<Slash>>) = 1 /\ <<Slash>>[1] = Slash
      /\ tail \in Seq(C) /\ Len(tail) = (IF n.slash THEN 1 ELSE 0)
      /\ (n.slash => tail[1] = Slash)
  <2>1. Slash \in C
    BY NameAssumption
  <2> HIDE DEF C
  <2>2. <<Slash>> \in Seq(C) /\ Len(<<Slash>>) = 1 /\ <<Slash>>[1] = Slash
    BY <2>1
  <2>3. <<>> \in Seq(C) /\ Len(<<>>) = 0
    OBVIOUS
  <2> QED BY <2>2, <2>3
<1>3. \A r, s \in Seq(C) : /\ r \o s \in Seq(C) /\ Len(r \o s) = Len(r) + Len(s)
                           /\ \A i \in 1 .. Len(r) + Len(s) :
                                (r \o s)[i] = IF i <= Len(r) THEN r[i] ELSE s[i - Len(r)]
  BY ConcatProperties
<1> HIDE DEF C, tail, b, c, d
<1>4. /\ t1 \in Seq(C) /\ Len(t1) = b + 1
      /\ \A i \in 1 .. b + 1 : t1[i] = IF i = 1 THEN Slash ELSE n.board[i - 1]
  <2>1. /\ t1 \in Seq(C) /\ Len(t1) = 1 + b
        /\ \A i \in 1 .. 1 + b : t1[i] = IF i <= 1 THEN <<Slash>>[i] ELSE n.board[i - 1]
    BY <1>1, <1>2, <1>3
  <2> HIDE DEF t1
  <2> QED BY <1>1, <1>2, <2>1
<1>5. /\ t2 \in Seq(C) /\ Len(t2) = b + 2
      /\ \A i \in 1 .. b + 2 : t2[i] = IF i <= b + 1 THEN t1[i] ELSE Slash
  <2>1. /\ t2 \in Seq(C) /\ Len(t2) = Len(t1) + 1
        /\ \A i \in 1 .. Len(t1) + 1 : t2[i] = IF i <= Len(t1) THEN t1[i] ELSE <<Slash>>[i - Len(t1)]
    BY <1>2, <1>3, <1>4
  <2> HIDE DEF t1, t2
  <2> QED BY <1>1, <1>2, <1>4, <2>1
<1>6. /\ t3 \in Seq(C) /\ Len(t3) = b + c + 2
      /\ \A i \in 1 .. b + c + 2 : t3[i] = IF i <= b + 2 THEN t2[i] ELSE n.class[i - (b + 2)]
  <2>1. /\ t3 \in Seq(C) /\ Len(t3) = Len(t2) + c
        /\ \A i \in 1 .. Len(t2) + c : t3[i] = IF i <= Len(t2) THEN t2[i] ELSE n.class[i - Len(t2)]
    BY <1>1, <1>3, <1>5
  <2> HIDE DEF t1, t2, t3
  <2> QED BY <1>1, <1>5, <2>1
<1>7. /\ t4 \in Seq(C) /\ Len(t4) = b + c + 3
      /\ \A i \in 1 .. b + c + 3 : t4[i] = IF i <= b + c + 2 THEN t3[i] ELSE Slash
  <2>1. /\ t4 \in Seq(C) /\ Len(t4) = Len(t3) + 1
        /\ \A i \in 1 .. Len(t3) + 1 : t4[i] = IF i <= Len(t3) THEN t3[i] ELSE <<Slash>>[i - Len(t3)]
    BY <1>2, <1>3, <1>6
  <2> HIDE DEF t1, t2, t3, t4
  <2> QED BY <1>1, <1>2, <1>6, <2>1
<1>8. /\ t5 \in Seq(C) /\ Len(t5) = b + c + d + 3
      /\ \A i \in 1 .. b + c + d + 3 :
           t5[i] = IF i <= b + c + 3 THEN t4[i] ELSE n.device[i - (b + c + 3)]
  <2>1. /\ t5 \in Seq(C) /\ Len(t5) = Len(t4) + d
        /\ \A i \in 1 .. Len(t4) + d : t5[i] = IF i <= Len(t4) THEN t4[i] ELSE n.device[i - Len(t4)]
    BY <1>1, <1>3, <1>7
  <2> HIDE DEF t1, t2, t3, t4, t5
  <2> QED BY <1>1, <1>7, <2>1
<1>9. /\ text \in Seq(C) /\ Len(text) = PathLen(n)
      /\ \A i \in 1 .. b + c + d + 3 : text[i] = t5[i]
      /\ n.slash => text[b + c + d + 4] = Slash
  <2>1. /\ text \in Seq(C) /\ Len(text) = Len(t5) + Len(tail)
        /\ \A i \in 1 .. Len(t5) + Len(tail) : text[i] = IF i <= Len(t5) THEN t5[i] ELSE tail[i - Len(t5)]
    BY <1>2, <1>3, <1>8
  <2>2. n.slash \in BOOLEAN
    BY DEF Paths
  <2> HIDE DEF t1, t2, t3, t4, t5, text, tail
  <2>3. PathLen(n) = b + c + d + 3 + (IF n.slash THEN 1 ELSE 0)
    BY DEF PathLen, b, c, d
  <2>4. CASE n.slash
    BY <1>1, <1>2, <1>8, <2>1, <2>3, <2>4
  <2>5. CASE ~n.slash
    BY <1>1, <1>2, <1>8, <2>1, <2>3, <2>5
  <2> QED BY <2>2, <2>4, <2>5
<1>10. m = [k \in 0..Len(text) |-> IF k < Len(text) THEN text[k + 1] ELSE End]
  BY DEF PathOf, tail
<1> HIDE DEF m, text, t1, t2, t3, t4, t5
<1>11. \A k \in 0 .. PathLen(n) - 1 : text[k + 1] \in C /\ m[k] = text[k + 1]
  <2> SUFFICES ASSUME NEW k \in 0 .. PathLen(n) - 1 PROVE text[k + 1] \in C /\ m[k] = text[k + 1]
    OBVIOUS
  <2>1. PathLen(n) \in Nat
    BY PathSizes
  <2>2. k + 1 \in 1..Len(text) /\ k \in 0..Len(text) /\ k < Len(text)
    BY <1>9, <2>1
  <2> QED BY <1>9, <1>10, <2>2, ElementOfSeq
<1>12. /\ b + c + d + 3 <= PathLen(n) /\ (n.slash => PathLen(n) = b + c + d + 4) /\ PathLen(n) \in Nat
       /\ b \in Nat \ {0} /\ c \in Nat \ {0} /\ d \in Nat \ {0}
  <2>1. /\ b \in 1 .. BufSize - 1 /\ c \in 1 .. BufSize - 1 /\ d \in 1 .. BufSize - 1
        /\ BufSize \in Nat /\ n.slash \in BOOLEAN
    BY PathSizes DEF b, c, d
  <2>2. PathLen(n) = b + c + d + 3 + (IF n.slash THEN 1 ELSE 0)
    BY DEF PathLen, b, c, d
  <2> QED BY <2>1, <2>2
<1>13. DOMAIN m = 0..PathLen(n) /\ m[PathLen(n)] = End
  BY <1>9, <1>10, <1>12
<1> DEFINE Same == /\ \A i \in 1 .. b + c + 3 : text[i] = t4[i]
                   /\ \A i \in 1 .. b + c + 2 : text[i] = t3[i]
                   /\ \A i \in 1 .. b + 2 : text[i] = t2[i]
                   /\ \A i \in 1 .. b + 1 : text[i] = t1[i]
<1>14. Same
  <2>1. \A i \in 1 .. b + c + 3 : text[i] = t4[i]
    BY <1>1, <1>8, <1>9
  <2>2. \A i \in 1 .. b + c + 2 : text[i] = t3[i]
    BY <1>1, <1>7, <2>1
  <2>3. ASSUME NEW i \in 1 .. b + 2 PROVE text[i] = t2[i]
    <3>1. i \in 1 .. b + c + 2 /\ i <= b + 2
      BY <1>1
    <3> QED BY <1>6, <2>2, <3>1
  <2>4. \A i \in 1 .. b + 1 : text[i] = t1[i]
    BY <1>1, <1>5, <2>3
  <2> QED BY <2>1, <2>2, <2>3, <2>4
<1>15. m[0] = Slash /\ \A k \in 0 .. b - 1 : m[1 + k] = n.board[k + 1]
  <2>1. m[0] = Slash
    BY <1>4, <1>11, <1>12, <1>14
  <2>2. ASSUME NEW k \in 0 .. b - 1 PROVE m[1 + k] = n.board[k + 1]
    <3>1. /\ m[1 + k] = text[(1 + k) + 1] /\ (1 + k) + 1 \in 1 .. b + 1 /\ (1 + k) + 1 = 1 + (k + 1)
          /\ k + 1 \in 1..b
      BY <1>11, <1>12
    <3>2. t1[1 + (k + 1)] = n.board[k + 1]
      BY <1>12, <1>4, <3>1
    <3> QED BY <1>12, <1>5, <1>14, <3>1, <3>2
  <2> QED BY <2>1, <2>2
<1>16. m[b + 1] = Slash /\ \A k \in 0 .. c - 1 : m[b + 2 + k] = n.class[k + 1]
  <2>1. m[b + 1] = Slash
    <3>1. m[b + 1] = text[b + 2]
      BY <1>11, <1>12
    <3> QED BY <1>12, <1>5, <1>14, <3>1
  <2>2. ASSUME NEW k \in 0 .. c - 1 PROVE m[b + 2 + k] = n.class[k + 1]
    <3>1. m[b + 2 + k] = text[b + 2 + (k + 1)] /\ k + 1 \in 1..c
      <4>1. /\ b + 2 + k \in 0 .. PathLen(n) - 1 /\ (b + 2 + k) + 1 = b + 2 + (k + 1)
            /\ k + 1 \in 1..c
        BY <1>12
      <4>2. m[b + 2 + k] = text[(b + 2 + k) + 1]
        BY <1>11, <4>1
      <4> QED BY <4>1, <4>2
    <3>2. t3[b + 2 + (k + 1)] = n.class[k + 1]
      <4> DEFINE i == b + 2 + (k + 1)
      <4>1. i \in 1 .. b + c + 2 /\ ~(i <= b + 2) /\ i - (b + 2) = k + 1
        BY <1>12, <3>1
      <4> HIDE DEF i
      <4>2. t3[i] = n.class[k + 1]
        BY <1>6, <4>1
      <4> QED BY <4>2 DEF i
    <3> QED BY <1>12, <1>7, <1>14, <3>1, <3>2
  <2> QED BY <2>1, <2>2
<1>17. m[b + c + 2] = Slash /\ \A k \in 0 .. d - 1 : m[b + c + 3 + k] = n.device[k + 1]
  <2>1. m[b + c + 2] = Slash
    <3>1. m[b + c + 2] = text[b + c + 3]
      BY <1>11, <1>12
    <3>2. b + c + 3 \in 1 .. b + c + 3 /\ ~(b + c + 3 <= b + c + 2)
      BY <1>12
    <3> QED BY <1>7, <1>14, <3>1, <3>2
  <2>2. ASSUME NEW k \in 0 .. d - 1 PROVE m[b + c + 3 + k] = n.device[k + 1]
    <3>1. m[b + c + 3 + k] = text[b + c + 3 + (k + 1)] /\ k + 1 \in 1..d
      <4>1. /\ b + c + 3 + k \in 0 .. PathLen(n) - 1 /\ (b + c + 3 + k) + 1 = b + c + 3 + (k + 1)
            /\ k + 1 \in 1..d
        BY <1>12
      <4>2. m[b + c + 3 + k] = text[(b + c + 3 + k) + 1]
        BY <1>11, <4>1
      <4> QED BY <4>1, <4>2
    <3>2. t5[b + c + 3 + (k + 1)] = n.device[k + 1]
      <4> DEFINE i == b + c + 3 + (k + 1)
      <4>1. i \in 1 .. b + c + d + 3 /\ ~(i <= b + c + 3) /\ i - (b + c + 3) = k + 1
        BY <1>12, <3>1
      <4> HIDE DEF i
      <4>2. t5[i] = n.device[k + 1]
        BY <1>8, <4>1
      <4> QED BY <4>2 DEF i
    <3>3. b + c + 3 + (k + 1) \in 1 .. b + c + d + 3
      BY <1>12, <3>1
    <3> QED BY <1>12, <1>9, <3>1, <3>2, <3>3
  <2> QED BY <2>1, <2>2
<1>18. n.slash => m[b + c + d + 3] = Slash
  BY <1>9, <1>11, <1>12
<1> QED BY <1>11, <1>13, <1>15, <1>16, <1>17, <1>18 DEF C, m, b, c, d
LEMMA PathSlashes ==
  ASSUME NEW n \in Paths, NEW i \in 1..3
  PROVE  Strnchr(PathOf(n), 0, i) = From(n, i) /\ Strlen(PathOf(n), 0) = PathLen(n)
<1> DEFINE m == PathOf(n)
           b == Len(n.board)
           c == Len(n.class)
           d == Len(n.device)
           q == From(n, i)
           C == [p \in 0..q |-> IF p = 0 THEN 0 ELSE IF p <= b + 1 THEN 1
                                ELSE IF p <= b + c + 2 THEN 2 ELSE 3]
<1>1. /\ b \in Nat \ {0} /\ c \in Nat \ {0} /\ d \in Nat \ {0}
      /\ b + c + d + 3 <= PathLen(n) /\ PathLen(n) \in Nat
  <2>1. PathLen(n) = b + c + d + 3 + (IF n.slash THEN 1 ELSE 0) /\ n.slash \in BOOLEAN
    BY PathSizes DEF PathLen
  <2>2. b \in 1 .. BufSize - 1 /\ c \in 1 .. BufSize - 1 /\ d \in 1 .. BufSize - 1 /\ BufSize \in Nat
    BY PathSizes
  <2> HIDE DEF b, c, d
  <2> QED BY <2>1, <2>2
<1>2. /\ q = (IF i = 1 THEN 1 ELSE IF i = 2 THEN b + 2 ELSE b + c + 3)
      /\ \A p \in 0..q : C[p] = IF p = 0 THEN 0 ELSE IF p <= b + 1 THEN 1
                                ELSE IF p <= b + c + 2 THEN 2 ELSE 3
  BY DEF From
<1>3. /\ DOMAIN m = 0..PathLen(n) /\ m[PathLen(n)] = End
      /\ \A k \in 0 .. PathLen(n) - 1 : m[k] # End
      /\ m[0] = Slash /\ m[b + 1] = Slash /\ m[b + c + 2] = Slash
      /\ \A k \in 0 .. b - 1 : m[1 + k] = n.board[k + 1]
      /\ \A k \in 0 .. c - 1 : m[b + 2 + k] = n.class[k + 1]
  BY PathIs
<1>4. /\ \A k \in 1..b : n.board[k] # Slash
      /\ \A k \in 1..c : n.class[k] # Slash
  <2>1. Name(n, 1) = n.board /\ Name(n, 2) = n.class
    BY DEF Name
  <2>2. 1 \in 1..3 /\ 2 \in 1..3
    OBVIOUS
  <2> QED BY <2>1, <2>2, NameIs
<1>5. C \in [0..q -> Nat]
  OBVIOUS
<1> HIDE DEF m, b, c, d, q, C
<1>6. q \in 0 .. PathLen(n) + 1 /\ q \in Nat
  BY <1>1, <1>2
<1>7. C[0] = 0 /\ C[q] = i
  BY <1>1, <1>2
<1>8. ASSUME NEW p \in 0 .. q - 1
      PROVE  /\ m[p] # End /\ C[p] < i
             /\ C[p + 1] = IF m[p] = Slash THEN C[p] + 1 ELSE C[p]
  <2>1. p \in 0 .. PathLen(n) - 1 /\ p \in 0..q /\ p + 1 \in 0..q
    BY <1>1, <1>2, <1>6
  <2>2. C[p] < i
    BY <1>1, <1>2, <2>1
  <2>3. m[p] = Slash <=> p = 0 \/ p = b + 1 \/ p = b + c + 2
    <3>1. CASE p \in 1..b
      <4>1. p - 1 \in 0 .. b - 1 /\ 1 + (p - 1) = p /\ (p - 1) + 1 = p
        BY <1>1, <3>1
      <4>2. m[p] = n.board[p]
        BY <1>3, <4>1
      <4> QED BY <1>1, <1>4, <3>1, <4>2
    <3>2. CASE p \in b + 2 .. b + c + 1
      <4> DEFINE k == p - (b + 2)
      <4>1. k \in 0 .. c - 1 /\ b + 2 + k = p /\ k + 1 \in 1..c
        BY <1>1, <3>2
      <4>2. m[p] = n.class[k + 1]
        BY <1>3, <4>1
      <4> HIDE DEF k
      <4> QED BY <1>1, <1>4, <3>2, <4>1, <4>2
    <3>3. CASE p \in {0, b + 1, b + c + 2}
      BY <1>3, <3>3
    <3>4. p <= b + c + 2
      BY <1>1, <1>2, <2>1
    <3> QED BY <1>1, <3>1, <3>2, <3>3, <3>4
  <2>4. C[p + 1] = IF m[p] = Slash THEN C[p] + 1 ELSE C[p]
    BY <1>1, <1>2, <2>1, <2>3
  <2> QED BY <1>3, <2>1, <2>2, <2>4
<1>9. Strnchr(m, 0, i) = q
  <2>1. Counts(m, PathLen(n), i, q, C)
    BY <1>1, <1>3, <1>5, <1>6, <1>7, <1>8 DEF Counts
  <2> QED BY <2>1, StrnchrIs
<1>10. Strlen(m, 0) = PathLen(n)
  BY <1>1, <1>3, StrlenIs
<1> QED BY <1>9, <1>10 DEF m, q

-----------------------------------------------------------------------------
(* What the i-th call finds in its temporary: a name, and behind it a slash *)
(* or, for a device name that ends the path, what was there before.         *)
Temporaries == [0 .. TmpSize - 1 -> Nat]
Buffers == [0 .. BufSize - 1 -> Nat]
NameIn(n, i, T) == \A k \in 0 .. Len(Name(n, i)) - 1 : T[k] = Name(n, i)[k + 1]

LEMMA HeadIs ==
  ASSUME NEW n \in Paths, NEW i \in 1..3, NEW old \in Temporaries
  PROVE  LET T == HeadDeleted(PathOf(n), old, i)
             size == Len(Name(n, i))
         IN  /\ T \in Temporaries /\ NameIn(n, i, T)
             /\ T[size] = IF i < 3 \/ n.slash THEN Slash ELSE old[size]
<1> DEFINE m == PathOf(n)
           T == HeadDeleted(m, old, i)
           size == Len(Name(n, i))
           b == Len(n.board)
           c == Len(n.class)
           d == Len(n.device)
           q == From(n, i)
           len == PathLen(n)
<1>1. /\ b \in 1 .. BufSize - 1 /\ c \in 1 .. BufSize - 1 /\ d \in 1 .. BufSize - 1
      /\ BufSize \in Nat /\ TmpSize \in Nat /\ BufSize < TmpSize
      /\ len \in Nat /\ len < TmpSize /\ n.slash \in BOOLEAN
      /\ len = b + c + d + 3 + (IF n.slash THEN 1 ELSE 0)
  BY PathSizes DEF PathLen
<1>2. /\ q = (IF i = 1 THEN 1 ELSE IF i = 2 THEN b + 2 ELSE b + c + 3)
      /\ size = (IF i = 1 THEN b ELSE IF i = 2 THEN c ELSE d)
      /\ Name(n, i) = IF i = 1 THEN n.board ELSE IF i = 2 THEN n.class ELSE n.device
  BY DEF From, Name
<1>3. /\ m[len] = End /\ \A k \in 0 .. len - 1 : m[k] \in Nat \ {End}
      /\ m[b + 1] = Slash /\ m[b + c + 2] = Slash /\ (n.slash => m[b + c + d + 3] = Slash)
      /\ \A k \in 0 .. b - 1 : m[1 + k] = n.board[k + 1]
      /\ \A k \in 0 .. c - 1 : m[b + 2 + k] = n.class[k + 1]
      /\ \A k \in 0 .. d - 1 : m[b + c + 3 + k] = n.device[k + 1]
  BY PathIs
<1>4. T = [k \in DOMAIN old |-> IF k < len - q THEN m[q + k] ELSE IF k = len THEN End ELSE old[k]]
  BY PathSlashes DEF HeadDeleted
<1>5. DOMAIN old = 0 .. TmpSize - 1 /\ \A k \in 0 .. TmpSize - 1 : old[k] \in Nat
  BY DEF Temporaries
<1>6. End \in Nat
  BY DEF End
<1> HIDE DEF m, T, b, c, d, q, len, size
<1>7. \A k \in 0 .. TmpSize - 1 :
        T[k] = IF k < len - q THEN m[q + k] ELSE IF k = len THEN End ELSE old[k]
  BY <1>4, <1>5
<1>8. q \in Nat /\ size \in Nat /\ q + size <= len /\ size < TmpSize /\ size < len
  BY <1>1, <1>2
<1>9. T \in Temporaries
  <2>1. ASSUME NEW k \in 0 .. TmpSize - 1 PROVE T[k] \in Nat
    <3>1. k < len - q => q + k \in 0 .. len - 1
      BY <1>1, <1>8
    <3> QED BY <1>3, <1>5, <1>6, <1>7, <3>1
  <2> QED BY <1>4, <1>5, <2>1 DEF Temporaries
<1>10. ASSUME NEW k \in 0 .. size - 1 PROVE T[k] = Name(n, i)[k + 1]
  <2>1. T[k] = m[q + k]
    BY <1>1, <1>7, <1>8
  <2>2. CASE i = 1
    BY <1>2, <1>3, <2>1, <2>2
  <2>3. CASE i = 2
    BY <1>2, <1>3, <2>1, <2>3
  <2>4. CASE i = 3
    BY <1>2, <1>3, <2>1, <2>4
  <2> QED BY <2>2, <2>3, <2>4
<1>11. T[size] = IF i < 3 \/ n.slash THEN Slash ELSE old[size]
  <2>1. T[size] = IF size < len - q THEN m[q + size] ELSE old[size]
    BY <1>1, <1>7, <1>8
  <2>2. CASE i = 1
    <3>1. q + size = b + 1 /\ size < len - q
      BY <1>1, <1>2, <2>2
    <3> QED BY <1>3, <2>1, <2>2, <3>1
  <2>3. CASE i = 2
    <3>1. q + size = b + c + 2 /\ size < len - q
      BY <1>1, <1>2, <2>3
    <3> QED BY <1>3, <2>1, <2>3, <3>1
  <2>4. CASE i = 3 /\ n.slash
    <3>1. q + size = b + c + d + 3 /\ size < len - q
      BY <1>1, <1>2, <2>4
    <3> QED BY <1>3, <2>1, <2>4, <3>1
  <2>5. CASE i = 3 /\ ~n.slash
    <3>1. ~(size < len - q)
      BY <1>1, <1>2, <2>5
    <3> QED BY <2>1, <2>5, <3>1
  <2> QED BY <1>1, <2>2, <2>3, <2>4, <2>5
<1> QED BY <1>9, <1>10, <1>11 DEF NameIn, m, T, size

(* With a slash behind the name strdel_tail leaves the name alone.          *)
LEMMA TailIs ==
  ASSUME NEW n \in Paths, NEW i \in 1..3, NEW T \in Temporaries, NameIn(n, i, T),
         T[Len(Name(n, i))] = Slash, NEW buf \in Buffers
  PROVE  /\ Strnchr(T, 0, 1) \in 1..BufSize
         /\ HasName(TailDeleted(T, buf, 1), Name(n, i))
<1> DEFINE size == Len(Name(n, i))
           C == [p \in 0 .. size + 1 |-> IF p = size + 1 THEN 1 ELSE 0]
           N == TmpSize - 1
<1>1. /\ size \in 1 .. BufSize - 1 /\ BufSize \in Nat /\ TmpSize \in Nat /\ BufSize < TmpSize
      /\ \A k \in 1..size : Name(n, i)[k] \in Nat \ {Slash, End}
  BY NameIs, PathSizes
<1>2. DOMAIN T = 0..N /\ \A k \in 0..N : T[k] \in Nat
  BY DEF Temporaries
<1>3. \A k \in 0 .. size - 1 : T[k] = Name(n, i)[k + 1]
  BY DEF NameIn
<1>4. T[size] = Slash /\ Slash # End
  BY NameAssumption
<1>5. /\ C \in [0 .. size + 1 -> Nat] /\ \A p \in 0 .. size + 1 : C[p] = IF p = size + 1 THEN 1 ELSE 0
  OBVIOUS
<1>6. DOMAIN buf = 0 .. BufSize - 1
  BY DEF Buffers
<1> HIDE DEF size, C, N
<1>7. N \in Nat /\ size + 1 \in 0 .. N + 1 /\ N = TmpSize - 1
  BY <1>1 DEF N
<1>8. C[0] = 0 /\ C[size + 1] = 1
  BY <1>1, <1>5
<1>9. ASSUME NEW p \in 0 .. (size + 1) - 1
      PROVE  /\ T[p] # End /\ C[p] < 1
             /\ C[p + 1] = IF T[p] = Slash THEN C[p] + 1 ELSE C[p]
  <2>1. CASE p = size
    BY <1>1, <1>4, <1>5, <2>1
  <2>2. CASE p # size
    <3>1. p \in 0 .. size - 1 /\ p + 1 \in 1..size
      BY <1>1, <2>2
    <3>2. T[p] \notin {Slash, End}
      BY <1>1, <1>3, <3>1
    <3> QED BY <1>1, <1>5, <3>1, <3>2
  <2> QED BY <2>1, <2>2
<1>10. Strnchr(T, 0, 1) = size + 1
  <2>1. Counts(T, N, 1, size + 1, C)
    BY <1>2, <1>5, <1>7, <1>8, <1>9 DEF Counts
  <2> QED BY <2>1, StrnchrIs
<1>11. TailDeleted(T, buf, 1) = [k \in 0 .. BufSize - 1 |-> IF k < (size + 1) - 1 THEN T[k]
                                   ELSE IF k = (size + 1) - 1 THEN End ELSE buf[k]]
  BY <1>6, <1>10 DEF TailDeleted
<1>12. ASSUME NEW k \in 0..size
       PROVE  TailDeleted(T, buf, 1)[k] = IF k < size THEN Name(n, i)[k + 1] ELSE End
  <2>1. k \in 0 .. BufSize - 1
    BY <1>1
  <2> QED BY <1>1, <1>3, <1>11, <2>1
<1>13. Strnchr(T, 0, 1) \in 1..BufSize
  BY <1>1, <1>10
<1> QED BY <1>12, <1>13 DEF HasName, size
-----------------------------------------------------------------------------
LEMMA FreshIs ==
  /\ \A t \in Fresh(TmpSize) : t \in Temporaries
  /\ \A p \in {[i \in 1..3 |-> buf] : buf \in Fresh(BufSize)} : p \in [1..3 -> Buffers]
<1>1. \A byte \in OldBytes : byte \in Nat
  BY NameAssumption
<1>2. ASSUME NEW t \in Fresh(TmpSize) PROVE t \in Temporaries
  BY <1>1, <1>2 DEF Fresh, Temporaries
<1>3. ASSUME NEW buf \in Fresh(BufSize) PROVE buf \in Buffers
  BY <1>1, <1>3 DEF Fresh, Buffers
<1> QED BY <1>2, <1>3

LEMMA InitPath == Init => PathInv
<1> SUFFICES ASSUME Init PROVE PathInv
  OBVIOUS
<1>1. tmp \in Temporaries /\ part \in [1..3 -> Buffers]
  BY FreshIs DEF Init
<1> QED BY <1>1 DEF Init, PathInv, PartsRight, Temporaries, Buffers

LEMMA SplitHolds == PathInv /\ StrSplit => PathInv'
<1> SUFFICES ASSUME PathInv, StrSplit PROVE PathInv'
  OBVIOUS
<1> DEFINE i == calls + 1
           T == HeadDeleted(PathOf(names), tmp, i)
           size == Len(Name(names, i))
<1>1. /\ names \in Paths /\ i \in 1..3 /\ tmp \in Temporaries /\ part \in [1..3 -> Buffers]
      /\ path = PathOf(names) /\ calls \in 0..2 /\ calls' = i /\ tmp' = T
      /\ names' = names /\ path' = path
  BY DEF PathInv, StrSplit, PartsLeft, Temporaries, Buffers
<1>2. /\ T \in Temporaries /\ NameIn(names, i, T)
      /\ T[size] = IF i < 3 \/ names.slash THEN Slash ELSE tmp[size]
  BY <1>1, HeadIs
<1> HIDE DEF T
<1>3. part' \in [1..3 -> Buffers]
  <2>1. CASE Strnchr(T, 0, 1) \in 1..BufSize
    <3>1. part' = [part EXCEPT ![i] = TailDeleted(T, @, 1)]
      BY <1>1, <2>1 DEF StrSplit
    <3>2. TailDeleted(T, part[i], 1) \in Buffers
      <4> DEFINE pos == Strnchr(T, 0, 1)
                 buf == part[i]
      <4>1. buf \in Buffers
        BY <1>1
      <4> HIDE DEF buf
      <4>2. TailDeleted(T, buf, 1) = [k \in DOMAIN buf |-> IF k < pos - 1 THEN T[k]
                                        ELSE IF k = pos - 1 THEN End ELSE buf[k]]
        BY DEF TailDeleted
      <4> HIDE DEF pos
      <4>3. \A k \in 0 .. BufSize - 1 : k \in 0 .. TmpSize - 1
        BY NameAssumption
      <4>4. pos \in Int /\ End \in Nat
        BY <2>1 DEF pos, End
      <4>5. \A k \in 0 .. BufSize - 1 : T[k] \in Nat /\ buf[k] \in Nat
        BY <1>2, <4>1, <4>3 DEF Temporaries, Buffers
      <4>6. DOMAIN buf = 0 .. BufSize - 1
        BY <4>1 DEF Buffers
      <4>7. TailDeleted(T, buf, 1) \in Buffers
        BY <4>2, <4>4, <4>5, <4>6 DEF Buffers
      <4> QED BY <4>7 DEF buf
    <3> QED BY <1>1, <3>1, <3>2
  <2>2. CASE Strnchr(T, 0, 1) \notin 1..BufSize
    BY <1>1, <2>2 DEF StrSplit
  <2> QED BY <2>1, <2>2
<1>4. calls' = 2 => tmp'[Len(names'.class)] = Slash
  BY <1>1, <1>2 DEF Name
<1>5. ASSUME WellFormed PROVE T[size] = Slash
  <2>1. CASE i < 3 \/ names.slash
    BY <1>2, <2>1
  <2>2. CASE ~(i < 3 \/ names.slash)
    <3>1. i = 3 /\ calls = 2 /\ Len(names.device) = Len(names.class)
      BY <1>1, <1>5, <2>2 DEF WellFormed
    <3>2. size = Len(names.class)
      BY <3>1 DEF Name
    <3>3. tmp[Len(names.class)] = Slash
      BY <3>1 DEF PathInv
    <3> QED BY <1>2, <2>2, <3>2, <3>3
  <2> QED BY <2>1, <2>2
<1>6. ASSUME WellFormed
      PROVE  status' = "ok" /\ \A k \in 1..calls' : HasName(part'[k], Wanted(k))
  <2>1. Strnchr(T, 0, 1) \in 1..BufSize /\ HasName(TailDeleted(T, part[i], 1), Name(names, i))
    BY <1>1, <1>2, <1>5, <1>6, TailIs
  <2>2. part' = [part EXCEPT ![i] = TailDeleted(T, @, 1)] /\ status' = status
    BY <1>1, <2>1 DEF StrSplit
  <2>3. status = "ok" /\ \A k \in 1..calls : HasName(part[k], Wanted(k))
    BY <1>6 DEF PathInv, PartsRight
  <2>4. Wanted(i) = Name(names, i)
    BY <1>1 DEF Wanted, Name
  <2>5. ASSUME NEW k \in 1..calls' PROVE HasName(part'[k], Wanted(k))
    <3>1. CASE k = i
      <4>1. part'[k] = TailDeleted(T, part[i], 1)
        BY <1>1, <2>2, <3>1
      <4> QED BY <2>1, <2>4, <3>1, <4>1
    <3>2. CASE k # i
      <4>1. k \in 1..calls /\ part'[k] = part[k]
        BY <1>1, <2>2, <3>2
      <4> QED BY <2>3, <4>1
    <3> QED BY <3>1, <3>2
  <2> QED BY <2>2, <2>3, <2>5
<1>7. PartsRight'
  <2> SUFFICES ASSUME WellFormed' PROVE status' = "ok" /\ \A k \in 1..calls' : HasName(part'[k], Wanted(k)')
    BY DEF PartsRight
  <2>1. WellFormed
    BY <1>1 DEF WellFormed
  <2>2. \A k : Wanted(k)' = Wanted(k)
    BY <1>1 DEF Wanted
  <2> QED BY <1>6, <2>1, <2>2
<1> QED BY <1>1, <1>2, <1>3, <1>4, <1>7 DEF PathInv, Temporaries, Buffers

(* device_open gets the three names of a path that ends in a slash, or has  *)
(* a device name as long as its class name, for any names that fit, any     *)
(* sizes of the buffers and any old contents of the stack, and str_split    *)
(* writes nowhere else (advstr.c:23-65, driver.c:153-156).                  *)
THEOREM PathsTakenApart == Spec => []PartsRight
<1>1. PathInv /\ [Next]_vars => PathInv'
  <2> SUFFICES ASSUME PathInv, [Next]_vars PROVE PathInv'
    OBVIOUS
  <2>1. ASSUME NEW n \in Paths, DeviceOpen(n) PROVE PathInv'
    <3>1. /\ names' = n /\ path' = PathOf(n) /\ calls' = 0 /\ status' = "ok"
          /\ tmp' \in Temporaries /\ part' \in [1..3 -> Buffers]
      BY <2>1, FreshIs DEF DeviceOpen
    <3> QED BY <3>1 DEF PathInv, PartsRight, Temporaries, Buffers
  <2>2. CASE UNCHANGED vars
    BY <2>2 DEF vars, PathInv, PartsRight, WellFormed, Wanted, HasName
  <2> QED BY <2>1, <2>2, SplitHolds DEF Next
<1>2. PathInv => PartsRight
  BY DEF PathInv
<1> QED BY <1>1, <1>2, InitPath, PTL DEF Spec
-----------------------------------------------------------------------------
(* Strings in a memory of N bytes: e is where the one from s on ends.       *)
Memory(m, N) == N \in Nat \ {0} /\ m \in [0 .. N - 1 -> 0..255] /\ m[N - 1] = End

Ends(m, N, s, e) ==
  /\ s \in 0 .. N - 1 /\ e \in s .. N - 1 /\ m[e] = End
  /\ \A p \in s .. e - 1 : m[p] # End

LEMMA LeastOf ==
  ASSUME NEW T \in SUBSET Nat, T # {}
  PROVE  \E x \in T : \A y \in T : x <= y
<1>1. PICK x \in T : \A y \in T : ~(<<y, x>> \in OpToRel(<, Nat))
  BY NatLessThanWellFounded, WFMin
<1>2. ASSUME NEW y \in T PROVE x <= y
  <2>1. x \in Nat /\ y \in Nat /\ ~(<<y, x>> \in OpToRel(<, Nat))
    BY <1>1
  <2>2. ~(y < x)
    BY <2>1, Zenon DEF OpToRel
  <2>3. x \in Nat /\ y \in Nat
    BY <1>1
  <2> QED BY <2>2, <2>3
<1> QED BY <1>2

(* The first place of some from s on, if e is one.                          *)
LEMMA FirstPlace ==
  ASSUME NEW s \in Nat, NEW e \in Nat, s <= e, NEW T, e \in T
  PROVE  \E q \in s..e : q \in T /\ \A p \in s .. q - 1 : p \notin T
<1> DEFINE R == {p \in s..e : p \in T}
<1>1. R \in SUBSET Nat /\ e \in R
  OBVIOUS
<1>2. PICK q \in R : \A y \in R : q <= y
  BY <1>1, LeastOf
<1>3. ASSUME NEW p \in s .. q - 1 PROVE p \notin T
  <2>1. p \in s..e /\ ~(q <= p)
    BY <1>1, <1>2
  <2> QED BY <1>2, <2>1
<1> QED BY <1>1, <1>2, <1>3

LEMMA EndExists ==
  ASSUME NEW N, NEW m, Memory(m, N), NEW s \in 0 .. N - 1
  PROVE  \E e : Ends(m, N, s, e)
<1>1. N - 1 \in Nat /\ s \in Nat /\ s <= N - 1 /\ m[N - 1] = End
  BY DEF Memory
<1> DEFINE T == {p \in 0 .. N - 1 : m[p] = End}
<1>2. N - 1 \in T
  BY <1>1
<1> HIDE DEF T
<1>3. PICK q \in s .. N - 1 : q \in T /\ \A p \in s .. q - 1 : p \notin T
  BY <1>1, <1>2, FirstPlace
<1>4. Ends(m, N, s, q)
  BY <1>1, <1>3 DEF Ends, T
<1> QED BY <1>4

LEMMA SizeIs ==
  ASSUME NEW N, NEW m, Memory(m, N)
  PROVE  N \in Nat \ {0} /\ DOMAIN m = 0 .. N - 1 /\ Cardinality(DOMAIN m) = N
<1>1. N \in Nat \ {0} /\ DOMAIN m = 0 .. N - 1
  BY DEF Memory
<1>2. Cardinality(0 .. N - 1) = N
  BY <1>1, FS_Interval
<1> QED BY <1>1, <1>2

LEMMA StrlenAt ==
  ASSUME NEW N, NEW m, Memory(m, N), NEW s, NEW e, Ends(m, N, s, e)
  PROVE  Strlen(m, s) = e - s
<1>1. /\ N \in Nat \ {0} /\ Cardinality(DOMAIN m) = N
      /\ s \in 0 .. N - 1 /\ e \in s .. N - 1 /\ m[e] = End /\ \A p \in s .. e - 1 : m[p] # End
  BY SizeIs DEF Ends
<1>2. \A p \in s..N : m[p] = End /\ (\A q \in s .. p - 1 : ~(m[q] = End)) <=> p = e
  BY <1>1
<1> QED BY <1>1, <1>2 DEF Strlen, Upwards

LEMMA TextIs ==
  ASSUME NEW N, NEW m, Memory(m, N), NEW s, NEW e, Ends(m, N, s, e)
  PROVE  /\ Text(m, s) = Area(m, s, e - s)
         /\ e - s \in Nat /\ Len(Text(m, s)) = e - s
         /\ Text(m, s) \in Seq(0..255 \ {End})
<1>1. /\ N \in Nat \ {0} /\ Cardinality(DOMAIN m) = N /\ m \in [0 .. N - 1 -> 0..255]
      /\ s \in 0 .. N - 1 /\ e \in s .. N - 1 /\ m[e] = End /\ \A p \in s .. e - 1 : m[p] # End
  BY SizeIs DEF Ends, Memory
<1> DEFINE ends(n) == m[s + n] = End /\ End \notin {m[s + k] : k \in 0 .. n - 1}
           n == e - s
           l == CHOOSE j \in 0 .. N - s - 1 : ends(j)
<1>2. n \in 0 .. N - s - 1 /\ ends(n)
  BY <1>1
<1>3. ASSUME NEW j \in 0 .. N - s - 1, ends(j) PROVE j = n
  <2>1. CASE j < n
    BY <1>1, <1>3, <2>1
  <2>2. CASE j > n
    <3>1. n \in 0 .. j - 1 /\ m[s + n] = End
      BY <1>1, <2>2
    <3> QED BY <1>3, <3>1
  <2> QED BY <1>2, <2>1, <2>2
<1>4. l = n
  <2> HIDE DEF ends, n
  <2> QED BY <1>2, <1>3
<1>5. Text(m, s) = [k \in 1..n |-> m[s + k - 1]]
  BY <1>1, <1>4 DEF Text, Area
<1>6. \A k \in 1..n : m[s + k - 1] \in 0..255 \ {End}
  BY <1>1
<1>7. n \in Nat
  BY <1>1
<1>8. [k \in 1..n |-> m[s + k - 1]] \in Seq(0..255 \ {End})
  <2> HIDE DEF n
  <2> QED BY <1>6, <1>7, IsASeq
<1>9. Text(m, s) = Area(m, s, n)
  BY <1>5 DEF Area
<1>10. Len(Text(m, s)) = n
  BY <1>5, <1>7
<1> QED BY <1>5, <1>7, <1>8, <1>9, <1>10

(* The characters of a string, none of which ends it. *)
CharsOf(m, s, e) == {m[p] : p \in s .. e - 1}

LEMMA LettersIs ==
  ASSUME NEW N, NEW m, Memory(m, N), NEW s, NEW e, Ends(m, N, s, e)
  PROVE  Letters(Text(m, s)) = CharsOf(m, s, e) /\ End \notin CharsOf(m, s, e)
<1>0. Text(m, s) = [k \in 1 .. e - s |-> m[s + k - 1]]
  BY TextIs DEF Area
<1>1. s \in Nat /\ e \in Nat /\ \A p \in s .. e - 1 : m[p] # End
  BY DEF Ends, Memory
<1>2. Letters(Text(m, s)) = {m[s + k - 1] : k \in 1 .. e - s}
  BY <1>0, <1>1 DEF Letters
<1>3. \A p \in s .. e - 1 : p - s + 1 \in 1 .. e - s /\ s + (p - s + 1) - 1 = p
  BY <1>1
<1>4. \A k \in 1 .. e - s : s + k - 1 \in s .. e - 1
  BY <1>1
<1>5. Letters(Text(m, s)) = {m[p] : p \in s .. e - 1}
  BY <1>2, <1>3, <1>4
<1> QED BY <1>1, <1>5 DEF CharsOf

LEMMA IsInIs ==
  ASSUME NEW N, NEW m, Memory(m, N), NEW ct, NEW e, Ends(m, N, ct, e), NEW c, c # End
  PROVE  IsIn(m, c, ct) <=> c \in CharsOf(m, ct, e)
<1>1. /\ N \in Nat \ {0} /\ Cardinality(DOMAIN m) = N
      /\ ct \in 0 .. N - 1 /\ e \in ct .. N - 1 /\ m[e] = End /\ \A p \in ct .. e - 1 : m[p] # End
  BY SizeIs DEF Ends
<1> DEFINE T == {p \in 0..N : m[p] \in {c, End}}
<1>2. e \in T /\ ct \in Nat /\ e \in Nat /\ ct <= e
  BY <1>1
<1>3. PICK q \in ct..e : q \in T /\ \A p \in ct .. q - 1 : p \notin T
  <2> HIDE DEF T
  <2> QED BY <1>2, FirstPlace
<1>4. \A p \in ct..N : m[p] \in {c, End} /\ (\A j \in ct .. p - 1 : ~(m[j] \in {c, End})) <=> p = q
  BY <1>1, <1>3
<1>5. (CHOOSE p \in ct..N : m[p] \in {c, End} /\ \A j \in ct .. p - 1 : ~(m[j] \in {c, End})) = q
  BY <1>1, <1>3, <1>4
<1>6. IsIn(m, c, ct) <=> m[q] # End
  BY <1>1, <1>5 DEF IsIn, Upwards
<1>7. CASE q = e
  <2>1. \A p \in ct .. e - 1 : m[p] # c
    BY <1>1, <1>3, <1>7
  <2> QED BY <1>1, <1>6, <1>7, <2>1 DEF CharsOf
<1>8. CASE q # e
  <2>1. q \in ct .. e - 1 /\ m[q] # End /\ m[q] = c
    BY <1>1, <1>3, <1>8
  <2> QED BY <1>6, <2>1 DEF CharsOf
<1> QED BY <1>7, <1>8

(* strspn goes over the characters of ct and strpbrk up to the first of     *)
(* them.                                                                    *)
LEMMA StrspnIs ==
  ASSUME NEW N, NEW m, Memory(m, N), NEW s, NEW e, Ends(m, N, s, e),
         NEW ct, NEW f, Ends(m, N, ct, f)
  PROVE  \E q \in s..e : /\ Strspn(m, s, ct) = q - s
                         /\ m[q] \notin CharsOf(m, ct, f)
                         /\ \A p \in s .. q - 1 : m[p] \in CharsOf(m, ct, f)
<1> DEFINE D == CharsOf(m, ct, f)
           T == {p \in 0..N : m[p] \notin D}
           stops(p) == m[p] = End \/ ~IsIn(m, m[p], ct)
<1>1. /\ N \in Nat \ {0} /\ Cardinality(DOMAIN m) = N
      /\ s \in 0 .. N - 1 /\ e \in s .. N - 1 /\ m[e] = End /\ \A p \in s .. e - 1 : m[p] # End
      /\ End \notin D
  BY SizeIs, LettersIs DEF Ends
<1>2. \A p : stops(p) <=> m[p] \notin D
  BY <1>1, IsInIs
<1> HIDE DEF D, stops
<1>3. e \in T /\ s \in Nat /\ e \in Nat /\ s <= e
  BY <1>1
<1>4. PICK q \in s..e : q \in T /\ \A p \in s .. q - 1 : p \notin T
  <2> HIDE DEF T
  <2> QED BY <1>3, FirstPlace
<1>5. \A p \in s..N : stops(p) /\ (\A j \in s .. p - 1 : ~stops(j)) <=> p = q
  BY <1>1, <1>2, <1>4
<1>6. (CHOOSE p \in s..N : stops(p) /\ \A j \in s .. p - 1 : ~stops(j)) = q
  BY <1>1, <1>4, <1>5
<1>7. Strspn(m, s, ct) = q - s
  BY <1>1, <1>6 DEF Strspn, Upwards, stops
<1>8. m[q] \notin D /\ \A p \in s .. q - 1 : m[p] \in D
  BY <1>1, <1>4
<1> QED BY <1>7, <1>8 DEF D

LEMMA StrpbrkIs ==
  ASSUME NEW N, NEW m, Memory(m, N), NEW s, NEW e, Ends(m, N, s, e),
         NEW ct, NEW f, Ends(m, N, ct, f)
  PROVE  \E q \in s..e : /\ Strpbrk(m, s, ct) = IF q = e THEN Null ELSE q
                         /\ q # e => m[q] \in CharsOf(m, ct, f)
                         /\ \A p \in s .. q - 1 : m[p] \notin CharsOf(m, ct, f)
<1> DEFINE D == CharsOf(m, ct, f)
           T == {p \in 0..N : m[p] \in D \cup {End}}
           stops(p) == m[p] = End \/ IsIn(m, m[p], ct)
<1>1. /\ N \in Nat \ {0} /\ Cardinality(DOMAIN m) = N
      /\ s \in 0 .. N - 1 /\ e \in s .. N - 1 /\ m[e] = End /\ \A p \in s .. e - 1 : m[p] # End
  BY SizeIs DEF Ends
<1>2. \A p : stops(p) <=> m[p] \in D \cup {End}
  BY <1>1, IsInIs
<1> HIDE DEF D, stops
<1>3. e \in T /\ s \in Nat /\ e \in Nat /\ s <= e
  BY <1>1
<1>4. PICK q \in s..e : q \in T /\ \A p \in s .. q - 1 : p \notin T
  <2> HIDE DEF T
  <2> QED BY <1>3, FirstPlace
<1>5. \A p \in s..N : stops(p) /\ (\A j \in s .. p - 1 : ~stops(j)) <=> p = q
  BY <1>1, <1>2, <1>4
<1>6. (CHOOSE p \in s..N : stops(p) /\ \A j \in s .. p - 1 : ~stops(j)) = q
  BY <1>1, <1>4, <1>5
<1>7. Strpbrk(m, s, ct) = IF m[q] = End THEN Null ELSE q
  <2> DEFINE x == CHOOSE p \in s .. Cardinality(DOMAIN m) :
                    (m[p] = End \/ IsIn(m, m[p], ct))
                      /\ \A j \in s .. p - 1 : ~(m[j] = End \/ IsIn(m, m[j], ct))
  <2>1. Strpbrk(m, s, ct) = IF m[x] = End THEN Null ELSE x
    BY Zenon DEF Strpbrk, Upwards
  <2>2. x = q
    BY <1>1, <1>6 DEF stops
  <2> QED BY <2>1, <2>2
<1>8. (m[q] = End <=> q = e) /\ (q # e => m[q] \in D) /\ \A p \in s .. q - 1 : m[p] \notin D
  BY <1>1, <1>4
<1> QED BY <1>7, <1>8 DEF D
-----------------------------------------------------------------------------
(* What PiecesUpto and FilledUpto are. *)
PieceNext(before, c, D) ==
  IF c \in D THEN Append(before, <<>>)
  ELSE [before EXCEPT ![Len(before)] = Append(@, c)]
FilledNext(before, piece) == IF piece = <<>> THEN before ELSE Append(before, piece)

ArePieces(f, x, D, n) ==
  f = [k \in 0..n |-> IF k = 0 THEN <<<<>>>> ELSE PieceNext(f[k - 1], x[k], D)]
AreFilled(f, x, n) ==
  f = [k \in 0..n |-> IF k = 0 THEN <<>> ELSE FilledNext(f[k - 1], x[k])]

LEMMA PiecesExist ==
  ASSUME NEW x, NEW D, NEW n \in Nat
  PROVE  \E f : ArePieces(f, x, D, n)
<1> DEFINE S == {i \in Nat : \E f : ArePieces(f, x, D, i)}
<1>1. 0 \in S
  <2>1. ArePieces([k \in 0..0 |-> <<<<>>>>], x, D, 0)
    BY DEF ArePieces
  <2> QED BY <2>1
<1>2. ASSUME NEW i \in Nat, i \in S PROVE i + 1 \in S
  <2>1. PICK f : ArePieces(f, x, D, i)
    BY <1>2
  <2> DEFINE g == [k \in 0 .. i + 1 |-> IF k <= i THEN f[k] ELSE PieceNext(f[i], x[k], D)]
  <2>2. ASSUME NEW k \in 0 .. i + 1
        PROVE  g[k] = IF k = 0 THEN <<<<>>>> ELSE PieceNext(g[k - 1], x[k], D)
    <3>1. CASE k <= i
      <4>1. k \in 0..i /\ g[k] = f[k] /\ (k # 0 => g[k - 1] = f[k - 1])
        BY <3>1
      <4>2. f[k] = IF k = 0 THEN <<<<>>>> ELSE PieceNext(f[k - 1], x[k], D)
        BY <2>1, <4>1 DEF ArePieces
      <4> QED BY <4>1, <4>2
    <3>2. CASE ~(k <= i)
      <4>1. k # 0 /\ k - 1 = i /\ g[k - 1] = f[i]
        BY <3>2
      <4>2. g[k] = PieceNext(f[i], x[k], D)
        BY <3>2
      <4> QED BY <4>1, <4>2
    <3> QED BY <3>1, <3>2
  <2>3. ArePieces(g, x, D, i + 1)
    BY <2>2 DEF ArePieces
  <2> HIDE DEF g
  <2> QED BY <2>3
<1> HIDE DEF S
<1>3. n \in S
  BY <1>1, <1>2, Induct
<1> QED BY <1>3 DEF S

LEMMA PiecesUptoIs ==
  ASSUME NEW x, NEW D, NEW n, n = Len(x), n \in Nat
  PROVE  /\ PiecesUpto(x, D)[0] = <<<<>>>>
         /\ \A k \in 0 .. n - 1 :
              PiecesUpto(x, D)[k + 1] = PieceNext(PiecesUpto(x, D)[k], x[k + 1], D)
<1> DEFINE f == CHOOSE g : ArePieces(g, x, D, n)
<1>1. ArePieces(f, x, D, n)
  BY PiecesExist
<1>2. PiecesUpto(x, D) = f
  BY DEF PiecesUpto, ArePieces, PieceNext
<1> HIDE DEF f
<1>3. f = [k \in 0..n |-> IF k = 0 THEN <<<<>>>> ELSE PieceNext(f[k - 1], x[k], D)]
  BY <1>1 DEF ArePieces
<1>4. f[0] = <<<<>>>>
  BY <1>3
<1>5. ASSUME NEW k \in 0 .. n - 1 PROVE f[k + 1] = PieceNext(f[k], x[k + 1], D)
  <2>1. k + 1 \in 0..n /\ k + 1 # 0 /\ (k + 1) - 1 = k
    OBVIOUS
  <2> QED BY <1>3, <2>1
<1> QED BY <1>2, <1>4, <1>5

LEMMA FilledExist ==
  ASSUME NEW x, NEW n \in Nat
  PROVE  \E f : AreFilled(f, x, n)
<1> DEFINE S == {i \in Nat : \E f : AreFilled(f, x, i)}
<1>1. 0 \in S
  <2>1. AreFilled([k \in 0..0 |-> <<>>], x, 0)
    BY DEF AreFilled
  <2> QED BY <2>1
<1>2. ASSUME NEW i \in Nat, i \in S PROVE i + 1 \in S
  <2>1. PICK f : AreFilled(f, x, i)
    BY <1>2
  <2> DEFINE g == [k \in 0 .. i + 1 |-> IF k <= i THEN f[k] ELSE FilledNext(f[i], x[k])]
  <2>2. ASSUME NEW k \in 0 .. i + 1
        PROVE  g[k] = IF k = 0 THEN <<>> ELSE FilledNext(g[k - 1], x[k])
    <3>1. CASE k <= i
      <4>1. k \in 0..i /\ g[k] = f[k] /\ (k # 0 => g[k - 1] = f[k - 1])
        BY <3>1
      <4>2. f[k] = IF k = 0 THEN <<>> ELSE FilledNext(f[k - 1], x[k])
        BY <2>1, <4>1 DEF AreFilled
      <4> QED BY <4>1, <4>2
    <3>2. CASE ~(k <= i)
      <4>1. k # 0 /\ k - 1 = i /\ g[k - 1] = f[i]
        BY <3>2
      <4>2. g[k] = FilledNext(f[i], x[k])
        BY <3>2
      <4> QED BY <4>1, <4>2
    <3> QED BY <3>1, <3>2
  <2>3. AreFilled(g, x, i + 1)
    BY <2>2 DEF AreFilled
  <2> HIDE DEF g
  <2> QED BY <2>3
<1> HIDE DEF S
<1>3. n \in S
  BY <1>1, <1>2, Induct
<1> QED BY <1>3 DEF S

LEMMA FilledUptoIs ==
  ASSUME NEW x, NEW n, n = Len(x), n \in Nat
  PROVE  /\ FilledUpto(x)[0] = <<>>
         /\ \A k \in 0 .. n - 1 : FilledUpto(x)[k + 1] = FilledNext(FilledUpto(x)[k], x[k + 1])
<1> DEFINE f == CHOOSE g : AreFilled(g, x, n)
<1>1. AreFilled(f, x, n)
  BY FilledExist
<1>2. FilledUpto(x) = f
  BY DEF FilledUpto, AreFilled, FilledNext
<1> HIDE DEF f
<1>3. f = [k \in 0..n |-> IF k = 0 THEN <<>> ELSE FilledNext(f[k - 1], x[k])]
  BY <1>1 DEF AreFilled
<1>4. f[0] = <<>>
  BY <1>3
<1>5. ASSUME NEW k \in 0 .. n - 1 PROVE f[k + 1] = FilledNext(f[k], x[k + 1])
  <2>1. k + 1 \in 0..n /\ k + 1 # 0 /\ (k + 1) - 1 = k
    OBVIOUS
  <2> QED BY <1>3, <2>1
<1> QED BY <1>2, <1>4, <1>5

(* A step of PiecesUpto and FilledUpto: what comes before stays.            *)
PieceMoves(a, b, c, C, D) ==
  /\ a \in Seq(Seq(C)) /\ b \in Seq(Seq(C)) /\ Len(a) \in Nat \ {0} /\ Len(b) \in Nat \ {0}
  /\ Len(b) <= Len(a)
  /\ \A i \in 1 .. Len(b) - 1 : a[i] = b[i]
  /\ c \in D => Len(a) = Len(b) + 1 /\ a[Len(b)] = b[Len(b)] /\ a[Len(b) + 1] = <<>>
  /\ c \notin D => Len(a) = Len(b) /\ a[Len(b)] = Append(b[Len(b)], c)
FilledMoves(a, b, piece, C) ==
  /\ a \in Seq(Seq(C)) /\ b \in Seq(Seq(C)) /\ Len(a) \in Nat /\ Len(b) \in Nat
  /\ piece = <<>> => a = b
  /\ piece # <<>> => Len(a) = Len(b) + 1 /\ a[Len(b) + 1] = piece
  /\ Len(b) <= Len(a) /\ \A i \in 1..Len(b) : a[i] = b[i]

(* What b has but for its last piece, a has too; and the same for texts.    *)
PiecesAgree(a, b) ==
  /\ Len(a) \in Nat \ {0} /\ Len(b) \in Nat \ {0} /\ Len(b) <= Len(a)
  /\ \A i \in 1 .. Len(b) - 1 : a[i] = b[i]
FilledAgree(a, b) ==
  /\ Len(a) \in Nat /\ Len(b) \in Nat /\ Len(b) <= Len(a)
  /\ \A i \in 1..Len(b) : a[i] = b[i]
Piece(x, j, k) == [i \in 1 .. k - j |-> x[j + i]]

LEMMA PieceStep ==
  ASSUME NEW C, NEW D, NEW b \in Seq(Seq(C)), Len(b) >= 1, NEW c \in C,
         NEW a, a = PieceNext(b, c, D)
  PROVE  PieceMoves(a, b, c, C, D)
<1>1. PICK n \in Nat : n = Len(b) /\ n >= 1
  OBVIOUS
<1>2. b[n] \in Seq(C)
  BY <1>1, ElementOfSeq
<1>3. CASE c \in D
  <2>1. <<>> \in Seq(C)
    OBVIOUS
  <2>2. a = Append(b, <<>>)
    BY <1>3 DEF PieceNext
  <2>3. a \in Seq(Seq(C)) /\ Len(a) = n + 1 /\ (\A i \in 1..n : a[i] = b[i]) /\ a[n + 1] = <<>>
    BY <1>1, <2>1, <2>2, AppendProperties
  <2>4. /\ Len(a) \in Nat \ {0} /\ Len(b) \in Nat \ {0}
        /\ Len(a) = Len(b) + 1 /\ Len(b) <= Len(a)
        /\ (\A i \in 1 .. Len(b) - 1 : a[i] = b[i])
        /\ a[Len(b)] = b[Len(b)] /\ a[Len(b) + 1] = <<>>
    BY <1>1, <1>3, <2>3
  <2>5. a \in Seq(Seq(C)) /\ b \in Seq(Seq(C)) /\ ~(c \notin D)
    BY <1>3, <2>3
  <2> QED BY <1>3, <2>4, <2>5, Zenon DEF PieceMoves
<1>4. CASE c \notin D
  <2>1. PICK v \in Seq(C) : v = Append(b[n], c)
    BY <1>2, AppendProperties
  <2>2. a = [b EXCEPT ![n] = v]
    BY <1>1, <1>4, <2>1 DEF PieceNext
  <2>3. n \in 1..Len(b)
    BY <1>1
  <2>4. a \in Seq(Seq(C)) /\ Len(a) = Len(b)
    BY <2>2, <2>3, ExceptSeq
  <2>7. a[n] = v /\ \A j \in 1 .. n - 1 : a[j] = b[j]
    BY <1>1, <2>2, <2>3
  <2>5. /\ Len(a) \in Nat \ {0} /\ Len(b) \in Nat \ {0} /\ Len(a) = Len(b) /\ Len(b) <= Len(a)
        /\ (\A i \in 1 .. Len(b) - 1 : a[i] = b[i])
        /\ a[Len(b)] = Append(b[Len(b)], c)
    BY <1>1, <2>1, <2>4, <2>7
  <2>6. a \in Seq(Seq(C)) /\ b \in Seq(Seq(C))
    BY <2>4
  <2> QED BY <1>4, <2>5, <2>6, Zenon DEF PieceMoves
<1> QED BY <1>3, <1>4

LEMMA PiecesType ==
  ASSUME NEW C, NEW D, NEW x \in Seq(C), NEW f, f = PiecesUpto(x, D)
  PROVE  /\ f[0] = <<<<>>>>
         /\ \A k \in 0..Len(x) : f[k] \in Seq(Seq(C)) /\ Len(f[k]) \in Nat \ {0}
         /\ \A k \in 0 .. Len(x) - 1 : PieceMoves(f[k + 1], f[k], x[k + 1], C, D)
<1>1. PICK n \in Nat : n = Len(x)
  OBVIOUS
<1>2. \A i \in 1..n : x[i] \in C
  BY <1>1, ElementOfSeq
<1>3. f[0] = <<<<>>>> /\ \A k \in 0 .. n - 1 : f[k + 1] = PieceNext(f[k], x[k + 1], D)
  BY <1>1, PiecesUptoIs
<1> DEFINE S == {k \in Nat : k <= n => f[k] \in Seq(Seq(C)) /\ Len(f[k]) >= 1}
<1>4. 0 \in S
  <2>1. <<>> \in Seq(C)
    OBVIOUS
  <2>2. <<<<>>>> \in Seq(Seq(C)) /\ Len(<<<<>>>>) = 1
    BY <2>1
  <2>3. f[0] \in Seq(Seq(C)) /\ Len(f[0]) >= 1
    BY <1>3, <2>2
  <2> QED BY <2>3
<1>5. ASSUME NEW k \in Nat, k \in S PROVE k + 1 \in S
  <2> SUFFICES ASSUME k + 1 <= n PROVE f[k + 1] \in Seq(Seq(C)) /\ Len(f[k + 1]) >= 1
    OBVIOUS
  <2>1. k \in 0 .. n - 1 /\ f[k] \in Seq(Seq(C)) /\ Len(f[k]) >= 1 /\ x[k + 1] \in C
    BY <1>2, <1>5
  <2>2. PieceMoves(f[k + 1], f[k], x[k + 1], C, D)
    BY <1>3, <2>1, PieceStep
  <2> QED BY <2>2 DEF PieceMoves
<1> HIDE DEF S
<1>6. Nat \subseteq S
  BY <1>4, <1>5, Induct
<1>7. \A k \in 0..n : f[k] \in Seq(Seq(C)) /\ Len(f[k]) >= 1 /\ Len(f[k]) \in Nat \ {0}
  BY <1>6 DEF S
<1>8. ASSUME NEW k \in 0 .. n - 1 PROVE PieceMoves(f[k + 1], f[k], x[k + 1], C, D)
  <2>1. k + 1 \in 1..n /\ k \in 0..n
    OBVIOUS
  <2>2. f[k] \in Seq(Seq(C)) /\ Len(f[k]) >= 1 /\ x[k + 1] \in C
    BY <1>2, <1>7, <2>1
  <2> QED BY <1>3, <2>2, PieceStep
<1> QED BY <1>1, <1>3, <1>7, <1>8

LEMMA PiecesKept ==
  ASSUME NEW C, NEW D, NEW x \in Seq(C), NEW f, f = PiecesUpto(x, D),
         NEW j \in 0..Len(x), NEW k \in j..Len(x)
  PROVE  PiecesAgree(f[k], f[j])
<1>1. PICK n \in Nat : n = Len(x)
  OBVIOUS
<1>2. \A i \in 0..n : Len(f[i]) \in Nat \ {0}
  BY <1>1, PiecesType
<1>3. ASSUME NEW i \in 0 .. n - 1
      PROVE  /\ Len(f[i]) <= Len(f[i + 1])
             /\ \A h \in 1 .. Len(f[i]) - 1 : f[i + 1][h] = f[i][h]
  <2>1. PieceMoves(f[i + 1], f[i], x[i + 1], C, D)
    BY <1>1, PiecesType
  <2>2. /\ Len(f[i]) <= Len(f[i + 1])
        /\ \A h \in 1 .. Len(f[i]) - 1 : f[i + 1][h] = f[i][h]
    BY <2>1, Zenon DEF PieceMoves
  <2> QED BY <2>2
<1> DEFINE S == {d \in Nat : j + d <= n => /\ Len(f[j]) <= Len(f[j + d])
                                           /\ \A i \in 1 .. Len(f[j]) - 1 : f[j + d][i] = f[j][i]}
<1>4. 0 \in S
  <2>1. j + 0 = j /\ Len(f[j]) <= Len(f[j])
    BY <1>1, <1>2
  <2> QED BY <2>1
<1>5. ASSUME NEW d \in Nat, d \in S PROVE d + 1 \in S
  <2> SUFFICES ASSUME j + (d + 1) <= n
               PROVE  /\ Len(f[j]) <= Len(f[j + (d + 1)])
                      /\ \A i \in 1 .. Len(f[j]) - 1 : f[j + (d + 1)][i] = f[j][i]
    OBVIOUS
  <2>1. PICK b \in 0 .. n - 1 : b = j + d /\ b + 1 = j + (d + 1)
    BY <1>1
  <2>2. Len(f[j]) <= Len(f[b]) /\ \A i \in 1 .. Len(f[j]) - 1 : f[b][i] = f[j][i]
    BY <1>5, <2>1
  <2>3. Len(f[b]) <= Len(f[b + 1]) /\ \A i \in 1 .. Len(f[b]) - 1 : f[b + 1][i] = f[b][i]
    BY <1>3
  <2>4. Len(f[j]) \in Nat /\ Len(f[b]) \in Nat /\ Len(f[b + 1]) \in Nat
    BY <1>1, <1>2, <2>1
  <2>5. Len(f[j]) <= Len(f[b + 1]) /\ \A i \in 1 .. Len(f[j]) - 1 : f[b + 1][i] = f[j][i]
    BY <2>2, <2>3, <2>4
  <2> QED BY <2>1, <2>5
<1> HIDE DEF S
<1>6. k - j \in Nat /\ j + (k - j) = k
  BY <1>1
<1>7. k - j \in S
  BY <1>4, <1>5, <1>6, Induct
<1>8. j \in 0..n /\ k \in 0..n
  BY <1>1
<1> QED BY <1>1, <1>2, <1>6, <1>7, <1>8 DEF S, PiecesAgree

(* Up to the next delimiter the last piece grows.                           *)
Uncut(x, D, j, k) == \A i \in j + 1 .. k : x[i] \notin D

LEMMA PieceGrows ==
  ASSUME NEW C, NEW D, NEW x \in Seq(C), NEW f, f = PiecesUpto(x, D),
         NEW j \in 0..Len(x), NEW k \in j..Len(x),
         Uncut(x, D, j, k), f[j][Len(f[j])] = <<>>
  PROVE  Len(f[k]) = Len(f[j]) /\ f[k][Len(f[j])] = Piece(x, j, k)
<1>1. PICK n \in Nat : n = Len(x)
  OBVIOUS
<1>2. PICK l \in Nat : l = Len(f[j])
  BY PiecesType
<1>3. ASSUME NEW i \in 0 .. n - 1, x[i + 1] \notin D
      PROVE  Len(f[i + 1]) = Len(f[i]) /\ f[i + 1][Len(f[i])] = Append(f[i][Len(f[i])], x[i + 1])
  <2>1. PieceMoves(f[i + 1], f[i], x[i + 1], C, D)
    BY <1>1, PiecesType
  <2> QED BY <1>3, <2>1 DEF PieceMoves
<1> DEFINE S == {d \in Nat : j + d <= k => /\ Len(f[j + d]) = l
                                           /\ f[j + d][l] = [i \in 1..d |-> x[j + i]]}
<1>4. 0 \in S
  <2>1. j + 0 = j
    BY <1>1
  <2>2. [i \in 1..0 |-> x[j + i]] = <<>>
    OBVIOUS
  <2> QED BY <1>2, <2>1, <2>2
<1>5. ASSUME NEW d \in Nat, d \in S PROVE d + 1 \in S
  <2> SUFFICES ASSUME j + (d + 1) <= k
               PROVE  /\ Len(f[j + (d + 1)]) = l
                      /\ f[j + (d + 1)][l] = [i \in 1 .. d + 1 |-> x[j + i]]
    OBVIOUS
  <2>1. PICK b \in 0 .. n - 1 : b = j + d /\ b + 1 = j + (d + 1)
    <3>1. j + d \in 0 .. n - 1 /\ (j + d) + 1 = j + (d + 1)
      BY <1>1
    <3> QED BY <3>1
  <2>2. Len(f[b]) = l /\ f[b][l] = [i \in 1..d |-> x[j + i]]
    BY <1>5, <2>1
  <2>3. x[b + 1] \notin D
    BY <2>1 DEF Uncut
  <2>4. Len(f[b + 1]) = l /\ f[b + 1][l] = Append(f[b][l], x[b + 1])
    BY <1>3, <2>2, <2>3
  <2>5. Append([i \in 1..d |-> x[j + i]], x[j + (d + 1)]) = [i \in 1 .. d + 1 |-> x[j + i]]
    OBVIOUS
  <2> QED BY <2>1, <2>2, <2>4, <2>5
<1> HIDE DEF S
<1>6. k - j \in Nat /\ j + (k - j) = k
  BY <1>1
<1>7. k - j \in S
  BY <1>4, <1>5, <1>6, Induct
<1> QED BY <1>2, <1>6, <1>7 DEF S, Piece

(* Delimiters one behind the other leave empty pieces. *)
EmptyOn(a, b, d) == Len(a) = Len(b) + d /\ \A i \in Len(b)..Len(a) : a[i] = <<>>

LEMMA EmptyPieces ==
  ASSUME NEW C, NEW D, NEW x \in Seq(C), NEW f, f = PiecesUpto(x, D),
         NEW j \in 0..Len(x), NEW k \in j..Len(x),
         \A i \in j + 1 .. k : x[i] \in D, f[j][Len(f[j])] = <<>>
  PROVE  EmptyOn(f[k], f[j], k - j)
<1>1. PICK n \in Nat : n = Len(x)
  OBVIOUS
<1>2. PICK l \in Nat \ {0} : l = Len(f[j])
  BY PiecesType
<1>3. ASSUME NEW i \in 0 .. n - 1, x[i + 1] \in D
      PROVE  /\ Len(f[i + 1]) = Len(f[i]) + 1
             /\ \A h \in 1 .. Len(f[i]) - 1 : f[i + 1][h] = f[i][h]
             /\ f[i + 1][Len(f[i])] = f[i][Len(f[i])] /\ f[i + 1][Len(f[i]) + 1] = <<>>
  <2>1. PieceMoves(f[i + 1], f[i], x[i + 1], C, D)
    BY <1>1, PiecesType
  <2> QED BY <1>3, <2>1 DEF PieceMoves
<1> DEFINE S == {d \in Nat : j + d <= k => /\ Len(f[j + d]) = l + d
                                           /\ \A i \in l .. l + d : f[j + d][i] = <<>>}
<1>4. 0 \in S
  <2>1. j + 0 = j
    BY <1>1
  <2> QED BY <1>2, <2>1
<1>5. ASSUME NEW d \in Nat, d \in S PROVE d + 1 \in S
  <2> SUFFICES ASSUME j + (d + 1) <= k
               PROVE  /\ Len(f[j + (d + 1)]) = l + (d + 1)
                      /\ \A i \in l .. l + (d + 1) : f[j + (d + 1)][i] = <<>>
    OBVIOUS
  <2>1. PICK b \in 0 .. n - 1 : b = j + d /\ b + 1 = j + (d + 1)
    BY <1>1
  <2>2. Len(f[b]) = l + d /\ \A i \in l .. l + d : f[b][i] = <<>>
    BY <1>5, <2>1
  <2>3. x[b + 1] \in D
    BY <2>1
  <2>4. /\ Len(f[b + 1]) = (l + d) + 1
        /\ \A h \in 1 .. (l + d) - 1 : f[b + 1][h] = f[b][h]
        /\ f[b + 1][l + d] = f[b][l + d] /\ f[b + 1][(l + d) + 1] = <<>>
    BY <1>3, <2>2, <2>3
  <2>5. ASSUME NEW i \in l .. l + (d + 1) PROVE f[b + 1][i] = <<>>
    <3>1. (i \in 1 .. (l + d) - 1 /\ i \in l .. l + d) \/ i = l + d \/ i = (l + d) + 1
      OBVIOUS
    <3>2. l + d \in l .. l + d
      OBVIOUS
    <3> QED BY <2>2, <2>4, <3>1, <3>2
  <2> QED BY <2>1, <2>4, <2>5
<1> HIDE DEF S
<1>6. k - j \in Nat /\ j + (k - j) = k
  BY <1>1
<1>7. k - j \in S
  BY <1>4, <1>5, <1>6, Induct
<1>8. Len(f[k]) = l + (k - j) /\ \A i \in l .. l + (k - j) : f[k][i] = <<>>
  BY <1>6, <1>7 DEF S
<1> QED BY <1>2, <1>8 DEF EmptyOn

LEMMA FilledType ==
  ASSUME NEW C, NEW y \in Seq(Seq(C)), NEW g, g = FilledUpto(y)
  PROVE  /\ \A k \in 0..Len(y) : g[k] \in Seq(Seq(C)) /\ Len(g[k]) \in Nat
         /\ g[0] = <<>>
         /\ \A k \in 0 .. Len(y) - 1 : FilledMoves(g[k + 1], g[k], y[k + 1], C)
<1>1. PICK n \in Nat : n = Len(y)
  OBVIOUS
<1>2. \A i \in 1..n : y[i] \in Seq(C)
  BY <1>1, ElementOfSeq
<1>3. g[0] = <<>> /\ \A k \in 0 .. n - 1 : g[k + 1] = FilledNext(g[k], y[k + 1])
  BY <1>1, FilledUptoIs
<1>4. ASSUME NEW k \in 0 .. n - 1, g[k] \in Seq(Seq(C))
      PROVE  FilledMoves(g[k + 1], g[k], y[k + 1], C)
  <2>1. y[k + 1] \in Seq(C) /\ g[k + 1] = FilledNext(g[k], y[k + 1])
    BY <1>2, <1>3
  <2>2. CASE y[k + 1] = <<>>
    <3>1. g[k + 1] = g[k]
      BY <2>1, <2>2 DEF FilledNext
    <3>2. Len(g[k]) \in Nat
      BY <1>4
    <3> QED BY <1>4, <2>2, <3>1, <3>2 DEF FilledMoves
  <2>3. CASE y[k + 1] # <<>>
    <3>1. g[k + 1] = Append(g[k], y[k + 1])
      BY <2>1, <2>3 DEF FilledNext
    <3>2. /\ g[k + 1] \in Seq(Seq(C)) /\ Len(g[k + 1]) = Len(g[k]) + 1
          /\ g[k + 1][Len(g[k]) + 1] = y[k + 1] /\ \A i \in 1..Len(g[k]) : g[k + 1][i] = g[k][i]
      BY <1>4, <2>1, <3>1, AppendProperties
    <3>3. Len(g[k]) \in Nat
      BY <1>4
    <3> QED BY <1>4, <2>3, <3>2, <3>3 DEF FilledMoves
  <2> QED BY <2>2, <2>3
<1> DEFINE S == {k \in Nat : k <= n => g[k] \in Seq(Seq(C))}
<1>5. 0 \in S
  <2>1. g[0] \in Seq(Seq(C))
    BY <1>3
  <2> QED BY <2>1
<1>6. ASSUME NEW k \in Nat, k \in S PROVE k + 1 \in S
  <2> SUFFICES ASSUME k + 1 <= n PROVE g[k + 1] \in Seq(Seq(C))
    OBVIOUS
  <2>1. k \in 0 .. n - 1 /\ g[k] \in Seq(Seq(C))
    BY <1>6
  <2>2. FilledMoves(g[k + 1], g[k], y[k + 1], C)
    BY <1>4, <2>1
  <2> QED BY <2>2 DEF FilledMoves
<1> HIDE DEF S
<1>7. Nat \subseteq S
  BY <1>5, <1>6, Induct
<1>8. \A k \in 0..n : g[k] \in Seq(Seq(C)) /\ Len(g[k]) \in Nat
  <2>1. \A k \in 0..n : g[k] \in Seq(Seq(C))
    BY <1>7 DEF S
  <2> QED BY <2>1
<1>9. \A k \in 0 .. n - 1 : FilledMoves(g[k + 1], g[k], y[k + 1], C)
  BY <1>4, <1>8
<1> QED BY <1>1, <1>3, <1>8, <1>9

LEMMA FilledKept ==
  ASSUME NEW C, NEW y \in Seq(Seq(C)), NEW g, g = FilledUpto(y),
         NEW j \in 0..Len(y), NEW k \in j..Len(y)
  PROVE  /\ FilledAgree(g[k], g[j])
         /\ (\A i \in j + 1 .. k : y[i] = <<>>) => g[k] = g[j]
<1>1. PICK n \in Nat : n = Len(y)
  OBVIOUS
<1>2. \A i \in 0..n : Len(g[i]) \in Nat
  BY <1>1, FilledType
<1>3. ASSUME NEW i \in 0 .. n - 1
      PROVE  /\ Len(g[i]) <= Len(g[i + 1])
             /\ \A h \in 1..Len(g[i]) : g[i + 1][h] = g[i][h]
             /\ y[i + 1] = <<>> => g[i + 1] = g[i]
  <2>1. FilledMoves(g[i + 1], g[i], y[i + 1], C)
    BY <1>1, FilledType
  <2> QED BY <2>1 DEF FilledMoves
<1> DEFINE Empty(d) == \A i \in j + 1 .. j + d : y[i] = <<>>
           S == {d \in Nat : j + d <= n => /\ Len(g[j]) <= Len(g[j + d])
                                           /\ \A i \in 1..Len(g[j]) : g[j + d][i] = g[j][i]
                                           /\ Empty(d) => g[j + d] = g[j]}
<1>4. 0 \in S
  <2>1. j + 0 = j /\ Len(g[j]) <= Len(g[j])
    BY <1>1, <1>2
  <2> QED BY <2>1
<1>5. ASSUME NEW d \in Nat, d \in S PROVE d + 1 \in S
  <2> SUFFICES ASSUME j + (d + 1) <= n
               PROVE  /\ Len(g[j]) <= Len(g[j + (d + 1)])
                      /\ \A i \in 1..Len(g[j]) : g[j + (d + 1)][i] = g[j][i]
                      /\ Empty(d + 1) => g[j + (d + 1)] = g[j]
    OBVIOUS
  <2>1. PICK b \in 0 .. n - 1 : b = j + d /\ b + 1 = j + (d + 1)
    BY <1>1
  <2>2. /\ Len(g[j]) <= Len(g[b])
        /\ Empty(d) => g[b] = g[j]
        /\ \A i \in 1..Len(g[j]) : g[b][i] = g[j][i]
    BY <1>5, <2>1
  <2>3. /\ Len(g[b]) <= Len(g[b + 1])
        /\ y[b + 1] = <<>> => g[b + 1] = g[b]
        /\ \A i \in 1..Len(g[b]) : g[b + 1][i] = g[b][i]
    BY <1>3
  <2>4. Len(g[j]) \in Nat /\ Len(g[b]) \in Nat /\ Len(g[b + 1]) \in Nat
    BY <1>1, <1>2, <2>1
  <2>5. Len(g[j]) <= Len(g[b + 1]) /\ \A i \in 1..Len(g[j]) : g[b + 1][i] = g[j][i]
    BY <2>2, <2>3, <2>4
  <2>6. ASSUME Empty(d + 1) PROVE g[b + 1] = g[j]
    <3>1. b + 1 \in j + 1 .. j + (d + 1) /\ \A i \in j + 1 .. j + d : i \in j + 1 .. j + (d + 1)
      BY <1>1, <2>1
    <3>2. y[b + 1] = <<>> /\ Empty(d)
      BY <2>6, <3>1
    <3> QED BY <2>2, <2>3, <3>2
  <2> QED BY <2>1, <2>5, <2>6
<1> HIDE DEF S
<1>6. k - j \in Nat /\ j + (k - j) = k /\ j \in 0..n /\ k \in 0..n
  BY <1>1
<1>7. k - j \in S
  BY <1>4, <1>5, <1>6, Induct
<1>8. FilledAgree(g[k], g[j])
  BY <1>1, <1>2, <1>6, <1>7 DEF S, FilledAgree
<1> QED BY <1>6, <1>7, <1>8 DEF S
-----------------------------------------------------------------------------
(* Strings being taken apart. *)
EndIn(m, s) == s + Len(Text(m, s))

LEMMA EndInIs ==
  ASSUME NEW N, NEW m, Memory(m, N), NEW s \in 0 .. N - 1
  PROVE  Ends(m, N, s, EndIn(m, s))
<1>1. PICK e : Ends(m, N, s, e)
  BY EndExists
<1>2. s \in Nat /\ e \in Nat
  BY <1>1 DEF Ends, Memory
<1>3. Len(Text(m, s)) = e - s
  BY <1>1, TextIs
<1>4. EndIn(m, s) = e
  BY <1>2, <1>3 DEF EndIn
<1> QED BY <1>1, <1>4

(* Pointers to texts, in the bytes from lo up to hi. *)
HoldsText(m, p, y) == m[p + Len(y)] = End /\ \A i \in 1..Len(y) : m[p + i - 1] = y[i]
Holding(m, pointers, texts, n, lo, hi) ==
  \A i \in 1..n : /\ pointers[i] \in lo .. hi - 1 /\ pointers[i] + Len(texts[i]) \in lo .. hi - 1
                  /\ HoldsText(m, pointers[i], texts[i])

LEMMA HeldText ==
  ASSUME NEW N, NEW m, Memory(m, N), NEW y \in Seq(0..255 \ {End}), NEW p \in 0 .. N - 1,
         p + Len(y) <= N - 1, HoldsText(m, p, y)
  PROVE  Text(m, p) = y
<1>1. PICK l \in Nat : l = Len(y)
  OBVIOUS
<1>2. \A i \in 1..l : y[i] # End
  BY <1>1, ElementOfSeq
<1>3. N \in Nat /\ m[p + l] = End /\ \A i \in 1..l : m[p + i - 1] = y[i]
  BY <1>1 DEF HoldsText, Memory
<1>4. ASSUME NEW k \in p .. (p + l) - 1 PROVE m[k] # End
  <2>1. PICK i \in 1..l : i = k - p + 1
    BY <1>3
  <2>2. p + i - 1 = k
    BY <1>3, <2>1
  <2> QED BY <1>2, <1>3, <2>2
<1>5. Ends(m, N, p, p + l)
  <2>1. p \in 0 .. N - 1 /\ p + l \in p .. N - 1
    BY <1>1, <1>3
  <2> QED BY <1>3, <1>4, <2>1 DEF Ends
<1>6. (p + l) - p = l
  BY <1>3
<1>7. Text(m, p) = [k \in 1..l |-> m[p + k - 1]]
  <2>1. PICK e : e = p + l
    OBVIOUS
  <2>2. Text(m, p) = Area(m, p, e - p)
    BY <1>5, <2>1, TextIs
  <2> QED BY <1>6, <2>1, <2>2 DEF Area
<1>8. y = [k \in 1..l |-> y[k]]
  BY <1>1
<1> QED BY <1>3, <1>7, <1>8

LEMMA HoldingKept ==
  ASSUME NEW m, NEW m2, NEW lo \in Int, NEW hi \in Int, \A p \in lo .. hi - 1 : m2[p] = m[p],
         NEW pointers, NEW texts, NEW n \in Nat, \A i \in 1..n : Len(texts[i]) \in Nat,
         Holding(m, pointers, texts, n, lo, hi)
  PROVE  Holding(m2, pointers, texts, n, lo, hi)
<1> SUFFICES ASSUME NEW i \in 1..n PROVE HoldsText(m2, pointers[i], texts[i])
  BY DEF Holding
<1>1. PICK p \in lo .. hi - 1 : p = pointers[i]
  BY DEF Holding
<1>2. PICK l \in Nat : l = Len(texts[i])
  OBVIOUS
<1>3. p + l \in lo .. hi - 1 /\ m[p + l] = End /\ \A k \in 1..l : m[p + k - 1] = texts[i][k]
  BY <1>1, <1>2 DEF Holding, HoldsText
<1>4. \A k \in 1..l : p + k - 1 \in lo .. hi - 1
  BY <1>3
<1> QED BY <1>1, <1>2, <1>3, <1>4 DEF HoldsText

(* One more text, behind the others. *)
HeldMore(m, m2, lo, hi, hi2, pointers, texts, n, pointers2, texts2, c) ==
  /\ lo \in Int /\ hi \in Int /\ hi2 \in Int /\ hi <= hi2 /\ n \in Nat
  /\ \A p \in lo .. hi - 1 : m2[p] = m[p]
  /\ \A i \in 1..n : Len(texts[i]) \in Nat
  /\ Holding(m, pointers, texts, n, lo, hi)
  /\ \A i \in 1..n : pointers2[i] = pointers[i] /\ texts2[i] = texts[i]
  /\ c \in lo .. hi2 - 1 /\ pointers2[n + 1] = c /\ c + Len(texts2[n + 1]) \in lo .. hi2 - 1
  /\ HoldsText(m2, c, texts2[n + 1])

LEMMA HoldingMore ==
  ASSUME NEW m, NEW m2, NEW lo, NEW hi, NEW hi2, NEW pointers, NEW texts, NEW n,
         NEW pointers2, NEW texts2, NEW c,
         HeldMore(m, m2, lo, hi, hi2, pointers, texts, n, pointers2, texts2, c)
  PROVE  Holding(m2, pointers2, texts2, n + 1, lo, hi2)
<1> USE DEF HeldMore
<1>1. Holding(m2, pointers, texts, n, lo, hi)
  BY HoldingKept
<1> SUFFICES ASSUME NEW i \in 1 .. n + 1
             PROVE  /\ pointers2[i] \in lo .. hi2 - 1
                    /\ pointers2[i] + Len(texts2[i]) \in lo .. hi2 - 1
                    /\ HoldsText(m2, pointers2[i], texts2[i])
  BY DEF Holding
<1>2. CASE i = n + 1
  BY <1>2
<1>3. CASE i # n + 1
  <2>1. i \in 1..n
    BY <1>3
  <2>2. /\ pointers[i] \in lo .. hi - 1 /\ pointers[i] + Len(texts[i]) \in lo .. hi - 1
        /\ HoldsText(m2, pointers[i], texts[i])
    BY <1>1, <2>1 DEF Holding
  <2>3. \A k \in lo .. hi - 1 : k \in lo .. hi2 - 1
    OBVIOUS
  <2> QED BY <2>1, <2>2, <2>3
<1> QED BY <1>2, <1>3

(* The text of a string is cut from j to k, where a delimiter stands or it  *)
(* ends.                                                                    *)
Taken(a, b, l, piece) ==
  /\ l \in Nat \ {0} /\ Len(b) = l /\ a[l] = piece
  /\ \A i \in 1 .. l - 1 : a[i] = b[i]
TakenLast(a, b, l, piece) == Taken(a, b, l, piece) /\ Len(a) = l
TakenOff(a, b, l, piece) == Taken(a, b, l, piece) /\ Len(a) = l + 1 /\ a[l + 1] = <<>>

LEMMA PieceTaken ==
  ASSUME NEW C, NEW D, NEW x \in Seq(C), NEW f, f = PiecesUpto(x, D),
         NEW j \in 0..Len(x), NEW k \in j..Len(x),
         Uncut(x, D, j, k), f[j][Len(f[j])] = <<>>
  PROVE  TakenLast(f[k], f[j], Len(f[j]), Piece(x, j, k))
<1>1. PICK l : l = Len(f[j])
  OBVIOUS
<1>2. PiecesAgree(f[k], f[j])
  BY PiecesKept
<1>3. Len(f[k]) = l /\ f[k][l] = Piece(x, j, k)
  BY <1>1, PieceGrows
<1>4. l \in Nat \ {0} /\ \A i \in 1 .. l - 1 : f[k][i] = f[j][i]
  BY <1>1, <1>2 DEF PiecesAgree
<1>5. Taken(f[k], f[j], l, Piece(x, j, k))
  BY <1>1, <1>3, <1>4 DEF Taken
<1> QED BY <1>1, <1>3, <1>5 DEF TakenLast

LEMMA PieceTakenOff ==
  ASSUME NEW C, NEW D, NEW x \in Seq(C), NEW f, f = PiecesUpto(x, D),
         NEW j \in 0..Len(x), NEW k \in j .. Len(x) - 1,
         Uncut(x, D, j, k), x[k + 1] \in D, f[j][Len(f[j])] = <<>>
  PROVE  TakenOff(f[k + 1], f[j], Len(f[j]), Piece(x, j, k))
<1>1. PICK l : l = Len(f[j])
  OBVIOUS
<1>2. k \in 0 .. Len(x) - 1 /\ k \in j..Len(x)
  OBVIOUS
<1>3. Taken(f[k], f[j], l, Piece(x, j, k)) /\ Len(f[k]) = l
  BY <1>1, <1>2, PieceTaken DEF TakenLast
<1>4. PieceMoves(f[k + 1], f[k], x[k + 1], C, D)
  BY <1>2, PiecesType
<1>5. /\ Len(f[k + 1]) = l + 1 /\ f[k + 1][l] = f[k][l] /\ f[k + 1][l + 1] = <<>>
      /\ \A i \in 1 .. l - 1 : f[k + 1][i] = f[k][i]
  BY <1>3, <1>4, Zenon DEF PieceMoves
<1>6. Taken(f[k + 1], f[j], l, Piece(x, j, k))
  BY <1>3, <1>5 DEF Taken
<1> QED BY <1>1, <1>5, <1>6 DEF TakenOff
-----------------------------------------------------------------------------
(* What strsep has given of the string at s, as long as c is next and when  *)
(* it is at the end; b is the memory as it was, f the pieces of the text,   *)
(* which has n characters.                                                  *)
FieldsAt(m, b, s, f, n, pointers, c) ==
  /\ c \in s .. s + n /\ \A p \in c .. s + n : m[p] = b[p]
  /\ f[c - s][Len(f[c - s])] = <<>> /\ Len(f[c - s]) = Len(pointers) + 1
  /\ Holding(m, pointers, f[c - s], Len(pointers), s, c)
FieldsAll(m, s, f, n, pointers) ==
  /\ Len(pointers) = Len(f[n])
  /\ Holding(m, pointers, f[n], Len(pointers), s, s + n + 1)

(* The same of strtok, where g are the pieces that are not empty.           *)
ToksAt(m, b, s, f, g, n, pointers, c) ==
  /\ c \in s .. s + n /\ \A p \in c .. s + n : m[p] = b[p]
  /\ f[c - s][Len(f[c - s])] = <<>> /\ Len(g[Len(f[c - s]) - 1]) = Len(pointers)
  /\ Holding(m, pointers, g[Len(f[c - s]) - 1], Len(pointers), s, c)
ToksAll(m, s, f, g, n, pointers) ==
  /\ Len(pointers) = Len(g[Len(f[n])])
  /\ Holding(m, pointers, g[Len(f[n])], Len(pointers), s, s + n + 1)

(* The text of a string in the memory as it was, and its pieces.            *)
InPieces(N, b, s, D, x, f, n) ==
  /\ Memory(b, N) /\ s \in 0 .. N - 1 /\ x = Text(b, s) /\ f = PiecesUpto(x, D) /\ n = Len(x)
Letter == 0..255 \ {End}

LEMMA InPiecesIs ==
  ASSUME NEW N, NEW b, NEW s, NEW D, NEW x, NEW f, NEW n, InPieces(N, b, s, D, x, f, n)
  PROVE  /\ N \in Nat /\ s \in Nat /\ n \in Nat /\ s + n <= N - 1 /\ b[s + n] = End
         /\ x \in Seq(Letter) /\ Len(x) = n /\ \A i \in 1..n : x[i] = b[s + i - 1]
         /\ \A p \in s .. s + n - 1 : b[p] # End
<1>1. Memory(b, N) /\ s \in 0 .. N - 1 /\ x = Text(b, s) /\ n = Len(x) /\ N \in Nat
  BY DEF InPieces, Memory
<1>2. PICK e : Ends(b, N, s, e)
  BY <1>1, EndExists
<1>3. x = Area(b, s, e - s) /\ e - s \in Nat /\ n = e - s /\ x \in Seq(Letter)
  BY <1>1, <1>2, TextIs DEF Letter
<1>4. e \in s .. N - 1 /\ b[e] = End /\ \A p \in s .. e - 1 : b[p] # End
  BY <1>2 DEF Ends
<1>5. s + n = e /\ s \in Nat
  BY <1>1, <1>3, <1>4
<1>6. \A i \in 1..n : x[i] = b[s + i - 1]
  BY <1>3 DEF Area
<1> QED BY <1>1, <1>3, <1>4, <1>5, <1>6

LEMMA PiecesOf ==
  ASSUME NEW N, NEW b, NEW s, NEW D, NEW x, NEW f, NEW n, InPieces(N, b, s, D, x, f, n)
  PROVE  \A j \in 0..n : /\ f[j] \in Seq(Seq(Letter)) /\ Len(f[j]) \in Nat \ {0}
                         /\ \A i \in 1..Len(f[j]) : f[j][i] \in Seq(Letter) /\ Len(f[j][i]) \in Nat
<1>1. x \in Seq(Letter) /\ Len(x) = n /\ f = PiecesUpto(x, D)
  BY InPiecesIs DEF InPieces
<1>2. \A j \in 0..n : f[j] \in Seq(Seq(Letter)) /\ Len(f[j]) \in Nat \ {0}
  BY <1>1, PiecesType
<1> SUFFICES ASSUME NEW j \in 0..n, NEW i \in 1..Len(f[j])
             PROVE  f[j][i] \in Seq(Letter) /\ Len(f[j][i]) \in Nat
  BY <1>2
<1>3. f[j][i] \in Seq(Letter)
  BY <1>2, ElementOfSeq
<1> QED BY <1>3

(* The text from the place j on up to k, where it stands in the memory.     *)
LEMMA PieceStands ==
  ASSUME NEW N, NEW b, NEW s, NEW D, NEW x, NEW f, NEW n, InPieces(N, b, s, D, x, f, n),
         NEW j \in 0..n, NEW k \in j..n, NEW c, c = s + j, NEW q, q = s + k,
         NEW m, m[q] = End, \A p \in c .. q - 1 : m[p] = b[p]
  PROVE  HoldsText(m, c, Piece(x, j, k)) /\ Len(Piece(x, j, k)) = k - j
<1>1. /\ s \in Nat /\ n \in Nat /\ x \in Seq(Letter) /\ Len(x) = n
      /\ \A i \in 1..n : x[i] = b[s + i - 1]
  BY InPiecesIs
<1>2. PICK d \in Nat : d = k - j
  OBVIOUS
<1>3. Piece(x, j, k) = [i \in 1..d |-> x[j + i]]
  BY <1>2 DEF Piece
<1>4. Len(Piece(x, j, k)) = d
  BY <1>3
<1>5. c \in Nat /\ q \in Nat /\ c + d = q
  BY <1>1, <1>2
<1>6. ASSUME NEW i \in 1..d PROVE m[c + i - 1] = x[j + i]
  <2>1. j + i \in 1..n /\ s + (j + i) - 1 = c + i - 1 /\ c + i - 1 \in c .. q - 1
    BY <1>1, <1>2, <1>5
  <2>2. x[j + i] = b[s + (j + i) - 1]
    BY <1>1, <2>1
  <2> QED BY <2>1, <2>2
<1>7. \A i \in 1..d : Piece(x, j, k)[i] = x[j + i]
  BY <1>3
<1> QED BY <1>2, <1>4, <1>5, <1>6, <1>7 DEF HoldsText

(* A scan in the string from c to q, in the memory and in the text.         *)
Scanned(m, x, D, s, n, c, q) ==
  /\ c - s \in 0..n /\ q - s \in c - s .. n
  /\ (\A p \in c .. q - 1 : m[p] \notin D) => Uncut(x, D, c - s, q - s)
  /\ (\A p \in c .. q - 1 : m[p] \in D) => \A i \in (c - s) + 1 .. q - s : x[i] \in D
  /\ q < s + n => x[q - s + 1] = m[q]

LEMMA ScanIs ==
  ASSUME NEW N, NEW b, NEW s, NEW D, NEW x, NEW f, NEW n, InPieces(N, b, s, D, x, f, n),
         NEW m, Memory(m, N), NEW c \in s .. s + n, \A p \in c .. s + n : m[p] = b[p],
         NEW h, h = s + n
  PROVE  /\ Ends(m, N, c, h)
         /\ \A q \in c..h : Scanned(m, x, D, s, n, c, q)
<1>1. /\ N \in Nat /\ s \in Nat /\ n \in Nat /\ s + n <= N - 1 /\ b[s + n] = End /\ Len(x) = n
      /\ \A i \in 1..n : x[i] = b[s + i - 1]
      /\ \A p \in s .. s + n - 1 : b[p] # End
  BY InPiecesIs
<1>2. Ends(m, N, c, h)
  <2>1. s \in Int /\ h \in Int /\ c \in Int /\ 0 <= s /\ s <= c /\ c <= h /\ h <= N - 1 /\ N \in Nat
    BY <1>1
  <2>2. \A p \in c..h : m[p] = b[p]
    OBVIOUS
  <2>3. b[h] = End /\ \A p \in s .. h - 1 : b[p] # End
    BY <1>1
  <2>4. m[h] = End /\ \A p \in c .. h - 1 : m[p] # End
    BY <2>1, <2>2, <2>3
  <2> QED BY <2>1, <2>4 DEF Ends
<1>3. ASSUME NEW q \in c .. s + n
      PROVE  /\ c - s \in 0..n /\ q - s \in c - s .. n
             /\ (\A p \in c .. q - 1 : m[p] \notin D) => Uncut(x, D, c - s, q - s)
             /\ (\A p \in c .. q - 1 : m[p] \in D) => \A i \in (c - s) + 1 .. q - s : x[i] \in D
             /\ q < s + n => x[q - s + 1] = m[q]
  <2>1. c - s \in 0..n /\ q - s \in c - s .. n
    BY <1>1
  <2>2. ASSUME NEW i \in (c - s) + 1 .. q - s PROVE s + i - 1 \in c .. q - 1 /\ x[i] = m[s + i - 1]
    <3>1. i \in 1..n /\ s + i - 1 \in c .. q - 1 /\ s + i - 1 \in c .. s + n
      BY <1>1
    <3> QED BY <1>1, <3>1
  <2>3. ASSUME q < s + n PROVE x[q - s + 1] = m[q]
    <3>1. q - s + 1 \in 1..n /\ s + (q - s + 1) - 1 = q
      BY <1>1, <2>3
    <3> QED BY <1>1, <3>1
  <2> QED BY <2>1, <2>2, <2>3 DEF Uncut
<1>4. \A q \in c .. s + n : Scanned(m, x, D, s, n, c, q)
  BY <1>3 DEF Scanned
<1> QED BY <1>2, <1>4
-----------------------------------------------------------------------------
(* A call of strsep. *)
Elsewhere(m2, m, N, s, n) == \A p \in 0 .. N - 1 : p \notin s .. s + n => m2[p] = m[p]
FieldsNext(m2, next, N, b, s, f, n, pointers) ==
  /\ next = Null => FieldsAll(m2, s, f, n, pointers)
  /\ next # Null => FieldsAt(m2, b, s, f, n, pointers, next)

(* One more pointer, to the piece from c to q.                              *)
OneMore(ps, pointers, c) ==
  /\ ps \in Seq(Nat) /\ Len(ps) = Len(pointers) + 1 /\ ps[Len(pointers) + 1] = c
  /\ \A i \in 1..Len(pointers) : ps[i] = pointers[i]

LEMMA AppendIs ==
  ASSUME NEW pointers \in Seq(Nat), NEW c \in Nat
  PROVE  OneMore(Append(pointers, c), pointers, c)
<1> QED BY DEF OneMore

(* A terminator where the string goes on.                                   *)
Ended(N, m2, m, q) == Memory(m2, N) /\ m2[q] = End /\ \A p \in 0 .. N - 1 : p # q => m2[p] = m[p]

LEMMA EndedAt ==
  ASSUME NEW N, NEW m, Memory(m, N), NEW q \in 0 .. N - 1
  PROVE  Ended(N, [m EXCEPT ![q] = End], m, q)
<1> PICK m2 : m2 = [m EXCEPT ![q] = End]
  OBVIOUS
<1>1. N \in Nat \ {0} /\ m \in [0 .. N - 1 -> 0..255] /\ m[N - 1] = End /\ End \in 0..255
  BY DEF Memory, End
<1>2. m2 \in [0 .. N - 1 -> 0..255]
  BY <1>1
<1>3. m2[q] = End /\ \A p \in 0 .. N - 1 : p # q => m2[p] = m[p]
  BY <1>1
<1>4. m2[N - 1] = End
  <2>1. N - 1 \in 0 .. N - 1
    BY <1>1
  <2> QED BY <1>1, <1>3, <2>1
<1> QED BY <1>1, <1>2, <1>3, <1>4 DEF Memory, Ended

LEMMA FieldsEnd ==
  ASSUME NEW N, NEW b, NEW s, NEW D, NEW x, NEW f, NEW n, InPieces(N, b, s, D, x, f, n),
         NEW m, NEW c, NEW pointers \in Seq(Nat),
         FieldsAt(m, b, s, f, n, pointers, c), Uncut(x, D, c - s, n),
         NEW ps, OneMore(ps, pointers, c)
  PROVE  FieldsAll(m, s, f, n, ps)
<1>1. /\ s \in Nat /\ n \in Nat /\ x \in Seq(Letter) /\ Len(x) = n /\ f = PiecesUpto(x, D)
      /\ b[s + n] = End
  <2>1. f = PiecesUpto(x, D)
    BY DEF InPieces
  <2> QED BY <2>1, InPiecesIs
<1>2. PICK j : j = c - s
  OBVIOUS
<1>3. PICK r \in Nat : r = Len(pointers)
  OBVIOUS
<1>4. /\ c \in s .. s + n /\ \A p \in c .. s + n : m[p] = b[p]
      /\ f[j][Len(f[j])] = <<>> /\ Len(f[j]) = r + 1
      /\ Holding(m, pointers, f[j], r, s, c)
  BY <1>2, <1>3 DEF FieldsAt
<1>5. j \in 0..n /\ n \in j..n /\ s + j = c /\ c + (n - j) = s + n
  BY <1>1, <1>2, <1>4
<1>6. PICK y : y = Piece(x, j, n)
  OBVIOUS
<1>7. TakenLast(f[n], f[j], Len(f[j]), y)
  <2>1. Uncut(x, D, j, n) /\ j \in 0..Len(x) /\ n \in j..Len(x)
    BY <1>1, <1>2, <1>5
  <2> QED BY <1>1, <1>4, <1>6, <2>1, PieceTaken
<1>8. Len(f[n]) = r + 1 /\ f[n][r + 1] = y /\ \A i \in 1..r : f[n][i] = f[j][i]
  BY <1>4, <1>7 DEF Taken, TakenLast
<1>9. HoldsText(m, c, y) /\ Len(y) = n - j
  <2> PICK e : e = s + n
    OBVIOUS
  <2>a. e \in Int /\ c \in Int /\ c <= e /\ b[e] = End /\ \A p \in c..e : m[p] = b[p]
    BY <1>1, <1>4
  <2>b. m[e] = End /\ \A p \in c .. e - 1 : m[p] = b[p]
    BY <2>a
  <2>1. c = s + j /\ j \in 0..n /\ n \in j..n
    BY <1>5
  <2> QED BY <1>6, <2>b, <2>1, PieceStands
<1>10. \A i \in 1..r : Len(f[j][i]) \in Nat
  <2>1. \A i \in 1..Len(f[j]) : Len(f[j][i]) \in Nat
    BY <1>5, PiecesOf
  <2> QED BY <1>4, <2>1
<1>11. Len(ps) = r + 1 /\ ps[r + 1] = c /\ \A i \in 1..r : ps[i] = pointers[i]
  BY <1>3 DEF OneMore
<1>12. PICK h : h = s + n + 1
  OBVIOUS
<1>13. /\ s \in Int /\ c \in Int /\ h \in Int /\ c <= h
       /\ c \in s .. h - 1 /\ c + Len(y) \in s .. h - 1
  BY <1>1, <1>4, <1>5, <1>9, <1>12
<1>14. Holding(m, ps, f[n], r + 1, s, h)
  <2>1. \A i \in 1..r : ps[i] = pointers[i] /\ f[n][i] = f[j][i]
    BY <1>8, <1>11
  <2>2. c + Len(f[n][r + 1]) \in s .. h - 1 /\ HoldsText(m, c, f[n][r + 1])
    BY <1>8, <1>9, <1>13
  <2>3. \A p \in s .. c - 1 : m[p] = m[p]
    OBVIOUS
  <2> QED
    <3>1. HeldMore(m, m, s, c, h, pointers, f[j], r, ps, f[n], c)
      BY <1>3, <1>4, <1>10, <1>11, <1>13, <2>1, <2>2, <2>3 DEF HeldMore
    <3> QED BY <3>1, HoldingMore
<1> QED BY <1>8, <1>11, <1>12, <1>14 DEF FieldsAll

LEMMA FieldsOn ==
  ASSUME NEW N, NEW b, NEW s, NEW D, NEW x, NEW f, NEW n, InPieces(N, b, s, D, x, f, n),
         NEW m, NEW c, NEW pointers \in Seq(Nat),
         FieldsAt(m, b, s, f, n, pointers, c),
         NEW q \in c .. s + n - 1, Uncut(x, D, c - s, q - s), x[q - s + 1] \in D,
         NEW m2, m2[q] = End, \A p \in s .. s + n : p # q => m2[p] = m[p],
         NEW ps, OneMore(ps, pointers, c)
  PROVE  FieldsAt(m2, b, s, f, n, ps, q + 1)
<1>1. /\ s \in Nat /\ n \in Nat /\ x \in Seq(Letter) /\ Len(x) = n /\ f = PiecesUpto(x, D)
      /\ b[s + n] = End
  <2>1. f = PiecesUpto(x, D)
    BY DEF InPieces
  <2> QED BY <2>1, InPiecesIs
<1>2. PICK j : j = c - s
  OBVIOUS
<1>3. PICK r \in Nat : r = Len(pointers)
  OBVIOUS
<1>4. /\ c \in s .. s + n /\ \A p \in c .. s + n : m[p] = b[p]
      /\ f[j][Len(f[j])] = <<>> /\ Len(f[j]) = r + 1
      /\ Holding(m, pointers, f[j], r, s, c)
  BY <1>2, <1>3 DEF FieldsAt
<1>5. PICK k : k = q - s
  OBVIOUS
<1>0. q \in Int /\ c <= q /\ q <= s + n - 1
  BY <1>1, <1>4
<1>6. /\ j \in 0..n /\ k \in j .. n /\ k < n /\ s + j = c /\ s + k = q /\ c + (k - j) = q
      /\ (q + 1) - s = k + 1
  BY <1>0, <1>1, <1>2, <1>4, <1>5
<1>7. PICK y : y = Piece(x, j, k)
  OBVIOUS
<1>8. TakenOff(f[k + 1], f[j], Len(f[j]), y)
  <2>1. Uncut(x, D, j, k) /\ x[k + 1] \in D /\ j \in 0..Len(x) /\ k \in j .. Len(x) - 1
    BY <1>1, <1>2, <1>5, <1>6
  <2> QED BY <1>1, <1>4, <1>7, <2>1, PieceTakenOff
<1>9. PICK a : a = f[k + 1]
  OBVIOUS
<1>10. Len(a) = (r + 1) + 1 /\ a[r + 1] = y /\ a[Len(a)] = <<>> /\ \A i \in 1..r : a[i] = f[j][i]
  BY <1>4, <1>8, <1>9 DEF Taken, TakenOff
<1>11. HoldsText(m2, c, y) /\ Len(y) = k - j
  <2>a. \A p \in c .. q - 1 : p \in c .. s + n /\ p \in s .. s + n /\ p # q
    BY <1>0, <1>1, <1>4
  <2>b. \A p \in c .. q - 1 : m2[p] = b[p]
    BY <1>4, <2>a
  <2>1. c = s + j /\ q = s + k /\ j \in 0..n /\ k \in j..n
    BY <1>6
  <2>2. m2[q] = End /\ \A p \in c .. q - 1 : m2[p] = b[p]
    BY <2>b
  <2>3. HoldsText(m2, c, Piece(x, j, k)) /\ Len(Piece(x, j, k)) = k - j
    BY <2>1, <2>2, PieceStands
  <2> QED BY <1>7, <2>3
<1>12. \A i \in 1..r : Len(f[j][i]) \in Nat
  <2>1. \A i \in 1..Len(f[j]) : Len(f[j][i]) \in Nat
    BY <1>6, PiecesOf
  <2> QED BY <1>4, <2>1
<1>13. Len(ps) = r + 1 /\ ps[r + 1] = c /\ \A i \in 1..r : ps[i] = pointers[i]
  BY <1>3 DEF OneMore
<1>14. PICK h : h = q + 1
  OBVIOUS
<1>15. /\ s \in Int /\ c \in Int /\ h \in Int /\ c <= h
       /\ c \in s .. h - 1 /\ c + Len(y) \in s .. h - 1
       /\ \A p \in s .. c - 1 : m2[p] = m[p]
  <2>1. s \in Int /\ n \in Int /\ c \in Int /\ s <= c
    BY <1>1, <1>4
  <2>2. c + Len(y) = q
    BY <1>6, <1>11
  <2>3. \A p \in s .. c - 1 : p \in s .. s + n /\ p # q
    BY <1>0, <2>1
  <2> QED BY <1>0, <1>14, <2>1, <2>2, <2>3
<1>16. Holding(m2, ps, a, r + 1, s, h)
  <2>1. \A i \in 1..r : ps[i] = pointers[i] /\ a[i] = f[j][i]
    BY <1>10, <1>13
  <2>2. c + Len(a[r + 1]) \in s .. h - 1 /\ HoldsText(m2, c, a[r + 1])
    BY <1>10, <1>11, <1>15
  <2> QED
    <3>1. HeldMore(m, m2, s, c, h, pointers, f[j], r, ps, a, c)
      BY <1>3, <1>4, <1>12, <1>13, <1>15, <2>1, <2>2 DEF HeldMore
    <3> QED BY <3>1, HoldingMore
<1>17. h \in s .. s + n /\ \A p \in h .. s + n : m2[p] = b[p]
  <2>1. h \in s .. s + n
    BY <1>0, <1>1, <1>4, <1>14
  <2>2. \A p \in h .. s + n : p \in c .. s + n /\ p \in s .. s + n /\ p # q
    BY <1>0, <1>1, <1>4, <1>14
  <2> QED BY <1>4, <2>1, <2>2
<1>18. f[h - s] = a
  BY <1>6, <1>9, <1>14
<1> QED BY <1>10, <1>13, <1>14, <1>16, <1>17, <1>18 DEF FieldsAt

LEMMA FieldsStep ==
  ASSUME NEW N, NEW b, NEW s, NEW D, NEW x, NEW f, NEW n, InPieces(N, b, s, D, x, f, n),
         NEW m, Memory(m, N), NEW c, NEW pointers \in Seq(Nat),
         FieldsAt(m, b, s, f, n, pointers, c),
         NEW ct, NEW e, Ends(m, N, ct, e), D = CharsOf(m, ct, e),
         NEW call, call = Strsep(m, c, ct)
  PROVE  /\ call.ret = c /\ Memory(call.mem, N) /\ Elsewhere(call.mem, m, N, s, n)
         /\ FieldsNext(call.mem, call.next, N, b, s, f, n, Append(pointers, c))
<1>1. /\ N \in Nat /\ s \in Nat /\ n \in Nat /\ s + n <= N - 1
  BY InPiecesIs
<1>2. c \in s .. s + n /\ \A p \in c .. s + n : m[p] = b[p]
  BY DEF FieldsAt
<1>3. PICK h : h = s + n
  OBVIOUS
<1>4. Ends(m, N, c, h)
  BY <1>2, <1>3, ScanIs
<1>5. PICK q \in c..h : /\ Strpbrk(m, c, ct) = IF q = h THEN Null ELSE q
                        /\ q # h => m[q] \in D
                        /\ \A p \in c .. q - 1 : m[p] \notin D
  BY <1>4, StrpbrkIs
<1>6. Uncut(x, D, c - s, q - s) /\ (q < h => x[q - s + 1] = m[q])
  <2>1. Scanned(m, x, D, s, n, c, q)
    BY <1>2, <1>3, <1>5, ScanIs
  <2> QED BY <1>3, <1>5, <2>1 DEF Scanned
<1>7. c \in Nat /\ c # Null /\ q \in Nat /\ h \in Nat /\ q \in 0 .. N - 1 /\ q + 1 # Null /\ q # Null
  BY <1>1, <1>2, <1>3, <1>5 DEF Null
<1>8. PICK ps : ps = Append(pointers, c)
  OBVIOUS
<1>9. OneMore(ps, pointers, c)
  BY <1>7, <1>8, AppendIs
<1>10. CASE q = h
  <2>1. call = [mem |-> m, next |-> Null, ret |-> c]
    BY <1>5, <1>7, <1>10 DEF Strsep
  <2>2. Uncut(x, D, c - s, n)
    BY <1>1, <1>3, <1>6, <1>10
  <2>3. FieldsAll(m, s, f, n, ps)
    BY <1>9, <2>2, FieldsEnd
  <2>4. call.mem = m /\ call.next = Null /\ call.ret = c
    BY <2>1
  <2> QED BY <1>8, <2>3, <2>4 DEF Elsewhere, FieldsNext
<1>11. CASE q # h
  <2>1. PICK m2 : m2 = [m EXCEPT ![q] = End]
    OBVIOUS
  <2>2. call = [mem |-> m2, next |-> q + 1, ret |-> c]
    BY <1>5, <1>7, <1>11, <2>1 DEF Strsep
  <2>3. Memory(m2, N) /\ m2[q] = End /\ \A p \in 0 .. N - 1 : p # q => m2[p] = m[p]
    <3>1. q \in 0 .. N - 1
      BY <1>7
    <3>2. Ended(N, m2, m, q)
      BY <2>1, <3>1, EndedAt
    <3> QED BY <3>2 DEF Ended
  <2>4. q \in c .. s + n - 1 /\ x[q - s + 1] \in D
    <3>1. q \in c..h /\ q < h
      BY <1>5, <1>7, <1>11
    <3>2. x[q - s + 1] \in D
      BY <1>5, <1>6, <1>11, <3>1
    <3> QED BY <1>1, <1>3, <1>7, <3>1, <3>2
  <2>5. \A p \in s .. s + n : p # q => m2[p] = m[p]
    BY <1>1, <2>3
  <2>6. FieldsAt(m2, b, s, f, n, ps, q + 1)
    BY <1>6, <1>9, <2>3, <2>4, <2>5, FieldsOn
  <2>7. Elsewhere(m2, m, N, s, n)
    <3>1. q \in s .. s + n
      BY <1>1, <1>2, <2>4
    <3> QED BY <2>3, <3>1 DEF Elsewhere
  <2>8. call.mem = m2 /\ call.next = q + 1 /\ call.ret = c
    BY <2>2
  <2> QED BY <1>7, <1>8, <2>3, <2>6, <2>7, <2>8 DEF FieldsNext
<1> QED BY <1>10, <1>11
-----------------------------------------------------------------------------
(* A call of strtok. *)
LEMMA HoldingWider ==
  ASSUME NEW m, NEW lo \in Int, NEW hi \in Int, NEW hi2 \in Int, hi <= hi2,
         NEW pointers, NEW texts, NEW n, Holding(m, pointers, texts, n, lo, hi)
  PROVE  Holding(m, pointers, texts, n, lo, hi2)
<1>1. \A p \in lo .. hi - 1 : p \in lo .. hi2 - 1
  OBVIOUS
<1> QED BY <1>1 DEF Holding

(* The pieces that are not empty, up to the one at l.                       *)
FilledMore(a, b, piece) ==
  /\ Len(b) \in Nat /\ Len(a) = Len(b) + 1 /\ a[Len(b) + 1] = piece
  /\ \A i \in 1..Len(b) : a[i] = b[i] /\ Len(b[i]) \in Nat

LEMMA FilledOne ==
  ASSUME NEW N, NEW b, NEW s, NEW D, NEW x, NEW f, NEW n, InPieces(N, b, s, D, x, f, n),
         NEW g, g = FilledUpto(f[n]), NEW l \in 1..Len(f[n])
  PROVE  /\ f[n][l] = <<>> => g[l] = g[l - 1]
         /\ f[n][l] # <<>> => FilledMore(g[l], g[l - 1], f[n][l])
<1>1. f[n] \in Seq(Seq(Letter)) /\ Len(f[n]) \in Nat /\ n \in Nat
  <2>1. n \in Nat
    BY InPiecesIs
  <2>2. n \in 0..n
    BY <2>1
  <2> QED BY <2>1, <2>2, PiecesOf
<1>2. PICK y \in Seq(Seq(Letter)) : y = f[n]
  BY <1>1
<1>3. PICK k \in 0 .. Len(y) - 1 : k = l - 1
  BY <1>1, <1>2
<1>4. k + 1 = l /\ k \in 0..Len(y)
  BY <1>1, <1>2, <1>3
<1>5. g[k] \in Seq(Seq(Letter)) /\ Len(g[k]) \in Nat /\ FilledMoves(g[k + 1], g[k], y[k + 1], Letter)
  BY <1>2, <1>4, FilledType
<1>6. FilledMoves(g[l], g[k], y[l], Letter)
  BY <1>4, <1>5
<1>7. \A i \in 1..Len(g[k]) : Len(g[k][i]) \in Nat
  <2> SUFFICES ASSUME NEW i \in 1..Len(g[k]) PROVE Len(g[k][i]) \in Nat
    OBVIOUS
  <2>1. g[k][i] \in Seq(Letter)
    BY <1>5, ElementOfSeq
  <2> QED BY <2>1
<1>8. y[l] # <<>> => FilledMore(g[l], g[k], y[l])
  BY <1>5, <1>6, <1>7, Zenon DEF FilledMoves, FilledMore
<1>9. y[l] = <<>> => g[l] = g[k]
  BY <1>6, Zenon DEF FilledMoves
<1> QED BY <1>2, <1>3, <1>8, <1>9

LEMMA ToksSkip ==
  ASSUME NEW N, NEW b, NEW s, NEW D, NEW x, NEW f, NEW n, InPieces(N, b, s, D, x, f, n),
         NEW g, g = FilledUpto(f[n]), NEW m, NEW c, NEW pointers,
         ToksAt(m, b, s, f, g, n, pointers, c),
         NEW q \in c .. s + n, \A i \in (c - s) + 1 .. q - s : x[i] \in D
  PROVE  ToksAt(m, b, s, f, g, n, pointers, q)
<1>1. s \in Nat /\ n \in Nat /\ x \in Seq(Letter) /\ Len(x) = n /\ f = PiecesUpto(x, D)
  <2>1. f = PiecesUpto(x, D)
    BY DEF InPieces
  <2> QED BY <2>1, InPiecesIs
<1>2. PICK j : j = c - s
  OBVIOUS
<1>3. PICK k : k = q - s
  OBVIOUS
<1>4. /\ c \in s .. s + n /\ \A p \in c .. s + n : m[p] = b[p]
      /\ f[j][Len(f[j])] = <<>> /\ Len(g[Len(f[j]) - 1]) = Len(pointers)
      /\ Holding(m, pointers, g[Len(f[j]) - 1], Len(pointers), s, c)
  BY <1>2 DEF ToksAt
<1>5. q \in Int /\ c \in Int /\ c <= q /\ q <= s + n
  BY <1>1, <1>4
<1>6. j \in 0..n /\ k \in j..n /\ k \in 0..n /\ n \in k..n
  BY <1>1, <1>2, <1>3, <1>4, <1>5
<1>7. Len(f[k]) = Len(f[j]) + (k - j) /\ \A i \in Len(f[j]) .. Len(f[k]) : f[k][i] = <<>>
  <2>1. \A i \in j + 1 .. k : x[i] \in D
    BY <1>2, <1>3
  <2>2. j \in 0..Len(x) /\ k \in j..Len(x)
    BY <1>1, <1>6
  <2>3. EmptyOn(f[k], f[j], k - j)
    BY <1>1, <1>4, <2>1, <2>2, EmptyPieces
  <2> QED BY <2>3 DEF EmptyOn
<1>8. PiecesAgree(f[n], f[k])
  <2>1. k \in 0..Len(x) /\ n \in k..Len(x)
    BY <1>1, <1>6
  <2> QED BY <1>1, <2>1, PiecesKept
<1>9. f[n] \in Seq(Seq(Letter)) /\ Len(f[j]) \in Nat \ {0}
  <2>1. n \in 0..n
    BY <1>1
  <2> QED BY <1>6, <2>1, PiecesOf
<1>10. PICK u : u = Len(f[j]) - 1
  OBVIOUS
<1>11. PICK v : v = Len(f[k]) - 1
  OBVIOUS
<1>12. PICK y \in Seq(Seq(Letter)) : y = f[n]
  BY <1>9
<1>13. /\ u \in 0..Len(y) /\ v \in u..Len(y) /\ Len(f[k]) \in u + 1 .. v + 1
       /\ \A i \in u + 1 .. v : y[i] = <<>>
  <2>1. Len(f[k]) \in Nat \ {0} /\ Len(y) \in Nat /\ Len(f[k]) <= Len(y)
        /\ \A i \in 1 .. Len(f[k]) - 1 : y[i] = f[k][i]
    BY <1>8, <1>12 DEF PiecesAgree
  <2>2. k - j \in Nat
    BY <1>6
  <2>3. PICK d \in Nat : d = k - j
    BY <2>2
  <2>4. Len(f[k]) = (u + 1) + d /\ u \in Nat /\ v = u + d /\ v \in Nat
    <3>1. Len(f[j]) = u + 1 /\ u \in Nat
      BY <1>9, <1>10
    <3>2. Len(f[k]) = (u + 1) + d
      BY <1>7, <2>3, <3>1
    <3> QED BY <1>11, <3>1, <3>2
  <2>5. \A i \in u + 1 .. v : i \in 1 .. Len(f[k]) - 1 /\ i \in Len(f[j]) .. Len(f[k])
    BY <1>9, <1>10, <2>4
  <2>6. \A i \in u + 1 .. v : y[i] = <<>>
    BY <1>7, <2>1, <2>5
  <2> QED BY <2>1, <2>4, <2>6
<1>14. g[v] = g[u]
  BY <1>12, <1>13, FilledKept
<1>15. f[k][Len(f[k])] = <<>>
  <2>1. Len(f[k]) \in Len(f[j]) .. Len(f[k])
    BY <1>9, <1>10, <1>13
  <2> QED BY <1>7, <2>1
<1>16. Holding(m, pointers, g[v], Len(pointers), s, q)
  <2>1. Holding(m, pointers, g[v], Len(pointers), s, c)
    BY <1>4, <1>10, <1>14
  <2>2. s \in Int
    BY <1>1
  <2> QED BY <1>5, <2>1, <2>2, HoldingWider
<1>17. q \in s .. s + n /\ \A p \in q .. s + n : m[p] = b[p]
  BY <1>1, <1>4, <1>5
<1> QED BY <1>3, <1>4, <1>10, <1>11, <1>14, <1>15, <1>16, <1>17 DEF ToksAt

LEMMA ToksDone ==
  ASSUME NEW N, NEW b, NEW s, NEW D, NEW x, NEW f, NEW n, InPieces(N, b, s, D, x, f, n),
         NEW g, g = FilledUpto(f[n]), NEW m, NEW pointers,
         ToksAt(m, b, s, f, g, n, pointers, s + n)
  PROVE  ToksAll(m, s, f, g, n, pointers)
<1>1. s \in Nat /\ n \in Nat
  BY InPiecesIs
<1>2. (s + n) - s = n
  BY <1>1
<1>3. PICK l : l = Len(f[n])
  OBVIOUS
<1>4. /\ f[n][l] = <<>> /\ Len(g[l - 1]) = Len(pointers)
      /\ Holding(m, pointers, g[l - 1], Len(pointers), s, s + n)
  BY <1>2, <1>3 DEF ToksAt
<1>5. l \in 1..Len(f[n])
  <2>1. n \in 0..n
    BY <1>1
  <2>2. Len(f[n]) \in Nat \ {0}
    BY <2>1, PiecesOf
  <2> QED BY <1>3, <2>2
<1>6. g[l] = g[l - 1]
  BY <1>4, <1>5, FilledOne
<1>7. Holding(m, pointers, g[l], Len(pointers), s, s + n + 1)
  <2>1. s \in Int /\ s + n \in Int /\ s + n + 1 \in Int /\ s + n <= s + n + 1
    BY <1>1
  <2> QED BY <1>4, <1>6, <2>1, HoldingWider
<1> QED BY <1>3, <1>4, <1>6, <1>7 DEF ToksAll

LEMMA ToksEnd ==
  ASSUME NEW N, NEW b, NEW s, NEW D, NEW x, NEW f, NEW n, InPieces(N, b, s, D, x, f, n),
         NEW g, g = FilledUpto(f[n]), NEW m, NEW c, NEW pointers \in Seq(Nat),
         ToksAt(m, b, s, f, g, n, pointers, c), Uncut(x, D, c - s, n), c # s + n,
         NEW ps, OneMore(ps, pointers, c)
  PROVE  ToksAll(m, s, f, g, n, ps)
<1>1. /\ s \in Nat /\ n \in Nat /\ x \in Seq(Letter) /\ Len(x) = n /\ f = PiecesUpto(x, D)
      /\ b[s + n] = End
  <2>1. f = PiecesUpto(x, D)
    BY DEF InPieces
  <2> QED BY <2>1, InPiecesIs
<1>2. PICK j : j = c - s
  OBVIOUS
<1>3. PICK r \in Nat : r = Len(pointers)
  OBVIOUS
<1>4. PICK l : l = Len(f[j])
  OBVIOUS
<1>5. /\ c \in s .. s + n /\ \A p \in c .. s + n : m[p] = b[p]
      /\ f[j][l] = <<>> /\ Len(g[l - 1]) = r
      /\ Holding(m, pointers, g[l - 1], r, s, c)
  BY <1>2, <1>3, <1>4 DEF ToksAt
<1>6. j \in 0..n /\ n \in j..n /\ c = s + j /\ c + (n - j) = s + n /\ n - j > 0
  <2>1. s \in Int /\ n \in Int /\ c \in Int /\ s <= c /\ c <= s + n /\ c # s + n
    BY <1>1, <1>5
  <2> QED BY <1>2, <2>1
<1>7. PICK y : y = Piece(x, j, n)
  OBVIOUS
<1>8. l \in Nat \ {0} /\ Len(f[n]) = l /\ f[n][l] = y
  <2>1. Uncut(x, D, j, n) /\ j \in 0..Len(x) /\ n \in j..Len(x)
    BY <1>1, <1>2, <1>6
  <2>2. TakenLast(f[n], f[j], l, y)
    BY <1>1, <1>4, <1>5, <1>7, <2>1, PieceTaken
  <2> QED BY <2>2 DEF Taken, TakenLast
<1>9. HoldsText(m, c, y) /\ Len(y) = n - j
  <2> PICK e : e = s + n
    OBVIOUS
  <2>a. e \in Int /\ c \in Int /\ c <= e /\ b[e] = End /\ \A p \in c..e : m[p] = b[p]
    BY <1>1, <1>5
  <2>b. m[e] = End /\ \A p \in c .. e - 1 : m[p] = b[p]
    BY <2>a
  <2>1. c = s + j /\ j \in 0..n /\ n \in j..n
    BY <1>6
  <2> QED BY <1>7, <2>b, <2>1, PieceStands
<1>10. FilledMore(g[l], g[l - 1], y)
  <2>1. y # <<>> /\ l \in 1..Len(f[n])
    BY <1>6, <1>8, <1>9
  <2> QED BY <1>8, <2>1, FilledOne
<1>11. /\ Len(g[l]) = r + 1 /\ g[l][r + 1] = y
       /\ \A i \in 1..r : g[l][i] = g[l - 1][i] /\ Len(g[l - 1][i]) \in Nat
  BY <1>5, <1>10 DEF FilledMore
<1>12. Len(ps) = r + 1 /\ ps[r + 1] = c /\ \A i \in 1..r : ps[i] = pointers[i]
  BY <1>3 DEF OneMore
<1>13. PICK h : h = s + n + 1
  OBVIOUS
<1>14. /\ s \in Int /\ c \in Int /\ h \in Int /\ c <= h
       /\ c \in s .. h - 1 /\ c + Len(y) \in s .. h - 1
  <2>1. s \in Int /\ n \in Int /\ c \in Int /\ s <= c /\ c <= s + n
    BY <1>1, <1>5
  <2>2. c + Len(y) = s + n
    BY <1>6, <1>9
  <2> QED BY <1>13, <2>1, <2>2
<1>15. Holding(m, ps, g[l], r + 1, s, h)
  <2>1. \A i \in 1..r : ps[i] = pointers[i] /\ g[l][i] = g[l - 1][i]
    BY <1>11, <1>12
  <2>2. c + Len(g[l][r + 1]) \in s .. h - 1 /\ HoldsText(m, c, g[l][r + 1])
    BY <1>9, <1>11, <1>14
  <2>3. \A p \in s .. c - 1 : m[p] = m[p]
    OBVIOUS
  <2>4. HeldMore(m, m, s, c, h, pointers, g[l - 1], r, ps, g[l], c)
    BY <1>3, <1>5, <1>11, <1>12, <1>14, <2>1, <2>2, <2>3 DEF HeldMore
  <2> QED BY <2>4, HoldingMore
<1> QED BY <1>8, <1>11, <1>12, <1>13, <1>15 DEF ToksAll

LEMMA ToksOn ==
  ASSUME NEW N, NEW b, NEW s, NEW D, NEW x, NEW f, NEW n, InPieces(N, b, s, D, x, f, n),
         NEW g, g = FilledUpto(f[n]), NEW m, NEW c, NEW pointers \in Seq(Nat),
         ToksAt(m, b, s, f, g, n, pointers, c),
         NEW q \in c .. s + n - 1, q # c, Uncut(x, D, c - s, q - s), x[q - s + 1] \in D,
         NEW m2, m2[q] = End, \A p \in s .. s + n : p # q => m2[p] = m[p],
         NEW ps, OneMore(ps, pointers, c)
  PROVE  ToksAt(m2, b, s, f, g, n, ps, q + 1)
<1>1. s \in Nat /\ n \in Nat /\ x \in Seq(Letter) /\ Len(x) = n /\ f = PiecesUpto(x, D)
  <2>1. f = PiecesUpto(x, D)
    BY DEF InPieces
  <2> QED BY <2>1, InPiecesIs
<1>2. PICK j : j = c - s
  OBVIOUS
<1>3. PICK r \in Nat : r = Len(pointers)
  OBVIOUS
<1>4. PICK l : l = Len(f[j])
  OBVIOUS
<1>5. /\ c \in s .. s + n /\ \A p \in c .. s + n : m[p] = b[p]
      /\ f[j][l] = <<>> /\ Len(g[l - 1]) = r
      /\ Holding(m, pointers, g[l - 1], r, s, c)
  BY <1>2, <1>3, <1>4 DEF ToksAt
<1>6. q \in Int /\ c \in Int /\ s <= c /\ c < q /\ q <= s + n - 1
  BY <1>1, <1>5
<1>7. PICK k : k = q - s
  OBVIOUS
<1>8. /\ j \in 0..n /\ k \in j..n /\ k \in 0 .. n - 1 /\ c = s + j /\ q = s + k
      /\ c + (k - j) = q /\ k - j > 0 /\ (q + 1) - s = k + 1
  <2>1. s \in Int /\ n \in Int /\ n >= 0
    BY <1>1
  <2>2. j \in Int /\ k \in Int /\ c = s + j /\ q = s + k /\ 0 <= j /\ j < k /\ k <= n - 1
    BY <1>2, <1>6, <1>7, <2>1
  <2> QED BY <2>1, <2>2
<1>9. PICK y : y = Piece(x, j, k)
  OBVIOUS
<1>10. PICK a : a = f[k + 1]
  OBVIOUS
<1>11. l \in Nat \ {0} /\ Len(a) = l + 1 /\ a[l] = y /\ a[l + 1] = <<>>
  <2>1. /\ Uncut(x, D, j, k) /\ x[k + 1] \in D /\ j \in 0..Len(x) /\ k \in j .. Len(x) - 1
        /\ f[j][Len(f[j])] = <<>>
    BY <1>1, <1>2, <1>4, <1>5, <1>7, <1>8
  <2>2. TakenOff(f[k + 1], f[j], Len(f[j]), Piece(x, j, k))
    BY <1>1, <2>1, PieceTakenOff
  <2>3. TakenOff(a, f[j], l, y)
    BY <1>4, <1>9, <1>10, <2>2
  <2> QED BY <2>3 DEF Taken, TakenOff
<1>12. l \in 1..Len(f[n]) /\ f[n][l] = y
  <2>1. k + 1 \in 0..Len(x) /\ n \in k + 1 .. Len(x)
    BY <1>1, <1>8
  <2>2. PiecesAgree(f[n], f[k + 1])
    BY <1>1, <2>1, PiecesKept
  <2>3. Len(a) <= Len(f[n]) /\ Len(f[n]) \in Nat /\ \A i \in 1 .. Len(a) - 1 : f[n][i] = a[i]
    BY <1>10, <2>2 DEF PiecesAgree
  <2>4. l \in 1 .. Len(a) - 1
    BY <1>11
  <2> QED BY <1>11, <2>3, <2>4
<1>13. HoldsText(m2, c, y) /\ Len(y) = k - j
  <2>1. \A p \in c .. q - 1 : p \in c .. s + n /\ p \in s .. s + n /\ p # q
    BY <1>1, <1>6
  <2>2. m2[q] = End /\ \A p \in c .. q - 1 : m2[p] = b[p]
    BY <1>5, <2>1
  <2>3. c = s + j /\ q = s + k /\ j \in 0..n /\ k \in j..n
    BY <1>8
  <2>4. HoldsText(m2, c, Piece(x, j, k)) /\ Len(Piece(x, j, k)) = k - j
    BY <2>2, <2>3, PieceStands
  <2> QED BY <1>9, <2>4
<1>14. FilledMore(g[l], g[l - 1], y)
  <2>1. y # <<>>
    BY <1>8, <1>13
  <2> QED BY <1>12, <2>1, FilledOne
<1>15. /\ Len(g[l]) = r + 1 /\ g[l][r + 1] = y
       /\ \A i \in 1..r : g[l][i] = g[l - 1][i] /\ Len(g[l - 1][i]) \in Nat
  BY <1>5, <1>14 DEF FilledMore
<1>16. Len(ps) = r + 1 /\ ps[r + 1] = c /\ \A i \in 1..r : ps[i] = pointers[i]
  BY <1>3 DEF OneMore
<1>17. PICK h : h = q + 1
  OBVIOUS
<1>18. /\ s \in Int /\ c \in Int /\ h \in Int /\ c <= h
       /\ c \in s .. h - 1 /\ c + Len(y) \in s .. h - 1
       /\ \A p \in s .. c - 1 : m2[p] = m[p]
  <2>1. s \in Int /\ n \in Int
    BY <1>1
  <2>2. c + Len(y) = q
    BY <1>8, <1>13
  <2>3. \A p \in s .. c - 1 : p \in s .. s + n /\ p # q
    BY <1>6, <2>1
  <2> QED BY <1>6, <1>17, <2>1, <2>2, <2>3
<1>19. Holding(m2, ps, g[l], r + 1, s, h)
  <2>1. \A i \in 1..r : ps[i] = pointers[i] /\ g[l][i] = g[l - 1][i]
    BY <1>15, <1>16
  <2>2. c + Len(g[l][r + 1]) \in s .. h - 1 /\ HoldsText(m2, c, g[l][r + 1])
    BY <1>13, <1>15, <1>18
  <2>3. HeldMore(m, m2, s, c, h, pointers, g[l - 1], r, ps, g[l], c)
    BY <1>3, <1>5, <1>15, <1>16, <1>18, <2>1, <2>2 DEF HeldMore
  <2> QED BY <2>3, HoldingMore
<1>20. h \in s .. s + n /\ \A p \in h .. s + n : m2[p] = b[p]
  <2>1. h \in s .. s + n
    BY <1>1, <1>6, <1>17
  <2>2. \A p \in h .. s + n : p \in c .. s + n /\ p \in s .. s + n /\ p # q
    BY <1>1, <1>6, <1>17
  <2> QED BY <1>5, <2>1, <2>2
<1>21. f[h - s] = a /\ Len(a) - 1 = l
  BY <1>8, <1>10, <1>11, <1>17
<1> QED BY <1>11, <1>15, <1>16, <1>17, <1>19, <1>20, <1>21 DEF ToksAt


ToksNext(m2, given, next, b, s, f, g, n, pointers) ==
  /\ given = Null => next = Null
  /\ given = Null => ToksAll(m2, s, f, g, n, pointers)
  /\ given # Null => given \in Nat
  /\ given # Null /\ next = Null => ToksAll(m2, s, f, g, n, Append(pointers, given))
  /\ given # Null /\ next # Null => ToksAt(m2, b, s, f, g, n, Append(pointers, given), next)

LEMMA ToksStep ==
  ASSUME NEW N, NEW b, NEW s, NEW D, NEW x, NEW f, NEW n, InPieces(N, b, s, D, x, f, n),
         NEW g, g = FilledUpto(f[n]),
         NEW m, Memory(m, N), NEW c, NEW pointers \in Seq(Nat),
         ToksAt(m, b, s, f, g, n, pointers, c),
         NEW ct, NEW e, Ends(m, N, ct, e), D = CharsOf(m, ct, e),
         NEW old, NEW arg, c = IF arg # Null THEN arg ELSE old,
         NEW call, call = Strtok(m, old, arg, ct)
  PROVE  /\ Memory(call.mem, N) /\ Elsewhere(call.mem, m, N, s, n)
         /\ ToksNext(call.mem, call.ret, call.tok, b, s, f, g, n, pointers)
<1>1. /\ N \in Nat /\ s \in Nat /\ n \in Nat /\ s + n <= N - 1 /\ b[s + n] = End
      /\ \A p \in s .. s + n - 1 : b[p] # End
  BY InPiecesIs
<1>2. c \in s .. s + n /\ \A p \in c .. s + n : m[p] = b[p]
  BY DEF ToksAt
<1>3. PICK h : h = s + n
  OBVIOUS
<1>4. Ends(m, N, c, h)
  BY <1>2, <1>3, ScanIs
<1>5. PICK d \in c..h : /\ Strspn(m, c, ct) = d - c
                        /\ m[d] \notin D
                        /\ \A p \in c .. d - 1 : m[p] \in D
  BY <1>4, StrspnIs
<1>6. /\ s \in Int /\ h \in Int /\ c \in Int /\ d \in Int /\ 0 <= s /\ s <= c /\ c <= d /\ d <= h
      /\ h <= N - 1 /\ h = s + n
  <2>1. s \in Int /\ h \in Int /\ 0 <= s /\ h <= N - 1
    BY <1>1, <1>3
  <2> QED BY <1>2, <1>3, <1>5, <2>1
<1>7. \A i \in (c - s) + 1 .. d - s : x[i] \in D
  <2>1. Scanned(m, x, D, s, n, c, d)
    BY <1>2, <1>3, <1>5, ScanIs
  <2> QED BY <1>5, <2>1 DEF Scanned
<1>8. ToksAt(m, b, s, f, g, n, pointers, d)
  BY <1>3, <1>5, <1>7, ToksSkip
<1>9. c # Null /\ d # Null /\ d \in Nat /\ c + (d - c) = d
  BY <1>6 DEF Null
<1>10. m[d] = End <=> d = h
  <2>1. d \in c .. s + n /\ m[d] = b[d]
    BY <1>2, <1>3, <1>5
  <2>2. d # h => d \in s .. s + n - 1
    BY <1>1, <1>6
  <2> QED BY <1>1, <1>3, <2>1, <2>2
<1>11. call = IF m[d] = End THEN [mem |-> m, tok |-> Null, ret |-> Null]
              ELSE LET send == Strpbrk(m, d, ct)
                   IN  [mem |-> IF send = Null THEN m ELSE [m EXCEPT ![send] = End],
                        tok |-> IF send = Null THEN Null ELSE send + 1, ret |-> d]
  <2>1. CASE arg # Null
    BY <1>5, <1>9, <2>1 DEF Strtok
  <2>2. CASE arg = Null
    BY <1>5, <1>9, <2>2 DEF Strtok
  <2> QED BY <2>1, <2>2
<1>12. CASE d = h
  <2>1. call.mem = m /\ call.tok = Null /\ call.ret = Null
    BY <1>10, <1>11, <1>12
  <2>2. ToksAll(m, s, f, g, n, pointers)
    BY <1>3, <1>8, <1>12, ToksDone
  <2> QED BY <2>1, <2>2 DEF Elsewhere, ToksNext
<1>13. CASE d # h
  <2>1. d \in s .. s + n /\ \A p \in d .. s + n : m[p] = b[p]
    BY <1>8 DEF ToksAt
  <2>2. Ends(m, N, d, h)
    BY <1>3, <2>1, ScanIs
  <2>3. PICK q \in d..h : /\ Strpbrk(m, d, ct) = IF q = h THEN Null ELSE q
                          /\ q # h => m[q] \in D
                          /\ \A p \in d .. q - 1 : m[p] \notin D
    BY <2>2, StrpbrkIs
  <2>4. q # d
    BY <1>5, <1>13, <2>3
  <2>5. Uncut(x, D, d - s, q - s) /\ (q < h => x[q - s + 1] = m[q])
    <3>1. Scanned(m, x, D, s, n, d, q)
      BY <1>3, <2>1, <2>3, ScanIs
    <3> QED BY <1>3, <2>3, <3>1 DEF Scanned
  <2>6. PICK ps : ps = Append(pointers, d)
    OBVIOUS
  <2>7. OneMore(ps, pointers, d)
    BY <1>9, <2>6, AppendIs
  <2>8. q \in Int /\ d <= q /\ q <= h /\ q \in 0 .. N - 1 /\ q # Null /\ q + 1 # Null
    BY <1>1, <1>6, <2>3 DEF Null
  <2>9. CASE q = h
    <3>1. call.mem = m /\ call.tok = Null /\ call.ret = d
      BY <1>10, <1>11, <1>13, <2>3, <2>9
    <3>2. Uncut(x, D, d - s, n) /\ d # s + n
      BY <1>1, <1>3, <1>13, <2>5, <2>9
    <3>3. ToksAll(m, s, f, g, n, ps)
      BY <1>8, <2>7, <3>2, ToksEnd
    <3> QED BY <1>9, <2>6, <3>1, <3>3 DEF Elsewhere, ToksNext
  <2>10. CASE q # h
    <3>1. PICK m2 : m2 = [m EXCEPT ![q] = End]
      OBVIOUS
    <3>2. call.mem = m2 /\ call.tok = q + 1 /\ call.ret = d
      BY <1>10, <1>11, <1>13, <2>3, <2>8, <2>10, <3>1
    <3>3. Ended(N, m2, m, q)
      BY <2>8, <3>1, EndedAt
    <3>4. Memory(m2, N) /\ m2[q] = End /\ \A p \in 0 .. N - 1 : p # q => m2[p] = m[p]
      BY <3>3 DEF Ended
    <3>5. q \in d .. s + n - 1 /\ x[q - s + 1] \in D
      <4>1. q < h
        BY <1>6, <2>8, <2>10
      <4>2. x[q - s + 1] \in D
        BY <2>3, <2>5, <2>10, <4>1
      <4> QED BY <1>1, <1>6, <2>8, <4>1, <4>2
    <3>6. \A p \in s .. s + n : p # q => m2[p] = m[p]
      BY <1>1, <3>4
    <3>7. ToksAt(m2, b, s, f, g, n, ps, q + 1)
      BY <1>8, <2>4, <2>5, <2>7, <3>4, <3>5, <3>6, ToksOn
    <3>8. Elsewhere(m2, m, N, s, n)
      <4>1. q \in s .. s + n
        BY <1>6, <2>8
      <4> QED BY <3>4, <4>1 DEF Elsewhere
    <3> QED BY <1>9, <2>6, <2>8, <3>2, <3>4, <3>7, <3>8 DEF ToksNext
  <2> QED BY <2>9, <2>10
<1> QED BY <1>12, <1>13
-----------------------------------------------------------------------------
(* Before the first call, and while the other string is taken apart.        *)
LEMMA FieldsStart ==
  ASSUME NEW N, NEW b, NEW s, NEW D, NEW x, NEW f, NEW n, InPieces(N, b, s, D, x, f, n)
  PROVE  FieldsAt(b, b, s, f, n, <<>>, s)
<1>1. s \in Nat /\ n \in Nat /\ x \in Seq(Letter) /\ f = PiecesUpto(x, D)
  <2>1. f = PiecesUpto(x, D)
    BY DEF InPieces
  <2> QED BY <2>1, InPiecesIs
<1>2. f[0][Len(f[0])] = <<>> /\ Len(f[0]) = 0 + 1
  <2>1. PICK e : e = <<>>
    OBVIOUS
  <2>2. f[0] = <<e>>
    BY <1>1, <2>1, PiecesType
  <2>3. Len(f[0]) = 1 /\ f[0][1] = e
    BY <2>2
  <2> QED BY <2>1, <2>3
<1>3. s - s = 0 /\ s \in s .. s + n /\ Len(<<>>) = 0
  BY <1>1
<1>4. Holding(b, <<>>, f[0], 0, s, s)
  BY DEF Holding
<1> QED BY <1>2, <1>3, <1>4 DEF FieldsAt

LEMMA ToksStart ==
  ASSUME NEW N, NEW b, NEW s, NEW D, NEW x, NEW f, NEW n, InPieces(N, b, s, D, x, f, n),
         NEW g, g = FilledUpto(f[n])
  PROVE  ToksAt(b, b, s, f, g, n, <<>>, s)
<1>1. s \in Nat /\ n \in Nat /\ x \in Seq(Letter) /\ f = PiecesUpto(x, D)
  <2>1. f = PiecesUpto(x, D)
    BY DEF InPieces
  <2> QED BY <2>1, InPiecesIs
<1>2. f[0][Len(f[0])] = <<>> /\ Len(f[0]) - 1 = 0
  <2>1. PICK e : e = <<>>
    OBVIOUS
  <2>2. f[0] = <<e>>
    BY <1>1, <2>1, PiecesType
  <2>3. Len(f[0]) = 1 /\ f[0][1] = e
    BY <2>2
  <2> QED BY <2>1, <2>3
<1>3. s - s = 0 /\ s \in s .. s + n
  BY <1>1
<1>4. g[0] = <<>>
  <2>1. n \in 0..n
    BY <1>1
  <2>2. f[n] \in Seq(Seq(Letter))
    BY <2>1, PiecesOf
  <2> QED BY <2>2, FilledType
<1>5. Holding(b, <<>>, g[0], 0, s, s) /\ Len(g[0]) = 0
  BY <1>4 DEF Holding
<1>6. Len(<<>>) = 0
  OBVIOUS
<1> QED BY <1>2, <1>3, <1>5, <1>6 DEF ToksAt

LEMMA FieldsKept ==
  ASSUME NEW N, NEW b, NEW s, NEW D, NEW x, NEW f, NEW n, InPieces(N, b, s, D, x, f, n),
         NEW m, NEW m2, \A p \in s .. s + n : m2[p] = m[p], NEW pointers \in Seq(Nat)
  PROVE  /\ FieldsAll(m, s, f, n, pointers) => FieldsAll(m2, s, f, n, pointers)
         /\ \A c : FieldsAt(m, b, s, f, n, pointers, c) => FieldsAt(m2, b, s, f, n, pointers, c)
<1>1. s \in Nat /\ n \in Nat
  BY InPiecesIs
<1>2. ASSUME FieldsAll(m, s, f, n, pointers) PROVE FieldsAll(m2, s, f, n, pointers)
  <2>1. n \in 0..n
    BY <1>1
  <2>2. \A i \in 1..Len(f[n]) : Len(f[n][i]) \in Nat
    BY <2>1, PiecesOf
  <2>3. PICK r \in Nat : r = Len(pointers)
    OBVIOUS
  <2>4. Len(f[n]) = r /\ Holding(m, pointers, f[n], r, s, s + n + 1)
    BY <1>2, <2>3 DEF FieldsAll
  <2>5. \A i \in 1..r : Len(f[n][i]) \in Nat
    BY <2>2, <2>4
  <2>6. PICK h \in Int : h = s + n + 1
    BY <1>1
  <2>7. \A p \in s .. h - 1 : m2[p] = m[p]
    BY <1>1, <2>6
  <2>8. s \in Int
    BY <1>1
  <2>9. Holding(m2, pointers, f[n], r, s, h)
    BY <2>3, <2>4, <2>5, <2>6, <2>7, <2>8, HoldingKept
  <2> QED BY <2>3, <2>4, <2>6, <2>9 DEF FieldsAll
<1>3. ASSUME NEW c, FieldsAt(m, b, s, f, n, pointers, c)
      PROVE  FieldsAt(m2, b, s, f, n, pointers, c)
  <2>1. PICK r \in Nat : r = Len(pointers)
    OBVIOUS
  <2>2. PICK y : y = f[c - s]
    OBVIOUS
  <2>3. /\ c \in s .. s + n /\ \A p \in c .. s + n : m[p] = b[p]
        /\ y[Len(y)] = <<>> /\ Len(y) = r + 1
        /\ Holding(m, pointers, y, r, s, c)
    BY <1>3, <2>1, <2>2 DEF FieldsAt
  <2>4. c \in Int /\ s \in Int /\ s <= c /\ c <= s + n /\ c - s \in 0..n
    BY <1>1, <2>3
  <2>5. \A i \in 1..r : Len(y[i]) \in Nat
    <3>1. \A i \in 1..Len(y) : Len(y[i]) \in Nat
      BY <2>2, <2>4, PiecesOf
    <3> QED BY <2>3, <3>1
  <2>6. \A p \in s .. c - 1 : m2[p] = m[p]
    BY <1>1, <2>4
  <2>7. Holding(m2, pointers, y, r, s, c)
    BY <2>1, <2>3, <2>4, <2>5, <2>6, HoldingKept
  <2>8. \A p \in c .. s + n : m2[p] = b[p]
    BY <1>1, <2>3, <2>4
  <2> QED BY <2>1, <2>2, <2>3, <2>7, <2>8 DEF FieldsAt
<1> QED BY <1>2, <1>3

LEMMA ToksKept ==
  ASSUME NEW N, NEW b, NEW s, NEW D, NEW x, NEW f, NEW n, InPieces(N, b, s, D, x, f, n),
         NEW g, g = FilledUpto(f[n]),
         NEW m, NEW m2, \A p \in s .. s + n : m2[p] = m[p], NEW pointers \in Seq(Nat)
  PROVE  /\ ToksAll(m, s, f, g, n, pointers) => ToksAll(m2, s, f, g, n, pointers)
         /\ \A c : ToksAt(m, b, s, f, g, n, pointers, c) => ToksAt(m2, b, s, f, g, n, pointers, c)
<1>1. s \in Nat /\ n \in Nat
  BY InPiecesIs
<1>2. PICK y \in Seq(Seq(Letter)) : y = f[n]
  <2>1. n \in 0..n
    BY <1>1
  <2> QED BY <2>1, PiecesOf
<1>3. ASSUME NEW k \in 0..Len(y), NEW i \in 1..Len(g[k]) PROVE Len(g[k][i]) \in Nat
  <2>1. g[k] \in Seq(Seq(Letter))
    BY <1>2, FilledType
  <2>2. g[k][i] \in Seq(Letter)
    BY <2>1, ElementOfSeq
  <2> QED BY <2>2
<1>4. PICK r \in Nat : r = Len(pointers)
  OBVIOUS
<1>5. ASSUME ToksAll(m, s, f, g, n, pointers) PROVE ToksAll(m2, s, f, g, n, pointers)
  <2>1. PICK z : z = g[Len(y)]
    OBVIOUS
  <2>2. Len(z) = r /\ Holding(m, pointers, z, r, s, s + n + 1)
    BY <1>2, <1>4, <1>5, <2>1 DEF ToksAll
  <2>3. Len(y) \in 0..Len(y)
    OBVIOUS
  <2>4. \A i \in 1..r : Len(z[i]) \in Nat
    BY <1>3, <2>1, <2>2, <2>3
  <2>5. PICK h \in Int : h = s + n + 1
    BY <1>1
  <2>6. \A p \in s .. h - 1 : m2[p] = m[p]
    BY <1>1, <2>5
  <2>7. s \in Int
    BY <1>1
  <2>8. Holding(m2, pointers, z, r, s, h)
    BY <1>4, <2>2, <2>4, <2>5, <2>6, <2>7, HoldingKept
  <2> QED BY <1>2, <1>4, <2>1, <2>2, <2>5, <2>8 DEF ToksAll
<1>6. ASSUME NEW c, ToksAt(m, b, s, f, g, n, pointers, c)
      PROVE  ToksAt(m2, b, s, f, g, n, pointers, c)
  <2>1. PICK k : k = Len(f[c - s]) - 1
    OBVIOUS
  <2>2. PICK z : z = g[k]
    OBVIOUS
  <2>3. /\ c \in s .. s + n /\ \A p \in c .. s + n : m[p] = b[p]
        /\ f[c - s][Len(f[c - s])] = <<>> /\ Len(z) = r
        /\ Holding(m, pointers, z, r, s, c)
    BY <1>4, <1>6, <2>1, <2>2 DEF ToksAt
  <2>4. c \in Int /\ s \in Int /\ s <= c /\ c <= s + n /\ c - s \in 0..n /\ n \in c - s .. n
    BY <1>1, <2>3
  <2>5. k \in 0..Len(y)
    <3>1. x \in Seq(Letter) /\ Len(x) = n /\ f = PiecesUpto(x, D)
      <4>1. f = PiecesUpto(x, D)
        BY DEF InPieces
      <4> QED BY <4>1, InPiecesIs
    <3>2. PiecesAgree(f[n], f[c - s])
      <4>1. c - s \in 0..Len(x) /\ n \in c - s .. Len(x)
        BY <2>4, <3>1
      <4> QED BY <3>1, <4>1, PiecesKept
    <3>3. Len(y) \in Nat /\ Len(f[c - s]) \in Nat \ {0} /\ Len(f[c - s]) <= Len(y)
      BY <1>2, <3>2 DEF PiecesAgree
    <3> QED BY <2>1, <3>3
  <2>6. \A i \in 1..r : Len(z[i]) \in Nat
    BY <1>3, <2>2, <2>3, <2>5
  <2>7. \A p \in s .. c - 1 : m2[p] = m[p]
    BY <1>1, <2>4
  <2>8. Holding(m2, pointers, z, r, s, c)
    BY <1>4, <2>3, <2>4, <2>6, <2>7, HoldingKept
  <2>9. \A p \in c .. s + n : m2[p] = b[p]
    BY <1>1, <2>3, <2>4
  <2> QED BY <1>4, <2>1, <2>2, <2>3, <2>8, <2>9 DEF ToksAt
<1> QED BY <1>5, <1>6
-----------------------------------------------------------------------------
(* Two strings being taken apart: b is the memory as it was, s and t are    *)
(* where they begin, and ct is the string of the delimiters.                *)
Between(b, s, t) == EndIn(b, s) < t \/ EndIn(b, t) < s
Strings3(N, b, s, t, ct) ==
  /\ Memory(b, N) /\ s \in 0 .. N - 1 /\ t \in 0 .. N - 1 /\ ct \in 0 .. N - 1
  /\ Between(b, s, t) /\ Between(b, s, ct) /\ Between(b, t, ct)
OnlyIn(m, b, N, s, t) ==
  \A p \in 0 .. N - 1 : p \notin s .. EndIn(b, s) /\ p \notin t .. EndIn(b, t) => m[p] = b[p]

Delims(b, ct) == Letters(Text(b, ct))
PiecesIn(b, s, ct) == PiecesUpto(Text(b, s), Delims(b, ct))
FilledIn(b, s, ct) == FilledUpto(PiecesIn(b, s, ct)[Len(Text(b, s))])

FieldsInv(m, b, s, ct, fields, rest) ==
  /\ fields \in Seq(Nat)
  /\ rest = Null => FieldsAll(m, s, PiecesIn(b, s, ct), Len(Text(b, s)), fields)
  /\ rest # Null => FieldsAt(m, b, s, PiecesIn(b, s, ct), Len(Text(b, s)), fields, rest)
ToksInv(m, b, s, ct, tokens, last, old) ==
  /\ tokens \in Seq(Nat)
  /\ last # Null /\ tokens = <<>> =>
       ToksAt(m, b, s, PiecesIn(b, s, ct), FilledIn(b, s, ct), Len(Text(b, s)), tokens, s)
  /\ last # Null /\ tokens # <<>> /\ old # Null =>
       ToksAt(m, b, s, PiecesIn(b, s, ct), FilledIn(b, s, ct), Len(Text(b, s)), tokens, old)
  /\ last = Null \/ (tokens # <<>> /\ old = Null) =>
       ToksAll(m, s, PiecesIn(b, s, ct), FilledIn(b, s, ct), Len(Text(b, s)), tokens)

ApartOf(before, first, second, ct, rest, tokens, fields, last) ==
  [before |-> before, first |-> first, second |-> second, ct |-> ct,
   rest |-> rest, tokens |-> tokens, fields |-> fields, last |-> last]
AsApart(a) ==
  a = ApartOf(a.before, a.first, a.second, a.ct, a.rest, a.tokens, a.fields, a.last)
ApartInv(N, m, a, old) ==
  /\ AsApart(a)
  /\ Strings3(N, a.before, a.first, a.second, a.ct)
  /\ OnlyIn(m, a.before, N, a.first, a.second)
  /\ ToksInv(m, a.before, a.first, a.ct, a.tokens, a.last, old)
  /\ FieldsInv(m, a.before, a.second, a.ct, a.fields, a.rest)

(* The inductive invariant: what the two calls have given is what there is  *)
(* up to where each goes on, and behind that the memory is as it was.       *)
TokenInv ==
  /\ done = Tokens => Memory(mem, MemSize)
  /\ apart = Whole => tok = Null
  /\ apart # Whole => done = Tokens /\ ApartInv(MemSize, mem, apart, tok)

LEMMA InPiecesOf ==
  ASSUME NEW N, NEW b, NEW s \in 0 .. N - 1, NEW ct, Memory(b, N)
  PROVE  InPieces(N, b, s, Delims(b, ct), Text(b, s), PiecesIn(b, s, ct), Len(Text(b, s)))
<1> QED BY DEF InPieces, PiecesIn

LEMMA EndInSize ==
  ASSUME NEW N, NEW b, NEW s \in 0 .. N - 1, Memory(b, N)
  PROVE  /\ N \in Nat /\ s \in Nat /\ EndIn(b, s) \in s .. N - 1 /\ Len(Text(b, s)) \in Nat
         /\ EndIn(b, s) = s + Len(Text(b, s)) /\ Ends(b, N, s, EndIn(b, s))
<1>1. Ends(b, N, s, EndIn(b, s))
  BY EndInIs
<1>2. N \in Nat /\ s \in Nat
  BY DEF Memory
<1>3. Len(Text(b, s)) \in Nat
  <2> PICK e : e = EndIn(b, s)
    OBVIOUS
  <2>1. e - s \in Nat /\ Len(Text(b, s)) = e - s
    BY <1>1, TextIs
  <2> QED BY <2>1
<1> QED BY <1>1, <1>2, <1>3 DEF Ends, EndIn

(* Where the delimiters are is as it was.                                   *)
LEMMA DelimsStand ==
  ASSUME NEW N, NEW b, NEW s, NEW t, NEW ct, Strings3(N, b, s, t, ct),
         NEW m, OnlyIn(m, b, N, s, t)
  PROVE  Ends(m, N, ct, EndIn(b, ct)) /\ CharsOf(m, ct, EndIn(b, ct)) = Delims(b, ct)
<1>1. /\ Memory(b, N) /\ s \in 0 .. N - 1 /\ t \in 0 .. N - 1 /\ ct \in 0 .. N - 1
      /\ Between(b, s, ct) /\ Between(b, t, ct)
  BY DEF Strings3
<1>2. PICK es : es = EndIn(b, s)
  OBVIOUS
<1>3. PICK et : et = EndIn(b, t)
  OBVIOUS
<1>4. PICK e : e = EndIn(b, ct)
  OBVIOUS
<1>5. /\ N \in Nat /\ s \in Nat /\ t \in Nat /\ ct \in Nat /\ es \in s .. N - 1
      /\ et \in t .. N - 1 /\ e \in ct .. N - 1 /\ Ends(b, N, ct, e)
  BY <1>1, <1>2, <1>3, <1>4, EndInSize
<1>6. (es < ct \/ e < s) /\ (et < ct \/ e < t)
  BY <1>1, <1>2, <1>3, <1>4 DEF Between
<1>7. \A p \in ct..e : p \in 0 .. N - 1 /\ p \notin s..es /\ p \notin t..et
  BY <1>5, <1>6
<1>8. \A p \in ct..e : m[p] = b[p]
  BY <1>2, <1>3, <1>7 DEF OnlyIn
<1>9. b[e] = End /\ \A p \in ct .. e - 1 : b[p] # End
  BY <1>5 DEF Ends
<1>10. \A p \in ct .. e - 1 : p \in ct..e
  BY <1>5
<1>11. e \in ct..e
  BY <1>5
<1>12. Ends(m, N, ct, e)
  BY <1>1, <1>5, <1>8, <1>9, <1>10, <1>11 DEF Ends
<1>13. CharsOf(m, ct, e) = CharsOf(b, ct, e)
  BY <1>8, <1>10 DEF CharsOf
<1>14. CharsOf(b, ct, e) = Delims(b, ct)
  BY <1>1, <1>5, LettersIs DEF Delims
<1> QED BY <1>4, <1>12, <1>13, <1>14

(* A call writes in its string and nowhere else.                            *)
LEMMA OnlyThere ==
  ASSUME NEW N, NEW b, NEW s, NEW t, NEW ct, Strings3(N, b, s, t, ct),
         NEW m, OnlyIn(m, b, N, s, t), NEW m2,
         \/ Elsewhere(m2, m, N, s, Len(Text(b, s)))
         \/ Elsewhere(m2, m, N, t, Len(Text(b, t)))
  PROVE  OnlyIn(m2, b, N, s, t)
<1>1. Memory(b, N) /\ s \in 0 .. N - 1 /\ t \in 0 .. N - 1
  BY DEF Strings3
<1>2. EndIn(b, s) = s + Len(Text(b, s)) /\ EndIn(b, t) = t + Len(Text(b, t))
  BY DEF EndIn
<1> QED BY <1>2 DEF OnlyIn, Elsewhere

LEMMA OtherStands ==
  ASSUME NEW N, NEW b, NEW s, NEW t, Memory(b, N), s \in 0 .. N - 1, t \in 0 .. N - 1,
         Between(b, s, t), NEW m, NEW m2, Elsewhere(m2, m, N, s, Len(Text(b, s)))
  PROVE  \A p \in t .. t + Len(Text(b, t)) : m2[p] = m[p]
<1>1. PICK es : es = s + Len(Text(b, s))
  OBVIOUS
<1>2. PICK et : et = t + Len(Text(b, t))
  OBVIOUS
<1>3. /\ N \in Nat /\ s \in Nat /\ t \in Nat /\ es \in s .. N - 1 /\ et \in t .. N - 1
      /\ es = EndIn(b, s) /\ et = EndIn(b, t)
  BY <1>1, <1>2, EndInSize
<1>4. es < t \/ et < s
  BY <1>3 DEF Between
<1>5. \A p \in t..et : p \in 0 .. N - 1 /\ p \notin s..es
  BY <1>3, <1>4
<1> QED BY <1>1, <1>2, <1>5 DEF Elsewhere

LEMMA FieldsLeft ==
  ASSUME NEW N, NEW b, NEW s \in 0 .. N - 1, Memory(b, N), NEW ct, NEW m, NEW m2,
         \A p \in s .. s + Len(Text(b, s)) : m2[p] = m[p], NEW fields, NEW rest,
         FieldsInv(m, b, s, ct, fields, rest)
  PROVE  FieldsInv(m2, b, s, ct, fields, rest)
<1>1. PICK f : f = PiecesIn(b, s, ct)
  OBVIOUS
<1>2. PICK n : n = Len(Text(b, s))
  OBVIOUS
<1>3. InPieces(N, b, s, Delims(b, ct), Text(b, s), f, n)
  BY <1>1, <1>2, InPiecesOf
<1>4. /\ fields \in Seq(Nat)
      /\ rest = Null => FieldsAll(m, s, f, n, fields)
      /\ rest # Null => FieldsAt(m, b, s, f, n, fields, rest)
  BY <1>1, <1>2 DEF FieldsInv
<1>5. \A p \in s .. s + n : m2[p] = m[p]
  BY <1>2
<1>6. /\ FieldsAll(m, s, f, n, fields) => FieldsAll(m2, s, f, n, fields)
      /\ \A c : FieldsAt(m, b, s, f, n, fields, c) => FieldsAt(m2, b, s, f, n, fields, c)
  BY <1>3, <1>4, <1>5, FieldsKept
<1> QED BY <1>1, <1>2, <1>4, <1>6 DEF FieldsInv

LEMMA ToksLeft ==
  ASSUME NEW N, NEW b, NEW s \in 0 .. N - 1, Memory(b, N), NEW ct, NEW m, NEW m2,
         \A p \in s .. s + Len(Text(b, s)) : m2[p] = m[p], NEW tokens, NEW last, NEW old,
         ToksInv(m, b, s, ct, tokens, last, old)
  PROVE  ToksInv(m2, b, s, ct, tokens, last, old)
<1>1. PICK f : f = PiecesIn(b, s, ct)
  OBVIOUS
<1>2. PICK n : n = Len(Text(b, s))
  OBVIOUS
<1>3. PICK g : g = FilledIn(b, s, ct)
  OBVIOUS
<1>4. InPieces(N, b, s, Delims(b, ct), Text(b, s), f, n) /\ g = FilledUpto(f[n])
  BY <1>1, <1>2, <1>3, InPiecesOf DEF FilledIn
<1>5. /\ tokens \in Seq(Nat)
      /\ last # Null /\ tokens = <<>> => ToksAt(m, b, s, f, g, n, tokens, s)
      /\ last # Null /\ tokens # <<>> /\ old # Null => ToksAt(m, b, s, f, g, n, tokens, old)
      /\ last = Null \/ (tokens # <<>> /\ old = Null) => ToksAll(m, s, f, g, n, tokens)
  BY <1>1, <1>2, <1>3 DEF ToksInv
<1>6. \A p \in s .. s + n : m2[p] = m[p]
  BY <1>2
<1>7. /\ ToksAll(m, s, f, g, n, tokens) => ToksAll(m2, s, f, g, n, tokens)
      /\ \A c : ToksAt(m, b, s, f, g, n, tokens, c) => ToksAt(m2, b, s, f, g, n, tokens, c)
  BY <1>4, <1>5, <1>6, ToksKept
<1> QED BY <1>1, <1>2, <1>3, <1>5, <1>7 DEF ToksInv

Parts(r, before, first, second, ct, rest, tokens, fields, last) ==
  /\ r.before = before /\ r.first = first /\ r.second = second /\ r.ct = ct
  /\ r.rest = rest /\ r.tokens = tokens /\ r.fields = fields /\ r.last = last

LEMMA PartsOf ==
  ASSUME NEW before, NEW first, NEW second, NEW ct, NEW rest, NEW tokens, NEW fields, NEW last
  PROVE  Parts(ApartOf(before, first, second, ct, rest, tokens, fields, last),
               before, first, second, ct, rest, tokens, fields, last)
<1> PICK r : r = ApartOf(before, first, second, ct, rest, tokens, fields, last)
  OBVIOUS
<1>1. r.before = before /\ r.first = first
  BY DEF ApartOf
<1>2. r.second = second /\ r.ct = ct
  BY DEF ApartOf
<1>3. r.rest = rest /\ r.tokens = tokens
  BY DEF ApartOf
<1>4. r.fields = fields /\ r.last = last
  BY DEF ApartOf
<1> QED BY <1>1, <1>2, <1>3, <1>4 DEF Parts

(* The calls keep the invariant. *)
FieldTaken(a, call) == [a EXCEPT !.fields = Append(@, call.ret), !.rest = call.next]
TokenTaken(a, call) ==
  [a EXCEPT !.tokens = IF call.ret = Null THEN @ ELSE Append(@, call.ret), !.last = call.ret]

LEMMA StrsepKeeps ==
  ASSUME NEW N, NEW m, Memory(m, N), NEW a, NEW old, ApartInv(N, m, a, old), a.rest # Null,
         NEW call, call = Strsep(m, a.rest, a.ct),
         NEW a2, a2 = FieldTaken(a, call)
  PROVE  Memory(call.mem, N) /\ ApartInv(N, call.mem, a2, old) /\ a2.first = a.first
<1>1. /\ AsApart(a)
      /\ Strings3(N, a.before, a.first, a.second, a.ct)
      /\ OnlyIn(m, a.before, N, a.first, a.second)
      /\ ToksInv(m, a.before, a.first, a.ct, a.tokens, a.last, old)
      /\ FieldsInv(m, a.before, a.second, a.ct, a.fields, a.rest)
  BY DEF ApartInv
<1>2. PICK b : b = a.before
  OBVIOUS
<1>3. PICK s : s = a.second
  OBVIOUS
<1>4. PICK f : f = PiecesIn(b, s, a.ct)
  OBVIOUS
<1>5. PICK n : n = Len(Text(b, s))
  OBVIOUS
<1>6. /\ Memory(b, N) /\ s \in 0 .. N - 1 /\ a.first \in 0 .. N - 1 /\ a.ct \in 0 .. N - 1
      /\ Between(b, a.first, s)
  BY <1>1, <1>2, <1>3 DEF Strings3
<1>7. InPieces(N, b, s, Delims(b, a.ct), Text(b, s), f, n)
  BY <1>4, <1>5, <1>6, InPiecesOf
<1>8. Ends(m, N, a.ct, EndIn(b, a.ct)) /\ Delims(b, a.ct) = CharsOf(m, a.ct, EndIn(b, a.ct))
  BY <1>1, <1>2, DelimsStand
<1>9. a.fields \in Seq(Nat) /\ FieldsAt(m, b, s, f, n, a.fields, a.rest)
  BY <1>1, <1>2, <1>3, <1>4, <1>5 DEF FieldsInv
<1>10. PICK fields : fields = Append(a.fields, a.rest)
  OBVIOUS
<1>11. /\ call.ret = a.rest /\ Memory(call.mem, N) /\ Elsewhere(call.mem, m, N, s, n)
       /\ FieldsNext(call.mem, call.next, N, b, s, f, n, fields)
  BY <1>7, <1>8, <1>9, <1>10, FieldsStep
<1>12. a.rest \in Nat
  <2>1. s \in Nat /\ n \in Nat
    BY <1>7, InPiecesIs
  <2>2. a.rest \in s .. s + n
    BY <1>9 DEF FieldsAt
  <2> QED BY <2>1, <2>2
<1>13. fields \in Seq(Nat)
  BY <1>9, <1>10, <1>12
<1>14. /\ a2.before = b /\ a2.first = a.first /\ a2.second = s /\ a2.ct = a.ct
       /\ a2.tokens = a.tokens /\ a2.last = a.last /\ a2.rest = call.next
       /\ a2.fields = fields /\ AsApart(a2)
  <2>1. a2 = ApartOf(a.before, a.first, a.second, a.ct, call.next, a.tokens, fields, a.last)
    BY <1>1, <1>10, <1>11 DEF AsApart, ApartOf, FieldTaken
  <2>2. /\ a2.before = a.before /\ a2.first = a.first /\ a2.second = a.second /\ a2.ct = a.ct
        /\ a2.tokens = a.tokens /\ a2.last = a.last /\ a2.rest = call.next
        /\ a2.fields = fields
    <3>1. Parts(a2, a.before, a.first, a.second, a.ct, call.next, a.tokens, fields, a.last)
      BY <2>1, PartsOf, Zenon
    <3> QED BY <3>1, Zenon DEF Parts
  <2>3. AsApart(a2)
    BY <2>1, <2>2, Zenon DEF AsApart
  <2> QED BY <1>2, <1>3, <2>2, <2>3
<1>15. FieldsInv(call.mem, b, s, a.ct, fields, call.next)
  BY <1>4, <1>5, <1>11, <1>13 DEF FieldsInv, FieldsNext
<1>16. OnlyIn(call.mem, b, N, a.first, s)
  BY <1>1, <1>2, <1>3, <1>5, <1>11, OnlyThere
<1>17. ToksInv(call.mem, b, a.first, a.ct, a.tokens, a.last, old)
  <2>1. Between(b, s, a.first)
    BY <1>6 DEF Between
  <2>2. \A p \in a.first .. a.first + Len(Text(b, a.first)) : call.mem[p] = m[p]
    BY <1>5, <1>6, <1>11, <2>1, OtherStands
  <2> QED BY <1>1, <1>2, <1>6, <2>2, ToksLeft
<1> QED BY <1>1, <1>2, <1>3, <1>11, <1>14, <1>15, <1>16, <1>17 DEF ApartInv

LEMMA StrtokKeeps ==
  ASSUME NEW N, NEW m, Memory(m, N), NEW a, NEW old, ApartInv(N, m, a, old), a.last # Null,
         NEW call, call = Strtok(m, old, IF a.tokens = <<>> THEN a.first ELSE Null, a.ct),
         NEW a2, a2 = TokenTaken(a, call)
  PROVE  Memory(call.mem, N) /\ ApartInv(N, call.mem, a2, call.tok) /\ a2.first = a.first
<1>1. /\ AsApart(a)
      /\ Strings3(N, a.before, a.first, a.second, a.ct)
      /\ OnlyIn(m, a.before, N, a.first, a.second)
      /\ ToksInv(m, a.before, a.first, a.ct, a.tokens, a.last, old)
      /\ FieldsInv(m, a.before, a.second, a.ct, a.fields, a.rest)
  BY DEF ApartInv
<1>2. PICK b : b = a.before
  OBVIOUS
<1>3. PICK s : s = a.first
  OBVIOUS
<1>4. PICK f : f = PiecesIn(b, s, a.ct)
  OBVIOUS
<1>5. PICK n : n = Len(Text(b, s))
  OBVIOUS
<1>6. PICK g : g = FilledIn(b, s, a.ct)
  OBVIOUS
<1>7. /\ Memory(b, N) /\ s \in 0 .. N - 1 /\ a.second \in 0 .. N - 1 /\ a.ct \in 0 .. N - 1
      /\ Between(b, s, a.second)
  BY <1>1, <1>2, <1>3 DEF Strings3
<1>8. InPieces(N, b, s, Delims(b, a.ct), Text(b, s), f, n) /\ g = FilledUpto(f[n])
  BY <1>4, <1>5, <1>6, <1>7, InPiecesOf DEF FilledIn
<1>9. Ends(m, N, a.ct, EndIn(b, a.ct)) /\ Delims(b, a.ct) = CharsOf(m, a.ct, EndIn(b, a.ct))
  BY <1>1, <1>2, DelimsStand
<1>10. /\ a.tokens \in Seq(Nat)
       /\ a.tokens = <<>> => ToksAt(m, b, s, f, g, n, a.tokens, s)
       /\ a.tokens # <<>> /\ old # Null => ToksAt(m, b, s, f, g, n, a.tokens, old)
       /\ a.tokens # <<>> /\ old = Null => ToksAll(m, s, f, g, n, a.tokens)
  BY <1>1, <1>2, <1>3, <1>4, <1>5, <1>6 DEF ToksInv
<1>11. PICK arg : arg = IF a.tokens = <<>> THEN a.first ELSE Null
  OBVIOUS
<1>12. s # Null
  BY <1>7 DEF Null, Memory
<1>13. /\ Memory(call.mem, N) /\ Elsewhere(call.mem, m, N, s, n)
       /\ ToksNext(call.mem, call.ret, call.tok, b, s, f, g, n, a.tokens)
  <2>1. call = Strtok(m, old, arg, a.ct)
    BY <1>11
  <2>2. CASE a.tokens = <<>>
    <3>1. s = IF arg # Null THEN arg ELSE old
      BY <1>3, <1>11, <1>12, <2>2
    <3>2. ToksAt(m, b, s, f, g, n, a.tokens, s)
      BY <1>10, <2>2
    <3> QED BY <1>8, <1>9, <1>10, <2>1, <3>1, <3>2, ToksStep
  <2>3. CASE a.tokens # <<>> /\ old # Null
    <3>1. old = IF arg # Null THEN arg ELSE old
      BY <1>11, <2>3
    <3>2. ToksAt(m, b, s, f, g, n, a.tokens, old)
      BY <1>10, <2>3
    <3> QED BY <1>8, <1>9, <1>10, <2>1, <3>1, <3>2, ToksStep
  <2>4. CASE a.tokens # <<>> /\ old = Null
    <3>1. call = [mem |-> m, tok |-> Null, ret |-> Null]
      BY <1>11, <2>1, <2>4 DEF Strtok
    <3>2. call.mem = m /\ call.tok = Null /\ call.ret = Null
      BY <3>1
    <3>3. ToksAll(m, s, f, g, n, a.tokens)
      BY <1>10, <2>4
    <3> QED BY <3>2, <3>3 DEF Elsewhere, ToksNext
  <2> QED BY <2>2, <2>3, <2>4
<1>14. PICK tokens : tokens = IF call.ret = Null THEN a.tokens ELSE Append(a.tokens, call.ret)
  OBVIOUS
<1>15. tokens \in Seq(Nat) /\ (call.ret # Null => tokens # <<>>)
  <2>1. CASE call.ret = Null
    BY <1>10, <1>14, <2>1
  <2>2. CASE call.ret # Null
    <3>1. call.ret \in Nat
      BY <1>13, <2>2 DEF ToksNext
    <3> QED BY <1>10, <1>14, <2>2, <3>1
  <2> QED BY <2>1, <2>2
<1>16. /\ a2.before = b /\ a2.first = s /\ a2.second = a.second /\ a2.ct = a.ct
       /\ a2.tokens = tokens /\ a2.last = call.ret /\ a2.rest = a.rest
       /\ a2.fields = a.fields /\ AsApart(a2)
  <2>1. a2 = ApartOf(a.before, a.first, a.second, a.ct, a.rest, tokens, a.fields, call.ret)
    BY <1>1, <1>14 DEF AsApart, ApartOf, TokenTaken
  <2>2. /\ a2.before = a.before /\ a2.first = a.first /\ a2.second = a.second /\ a2.ct = a.ct
        /\ a2.tokens = tokens /\ a2.last = call.ret /\ a2.rest = a.rest
        /\ a2.fields = a.fields
    <3>1. Parts(a2, a.before, a.first, a.second, a.ct, a.rest, tokens, a.fields, call.ret)
      BY <2>1, PartsOf, Zenon
    <3> QED BY <3>1, Zenon DEF Parts
  <2>3. AsApart(a2)
    BY <2>1, <2>2, Zenon DEF AsApart
  <2> QED BY <1>2, <1>3, <2>2, <2>3
<1>17. ToksInv(call.mem, b, s, a.ct, tokens, call.ret, call.tok)
  <2>1. CASE call.ret = Null
    <3>1. tokens = a.tokens /\ ToksAll(call.mem, s, f, g, n, tokens)
      BY <1>13, <1>14, <2>1 DEF ToksNext
    <3> QED BY <1>4, <1>5, <1>6, <1>15, <2>1, <3>1 DEF ToksInv
  <2>2. CASE call.ret # Null
    <3>1. /\ call.tok = Null => ToksAll(call.mem, s, f, g, n, tokens)
          /\ call.tok # Null => ToksAt(call.mem, b, s, f, g, n, tokens, call.tok)
      BY <1>13, <1>14, <2>2 DEF ToksNext
    <3> QED BY <1>4, <1>5, <1>6, <1>15, <2>2, <3>1 DEF ToksInv
  <2> QED BY <2>1, <2>2
<1>18. OnlyIn(call.mem, b, N, s, a.second)
  BY <1>1, <1>2, <1>3, <1>5, <1>13, OnlyThere
<1>19. FieldsInv(call.mem, b, a.second, a.ct, a.fields, a.rest)
  <2>1. \A p \in a.second .. a.second + Len(Text(b, a.second)) : call.mem[p] = m[p]
    BY <1>5, <1>7, <1>13, OtherStands
  <2> QED BY <1>1, <1>2, <1>7, <2>1, FieldsLeft
<1> QED BY <1>1, <1>2, <1>3, <1>13, <1>16, <1>17, <1>18, <1>19 DEF ApartInv
-----------------------------------------------------------------------------
(* What the pointers point to is what was to be given, in its order.        *)
Gives(N, m, pointers, texts, r, lo, hi) ==
  /\ Memory(m, N) /\ pointers \in Seq(Nat) /\ texts \in Seq(Seq(Letter))
  /\ r = Len(pointers) /\ r <= Len(texts) /\ lo \in Nat /\ hi \in Int /\ hi <= N
  /\ Holding(m, pointers, texts, r, lo, hi)

LEMMA GivenIs ==
  ASSUME NEW N, NEW m, NEW pointers, NEW texts, NEW r, NEW lo, NEW hi,
         Gives(N, m, pointers, texts, r, lo, hi)
  PROVE  [k \in DOMAIN pointers |-> Text(m, pointers[k])] = Take(texts, r)
<1> USE DEF Gives
<1>1. r \in Nat /\ DOMAIN pointers = 1..r
  OBVIOUS
<1>2. Take(texts, r) = [k \in 1..r |-> texts[k]]
  <2>1. Least(r, Len(texts)) = r
    BY <1>1 DEF Least
  <2>2. Take(texts, r) = SubSeq(texts, 1, r)
    BY <2>1 DEF Take
  <2> QED BY <1>1, <2>2
<1>3. ASSUME NEW k \in 1..r PROVE Text(m, pointers[k]) = texts[k]
  <2>1. PICK p : p = pointers[k]
    OBVIOUS
  <2>2. PICK y : y = texts[k]
    OBVIOUS
  <2>3. p \in lo .. hi - 1 /\ p + Len(y) \in lo .. hi - 1 /\ HoldsText(m, p, y)
    BY <2>1, <2>2 DEF Holding
  <2>4. y \in Seq(Letter)
    BY <1>1, <2>2, ElementOfSeq
  <2>5. N \in Nat
    BY DEF Memory
  <2>6. p \in 0 .. N - 1 /\ p + Len(y) <= N - 1
    <3>1. PICK h : h = p + Len(y)
      OBVIOUS
    <3> QED BY <2>3, <2>5, <3>1
  <2> QED BY <2>1, <2>2, <2>3, <2>4, <2>6, HeldText DEF Letter
<1> QED BY <1>1, <1>2, <1>3

LEMMA FieldsGiven ==
  ASSUME NEW N, NEW m, Memory(m, N), NEW b, NEW s \in 0 .. N - 1, Memory(b, N), NEW ct,
         NEW fields, NEW rest, FieldsInv(m, b, s, ct, fields, rest),
         NEW all, all = PiecesIn(b, s, ct)[Len(Text(b, s))]
  PROVE  /\ [k \in DOMAIN fields |-> Text(m, fields[k])] = Take(all, Len(fields))
         /\ rest = Null => Len(fields) = Len(all)
<1>1. PICK f : f = PiecesIn(b, s, ct)
  OBVIOUS
<1>2. PICK n : n = Len(Text(b, s))
  OBVIOUS
<1>3. InPieces(N, b, s, Delims(b, ct), Text(b, s), f, n)
  BY <1>1, <1>2, InPiecesOf
<1>4. /\ fields \in Seq(Nat)
      /\ rest = Null => FieldsAll(m, s, f, n, fields)
      /\ rest # Null => FieldsAt(m, b, s, f, n, fields, rest)
  BY <1>1, <1>2 DEF FieldsInv
<1>5. PICK r \in Nat : r = Len(fields)
  BY <1>4
<1>6. /\ N \in Nat /\ s \in Nat /\ n \in Nat /\ s + n <= N - 1
  BY <1>3, InPiecesIs
<1>7. all = f[n] /\ all \in Seq(Seq(Letter))
  <2>1. n \in 0..n
    BY <1>6
  <2> QED BY <1>1, <1>2, <1>3, <2>1, PiecesOf
<1>8. CASE rest = Null
  <2>1. r = Len(all) /\ Holding(m, fields, all, r, s, s + n + 1)
    BY <1>4, <1>5, <1>7, <1>8 DEF FieldsAll
  <2>2. PICK h : h = s + n + 1
    OBVIOUS
  <2>3. h \in Int /\ h <= N
    BY <1>6, <2>2
  <2>4. Gives(N, m, fields, all, r, s, h)
    BY <1>4, <1>5, <1>6, <1>7, <2>1, <2>2, <2>3 DEF Gives
  <2>5. [k \in DOMAIN fields |-> Text(m, fields[k])] = Take(all, r)
    BY <2>4, GivenIs
  <2> QED BY <1>5, <2>1, <2>5
<1>9. CASE rest # Null
  <2>1. PICK y : y = f[rest - s]
    OBVIOUS
  <2>2. rest \in s .. s + n /\ Len(y) = r + 1 /\ Holding(m, fields, y, r, s, rest)
    BY <1>4, <1>5, <1>9, <2>1 DEF FieldsAt
  <2>3. rest \in Int /\ rest <= N /\ rest - s \in 0..n /\ n \in rest - s .. n
    BY <1>6, <2>2
  <2>4. PiecesAgree(all, y)
    <3>1. /\ Text(b, s) \in Seq(Letter) /\ Len(Text(b, s)) = n
          /\ f = PiecesUpto(Text(b, s), Delims(b, ct))
      <4>1. f = PiecesUpto(Text(b, s), Delims(b, ct))
        BY <1>1 DEF PiecesIn
      <4> QED BY <1>3, <4>1, InPiecesIs
    <3>2. rest - s \in 0..Len(Text(b, s)) /\ n \in rest - s .. Len(Text(b, s))
      BY <2>3, <3>1
    <3> QED BY <1>7, <2>1, <3>1, <3>2, PiecesKept
  <2>5. r <= Len(all) /\ \A i \in 1..r : all[i] = y[i]
    BY <2>2, <2>4 DEF PiecesAgree
  <2>6. Holding(m, fields, all, r, s, rest)
    BY <2>2, <2>5 DEF Holding
  <2>7. [k \in DOMAIN fields |-> Text(m, fields[k])] = Take(all, r)
    <3>1. Gives(N, m, fields, all, r, s, rest)
      BY <1>4, <1>5, <1>6, <1>7, <2>3, <2>5, <2>6 DEF Gives
    <3> QED BY <3>1, GivenIs
  <2> QED BY <1>5, <1>9, <2>7
<1> QED BY <1>8, <1>9

LEMMA ToksGiven ==
  ASSUME NEW N, NEW m, Memory(m, N), NEW b, NEW s \in 0 .. N - 1, Memory(b, N), NEW ct,
         NEW tokens, NEW last, NEW old, ToksInv(m, b, s, ct, tokens, last, old),
         NEW some, some = PiecesIn(b, s, ct)[Len(Text(b, s))],
         NEW filled, filled = FilledUpto(some)[Len(some)]
  PROVE  /\ [k \in DOMAIN tokens |-> Text(m, tokens[k])] = Take(filled, Len(tokens))
         /\ last = Null => Len(tokens) = Len(filled)
<1>1. PICK f : f = PiecesIn(b, s, ct)
  OBVIOUS
<1>2. PICK n : n = Len(Text(b, s))
  OBVIOUS
<1>3. PICK g : g = FilledIn(b, s, ct)
  OBVIOUS
<1>4. InPieces(N, b, s, Delims(b, ct), Text(b, s), f, n)
  BY <1>1, <1>2, InPiecesOf
<1>5. some = f[n] /\ g = FilledUpto(some) /\ filled = g[Len(some)]
  BY <1>1, <1>2, <1>3 DEF FilledIn
<1>6. /\ tokens \in Seq(Nat)
      /\ last # Null /\ tokens = <<>> => ToksAt(m, b, s, f, g, n, tokens, s)
      /\ last # Null /\ tokens # <<>> /\ old # Null => ToksAt(m, b, s, f, g, n, tokens, old)
      /\ last = Null \/ (tokens # <<>> /\ old = Null) => ToksAll(m, s, f, g, n, tokens)
  BY <1>1, <1>2, <1>3 DEF ToksInv
<1>7. PICK r \in Nat : r = Len(tokens)
  BY <1>6
<1>8. N \in Nat /\ s \in Nat /\ n \in Nat /\ s + n <= N - 1
  BY <1>4, InPiecesIs
<1>9. some \in Seq(Seq(Letter)) /\ Len(some) \in Nat
  <2>1. n \in 0..n
    BY <1>8
  <2> QED BY <1>4, <1>5, <2>1, PiecesOf
<1>10. filled \in Seq(Seq(Letter))
  <2>1. Len(some) \in 0..Len(some)
    BY <1>9
  <2> QED BY <1>5, <1>9, <2>1, FilledType
<1>11. CASE ToksAll(m, s, f, g, n, tokens)
  <2>1. r = Len(filled) /\ Holding(m, tokens, filled, r, s, s + n + 1)
    BY <1>5, <1>7, <1>11 DEF ToksAll
  <2>2. PICK h : h = s + n + 1
    OBVIOUS
  <2>3. h \in Int /\ h <= N
    BY <1>8, <2>2
  <2>4. Gives(N, m, tokens, filled, r, s, h)
    BY <1>6, <1>7, <1>8, <1>10, <2>1, <2>2, <2>3 DEF Gives
  <2>5. [k \in DOMAIN tokens |-> Text(m, tokens[k])] = Take(filled, r)
    BY <2>4, GivenIs
  <2> QED BY <1>7, <2>1, <2>5
<1>12. ASSUME NEW c, ToksAt(m, b, s, f, g, n, tokens, c), last # Null
       PROVE  /\ [k \in DOMAIN tokens |-> Text(m, tokens[k])] = Take(filled, Len(tokens))
              /\ last = Null => Len(tokens) = Len(filled)
  <2>1. PICK l : l = Len(f[c - s]) - 1
    OBVIOUS
  <2>2. PICK y : y = g[l]
    OBVIOUS
  <2>3. c \in s .. s + n /\ Len(y) = r /\ Holding(m, tokens, y, r, s, c)
    BY <1>7, <1>12, <2>1, <2>2 DEF ToksAt
  <2>4. c \in Int /\ c <= N /\ c - s \in 0..n /\ n \in c - s .. n
    BY <1>8, <2>3
  <2>5. PiecesAgree(some, f[c - s])
    <3>1. /\ Text(b, s) \in Seq(Letter) /\ Len(Text(b, s)) = n
          /\ f = PiecesUpto(Text(b, s), Delims(b, ct))
      <4>1. f = PiecesUpto(Text(b, s), Delims(b, ct))
        BY <1>1 DEF PiecesIn
      <4> QED BY <1>4, <4>1, InPiecesIs
    <3>2. c - s \in 0..Len(Text(b, s)) /\ n \in c - s .. Len(Text(b, s))
      BY <2>4, <3>1
    <3> QED BY <1>5, <3>1, <3>2, PiecesKept
  <2>6. l \in 0..Len(some) /\ Len(some) \in l..Len(some)
    BY <2>1, <2>5 DEF PiecesAgree
  <2>7. FilledAgree(filled, y)
    BY <1>5, <1>9, <2>2, <2>6, FilledKept
  <2>8. r <= Len(filled) /\ \A i \in 1..r : filled[i] = y[i]
    BY <2>3, <2>7 DEF FilledAgree
  <2>9. Holding(m, tokens, filled, r, s, c)
    BY <2>3, <2>8 DEF Holding
  <2>10. [k \in DOMAIN tokens |-> Text(m, tokens[k])] = Take(filled, r)
    <3>1. Gives(N, m, tokens, filled, r, s, c)
      BY <1>6, <1>7, <1>8, <1>10, <2>4, <2>8, <2>9 DEF Gives
    <3> QED BY <3>1, GivenIs
  <2> QED BY <1>7, <1>12, <2>10
<1> QED BY <1>6, <1>11, <1>12

LEMMA InvRight == TokenInv => TokensRight
<1> SUFFICES ASSUME TokenInv, apart # Whole
             PROVE  LET delims == Letters(Text(apart.before, apart.ct))
                        all == Pieces(Text(apart.before, apart.second), delims)
                        some == Pieces(Text(apart.before, apart.first), delims)
                        filled == FilledUpto(some)[Len(some)]
                    IN  /\ Given(apart.tokens) = Take(filled, Len(apart.tokens))
                        /\ apart.last = Null => Len(apart.tokens) = Len(filled)
                        /\ Given(apart.fields) = Take(all, Len(apart.fields))
                        /\ apart.rest = Null => Len(apart.fields) = Len(all)
  BY DEF TokensRight
<1>1. PICK N : N = MemSize
  OBVIOUS
<1>2. PICK b : b = apart.before
  OBVIOUS
<1>3. Memory(mem, N) /\ ApartInv(N, mem, apart, tok)
  BY <1>1 DEF TokenInv
<1>4. /\ Strings3(N, b, apart.first, apart.second, apart.ct)
      /\ ToksInv(mem, b, apart.first, apart.ct, apart.tokens, apart.last, tok)
      /\ FieldsInv(mem, b, apart.second, apart.ct, apart.fields, apart.rest)
  BY <1>2, <1>3 DEF ApartInv
<1>5. Memory(b, N) /\ apart.first \in 0 .. N - 1 /\ apart.second \in 0 .. N - 1
  BY <1>4 DEF Strings3
<1> DEFINE delims == Letters(Text(apart.before, apart.ct))
           all == Pieces(Text(apart.before, apart.second), delims)
           some == Pieces(Text(apart.before, apart.first), delims)
           filled == FilledUpto(some)[Len(some)]
<1>6. all = PiecesIn(b, apart.second, apart.ct)[Len(Text(b, apart.second))]
  BY <1>2 DEF Pieces, PiecesIn, Delims
<1>7. some = PiecesIn(b, apart.first, apart.ct)[Len(Text(b, apart.first))]
  BY <1>2 DEF Pieces, PiecesIn, Delims
<1> HIDE DEF all, some
<1>8. filled = FilledUpto(some)[Len(some)]
  OBVIOUS
<1> HIDE DEF filled
<1>9. /\ Given(apart.fields) = Take(all, Len(apart.fields))
      /\ apart.rest = Null => Len(apart.fields) = Len(all)
  BY <1>3, <1>4, <1>5, <1>6, FieldsGiven DEF Given
<1>10. /\ Given(apart.tokens) = Take(filled, Len(apart.tokens))
       /\ apart.last = Null => Len(apart.tokens) = Len(filled)
  BY <1>3, <1>4, <1>5, <1>7, <1>8, ToksGiven DEF Given
<1> QED BY <1>9, <1>10 DEF all, some, filled
-----------------------------------------------------------------------------
(* The steps. *)
LEMMA OneCallKeeps == TokenInv /\ OneCall => TokenInv'
<1> SUFFICES ASSUME TokenInv, OneCall PROVE TokenInv'
  OBVIOUS
<1>1. done = <<>>
  BY DEF OneCall
<1>2. done # Tokens
  BY <1>1 DEF Tokens
<1>3. apart = Whole /\ tok = Null
  BY <1>2 DEF TokenInv
<1>4. PICK s, t \in Addr : \/ CallString(s, t)
                           \/ \E n \in 0..MemSize :
                                CallCount(s, t, n) \/ CallNth(s, n) \/ CallArea(s, t, n)
  BY DEF OneCall
<1>5. UNCHANGED <<tok, apart>> /\ done' # Tokens
  <2>1. CASE CallString(s, t)
    BY <2>1 DEF CallString, Reads, Writes, Tokens
  <2>2. ASSUME NEW n \in 0..MemSize, CallCount(s, t, n)
        PROVE  UNCHANGED <<tok, apart>> /\ done' # Tokens
    BY <2>2 DEF CallCount, Reads, Writes, Tokens
  <2>3. ASSUME NEW n \in 0..MemSize, CallArea(s, t, n)
        PROVE  UNCHANGED <<tok, apart>> /\ done' # Tokens
    BY <2>3 DEF CallArea, Reads, Writes, Tokens
  <2>4. ASSUME NEW n \in 0..MemSize, CallNth(s, n)
        PROVE  UNCHANGED <<tok, apart>> /\ done' # Tokens
    BY <2>4 DEF CallNth, Reads, Tokens
  <2> QED BY <1>4, <2>1, <2>2, <2>3, <2>4
<1> QED BY <1>3, <1>5 DEF TokenInv

LEMMA TakeApartKeeps ==
  ASSUME NEW s \in Starts, NEW t \in Starts, NEW ct \in Starts, TokenInv, TakeApart(s, t, ct)
  PROVE  TokenInv'
<1>1. PICK N : N = MemSize
  OBVIOUS
<1>2. Memory(mem, N) /\ done = Tokens /\ tok = Null
  BY <1>1 DEF TokenInv, TakeApart
<1>3. s \in 0 .. N - 1 /\ t \in 0 .. N - 1 /\ ct \in 0 .. N - 1
  BY <1>2, SizeIs DEF Starts, Addr
<1>4. ASSUME NEW p \in 0 .. N - 1 PROVE Length(p) = EndIn(mem, p) - p
  <2>1. Ends(mem, N, p, EndIn(mem, p))
    BY <1>2, <1>4, EndInIs
  <2> QED BY <1>2, <2>1, StrlenAt DEF Length
<1>5. ASSUME NEW p \in 0 .. N - 1, NEW q \in 0 .. N - 1, Apart(p, Length(p) + 1, q, Length(q) + 1)
      PROVE  Between(mem, p, q)
  <2>1. PICK e : e = EndIn(mem, p)
    OBVIOUS
  <2>2. PICK d : d = EndIn(mem, q)
    OBVIOUS
  <2>3. N \in Nat /\ e \in p .. N - 1 /\ d \in q .. N - 1
    BY <1>2, <2>1, <2>2, EndInSize
  <2>4. p + ((e - p) + 1) <= q \/ q + ((d - q) + 1) <= p
    BY <1>4, <1>5, <2>1, <2>2 DEF Apart
  <2>5. e < q \/ d < p
    BY <2>3, <2>4
  <2> QED BY <2>1, <2>2, <2>5 DEF Between
<1>6. Strings3(N, mem, s, t, ct)
  BY <1>2, <1>3, <1>5 DEF TakeApart, Strings3
<1>7. apart' = ApartOf(mem, s, t, ct, t, <<>>, <<>>, s) /\ UNCHANGED <<mem, done, tok>>
  BY DEF TakeApart, ApartOf
<1>8. Parts(apart', mem, s, t, ct, t, <<>>, <<>>, s)
  BY <1>7, PartsOf
<1>9. /\ apart'.before = mem /\ apart'.first = s /\ apart'.second = t /\ apart'.ct = ct
      /\ apart'.rest = t /\ apart'.tokens = <<>> /\ apart'.fields = <<>> /\ apart'.last = s
  BY <1>8, Zenon DEF Parts
<1>10. AsApart(apart')
  BY <1>7, <1>9 DEF AsApart
<1>11. s # Null /\ t # Null
  BY <1>2, <1>3 DEF Null, Memory
<1>12. OnlyIn(mem, mem, N, s, t)
  BY DEF OnlyIn
<1>13. ToksInv(mem, mem, s, ct, <<>>, s, tok)
  <2>1. ToksAt(mem, mem, s, PiecesIn(mem, s, ct), FilledIn(mem, s, ct), Len(Text(mem, s)), <<>>, s)
    BY <1>2, <1>3, InPiecesOf, ToksStart DEF FilledIn
  <2> QED BY <1>11, <2>1 DEF ToksInv
<1>14. FieldsInv(mem, mem, t, ct, <<>>, t)
  <2>1. FieldsAt(mem, mem, t, PiecesIn(mem, t, ct), Len(Text(mem, t)), <<>>, t)
    BY <1>2, <1>3, InPiecesOf, FieldsStart
  <2> QED BY <1>11, <2>1 DEF FieldsInv
<1>15. ApartInv(N, mem, apart', tok)
  BY <1>6, <1>9, <1>10, <1>12, <1>13, <1>14 DEF ApartInv
<1>16. apart' # Whole
  <2>1. Whole.first = Null
    BY DEF Whole
  <2> QED BY <1>9, <1>11, <2>1
<1>17. MemSize' = N
  BY <1>1, <1>7 DEF MemSize, Addr
<1> QED BY <1>2, <1>7, <1>15, <1>16, <1>17 DEF TokenInv

(* Either call leads from one state of the strings being taken apart to     *)
(* another.                                                                 *)
LEMMA TokenMoves ==
  ASSUME NEW N, N = MemSize, done' = Tokens, Memory(mem', N), ApartInv(N, mem', apart', tok')
  PROVE  TokenInv'
<1>1. MemSize' = N
  <2>1. Cardinality(DOMAIN (mem')) = N
    BY SizeIs
  <2> QED BY <2>1 DEF MemSize, Addr
<1>2. apart' # Whole
  <2>1. Strings3(N, apart'.before, apart'.first, apart'.second, apart'.ct)
    BY DEF ApartInv
  <2>2. apart'.first \in 0 .. N - 1 /\ N \in Nat
    BY <2>1 DEF Strings3, Memory
  <2>3. apart'.first # Null
    BY <2>2 DEF Null
  <2>4. Whole.first = Null
    BY DEF Whole
  <2> QED BY <2>3, <2>4
<1> QED BY <1>1, <1>2 DEF TokenInv

LEMMA StrtokCallKeeps == TokenInv /\ StrtokCall => TokenInv'
<1> SUFFICES ASSUME TokenInv, StrtokCall PROVE TokenInv'
  OBVIOUS
<1>1. PICK N : N = MemSize
  OBVIOUS
<1>2. apart # Whole /\ apart.last # Null /\ done' = done
  BY DEF StrtokCall
<1>3. Memory(mem, N) /\ done = Tokens /\ ApartInv(N, mem, apart, tok)
  BY <1>1, <1>2 DEF TokenInv
<1>4. PICK call : call = Strtok(mem, tok, IF apart.tokens = <<>> THEN apart.first ELSE Null, apart.ct)
  OBVIOUS
<1>5. mem' = call.mem /\ tok' = call.tok /\ apart' = TokenTaken(apart, call)
  BY <1>4 DEF StrtokCall, TokenTaken
<1>6. Memory(call.mem, N) /\ ApartInv(N, call.mem, TokenTaken(apart, call), call.tok)
  BY <1>2, <1>3, <1>4, StrtokKeeps
<1> QED BY <1>1, <1>2, <1>3, <1>5, <1>6, TokenMoves

LEMMA StrsepCallKeeps == TokenInv /\ StrsepCall => TokenInv'
<1> SUFFICES ASSUME TokenInv, StrsepCall PROVE TokenInv'
  OBVIOUS
<1>1. PICK N : N = MemSize
  OBVIOUS
<1>2. apart # Whole /\ apart.rest # Null /\ done' = done /\ tok' = tok
  BY DEF StrsepCall
<1>3. Memory(mem, N) /\ done = Tokens /\ ApartInv(N, mem, apart, tok)
  BY <1>1, <1>2 DEF TokenInv
<1>4. PICK call : call = Strsep(mem, apart.rest, apart.ct)
  OBVIOUS
<1>5. mem' = call.mem /\ apart' = FieldTaken(apart, call)
  BY <1>4 DEF StrsepCall, FieldTaken
<1>6. Memory(call.mem, N) /\ ApartInv(N, call.mem, FieldTaken(apart, call), tok)
  BY <1>2, <1>3, <1>4, StrsepKeeps
<1> QED BY <1>1, <1>2, <1>3, <1>5, <1>6, TokenMoves

(* strtok gives the pieces of its string that are not empty and strsep all  *)
(* of its own, each once and in order, and no later call of either changes  *)
(* one that was given (string.c:329-375): for every memory and any strings  *)
(* and delimiters in it.                                                    *)
THEOREM TokensWhole == StringsSpec => []TokensRight
<1>1. StringsInit => TokenInv
  <2> SUFFICES ASSUME StringsInit PROVE TokenInv
    OBVIOUS
  <2>1. apart = Whole /\ tok = Null
    BY DEF StringsInit
  <2>2. ASSUME done = Tokens PROVE Memory(mem, MemSize)
    <3>1. mem \in TokenMemories
      BY <2>2 DEF StringsInit, Tokens
    <3> QED BY <3>1, StringsAssumption DEF Memory, MemSize, Addr
  <2> QED BY <2>1, <2>2 DEF TokenInv
<1>2. TokenInv /\ [StringsNext]_stringVars => TokenInv'
  <2> SUFFICES ASSUME TokenInv, [StringsNext]_stringVars PROVE TokenInv'
    OBVIOUS
  <2>1. CASE OneCall
    BY <2>1, OneCallKeeps
  <2>2. ASSUME NEW s \in Starts, NEW t \in Starts, NEW ct \in Starts, TakeApart(s, t, ct)
        PROVE  TokenInv'
    BY <2>2, TakeApartKeeps
  <2>3. CASE StrtokCall
    BY <2>3, StrtokCallKeeps
  <2>4. CASE StrsepCall
    BY <2>4, StrsepCallKeeps
  <2>5. CASE UNCHANGED stringVars
    BY <2>5 DEF stringVars, TokenInv, MemSize, Addr
  <2> QED BY <2>1, <2>2, <2>3, <2>4, <2>5 DEF StringsNext
<1> QED BY <1>1, <1>2, InvRight, PTL DEF StringsSpec
-----------------------------------------------------------------------------
(* The first and the last of some places. *)
LEMMA FirstOfIs ==
  ASSUME NEW S, NEW a \in S, \A x \in S : x \in Int /\ a <= x
  PROVE  FirstOf(S) = a
<1>1. \A x \in S : (\A y \in S : x <= y) <=> x = a
  OBVIOUS
<1>2. (CHOOSE x \in S : \A y \in S : x <= y) = a
  BY <1>1
<1> QED BY <1>2 DEF FirstOf

LEMMA LastOfIs ==
  ASSUME NEW S, NEW a \in S, \A x \in S : x \in Int /\ a >= x
  PROVE  LastOf(S) = a
<1>1. \A x \in S : (\A y \in S : x >= y) <=> x = a
  OBVIOUS
<1>2. (CHOOSE x \in S : \A y \in S : x >= y) = a
  BY <1>1
<1> QED BY <1>2 DEF LastOf

LEMMA NoneOf == FirstOf({}) = Null /\ LastOf({}) = Null
<1> QED BY DEF FirstOf, LastOf

(* A string of a memory: it ends at e, and these are its characters.        *)
StringAt(m, N, s, x, e) ==
  /\ Memory(m, N) /\ Ends(m, N, s, e) /\ N \in Nat \ {0} /\ Cardinality(DOMAIN m) = N
  /\ x = Text(m, s) /\ x \in Seq(Letter) /\ Len(x) \in Nat /\ e = s + Len(x)
  /\ s \in Nat /\ e \in Nat /\ s <= e /\ e <= N - 1
  /\ m[e] = End
  /\ \A p \in s .. e - 1 : m[p] # End
  /\ \A i \in 1..Len(x) : x[i] = m[s + i - 1]
  /\ \A p \in 0 .. N - 1 : m[p] \in 0..255

LEMMA StringIs ==
  ASSUME NEW m, NEW N, Memory(m, N), NEW s \in 0 .. N - 1
  PROVE  StringAt(m, N, s, Text(m, s), s + Len(Text(m, s)))
<1>1. PICK e : e = s + Len(Text(m, s))
  OBVIOUS
<1>2. /\ N \in Nat /\ s \in Nat /\ e \in s .. N - 1 /\ Len(Text(m, s)) \in Nat
      /\ Ends(m, N, s, e)
  BY <1>1, EndInSize
<1>3. N \in Nat \ {0} /\ Cardinality(DOMAIN m) = N
  BY SizeIs
<1>4. Text(m, s) = Area(m, s, e - s) /\ Text(m, s) \in Seq(Letter) /\ Len(Text(m, s)) = e - s
  <2>1. Ends(m, N, s, e)
    BY <1>2
  <2>2. Text(m, s) = Area(m, s, e - s)
    BY <2>1, TextIs
  <2>3. Text(m, s) \in Seq(0..255 \ {End})
    BY <2>1, TextIs
  <2>4. Len(Text(m, s)) = e - s
    BY <2>1, TextIs
  <2> QED BY <2>2, <2>3, <2>4 DEF Letter
<1>5. \A i \in 1..Len(Text(m, s)) : Text(m, s)[i] = m[s + i - 1]
  BY <1>4 DEF Area
<1>6. m[e] = End /\ \A p \in s .. e - 1 : m[p] # End
  BY <1>2 DEF Ends
<1>7. \A p \in 0 .. N - 1 : m[p] \in 0..255
  BY DEF Memory
<1>8. e \in Nat /\ s <= e /\ e <= N - 1
  BY <1>2
<1> QED BY <1>1, <1>2, <1>3, <1>4, <1>5, <1>6, <1>7, <1>8 DEF StringAt

-----------------------------------------------------------------------------
(* The functions that search. *)
LEMMA StrnlenIs ==
  ASSUME NEW m, NEW N, NEW s, NEW x, NEW e, StringAt(m, N, s, x, e), NEW n \in Nat
  PROVE  Strnlen(m, s, n) = Least(n, Len(x))
<1> USE DEF StringAt
<1>1. PICK q : q = s + Least(n, Len(x))
  OBVIOUS
<1>2. q \in s..e /\ (q = e \/ q = s + n) /\ q <= s + n /\ q - s = Least(n, Len(x))
  BY <1>1 DEF Least
<1>3. \A p \in s..N : (p - s = n \/ m[p] = End)
                         /\ (\A j \in s .. p - 1 : ~(j - s = n \/ m[j] = End)) <=> p = q
  BY <1>2
<1>4. (CHOOSE p \in s..N : (p - s = n \/ m[p] = End)
                             /\ \A j \in s .. p - 1 : ~(j - s = n \/ m[j] = End)) = q
  BY <1>2, <1>3
<1> QED BY <1>2, <1>4 DEF Strnlen, Upwards

LEMMA StrchrIs ==
  ASSUME NEW m, NEW N, NEW s, NEW x, NEW e, StringAt(m, N, s, x, e), NEW c
  PROVE  Strchr(m, s, c) = FirstOf({p \in s .. s + Len(x) : m[p] = c})
<1> USE DEF StringAt
<1> DEFINE T == {p \in 0..N : m[p] \in {c, End}}
           S == {p \in s .. s + Len(x) : m[p] = c}
<1>1. e \in T /\ s \in Nat /\ e \in Nat /\ s <= e
  OBVIOUS
<1>2. PICK q \in s..e : q \in T /\ \A p \in s .. q - 1 : p \notin T
  <2> HIDE DEF T
  <2> QED BY <1>1, FirstPlace
<1>3. \A p \in s..N : m[p] \in {c, End} /\ (\A j \in s .. p - 1 : ~(m[j] \in {c, End})) <=> p = q
  BY <1>2
<1>4. (CHOOSE p \in s..N : m[p] \in {c, End} /\ \A j \in s .. p - 1 : ~(m[j] \in {c, End})) = q
  BY <1>2, <1>3
<1>5. Strchr(m, s, c) = IF m[q] = c THEN q ELSE Null
  <2> DEFINE y == CHOOSE p \in s .. Cardinality(DOMAIN m) :
                    m[p] \in {c, End} /\ \A j \in s .. p - 1 : ~(m[j] \in {c, End})
  <2>1. Strchr(m, s, c) = IF m[y] = c THEN y ELSE Null
    BY Zenon DEF Strchr, Upwards
  <2>2. y = q
    BY <1>4
  <2> QED BY <2>1, <2>2
<1>6. CASE m[q] = c
  <2>1. q \in S
    BY <1>6
  <2>2. \A p \in S : p \in Int /\ q <= p
    BY <1>2
  <2> HIDE DEF S
  <2>3. FirstOf(S) = q
    BY <2>1, <2>2, FirstOfIs
  <2> QED BY <1>5, <1>6, <2>3 DEF S
<1>7. CASE m[q] # c
  <2>1. m[q] = End
    BY <1>2, <1>7
  <2>2. q = e
    BY <1>2, <2>1
  <2>3. S = {}
    BY <1>2, <1>7, <2>2
  <2> HIDE DEF S
  <2>4. FirstOf(S) = Null
    BY <2>3, NoneOf
  <2> QED BY <1>5, <1>7, <2>4 DEF S
<1> QED BY <1>6, <1>7

(* Of an area of n bytes. *)
AreaAt(m, N, a, n) ==
  /\ Memory(m, N) /\ N \in Nat \ {0} /\ Cardinality(DOMAIN m) = N
  /\ a \in Nat /\ n \in Nat /\ a + n <= N

MemscanRight(m, a, c, n) ==
  Memscan(m, a, c, n) = FirstOf({p \in a .. a + n - 1 : m[p] = c} \cup {a + n})

LEMMA MemscanIs ==
  ASSUME NEW m, NEW N, NEW a, NEW n, AreaAt(m, N, a, n), NEW c
  PROVE  MemscanRight(m, a, c, n)
<1> USE DEF AreaAt
<1>1. PICK e : e = a + n
  OBVIOUS
<1> DEFINE S == {p \in a .. a + n - 1 : m[p] = c} \cup {a + n}
           T == {p \in 0..N : p = e \/ m[p] = c}
<1>2. e \in T /\ a \in Nat /\ e \in Nat /\ a <= e /\ e <= N
  BY <1>1
<1>3. PICK q \in a..e : q \in T /\ \A p \in a .. q - 1 : p \notin T
  <2> HIDE DEF T
  <2> QED BY <1>2, FirstPlace
<1>4. \A p \in a..N : (p = a + n \/ m[p] = c)
                         /\ (\A j \in a .. p - 1 : ~(j = a + n \/ m[j] = c)) <=> p = q
  BY <1>1, <1>2, <1>3
<1>5. (CHOOSE p \in a..N : (p = a + n \/ m[p] = c)
                             /\ \A j \in a .. p - 1 : ~(j = a + n \/ m[j] = c)) = q
  BY <1>2, <1>3, <1>4
<1>6. Memscan(m, a, c, n) = q
  BY <1>5 DEF Memscan, Upwards
<1>7. q \in S
  BY <1>1, <1>3
<1>8. \A p \in S : p \in Int /\ q <= p
  BY <1>1, <1>3
<1> HIDE DEF S
<1>9. FirstOf(S) = q
  BY <1>7, <1>8, FirstOfIs
<1> QED BY <1>6, <1>9 DEF S, MemscanRight

LEMMA MemchrIs ==
  ASSUME NEW m, NEW N, NEW a, NEW n, AreaAt(m, N, a, n), NEW c
  PROVE  Memchr(m, a, c, n) = FirstOf({p \in a .. a + n - 1 : m[p] = c})
<1>0. Memscan(m, a, c, n) = FirstOf({p \in a .. a + n - 1 : m[p] = c} \cup {a + n})
  <2>1. MemscanRight(m, a, c, n)
    BY MemscanIs
  <2> QED BY <2>1 DEF MemscanRight
<1> USE DEF AreaAt
<1> DEFINE S == {p \in a .. a + n - 1 : m[p] = c}
<1>1. PICK q : q = Memscan(m, a, c, n)
  OBVIOUS
<1>2. q = FirstOf(S \cup {a + n})
  BY <1>0, <1>1
<1>3. Memchr(m, a, c, n) = IF q = a + n THEN Null ELSE q
  BY <1>1 DEF Memchr
<1>4. CASE S = {}
  <2>1. S \cup {a + n} = {a + n}
    BY <1>4
  <2>2. FirstOf({a + n}) = a + n
    BY FirstOfIs
  <2> HIDE DEF S
  <2>3. q = a + n /\ FirstOf(S) = Null
    BY <1>2, <1>4, <2>1, <2>2, NoneOf
  <2> QED BY <1>3, <2>3 DEF S
<1>5. CASE S # {}
  <2>1. S \in SUBSET Nat
    OBVIOUS
  <2>2. PICK p \in S : \A y \in S : p <= y
    <3> HIDE DEF S
    <3> QED BY <1>5, <2>1, LeastOf
  <2>3. p \in Nat /\ p < a + n /\ \A y \in S : y \in Int
    OBVIOUS
  <2>4. \A y \in S \cup {a + n} : y \in Int /\ p <= y
    BY <2>2, <2>3
  <2> HIDE DEF S
  <2>5. FirstOf(S) = p /\ FirstOf(S \cup {a + n}) = p
    BY <2>2, <2>3, <2>4, FirstOfIs
  <2>6. q = p /\ q # a + n
    BY <1>2, <2>3, <2>5
  <2> QED BY <1>3, <2>5, <2>6 DEF S
<1> QED BY <1>4, <1>5
-----------------------------------------------------------------------------
(* The first characters of a text. *)
LEMMA TakeIs ==
  ASSUME NEW S, NEW x \in Seq(S), NEW n \in Nat
  PROVE  /\ Take(x, n) \in Seq(S) /\ Len(Take(x, n)) = Least(n, Len(x)) /\ Least(n, Len(x)) \in Nat
         /\ Take(x, n) = [i \in 1 .. Least(n, Len(x)) |-> x[i]]
<1>1. PICK l : l = Least(n, Len(x))
  OBVIOUS
<1>2. l \in Nat /\ l <= Len(x)
  BY <1>1 DEF Least
<1>3. Take(x, n) = SubSeq(x, 1, l)
  BY <1>1 DEF Take
<1>4. \A i \in 1..l : x[i] \in S
  BY <1>2, ElementOfSeq
<1>5. SubSeq(x, 1, l) = [i \in 1..l |-> x[i]]
  BY <1>2
<1>6. [i \in 1..l |-> x[i]] \in Seq(S)
  BY <1>2, <1>4, IsASeq
<1>7. Len([i \in 1..l |-> x[i]]) = l
  BY <1>2
<1> QED BY <1>1, <1>2, <1>3, <1>5, <1>6, <1>7

(* Two strings of a memory. *)
TwoStrings(m, N, s, x, e, t, y, f) == StringAt(m, N, s, x, e) /\ StringAt(m, N, t, y, f)

LEMMA LettersAt ==
  ASSUME NEW m, NEW N, NEW s, NEW x, NEW e, StringAt(m, N, s, x, e)
  PROVE  Letters(x) = CharsOf(m, s, e)
<1>1. Memory(m, N) /\ Ends(m, N, s, e) /\ x = Text(m, s)
  BY DEF StringAt
<1> QED BY <1>1, LettersIs

StrspnRight(x, y, r) ==
  /\ r <= Len(x) /\ Letters(Take(x, r)) \subseteq Letters(y)
  /\ r < Len(x) => x[r + 1] \notin Letters(y)

LEMMA StrspnHolds ==
  ASSUME NEW m, NEW N, NEW s, NEW x, NEW e, NEW t, NEW y, NEW f,
         TwoStrings(m, N, s, x, e, t, y, f)
  PROVE  StrspnRight(x, y, Strspn(m, s, t))
<1>1. StringAt(m, N, s, x, e) /\ StringAt(m, N, t, y, f)
  BY DEF TwoStrings
<1>2. Memory(m, N) /\ Ends(m, N, s, e) /\ Ends(m, N, t, f)
  BY <1>1 DEF StringAt
<1>3. PICK q \in s..e : /\ Strspn(m, s, t) = q - s
                        /\ m[q] \notin CharsOf(m, t, f)
                        /\ \A p \in s .. q - 1 : m[p] \in CharsOf(m, t, f)
  BY <1>2, StrspnIs
<1>4. Letters(y) = CharsOf(m, t, f)
  BY <1>1, LettersAt
<1>5. PICK r : r = q - s
  OBVIOUS
<1>6. /\ s \in Nat /\ e \in Nat /\ e = s + Len(x) /\ Len(x) \in Nat /\ x \in Seq(Letter)
      /\ \A i \in 1..Len(x) : x[i] = m[s + i - 1]
  BY <1>1 DEF StringAt
<1>7. r \in Nat /\ r <= Len(x) /\ q = s + r
  BY <1>5, <1>6
<1>8. Take(x, r) = [i \in 1..r |-> x[i]]
  <2>1. Least(r, Len(x)) = r
    BY <1>6, <1>7 DEF Least
  <2>2. Take(x, r) = [i \in 1 .. Least(r, Len(x)) |-> x[i]]
    <3>1. x \in Seq(Letter) /\ r \in Nat
      BY <1>6, <1>7
    <3> QED BY <3>1, TakeIs, Zenon
  <2> QED BY <2>1, <2>2
<1>9. ASSUME NEW i \in 1..r PROVE x[i] \in Letters(y)
  <2>1. s + i - 1 \in s .. q - 1 /\ i \in 1..Len(x)
    BY <1>6, <1>7
  <2> QED BY <1>3, <1>4, <1>6, <2>1
<1>10. Letters(Take(x, r)) \subseteq Letters(y)
  <2>1. Letters([i \in 1..r |-> x[i]]) = {x[i] : i \in 1..r}
    BY DEF Letters
  <2> QED BY <1>8, <1>9, <2>1
<1>11. ASSUME r < Len(x) PROVE x[r + 1] \notin Letters(y)
  <2>1. r + 1 \in 1..Len(x) /\ s + (r + 1) - 1 = q
    BY <1>6, <1>7, <1>11
  <2> QED BY <1>3, <1>4, <1>6, <2>1
<1> QED BY <1>3, <1>5, <1>7, <1>10, <1>11 DEF StrspnRight

StrpbrkRight(m, s, x, y, r) == r = FirstOf({p \in s .. s + Len(x) - 1 : m[p] \in Letters(y)})

LEMMA StrpbrkHolds ==
  ASSUME NEW m, NEW N, NEW s, NEW x, NEW e, NEW t, NEW y, NEW f,
         TwoStrings(m, N, s, x, e, t, y, f)
  PROVE  StrpbrkRight(m, s, x, y, Strpbrk(m, s, t))
<1>1. StringAt(m, N, s, x, e) /\ StringAt(m, N, t, y, f)
  BY DEF TwoStrings
<1>2. Memory(m, N) /\ Ends(m, N, s, e) /\ Ends(m, N, t, f)
  BY <1>1 DEF StringAt
<1>3. PICK q \in s..e : /\ Strpbrk(m, s, t) = IF q = e THEN Null ELSE q
                        /\ q # e => m[q] \in CharsOf(m, t, f)
                        /\ \A p \in s .. q - 1 : m[p] \notin CharsOf(m, t, f)
  BY <1>2, StrpbrkIs
<1>4. Letters(y) = CharsOf(m, t, f)
  BY <1>1, LettersAt
<1>5. s \in Nat /\ e \in Nat /\ e = s + Len(x) /\ Len(x) \in Nat
  BY <1>1 DEF StringAt
<1> DEFINE S == {p \in s .. s + Len(x) - 1 : m[p] \in Letters(y)}
<1>6. CASE q = e
  <2>1. S = {}
    BY <1>3, <1>4, <1>5, <1>6
  <2> HIDE DEF S
  <2>2. FirstOf(S) = Null
    BY <2>1, NoneOf
  <2> QED BY <1>3, <1>6, <2>2 DEF S, StrpbrkRight
<1>7. CASE q # e
  <2>1. q \in S
    BY <1>3, <1>4, <1>5, <1>7
  <2>2. \A p \in S : p \in Int /\ q <= p
    BY <1>3, <1>4, <1>5
  <2> HIDE DEF S
  <2>3. FirstOf(S) = q
    BY <2>1, <2>2, FirstOfIs
  <2> QED BY <1>3, <1>7, <2>3 DEF S, StrpbrkRight
<1> QED BY <1>6, <1>7

(* Two areas of a memory. *)
TwoAreas(m, N, a, b, n) == AreaAt(m, N, a, n) /\ AreaAt(m, N, b, n)
Differ(m, a, b, n) == {k \in 0 .. n - 1 : m[a + k] # m[b + k]}
MemcmpRight(m, a, b, n, r) ==
  r = IF Differ(m, a, b, n) = {} THEN 0
      ELSE m[a + FirstOf(Differ(m, a, b, n))] - m[b + FirstOf(Differ(m, a, b, n))]

LEMMA MemcmpAt ==
  ASSUME NEW m, NEW N, NEW a, NEW b, NEW n, TwoAreas(m, N, a, b, n)
  PROVE  \E q \in 0..n : /\ q # n => m[a + q] # m[b + q]
                         /\ \A j \in 0 .. q - 1 : m[a + j] = m[b + j]
                         /\ Memcmp(m, a, b, n) = IF q = n THEN 0 ELSE m[a + q] - m[b + q]
<1>1. N \in Nat /\ Cardinality(DOMAIN m) = N /\ a \in Nat /\ b \in Nat /\ n \in Nat /\ n <= N
  BY DEF TwoAreas, AreaAt
<1> DEFINE T == {j \in 0..N : j = n \/ m[a + j] # m[b + j]}
<1>2. n \in T /\ 0 <= n /\ 0 \in Nat
  BY <1>1
<1>3. PICK q \in 0..n : q \in T /\ \A j \in 0 .. q - 1 : j \notin T
  <2> HIDE DEF T
  <2> QED BY <1>1, <1>2, FirstPlace
<1>4. \A p \in 0..N : (p = n \/ m[a + p] # m[b + p])
                         /\ (\A j \in 0 .. p - 1 : ~(j = n \/ m[a + j] # m[b + j])) <=> p = q
  BY <1>1, <1>3
<1> DEFINE y == CHOOSE p \in 0 .. Cardinality(DOMAIN m) :
                  (p = n \/ m[a + p] # m[b + p])
                    /\ \A j \in 0 .. p - 1 : ~(j = n \/ m[a + j] # m[b + j])
<1>5. y = q
  BY <1>1, <1>3, <1>4
<1>6. Memcmp(m, a, b, n) = IF y = n THEN 0 ELSE m[a + y] - m[b + y]
  BY Zenon DEF Memcmp, Upwards
<1> HIDE DEF y
<1>7. (q # n => m[a + q] # m[b + q]) /\ \A j \in 0 .. q - 1 : m[a + j] = m[b + j]
  BY <1>1, <1>3
<1> QED BY <1>5, <1>6, <1>7

LEMMA MemcmpIs ==
  ASSUME NEW m, NEW N, NEW a, NEW b, NEW n, TwoAreas(m, N, a, b, n)
  PROVE  MemcmpRight(m, a, b, n, Memcmp(m, a, b, n))
<1>1. n \in Nat
  BY DEF TwoAreas, AreaAt
<1>2. PICK q \in 0..n : /\ q # n => m[a + q] # m[b + q]
                        /\ \A j \in 0 .. q - 1 : m[a + j] = m[b + j]
                        /\ Memcmp(m, a, b, n) = IF q = n THEN 0 ELSE m[a + q] - m[b + q]
  BY MemcmpAt
<1> DEFINE S == Differ(m, a, b, n)
<1>3. CASE q = n
  <2>1. S = {}
    BY <1>1, <1>2, <1>3 DEF Differ
  <2> QED BY <1>2, <1>3, <2>1 DEF MemcmpRight
<1>4. CASE q # n
  <2>1. q \in S
    BY <1>1, <1>2, <1>4 DEF Differ
  <2>2. \A p \in S : p \in Int /\ q <= p
    BY <1>1, <1>2 DEF Differ
  <2> HIDE DEF S
  <2>3. FirstOf(S) = q /\ S # {}
    BY <2>1, <2>2, FirstOfIs
  <2> QED BY <1>2, <1>4, <2>3 DEF MemcmpRight, S
<1> QED BY <1>3, <1>4

LEMMA MemcmpZero ==
  ASSUME NEW m, NEW N, NEW a, NEW b, NEW n, TwoAreas(m, N, a, b, n)
  PROVE  Memcmp(m, a, b, n) = 0 <=> \A j \in 0 .. n - 1 : m[a + j] = m[b + j]
<1>1. /\ n \in Nat /\ a \in Nat /\ b \in Nat /\ N \in Nat /\ a + n <= N /\ b + n <= N
      /\ \A p \in 0 .. N - 1 : m[p] \in Int
  <2>1. Memory(m, N) /\ n \in Nat /\ a \in Nat /\ b \in Nat /\ N \in Nat /\ a + n <= N /\ b + n <= N
    BY DEF TwoAreas, AreaAt
  <2>2. \A p \in 0 .. N - 1 : m[p] \in 0..255
    BY <2>1 DEF Memory
  <2> QED BY <2>1, <2>2, SMTT(30)
<1>2. PICK q \in 0..n : /\ q # n => m[a + q] # m[b + q]
                        /\ \A j \in 0 .. q - 1 : m[a + j] = m[b + j]
                        /\ Memcmp(m, a, b, n) = IF q = n THEN 0 ELSE m[a + q] - m[b + q]
  BY MemcmpAt
<1>3. CASE q = n
  BY <1>1, <1>2, <1>3
<1>4. CASE q # n
  <2>1. q \in 0 .. n - 1 /\ a + q \in 0 .. N - 1 /\ b + q \in 0 .. N - 1
    BY <1>1, <1>4
  <2>2. m[a + q] \in Int /\ m[b + q] \in Int
    BY <1>1, <2>1
  <2> QED BY <1>1, <1>2, <1>4, <2>1, <2>2
<1> QED BY <1>3, <1>4
-----------------------------------------------------------------------------
(* Where one text begins another. *)
LEMMA BeginsAt ==
  ASSUME NEW m, NEW N, NEW s, NEW x, NEW e, NEW t, NEW y, NEW f,
         TwoStrings(m, N, s, x, e, t, y, f), NEW p \in s .. s + Len(x) - Len(y)
  PROVE  /\ Memcmp(m, p, t, Len(y)) = 0 <=> Take(Text(m, p), Len(y)) = y
         /\ p \in Nat /\ p <= e - Len(y)
<1>1. /\ StringAt(m, N, s, x, e) /\ StringAt(m, N, t, y, f)
  BY DEF TwoStrings
<1>2. /\ Memory(m, N) /\ N \in Nat \ {0} /\ Cardinality(DOMAIN m) = N
      /\ s \in Nat /\ e \in Nat /\ e = s + Len(x) /\ Len(x) \in Nat /\ e <= N - 1 /\ m[e] = End
      /\ \A j \in s .. e - 1 : m[j] # End
  BY <1>1 DEF StringAt
<1>3. /\ t \in Nat /\ f \in Nat /\ f = t + Len(y) /\ Len(y) \in Nat /\ f <= N - 1 /\ y \in Seq(Letter)
      /\ \A i \in 1..Len(y) : y[i] = m[t + i - 1]
  BY <1>1 DEF StringAt
<1>4. PICK l \in Nat : l = Len(y)
  BY <1>3
<1>5. p \in Nat /\ p <= e - l /\ s <= p /\ p + l <= N /\ t + l <= N
  BY <1>2, <1>3, <1>4
<1>6. Ends(m, N, p, e)
  BY <1>2, <1>5 DEF Ends
<1>7. PICK z : z = Text(m, p)
  OBVIOUS
<1>8. z = Area(m, p, e - p) /\ Len(z) = e - p /\ z \in Seq(0..255 \ {End})
  BY <1>2, <1>6, <1>7, TextIs
<1>9. Take(z, l) = [i \in 1..l |-> z[i]]
  <2>1. Least(l, Len(z)) = l
    BY <1>2, <1>5, <1>8 DEF Least
  <2>2. Take(z, l) = [i \in 1 .. Least(l, Len(z)) |-> z[i]]
    <3>1. z \in Seq(0..255 \ {End})
      BY <1>8
    <3> QED BY <3>1, TakeIs, ZenonT(30)
  <2> QED BY <2>1, <2>2
<1>10. \A i \in 1..l : z[i] = m[p + i - 1]
  <2>1. \A i \in 1..l : i \in 1 .. e - p
    BY <1>2, <1>5
  <2> QED BY <1>8, <2>1 DEF Area
<1>11. y = [i \in 1..l |-> y[i]]
  BY <1>3, <1>4
<1>12. Take(z, l) = y <=> \A i \in 1..l : m[p + i - 1] = m[t + i - 1]
  <2>1. ASSUME Take(z, l) = y, NEW i \in 1..l PROVE m[p + i - 1] = m[t + i - 1]
    BY <1>3, <1>4, <1>9, <1>10, <2>1
  <2>2. ASSUME \A i \in 1..l : m[p + i - 1] = m[t + i - 1] PROVE Take(z, l) = y
    <3>1. \A i \in 1..l : z[i] = y[i]
      BY <1>3, <1>4, <1>10, <2>2
    <3> QED BY <1>9, <1>11, <3>1
  <2> QED BY <2>1, <2>2
<1>13. TwoAreas(m, N, p, t, l)
  BY <1>2, <1>3, <1>5 DEF TwoAreas, AreaAt
<1>14. Memcmp(m, p, t, l) = 0 <=> \A j \in 0 .. l - 1 : m[p + j] = m[t + j]
  BY <1>13, MemcmpZero
<1>15. (\A j \in 0 .. l - 1 : m[p + j] = m[t + j]) <=> \A i \in 1..l : m[p + i - 1] = m[t + i - 1]
  <2>1. ASSUME \A j \in 0 .. l - 1 : m[p + j] = m[t + j], NEW i \in 1..l
        PROVE  m[p + i - 1] = m[t + i - 1]
    <3>1. PICK j \in 0 .. l - 1 : j = i - 1
      OBVIOUS
    <3>2. p + i - 1 = p + j /\ t + i - 1 = t + j
      BY <1>3, <1>5, <3>1
    <3> QED BY <2>1, <3>2
  <2>2. ASSUME \A i \in 1..l : m[p + i - 1] = m[t + i - 1], NEW j \in 0 .. l - 1
        PROVE  m[p + j] = m[t + j]
    <3>1. PICK i \in 1..l : i = j + 1
      OBVIOUS
    <3>2. p + i - 1 = p + j /\ t + i - 1 = t + j
      BY <1>3, <1>5, <3>1
    <3> QED BY <2>2, <3>2
  <2> QED BY <2>1, <2>2
<1>16. Memcmp(m, p, t, l) = 0 <=> Take(z, l) = y
  BY <1>12, <1>14, <1>15
<1> QED BY <1>4, <1>5, <1>7, <1>16

StrstrRight(m, s, x, y, r) ==
  r = FirstOf({p \in s .. s + Len(x) - Len(y) : Take(Text(m, p), Len(y)) = y})

LEMMA StrstrHolds ==
  ASSUME NEW m, NEW N, NEW s, NEW x, NEW e, NEW t, NEW y, NEW f,
         TwoStrings(m, N, s, x, e, t, y, f)
  PROVE  StrstrRight(m, s, x, y, Strstr(m, s, t))
<1>1. /\ StringAt(m, N, s, x, e) /\ StringAt(m, N, t, y, f)
  BY DEF TwoStrings
<1>2. /\ Memory(m, N) /\ N \in Nat \ {0} /\ Cardinality(DOMAIN m) = N /\ Ends(m, N, s, e)
      /\ s \in Nat /\ e \in Nat /\ e = s + Len(x) /\ Len(x) \in Nat /\ e <= N - 1 /\ s <= e
  BY <1>1 DEF StringAt
<1>3. /\ t \in Nat /\ f \in Nat /\ f = t + Len(y) /\ Len(y) \in Nat /\ f <= N - 1 /\ Ends(m, N, t, f)
  BY <1>1 DEF StringAt
<1>4. PICK l \in Nat : l = Len(y)
  BY <1>3
<1>5. Strlen(m, t) = l /\ s + Strlen(m, s) = e
  <2>1. Strlen(m, t) = f - t
    BY <1>2, <1>3, StrlenAt
  <2>2. Strlen(m, s) = e - s
    BY <1>2, StrlenAt
  <2> QED BY <1>2, <1>3, <1>4, <2>1, <2>2
<1> DEFINE S == {p \in s .. s + Len(x) - Len(y) : Take(Text(m, p), Len(y)) = y}
           Equal(q) == Memcmp(m, q, t, l) = 0
           T == {q \in 0..N : e - q < l \/ Equal(q)}
           l0 == Strlen(m, t)
           e0 == s + Strlen(m, s)
           z == CHOOSE p \in s .. Cardinality(DOMAIN m) :
                  (e0 - p < l0 \/ Memcmp(m, p, t, l0) = 0)
                    /\ \A j \in s .. p - 1 : ~(e0 - j < l0 \/ Memcmp(m, j, t, l0) = 0)
<1>6. Strstr(m, s, t) = IF l = 0 THEN s ELSE IF e - z < l THEN Null ELSE z
  <2>1. Strstr(m, s, t) = IF l0 = 0 THEN s ELSE IF e0 - z < l0 THEN Null ELSE z
    BY Zenon DEF Strstr, Upwards
  <2> HIDE DEF z
  <2> QED BY <1>5, <2>1
<1>7. \A p \in s .. e - l : Equal(p) <=> p \in S
  <2>1. ASSUME NEW p \in s .. e - l PROVE Equal(p) <=> p \in S
    <3>1. p \in s .. s + Len(x) - Len(y)
      BY <1>2, <1>4
    <3>2. Memcmp(m, p, t, Len(y)) = 0 <=> Take(Text(m, p), Len(y)) = y
      BY <3>1, BeginsAt
    <3> QED BY <1>4, <3>1, <3>2
  <2> QED BY <2>1
<1>8. \A p \in S : p \in s .. e - l
  BY <1>2, <1>4
<1> HIDE DEF S, Equal
<1>9. CASE l = 0
  <2>1. Equal(s)
    <3>1. TwoAreas(m, N, s, t, l)
      BY <1>2, <1>3, <1>9 DEF TwoAreas, AreaAt
    <3>2. Memcmp(m, s, t, l) = 0 <=> \A j \in 0 .. l - 1 : m[s + j] = m[t + j]
      BY <3>1, MemcmpZero
    <3>3. 0 .. l - 1 = {}
      BY <1>9
    <3> QED BY <3>2, <3>3 DEF Equal
  <2>2. s \in S /\ \A p \in S : p \in Int /\ s <= p
    BY <1>2, <1>7, <1>8, <1>9, <2>1
  <2>3. FirstOf(S) = s
    BY <2>2, FirstOfIs
  <2> QED BY <1>6, <1>9, <2>3 DEF S, StrstrRight
<1>10. CASE l # 0
  <2>1. e \in T
    BY <1>2, <1>10
  <2>2. PICK q \in s..e : q \in T /\ \A p \in s .. q - 1 : p \notin T
    <3> HIDE DEF T
    <3> QED BY <1>2, <2>1, FirstPlace
  <2>3. \A p \in s..N : (e - p < l \/ Equal(p))
                           /\ (\A j \in s .. p - 1 : ~(e - j < l \/ Equal(j))) <=> p = q
    BY <1>2, <2>2, SMTT(30)
  <2>5. z = q
    <3> DEFINE stops(p) == e0 - p < l0 \/ Memcmp(m, p, t, l0) = 0
    <3>1. \A p : stops(p) <=> (e - p < l \/ Equal(p))
      BY <1>5 DEF Equal
    <3>2. z = CHOOSE p \in s..N : stops(p) /\ \A j \in s .. p - 1 : ~stops(j)
      BY <1>2
    <3> HIDE DEF stops
    <3>3. \A p \in s..N : stops(p) /\ (\A j \in s .. p - 1 : ~stops(j)) <=> p = q
      BY <1>2, <2>3, <3>1
    <3>4. (CHOOSE p \in s..N : stops(p) /\ \A j \in s .. p - 1 : ~stops(j)) = q
      BY <1>2, <2>2, <3>3
    <3> QED BY <3>2, <3>4
  <2> HIDE DEF z
  <2>6. CASE e - q < l
    <3>1. \A p \in s .. e - l : ~Equal(p)
      BY <1>2, <2>2, <2>6
    <3>2. S = {}
      BY <1>7, <1>8, <3>1
    <3>3. FirstOf(S) = Null
      BY <3>2, NoneOf
    <3> QED BY <1>6, <1>10, <2>5, <2>6, <3>3 DEF S, StrstrRight
  <2>7. CASE ~(e - q < l)
    <3>1. q \in s .. e - l /\ Equal(q)
      BY <1>2, <2>2, <2>7
    <3>2. q \in S
      BY <1>7, <3>1
    <3>3. \A p \in S : p \in Int /\ q <= p
      BY <1>2, <1>7, <1>8, <2>2, <3>1
    <3>4. FirstOf(S) = q
      BY <3>2, <3>3, FirstOfIs
    <3> QED BY <1>6, <1>10, <2>5, <2>7, <3>4 DEF S, StrstrRight
  <2> QED BY <2>6, <2>7
<1> QED BY <1>9, <1>10
-----------------------------------------------------------------------------
(* The comparisons: the texts a and b agree on k characters, and there they *)
(* end, or ca and cb make the difference of which r is the sign.            *)
ComparesAs(r, a, b, limit) ==
  LET differ == {k \in 1 .. Least(Len(a), Len(b)) + 1 : Append(a, End)[k] # Append(b, End)[k]}
      d == LET k == FirstOf(differ) IN Append(a, End)[k] - Append(b, End)[k]
  IN  /\ r = 0 <=> a = b
      /\ a # b /\ d \in -limit .. limit => (r < 0 <=> d < 0)

Agree(a, b, k) ==
  /\ a \in Seq(Int) /\ b \in Seq(Int) /\ Len(a) \in Nat /\ Len(b) \in Nat
  /\ k \in Nat /\ k <= Len(a) /\ k <= Len(b)
  /\ \A i \in 1..k : a[i] = b[i]

LEMMA ComparesEqual ==
  ASSUME NEW a, NEW b, NEW k, Agree(a, b, k), Len(a) = k, Len(b) = k, NEW limit
  PROVE  ComparesAs(0, a, b, limit)
<1>1. a = b
  BY DEF Agree
<1> QED BY <1>1 DEF ComparesAs

SignOf(r, ca, cb, limit) == r # 0 /\ (ca - cb \in -limit .. limit => (r < 0 <=> ca - cb < 0))
Ahead(a, k, c) == Append(a, End)[k + 1] = c

LEMMA ComparesDiffer ==
  ASSUME NEW a, NEW b, NEW k, Agree(a, b, k), NEW ca, NEW cb, ca # cb,
         Ahead(a, k, ca), Ahead(b, k, cb), NEW r, NEW limit, SignOf(r, ca, cb, limit)
  PROVE  ComparesAs(r, a, b, limit)
<1> USE DEF SignOf, Ahead
<1> DEFINE S == {j \in 1 .. Least(Len(a), Len(b)) + 1 : Append(a, End)[j] # Append(b, End)[j]}
<1>1. /\ a \in Seq(Int) /\ b \in Seq(Int) /\ Len(a) \in Nat /\ Len(b) \in Nat
      /\ k \in Nat /\ k <= Len(a) /\ k <= Len(b) /\ \A i \in 1..k : a[i] = b[i]
  BY DEF Agree
<1>2. PICK l \in Nat : l = Least(Len(a), Len(b))
  BY <1>1 DEF Least
<1>3. k <= l /\ l <= Len(a) /\ l <= Len(b)
  BY <1>1, <1>2 DEF Least
<1>4. k + 1 \in S
  BY <1>1, <1>2, <1>3, SMTT(30)
<1>5. \A i \in 1..k : Append(a, End)[i] = a[i] /\ Append(b, End)[i] = b[i]
  BY <1>1, SMTT(30)
<1>6. \A p \in S : p \in Int /\ k + 1 <= p
  BY <1>1, <1>2, <1>5
<1> HIDE DEF S
<1>7. FirstOf(S) = k + 1
  BY <1>4, <1>6, FirstOfIs
<1>8. a # b
  <2>1. Append(a, End) # Append(b, End)
    OBVIOUS
  <2> QED BY <2>1
<1>9. LET d == LET j == FirstOf(S) IN Append(a, End)[j] - Append(b, End)[j]
      IN  d = ca - cb
  BY <1>7
<1> QED BY <1>8, <1>9 DEF ComparesAs, S

(* A character of a text, or its end. *)
LEMMA CharAt ==
  ASSUME NEW m, NEW N, NEW s, NEW x, NEW e, StringAt(m, N, s, x, e), NEW k \in 0..Len(x)
  PROVE  /\ m[s + k] \in 0..255 /\ Append(x, End)[k + 1] = m[s + k]
         /\ m[s + k] = End <=> k = Len(x)
         /\ k < Len(x) => x[k + 1] = m[s + k]
<1>1. /\ x \in Seq(Letter) /\ Len(x) \in Nat /\ e = s + Len(x) /\ s \in Nat /\ e \in Nat /\ m[e] = End
      /\ \A p \in s .. e - 1 : m[p] # End
      /\ \A i \in 1..Len(x) : x[i] = m[s + i - 1]
      /\ e <= N - 1 /\ N \in Nat /\ \A p \in 0 .. N - 1 : m[p] \in 0..255
  BY DEF StringAt
<1>2. PICK p : p = s + k
  OBVIOUS
<1>3. p \in s..e /\ p \in 0 .. N - 1
  BY <1>1, <1>2
<1>4. m[p] \in 0..255
  BY <1>1, <1>3
<1>5. CASE k = Len(x)
  <2>1. m[p] = End
    BY <1>1, <1>2, <1>5
  <2>2. Append(x, End)[k + 1] = End
    BY <1>1, <1>5
  <2> QED BY <1>2, <1>4, <1>5, <2>1, <2>2
<1>6. CASE k < Len(x)
  <2>1. PICK i \in 1..Len(x) : i = k + 1
    BY <1>1, <1>6
  <2>2. s + i - 1 = p /\ p \in s .. e - 1
    BY <1>1, <1>2, <1>6, <2>1
  <2>3. x[i] = m[p] /\ m[p] # End
    BY <1>1, <2>1, <2>2
  <2>4. Append(x, End)[i] = x[i]
    BY <1>1, <2>1
  <2> QED BY <1>2, <1>4, <1>6, <2>1, <2>3, <2>4
<1> QED BY <1>1, <1>5, <1>6

(* A part of a text up to some limit: the character behind k of it.         *)
LEMMA TakeAppend ==
  ASSUME NEW S, NEW x \in Seq(S), NEW n \in Nat, NEW k \in Nat, k <= Len(x), k < n
  PROVE  /\ k <= Len(Take(x, n)) /\ Append(Take(x, n), End)[k + 1] = Append(x, End)[k + 1]
         /\ \A i \in 1..k : Take(x, n)[i] = x[i]
<1>1. PICK l : l = Least(n, Len(x))
  OBVIOUS
<1>2. /\ Take(x, n) \in Seq(S) /\ Len(Take(x, n)) = l /\ l \in Nat
      /\ Take(x, n) = [i \in 1..l |-> x[i]]
  BY <1>1, TakeIs
<1>3. k <= l /\ l <= Len(x) /\ (l = k => l = Len(x))
  BY <1>1 DEF Least
<1>4. \A i \in 1..k : Take(x, n)[i] = x[i]
  BY <1>2, <1>3
<1>5. CASE k = l
  <2>1. Append(Take(x, n), End)[k + 1] = End /\ Append(x, End)[k + 1] = End
    BY <1>2, <1>3, <1>5
  <2> QED BY <1>2, <1>3, <1>4, <2>1
<1>6. CASE k # l
  <2>1. k + 1 \in 1..l /\ k + 1 \in 1..Len(x)
    BY <1>2, <1>3, <1>6
  <2>2. Append(Take(x, n), End)[k + 1] = Take(x, n)[k + 1] /\ Append(x, End)[k + 1] = x[k + 1]
    BY <1>2, <2>1
  <2>3. Take(x, n)[k + 1] = x[k + 1]
    BY <1>2, <2>1
  <2> QED BY <1>2, <1>3, <1>4, <2>2, <2>3
<1> QED BY <1>5, <1>6

LEMMA TakeWhole ==
  ASSUME NEW S, NEW x \in Seq(S), NEW n \in Nat, Len(x) <= n
  PROVE  Take(x, n) = x
<1>1. Least(n, Len(x)) = Len(x)
  BY DEF Least
<1>2. Take(x, n) = [i \in 1 .. Least(n, Len(x)) |-> x[i]]
  BY TakeIs
<1> QED BY <1>1, <1>2
-----------------------------------------------------------------------------
SignedFits(d) ==
  /\ SignedChar(d) = 0 <=> d = 0
  /\ d \in -127..127 => SignedChar(d) = d
LEMMA SignedIs ==
  ASSUME NEW d \in -255..255
  PROVE  SignedFits(d)
<1>1. CASE d + 128 < 0
  <2>1. (d + 128) % 256 = d + 128 + 256
    BY <1>1
  <2> QED BY <1>1, <2>1 DEF SignedChar, SignedFits
<1>2. CASE d + 128 \in 0..255
  <2>1. (d + 128) % 256 = d + 128
    BY <1>2
  <2> QED BY <1>2, <2>1 DEF SignedChar, SignedFits
<1>3. CASE d + 128 > 255
  <2>1. (d + 128) % 256 = d + 128 - 256
    BY <1>3
  <2> QED BY <1>3, <2>1 DEF SignedChar, SignedFits
<1> QED BY <1>1, <1>2, <1>3

LEMMA LargerSeq ==
  ASSUME NEW S, NEW T, S \subseteq T, NEW x \in Seq(S)
  PROVE  x \in Seq(T)
<1>1. Len(x) \in Nat /\ x = [i \in 1..Len(x) |-> x[i]]
  OBVIOUS
<1>2. \A i \in 1..Len(x) : x[i] \in T
  BY ElementOfSeq
<1>3. [i \in 1..Len(x) |-> x[i]] \in Seq(T)
  BY <1>1, <1>2, IsASeq
<1> QED BY <1>1, <1>3

(* The two strings agree on k characters. *)
SameUpto(m, s, x, t, y, k) ==
  /\ k \in Nat /\ k <= Len(x) /\ k <= Len(y)
  /\ \A j \in 0 .. k - 1 : m[s + j] = m[t + j]

LEMMA StrncmpAt ==
  ASSUME NEW m, NEW N, NEW s, NEW x, NEW e, NEW t, NEW y, NEW f,
         TwoStrings(m, N, s, x, e, t, y, f), NEW n \in Nat
  PROVE  \E k \in 0..n :
           /\ SameUpto(m, s, x, t, y, k)
           /\ k # n => m[s + k] # m[t + k] \/ m[s + k] = End
           /\ Strncmp(m, s, t, n) = IF k = n THEN 0 ELSE SignedChar(m[s + k] - m[t + k])
<1>1. /\ StringAt(m, N, s, x, e) /\ StringAt(m, N, t, y, f)
  BY DEF TwoStrings
<1>2. /\ N \in Nat \ {0} /\ Cardinality(DOMAIN m) = N /\ Len(x) \in Nat /\ Len(x) <= N
      /\ Len(y) \in Nat
  BY <1>1 DEF StringAt
<1>3. /\ \A k \in 0..Len(x) : m[s + k] \in 0..255 /\ (m[s + k] = End <=> k = Len(x))
      /\ \A k \in 0..Len(y) : m[t + k] \in 0..255 /\ (m[t + k] = End <=> k = Len(y))
  BY <1>1, CharAt
<1> DEFINE stops(j) == j = n \/ SignedChar(m[s + j] - m[t + j]) # 0 \/ m[s + j] = End
           T == {j \in 0..N : j = n \/ m[s + j] # m[t + j] \/ m[s + j] = End}
           z == CHOOSE p \in 0 .. Cardinality(DOMAIN m) : stops(p) /\ \A j \in 0 .. p - 1 : ~stops(j)
<1>4. Strncmp(m, s, t, n) = IF z = n THEN 0 ELSE SignedChar(m[s + z] - m[t + z])
  BY Zenon DEF Strncmp, Upwards
<1>5. Len(x) \in T /\ 0 <= Len(x) /\ 0 \in Nat
  BY <1>2, <1>3
<1>6. PICK q \in 0..Len(x) : q \in T /\ \A p \in 0 .. q - 1 : p \notin T
  <2> HIDE DEF T
  <2> QED BY <1>2, <1>5, FirstPlace, ZenonT(30)
<1>7. \A j \in 0 .. q - 1 : j # n /\ m[s + j] = m[t + j] /\ m[s + j] # End
  BY <1>2, <1>6
<1>8. q \in Nat /\ q <= Len(x) /\ q <= Len(y) /\ q <= n
  <2>1. ~(Len(y) < q)
    BY <1>2, <1>3, <1>7
  <2>2. ~(n < q)
    BY <1>2, <1>7
  <2> QED BY <1>2, <1>6, <2>1, <2>2
<1>9. \A j \in 0..q : stops(j) <=> j \in T
  <2>1. ASSUME NEW j \in 0..q PROVE stops(j) <=> j \in T
    <3>0. PICK u, v : u = m[s + j] /\ v = m[t + j]
      OBVIOUS
    <3>1. u \in 0..255 /\ v \in 0..255
      BY <1>2, <1>3, <1>8, <3>0, SMTT(30)
    <3>2. PICK d \in -255..255 : d = u - v
      BY <3>1
    <3>3. SignedFits(d)
      BY SignedIs
    <3>4. d = 0 <=> u = v
      BY <3>1, <3>2
    <3>5. j \in 0..N
      BY <1>2, <1>8
    <3>6. SignedChar(u - v) = 0 <=> u = v
      BY <3>2, <3>3, <3>4 DEF SignedFits
    <3> QED BY <3>0, <3>5, <3>6
  <2> QED BY <2>1
<1> HIDE DEF stops
<1>10. \A p \in 0..N : stops(p) /\ (\A j \in 0 .. p - 1 : ~stops(j)) <=> p = q
  <2>1. q \in 0..N /\ stops(q) /\ \A j \in 0 .. q - 1 : ~stops(j)
    BY <1>2, <1>6, <1>8, <1>9
  <2> QED BY <1>2, <2>1
<1>11. z = q
  <2>1. z = CHOOSE p \in 0..N : stops(p) /\ \A j \in 0 .. p - 1 : ~stops(j)
    BY <1>2
  <2> QED BY <1>2, <1>8, <1>10, <2>1
<1> HIDE DEF z
<1>12. q # n => m[s + q] # m[t + q] \/ m[s + q] = End
  BY <1>6
<1> QED BY <1>4, <1>7, <1>8, <1>11, <1>12 DEF SameUpto

IntTake(x, n, a) ==
  /\ a \in Seq(Int) /\ Len(a) = Least(n, Len(x)) /\ Len(a) \in Nat
  /\ a = [i \in 1..Len(a) |-> x[i]]
LEMMA TakeInt ==
  ASSUME NEW x \in Seq(Int), NEW n \in Nat, NEW a, a = Take(x, n)
  PROVE  IntTake(x, n, a)
<1>1. PICK S : S = Int
  OBVIOUS
<1>2. x \in Seq(S)
  BY <1>1
<1>3. /\ Take(x, n) \in Seq(S) /\ Len(Take(x, n)) = Least(n, Len(x)) /\ Least(n, Len(x)) \in Nat
      /\ Take(x, n) = [i \in 1 .. Least(n, Len(x)) |-> x[i]]
  BY <1>2, TakeIs, ZenonT(30)
<1> QED BY <1>1, <1>3 DEF IntTake

LEMMA SameAgree ==
  ASSUME NEW m, NEW N, NEW s, NEW x, NEW e, NEW t, NEW y, NEW f,
         TwoStrings(m, N, s, x, e, t, y, f), NEW n \in Nat,
         NEW k \in Nat, SameUpto(m, s, x, t, y, k), k <= n
  PROVE  Agree(Take(x, n), Take(y, n), k)
<1>1. /\ StringAt(m, N, s, x, e) /\ StringAt(m, N, t, y, f)
  BY DEF TwoStrings
<1>2. x \in Seq(Letter) /\ y \in Seq(Letter) /\ Len(x) \in Nat /\ Len(y) \in Nat
  BY <1>1 DEF StringAt
<1>3. PICK a : a = Take(x, n)
  OBVIOUS
<1>4. PICK b : b = Take(y, n)
  OBVIOUS
<1>5. x \in Seq(Int) /\ y \in Seq(Int)
  <2>1. Letter \subseteq Int
    BY DEF Letter
  <2> HIDE DEF Letter
  <2> QED BY <1>2, <2>1, LargerSeq
<1>6. /\ a \in Seq(Int) /\ Len(a) = Least(n, Len(x)) /\ Len(a) \in Nat
      /\ a = [i \in 1..Len(a) |-> x[i]]
  BY <1>3, <1>5, TakeInt DEF IntTake
<1>7. /\ b \in Seq(Int) /\ Len(b) = Least(n, Len(y)) /\ Len(b) \in Nat
      /\ b = [i \in 1..Len(b) |-> y[i]]
  BY <1>4, <1>5, TakeInt DEF IntTake
<1>8. k <= Len(x) /\ k <= Len(y) /\ \A j \in 0 .. k - 1 : m[s + j] = m[t + j]
  BY DEF SameUpto
<1>9. k <= Len(a) /\ k <= Len(b)
  BY <1>6, <1>7, <1>8 DEF Least
<1>10. ASSUME NEW i \in 1..k PROVE a[i] = b[i]
  <2>1. PICK j \in 0 .. k - 1 : j = i - 1
    OBVIOUS
  <2>2. j \in 0..Len(x) /\ j \in 0..Len(y) /\ j < Len(x) /\ j < Len(y) /\ i = j + 1
    BY <1>2, <1>8, <2>1
  <2>3. x[j + 1] = m[s + j]
    BY <1>1, <2>2, CharAt
  <2>4. y[j + 1] = m[t + j]
    BY <1>1, <2>2, CharAt
  <2>5. x[i] = y[i]
    BY <1>8, <2>2, <2>3, <2>4
  <2>6. i \in 1..Len(a) /\ i \in 1..Len(b)
    BY <1>6, <1>7, <1>9
  <2> QED BY <1>6, <1>7, <2>5, <2>6
<1> QED BY <1>3, <1>4, <1>6, <1>7, <1>9, <1>10 DEF Agree

LEMMA StrncmpHolds ==
  ASSUME NEW m, NEW N, NEW s, NEW x, NEW e, NEW t, NEW y, NEW f,
         TwoStrings(m, N, s, x, e, t, y, f), NEW n \in Nat
  PROVE  ComparesAs(Strncmp(m, s, t, n), Take(x, n), Take(y, n), 127)
<1>1. /\ StringAt(m, N, s, x, e) /\ StringAt(m, N, t, y, f)
  BY DEF TwoStrings
<1>2. x \in Seq(Letter) /\ y \in Seq(Letter) /\ Len(x) \in Nat /\ Len(y) \in Nat
  BY <1>1 DEF StringAt
<1>3. PICK k \in 0..n :
           /\ SameUpto(m, s, x, t, y, k)
           /\ k # n => m[s + k] # m[t + k] \/ m[s + k] = End
           /\ Strncmp(m, s, t, n) = IF k = n THEN 0 ELSE SignedChar(m[s + k] - m[t + k])
  BY StrncmpAt
<1>4. k \in Nat /\ k <= n /\ k <= Len(x) /\ k <= Len(y)
  BY <1>3 DEF SameUpto
<1>5. Agree(Take(x, n), Take(y, n), k)
  BY <1>3, <1>4, SameAgree
<1>6. Len(Take(x, n)) = Least(n, Len(x)) /\ Len(Take(y, n)) = Least(n, Len(y))
  BY <1>2, TakeIs
<1>7. CASE k = n
  <2>1. Len(Take(x, n)) = k /\ Len(Take(y, n)) = k
    BY <1>2, <1>4, <1>6, <1>7 DEF Least
  <2>2. Strncmp(m, s, t, n) = 0
    BY <1>3, <1>7
  <2> QED BY <1>5, <2>1, <2>2, ComparesEqual
<1>8. CASE k # n
  <2>1. k < n /\ k \in 0..Len(x) /\ k \in 0..Len(y)
    BY <1>2, <1>4, <1>8
  <2>2. PICK ca : ca = m[s + k]
    OBVIOUS
  <2>3. PICK cb : cb = m[t + k]
    OBVIOUS
  <2>4. ca \in 0..255 /\ Append(x, End)[k + 1] = ca /\ (ca = End <=> k = Len(x))
    BY <1>1, <2>1, <2>2, CharAt
  <2>5. cb \in 0..255 /\ Append(y, End)[k + 1] = cb /\ (cb = End <=> k = Len(y))
    BY <1>1, <2>1, <2>3, CharAt
  <2>6. PICK d \in -255..255 : d = ca - cb
    BY <2>4, <2>5
  <2>7. Strncmp(m, s, t, n) = SignedChar(d)
    BY <1>3, <1>8, <2>2, <2>3, <2>6
  <2>8. /\ SignedChar(d) = 0 <=> d = 0
        /\ d \in -127..127 => SignedChar(d) = d
    <3>1. SignedFits(d)
      BY SignedIs
    <3> QED BY <3>1 DEF SignedFits
  <2>9. CASE ca = cb
    <3>1. k = Len(x) /\ k = Len(y)
      BY <1>3, <1>8, <2>2, <2>3, <2>4, <2>5, <2>9
    <3>2. Len(Take(x, n)) = k /\ Len(Take(y, n)) = k
      BY <1>4, <1>6, <3>1 DEF Least
    <3>3. d = 0
      BY <2>4, <2>5, <2>6, <2>9
    <3>4. Strncmp(m, s, t, n) = 0
      BY <2>7, <2>8, <3>3
    <3> QED BY <1>5, <3>2, <3>4, ComparesEqual
  <2>10. CASE ca # cb
    <3>1. Ahead(Take(x, n), k, ca)
      BY <1>2, <1>4, <2>1, <2>4, TakeAppend, ZenonT(30) DEF Ahead
    <3>2. Ahead(Take(y, n), k, cb)
      BY <1>2, <1>4, <2>1, <2>5, TakeAppend DEF Ahead
    <3>3. d # 0
      BY <2>4, <2>5, <2>6, <2>10
    <3>4. PICK r : r = SignedChar(d)
      OBVIOUS
    <3>5. SignOf(r, ca, cb, 127)
      BY <2>6, <2>8, <3>3, <3>4 DEF SignOf
    <3>6. ComparesAs(r, Take(x, n), Take(y, n), 127)
      BY <1>5, <2>10, <3>1, <3>2, <3>5, ComparesDiffer
    <3> QED BY <2>7, <3>4, <3>6
  <2> QED BY <2>9, <2>10
<1> QED BY <1>7, <1>8

LEMMA StrcmpHolds ==
  ASSUME NEW m, NEW N, NEW s, NEW x, NEW e, NEW t, NEW y, NEW f,
         TwoStrings(m, N, s, x, e, t, y, f)
  PROVE  ComparesAs(Strcmp(m, s, t), x, y, 127)
<1>1. /\ StringAt(m, N, s, x, e) /\ StringAt(m, N, t, y, f)
  BY DEF TwoStrings
<1>2. PICK n \in Nat : n = Unlimited(m) /\ Len(x) <= n /\ Len(y) <= n
  <2>1. /\ N \in Nat \ {0} /\ Cardinality(DOMAIN m) = N /\ s \in Nat /\ t \in Nat
        /\ Len(x) \in Nat /\ Len(y) \in Nat /\ s + Len(x) <= N - 1 /\ t + Len(y) <= N - 1
    BY <1>1 DEF StringAt
  <2>2. Unlimited(m) = N + 1
    BY <2>1 DEF Unlimited
  <2> QED BY <2>1, <2>2
<1>3. x \in Seq(Letter) /\ y \in Seq(Letter)
  BY <1>1 DEF StringAt
<1>4. Take(x, n) = x
  BY <1>2, <1>3, TakeWhole
<1>5. Take(y, n) = y
  BY <1>2, <1>3, TakeWhole
<1>6. ComparesAs(Strncmp(m, s, t, n), Take(x, n), Take(y, n), 127)
  BY StrncmpHolds
<1> QED BY <1>2, <1>4, <1>5, <1>6 DEF Strcmp
-----------------------------------------------------------------------------
LEMMA LowerIs ==
  ASSUME NEW c \in 0..255
  PROVE  Tolower(c) \in 0..255 /\ (Tolower(c) = 0 <=> c = 0)
<1> QED BY DEF Tolower

LEMMA LowIs ==
  ASSUME NEW m, NEW N, NEW s, NEW x, NEW e, StringAt(m, N, s, x, e)
  PROVE  /\ Low(x) \in Seq(Int) /\ Len(Low(x)) = Len(x) /\ Len(x) \in Nat
         /\ \A k \in 0..Len(x) : Append(Low(x), End)[k + 1] = Tolower(m[s + k])
         /\ \A k \in 0 .. Len(x) - 1 : Low(x)[k + 1] = Tolower(m[s + k])
<1>1. x \in Seq(Letter) /\ Len(x) \in Nat
  BY DEF StringAt
<1>2. PICK l \in Nat : l = Len(x)
  BY <1>1
<1>3. Low(x) = [i \in 1..l |-> Tolower(x[i])]
  BY <1>1, <1>2 DEF Low
<1>4. ASSUME NEW k \in 0..l
      PROVE  m[s + k] \in 0..255 /\ (k < l => x[k + 1] = m[s + k])
  BY <1>2, CharAt
<1>5. ASSUME NEW i \in 1..l PROVE Tolower(x[i]) \in Int
  <2>1. PICK k \in 0..l : i = k + 1 /\ k < l
    <3>1. i - 1 \in 0..l /\ i = (i - 1) + 1 /\ i - 1 < l
      OBVIOUS
    <3> QED BY <3>1
  <2>2. x[i] \in 0..255
    <3>1. m[s + k] \in 0..255 /\ x[k + 1] = m[s + k]
      BY <1>4, <2>1
    <3> QED BY <2>1, <3>1
  <2>3. PICK c \in 0..255 : c = x[i]
    BY <2>2
  <2>4. Tolower(c) \in 0..255
    BY LowerIs
  <2> QED BY <2>3, <2>4
<1>6. [i \in 1..l |-> Tolower(x[i])] \in Seq(Int)
  BY <1>5, IsASeq
<1>7. Len([i \in 1..l |-> Tolower(x[i])]) = l
  OBVIOUS
<1>8. PICK w : w = Low(x)
  OBVIOUS
<1>9. w \in Seq(Int) /\ Len(w) = l /\ \A i \in 1..l : w[i] = Tolower(x[i])
  BY <1>3, <1>6, <1>7, <1>8
<1>10. ASSUME NEW k \in 0 .. l - 1 PROVE w[k + 1] = Tolower(m[s + k])
  <2>1. k \in 0..l /\ k < l /\ k + 1 \in 1..l
    OBVIOUS
  <2>2. x[k + 1] = m[s + k]
    BY <1>2, <2>1, CharAt
  <2> QED BY <1>9, <2>1, <2>2
<1>11. ASSUME NEW k \in 0..l PROVE Append(w, End)[k + 1] = Tolower(m[s + k])
  <2>1. CASE k = l
    <3>1. m[s + k] = End
      BY <1>2, <2>1, CharAt
    <3>2. Append(w, End)[k + 1] = End
      BY <1>9, <2>1
    <3>3. Tolower(End) = End
      BY DEF Tolower, End
    <3> QED BY <3>1, <3>2, <3>3
  <2>2. CASE k # l
    <3>1. k \in 0 .. l - 1 /\ k + 1 \in 1..l
      BY <2>2
    <3>2. Append(w, End)[k + 1] = w[k + 1]
      BY <1>9, <3>1
    <3> QED BY <1>10, <3>1, <3>2
  <2> QED BY <2>1, <2>2
<1> QED BY <1>2, <1>8, <1>9, <1>10, <1>11

SameLow(m, s, x, t, y, k) ==
  /\ k \in Nat /\ k <= Len(x) /\ k <= Len(y)
  /\ \A j \in 0 .. k - 1 : Tolower(m[s + j]) = Tolower(m[t + j])

LEMMA StrncasecmpAt ==
  ASSUME NEW m, NEW N, NEW s, NEW x, NEW e, NEW t, NEW y, NEW f,
         TwoStrings(m, N, s, x, e, t, y, f), NEW n \in Nat \ {0}
  PROVE  \E k \in 0 .. n - 1 :
           /\ SameLow(m, s, x, t, y, k)
           /\ \/ End \in {m[s + k], m[t + k]}
              \/ k + 1 = n
              \/ Tolower(m[s + k]) # Tolower(m[t + k])
           /\ Strncasecmp(m, s, t, n) =
                IF End \in {m[s + k], m[t + k]} THEN m[s + k] - m[t + k]
                ELSE Tolower(m[s + k]) - Tolower(m[t + k])
<1>1. /\ StringAt(m, N, s, x, e) /\ StringAt(m, N, t, y, f)
  BY DEF TwoStrings
<1>2. /\ N \in Nat \ {0} /\ Cardinality(DOMAIN m) = N /\ Len(x) \in Nat /\ Len(x) <= N
      /\ Len(y) \in Nat
  BY <1>1 DEF StringAt
<1>3. /\ \A k \in 0..Len(x) : m[s + k] = End <=> k = Len(x)
      /\ \A k \in 0..Len(y) : m[t + k] = End <=> k = Len(y)
  BY <1>1, CharAt
<1> DEFINE stops(j) == \/ End \in {m[s + j], m[t + j]} \/ j + 1 = n
                       \/ Tolower(m[s + j]) # Tolower(m[t + j])
           T == {j \in 0..N : stops(j)}
           z == CHOOSE p \in 0 .. Cardinality(DOMAIN m) : stops(p) /\ \A j \in 0 .. p - 1 : ~stops(j)
<1>4. Strncasecmp(m, s, t, n) =
        IF n = 0 THEN 0
        ELSE IF End \in {m[s + z], m[t + z]} THEN m[s + z] - m[t + z]
             ELSE Tolower(m[s + z]) - Tolower(m[t + z])
  BY Zenon DEF Strncasecmp, Upwards
<1>5. Len(x) \in T /\ 0 <= Len(x) /\ 0 \in Nat
  BY <1>2, <1>3
<1>6. PICK q \in 0..Len(x) : q \in T /\ \A p \in 0 .. q - 1 : p \notin T
  <2> HIDE DEF T
  <2> QED BY <1>2, <1>5, FirstPlace, ZenonT(30)
<1>7. \A j \in 0 .. q - 1 : /\ m[s + j] # End /\ m[t + j] # End /\ j + 1 # n
                            /\ Tolower(m[s + j]) = Tolower(m[t + j])
  BY <1>2, <1>6
<1>8. q \in Nat /\ q <= Len(x) /\ q <= Len(y) /\ q <= n - 1
  <2>1. ~(Len(y) < q)
    BY <1>2, <1>3, <1>7
  <2>2. ~(n - 1 < q)
    <3>1. SUFFICES ASSUME n - 1 < q PROVE FALSE
      OBVIOUS
    <3>2. n - 1 \in 0 .. q - 1 /\ (n - 1) + 1 = n
      BY <1>2, <1>6, <3>1
    <3> QED BY <1>7, <3>2
  <2> QED BY <1>2, <1>6, <2>1, <2>2
<1>9. stops(q)
  BY <1>6
<1>10. \A p \in 0..N : stops(p) /\ (\A j \in 0 .. p - 1 : ~stops(j)) <=> p = q
  <2>1. \A j \in 0 .. q - 1 : ~stops(j)
    BY <1>7
  <2> HIDE DEF stops
  <2> QED BY <1>2, <1>8, <1>9, <2>1
<1>11. z = q
  <2>1. z = CHOOSE p \in 0..N : stops(p) /\ \A j \in 0 .. p - 1 : ~stops(j)
    BY <1>2
  <2> HIDE DEF stops, z
  <2> QED BY <1>2, <1>8, <1>10, <2>1
<1> HIDE DEF z
<1>12. SameLow(m, s, x, t, y, q)
  BY <1>7, <1>8 DEF SameLow
<1>13. q \in 0 .. n - 1
  BY <1>8
<1> QED BY <1>4, <1>9, <1>11, <1>12, <1>13

LEMMA LowAgree ==
  ASSUME NEW m, NEW N, NEW s, NEW x, NEW e, NEW t, NEW y, NEW f,
         TwoStrings(m, N, s, x, e, t, y, f), NEW n \in Nat,
         NEW k \in Nat, SameLow(m, s, x, t, y, k), k <= n
  PROVE  Agree(Take(Low(x), n), Take(Low(y), n), k)
<1>1. /\ StringAt(m, N, s, x, e) /\ StringAt(m, N, t, y, f)
  BY DEF TwoStrings
<1>2. PICK v : v = Low(x)
  OBVIOUS
<1>3. PICK w : w = Low(y)
  OBVIOUS
<1>4. /\ v \in Seq(Int) /\ Len(v) = Len(x) /\ Len(x) \in Nat
      /\ \A j \in 0 .. Len(x) - 1 : v[j + 1] = Tolower(m[s + j])
  BY <1>1, <1>2, LowIs
<1>5. /\ w \in Seq(Int) /\ Len(w) = Len(y) /\ Len(y) \in Nat
      /\ \A j \in 0 .. Len(y) - 1 : w[j + 1] = Tolower(m[t + j])
  BY <1>1, <1>3, LowIs
<1>6. PICK a : a = Take(v, n)
  OBVIOUS
<1>7. PICK b : b = Take(w, n)
  OBVIOUS
<1>8. /\ a \in Seq(Int) /\ Len(a) = Least(n, Len(v)) /\ Len(a) \in Nat
      /\ a = [i \in 1..Len(a) |-> v[i]]
  BY <1>4, <1>6, TakeInt DEF IntTake
<1>9. /\ b \in Seq(Int) /\ Len(b) = Least(n, Len(w)) /\ Len(b) \in Nat
      /\ b = [i \in 1..Len(b) |-> w[i]]
  BY <1>5, <1>7, TakeInt DEF IntTake
<1>10. k <= Len(x) /\ k <= Len(y) /\ \A j \in 0 .. k - 1 : Tolower(m[s + j]) = Tolower(m[t + j])
  BY DEF SameLow
<1>11. k <= Len(a) /\ k <= Len(b)
  BY <1>4, <1>5, <1>8, <1>9, <1>10 DEF Least
<1>12. ASSUME NEW i \in 1..k PROVE a[i] = b[i]
  <2>1. PICK j \in 0 .. k - 1 : j = i - 1
    OBVIOUS
  <2>2. j \in 0 .. Len(x) - 1 /\ j \in 0 .. Len(y) - 1 /\ i = j + 1
    BY <1>4, <1>5, <1>10, <2>1
  <2>3. v[i] = w[i]
    BY <1>4, <1>5, <1>10, <2>2
  <2>4. i \in 1..Len(a) /\ i \in 1..Len(b)
    BY <1>8, <1>9, <1>11
  <2> QED BY <1>8, <1>9, <2>3, <2>4
<1> QED BY <1>2, <1>3, <1>6, <1>7, <1>8, <1>9, <1>11, <1>12 DEF Agree

LEMMA StrncasecmpHolds ==
  ASSUME NEW m, NEW N, NEW s, NEW x, NEW e, NEW t, NEW y, NEW f,
         TwoStrings(m, N, s, x, e, t, y, f), NEW n \in Nat
  PROVE  ComparesAs(Strncasecmp(m, s, t, n), Take(Low(x), n), Take(Low(y), n), 255)
<1>1. /\ StringAt(m, N, s, x, e) /\ StringAt(m, N, t, y, f)
  BY DEF TwoStrings
<1>2. PICK v : v = Low(x)
  OBVIOUS
<1>3. PICK w : w = Low(y)
  OBVIOUS
<1>4. /\ v \in Seq(Int) /\ Len(v) = Len(x) /\ Len(x) \in Nat
      /\ \A j \in 0..Len(x) : Append(v, End)[j + 1] = Tolower(m[s + j])
  BY <1>1, <1>2, LowIs
<1>5. /\ w \in Seq(Int) /\ Len(w) = Len(y) /\ Len(y) \in Nat
      /\ \A j \in 0..Len(y) : Append(w, End)[j + 1] = Tolower(m[t + j])
  BY <1>1, <1>3, LowIs
<1>6. Len(Take(v, n)) = Least(n, Len(v)) /\ Len(Take(w, n)) = Least(n, Len(w))
  <2>1. v \in Seq(Int) /\ w \in Seq(Int)
    BY <1>4, <1>5
  <2> QED BY <2>1, TakeIs
<1>7. \A k \in Nat : SameLow(m, s, x, t, y, k) /\ k <= n => Agree(Take(v, n), Take(w, n), k)
  BY <1>2, <1>3, LowAgree
<1> SUFFICES ComparesAs(Strncasecmp(m, s, t, n), Take(v, n), Take(w, n), 255)
  BY <1>2, <1>3
<1>8. CASE n = 0
  <2>1. Strncasecmp(m, s, t, n) = 0
    BY <1>8 DEF Strncasecmp
  <2>2. SameLow(m, s, x, t, y, 0)
    BY <1>4, <1>5 DEF SameLow
  <2>3. Agree(Take(v, n), Take(w, n), 0)
    BY <1>7, <1>8, <2>2
  <2>4. Len(Take(v, n)) = 0 /\ Len(Take(w, n)) = 0
    BY <1>4, <1>5, <1>6, <1>8 DEF Least
  <2> QED BY <2>1, <2>3, <2>4, ComparesEqual
<1>9. CASE n # 0
  <2>1. PICK k \in 0 .. n - 1 :
           /\ SameLow(m, s, x, t, y, k)
           /\ \/ End \in {m[s + k], m[t + k]}
              \/ k + 1 = n
              \/ Tolower(m[s + k]) # Tolower(m[t + k])
           /\ Strncasecmp(m, s, t, n) =
                IF End \in {m[s + k], m[t + k]} THEN m[s + k] - m[t + k]
                ELSE Tolower(m[s + k]) - Tolower(m[t + k])
    BY <1>9, StrncasecmpAt
  <2>2. /\ k \in Nat /\ k < n /\ k <= Len(x) /\ k <= Len(y)
        /\ \A j \in 0 .. k - 1 : Tolower(m[s + j]) = Tolower(m[t + j])
    BY <2>1 DEF SameLow
  <2>3. Agree(Take(v, n), Take(w, n), k)
    BY <1>7, <2>1, <2>2
  <2>4. PICK ca : ca = m[s + k]
    OBVIOUS
  <2>5. PICK cb : cb = m[t + k]
    OBVIOUS
  <2>6. k \in 0..Len(x) /\ k \in 0..Len(y)
    BY <1>4, <1>5, <2>2
  <2>7. ca \in 0..255 /\ (ca = End <=> k = Len(x))
    BY <1>1, <2>4, <2>6, CharAt
  <2>8. cb \in 0..255 /\ (cb = End <=> k = Len(y))
    BY <1>1, <2>5, <2>6, CharAt
  <2>9. PICK la \in 0..255 : la = Tolower(ca) /\ (la = 0 <=> ca = 0)
    BY <2>7, LowerIs, ZenonT(30)
  <2>10. PICK lb \in 0..255 : lb = Tolower(cb) /\ (lb = 0 <=> cb = 0)
    BY <2>8, LowerIs
  <2>11. PICK r : r = Strncasecmp(m, s, t, n)
    OBVIOUS
  <2>12. r = IF End \in {ca, cb} THEN ca - cb ELSE la - lb
    BY <2>1, <2>4, <2>5, <2>9, <2>10, <2>11
  <2>13. End \in {ca, cb} \/ k + 1 = n \/ la # lb
    BY <2>1, <2>4, <2>5, <2>9, <2>10
  <2>14. CASE la # lb
    <3>1. Append(v, End)[k + 1] = la /\ Append(w, End)[k + 1] = lb
      BY <1>4, <1>5, <2>4, <2>5, <2>6, <2>9, <2>10
    <3>2. Ahead(Take(v, n), k, la)
      BY <1>4, <2>2, <3>1, TakeAppend DEF Ahead
    <3>3. Ahead(Take(w, n), k, lb)
      BY <1>5, <2>2, <3>1, TakeAppend DEF Ahead
    <3>4. r # 0 /\ (r < 0 <=> la - lb < 0)
      <4>1. CASE ca = 0
        <5>1. la = 0 /\ lb # 0 /\ cb # 0
          BY <2>9, <2>10, <2>14, <4>1
        <5>2. r = ca - cb
          BY <2>12, <4>1 DEF End
        <5>3. cb > 0 /\ lb > 0
          BY <2>8, <5>1
        <5> QED BY <2>8, <4>1, <5>1, <5>2, <5>3
      <4>2. CASE cb = 0
        <5>1. lb = 0 /\ la # 0 /\ ca # 0
          BY <2>9, <2>10, <2>14, <4>2
        <5>2. r = ca - cb
          BY <2>12, <4>2 DEF End
        <5>3. ca > 0 /\ la > 0
          BY <2>7, <5>1
        <5> QED BY <2>7, <4>2, <5>1, <5>2, <5>3
      <4>3. CASE ca # 0 /\ cb # 0
        <5>1. r = la - lb
          BY <2>12, <4>3 DEF End
        <5> QED BY <2>9, <2>10, <2>14, <5>1
      <4> QED BY <4>1, <4>2, <4>3
    <3>5. SignOf(r, la, lb, 255)
      BY <3>4 DEF SignOf
    <3> QED BY <2>3, <2>11, <2>14, <3>2, <3>3, <3>5, ComparesDiffer
  <2>15. CASE la = lb /\ End \in {ca, cb}
    <3>1. ca = 0 /\ cb = 0
      BY <2>9, <2>10, <2>15 DEF End
    <3>2. k = Len(x) /\ k = Len(y)
      BY <2>7, <2>8, <3>1 DEF End
    <3>3. Len(Take(v, n)) = k /\ Len(Take(w, n)) = k
      BY <1>4, <1>5, <1>6, <2>2, <3>2 DEF Least
    <3>4. r = 0
      BY <2>12, <2>15, <3>1
    <3> QED BY <2>3, <2>11, <3>3, <3>4, ComparesEqual
  <2>16. CASE la = lb /\ End \notin {ca, cb}
    <3>1. k + 1 = n /\ r = 0
      BY <2>12, <2>13, <2>16
    <3>2. k < Len(x) /\ k < Len(y)
      BY <1>4, <1>5, <2>2, <2>7, <2>8, <2>16
    <3>3. SameLow(m, s, x, t, y, n)
      <4>1. \A j \in 0 .. n - 1 : Tolower(m[s + j]) = Tolower(m[t + j])
        <5>1. \A j \in 0 .. n - 1 : j \in 0 .. k - 1 \/ j = k
          BY <3>1
        <5> QED BY <2>2, <2>4, <2>5, <2>9, <2>10, <2>16, <5>1
      <4> QED BY <1>4, <1>5, <2>2, <3>1, <3>2, <4>1 DEF SameLow
    <3>4. Agree(Take(v, n), Take(w, n), n)
      BY <1>7, <3>3
    <3>5. Len(Take(v, n)) = n /\ Len(Take(w, n)) = n
      BY <1>4, <1>5, <1>6, <2>2, <3>1, <3>2 DEF Least
    <3> QED BY <2>11, <3>1, <3>4, <3>5, ComparesEqual
  <2> QED BY <2>14, <2>15, <2>16
<1> QED BY <1>8, <1>9

LEMMA StrcasecmpHolds ==
  ASSUME NEW m, NEW N, NEW s, NEW x, NEW e, NEW t, NEW y, NEW f,
         TwoStrings(m, N, s, x, e, t, y, f)
  PROVE  ComparesAs(Strcasecmp(m, s, t), Low(x), Low(y), 255)
<1>1. /\ StringAt(m, N, s, x, e) /\ StringAt(m, N, t, y, f)
  BY DEF TwoStrings
<1>2. PICK n \in Nat : n = Unlimited(m) /\ Len(x) <= n /\ Len(y) <= n
  <2>1. /\ N \in Nat \ {0} /\ Cardinality(DOMAIN m) = N /\ s \in Nat /\ t \in Nat
        /\ Len(x) \in Nat /\ Len(y) \in Nat /\ s + Len(x) <= N - 1 /\ t + Len(y) <= N - 1
    BY <1>1 DEF StringAt
  <2>2. Unlimited(m) = N + 1
    BY <2>1 DEF Unlimited
  <2> QED BY <2>1, <2>2
<1>3. Low(x) \in Seq(Int) /\ Len(Low(x)) = Len(x) /\ Low(y) \in Seq(Int) /\ Len(Low(y)) = Len(y)
  BY <1>1, LowIs
<1>4. Take(Low(x), n) = Low(x)
  BY <1>2, <1>3, TakeWhole
<1>5. Take(Low(y), n) = Low(y)
  BY <1>2, <1>3, TakeWhole
<1>6. ComparesAs(Strncasecmp(m, s, t, n), Take(Low(x), n), Take(Low(y), n), 255)
  BY StrncasecmpHolds
<1> QED BY <1>2, <1>4, <1>5, <1>6 DEF Strcasecmp
-----------------------------------------------------------------------------
(* Two ways of passes that begin alike and go on alike.                     *)
LEMMA SameWay ==
  ASSUME NEW P \in Nat, NEW f, NEW g, f[0] = g[0],
         \A k \in 0 .. P - 1 : f[k] = g[k] => f[k + 1] = g[k + 1]
  PROVE  f[P] = g[P]
<1> DEFINE S == {k \in Nat : k <= P => f[k] = g[k]}
<1>1. 0 \in S
  OBVIOUS
<1>2. ASSUME NEW k \in Nat, k \in S PROVE k + 1 \in S
  BY <1>2
<1> HIDE DEF S
<1>3. P \in S
  BY <1>1, <1>2, Induct
<1> QED BY <1>3 DEF S

(* The last place of some up to e, or the one before s. *)
LEMMA LastPlace ==
  ASSUME NEW s \in Nat, NEW e \in Nat, s <= e, NEW T
  PROVE  \E q \in s - 1 .. e : (q >= s => q \in T) /\ \A p \in q + 1 .. e : p \notin T
<1> DEFINE R == {j \in Nat : e - j \in T \/ e - j < s}
<1>1. PICK d \in Nat : d = e - s + 1
  OBVIOUS
<1>2. d \in R
  BY <1>1
<1> HIDE DEF R
<1>3. PICK j \in 0..d : j \in R /\ \A i \in 0 .. j - 1 : i \notin R
  <2>1. 0 \in Nat /\ 0 <= d
    OBVIOUS
  <2> QED BY <1>2, <2>1, FirstPlace
<1>4. PICK q \in s - 1 .. e : q = e - j
  BY <1>1, <1>3
<1>5. q >= s => q \in T
  BY <1>3, <1>4 DEF R
<1>6. ASSUME NEW p \in q + 1 .. e PROVE p \notin T
  <2>1. PICK i \in 0 .. j - 1 : p = e - i
    <3>1. e - p \in 0 .. j - 1 /\ p = e - (e - p)
      BY <1>4
    <3> QED BY <3>1
  <2>2. i \notin R
    BY <1>3, <2>1
  <2> QED BY <2>1, <2>2 DEF R
<1> QED BY <1>5, <1>6

StrrchrRight(m, s, x, c, r) == r = LastOf({p \in s .. s + Len(x) : m[p] = c})

LEMMA StrrchrHolds ==
  ASSUME NEW m, NEW N, NEW s, NEW x, NEW e, StringAt(m, N, s, x, e), NEW c
  PROVE  StrrchrRight(m, s, x, c, Strrchr(m, s, c))
<1>1. /\ Memory(m, N) /\ Ends(m, N, s, e) /\ N \in Nat \ {0} /\ Cardinality(DOMAIN m) = N
      /\ Len(x) \in Nat /\ e = s + Len(x) /\ s \in Nat /\ e \in Nat /\ s <= e /\ e <= N - 1
  BY DEF StringAt
<1>2. s + Strlen(m, s) = e
  <2>1. Strlen(m, s) = e - s
    BY <1>1, StrlenAt
  <2> QED BY <1>1, <2>1
<1> DEFINE T == {p \in s..e : m[p] = c}
<1>3. PICK q \in s - 1 .. e : (q >= s => q \in T) /\ \A p \in q + 1 .. e : p \notin T
  <2>1. s \in Nat /\ e \in Nat /\ s <= e
    BY <1>1
  <2> HIDE DEF T
  <2> QED BY <2>1, LastPlace
<1>4. q \in Int /\ q <= e /\ s - 1 <= q
  BY <1>1, <1>3
<1> DEFINE P == Cardinality(DOMAIN m) + 1
           begin == s + Strlen(m, s)
           Stop(p) == p < s \/ m[p] = c
           Way(f) == f = [k \in 0..P |->
                            IF k = 0 THEN begin
                            ELSE IF Stop(f[k - 1]) THEN f[k - 1] ELSE f[k - 1] - 1]
           f == CHOOSE g : Way(g)
           At(k) == IF e - k <= q THEN q ELSE e - k
           A == [k \in 0..P |-> At(k)]
<1>5. Strrchr(m, s, c) = IF f[P] < s THEN Null ELSE f[P]
  BY Zenon DEF Strrchr, Loop
<1>6. P = N + 1 /\ begin = e
  BY <1>1, <1>2
<1> HIDE DEF P, begin
<1>7. At(0) = begin
  BY <1>4, <1>1, <1>6
<1>8. ASSUME NEW k \in Nat PROVE At(k + 1) = IF Stop(At(k)) THEN At(k) ELSE At(k) - 1
  <2>1. CASE e - k <= q
    <3>1. At(k) = q /\ At(k + 1) = q
      BY <1>1, <1>4, <2>1
    <3>2. Stop(q)
      BY <1>1, <1>3, <1>4
    <3> QED BY <3>1, <3>2
  <2>2. CASE ~(e - k <= q)
    <3>1. At(k) = e - k /\ At(k + 1) = e - k - 1
      BY <1>1, <1>4, <2>2
    <3>2. e - k \in q + 1 .. e
      BY <1>1, <1>4, <2>2
    <3>3. e - k \notin T /\ e - k \in s..e
      BY <1>1, <1>3, <1>4, <3>2
    <3>4. ~Stop(e - k)
      BY <1>1, <3>3
    <3> QED BY <3>1, <3>4
  <2> QED BY <2>1, <2>2
<1> HIDE DEF Stop, At, T
<1>9. \A k \in 0..P : A[k] = IF k = 0 THEN begin
                             ELSE IF Stop(A[k - 1]) THEN A[k - 1] ELSE A[k - 1] - 1
  <2>1. ASSUME NEW k \in 0..P, k # 0
        PROVE  A[k] = IF Stop(A[k - 1]) THEN A[k - 1] ELSE A[k - 1] - 1
    <3>1. PICK j \in Nat : k = j + 1 /\ j = k - 1 /\ j \in 0..P
      <4>1. k - 1 \in Nat /\ k = (k - 1) + 1 /\ k - 1 \in 0..P
        BY <1>1, <1>6, <2>1
      <4> QED BY <4>1
    <3>2. A[k] = At(j + 1) /\ A[k - 1] = At(j)
      BY <3>1
    <3> HIDE DEF A
    <3> QED BY <1>8, <3>1, <3>2
  <2>2. A[0] = begin
    BY <1>1, <1>6, <1>7
  <2> QED BY <2>1, <2>2
<1>10. Way(A)
  <2> DEFINE B == [k \in 0..P |-> IF k = 0 THEN begin
                             ELSE IF Stop(A[k - 1]) THEN A[k - 1] ELSE A[k - 1] - 1]
  <2>1. A = B
    BY <1>9
  <2> HIDE DEF A
  <2> QED BY <2>1
<1>11. Way(f)
  BY <1>10
<1> HIDE DEF f
<1>12. f[0] = A[0]
  <2>1. f[0] = begin
    BY <1>1, <1>6, <1>11
  <2> QED BY <1>1, <1>6, <1>9, <2>1
<1>13. ASSUME NEW k \in 0 .. P - 1, f[k] = A[k] PROVE f[k + 1] = A[k + 1]
  <2>1. k + 1 \in 0..P /\ k + 1 # 0 /\ (k + 1) - 1 = k
    BY <1>1, <1>6
  <2>2. f[k + 1] = IF Stop(f[k]) THEN f[k] ELSE f[k] - 1
    BY <1>11, <2>1
  <2> HIDE DEF A
  <2>3. A[k + 1] = IF Stop(A[k]) THEN A[k] ELSE A[k] - 1
    BY <1>9, <2>1
  <2> QED BY <1>13, <2>2, <2>3
<1>14. f[P] = A[P]
  <2>1. P \in Nat
    BY <1>1, <1>6
  <2> HIDE DEF A
  <2> QED BY <1>12, <1>13, <2>1, SameWay
<1>15. A[P] = q
  BY <1>1, <1>4, <1>6 DEF At
<1>16. Strrchr(m, s, c) = IF q < s THEN Null ELSE q
  BY <1>5, <1>14, <1>15
<1> DEFINE S == {p \in s .. s + Len(x) : m[p] = c}
<1>17. S = T
  BY <1>1 DEF T
<1>18. CASE q < s
  <2>1. S = {}
    BY <1>1, <1>3, <1>4, <1>17, <1>18 DEF T
  <2> HIDE DEF S
  <2>2. LastOf(S) = Null
    BY <2>1, NoneOf
  <2> QED BY <1>16, <1>18, <2>2 DEF S, StrrchrRight
<1>19. CASE q >= s
  <2>1. q \in S
    BY <1>3, <1>17, <1>19
  <2>2. \A p \in S : p \in Int /\ q >= p
    BY <1>1, <1>3, <1>4, <1>17 DEF T
  <2> HIDE DEF S
  <2>3. LastOf(S) = q
    BY <2>1, <2>2, LastOfIs
  <2> QED BY <1>1, <1>4, <1>16, <1>19, <2>3 DEF S, StrrchrRight
<1> QED BY <1>1, <1>4, <1>18, <1>19
-----------------------------------------------------------------------------
(* strnchr. *)
LEMMA SlashesMore ==
  ASSUME NEW m, NEW s \in Nat, NEW p \in Nat, s <= p
  PROVE  /\ IsFiniteSet(Slashes(m, s, p)) /\ Cardinality(Slashes(m, s, p)) \in Nat
         /\ Slashes(m, s, s) = {} /\ Cardinality(Slashes(m, s, s)) = 0
         /\ Cardinality(Slashes(m, s, p + 1)) = IF m[p] = Slash THEN Cardinality(Slashes(m, s, p)) + 1
                                                ELSE Cardinality(Slashes(m, s, p))
<1> DEFINE S == Slashes(m, s, p)
<1>1. IsFiniteSet(S)
  <2>1. IsFiniteSet(s .. p - 1) /\ S \subseteq s .. p - 1
    BY FS_Interval DEF Slashes
  <2> QED BY <2>1, FS_Subset
<1>2. Cardinality(S) \in Nat
  BY <1>1, FS_CardinalityType
<1>3. Slashes(m, s, s) = {}
  BY DEF Slashes
<1>4. Slashes(m, s, p + 1) = IF m[p] = Slash THEN S \cup {p} ELSE S
  BY DEF Slashes
<1>5. p \notin S
  BY DEF Slashes
<1> HIDE DEF S
<1>6. Cardinality(S \cup {p}) = Cardinality(S) + 1
  BY <1>1, <1>5, FS_AddElement
<1>7. Cardinality(Slashes(m, s, s)) = 0
  BY <1>3, FS_EmptySet
<1> QED BY <1>1, <1>2, <1>3, <1>4, <1>6, <1>7 DEF S

LEMMA StrnchrHolds ==
  ASSUME NEW m, NEW N, NEW s, NEW x, NEW e, StringAt(m, N, s, x, e), NEW n \in Nat
  PROVE  Strnchr(m, s, n) = BehindSlash(m, s, e, n)
<1>1. /\ N \in Nat \ {0} /\ DOMAIN m = 0 .. N - 1 /\ s \in Nat /\ e \in Nat /\ s <= e /\ e <= N - 1
      /\ m[e] = End /\ \A p \in s .. e - 1 : m[p] # End
  BY DEF StringAt, Memory
<1> DEFINE K(p) == Cardinality(Slashes(m, s, p))
<1>2. K(s) = 0
  BY <1>1, SlashesMore
<1>3. ASSUME NEW p \in s..e
      PROVE  /\ p \in Nat /\ K(p) \in Nat
             /\ K(p + 1) = IF m[p] = Slash THEN K(p) + 1 ELSE K(p)
             /\ K(p) = 0 <=> Slashes(m, s, p) = {}
  <2>1. p \in Nat /\ s <= p
    BY <1>1
  <2>2. /\ IsFiniteSet(Slashes(m, s, p)) /\ K(p) \in Nat
        /\ K(p + 1) = IF m[p] = Slash THEN K(p) + 1 ELSE K(p)
    BY <1>1, <2>1, SlashesMore
  <2>3. K(p) = 0 <=> Slashes(m, s, p) = {}
    BY <2>2, FS_EmptySet
  <2> QED BY <2>1, <2>2, <2>3
<1>4. Slashes(m, s, e) = {} => \A p \in s..e : Slashes(m, s, p) = {}
  BY <1>1 DEF Slashes
<1> HIDE DEF K
<1>5. ASSUME NEW q \in s..e, K(q) >= n \/ q = e, \A p \in s .. q - 1 : K(p) < n
      PROVE  Strnchr(m, s, n) = IF K(q) = 0 THEN Null ELSE q
  <2> DEFINE C == [p \in s..q |-> K(p)]
  <2>0. q \in Nat /\ s <= q /\ q <= e
    BY <1>1
  <2>1. /\ C \in [s..q -> Nat] /\ C[s] = 0 /\ C[q] = K(q)
    <3>1. s \in s..q /\ q \in s..q /\ \A p \in s..q : p \in s..e
      BY <1>1, <2>0
    <3> QED BY <1>2, <1>3, <3>1
  <2>2. ASSUME NEW p \in s .. q - 1
        PROVE  /\ m[p] # End /\ C[p] < n
               /\ C[p + 1] = IF m[p] = Slash THEN C[p] + 1 ELSE C[p]
    <3>1. p \in s..e /\ p \in s .. e - 1 /\ p \in s..q /\ p + 1 \in s..q
      BY <1>1, <2>0
    <3>2. C[p] = K(p) /\ C[p + 1] = K(p + 1)
      BY <3>1
    <3>3. m[p] # End /\ K(p) < n
      BY <1>1, <1>5, <3>1
    <3>4. K(p + 1) = IF m[p] = Slash THEN K(p) + 1 ELSE K(p)
      BY <1>3, <3>1
    <3> QED BY <3>2, <3>3, <3>4
  <2>3. C[q] >= n \/ m[q] = End
    BY <1>1, <1>5, <2>1
  <2>4. N - 1 \in Nat /\ q \in s .. (N - 1) + 1
    BY <1>1, <2>0
  <2> HIDE DEF C
  <2>5. CountsFrom(m, N - 1, s, n, q, C)
    BY <1>1, <2>1, <2>2, <2>3, <2>4 DEF CountsFrom
  <2>6. Strnchr(m, s, n) = IF C[q] = 0 THEN Null ELSE q
    BY <2>5, StrnchrFrom
  <2> QED BY <2>1, <2>6
<1>6. CASE n = 0
  <2>1. s \in s..e /\ K(s) >= n /\ (\A p \in s .. s - 1 : K(p) < n)
    BY <1>1, <1>2, <1>6
  <2>2. Strnchr(m, s, n) = Null
    BY <1>2, <1>5, <2>1
  <2> QED BY <1>6, <2>2 DEF BehindSlash
<1>7. CASE n # 0
  <2> DEFINE T == {p \in Nat : p = e \/ K(p) = n}
  <2>1. PICK q \in s..e : q \in T /\ \A p \in s .. q - 1 : p \notin T
    <3>1. e \in T
      BY <1>1
    <3> HIDE DEF T
    <3> QED BY <1>1, <3>1, FirstPlace
  <2>2. (q = e \/ K(q) = n) /\ \A p \in s .. q - 1 : K(p) # n
    BY <1>1, <2>1
  <2>3. \A p \in s .. q - 1 : K(p) < n
    <3> DEFINE J == {j \in Nat : s + j <= q - 1 => K(s + j) < n}
    <3>1. 0 \in J
      BY <1>1, <1>2, <1>7
    <3>2. ASSUME NEW j \in Nat, j \in J PROVE j + 1 \in J
      <4> SUFFICES ASSUME s + (j + 1) <= q - 1 PROVE K(s + (j + 1)) < n
        OBVIOUS
      <4>1. /\ s + j \in s..e /\ s + (j + 1) \in s .. q - 1 /\ s + (j + 1) \in s..e
            /\ s + (j + 1) = (s + j) + 1 /\ s + j <= q - 1
        BY <1>1
      <4>2. K(s + j) < n /\ K(s + (j + 1)) # n /\ K(s + j) \in Nat /\ K(s + (j + 1)) \in Nat
        BY <1>3, <2>2, <3>2, <4>1
      <4>3. K(s + (j + 1)) <= K(s + j) + 1
        BY <1>3, <4>1, <4>2
      <4> QED BY <4>2, <4>3
    <3> HIDE DEF J
    <3>3. Nat \subseteq J
      BY <3>1, <3>2, Induct
    <3>4. ASSUME NEW p \in s .. q - 1 PROVE K(p) < n
      <4>1. p - s \in Nat /\ s + (p - s) = p /\ p <= q - 1
        BY <1>1
      <4> QED BY <3>3, <4>1 DEF J
    <3> QED BY <3>4
  <2>4. Strnchr(m, s, n) = IF K(q) = 0 THEN Null ELSE q
    <3>1. K(q) >= n \/ q = e
      BY <2>2
    <3> QED BY <1>5, <2>3, <3>1
  <2>5. K(q) = 0 <=> Slashes(m, s, e) = {}
    BY <1>1, <1>3, <1>4, <1>7, <2>2
  <2> DEFINE S == {p \in s..e : Cardinality(Slashes(m, s, p)) = n} \cup {e}
  <2>6. q \in S /\ \A p \in S : p \in Int /\ q <= p
    BY <1>1, <2>2 DEF K
  <2> HIDE DEF S
  <2>7. FirstOf(S) = q
    BY <2>6, FirstOfIs
  <2> QED BY <1>7, <2>4, <2>5, <2>7 DEF S, BehindSlash
<1> QED BY <1>6, <1>7

-----------------------------------------------------------------------------
(* The functions that copy: n bytes from src on to dest on.                 *)
Copied(m, N, dest, src, n) ==
  [a \in 0 .. N - 1 |-> IF a \in dest .. dest + n - 1 THEN m[a - dest + src] ELSE m[a]]
Copying(m, N, dest, src, n) ==
  /\ N \in Nat /\ DOMAIN m = 0 .. N - 1 /\ m = [a \in 0 .. N - 1 |-> m[a]]
  /\ dest \in Nat /\ src \in Nat /\ n \in Nat
  /\ dest + n <= N /\ src + n <= N
Upward(dest, src, n) == dest <= src \/ src + n <= dest

LEMMA CopiedMore ==
  ASSUME NEW m, NEW N, NEW dest, NEW src, NEW n, Copying(m, N, dest, src, n),
         Upward(dest, src, n), NEW j \in Nat, NEW u \in Nat, j + u <= n
  PROVE  CopyOne(Copied(m, N, dest, src, j), dest + j, src + j, u) = Copied(m, N, dest, src, j + u)
<1>0. /\ N \in Nat /\ dest \in Nat /\ src \in Nat /\ n \in Nat /\ dest + n <= N /\ src + n <= N
      /\ dest <= src \/ src + n <= dest
  BY DEF Copying, Upward
<1>1. PICK w : w = Copied(m, N, dest, src, j)
  OBVIOUS
<1>2. /\ DOMAIN w = 0 .. N - 1
      /\ \A a \in 0 .. N - 1 : w[a] = IF a \in dest .. dest + j - 1 THEN m[a - dest + src] ELSE m[a]
  BY <1>1 DEF Copied
<1>3. PICK d, s : d = dest + j /\ s = src + j
  OBVIOUS
<1>4. CopyOne(w, d, s, u) = [a \in 0 .. N - 1 |-> IF a \in d .. d + u - 1 THEN w[a - d + s] ELSE w[a]]
  BY <1>2 DEF CopyOne
<1>5. ASSUME NEW a \in 0 .. N - 1
      PROVE  (IF a \in d .. d + u - 1 THEN w[a - d + s] ELSE w[a])
               = IF a \in dest .. dest + (j + u) - 1 THEN m[a - dest + src] ELSE m[a]
  <2>1. CASE a \in d .. d + u - 1
    <3>0. a \in Int /\ d \in Int /\ s \in Int /\ d <= a /\ a <= d + u - 1
      BY <1>0, <1>3, <2>1
    <3>1. PICK b \in Int : b = a - dest + src
      BY <1>0, <3>0
    <3>2. b = a - d + s /\ b \in 0 .. N - 1 /\ b \notin dest .. dest + j - 1
      <4>1. b = a - d + s
        BY <1>0, <1>3, <3>0, <3>1
      <4>2. src + j <= b /\ b < src + j + u
        BY <1>0, <1>3, <3>0, <3>1
      <4>3. 0 <= b /\ b <= N - 1
        BY <1>0, <4>2
      <4>4. ~(dest <= b /\ b <= dest + j - 1)
        BY <1>0, <4>2
      <4> QED BY <4>1, <4>3, <4>4
    <3>3. w[b] = m[b]
      BY <1>2, <3>2
    <3>4. a \in dest .. dest + (j + u) - 1
      BY <1>0, <1>3, <3>0
    <3> QED BY <2>1, <3>1, <3>2, <3>3, <3>4
  <2>2. CASE a \notin d .. d + u - 1
    <3>1. a \in dest .. dest + (j + u) - 1 <=> a \in dest .. dest + j - 1
      <4>1. a \in Int /\ ~(dest + j <= a /\ a <= dest + j + u - 1)
        BY <1>0, <1>3, <2>2
      <4> QED BY <1>0, <4>1
    <3> QED BY <1>2, <2>2, <3>1
  <2> QED BY <2>1, <2>2
<1>6. CopyOne(w, d, s, u) = Copied(m, N, dest, src, j + u)
  BY <1>4, <1>5 DEF Copied
<1> QED BY <1>1, <1>3, <1>6

LEMMA CopiedNone ==
  ASSUME NEW m, NEW N, NEW dest, NEW src, NEW n, Copying(m, N, dest, src, n)
  PROVE  Copied(m, N, dest, src, 0) = m
<1> USE DEF Copying
<1>1. \A a \in 0 .. N - 1 : a \notin dest .. dest + 0 - 1
  OBVIOUS
<1>2. Copied(m, N, dest, src, 0) = [a \in 0 .. N - 1 |-> m[a]]
  BY <1>1 DEF Copied
<1> QED BY <1>2

LEMMA Times ==
  ASSUME NEW units \in Nat, NEW unit \in Nat, NEW j \in Nat, j + 1 <= units
  PROVE  j * unit \in Nat /\ (j + 1) * unit = j * unit + unit /\ j * unit + unit <= units * unit
<1>1. (j + 1) * unit = j * unit + unit /\ j * unit \in Nat
  OBVIOUS
<1>2. PICK r \in Nat : units = (j + 1) + r
  <2>1. units - (j + 1) \in Nat /\ units = (j + 1) + (units - (j + 1))
    OBVIOUS
  <2> QED BY <2>1
<1>3. units * unit = (j + 1) * unit + r * unit /\ r * unit \in Nat
  BY <1>2
<1> QED BY <1>1, <1>3

LEMMA CopyUpIs ==
  ASSUME NEW m, NEW N, NEW dest, NEW src, NEW units \in Nat, NEW unit \in Nat \ {0}, NEW n,
         n = units * unit, Copying(m, N, dest, src, n), Upward(dest, src, n)
  PROVE  CopyUp(m, dest, src, units, unit) = Copied(m, N, dest, src, n)
<1> DEFINE Way(f) == f = [k \in 0..units |->
                            IF k = 0 THEN m
                            ELSE CopyOne(f[k - 1], dest + (k - 1) * unit, src + (k - 1) * unit, unit)]
           f == CHOOSE g : Way(g)
           At(k) == Copied(m, N, dest, src, k * unit)
           A == [k \in 0..units |-> At(k)]
<1>1. CopyUp(m, dest, src, units, unit) = f[units]
  BY Zenon DEF CopyUp
<1>2. A[0] = m
  <2>1. 0 * unit = 0
    OBVIOUS
  <2> QED BY <2>1, CopiedNone
<1>3. ASSUME NEW j \in 0 .. units - 1
      PROVE  A[j + 1] = CopyOne(A[j], dest + j * unit, src + j * unit, unit)
  <2>1. j * unit \in Nat /\ (j + 1) * unit = j * unit + unit /\ j * unit + unit <= n
    BY Times
  <2>2. PICK i \in Nat : i = j * unit
    BY <2>1
  <2>3. i + unit <= n
    BY <2>1, <2>2
  <2>4. CopyOne(Copied(m, N, dest, src, i), dest + i, src + i, unit) = Copied(m, N, dest, src, i + unit)
    BY <2>3, CopiedMore
  <2>5. A[j] = Copied(m, N, dest, src, i) /\ A[j + 1] = Copied(m, N, dest, src, i + unit)
    <3>1. j \in 0..units /\ j + 1 \in 0..units /\ (j + 1) * unit = i + unit
      BY <2>1, <2>2
    <3> QED BY <2>2, <3>1
  <2> HIDE DEF A
  <2> QED BY <2>2, <2>4, <2>5
<1>4. Way(A)
  <2> DEFINE B == [k \in 0..units |->
                     IF k = 0 THEN m
                     ELSE CopyOne(A[k - 1], dest + (k - 1) * unit, src + (k - 1) * unit, unit)]
  <2>1. ASSUME NEW k \in 0..units PROVE A[k] = B[k]
    <3>1. CASE k = 0
      BY <1>2, <3>1
    <3>2. CASE k # 0
      <4>1. PICK j \in 0 .. units - 1 : j = k - 1 /\ k = j + 1
        BY <3>2
      <4>2. B[k] = CopyOne(A[j], dest + j * unit, src + j * unit, unit)
        BY <3>2, <4>1
      <4> HIDE DEF A, B
      <4> QED BY <1>3, <4>1, <4>2
    <3> QED BY <3>1, <3>2
  <2>2. A = [k \in 0..units |-> A[k]] /\ B = [k \in 0..units |-> B[k]]
    OBVIOUS
  <2>3. A = B
    <3> HIDE DEF A, B
    <3> QED BY <2>1, <2>2
  <2> HIDE DEF A
  <2> QED BY <2>3
<1>5. Way(f)
  <2> HIDE DEF A
  <2> QED BY <1>4
<1> HIDE DEF f
<1>6. f[0] = A[0]
  <2>1. f[0] = m
    BY <1>5
  <2> QED BY <1>2, <2>1
<1>7. ASSUME NEW j \in 0 .. units - 1, f[j] = A[j] PROVE f[j + 1] = A[j + 1]
  <2>1. j + 1 \in 0..units /\ j + 1 # 0 /\ (j + 1) - 1 = j
    OBVIOUS
  <2>2. f[j + 1] = CopyOne(f[j], dest + j * unit, src + j * unit, unit)
    BY <1>5, <2>1
  <2> HIDE DEF A
  <2> QED BY <1>3, <1>7, <2>2
<1>8. f[units] = A[units]
  <2> HIDE DEF A
  <2> QED BY <1>6, <1>7, SameWay
<1> QED BY <1>1, <1>8

(* From the last byte down, for a destination behind the source.            *)
LEMMA CopyDownIs ==
  ASSUME NEW m, NEW N, NEW dest, NEW src, NEW n, Copying(m, N, dest, src, n), src < dest
  PROVE  CopyDown(m, dest, src, n) = Copied(m, N, dest, src, n)
<1>0. N \in Nat /\ DOMAIN m = 0 .. N - 1 /\ m = [a \in 0 .. N - 1 |-> m[a]]
      /\ dest \in Nat /\ src \in Nat /\ n \in Nat /\ dest + n <= N /\ src + n <= N
  BY DEF Copying
<1> DEFINE Way(f) == f = [k \in 0..n |->
                            IF k = 0 THEN m
                            ELSE CopyOne(f[k - 1], dest + n - k, src + n - k, 1)]
           f == CHOOSE g : Way(g)
           At(k) == [a \in 0 .. N - 1 |->
                       IF a \in dest + n - k .. dest + n - 1 THEN m[a - dest + src] ELSE m[a]]
           A == [k \in 0..n |-> At(k)]
<1>1. CopyDown(m, dest, src, n) = f[n]
  BY Zenon DEF CopyDown
<1>2. At(0) = m
  <2>1. \A a \in 0 .. N - 1 : a \notin dest + n - 0 .. dest + n - 1
    BY <1>0
  <2>2. At(0) = [a \in 0 .. N - 1 |-> m[a]]
    BY <2>1
  <2> QED BY <1>0, <2>2
<1>3. ASSUME NEW k \in 1..n PROVE At(k) = CopyOne(At(k - 1), dest + n - k, src + n - k, 1)
  <2>1. PICK j : j = k - 1
    OBVIOUS
  <2>2. PICK w : w = At(j)
    OBVIOUS
  <2>3. /\ DOMAIN w = 0 .. N - 1
        /\ \A a \in 0 .. N - 1 : w[a] = IF a \in dest + n - j .. dest + n - 1 THEN m[a - dest + src]
                                        ELSE m[a]
    BY <2>2
  <2>4. PICK d, s : d = dest + n - k /\ s = src + n - k
    OBVIOUS
  <2>5. CopyOne(w, d, s, 1) = [a \in 0 .. N - 1 |-> IF a \in d .. d + 1 - 1 THEN w[a - d + s] ELSE w[a]]
    BY <2>3 DEF CopyOne
  <2>6. ASSUME NEW a \in 0 .. N - 1
        PROVE  (IF a \in d .. d + 1 - 1 THEN w[a - d + s] ELSE w[a])
                 = IF a \in dest + n - k .. dest + n - 1 THEN m[a - dest + src] ELSE m[a]
    <3>1. CASE a \in d .. d + 1 - 1
      <4>0. a \in Int /\ a = dest + n - k
        BY <1>0, <2>4, <3>1, SMTT(30)
      <4>1. PICK b \in Int : b = a - dest + src
        BY <1>0, <4>0
      <4>2. b = a - d + s /\ b \in 0 .. N - 1 /\ b \notin dest + n - j .. dest + n - 1
        <5>1. b = src + n - k /\ b < a
          BY <1>0, <4>0, <4>1
        <5>2. b = a - d + s
          BY <1>0, <2>4, <4>0, <4>1, SMTT(30)
        <5>3. 0 <= b /\ b <= N - 1
          BY <1>0, <5>1
        <5>4. ~(dest + n - j <= b)
          BY <1>0, <2>1, <4>0, <5>1
        <5> QED BY <5>2, <5>3, <5>4
      <4>3. w[b] = m[b]
        BY <2>3, <4>2
      <4>4. a \in dest + n - k .. dest + n - 1
        BY <1>0, <2>4, <3>1
      <4> QED BY <3>1, <4>1, <4>2, <4>3, <4>4
    <3>2. CASE a \notin d .. d + 1 - 1
      <4>1. a \in dest + n - k .. dest + n - 1 <=> a \in dest + n - j .. dest + n - 1
        BY <1>0, <2>1, <2>4, <3>2, SMTT(30)
      <4> QED BY <2>3, <3>2, <4>1
    <3> QED BY <3>1, <3>2
  <2>7. CopyOne(w, d, s, 1) = At(k)
    BY <2>5, <2>6
  <2> HIDE DEF At
  <2> QED BY <2>1, <2>2, <2>4, <2>7
<1>4. At(n) = Copied(m, N, dest, src, n)
  <2>1. dest + n - n = dest
    BY <1>0
  <2> QED BY <2>1 DEF Copied
<1> HIDE DEF At
<1>5. Way(A)
  <2>1. ASSUME NEW k \in 0..n
        PROVE  A[k] = IF k = 0 THEN m ELSE CopyOne(A[k - 1], dest + n - k, src + n - k, 1)
    <3>1. CASE k = 0
      BY <1>0, <1>2, <3>1
    <3>2. CASE k # 0
      <4>1. PICK j \in 0..n : j = k - 1 /\ k \in 1..n
        BY <1>0, <3>2
      <4>2. A[k] = At(k) /\ A[j] = At(j)
        OBVIOUS
      <4> HIDE DEF A
      <4> QED BY <1>3, <3>2, <4>1, <4>2
    <3> QED BY <3>1, <3>2
  <2> QED BY <2>1
<1>6. Way(f)
  <2> HIDE DEF A
  <2> QED BY <1>5
<1> HIDE DEF f
<1>7. f[0] = A[0]
  <2>1. f[0] = m
    BY <1>0, <1>6
  <2> QED BY <1>0, <1>2, <2>1
<1>8. ASSUME NEW j \in 0 .. n - 1, f[j] = A[j] PROVE f[j + 1] = A[j + 1]
  <2>1. PICK k \in 1..n : k = j + 1 /\ k - 1 = j /\ k # 0 /\ j \in 0..n
    BY <1>0
  <2>2. f[k] = CopyOne(f[k - 1], dest + n - k, src + n - k, 1)
    BY <1>6, <2>1
  <2>3. A[k] = At(k) /\ A[j] = At(j)
    BY <2>1
  <2> HIDE DEF A
  <2>4. f[k] = A[k]
    BY <1>3, <1>8, <2>1, <2>2, <2>3
  <2> QED BY <2>1, <2>4
<1>9. f[n] = A[n]
  <2> HIDE DEF A
  <2> QED BY <1>0, <1>7, <1>8, SameWay
<1> QED BY <1>0, <1>1, <1>4, <1>9
-----------------------------------------------------------------------------
LEMMA WordsIn ==
  ASSUME NEW n \in Nat
  PROVE  n \div WordBytes \in Nat /\ (n \div WordBytes) * WordBytes \in 0..n
<1>1. WordBytes \in Nat \ {0}
  BY WordAssumption
<1> QED BY <1>1

KeptIn(m, m2, a, n) == \A b \in DOMAIN m \ (a .. a + n - 1) : m2[b] = m[b]
CopyRight(m, m2, a, b, n) == KeptIn(m, m2, a, n) /\ Area(m2, a, n) = Area(m, b, n)

LEMMA CopiedRight ==
  ASSUME NEW m, NEW N, NEW a, NEW b, NEW n, Copying(m, N, a, b, n)
  PROVE  CopyRight(m, Copied(m, N, a, b, n), a, b, n)
<1>0. /\ N \in Nat /\ DOMAIN m = 0 .. N - 1 /\ a \in Nat /\ b \in Nat /\ n \in Nat /\ a + n <= N
  BY DEF Copying
<1>1. PICK w : w = Copied(m, N, a, b, n)
  OBVIOUS
<1>2. \A p \in 0 .. N - 1 : w[p] = IF p \in a .. a + n - 1 THEN m[p - a + b] ELSE m[p]
  BY <1>1 DEF Copied
<1>3. KeptIn(m, w, a, n)
  BY <1>0, <1>2 DEF KeptIn
<1>4. ASSUME NEW k \in 1..n PROVE w[a + k - 1] = m[b + k - 1]
  <2>1. PICK p \in 0 .. N - 1 : p = a + k - 1 /\ p \in a .. a + n - 1 /\ p - a + b = b + k - 1
    <3>1. /\ a + k - 1 \in 0 .. N - 1 /\ a + k - 1 \in a .. a + n - 1
          /\ (a + k - 1) - a + b = b + k - 1
      BY <1>0
    <3> QED BY <3>1
  <2> QED BY <1>2, <2>1
<1>5. Area(w, a, n) = Area(m, b, n)
  BY <1>4 DEF Area
<1> QED BY <1>1, <1>3, <1>5 DEF CopyRight

LEMMA CopyByte ==
  ASSUME NEW m, NEW N, NEW dest, NEW src, NEW n, Copying(m, N, dest, src, n), Upward(dest, src, n)
  PROVE  CopyUp(m, dest, src, n, 1) = Copied(m, N, dest, src, n)
<1>1. n \in Nat /\ n = n * 1 /\ 1 \in Nat \ {0}
  BY DEF Copying
<1> QED BY <1>1, CopyUpIs

LEMMA BcopyIs ==
  ASSUME NEW m, NEW N, NEW dest, NEW src, NEW n, Copying(m, N, dest, src, n), Upward(dest, src, n)
  PROVE  CopyRight(m, Bcopy(m, src, dest, n), dest, src, n)
<1> QED BY CopyByte, CopiedRight DEF Bcopy

LEMMA MemmoveIs ==
  ASSUME NEW m, NEW N, NEW dest, NEW src, NEW n, Copying(m, N, dest, src, n)
  PROVE  CopyRight(m, Memmove(m, dest, src, n), dest, src, n)
<1>1. CASE dest <= src
  <2>1. Upward(dest, src, n)
    BY <1>1 DEF Upward
  <2>2. Memmove(m, dest, src, n) = CopyUp(m, dest, src, n, 1)
    BY <1>1 DEF Memmove
  <2> QED BY <2>1, <2>2, CopyByte, CopiedRight
<1>2. CASE ~(dest <= src)
  <2>1. src < dest
    BY <1>2 DEF Copying
  <2>2. Memmove(m, dest, src, n) = CopyDown(m, dest, src, n)
    BY <1>2 DEF Memmove
  <2> QED BY <2>1, <2>2, CopyDownIs, CopiedRight
<1> QED BY <1>1, <1>2

(* Some words first and the bytes that are left then. *)
LEMMA MemcpyIs ==
  ASSUME NEW m, NEW N, NEW dest, NEW src, NEW n, Copying(m, N, dest, src, n),
         dest + n <= src \/ src + n <= dest
  PROVE  CopyRight(m, Memcpy(m, dest, src, n), dest, src, n)
<1>0. /\ N \in Nat /\ DOMAIN m = 0 .. N - 1 /\ m = [a \in 0 .. N - 1 |-> m[a]]
      /\ dest \in Nat /\ src \in Nat /\ n \in Nat /\ dest + n <= N /\ src + n <= N
  BY DEF Copying
<1>1. PICK words \in Nat :
        words = IF dest % WordBytes = 0 /\ src % WordBytes = 0 THEN n \div WordBytes ELSE 0
  BY <1>0, WordsIn
<1>2. PICK d \in 0..n : d = words * WordBytes
  <2>1. CASE words = 0
    <3>1. 0 * WordBytes = 0 /\ 0 \in 0..n
      BY <1>0, WordAssumption
    <3> QED BY <2>1, <3>1
  <2>2. CASE words = n \div WordBytes
    BY <1>0, <2>2, WordsIn
  <2> QED BY <1>1, <2>1, <2>2
<1>3. Memcpy(m, dest, src, n) = CopyUp(CopyUp(m, dest, src, words, WordBytes), dest + d, src + d, n - d, 1)
  BY <1>1, <1>2 DEF Memcpy
<1>4. Copying(m, N, dest, src, d) /\ Upward(dest, src, d)
  BY <1>0 DEF Copying, Upward
<1>5. PICK w : w = Copied(m, N, dest, src, d)
  OBVIOUS
<1>6. CopyUp(m, dest, src, words, WordBytes) = w
  BY <1>2, <1>4, <1>5, CopyUpIs, WordAssumption
<1>7. /\ w = [p \in 0 .. N - 1 |-> w[p]] /\ DOMAIN w = 0 .. N - 1
      /\ \A p \in 0 .. N - 1 : w[p] = IF p \in dest .. dest + d - 1 THEN m[p - dest + src] ELSE m[p]
  BY <1>5 DEF Copied
<1>8. PICK dest2, src2, r : dest2 = dest + d /\ src2 = src + d /\ r = n - d
  OBVIOUS
<1>9. /\ N \in Nat /\ dest \in Nat /\ src \in Nat /\ n \in Nat /\ dest + n <= N /\ src + n <= N
       /\ dest2 = dest + d /\ src2 = src + d /\ r = n - d
  BY <1>0, <1>8
<1>10. d \in Int /\ 0 <= d /\ d <= n
  BY <1>9
<1>11. /\ dest2 \in Nat /\ src2 \in Nat /\ r \in Nat /\ dest2 + r <= N /\ src2 + r <= N
       /\ dest2 + r = dest + n
  BY <1>10, <1>9
<1>12. dest2 <= src2 \/ src2 + r <= dest2
  BY <1>10, <1>9
<1>13. Copying(w, N, dest2, src2, r) /\ Upward(dest2, src2, r)
  BY <1>0, <1>7, <1>11, <1>12 DEF Copying, Upward
<1>14. Memcpy(m, dest, src, n) = Copied(w, N, dest2, src2, r)
  BY <1>3, <1>6, <1>8, <1>13, CopyByte
<1>15. ASSUME NEW a \in 0 .. N - 1
       PROVE  (IF a \in dest2 .. dest2 + r - 1 THEN w[a - dest2 + src2] ELSE w[a])
                = IF a \in dest .. dest + n - 1 THEN m[a - dest + src] ELSE m[a]
  <2>0. /\ a \in Int /\ dest2 \in Int /\ src2 \in Int /\ r \in Int /\ dest2 + r = dest + n
        /\ d \in Int /\ 0 <= d /\ d <= n /\ 0 <= a /\ a <= N - 1
    BY <1>10, <1>11, <1>9
  <2>1. CASE a \in dest2 .. dest2 + r - 1
    <3>1. dest + d <= a /\ a <= dest + n - 1
      BY <1>9, <2>0, <2>1
    <3>2. PICK b \in Int : b = a - dest + src
      BY <1>9, <2>0
    <3>3. b = a - dest2 + src2
      BY <1>9, <2>0, <3>2
    <3>4. src + d <= b /\ b <= src + n - 1
      BY <1>9, <2>0, <3>1, <3>2
    <3>5. b \in 0 .. N - 1 /\ b \notin dest .. dest + d - 1
      BY <1>9, <3>4
    <3>6. w[b] = m[b]
      BY <1>7, <3>5
    <3>7. a \in dest .. dest + n - 1
      BY <1>9, <2>0, <3>1
    <3> QED BY <2>1, <3>2, <3>3, <3>6, <3>7
  <2>2. CASE a \notin dest2 .. dest2 + r - 1
    <3>1. a \in dest .. dest + n - 1 <=> a \in dest .. dest + d - 1
      BY <1>9, <2>0, <2>2
    <3> QED BY <1>7, <2>2, <3>1
  <2> QED BY <2>1, <2>2
<1>16. Copied(w, N, dest2, src2, r) = Copied(m, N, dest, src, n)
  BY <1>15 DEF Copied
<1> QED BY <1>14, <1>16, CopiedRight

MemsetRight(m, m2, a, c, n) == KeptIn(m, m2, a, n) /\ \A k \in a .. a + n - 1 : m2[k] = c

LEMMA MemsetIs ==
  ASSUME NEW m, NEW N, NEW a, NEW n, AreaAt(m, N, a, n), NEW c
  PROVE  MemsetRight(m, Memset(m, a, c, n), a, c, n)
<1>0. N \in Nat /\ DOMAIN m = 0 .. N - 1 /\ a \in Nat /\ n \in Nat /\ a + n <= N
  BY DEF AreaAt, Memory
<1>1. PICK words \in 0..n :
        words = IF a % WordBytes = 0 THEN (n \div WordBytes) * WordBytes ELSE 0
  BY <1>0, WordsIn
<1>2. PICK w : w = Filled(m, a, c, words)
  OBVIOUS
<1>3. PICK d, r : d = a + words /\ r = n - words
  OBVIOUS
<1>4. Memset(m, a, c, n) = Filled(w, d, c, r)
  BY <1>1, <1>2, <1>3 DEF Memset
<1>5. /\ DOMAIN w = 0 .. N - 1
      /\ \A p \in 0 .. N - 1 : w[p] = IF p \in a .. a + words - 1 THEN c ELSE m[p]
  BY <1>0, <1>2 DEF Filled
<1>6. PICK v : v = Filled(w, d, c, r)
  OBVIOUS
<1>7. \A p \in 0 .. N - 1 : v[p] = IF p \in d .. d + r - 1 THEN c ELSE w[p]
  BY <1>5, <1>6 DEF Filled
<1>8. \A p \in 0 .. N - 1 : p \in a .. a + n - 1 <=> p \in d .. d + r - 1 \/ p \in a .. a + words - 1
  BY <1>0, <1>3
<1>9. \A p \in 0 .. N - 1 : v[p] = IF p \in a .. a + n - 1 THEN c ELSE m[p]
  BY <1>5, <1>7, <1>8
<1>10. \A p \in a .. a + n - 1 : p \in 0 .. N - 1
  BY <1>0
<1> QED BY <1>0, <1>4, <1>6, <1>9, <1>10 DEF MemsetRight, KeptIn
-----------------------------------------------------------------------------
(* strncpy copies the characters of src up to n of them, its end too if it  *)
(* comes to it.                                                             *)
Function(w) == w = [a \in DOMAIN w |-> w[a]]

LEMMA OneByte ==
  ASSUME NEW w, NEW d \in DOMAIN w, NEW s \in Int, Function(w), DOMAIN w \subseteq Int
  PROVE  [w EXCEPT ![d] = w[s]] = CopyOne(w, d, s, 1)
<1> USE DEF Function
<1>1. ASSUME NEW a \in DOMAIN w
      PROVE  [w EXCEPT ![d] = w[s]][a] = IF a \in d .. d + 1 - 1 THEN w[a - d + s] ELSE w[a]
  <2>1. a \in d .. d + 1 - 1 <=> a = d
    OBVIOUS
  <2>2. CASE a = d
    <3>1. [w EXCEPT ![d] = w[s]][a] = w[s]
      BY <2>2
    <3> QED BY <2>1, <2>2, <3>1
  <2>3. CASE a # d
    <3>1. [w EXCEPT ![d] = w[s]][a] = w[a]
      BY <2>3
    <3> QED BY <2>1, <2>3, <3>1
  <2> QED BY <2>2, <2>3
<1>2. [w EXCEPT ![d] = w[s]] = [a \in DOMAIN w |-> [w EXCEPT ![d] = w[s]][a]]
  OBVIOUS
<1> QED BY <1>1, <1>2 DEF CopyOne

(* The bytes that strncpy writes, of those that are there and that are      *)
(* wanted.                                                                  *)
CopyingText(m, N, dest, src, y, f, n, q) ==
  /\ StringAt(m, N, src, y, f) /\ n \in Nat /\ q = Least(n, Len(y) + 1)
  /\ Copying(m, N, dest, src, q)
  /\ dest + q <= src \/ src + q <= dest

OneCopied(m, N, dest, src, y, k, w) ==
  /\ [w EXCEPT ![dest + k] = w[src + k]] = Copied(m, N, dest, src, k + 1)
  /\ (w[src + k] # End) = (k + 1 <= Len(y))

LEMMA StrncpyStep ==
  ASSUME NEW m, NEW N, NEW dest, NEW src, NEW y, NEW f, NEW n, NEW q,
         CopyingText(m, N, dest, src, y, f, n, q), NEW k \in 0 .. q - 1,
         NEW w, w = Copied(m, N, dest, src, k)
  PROVE  OneCopied(m, N, dest, src, y, k, w)
<1>1. /\ StringAt(m, N, src, y, f) /\ n \in Nat /\ q = Least(n, Len(y) + 1)
      /\ Copying(m, N, dest, src, q)
      /\ dest + q <= src \/ src + q <= dest
  BY DEF CopyingText
<1>2. Len(y) \in Nat
  BY <1>1 DEF StringAt
<1>3. N \in Nat /\ dest \in Nat /\ src \in Nat /\ q \in Nat /\ dest + q <= N /\ src + q <= N
  BY <1>1 DEF Copying
<1>4. k \in Nat /\ k < q /\ k <= Len(y) /\ k + 1 <= q
  BY <1>1, <1>2, <1>3 DEF Least
<1>5. PICK d, s : d = dest + k /\ s = src + k
  OBVIOUS
<1>6. d \in 0 .. N - 1 /\ s \in 0 .. N - 1 /\ s \notin dest .. dest + k - 1
  <2>1. dest + q <= src \/ src + q <= dest
    BY <1>1
  <2> QED BY <1>3, <1>4, <1>5, <2>1
<1>7. /\ DOMAIN w = 0 .. N - 1 /\ Function(w)
      /\ \A a \in 0 .. N - 1 : w[a] = IF a \in dest .. dest + k - 1 THEN m[a - dest + src] ELSE m[a]
  BY DEF Copied, Function
<1>8. [w EXCEPT ![d] = w[s]] = CopyOne(w, d, s, 1)
  <2>1. DOMAIN w \subseteq Int /\ d \in DOMAIN w /\ s \in Int
    BY <1>3, <1>6, <1>7
  <2> QED BY <1>7, <2>1, OneByte
<1>9. CopyOne(w, d, s, 1) = Copied(m, N, dest, src, k + 1)
  <2>1. Upward(dest, src, q)
    BY <1>1, <1>3 DEF Upward
  <2>2. Copying(m, N, dest, src, q) /\ k \in Nat /\ 1 \in Nat /\ k + 1 <= q
    BY <1>1, <1>4
  <2>3. CopyOne(Copied(m, N, dest, src, k), dest + k, src + k, 1) = Copied(m, N, dest, src, k + 1)
    BY <2>1, <2>2, CopiedMore
  <2> QED BY <1>5, <2>3
<1>10. w[s] = m[s]
  BY <1>6, <1>7
<1>11. m[s] = End <=> k = Len(y)
  BY <1>1, <1>2, <1>4, <1>5, CharAt
<1> QED BY <1>2, <1>4, <1>5, <1>8, <1>9, <1>10, <1>11 DEF OneCopied

LEMMA StrncpyIs ==
  ASSUME NEW m, NEW N, NEW dest, NEW src, NEW y, NEW f, NEW n, NEW q,
         CopyingText(m, N, dest, src, y, f, n, q)
  PROVE  Strncpy(m, dest, src, n) = Copied(m, N, dest, src, q)
<1>1. /\ StringAt(m, N, src, y, f) /\ n \in Nat /\ q = Least(n, Len(y) + 1)
      /\ Copying(m, N, dest, src, q)
  BY DEF CopyingText
<1>2. /\ Len(y) \in Nat /\ N \in Nat \ {0} /\ Cardinality(DOMAIN m) = N /\ Len(y) + 1 <= N
  BY <1>1 DEF StringAt
<1>3. q \in Nat /\ q <= n /\ q <= Len(y) + 1 /\ (q = n \/ q = Len(y) + 1)
  BY <1>1, <1>2 DEF Least
<1> DEFINE P == Cardinality(DOMAIN m) + 1
           begin == [mem |-> m, k |-> 0, go |-> TRUE]
           Stop(x) == x.k = n \/ ~x.go
           Step(x) == [mem |-> [x.mem EXCEPT ![dest + x.k] = x.mem[src + x.k]],
                       k |-> x.k + 1, go |-> x.mem[src + x.k] # End]
           Way(g) == g = [k \in 0..P |->
                            IF k = 0 THEN begin
                            ELSE IF Stop(g[k - 1]) THEN g[k - 1] ELSE Step(g[k - 1])]
           g == CHOOSE h : Way(h)
           State(k) == [mem |-> Copied(m, N, dest, src, k), k |-> k, go |-> k <= Len(y)]
           At(k) == IF k <= q THEN State(k) ELSE State(q)
           A == [k \in 0..P |-> At(k)]
<1>4. Strncpy(m, dest, src, n) = g[P].mem
  BY Zenon DEF Strncpy, Loop
<1>5. P \in Nat /\ q <= P
  BY <1>2, <1>3
<1> HIDE DEF P
<1>6. At(0) = begin
  <2>1. Copied(m, N, dest, src, 0) = m
    BY <1>1, CopiedNone
  <2>2. At(0) = [mem |-> Copied(m, N, dest, src, 0), k |-> 0, go |-> 0 <= Len(y)]
    BY <1>3
  <2>3. (0 <= Len(y)) = TRUE
    BY <1>2
  <2> QED BY <2>1, <2>2, <2>3
<1>7. ASSUME NEW k \in Nat PROVE At(k + 1) = IF Stop(At(k)) THEN At(k) ELSE Step(At(k))
  <2>1. CASE k < q
    <3>1. k \in 0 .. q - 1 /\ k + 1 <= q /\ k <= q /\ k # n /\ k <= Len(y)
      BY <1>1, <1>2, <1>3, <2>1
    <3>2. PICK w : w = Copied(m, N, dest, src, k)
      OBVIOUS
    <3>3. /\ [w EXCEPT ![dest + k] = w[src + k]] = Copied(m, N, dest, src, k + 1)
          /\ (w[src + k] # End) = (k + 1 <= Len(y))
      <4>1. OneCopied(m, N, dest, src, y, k, w)
        BY <3>1, <3>2, StrncpyStep
      <4> QED BY <4>1 DEF OneCopied
    <3>4. At(k) = [mem |-> w, k |-> k, go |-> k <= Len(y)]
      BY <3>1, <3>2
    <3>5. ~Stop(At(k))
      BY <3>1, <3>4
    <3>6. Step(At(k)) = [mem |-> [w EXCEPT ![dest + k] = w[src + k]], k |-> k + 1,
                         go |-> w[src + k] # End]
      BY <3>4
    <3>7. At(k + 1) = [mem |-> Copied(m, N, dest, src, k + 1), k |-> k + 1, go |-> k + 1 <= Len(y)]
      BY <3>1
    <3>8. At(k + 1) = Step(At(k))
      BY <3>3, <3>6, <3>7
    <3> QED BY <3>5, <3>8
  <2>2. CASE k >= q
    <3>1. At(k) = State(q) /\ At(k + 1) = State(q)
      BY <1>3, <2>2
    <3>2. Stop(State(q))
      <4>1. State(q).k = q /\ State(q).go = (q <= Len(y))
        OBVIOUS
      <4>2. q # n => ~(q <= Len(y))
        BY <1>2, <1>3
      <4> HIDE DEF State
      <4> QED BY <4>1, <4>2
    <3> QED BY <3>1, <3>2
  <2> QED BY <1>3, <2>1, <2>2
<1>8. At(P).mem = Copied(m, N, dest, src, q)
  BY <1>3, <1>5
<1> HIDE DEF Stop, Step, At, begin
<1>9. \A k \in 0..P : A[k] = IF k = 0 THEN begin
                             ELSE IF Stop(A[k - 1]) THEN A[k - 1] ELSE Step(A[k - 1])
  <2>1. ASSUME NEW k \in 0..P, k # 0
        PROVE  A[k] = IF Stop(A[k - 1]) THEN A[k - 1] ELSE Step(A[k - 1])
    <3>1. PICK j \in Nat : k = j + 1 /\ j = k - 1 /\ j \in 0..P
      <4>1. k - 1 \in Nat /\ k = (k - 1) + 1 /\ k - 1 \in 0..P
        BY <1>5, <2>1
      <4> QED BY <4>1
    <3>2. A[k] = At(j + 1) /\ A[k - 1] = At(j)
      BY <3>1
    <3> HIDE DEF A
    <3> QED BY <1>7, <3>1, <3>2
  <2>2. A[0] = begin
    BY <1>5, <1>6
  <2> QED BY <2>1, <2>2
<1>10. Way(A)
  <2> DEFINE B == [k \in 0..P |-> IF k = 0 THEN begin
                                  ELSE IF Stop(A[k - 1]) THEN A[k - 1] ELSE Step(A[k - 1])]
  <2>1. A = B
    BY <1>9
  <2> HIDE DEF A
  <2> QED BY <2>1
<1>11. Way(g)
  <2> HIDE DEF A
  <2> QED BY <1>10
<1> HIDE DEF g
<1>12. g[0] = A[0]
  <2>1. g[0] = begin
    BY <1>5, <1>11
  <2> HIDE DEF A
  <2>2. A[0] = begin
    BY <1>5, <1>9
  <2> QED BY <2>1, <2>2
<1>13. ASSUME NEW k \in 0 .. P - 1, g[k] = A[k] PROVE g[k + 1] = A[k + 1]
  <2>1. k + 1 \in 0..P /\ k + 1 # 0 /\ (k + 1) - 1 = k
    BY <1>5
  <2>2. g[k + 1] = IF Stop(g[k]) THEN g[k] ELSE Step(g[k])
    BY <1>11, <2>1
  <2> HIDE DEF A
  <2>3. A[k + 1] = IF Stop(A[k]) THEN A[k] ELSE Step(A[k])
    BY <1>9, <2>1
  <2> QED BY <1>13, <2>2, <2>3
<1>14. g[P] = A[P]
  <2> HIDE DEF A
  <2> QED BY <1>5, <1>12, <1>13, SameWay
<1>15. A[P] = At(P)
  BY <1>5
<1> HIDE DEF A
<1> QED BY <1>4, <1>8, <1>14, <1>15
-----------------------------------------------------------------------------
(* Some characters and a terminator are put behind others: the string made  *)
(* of them all.                                                             *)
Before(m, s, x, d) ==
  /\ x \in Seq(Letter) /\ Len(x) \in Nat /\ s \in Nat /\ d = s + Len(x)
  /\ \A i \in 1..Len(x) : x[i] = m[s + i - 1]
Put(m, m2, N, d, src, n) ==
  /\ Memory(m, N) /\ d \in Nat /\ src \in Nat /\ n \in Nat /\ d + n <= N - 1 /\ src + n <= N
  /\ m2 = [p \in 0 .. N - 1 |-> IF p \in d .. d + n - 1 THEN m[p - d + src]
                                ELSE IF p = d + n THEN End ELSE m[p]]
MakesText(m, m2, s, text) == KeptIn(m, m2, s, Len(text) + 1) /\ Text(m2, s) = text

LEMMA PutMemory ==
  ASSUME NEW m, NEW m2, NEW N, NEW d, NEW src, NEW n, Put(m, m2, N, d, src, n)
  PROVE  /\ Memory(m2, N)
         /\ \A p \in 0 .. N - 1 : m2[p] = IF p \in d .. d + n - 1 THEN m[p - d + src]
                                          ELSE IF p = d + n THEN End ELSE m[p]
<1>1. /\ Memory(m, N) /\ d \in Nat /\ src \in Nat /\ n \in Nat /\ d + n <= N - 1 /\ src + n <= N
  BY DEF Put
<1>2. N \in Nat \ {0} /\ m[N - 1] = End /\ \A p \in 0 .. N - 1 : m[p] \in 0..255
  BY <1>1 DEF Memory
<1>3. /\ \A p \in 0 .. N - 1 : m2[p] = IF p \in d .. d + n - 1 THEN m[p - d + src]
                                       ELSE IF p = d + n THEN End ELSE m[p]
      /\ m2 = [p \in 0 .. N - 1 |-> m2[p]]
  BY DEF Put
<1>4. ASSUME NEW p \in 0 .. N - 1 PROVE m2[p] \in 0..255
  <2>1. CASE p \in d .. d + n - 1
    <3>1. PICK j : j = p - d + src
      OBVIOUS
    <3>2. j \in 0 .. N - 1
      BY <1>1, <1>2, <2>1, <3>1
    <3>3. m2[p] = m[j]
      BY <1>3, <2>1, <3>1
    <3> QED BY <1>2, <3>2, <3>3
  <2>2. CASE p \notin d .. d + n - 1
    <3>1. m2[p] = End \/ m2[p] = m[p]
      BY <1>3, <2>2
    <3>2. End \in 0..255
      BY DEF End
    <3> QED BY <1>2, <3>1, <3>2
  <2> QED BY <2>1, <2>2
<1>5. m2[N - 1] = End
  <2>1. PICK p \in 0 .. N - 1 : p = N - 1
    BY <1>2
  <2>2. p \notin d .. d + n - 1
    BY <1>1, <1>2, <2>1
  <2> QED BY <1>2, <1>3, <2>1, <2>2
<1>6. m2 \in [0 .. N - 1 -> 0..255]
  <2> DEFINE F == [p \in 0 .. N - 1 |-> m2[p]]
  <2>1. F \in [0 .. N - 1 -> 0..255]
    BY <1>4
  <2>2. m2 = F
    BY <1>3
  <2> HIDE DEF F
  <2> QED BY <2>1, <2>2
<1> QED BY <1>2, <1>3, <1>5, <1>6 DEF Memory

LEMMA Behind ==
  ASSUME NEW a \in Int, NEW b \in Int, NEW c \in Int, a <= b + c, b < a
  PROVE  a - b \in 1..c
<1> QED OBVIOUS

LEMMA PutText ==
  ASSUME NEW m, NEW m2, NEW N, NEW d, NEW src, NEW n, Put(m, m2, N, d, src, n),
         NEW s, NEW x, Before(m, s, x, d), NEW y, NEW f, StringAt(m, N, src, y, f), n <= Len(y)
  PROVE  MakesText(m, m2, s, x \o Take(y, n))
<1>1. Memory(m, N) /\ d \in Nat /\ src \in Nat /\ n \in Nat /\ d + n <= N - 1 /\ src + n <= N
  BY DEF Put
<1>2. N \in Nat \ {0} /\ DOMAIN m = 0 .. N - 1
  BY <1>1 DEF Memory
<1>3. /\ Memory(m2, N)
      /\ \A p \in 0 .. N - 1 : m2[p] = IF p \in d .. d + n - 1 THEN m[p - d + src]
                                       ELSE IF p = d + n THEN End ELSE m[p]
  BY PutMemory
<1>4. x \in Seq(Letter) /\ Len(x) \in Nat /\ s \in Nat /\ d = s + Len(x)
  BY DEF Before
<1>5. \A i \in 1..Len(x) : x[i] = m[s + i - 1]
  BY DEF Before
<1>6. /\ y \in Seq(Letter) /\ Len(y) \in Nat /\ \A i \in 1..Len(y) : y[i] = m[src + i - 1]
  BY DEF StringAt
<1>7. PICK z : z = Take(y, n)
  OBVIOUS
<1>8. z \in Seq(Letter) /\ Len(z) = n /\ \A i \in 1..n : z[i] = m[src + i - 1]
  <2>1. Least(n, Len(y)) = n
    BY <1>1, <1>6 DEF Least
  <2>2. /\ Take(y, n) \in Seq(Letter) /\ Len(Take(y, n)) = Least(n, Len(y))
        /\ Take(y, n) = [i \in 1 .. Least(n, Len(y)) |-> y[i]]
    <3>1. y \in Seq(Letter) /\ n \in Nat
      BY <1>1, <1>6
    <3> QED BY <3>1, TakeIs
  <2>3. \A i \in 1..n : z[i] = y[i]
    BY <1>7, <2>1, <2>2
  <2>4. \A i \in 1..n : i \in 1..Len(y)
    BY <1>1, <1>6
  <2> QED BY <1>6, <1>7, <2>1, <2>2, <2>3, <2>4
<1>9. PICK w : w = x \o z
  OBVIOUS
<1>10. PICK l \in Nat : l = Len(x) + n
  BY <1>1, <1>4
<1>11. /\ w \in Seq(Letter) /\ Len(w) = l
       /\ \A i \in 1..l : w[i] = IF i <= Len(x) THEN x[i] ELSE z[i - Len(x)]
  <2>1. x \in Seq(Letter) /\ z \in Seq(Letter) /\ Len(z) = n
    BY <1>4, <1>8
  <2>2. /\ w \in Seq(Letter) /\ Len(w) = Len(x) + Len(z)
        /\ \A i \in 1 .. Len(x) + Len(z) : w[i] = IF i <= Len(x) THEN x[i] ELSE z[i - Len(x)]
    BY <1>9, <2>1, ConcatProperties, Zenon
  <2> QED BY <1>10, <2>1, <2>2
<1>12. ASSUME NEW i \in 1..l PROVE m2[s + i - 1] = w[i]
  <2>1. PICK p \in 0 .. N - 1 : p = s + i - 1
    <3>1. s \in Nat /\ i \in Int /\ 1 <= i /\ i <= l /\ l \in Nat /\ N \in Nat /\ s + l <= N - 1
      BY <1>1, <1>2, <1>4, <1>10
    <3>2. s + i - 1 \in 0 .. N - 1
      BY <3>1
    <3> QED BY <3>2
  <2>2. CASE i <= Len(x)
    <3>1. p \notin d .. d + n - 1 /\ p # d + n /\ i \in 1..Len(x)
      BY <1>1, <1>4, <1>10, <2>1, <2>2
    <3>2. m2[p] = m[p]
      BY <1>3, <3>1
    <3> QED BY <1>11, <1>5, <2>1, <2>2, <3>1, <3>2
  <2>3. CASE ~(i <= Len(x))
    <3>1. PICK j \in 1..n : j = i - Len(x)
      <4>1. PICK j \in Int : j = Len(x)
        BY <1>4
      <4>2. n \in Int /\ l = j + n /\ i \in Int /\ i <= l
        BY <1>1, <1>10, <4>1
      <4>3. j < i
        BY <2>3, <4>1
      <4>4. i - j \in 1..n
        BY <4>2, <4>3, Behind
      <4> QED BY <4>1, <4>4
    <3>2. p \in d .. d + n - 1 /\ p - d + src = src + j - 1
      <4>1. PICK h \in Int : h = Len(x)
        BY <1>4
      <4>2. d = s + h /\ i = j + h
        BY <1>4, <3>1, <4>1
      <4>3. d \in Int /\ n \in Int /\ src \in Int /\ s \in Int /\ j \in 1..n
        BY <1>1, <1>4
      <4> QED BY <2>1, <4>2, <4>3
    <3>3. m2[p] = m[src + j - 1]
      BY <1>3, <3>2
    <3> QED BY <1>8, <1>11, <2>1, <2>3, <3>1, <3>3
  <2> QED BY <2>2, <2>3
<1>13. m2[s + l] = End /\ s + l <= N - 1
  <2>1. PICK p \in 0 .. N - 1 : p = s + l /\ p = d + n
    <3>1. s + l \in 0 .. N - 1 /\ s + l = d + n
      BY <1>1, <1>2, <1>4, <1>10
    <3> QED BY <3>1
  <2>2. p \notin d .. d + n - 1
    BY <1>1, <2>1
  <2> QED BY <1>1, <1>3, <2>1, <2>2
<1>14. Text(m2, s) = w
  <2>1. HoldsText(m2, s, w)
    BY <1>11, <1>12, <1>13 DEF HoldsText
  <2>2. w \in Seq(0..255 \ {End})
    BY <1>11 DEF Letter
  <2>3. s \in 0 .. N - 1 /\ s + Len(w) <= N - 1
    BY <1>2, <1>4, <1>10, <1>11, <1>13
  <2> QED BY <1>3, <2>1, <2>2, <2>3, HeldText
<1>15. KeptIn(m, m2, s, l + 1)
  <2>1. ASSUME NEW p \in 0 .. N - 1, p \notin s .. s + (l + 1) - 1 PROVE m2[p] = m[p]
    <3>1. p \notin d .. d + n - 1 /\ p # d + n
      BY <1>1, <1>4, <1>10, <2>1
    <3> QED BY <1>3, <3>1
  <2> QED BY <1>2, <2>1 DEF KeptIn
<1> QED BY <1>7, <1>9, <1>11, <1>14, <1>15 DEF MakesText

(* A string that is copied with its end. *)
LEMMA CopiedText ==
  ASSUME NEW m, NEW N, NEW d, NEW src, NEW y, NEW f, StringAt(m, N, src, y, f),
         Copying(m, N, d, src, Len(y) + 1)
  PROVE  Put(m, Copied(m, N, d, src, Len(y) + 1), N, d, src, Len(y))
<1>1. /\ Memory(m, N) /\ N \in Nat /\ Len(y) \in Nat /\ f = src + Len(y) /\ m[f] = End
      /\ src \in Nat
  BY DEF StringAt
<1>2. PICK l \in Nat : l = Len(y)
  BY <1>1
<1>3. d \in Nat /\ d + (l + 1) <= N /\ src + (l + 1) <= N
  BY <1>2 DEF Copying
<1>4. ASSUME NEW p \in 0 .. N - 1
      PROVE  (IF p \in d .. d + (l + 1) - 1 THEN m[p - d + src] ELSE m[p])
               = IF p \in d .. d + l - 1 THEN m[p - d + src] ELSE IF p = d + l THEN End ELSE m[p]
  <2>1. CASE p \in d .. d + l - 1
    BY <1>3, <2>1
  <2>2. CASE p = d + l
    <3>1. p - d + src = f
      BY <1>1, <1>2, <1>3, <2>2
    <3> QED BY <1>1, <1>3, <2>2, <3>1
  <2>3. CASE p \notin d .. d + l - 1 /\ p # d + l
    BY <1>3, <2>3
  <2> QED BY <2>1, <2>2, <2>3
<1>5. Copied(m, N, d, src, l + 1)
        = [p \in 0 .. N - 1 |-> IF p \in d .. d + l - 1 THEN m[p - d + src]
                                ELSE IF p = d + l THEN End ELSE m[p]]
  BY <1>4 DEF Copied
<1>6. d + l <= N - 1 /\ src + l <= N
  BY <1>1, <1>3
<1> QED BY <1>1, <1>2, <1>3, <1>5, <1>6 DEF Put
-----------------------------------------------------------------------------
(* The strings that strcpy, strcat and strncpy make. *)
LEMMA CopyingIn ==
  ASSUME NEW m, NEW N, Memory(m, N), NEW d \in Nat, NEW src \in Nat, NEW n \in Nat,
         d + n <= N, src + n <= N
  PROVE  Copying(m, N, d, src, n)
<1>1. N \in Nat /\ m \in [0 .. N - 1 -> 0..255]
  BY DEF Memory
<1>2. DOMAIN m = 0 .. N - 1 /\ m = [a \in 0 .. N - 1 |-> m[a]]
  BY <1>1
<1> QED BY <1>1, <1>2 DEF Copying

ApartFrom(a, n, b, k) == a + n <= b \/ b + k <= a

LEMMA StrcpyIs ==
  ASSUME NEW m, NEW N, NEW t, NEW y, NEW f, StringAt(m, N, t, y, f), NEW d \in Nat,
         d + (Len(y) + 1) <= N, ApartFrom(d, Len(y) + 1, t, Len(y) + 1),
         NEW s, NEW x, Before(m, s, x, d)
  PROVE  MakesText(m, Strcpy(m, d, t), s, x \o y)
<1>1. /\ Memory(m, N) /\ N \in Nat \ {0} /\ Cardinality(DOMAIN m) = N /\ Len(y) \in Nat
      /\ t \in Nat /\ f = t + Len(y) /\ f <= N - 1 /\ y \in Seq(Letter)
  BY DEF StringAt
<1>2. PICK q \in Nat : q = Len(y) + 1
  BY <1>1
<1>3. PICK n \in Nat : n = Unlimited(m) /\ q <= n
  <2>1. Unlimited(m) = N + 1
    BY <1>1 DEF Unlimited
  <2> QED BY <1>1, <1>2, <2>1
<1>4. Copying(m, N, d, t, q)
  <2>1. d + q <= N /\ t + q <= N
    BY <1>1, <1>2
  <2> QED BY <1>1, <2>1, CopyingIn
<1>5. CopyingText(m, N, d, t, y, f, n, q)
  <2>1. q = Least(n, Len(y) + 1)
    BY <1>1, <1>2, <1>3 DEF Least
  <2>2. d + q <= t \/ t + q <= d
    BY <1>2 DEF ApartFrom
  <2> QED BY <1>4, <2>1, <2>2 DEF CopyingText
<1>6. Strcpy(m, d, t) = Copied(m, N, d, t, q)
  BY <1>3, <1>5, StrncpyIs DEF Strcpy
<1>7. PICK m2 : m2 = Strcpy(m, d, t)
  OBVIOUS
<1>8. Put(m, m2, N, d, t, Len(y))
  BY <1>2, <1>4, <1>6, <1>7, CopiedText
<1>9. Take(y, Len(y)) = y
  BY <1>1, TakeWhole
<1>10. MakesText(m, m2, s, x \o Take(y, Len(y)))
  <2>1. PICK l \in Nat : l = Len(y)
    BY <1>1
  <2>2. Put(m, m2, N, d, t, l) /\ l <= Len(y)
    BY <1>8, <2>1
  <2>3. MakesText(m, m2, s, x \o Take(y, l))
    BY <2>2, PutText
  <2> QED BY <2>1, <2>3
<1> QED BY <1>7, <1>9, <1>10

LEMMA StrcpyHolds ==
  ASSUME NEW m, NEW N, NEW t, NEW y, NEW f, StringAt(m, N, t, y, f), NEW s \in Nat,
         s + (Len(y) + 1) <= N, ApartFrom(s, Len(y) + 1, t, Len(y) + 1)
  PROVE  MakesText(m, Strcpy(m, s, t), s, y)
<1>1. Before(m, s, <<>>, s)
  BY DEF Before
<1>2. MakesText(m, Strcpy(m, s, t), s, <<>> \o y)
  BY <1>1, StrcpyIs
<1>3. y \in Seq(Letter)
  BY DEF StringAt
<1>4. <<>> \o y = y
  BY <1>3
<1> QED BY <1>2, <1>4

LEMMA BeforeEnd ==
  ASSUME NEW m, NEW N, NEW s, NEW x, NEW e, StringAt(m, N, s, x, e)
  PROVE  Before(m, s, x, e) /\ s + Strlen(m, s) = e
<1>1. Memory(m, N) /\ Ends(m, N, s, e) /\ s \in Nat /\ e \in Nat
  BY DEF StringAt
<1>2. Strlen(m, s) = e - s
  BY <1>1, StrlenAt
<1>3. Before(m, s, x, e)
  BY DEF StringAt, Before
<1> QED BY <1>1, <1>2, <1>3

LEMMA StrcatHolds ==
  ASSUME NEW m, NEW N, NEW s, NEW x, NEW e, NEW t, NEW y, NEW f,
         TwoStrings(m, N, s, x, e, t, y, f),
         s + (Len(x) + Len(y) + 1) <= N, ApartFrom(s, Len(x) + Len(y) + 1, t, Len(y) + 1)
  PROVE  MakesText(m, Strcat(m, s, t), s, x \o y)
<1>1. StringAt(m, N, s, x, e) /\ StringAt(m, N, t, y, f)
  BY DEF TwoStrings
<1>2. Before(m, s, x, e) /\ Strcat(m, s, t) = Strcpy(m, e, t)
  BY <1>1, BeforeEnd DEF Strcat
<1>3. s \in Nat /\ t \in Nat /\ e \in Nat /\ e = s + Len(x) /\ Len(x) \in Nat /\ Len(y) \in Nat
      /\ N \in Nat
  BY <1>1 DEF StringAt
<1>4. e + (Len(y) + 1) <= N
  BY <1>3
<1>5. ApartFrom(e, Len(y) + 1, t, Len(y) + 1)
  <2>1. s + (Len(x) + Len(y) + 1) <= t \/ t + (Len(y) + 1) <= s
    BY DEF ApartFrom
  <2> QED BY <1>3, <2>1 DEF ApartFrom
<1> QED BY <1>1, <1>2, <1>3, <1>4, <1>5, StrcpyIs

StrncpyRight(m, m2, a, y, n) ==
  LET text == Take(Append(y, End), n)
  IN  KeptIn(m, m2, a, Len(text)) /\ Area(m2, a, Len(text)) = text

LEMMA StrncpyHolds ==
  ASSUME NEW m, NEW N, NEW t, NEW y, NEW f, StringAt(m, N, t, y, f), NEW s \in Nat, NEW n \in Nat,
         NEW q, q = Least(n, Len(y) + 1), s + q <= N, ApartFrom(s, q, t, q)
  PROVE  StrncpyRight(m, Strncpy(m, s, t, n), s, y, n)
<1>1. /\ Memory(m, N) /\ N \in Nat \ {0} /\ Len(y) \in Nat
      /\ t \in Nat /\ f = t + Len(y) /\ f <= N - 1 /\ y \in Seq(Letter)
  BY DEF StringAt
<1>2. q \in Nat /\ q <= n /\ q <= Len(y) + 1
  BY <1>1 DEF Least
<1>3. Copying(m, N, s, t, q)
  <2>1. s + q <= N /\ t + q <= N
    BY <1>1, <1>2
  <2> QED BY <1>1, <1>2, <2>1, CopyingIn
<1>4. CopyingText(m, N, s, t, y, f, n, q)
  <2>2. s + q <= t \/ t + q <= s
    BY DEF ApartFrom
  <2> QED BY <1>3, <2>2 DEF CopyingText
<1>5. PICK m2 : m2 = Strncpy(m, s, t, n)
  OBVIOUS
<1>6. m2 = Copied(m, N, s, t, q)
  BY <1>4, <1>5, StrncpyIs
<1>7. KeptIn(m, m2, s, q) /\ Area(m2, s, q) = Area(m, t, q)
  BY <1>3, <1>6, CopiedRight DEF CopyRight
<1>8. PICK w : w = Append(y, End)
  OBVIOUS
<1>9. w \in Seq(0..255) /\ Len(w) = Len(y) + 1
  <2>1. Letter \subseteq 0..255 /\ End \in 0..255
    BY DEF Letter, End
  <2> HIDE DEF Letter
  <2>2. y \in Seq(0..255)
    <3>1. y \in Seq(Letter) /\ Letter \subseteq 0..255
      BY <1>1, <2>1
    <3> QED BY <3>1, LargerSeq, ZenonT(30)
  <2> QED BY <1>8, <2>1, <2>2
<1>10. PICK text : text = Take(w, n)
  OBVIOUS
<1>11. Len(text) = q /\ text = [i \in 1..q |-> w[i]]
  <2>1. w \in Seq(0..255)
    BY <1>9
  <2>2. /\ Len(Take(w, n)) = Least(n, Len(w))
        /\ Take(w, n) = [i \in 1 .. Least(n, Len(w)) |-> w[i]]
    BY <2>1, TakeIs
  <2>3. Least(n, Len(w)) = q
    BY <1>9
  <2> QED BY <1>10, <2>2, <2>3
<1>12. ASSUME NEW i \in 1..q PROVE m[t + i - 1] = w[i]
  <2>1. PICK k \in 0..Len(y) : i = k + 1 /\ t + i - 1 = t + k
    <3>1. i - 1 \in 0..Len(y) /\ i = (i - 1) + 1 /\ t + i - 1 = t + (i - 1)
      BY <1>1, <1>2
    <3> QED BY <3>1
  <2>2. Append(y, End)[k + 1] = m[t + k]
    BY CharAt
  <2> QED BY <1>8, <2>1, <2>2
<1>13. Area(m, t, q) = text
  BY <1>11, <1>12 DEF Area
<1> QED BY <1>5, <1>7, <1>8, <1>10, <1>11, <1>13 DEF StrncpyRight
-----------------------------------------------------------------------------
(* strncat puts no more than n characters behind a string, and an end that  *)
(* it copies with the last of them or writes itself.                        *)
JoiningText(m, N, d, src, y, f, n, q) ==
  /\ StringAt(m, N, src, y, f) /\ n \in Nat /\ q = Least(n, Len(y))
  /\ d \in Nat /\ m[d] = End
  /\ d + (q + 1) <= N
  /\ d + (q + 1) <= src \/ src + (Len(y) + 1) <= d

LEMMA JoiningPart ==
  ASSUME NEW m, NEW N, NEW d, NEW src, NEW y, NEW f, NEW n, NEW q,
         JoiningText(m, N, d, src, y, f, n, q)
  PROVE  /\ Memory(m, N) /\ N \in Nat \ {0} /\ Cardinality(DOMAIN m) = N /\ Len(y) \in Nat
         /\ src \in Nat /\ src + Len(y) <= N - 1 /\ d \in Nat /\ n \in Nat
         /\ q \in Nat /\ q <= n /\ q <= Len(y) /\ (q = n \/ q = Len(y)) /\ d + q <= N - 1
         /\ CopyingText(m, N, d, src, y, f, q, q)
<1>1. /\ StringAt(m, N, src, y, f) /\ n \in Nat /\ q = Least(n, Len(y)) /\ d \in Nat
      /\ d + (q + 1) <= N
      /\ d + (q + 1) <= src \/ src + (Len(y) + 1) <= d
  BY DEF JoiningText
<1>2. /\ Memory(m, N) /\ N \in Nat \ {0} /\ Cardinality(DOMAIN m) = N /\ Len(y) \in Nat
      /\ src \in Nat /\ src + Len(y) <= N - 1
  BY <1>1 DEF StringAt
<1>3. q \in Nat /\ q <= n /\ q <= Len(y) /\ (q = n \/ q = Len(y)) /\ d + q <= N - 1
  BY <1>1, <1>2 DEF Least
<1>4. Copying(m, N, d, src, q)
  <2>1. d + q <= N /\ src + q <= N
    BY <1>1, <1>2, <1>3, SMTT(30)
  <2> QED BY <1>1, <1>2, <1>3, <2>1, CopyingIn
<1>5. CopyingText(m, N, d, src, y, f, q, q)
  <2>1. q = Least(q, Len(y) + 1)
    BY <1>2, <1>3 DEF Least
  <2>2. d + q <= src \/ src + q <= d
    BY <1>1, <1>2, <1>3, SMTT(30)
  <2> QED BY <1>1, <1>3, <1>4, <2>1, <2>2 DEF CopyingText
<1> QED BY <1>1, <1>2, <1>3, <1>5

(* All that was written when the end is. *)
Joined(m, N, d, src, q) == [Copied(m, N, d, src, q) EXCEPT ![d + q] = End]

LEMMA JoinedPut ==
  ASSUME NEW m, NEW N, NEW d, NEW src, NEW y, NEW f, NEW n, NEW q,
         JoiningText(m, N, d, src, y, f, n, q)
  PROVE  Put(m, Joined(m, N, d, src, q), N, d, src, q)
<1>1. /\ Memory(m, N) /\ N \in Nat \ {0} /\ Len(y) \in Nat
      /\ src \in Nat /\ src + Len(y) <= N - 1 /\ d \in Nat
      /\ q \in Nat /\ q <= Len(y) /\ d + q <= N - 1
  BY JoiningPart
<1>2. PICK w : w = Copied(m, N, d, src, q)
  OBVIOUS
<1>3. /\ DOMAIN w = 0 .. N - 1
      /\ \A p \in 0 .. N - 1 : w[p] = IF p \in d .. d + q - 1 THEN m[p - d + src] ELSE m[p]
  BY <1>2 DEF Copied
<1>4. PICK c \in 0 .. N - 1 : c = d + q
  BY <1>1
<1>5. [w EXCEPT ![c] = End] = [p \in 0 .. N - 1 |-> IF p = c THEN End ELSE w[p]]
  BY <1>3
<1>6. ASSUME NEW p \in 0 .. N - 1
      PROVE  (IF p = c THEN End ELSE w[p])
               = IF p \in d .. d + q - 1 THEN m[p - d + src] ELSE IF p = d + q THEN End ELSE m[p]
  <2>1. CASE p = c
    <3>1. p \notin d .. d + q - 1
      BY <1>1, <1>4, <2>1
    <3> QED BY <1>4, <2>1, <3>1
  <2>2. CASE p # c
    BY <1>3, <1>4, <2>2
  <2> QED BY <2>1, <2>2
<1>7. [w EXCEPT ![c] = End]
        = [p \in 0 .. N - 1 |-> IF p \in d .. d + q - 1 THEN m[p - d + src]
                                ELSE IF p = d + q THEN End ELSE m[p]]
  BY <1>5, <1>6
<1>8. src + q <= N
  BY <1>1
<1> QED BY <1>1, <1>2, <1>4, <1>7, <1>8 DEF Put, Joined

Stepped(m, N, d, src, y, n, q, k, w, copied) ==
  /\ (w[src + k] = End) = (k = Len(y))
  /\ k # Len(y) => copied = Copied(m, N, d, src, k + 1)
  /\ k # Len(y) /\ k + 1 = n => [copied EXCEPT ![d + k + 1] = End] = Joined(m, N, d, src, q)
  /\ k = Len(y) => copied = Joined(m, N, d, src, q)

LEMMA StrncatStep ==
  ASSUME NEW m, NEW N, NEW d, NEW src, NEW y, NEW f, NEW n, NEW q,
         JoiningText(m, N, d, src, y, f, n, q), NEW k \in Nat, k < n, k <= Len(y),
         NEW w, w = Copied(m, N, d, src, k),
         NEW copied, copied = [w EXCEPT ![d + k] = w[src + k]]
  PROVE  Stepped(m, N, d, src, y, n, q, k, w, copied)
<1>1. /\ Memory(m, N) /\ N \in Nat \ {0} /\ Len(y) \in Nat
      /\ src \in Nat /\ src + Len(y) <= N - 1 /\ d \in Nat /\ n \in Nat
      /\ q \in Nat /\ q <= n /\ q <= Len(y) /\ (q = n \/ q = Len(y)) /\ d + q <= N - 1
      /\ CopyingText(m, N, d, src, y, f, q, q)
  BY JoiningPart
<1>2. /\ StringAt(m, N, src, y, f)
      /\ d + (q + 1) <= src \/ src + (Len(y) + 1) <= d
  BY DEF JoiningText
<1>3. k <= q /\ (k = q <=> k = Len(y))
  BY <1>1
<1>4. m[src + k] = End <=> k = Len(y)
  BY <1>1, <1>2, CharAt, SMTT(30)
<1>5. CASE k # Len(y)
  <2>1. k \in 0 .. q - 1
    BY <1>1, <1>3, <1>5
  <2>2. /\ [w EXCEPT ![d + k] = w[src + k]] = Copied(m, N, d, src, k + 1)
        /\ (w[src + k] # End) = (k + 1 <= Len(y))
    <3>1. CopyingText(m, N, d, src, y, f, q, q)
      BY <1>1
    <3>2. OneCopied(m, N, d, src, y, k, w)
      BY <2>1, <3>1, StrncpyStep
    <3> QED BY <3>2 DEF OneCopied
  <2>3. w[src + k] # End
    BY <1>1, <1>5, <2>2
  <2>4. ASSUME k + 1 = n PROVE [copied EXCEPT ![d + k + 1] = End] = Joined(m, N, d, src, q)
    <3>1. k + 1 = q /\ d + k + 1 = d + q
      BY <1>1, <1>3, <1>5, <2>1, <2>4, SMTT(30)
    <3> QED BY <2>2, <3>1 DEF Joined
  <2> QED BY <1>5, <2>2, <2>3, <2>4 DEF Stepped
<1>6. CASE k = Len(y)
  <2>1. PICK s \in 0 .. N - 1 : s = src + k /\ s \notin d .. d + k - 1
    <3>1. src + k \in 0 .. N - 1
      BY <1>1, <1>6
    <3>2. src + k \notin d .. d + k - 1
      BY <1>1, <1>2, <1>3, <1>6, SMTT(30)
    <3> QED BY <3>1, <3>2
  <2>2. w[s] = m[s]
    BY <2>1 DEF Copied
  <2>3. w[src + k] = End
    BY <1>4, <1>6, <2>1, <2>2
  <2>4. k = q
    BY <1>3, <1>6
  <2>5. copied = Joined(m, N, d, src, q)
    BY <2>3, <2>4 DEF Joined
  <2> QED BY <1>6, <2>3, <2>5 DEF Stepped
<1> QED BY <1>5, <1>6

LEMMA JoinStart ==
  ASSUME NEW m, NEW N, NEW d, NEW src, NEW y, NEW f, NEW n, NEW q,
         JoiningText(m, N, d, src, y, f, n, q)
  PROVE  Copied(m, N, d, src, 0) = m
<1>1. Memory(m, N) /\ N \in Nat /\ Len(y) \in Nat /\ src \in Nat /\ src + Len(y) <= N - 1
      /\ d \in Nat /\ q \in Nat /\ d + q <= N - 1
  BY JoiningPart
<1>2. d + 0 <= N /\ src + 0 <= N
  BY <1>1
<1>3. Copying(m, N, d, src, 0)
  BY <1>1, <1>2, CopyingIn
<1> QED BY <1>3, CopiedNone

LEMMA StrncatIs ==
  ASSUME NEW m, NEW N, NEW s, NEW x, NEW d, StringAt(m, N, s, x, d),
         NEW src, NEW y, NEW f, NEW n, NEW q, JoiningText(m, N, d, src, y, f, n, q)
  PROVE  Strncat(m, s, src, n) = Joined(m, N, d, src, q)
<1>1. /\ Memory(m, N) /\ N \in Nat \ {0} /\ Cardinality(DOMAIN m) = N /\ Len(y) \in Nat
      /\ src \in Nat /\ src + Len(y) <= N - 1 /\ d \in Nat /\ n \in Nat
      /\ q \in Nat /\ q <= n /\ q <= Len(y) /\ (q = n \/ q = Len(y)) /\ d + q <= N - 1
  BY JoiningPart
<1>2. s + Strlen(m, s) = d
  BY BeforeEnd
<1> DEFINE P == Cardinality(DOMAIN m) + 1
           end == s + Strlen(m, s)
           begin == [mem |-> m, k |-> 0, go |-> n # 0]
           Stop(v) == ~v.go
           copied(v) == [v.mem EXCEPT ![end + v.k] = v.mem[src + v.k]]
           ends(v) == v.mem[src + v.k] = End
           full(v) == ~ends(v) /\ v.k + 1 = n
           Step(v) == [mem |-> IF full(v) THEN [copied(v) EXCEPT ![end + v.k + 1] = End] ELSE copied(v),
                       k |-> v.k + 1, go |-> ~ends(v) /\ ~full(v)]
           Way(g) == g = [k \in 0..P |->
                            IF k = 0 THEN begin
                            ELSE IF Stop(g[k - 1]) THEN g[k - 1] ELSE Step(g[k - 1])]
           g == CHOOSE h : Way(h)
           r == IF n = 0 THEN 0 ELSE IF n <= Len(y) THEN n ELSE Len(y) + 1
           At(k) == IF k < r THEN [mem |-> Copied(m, N, d, src, k), k |-> k, go |-> TRUE]
                    ELSE [mem |-> Joined(m, N, d, src, q), k |-> r, go |-> FALSE]
           A == [k \in 0..P |-> At(k)]
<1>4. Strncat(m, s, src, n) = g[P].mem
  BY Zenon DEF Strncat, Loop
<1>3. r \in Nat /\ r <= N /\ (r = 0 <=> n = 0) /\ (\A k \in Nat : k < r <=> k < n /\ k <= Len(y))
  BY <1>1
<1>5. P \in Nat /\ r <= P
  BY <1>1, <1>3
<1> HIDE DEF P, r
<1>6. At(0) = begin
  <2>1. CASE n = 0
    <3>1. q = 0
      BY <1>1, <2>1
    <3>2. Joined(m, N, d, src, 0) = m
      <4>1. Copied(m, N, d, src, 0) = m
        BY JoinStart
      <4>2. m[d] = End /\ d + 0 = d /\ d \in 0 .. N - 1 /\ m \in [0 .. N - 1 -> 0..255]
        BY <1>1, SMTT(30) DEF JoiningText, Memory
      <4>3. [m EXCEPT ![d] = End] = m
        BY <4>2
      <4> QED BY <4>1, <4>2, <4>3 DEF Joined
    <3>3. r = 0
      BY <1>3, <2>1
    <3>4. At(0) = [mem |-> m, k |-> 0, go |-> FALSE]
      <4>1. ~(0 < r)
        BY <3>3
      <4>2. At(0) = [mem |-> Joined(m, N, d, src, q), k |-> r, go |-> FALSE]
        BY <4>1
      <4> QED BY <3>1, <3>2, <3>3, <4>2
    <3>5. (n # 0) = FALSE
      BY <2>1
    <3> QED BY <3>4, <3>5
  <2>2. CASE n # 0
    <3>1. 0 < r
      BY <1>3, <2>2
    <3>2. Copied(m, N, d, src, 0) = m
      BY JoinStart
    <3>3. (n # 0) = TRUE
      BY <2>2
    <3> QED BY <3>1, <3>2, <3>3
  <2> QED BY <2>1, <2>2
<1>7. ASSUME NEW k \in Nat PROVE At(k + 1) = IF Stop(At(k)) THEN At(k) ELSE Step(At(k))
  <2>1. CASE k < r
    <3>1. k < n /\ k <= Len(y)
      BY <1>3, <2>1
    <3>2. PICK w : w = Copied(m, N, d, src, k)
      OBVIOUS
    <3>3. PICK c : c = [w EXCEPT ![d + k] = w[src + k]]
      OBVIOUS
    <3>4. /\ (w[src + k] = End) = (k = Len(y))
          /\ k # Len(y) => c = Copied(m, N, d, src, k + 1)
          /\ k # Len(y) /\ k + 1 = n => [c EXCEPT ![d + k + 1] = End] = Joined(m, N, d, src, q)
          /\ k = Len(y) => c = Joined(m, N, d, src, q)
      <4>1. Stepped(m, N, d, src, y, n, q, k, w, c)
        BY <3>1, <3>2, <3>3, StrncatStep
      <4> QED BY <4>1 DEF Stepped
    <3>5. At(k) = [mem |-> w, k |-> k, go |-> TRUE]
      BY <2>1, <3>2
    <3>6. ~Stop(At(k))
      BY <3>5
    <3>7. copied(At(k)) = c /\ ends(At(k)) = (w[src + k] = End) /\ At(k).k = k
      BY <1>2, <3>3, <3>5
    <3>8. full(At(k)) = (~(w[src + k] = End) /\ k + 1 = n)
      BY <3>7
    <3>9. Step(At(k)) =
            [mem |-> IF full(At(k)) THEN [copied(At(k)) EXCEPT ![end + At(k).k + 1] = End] ELSE copied(At(k)),
             k |-> At(k).k + 1, go |-> ~ends(At(k)) /\ ~full(At(k))]
      OBVIOUS
    <3> HIDE DEF Step, copied, ends, full
    <3>10. CASE k # Len(y) /\ k + 1 # n
      <4>1. k + 1 < r
        BY <1>1, <1>3, <3>1, <3>10
      <4>2. At(k + 1) = [mem |-> Copied(m, N, d, src, k + 1), k |-> k + 1, go |-> TRUE]
        BY <4>1
      <4>3. ~full(At(k)) /\ ~ends(At(k))
        BY <3>4, <3>7, <3>8, <3>10
      <4>4. (~ends(At(k)) /\ ~full(At(k))) = TRUE
        BY <4>3
      <4> HIDE DEF At
      <4>5. Step(At(k)) = [mem |-> c, k |-> k + 1, go |-> TRUE]
        BY <3>7, <3>9, <4>3, <4>4
      <4> QED BY <3>4, <3>6, <3>10, <4>2, <4>5
    <3>11. CASE k # Len(y) /\ k + 1 = n
      <4>1. ~(k + 1 < r) /\ r = k + 1
        BY <1>1, <1>3, <2>1, <3>1, <3>11
      <4>2. At(k + 1) = [mem |-> Joined(m, N, d, src, q), k |-> k + 1, go |-> FALSE]
        BY <4>1
      <4>3. full(At(k)) /\ ~ends(At(k))
        BY <3>4, <3>7, <3>8, <3>11
      <4>4. (~ends(At(k)) /\ ~full(At(k))) = FALSE
        BY <4>3
      <4> HIDE DEF At
      <4>5. Step(At(k)) = [mem |-> [c EXCEPT ![d + k + 1] = End], k |-> k + 1, go |-> FALSE]
        BY <1>2, <3>7, <3>9, <4>3, <4>4
      <4> QED BY <3>4, <3>6, <3>11, <4>2, <4>5
    <3>12. CASE k = Len(y)
      <4>1. ~(k + 1 < r) /\ r = k + 1
        BY <1>1, <1>3, <2>1, <3>1, <3>12
      <4>2. At(k + 1) = [mem |-> Joined(m, N, d, src, q), k |-> k + 1, go |-> FALSE]
        BY <4>1
      <4>3. ~full(At(k)) /\ ends(At(k))
        BY <3>4, <3>7, <3>8, <3>12
      <4>4. (~ends(At(k)) /\ ~full(At(k))) = FALSE
        BY <4>3
      <4> HIDE DEF At
      <4>5. Step(At(k)) = [mem |-> c, k |-> k + 1, go |-> FALSE]
        BY <3>7, <3>9, <4>3, <4>4
      <4> QED BY <3>4, <3>6, <3>12, <4>2, <4>5
    <3> QED BY <3>10, <3>11, <3>12
  <2>2. CASE ~(k < r)
    <3>1. ~(k + 1 < r)
      BY <1>3, <2>2
    <3>2. At(k) = [mem |-> Joined(m, N, d, src, q), k |-> r, go |-> FALSE] /\ At(k + 1) = At(k)
      BY <2>2, <3>1
    <3>3. Stop(At(k))
      BY <3>2
    <3> HIDE DEF At, Stop
    <3> QED BY <3>2, <3>3
  <2> QED BY <2>1, <2>2
<1>8. At(P).mem = Joined(m, N, d, src, q)
  <2>1. ~(P < r)
    BY <1>3, <1>5
  <2> QED BY <2>1
<1> HIDE DEF Stop, Step, At, begin
<1>9. \A k \in 0..P : A[k] = IF k = 0 THEN begin
                             ELSE IF Stop(A[k - 1]) THEN A[k - 1] ELSE Step(A[k - 1])
  <2>1. ASSUME NEW k \in 0..P, k # 0
        PROVE  A[k] = IF Stop(A[k - 1]) THEN A[k - 1] ELSE Step(A[k - 1])
    <3>1. PICK j \in Nat : k = j + 1 /\ j = k - 1 /\ j \in 0..P
      <4>1. k - 1 \in Nat /\ k = (k - 1) + 1 /\ k - 1 \in 0..P
        BY <1>5, <2>1
      <4> QED BY <4>1
    <3>2. A[k] = At(j + 1) /\ A[k - 1] = At(j)
      BY <3>1
    <3> HIDE DEF A
    <3> QED BY <1>7, <3>1, <3>2
  <2>2. A[0] = begin
    BY <1>5, <1>6
  <2> QED BY <2>1, <2>2
<1>10. Way(A)
  <2> DEFINE B == [k \in 0..P |-> IF k = 0 THEN begin
                                  ELSE IF Stop(A[k - 1]) THEN A[k - 1] ELSE Step(A[k - 1])]
  <2>1. A = B
    BY <1>9
  <2> HIDE DEF A
  <2> QED BY <2>1
<1>11. Way(g)
  <2> HIDE DEF A
  <2> QED BY <1>10
<1> HIDE DEF g
<1>12. g[0] = A[0]
  <2>1. g[0] = begin
    BY <1>5, <1>11
  <2> HIDE DEF A
  <2>2. A[0] = begin
    BY <1>5, <1>9
  <2> QED BY <2>1, <2>2
<1>13. ASSUME NEW k \in 0 .. P - 1, g[k] = A[k] PROVE g[k + 1] = A[k + 1]
  <2>1. k + 1 \in 0..P /\ k + 1 # 0 /\ (k + 1) - 1 = k
    BY <1>5
  <2>2. g[k + 1] = IF Stop(g[k]) THEN g[k] ELSE Step(g[k])
    BY <1>11, <2>1
  <2> HIDE DEF A
  <2>3. A[k + 1] = IF Stop(A[k]) THEN A[k] ELSE Step(A[k])
    BY <1>9, <2>1
  <2> QED BY <1>13, <2>2, <2>3
<1>14. g[P] = A[P]
  <2> HIDE DEF A
  <2> QED BY <1>5, <1>12, <1>13, SameWay
<1>15. A[P] = At(P)
  BY <1>5
<1> HIDE DEF A
<1> QED BY <1>4, <1>8, <1>14, <1>15
-----------------------------------------------------------------------------
LEMMA ApartEnd ==
  ASSUME NEW s \in Int, NEW l \in Nat, NEW q \in Int, NEW t \in Int, NEW j \in Nat,
         NEW e, e = s + l, ApartFrom(s, l + q + 1, t, j + 1)
  PROVE  ApartFrom(e, q + 1, t, j + 1)
<1>1. s + (l + q + 1) <= t \/ t + (j + 1) <= s
  BY DEF ApartFrom
<1>2. e + (q + 1) <= t \/ t + (j + 1) <= e
  BY <1>1
<1> QED BY <1>2 DEF ApartFrom

LEMMA StrncatHolds ==
  ASSUME NEW m, NEW N, NEW s, NEW x, NEW e, NEW t, NEW y, NEW f,
         TwoStrings(m, N, s, x, e, t, y, f), NEW n \in Nat, NEW q, q = Least(n, Len(y)),
         s + (Len(x) + q + 1) <= N, ApartFrom(s, Len(x) + q + 1, t, Len(y) + 1)
  PROVE  MakesText(m, Strncat(m, s, t, n), s, x \o Take(y, n))
<1>1. StringAt(m, N, s, x, e) /\ StringAt(m, N, t, y, f)
  BY DEF TwoStrings
<1>2. /\ s \in Nat /\ e \in Nat /\ e = s + Len(x) /\ Len(x) \in Nat /\ m[e] = End
      /\ t \in Nat /\ Len(y) \in Nat /\ N \in Nat
  BY <1>1 DEF StringAt
<1>3. q \in Nat /\ q <= Len(y)
  BY <1>2 DEF Least
<1>4. JoiningText(m, N, e, t, y, f, n, q)
  <2>1. e + (q + 1) <= N
    BY <1>2, <1>3
  <2>2. s \in Int /\ q \in Int /\ t \in Int
    BY <1>2, <1>3
  <2>3. ApartFrom(e, q + 1, t, Len(y) + 1)
    BY <1>2, <2>2, ApartEnd
  <2> QED BY <1>1, <1>2, <2>1, <2>3 DEF JoiningText, ApartFrom
<1>5. PICK m2 : m2 = Strncat(m, s, t, n)
  OBVIOUS
<1>6. m2 = Joined(m, N, e, t, q)
  BY <1>1, <1>4, <1>5, StrncatIs
<1>7. Put(m, m2, N, e, t, q)
  BY <1>4, <1>6, JoinedPut
<1>8. Before(m, s, x, e)
  BY <1>1, BeforeEnd
<1>9. MakesText(m, m2, s, x \o Take(y, q))
  BY <1>1, <1>3, <1>7, <1>8, PutText
<1>10. Take(y, q) = Take(y, n)
  <2>1. Least(q, Len(y)) = q
    BY <1>2, <1>3 DEF Least
  <2> QED BY <2>1 DEF Take
<1> QED BY <1>5, <1>9, <1>10

(* strswab, when h pairs are swapped. *)
SwappedTo(m, N, s, h) ==
  [a \in 0 .. N - 1 |-> IF a \in s .. s + 2 * h - 1
                        THEN IF (a - s) % 2 = 0 THEN m[a + 1] ELSE m[a - 1]
                        ELSE m[a]]
SwappingAll(m, N, s, x, e, h) ==
  StringAt(m, N, s, x, e) /\ h \in Nat /\ (2 * h = Len(x) \/ 2 * h + 1 = Len(x))

LEMMA Parity == ASSUME NEW k \in Nat PROVE (2 * k) % 2 = 0 /\ (2 * k + 1) % 2 = 1
<1> QED OBVIOUS

OneSwapped(m, N, s, k, w, p) ==
  [w EXCEPT ![p] = w[p + 1], ![p + 1] = w[p]] = SwappedTo(m, N, s, k + 1)

LEMMA SwapStep ==
  ASSUME NEW m, NEW N, NEW s, NEW x, NEW e, NEW h, SwappingAll(m, N, s, x, e, h),
         NEW k \in 0 .. h - 1, NEW w, w = SwappedTo(m, N, s, k), NEW p, p = s + 2 * k
  PROVE  OneSwapped(m, N, s, k, w, p)
<1>1. /\ s \in Nat /\ e \in Nat /\ e = s + Len(x) /\ Len(x) \in Nat /\ e <= N - 1 /\ N \in Nat
      /\ h \in Nat /\ (2 * h = Len(x) \/ 2 * h + 1 = Len(x))
  BY DEF SwappingAll, StringAt
<1>2. k \in Nat /\ p \in Nat /\ p + 1 <= e /\ p + 1 \in 0 .. N - 1 /\ p \in 0 .. N - 1
  BY <1>1
<1>3. /\ DOMAIN w = 0 .. N - 1
      /\ \A a \in 0 .. N - 1 : w[a] = IF a \in s .. s + 2 * k - 1
                                      THEN IF (a - s) % 2 = 0 THEN m[a + 1] ELSE m[a - 1]
                                      ELSE m[a]
  BY DEF SwappedTo
<1>4. w[p] = m[p] /\ w[p + 1] = m[p + 1]
  <2>1. p \notin s .. s + 2 * k - 1 /\ p + 1 \notin s .. s + 2 * k - 1
    BY <1>1, <1>2
  <2> QED BY <1>2, <1>3, <2>1
<1>5. PICK v : v = [w EXCEPT ![p] = w[p + 1], ![p + 1] = w[p]]
  OBVIOUS
<1>6. v = [a \in 0 .. N - 1 |-> IF a = p + 1 THEN m[p] ELSE IF a = p THEN m[p + 1] ELSE w[a]]
  BY <1>2, <1>3, <1>4, <1>5
<1>7. ASSUME NEW a \in 0 .. N - 1
      PROVE  (IF a = p + 1 THEN m[p] ELSE IF a = p THEN m[p + 1] ELSE w[a])
               = IF a \in s .. s + 2 * (k + 1) - 1
                 THEN IF (a - s) % 2 = 0 THEN m[a + 1] ELSE m[a - 1]
                 ELSE m[a]
  <2>1. CASE a = p
    <3>1. a \in s .. s + 2 * (k + 1) - 1 /\ a - s = 2 * k /\ a # p + 1
      BY <1>1, <1>2, <2>1
    <3>2. (a - s) % 2 = 0
      BY <1>2, <3>1, Parity
    <3> QED BY <2>1, <3>1, <3>2
  <2>2. CASE a = p + 1
    <3>1. a \in s .. s + 2 * (k + 1) - 1 /\ a - s = 2 * k + 1 /\ a - 1 = p
      BY <1>1, <1>2, <2>2
    <3>2. (a - s) % 2 = 1
      BY <1>2, <3>1, Parity
    <3> QED BY <2>2, <3>1, <3>2
  <2>3. CASE a # p /\ a # p + 1
    <3>1. a \in s .. s + 2 * (k + 1) - 1 <=> a \in s .. s + 2 * k - 1
      BY <1>1, <1>2, <2>3
    <3> QED BY <1>3, <2>3, <3>1
  <2> QED BY <2>1, <2>2, <2>3
<1>8. v = SwappedTo(m, N, s, k + 1)
  BY <1>6, <1>7 DEF SwappedTo
<1> QED BY <1>5, <1>8 DEF OneSwapped

LEMMA SwapStops ==
  ASSUME NEW m, NEW N, NEW s, NEW x, NEW e, NEW h, SwappingAll(m, N, s, x, e, h),
         NEW k \in 0..h, NEW w, w = SwappedTo(m, N, s, k), NEW p, p = s + 2 * k
  PROVE  (w[p] = End \/ w[p + 1] = End) <=> k = h
<1>1. /\ s \in Nat /\ e \in Nat /\ e = s + Len(x) /\ Len(x) \in Nat /\ e <= N - 1 /\ N \in Nat
      /\ h \in Nat /\ (2 * h = Len(x) \/ 2 * h + 1 = Len(x)) /\ StringAt(m, N, s, x, e)
  BY DEF SwappingAll, StringAt
<1>2. \A a \in 0 .. N - 1 : a \notin s .. s + 2 * k - 1 => w[a] = m[a]
  BY DEF SwappedTo
<1>3. m[e] = End /\ \A a \in s .. e - 1 : m[a] # End
  BY <1>1 DEF StringAt
<1>4. p \in Nat /\ p <= e /\ p \notin s .. s + 2 * k - 1 /\ p + 1 \notin s .. s + 2 * k - 1
  BY <1>1
<1>5. CASE k < h
  <2>1. p + 1 <= e - 1 /\ s <= p
    BY <1>1, <1>5
  <2>2. p \in s .. e - 1 /\ p + 1 \in s .. e - 1 /\ p \in 0 .. N - 1 /\ p + 1 \in 0 .. N - 1
    BY <1>1, <1>4, <2>1
  <2> QED BY <1>2, <1>3, <1>4, <1>5, <2>2
<1>6. CASE k = h
  <2>1. CASE 2 * h = Len(x)
    <3>1. p = e /\ p \in 0 .. N - 1
      BY <1>1, <1>6, <2>1
    <3> QED BY <1>2, <1>3, <1>4, <1>6, <3>1
  <2>2. CASE 2 * h + 1 = Len(x)
    <3>1. p + 1 = e /\ p + 1 \in 0 .. N - 1
      BY <1>1, <1>6, <2>2
    <3> QED BY <1>2, <1>3, <1>4, <1>6, <3>1
  <2> QED BY <1>1, <2>1, <2>2
<1> QED BY <1>1, <1>5, <1>6

LEMMA StrswabIs ==
  ASSUME NEW m, NEW N, NEW s, NEW x, NEW e, NEW h, SwappingAll(m, N, s, x, e, h)
  PROVE  Strswab(m, s) = SwappedTo(m, N, s, h)
<1>1. /\ Memory(m, N) /\ Cardinality(DOMAIN m) = N
      /\ s \in Nat /\ e \in Nat /\ e = s + Len(x) /\ Len(x) \in Nat /\ e <= N - 1 /\ N \in Nat
      /\ h \in Nat /\ (2 * h = Len(x) \/ 2 * h + 1 = Len(x))
  BY DEF SwappingAll, StringAt
<1> DEFINE P == Cardinality(DOMAIN m) + 1
           begin == [mem |-> m, p |-> s]
           Stop(v) == v.mem[v.p] = End \/ v.mem[v.p + 1] = End
           Step(v) == [mem |-> [v.mem EXCEPT ![v.p] = v.mem[v.p + 1], ![v.p + 1] = v.mem[v.p]],
                       p |-> v.p + 2]
           Way(g) == g = [k \in 0..P |->
                            IF k = 0 THEN begin
                            ELSE IF Stop(g[k - 1]) THEN g[k - 1] ELSE Step(g[k - 1])]
           g == CHOOSE f : Way(f)
           State(k) == [mem |-> SwappedTo(m, N, s, k), p |-> s + 2 * k]
           At(k) == IF k <= h THEN State(k) ELSE State(h)
           A == [k \in 0..P |-> At(k)]
<1>4. Strswab(m, s) = g[P].mem
  BY Zenon DEF Strswab, Loop
<1>5. P \in Nat /\ h <= P
  BY <1>1
<1> HIDE DEF P
<1>6. At(0) = begin
  <2>1. SwappedTo(m, N, s, 0) = m
    <3>1. \A a \in 0 .. N - 1 : a \notin s .. s + 2 * 0 - 1
      BY <1>1
    <3>2. SwappedTo(m, N, s, 0) = [a \in 0 .. N - 1 |-> m[a]]
      BY <3>1 DEF SwappedTo
    <3>3. m = [a \in 0 .. N - 1 |-> m[a]]
      BY <1>1 DEF Memory
    <3> QED BY <3>2, <3>3
  <2>2. At(0) = [mem |-> SwappedTo(m, N, s, 0), p |-> s + 2 * 0]
    BY <1>1
  <2>3. s + 2 * 0 = s
    BY <1>1
  <2> QED BY <2>1, <2>2, <2>3
<1>7. ASSUME NEW k \in Nat PROVE At(k + 1) = IF Stop(At(k)) THEN At(k) ELSE Step(At(k))
  <2>1. CASE k < h
    <3>1. k \in 0 .. h - 1 /\ k + 1 <= h /\ k <= h /\ k \in 0..h /\ k # h
      BY <1>1, <2>1
    <3>2. PICK w, p : w = SwappedTo(m, N, s, k) /\ p = s + 2 * k
      OBVIOUS
    <3>3. OneSwapped(m, N, s, k, w, p)
      BY <3>1, <3>2, SwapStep
    <3>4. ~(w[p] = End \/ w[p + 1] = End)
      BY <3>1, <3>2, SwapStops
    <3>5. At(k) = [mem |-> w, p |-> p]
      BY <3>1, <3>2
    <3>6. ~Stop(At(k))
      BY <3>4, <3>5
    <3>7. Step(At(k)) = [mem |-> [w EXCEPT ![p] = w[p + 1], ![p + 1] = w[p]], p |-> p + 2]
      BY <3>5
    <3>8. p + 2 = s + 2 * (k + 1)
      BY <1>1, <3>2
    <3>9. At(k + 1) = [mem |-> SwappedTo(m, N, s, k + 1), p |-> s + 2 * (k + 1)]
      BY <3>1
    <3>10. At(k + 1) = Step(At(k))
      <4> HIDE DEF At, Step
      <4> QED BY <3>3, <3>7, <3>8, <3>9 DEF OneSwapped
    <3> QED BY <3>6, <3>10
  <2>2. CASE k >= h
    <3>1. At(k) = State(h) /\ At(k + 1) = State(h)
      BY <1>1, <2>2
    <3>2. PICK w, p : w = SwappedTo(m, N, s, h) /\ p = s + 2 * h
      OBVIOUS
    <3>3. w[p] = End \/ w[p + 1] = End
      BY <1>1, <3>2, SwapStops, SMTT(30)
    <3>4. State(h) = [mem |-> w, p |-> p]
      BY <3>2
    <3>5. Stop(State(h))
      BY <3>3, <3>4
    <3> QED BY <3>1, <3>5
  <2> QED BY <1>1, <2>1, <2>2
<1>8. At(P).mem = SwappedTo(m, N, s, h)
  BY <1>1, <1>5
<1> HIDE DEF Stop, Step, At, begin
<1>9. \A k \in 0..P : A[k] = IF k = 0 THEN begin
                             ELSE IF Stop(A[k - 1]) THEN A[k - 1] ELSE Step(A[k - 1])
  <2>1. ASSUME NEW k \in 0..P, k # 0
        PROVE  A[k] = IF Stop(A[k - 1]) THEN A[k - 1] ELSE Step(A[k - 1])
    <3>1. PICK j \in Nat : k = j + 1 /\ j = k - 1 /\ j \in 0..P
      <4>1. k - 1 \in Nat /\ k = (k - 1) + 1 /\ k - 1 \in 0..P
        BY <1>5, <2>1
      <4> QED BY <4>1
    <3>2. A[k] = At(j + 1) /\ A[k - 1] = At(j)
      BY <3>1
    <3> HIDE DEF A
    <3> QED BY <1>7, <3>1, <3>2
  <2>2. A[0] = begin
    BY <1>5, <1>6
  <2> QED BY <2>1, <2>2
<1>10. Way(A)
  <2> DEFINE B == [k \in 0..P |-> IF k = 0 THEN begin
                                  ELSE IF Stop(A[k - 1]) THEN A[k - 1] ELSE Step(A[k - 1])]
  <2>1. A = B
    BY <1>9
  <2> HIDE DEF A
  <2> QED BY <2>1
<1>11. Way(g)
  <2> HIDE DEF A
  <2> QED BY <1>10
<1> HIDE DEF g
<1>12. g[0] = A[0]
  <2>1. g[0] = begin
    BY <1>5, <1>11
  <2> HIDE DEF A
  <2>2. A[0] = begin
    BY <1>5, <1>9
  <2> QED BY <2>1, <2>2
<1>13. ASSUME NEW k \in 0 .. P - 1, g[k] = A[k] PROVE g[k + 1] = A[k + 1]
  <2>1. k + 1 \in 0..P /\ k + 1 # 0 /\ (k + 1) - 1 = k
    BY <1>5
  <2>2. g[k + 1] = IF Stop(g[k]) THEN g[k] ELSE Step(g[k])
    BY <1>11, <2>1
  <2> HIDE DEF A
  <2>3. A[k + 1] = IF Stop(A[k]) THEN A[k] ELSE Step(A[k])
    BY <1>9, <2>1
  <2> QED BY <1>13, <2>2, <2>3
<1>14. g[P] = A[P]
  <2> HIDE DEF A
  <2> QED BY <1>5, <1>12, <1>13, SameWay
<1>15. A[P] = At(P)
  BY <1>5
<1> HIDE DEF A
<1> QED BY <1>4, <1>8, <1>14, <1>15
-----------------------------------------------------------------------------
LEMMA Halves == ASSUME NEW l \in Nat PROVE \E h \in Nat : 2 * h = l \/ 2 * h + 1 = l
<1>1. l \div 2 \in Nat /\ (2 * (l \div 2) = l \/ 2 * (l \div 2) + 1 = l)
  OBVIOUS
<1> QED BY <1>1

(* The character k of the text swapped is that of the memory swapped. *)
LEMMA SwappedChar ==
  ASSUME NEW m, NEW N, NEW s, NEW x, NEW e, NEW h, SwappingAll(m, N, s, x, e, h),
         NEW k \in 1..Len(x)
  PROVE  SwappedTo(m, N, s, h)[s + k - 1] = Swapped(x)[k]
<1>1. /\ s \in Nat /\ e \in Nat /\ e = s + Len(x) /\ Len(x) \in Nat /\ e <= N - 1 /\ N \in Nat
      /\ h \in Nat /\ (2 * h = Len(x) \/ 2 * h + 1 = Len(x)) /\ StringAt(m, N, s, x, e)
  BY DEF SwappingAll, StringAt
<1>2. PICK l \in Nat : l = Len(x)
  BY <1>1
<1>3. \A i \in 1..l : x[i] = m[s + i - 1]
  BY <1>1, <1>2 DEF StringAt
<1>4. DOMAIN x = 1..l
  BY <1>1, <1>2 DEF StringAt
<1>5. Swapped(x)[k] = IF k % 2 = 0 THEN x[k - 1] ELSE IF k < l THEN x[k + 1] ELSE x[k]
  BY <1>2, <1>4 DEF Swapped
<1>6. PICK a : a = s + k - 1
  OBVIOUS
<1>7. a \in 0 .. N - 1 /\ k \in 1..l /\ a \in Nat /\ k \in Nat
  BY <1>1, <1>2, <1>6
<1>8. SwappedTo(m, N, s, h)[a] = IF a \in s .. s + 2 * h - 1
                                 THEN IF (a - s) % 2 = 0 THEN m[a + 1] ELSE m[a - 1]
                                 ELSE m[a]
  BY <1>7 DEF SwappedTo
<1>9. PICK i \in Nat : k - 1 = 2 * i \/ k - 1 = 2 * i + 1
  <2>1. k - 1 \in Nat
    BY <1>7
  <2> QED BY <2>1, Halves
<1>10. CASE k - 1 = 2 * i
  <2>1. (a - s) % 2 = 0 /\ k % 2 = 1
    <3>1. a - s = 2 * i /\ k = 2 * i + 1
      BY <1>1, <1>6, <1>7, <1>10
    <3> QED BY <3>1, Parity
  <2>2. CASE k < l
    <3>1. a \in s .. s + 2 * h - 1
      BY <1>1, <1>2, <1>6, <1>7, <1>10, <2>2
    <3>2. x[k + 1] = m[a + 1]
      <4>1. k + 1 \in 1..l /\ s + (k + 1) - 1 = a + 1
        BY <1>1, <1>6, <1>7, <2>2
      <4> QED BY <1>3, <4>1
    <3> QED BY <1>5, <1>6, <1>8, <2>1, <2>2, <3>1, <3>2
  <2>3. CASE ~(k < l)
    <3>1. a \notin s .. s + 2 * h - 1
      BY <1>1, <1>2, <1>6, <1>7, <1>10, <2>3
    <3>2. x[k] = m[a]
      BY <1>3, <1>6, <1>7
    <3> QED BY <1>5, <1>6, <1>8, <2>1, <2>3, <3>1, <3>2
  <2> QED BY <2>2, <2>3
<1>11. CASE k - 1 = 2 * i + 1
  <2>1. (a - s) % 2 = 1 /\ k % 2 = 0
    <3>1. a - s = 2 * i + 1 /\ k = 2 * (i + 1) /\ i + 1 \in Nat
      BY <1>1, <1>6, <1>7, <1>11
    <3> QED BY <3>1, Parity
  <2>2. a \in s .. s + 2 * h - 1
    BY <1>1, <1>2, <1>6, <1>7, <1>11
  <2>3. x[k - 1] = m[a - 1]
    <3>1. k - 1 \in 1..l /\ s + (k - 1) - 1 = a - 1
      BY <1>1, <1>6, <1>7, <1>9, <1>11
    <3> QED BY <1>3, <3>1
  <2> QED BY <1>5, <1>6, <1>8, <2>1, <2>2, <2>3
<1> QED BY <1>9, <1>10, <1>11

StrswabRight(m, m2, s, x) == KeptIn(m, m2, s, Len(x)) /\ Text(m2, s) = Swapped(x)

LEMMA StrswabHolds ==
  ASSUME NEW m, NEW N, NEW s, NEW x, NEW e, StringAt(m, N, s, x, e)
  PROVE  StrswabRight(m, Strswab(m, s), s, x)
<1>1. /\ s \in Nat /\ e \in Nat /\ e = s + Len(x) /\ Len(x) \in Nat /\ e <= N - 1 /\ N \in Nat
      /\ x \in Seq(Letter) /\ s <= e
  BY DEF StringAt
<1>2. PICK h \in Nat : 2 * h = Len(x) \/ 2 * h + 1 = Len(x)
  BY <1>1, Halves
<1>3. SwappingAll(m, N, s, x, e, h)
  BY <1>2 DEF SwappingAll
<1>4. PICK m2 : m2 = Strswab(m, s)
  OBVIOUS
<1>5. m2 = SwappedTo(m, N, s, h)
  BY <1>3, <1>4, StrswabIs
<1>6. PICK l \in Nat : l = Len(x)
  BY <1>1
<1>7. PICK z : z = Swapped(x)
  OBVIOUS
<1>8. z \in Seq(Letter) /\ Len(z) = l
  <2>1. DOMAIN x = 1..l /\ \A k \in 1..l : x[k] \in Letter
    BY <1>1, <1>6, ElementOfSeq
  <2>2. ASSUME NEW k \in 1..l
        PROVE  (IF k % 2 = 0 THEN x[k - 1] ELSE IF k < l THEN x[k + 1] ELSE x[k]) \in Letter
    <3>1. k % 2 = 0 => k - 1 \in 1..l
      BY <2>2
    <3>2. k < l => k + 1 \in 1..l
      BY <2>2
    <3> QED BY <2>1, <3>1, <3>2
  <2>3. z = [k \in 1..l |-> IF k % 2 = 0 THEN x[k - 1] ELSE IF k < l THEN x[k + 1] ELSE x[k]]
    BY <1>6, <1>7, <2>1 DEF Swapped
  <2> QED BY <2>2, <2>3
<1>9. \A k \in 1..l : m2[s + k - 1] = z[k]
  BY <1>3, <1>5, <1>6, <1>7, SwappedChar
<1>10. ASSUME NEW p \in 0 .. N - 1, p \notin s .. s + l - 1 PROVE m2[p] = m[p]
  <2>1. p \notin s .. s + 2 * h - 1
    BY <1>1, <1>2, <1>6, <1>10
  <2> QED BY <1>5, <2>1 DEF SwappedTo
<1>11. /\ Memory(m, N) /\ m[e] = End /\ (\A p \in 0 .. N - 1 : m[p] \in 0..255) /\ m[N - 1] = End
       /\ DOMAIN m = 0 .. N - 1
  BY DEF StringAt, Memory
<1>12. Memory(m2, N)
  <2>1. m2 = [p \in 0 .. N - 1 |-> m2[p]]
    BY <1>5 DEF SwappedTo
  <2>2. ASSUME NEW p \in 0 .. N - 1 PROVE m2[p] \in 0..255
    <3>1. CASE p \in s .. s + l - 1
      <4>1. PICK k \in 1..l : p = s + k - 1
        <5>1. p - s + 1 \in 1..l /\ p = s + (p - s + 1) - 1
          BY <1>1, <1>6, <3>1
        <5> QED BY <5>1
      <4>2. z[k] \in Letter
        BY <1>8, <4>1, ElementOfSeq
      <4> QED BY <1>9, <4>1, <4>2 DEF Letter
    <3>2. CASE p \notin s .. s + l - 1
      BY <1>10, <1>11, <3>2
    <3> QED BY <3>1, <3>2
  <2>3. m2[N - 1] = End
    <3>1. N - 1 \in 0 .. N - 1 /\ N - 1 \notin s .. s + l - 1
      BY <1>1, <1>6
    <3> QED BY <1>10, <1>11, <3>1
  <2>4. N \in Nat \ {0}
    BY <1>11 DEF Memory
  <2> QED BY <2>1, <2>2, <2>3, <2>4 DEF Memory
<1>13. Text(m2, s) = z
  <2>1. m2[s + l] = End
    <3>1. e \in 0 .. N - 1 /\ e \notin s .. s + l - 1 /\ e = s + l
      BY <1>1, <1>6
    <3> QED BY <1>10, <1>11, <3>1
  <2>2. HoldsText(m2, s, z)
    BY <1>8, <1>9, <2>1 DEF HoldsText
  <2>3. s \in 0 .. N - 1 /\ s + Len(z) <= N - 1
    BY <1>1, <1>6, <1>8
  <2> QED BY <1>8, <1>12, <2>2, <2>3, HeldText DEF Letter
<1>14. KeptIn(m, m2, s, Len(x))
  BY <1>6, <1>10, <1>11 DEF KeptIn
<1> QED BY <1>4, <1>7, <1>13, <1>14 DEF StrswabRight
-----------------------------------------------------------------------------
(* What a step that makes a call does, by the name of the function. *)
Right ==
  CASE done'[1] = "strlen" -> ret' = Len(Text(mem, done'[2]))
    [] done'[1] = "strswab" ->
         LET text == Text(mem, done'[2])
         IN  Kept(done'[2], Len(text)) /\ Text(mem', done'[2]) = Swapped(text)
    [] done'[1] \notin {"strlen", "strswab"} /\ Len(done') = 3 ->
         TextsRight(done'[1], done'[2], done'[3])
    [] Len(done') = 4 -> AreasRight(done'[1], done'[2], done'[3], done'[4])

LEMMA OneArgument ==
  ASSUME NEW s
  PROVE  /\ done' = <<"strlen", s>> /\ ret' = Len(Text(mem, s)) => Right
         /\ done' = <<"strswab", s>> /\ StrswabRight(mem, mem', s, Text(mem, s)) => Right
<1>1. ASSUME done' = <<"strlen", s>>, ret' = Len(Text(mem, s)) PROVE Right
  BY <1>1 DEF Right
<1>2. ASSUME done' = <<"strswab", s>>, StrswabRight(mem, mem', s, Text(mem, s)) PROVE Right
  <2>1. Kept(s, Len(Text(mem, s))) /\ Text(mem', s) = Swapped(Text(mem, s))
    BY <1>2 DEF StrswabRight, KeptIn, Kept, Addr
  <2>2. done'[1] = "strswab" /\ done'[1] # "strlen" /\ done'[2] = s /\ Len(done') = 2
    BY <1>2
  <2> QED BY <2>1, <2>2 DEF Right
<1> QED BY <1>1, <1>2

LEMMA TwoArguments ==
  ASSUME NEW f, f \notin {"strlen", "strswab"}, NEW s, NEW t, done' = <<f, s, t>>,
         TextsRight(f, s, t)
  PROVE  Right
<1>1. /\ done'[1] = f /\ done'[2] = s /\ done'[3] = t /\ Len(done') = 3
      /\ f # "strlen" /\ f # "strswab" /\ TextsRight(f, s, t)
  OBVIOUS
<1> QED BY <1>1 DEF Right

LEMMA ThreeArguments ==
  ASSUME NEW f, f \notin {"strlen", "strswab"}, NEW a, NEW b, NEW n, done' = <<f, a, b, n>>,
         AreasRight(f, a, b, n)
  PROVE  Right
<1>1. /\ done'[1] = f /\ done'[2] = a /\ done'[3] = b /\ done'[4] = n /\ Len(done') = 4
      /\ f # "strlen" /\ f # "strswab" /\ AreasRight(f, a, b, n)
  OBVIOUS
<1> QED BY <1>1 DEF Right

(* The strings of a call. *)
LEMMA CallStrings ==
  ASSUME Memory(mem, MemSize)
  PROVE  /\ MemSize \in Nat \ {0} /\ Addr = 0 .. MemSize - 1
         /\ \A s \in Addr : /\ StringAt(mem, MemSize, s, Text(mem, s), s + Len(Text(mem, s)))
                            /\ Length(s) = Len(Text(mem, s)) /\ Length(s) \in Nat
<1>1. MemSize \in Nat \ {0} /\ Addr = 0 .. MemSize - 1
  BY DEF Memory, Addr
<1>2. ASSUME NEW s \in Addr
      PROVE  /\ StringAt(mem, MemSize, s, Text(mem, s), s + Len(Text(mem, s)))
             /\ Length(s) = Len(Text(mem, s)) /\ Length(s) \in Nat
  <2>1. PICK x, e : x = Text(mem, s) /\ e = s + Len(Text(mem, s))
    OBVIOUS
  <2>2. StringAt(mem, MemSize, s, x, e)
    <3>1. s \in 0 .. MemSize - 1
      BY <1>1
    <3> QED BY <2>1, <3>1, StringIs
  <2>3. Ends(mem, MemSize, s, e) /\ Len(x) \in Nat /\ e = s + Len(x) /\ s \in Nat
    BY <2>2 DEF StringAt
  <2>4. Strlen(mem, s) = e - s
    BY <2>3, StrlenAt
  <2>5. e - s = Len(x)
    BY <2>3
  <2> QED BY <2>1, <2>2, <2>3, <2>4, <2>5 DEF Length
<1> QED BY <1>1, <1>2

(* Comparing and searching. *)
LEMMA ReadsTwo ==
  ASSUME Memory(mem, MemSize), NEW s \in Addr, NEW t \in Addr
  PROVE  /\ Reads(<<"strcmp", s, t>>, Strcmp(mem, s, t)) => Right
         /\ Reads(<<"strcasecmp", s, t>>, Strcasecmp(mem, s, t)) => Right
         /\ Reads(<<"strspn", s, t>>, Strspn(mem, s, t)) => Right
         /\ Reads(<<"strpbrk", s, t>>, Strpbrk(mem, s, t)) => Right
         /\ Reads(<<"strstr", s, t>>, Strstr(mem, s, t)) => Right
<1>1. PICK x, e : x = Text(mem, s) /\ e = s + Len(Text(mem, s))
  OBVIOUS
<1>2. PICK y, f : y = Text(mem, t) /\ f = t + Len(Text(mem, t))
  OBVIOUS
<1>3. TwoStrings(mem, MemSize, s, x, e, t, y, f)
  BY <1>1, <1>2, CallStrings DEF TwoStrings
<1>4. ASSUME Reads(<<"strcmp", s, t>>, Strcmp(mem, s, t)) PROVE Right
  <2>1. done' = <<"strcmp", s, t>> /\ ret' = Strcmp(mem, s, t)
    BY <1>4 DEF Reads
  <2>2. ComparesAs(ret', x, y, 127)
    BY <1>3, <2>1, StrcmpHolds
  <2>3. Compares(x, y, 127)
    BY <2>2 DEF Compares, ComparesAs
  <2>4. TextsRight("strcmp", s, t)
    BY <1>1, <1>2, <2>3 DEF TextsRight
  <2> QED BY <2>1, <2>4, TwoArguments
<1>5. ASSUME Reads(<<"strcasecmp", s, t>>, Strcasecmp(mem, s, t)) PROVE Right
  <2>1. done' = <<"strcasecmp", s, t>> /\ ret' = Strcasecmp(mem, s, t)
    BY <1>5 DEF Reads
  <2>2. ComparesAs(ret', Low(x), Low(y), 255)
    BY <1>3, <2>1, StrcasecmpHolds
  <2>3. Compares(Low(x), Low(y), 255)
    BY <2>2 DEF Compares, ComparesAs
  <2>4. TextsRight("strcasecmp", s, t)
    BY <1>1, <1>2, <2>3 DEF TextsRight
  <2> QED BY <2>1, <2>4, TwoArguments
<1>6. ASSUME Reads(<<"strspn", s, t>>, Strspn(mem, s, t)) PROVE Right
  <2>1. done' = <<"strspn", s, t>> /\ ret' = Strspn(mem, s, t)
    BY <1>6 DEF Reads
  <2>2. StrspnRight(x, y, ret')
    BY <1>3, <2>1, StrspnHolds
  <2>3. TextsRight("strspn", s, t)
    BY <1>1, <1>2, <2>2 DEF TextsRight, StrspnRight
  <2> QED BY <2>1, <2>3, TwoArguments
<1>7. ASSUME Reads(<<"strpbrk", s, t>>, Strpbrk(mem, s, t)) PROVE Right
  <2>1. done' = <<"strpbrk", s, t>> /\ ret' = Strpbrk(mem, s, t)
    BY <1>7 DEF Reads
  <2>2. StrpbrkRight(mem, s, x, y, ret')
    BY <1>3, <2>1, StrpbrkHolds
  <2>3. TextsRight("strpbrk", s, t)
    BY <1>1, <1>2, <2>2 DEF TextsRight, StrpbrkRight
  <2> QED BY <2>1, <2>3, TwoArguments
<1>8. ASSUME Reads(<<"strstr", s, t>>, Strstr(mem, s, t)) PROVE Right
  <2>1. done' = <<"strstr", s, t>> /\ ret' = Strstr(mem, s, t)
    BY <1>8 DEF Reads
  <2>2. StrstrRight(mem, s, x, y, ret')
    BY <1>3, <2>1, StrstrHolds
  <2>3. TextsRight("strstr", s, t)
    BY <1>1, <1>2, <2>2 DEF TextsRight, StrstrRight
  <2> QED BY <2>1, <2>3, TwoArguments
<1> QED BY <1>4, <1>5, <1>6, <1>7, <1>8

LEMMA ReadsOne ==
  ASSUME Memory(mem, MemSize), NEW s \in Addr
  PROVE  /\ Reads(<<"strlen", s>>, Strlen(mem, s)) => Right
         /\ \A c : Reads(<<"strchr", s, c>>, Strchr(mem, s, c)) => Right
         /\ \A c : Reads(<<"strrchr", s, c>>, Strrchr(mem, s, c)) => Right
         /\ \A n \in Nat : Reads(<<"strnlen", s, n>>, Strnlen(mem, s, n)) => Right
<1>1. PICK x, e : x = Text(mem, s) /\ e = s + Len(Text(mem, s))
  OBVIOUS
<1>2. StringAt(mem, MemSize, s, x, e)
  BY <1>1, CallStrings
<1>3. ASSUME Reads(<<"strlen", s>>, Strlen(mem, s)) PROVE Right
  <2>1. done' = <<"strlen", s>> /\ ret' = Len(Text(mem, s))
    BY <1>3, CallStrings DEF Reads, Length
  <2> QED BY <2>1, OneArgument
<1>4. ASSUME NEW c, Reads(<<"strchr", s, c>>, Strchr(mem, s, c)) PROVE Right
  <2>1. done' = <<"strchr", s, c>> /\ ret' = Strchr(mem, s, c)
    BY <1>4 DEF Reads
  <2>2. ret' = FirstOf({p \in s .. s + Len(x) : mem[p] = c})
    BY <1>2, <2>1, StrchrIs
  <2>3. TextsRight("strchr", s, c)
    BY <1>1, <2>2 DEF TextsRight
  <2> QED BY <2>1, <2>3, TwoArguments
<1>5. ASSUME NEW c, Reads(<<"strrchr", s, c>>, Strrchr(mem, s, c)) PROVE Right
  <2>1. done' = <<"strrchr", s, c>> /\ ret' = Strrchr(mem, s, c)
    BY <1>5 DEF Reads
  <2>2. StrrchrRight(mem, s, x, c, ret')
    BY <1>2, <2>1, StrrchrHolds
  <2>3. TextsRight("strrchr", s, c)
    BY <1>1, <2>2 DEF TextsRight, StrrchrRight
  <2> QED BY <2>1, <2>3, TwoArguments
<1>6. ASSUME NEW n \in Nat, Reads(<<"strnlen", s, n>>, Strnlen(mem, s, n)) PROVE Right
  <2>1. done' = <<"strnlen", s, n>> /\ ret' = Strnlen(mem, s, n)
    BY <1>6 DEF Reads
  <2>2. ret' = Least(n, Len(x))
    BY <1>2, <2>1, StrnlenIs
  <2>3. TextsRight("strnlen", s, n)
    BY <1>1, <2>2 DEF TextsRight
  <2> QED BY <2>1, <2>3, TwoArguments
<1> QED BY <1>3, <1>4, <1>5, <1>6

(* Writing strings. *)
LEMMA SwabsOne ==
  ASSUME Memory(mem, MemSize), NEW s \in Addr, Writes(<<"strswab", s>>, Strswab(mem, s))
  PROVE  Right
<1>1. PICK x, e : x = Text(mem, s) /\ e = s + Len(Text(mem, s))
  OBVIOUS
<1>2. StringAt(mem, MemSize, s, x, e)
  BY <1>1, CallStrings
<1>3. done' = <<"strswab", s>> /\ mem' = Strswab(mem, s)
  BY DEF Writes
<1>4. StrswabRight(mem, mem', s, x)
  BY <1>2, <1>3, StrswabHolds
<1> QED BY <1>1, <1>3, <1>4, OneArgument

LEMMA CopiesTwo ==
  ASSUME Memory(mem, MemSize), NEW s \in Addr, NEW t \in Addr
  PROVE  /\ /\ Disjoint(s, Length(t) + 1, t, Length(t) + 1)
            /\ Writes(<<"strcpy", s, t>>, Strcpy(mem, s, t))
            => Right
         /\ /\ Disjoint(s, Length(s) + Length(t) + 1, t, Length(t) + 1)
            /\ Writes(<<"strcat", s, t>>, Strcat(mem, s, t))
            => Right
<1>1. PICK N : N = MemSize
  OBVIOUS
<1>2. PICK x, e : x = Text(mem, s) /\ e = s + Len(Text(mem, s))
  OBVIOUS
<1>3. PICK y, f : y = Text(mem, t) /\ f = t + Len(Text(mem, t))
  OBVIOUS
<1>4. StringAt(mem, N, s, x, e) /\ StringAt(mem, N, t, y, f)
  BY <1>1, <1>2, <1>3, CallStrings
<1>5. Length(s) = Len(x) /\ Length(t) = Len(y)
  BY <1>2, <1>3, CallStrings
<1>6. s \in Nat /\ x \in Seq(Letter) /\ y \in Seq(Letter)
  BY <1>4 DEF StringAt
<1>7. ASSUME Disjoint(s, Length(t) + 1, t, Length(t) + 1),
             Writes(<<"strcpy", s, t>>, Strcpy(mem, s, t))
      PROVE  Right
  <2>1. done' = <<"strcpy", s, t>> /\ mem' = Strcpy(mem, s, t)
    BY <1>7 DEF Writes
  <2>2. s + (Len(y) + 1) <= N /\ ApartFrom(s, Len(y) + 1, t, Len(y) + 1)
    BY <1>1, <1>5, <1>7 DEF Disjoint, Room, Apart, ApartFrom
  <2>3. MakesText(mem, mem', s, y)
    BY <1>4, <1>6, <2>1, <2>2, StrcpyHolds
  <2>4. Kept(s, Len(y) + 1) /\ Text(mem', s) = y
    BY <2>3 DEF MakesText, Kept, KeptIn, Addr
  <2>5. TextsRight("strcpy", s, t)
    BY <1>3, <2>4 DEF TextsRight
  <2> QED BY <2>1, <2>5, TwoArguments
<1>8. ASSUME Disjoint(s, Length(s) + Length(t) + 1, t, Length(t) + 1),
             Writes(<<"strcat", s, t>>, Strcat(mem, s, t))
      PROVE  Right
  <2>1. done' = <<"strcat", s, t>> /\ mem' = Strcat(mem, s, t)
    BY <1>8 DEF Writes
  <2>2. /\ s + (Len(x) + Len(y) + 1) <= N
        /\ ApartFrom(s, Len(x) + Len(y) + 1, t, Len(y) + 1)
    BY <1>1, <1>5, <1>8 DEF Disjoint, Room, Apart, ApartFrom
  <2>3. TwoStrings(mem, N, s, x, e, t, y, f)
    BY <1>4 DEF TwoStrings
  <2>4. MakesText(mem, mem', s, x \o y)
    BY <2>1, <2>2, <2>3, StrcatHolds
  <2>5. Kept(s, Len(x \o y) + 1) /\ Text(mem', s) = x \o y
    BY <2>4 DEF MakesText, Kept, KeptIn, Addr
  <2>6. TextsRight("strcat", s, t)
    BY <1>2, <1>3, <2>5 DEF TextsRight
  <2> QED BY <2>1, <2>6, TwoArguments
<1> QED BY <1>7, <1>8

(* Calls with a count. *)
LEMMA ReadsCount ==
  ASSUME Memory(mem, MemSize), NEW s \in Addr, NEW t \in Addr, NEW n \in Nat
  PROVE  /\ Reads(<<"strncmp", s, t, n>>, Strncmp(mem, s, t, n)) => Right
         /\ Reads(<<"strncasecmp", s, t, n>>, Strncasecmp(mem, s, t, n)) => Right
         /\ \A c : Reads(<<"strnchr", s, c, n>>, Strnchr(mem, s, n)) => Right
<1>1. PICK x, e : x = Text(mem, s) /\ e = s + Len(Text(mem, s))
  OBVIOUS
<1>2. PICK y, f : y = Text(mem, t) /\ f = t + Len(Text(mem, t))
  OBVIOUS
<1>3. TwoStrings(mem, MemSize, s, x, e, t, y, f)
  BY <1>1, <1>2, CallStrings DEF TwoStrings
<1>4. ASSUME Reads(<<"strncmp", s, t, n>>, Strncmp(mem, s, t, n)) PROVE Right
  <2>1. done' = <<"strncmp", s, t, n>> /\ ret' = Strncmp(mem, s, t, n)
    BY <1>4 DEF Reads
  <2>2. ComparesAs(ret', Take(x, n), Take(y, n), 127)
    BY <1>3, <2>1, StrncmpHolds
  <2>3. Compares(Take(x, n), Take(y, n), 127)
    BY <2>2 DEF Compares, ComparesAs
  <2>4. AreasRight("strncmp", s, t, n)
    BY <1>1, <1>2, <2>3 DEF AreasRight
  <2> QED BY <2>1, <2>4, ThreeArguments
<1>5. ASSUME Reads(<<"strncasecmp", s, t, n>>, Strncasecmp(mem, s, t, n)) PROVE Right
  <2>1. done' = <<"strncasecmp", s, t, n>> /\ ret' = Strncasecmp(mem, s, t, n)
    BY <1>5 DEF Reads
  <2>2. ComparesAs(ret', Take(Low(x), n), Take(Low(y), n), 255)
    BY <1>3, <2>1, StrncasecmpHolds
  <2>3. Compares(Take(Low(x), n), Take(Low(y), n), 255)
    BY <2>2 DEF Compares, ComparesAs
  <2>4. AreasRight("strncasecmp", s, t, n)
    BY <1>1, <1>2, <2>3 DEF AreasRight
  <2> QED BY <2>1, <2>4, ThreeArguments
<1>6. ASSUME NEW c, Reads(<<"strnchr", s, c, n>>, Strnchr(mem, s, n)) PROVE Right
  <2>1. done' = <<"strnchr", s, c, n>> /\ ret' = Strnchr(mem, s, n)
    BY <1>6 DEF Reads
  <2>2. ret' = BehindSlash(mem, s, e, n)
    BY <1>3, <2>1, StrnchrHolds DEF TwoStrings
  <2>3. AreasRight("strnchr", s, c, n)
    BY <1>1, <2>2 DEF AreasRight
  <2> QED BY <2>1, <2>3, ThreeArguments
<1> QED BY <1>4, <1>5, <1>6

LEMMA CopiesCount ==
  ASSUME Memory(mem, MemSize), NEW s \in Addr, NEW t \in Addr, NEW n \in Nat, NEW bytes,
         bytes = Least(n, Length(t) + 1), Disjoint(s, bytes, t, bytes),
         Writes(<<"strncpy", s, t, n>>, Strncpy(mem, s, t, n))
  PROVE  Right
<1>1. PICK N : N = MemSize
  OBVIOUS
<1>2. PICK y, f : y = Text(mem, t) /\ f = t + Len(Text(mem, t))
  OBVIOUS
<1>3. StringAt(mem, N, t, y, f) /\ Length(t) = Len(y) /\ s \in Nat
  BY <1>1, <1>2, CallStrings
<1>4. done' = <<"strncpy", s, t, n>> /\ mem' = Strncpy(mem, s, t, n)
  BY DEF Writes
<1>5. bytes = Least(n, Len(y) + 1) /\ s + bytes <= N /\ ApartFrom(s, bytes, t, bytes)
  BY <1>1, <1>3 DEF Disjoint, Room, Apart, ApartFrom
<1>6. StrncpyRight(mem, mem', s, y, n)
  BY <1>3, <1>4, <1>5, StrncpyHolds
<1>7. PICK text : text = Take(Append(y, End), n)
  OBVIOUS
<1>8. Kept(s, Len(text)) /\ Area(mem', s, Len(text)) = text
  BY <1>6, <1>7 DEF StrncpyRight, Kept, KeptIn, Addr
<1>9. AreasRight("strncpy", s, t, n)
  BY <1>2, <1>7, <1>8 DEF AreasRight
<1> QED BY <1>4, <1>9, ThreeArguments

LEMMA JoinsCount ==
  ASSUME Memory(mem, MemSize), NEW s \in Addr, NEW t \in Addr, NEW n \in Nat, NEW taken,
         taken = Least(n, Length(t)),
         Disjoint(s, Length(s) + taken + 1, t, Length(t) + 1),
         Writes(<<"strncat", s, t, n>>, Strncat(mem, s, t, n))
  PROVE  Right
<1>1. PICK N : N = MemSize
  OBVIOUS
<1>2. PICK x, e : x = Text(mem, s) /\ e = s + Len(Text(mem, s))
  OBVIOUS
<1>3. PICK y, f : y = Text(mem, t) /\ f = t + Len(Text(mem, t))
  OBVIOUS
<1>4. TwoStrings(mem, N, s, x, e, t, y, f) /\ Length(s) = Len(x) /\ Length(t) = Len(y)
  BY <1>1, <1>2, <1>3, CallStrings DEF TwoStrings
<1>5. done' = <<"strncat", s, t, n>> /\ mem' = Strncat(mem, s, t, n)
  BY DEF Writes
<1>6. /\ taken = Least(n, Len(y)) /\ s + (Len(x) + taken + 1) <= N
      /\ ApartFrom(s, Len(x) + taken + 1, t, Len(y) + 1)
  BY <1>1, <1>4 DEF Disjoint, Room, Apart, ApartFrom
<1>7. MakesText(mem, mem', s, x \o Take(y, n))
  BY <1>4, <1>5, <1>6, StrncatHolds
<1>8. PICK text : text = x \o Take(y, n)
  OBVIOUS
<1>9. Kept(s, Len(text) + 1) /\ Text(mem', s) = text
  BY <1>7, <1>8 DEF MakesText, Kept, KeptIn, Addr
<1>10. AreasRight("strncat", s, t, n)
  BY <1>2, <1>3, <1>8, <1>9 DEF AreasRight
<1> QED BY <1>5, <1>10, ThreeArguments

(* Calls for an area. *)
LEMMA OneArea ==
  ASSUME Memory(mem, MemSize), NEW a \in Addr, NEW n \in Nat, Room(a, n), NEW c
  PROVE  /\ Writes(<<"memset", a, c, n>>, Memset(mem, a, c, n)) => Right
         /\ Reads(<<"memscan", a, c, n>>, Memscan(mem, a, c, n)) => Right
         /\ Reads(<<"memchr", a, c, n>>, Memchr(mem, a, c, n)) => Right
<1>1. AreaAt(mem, MemSize, a, n)
  BY CallStrings, SizeIs DEF AreaAt, Room
<1>2. ASSUME Writes(<<"memset", a, c, n>>, Memset(mem, a, c, n)) PROVE Right
  <2>1. done' = <<"memset", a, c, n>> /\ mem' = Memset(mem, a, c, n)
    BY <1>2 DEF Writes
  <2>2. MemsetRight(mem, mem', a, c, n)
    BY <1>1, <2>1, MemsetIs
  <2>3. Kept(a, n) /\ \A k \in a .. a + n - 1 : mem'[k] = c
    BY <2>2 DEF MemsetRight, Kept, KeptIn, Addr
  <2>4. AreasRight("memset", a, c, n)
    BY <2>3 DEF AreasRight
  <2> QED BY <2>1, <2>4, ThreeArguments
<1>3. ASSUME Reads(<<"memscan", a, c, n>>, Memscan(mem, a, c, n)) PROVE Right
  <2>1. done' = <<"memscan", a, c, n>> /\ ret' = Memscan(mem, a, c, n)
    BY <1>3 DEF Reads
  <2>2. MemscanRight(mem, a, c, n)
    BY <1>1, MemscanIs
  <2>3. ret' = FirstOf({k \in a .. a + n - 1 : mem[k] = c} \cup {a + n})
    BY <2>1, <2>2 DEF MemscanRight
  <2>4. AreasRight("memscan", a, c, n)
    BY <2>3 DEF AreasRight
  <2> QED BY <2>1, <2>4, ThreeArguments
<1>4. ASSUME Reads(<<"memchr", a, c, n>>, Memchr(mem, a, c, n)) PROVE Right
  <2>1. done' = <<"memchr", a, c, n>> /\ ret' = Memchr(mem, a, c, n)
    BY <1>4 DEF Reads
  <2>2. ret' = FirstOf({k \in a .. a + n - 1 : mem[k] = c})
    BY <1>1, <2>1, MemchrIs
  <2>3. AreasRight("memchr", a, c, n)
    BY <2>2 DEF AreasRight
  <2> QED BY <2>1, <2>3, ThreeArguments
<1> QED BY <1>2, <1>3, <1>4

LEMMA CopiedRightly ==
  ASSUME NEW f \in {"memcpy", "bcopy", "memmove"}, NEW a, NEW b, NEW n,
         done' = <<f, a, b, n>>, CopyRight(mem, mem', a, b, n)
  PROVE  Right
<1>1. Kept(a, n) /\ Area(mem', a, n) = Area(mem, b, n)
  BY DEF CopyRight, Kept, KeptIn, Addr
<1>2. AreasRight(f, a, b, n)
  BY <1>1 DEF AreasRight
<1> QED BY <1>2, ThreeArguments

LEMMA BothAreas ==
  ASSUME Memory(mem, MemSize), NEW a \in Addr, NEW b \in Addr, NEW n \in Nat,
         Room(a, n), Room(b, n)
  PROVE  /\ Reads(<<"memcmp", a, b, n>>, Memcmp(mem, a, b, n)) => Right
         /\ Writes(<<"memmove", a, b, n>>, Memmove(mem, a, b, n)) => Right
         /\ Apart(a, n, b, n) /\ Writes(<<"memcpy", a, b, n>>, Memcpy(mem, a, b, n)) => Right
         /\ Apart(a, n, b, n) /\ Writes(<<"bcopy", a, b, n>>, Bcopy(mem, b, a, n)) => Right
<1>1. PICK N : N = MemSize
  OBVIOUS
<1>2. Memory(mem, N) /\ a \in Nat /\ b \in Nat /\ a + n <= N /\ b + n <= N
  BY <1>1, CallStrings DEF Room
<1>3. TwoAreas(mem, N, a, b, n)
  BY <1>1, <1>2, CallStrings, SizeIs DEF TwoAreas, AreaAt
<1>4. Copying(mem, N, a, b, n)
  BY <1>2, CopyingIn
<1>5. ASSUME Reads(<<"memcmp", a, b, n>>, Memcmp(mem, a, b, n)) PROVE Right
  <2>1. done' = <<"memcmp", a, b, n>> /\ ret' = Memcmp(mem, a, b, n)
    BY <1>5 DEF Reads
  <2>2. MemcmpRight(mem, a, b, n, ret')
    BY <1>3, <2>1, MemcmpIs
  <2>3. PICK differ : differ = {k \in 0 .. n - 1 : mem[a + k] # mem[b + k]}
    OBVIOUS
  <2>4. ret' = IF differ = {} THEN 0 ELSE mem[a + FirstOf(differ)] - mem[b + FirstOf(differ)]
    BY <2>2, <2>3 DEF MemcmpRight, Differ
  <2>5. AreasRight("memcmp", a, b, n)
    BY <2>3, <2>4 DEF AreasRight
  <2> QED BY <2>1, <2>5, ThreeArguments
<1>6. ASSUME Writes(<<"memmove", a, b, n>>, Memmove(mem, a, b, n)) PROVE Right
  <2>1. done' = <<"memmove", a, b, n>> /\ mem' = Memmove(mem, a, b, n)
    BY <1>6 DEF Writes
  <2>2. CopyRight(mem, mem', a, b, n)
    BY <1>4, <2>1, MemmoveIs
  <2> QED BY <2>1, <2>2, CopiedRightly
<1>7. ASSUME Apart(a, n, b, n), Writes(<<"memcpy", a, b, n>>, Memcpy(mem, a, b, n)) PROVE Right
  <2>1. done' = <<"memcpy", a, b, n>> /\ mem' = Memcpy(mem, a, b, n)
    BY <1>7 DEF Writes
  <2>2. a + n <= b \/ b + n <= a
    BY <1>7 DEF Apart
  <2>3. CopyRight(mem, mem', a, b, n)
    BY <1>4, <2>1, <2>2, MemcpyIs
  <2> QED BY <2>1, <2>3, CopiedRightly
<1>8. ASSUME Apart(a, n, b, n), Writes(<<"bcopy", a, b, n>>, Bcopy(mem, b, a, n)) PROVE Right
  <2>1. done' = <<"bcopy", a, b, n>> /\ mem' = Bcopy(mem, b, a, n)
    BY <1>8 DEF Writes
  <2>2. Upward(a, b, n)
    BY <1>2, <1>8 DEF Apart, Upward
  <2>3. CopyRight(mem, mem', a, b, n)
    BY <1>4, <2>1, <2>2, BcopyIs
  <2> QED BY <2>1, <2>3, CopiedRightly
<1> QED BY <1>5, <1>6, <1>7, <1>8

-----------------------------------------------------------------------------
(* A call is made in a memory that ends in a terminator, before any other   *)
(* step and while no string is being taken apart.                           *)
CallInv == done = <<>> => Memory(mem, MemSize) /\ apart = Whole

LEMMA OneCallRight == CallInv /\ OneCall => Right
<1> SUFFICES ASSUME CallInv, OneCall PROVE Right
  OBVIOUS
<1>1. Memory(mem, MemSize)
  BY DEF CallInv, OneCall
<1>2. PICK s, t \in Addr : \/ CallString(s, t)
                           \/ \E n \in 0..MemSize :
                                CallCount(s, t, n) \/ CallNth(s, n) \/ CallArea(s, t, n)
  BY DEF OneCall
<1>3. CASE CallString(s, t)
  BY <1>1, <1>3, ReadsOne, ReadsTwo, SwabsOne, CopiesTwo DEF CallString
<1>4. ASSUME NEW n \in 0..MemSize, CallCount(s, t, n) PROVE Right
  <2>1. n \in Nat
    BY <1>1, <1>4 DEF Memory
  <2> QED BY <1>1, <1>4, <2>1, ReadsOne, ReadsCount, CopiesCount, JoinsCount DEF CallCount
<1>5. ASSUME NEW n \in 0..MemSize, CallArea(s, t, n) PROVE Right
  <2>1. n \in Nat
    BY <1>1, <1>5 DEF Memory
  <2> QED BY <1>1, <1>5, <2>1, OneArea, BothAreas DEF CallArea
<1>6. ASSUME NEW n \in 0..MemSize, CallNth(s, n) PROVE Right
  <2>1. n \in Nat
    BY <1>1, <1>6 DEF Memory
  <2>2. PICK chr : Reads(<<"strnchr", s, chr, n>>, Strnchr(mem, s, n))
    BY <1>6 DEF CallNth
  <2> QED BY <1>1, <2>1, <2>2, ReadsCount
<1> QED BY <1>2, <1>3, <1>4, <1>5, <1>6

LEMMA OneCallDone == OneCall => done' # <<>>
<1> SUFFICES ASSUME OneCall PROVE done' # <<>>
  OBVIOUS
<1>1. PICK s, t \in Addr : \/ CallString(s, t)
                           \/ \E n \in 0..MemSize :
                                CallCount(s, t, n) \/ CallNth(s, n) \/ CallArea(s, t, n)
  BY DEF OneCall
<1>2. CASE CallString(s, t)
  BY <1>2 DEF CallString, Reads, Writes
<1>3. ASSUME NEW n \in 0..MemSize, CallCount(s, t, n) PROVE done' # <<>>
  BY <1>3 DEF CallCount, Reads, Writes
<1>4. ASSUME NEW n \in 0..MemSize, CallArea(s, t, n) PROVE done' # <<>>
  BY <1>4 DEF CallArea, Reads, Writes
<1>5. ASSUME NEW n \in 0..MemSize, CallNth(s, n) PROVE done' # <<>>
  BY <1>5 DEF CallNth, Reads
<1> QED BY <1>1, <1>2, <1>3, <1>4, <1>5

(* Each call of a function of lib/string.c, but strtok, strsep and strdup,  *)
(* does to its strings or areas what its comment says and writes no byte    *)
(* outside (string.c:21-643), but for strnchr, which answers where the text *)
(* behind the n-th slash begins: for every memory that ends in a            *)
(* terminator, any word length, and any arguments in it, whichever          *)
(* alignment, overlap, limit and letters.                                   *)
THEOREM CallsFollowTheirComments == StringsSpec => StringsRight
<1>1. StringsInit => CallInv
  <2> SUFFICES ASSUME StringsInit, done = <<>> PROVE Memory(mem, MemSize) /\ apart = Whole
    BY DEF CallInv
  <2>1. mem \in CallMemories
    BY DEF StringsInit, Tokens
  <2>2. Memory(mem, MemSize)
    BY <2>1, StringsAssumption DEF Memory, MemSize, Addr
  <2> QED BY <2>2 DEF StringsInit
<1>2. CallInv /\ [StringsNext]_stringVars => CallInv'
  <2> SUFFICES ASSUME CallInv, [StringsNext]_stringVars, done' = <<>>
               PROVE  Memory(mem, MemSize)' /\ (apart = Whole)'
    BY DEF CallInv
  <2>1. CASE OneCall
    BY <2>1, OneCallDone
  <2>2. CASE \E s, t, ct \in Starts : TakeApart(s, t, ct)
    BY <2>2 DEF TakeApart, Tokens
  <2>3. CASE StrtokCall
    BY <2>3 DEF StrtokCall, CallInv
  <2>4. CASE StrsepCall
    BY <2>4 DEF StrsepCall, CallInv
  <2>5. CASE UNCHANGED stringVars
    BY <2>5 DEF stringVars, CallInv, MemSize, Addr
  <2> QED BY <2>1, <2>2, <2>3, <2>4, <2>5 DEF StringsNext
<1>3. CallInv /\ [StringsNext]_stringVars => [done' # done => Right]_stringVars
  <2> SUFFICES ASSUME CallInv, StringsNext, done' # done PROVE Right
    OBVIOUS
  <2>1. OneCall
    BY DEF StringsNext, TakeApart, StrtokCall, StrsepCall
  <2> QED BY <2>1, OneCallRight
<1>4. [][done' # done => Right]_stringVars => StringsRight
  BY DEF StringsRight, Right
<1> QED BY <1>1, <1>2, <1>3, <1>4, PTL DEF StringsSpec
=============================================================================
