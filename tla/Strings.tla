------------------------------ MODULE Strings ------------------------------
(***************************************************************************)
(* lib/string.c with tolower of linux/ctype.h: the functions as operators  *)
(* on a memory m of bytes.  A function that writes gives the memory after  *)
(* it, one that answers gives the answer; addresses are indices of m.       *)
(* A char is unsigned, as the ARM compilers have it.                        *)
(***************************************************************************)
EXTENDS Integers, Sequences, FiniteSets

CONSTANT WordBytes    \* sizeof(unsigned long)

ASSUME WordAssumption == WordBytes \in Nat \ {0}

End == 0              \* the terminator
Null == -1            \* the null pointer
Slash == 47           \* '/'

(* A while loop over bytes of m: Step until Stops.                          *)
Loop(Step(_), Stops(_), start, m) ==
  LET passes == Cardinality(DOMAIN m) + 1
      state[k \in 0..passes] ==
        LET last == state[k - 1]
        IN  IF k = 0 THEN start ELSE IF Stops(last) THEN last ELSE Step(last)
  IN  state[passes]

(* Where a loop whose pointer goes up from s stops: at the first place. *)
Upwards(Stops(_), s, m) ==
  CHOOSE p \in s .. Cardinality(DOMAIN m) : Stops(p) /\ \A q \in s .. p - 1 : ~Stops(q)
Unlimited(m) == Cardinality(DOMAIN m) + 1       \* -1U, for these strings

-----------------------------------------------------------------------------
Strlen(m, s) == Upwards(LAMBDA p : m[p] = End, s, m) - s
Strnlen(m, s, count) == Upwards(LAMBDA p : p - s = count \/ m[p] = End, s, m) - s

Tolower(c) == IF c \in (65..90) \cup (192..214) \cup (216..222) THEN c + 32 ELSE c

Strncasecmp(m, s1, s2, len) ==
  LET k == Upwards(LAMBDA j : \/ End \in {m[s1 + j], m[s2 + j]} \/ j + 1 = len
                              \/ Tolower(m[s1 + j]) # Tolower(m[s2 + j]), 0, m)
      c1 == m[s1 + k]
      c2 == m[s2 + k]
  IN  IF len = 0 THEN 0
      ELSE IF End \in {c1, c2} THEN c1 - c2 ELSE Tolower(c1) - Tolower(c2)
Strcasecmp(m, s1, s2) == Strncasecmp(m, s1, s2, Unlimited(m))

Strncpy(m, dest, src, count) ==
  LET step(x) == [mem |-> [x.mem EXCEPT ![dest + x.k] = x.mem[src + x.k]],
                  k |-> x.k + 1, go |-> x.mem[src + x.k] # End]
  IN  Loop(step, LAMBDA x : x.k = count \/ ~x.go, [mem |-> m, k |-> 0, go |-> TRUE], m).mem
Strcpy(m, dest, src) == Strncpy(m, dest, src, Unlimited(m))
Strcat(m, dest, src) == Strcpy(m, dest + Strlen(m, dest), src)

Strncat(m, dest, src, count) ==
  LET end == dest + Strlen(m, dest)
      step(x) ==
        LET copied == [x.mem EXCEPT ![end + x.k] = x.mem[src + x.k]]
            ends == x.mem[src + x.k] = End
            full == ~ends /\ x.k + 1 = count
        IN  [mem |-> IF full THEN [copied EXCEPT ![end + x.k + 1] = End] ELSE copied,
             k |-> x.k + 1, go |-> ~ends /\ ~full]
  IN  Loop(step, LAMBDA x : ~x.go, [mem |-> m, k |-> 0, go |-> count # 0], m).mem

(* __res is a signed char. *)
SignedChar(d) == ((d + 128) % 256) - 128

Strncmp(m, cs, ct, count) ==
  LET res(j) == SignedChar(m[cs + j] - m[ct + j])
      k == Upwards(LAMBDA j : j = count \/ res(j) # 0 \/ m[cs + j] = End, 0, m)
  IN  IF k = count THEN 0 ELSE res(k)
Strcmp(m, cs, ct) == Strncmp(m, cs, ct, Unlimited(m))

-----------------------------------------------------------------------------
Strchr(m, s, c) ==
  LET p == Upwards(LAMBDA q : m[q] \in {c, End}, s, m)
  IN  IF m[p] = c THEN p ELSE Null

Strrchr(m, s, c) ==
  LET p == Loop(LAMBDA q : q - 1, LAMBDA q : q < s \/ m[q] = c, s + Strlen(m, s), m)
  IN  IF p < s THEN Null ELSE p

IsIn(m, c, accept) == m[Upwards(LAMBDA a : m[a] \in {c, End}, accept, m)] # End
Strspn(m, s, accept) ==
  Upwards(LAMBDA p : m[p] = End \/ ~IsIn(m, m[p], accept), s, m) - s
Strpbrk(m, cs, ct) ==
  LET p == Upwards(LAMBDA q : m[q] = End \/ IsIn(m, m[q], ct), cs, m)
  IN  IF m[p] = End THEN Null ELSE p

(* Mutant: the next token begins at the terminator of this one. *)
StrtokStays(m, tok, s, ct) ==
  LET from == IF s # Null THEN s ELSE tok
      sbegin == IF from = Null THEN Null ELSE from + Strspn(m, from, ct)
  IN  IF sbegin = Null \/ m[sbegin] = End THEN [mem |-> m, tok |-> Null, ret |-> Null]
      ELSE LET send == Strpbrk(m, sbegin, ct)
           IN  [mem |-> IF send = Null THEN m ELSE [m EXCEPT ![send] = End],
                tok |-> send, ret |-> sbegin]

(* strtok, with ___strtok. *)
Strtok(m, tok, s, ct) ==
  LET from == IF s # Null THEN s ELSE tok
      sbegin == IF from = Null THEN Null ELSE from + Strspn(m, from, ct)
  IN  IF sbegin = Null \/ m[sbegin] = End THEN [mem |-> m, tok |-> Null, ret |-> Null]
      ELSE LET send == Strpbrk(m, sbegin, ct)
           IN  [mem |-> IF send = Null THEN m ELSE [m EXCEPT ![send] = End],
                tok |-> IF send = Null THEN Null ELSE send + 1, ret |-> sbegin]

Strsep(m, s, ct) ==
  LET end == Strpbrk(m, s, ct)
  IN  IF s = Null THEN [mem |-> m, next |-> Null, ret |-> Null]
      ELSE [mem |-> IF end = Null THEN m ELSE [m EXCEPT ![end] = End],
            next |-> IF end = Null THEN Null ELSE end + 1, ret |-> s]

Strswab(m, s) ==
  LET step(x) == [mem |-> [x.mem EXCEPT ![x.p] = x.mem[x.p + 1], ![x.p + 1] = x.mem[x.p]],
                  p |-> x.p + 2]
  IN  Loop(step, LAMBDA x : x.mem[x.p] = End \/ x.mem[x.p + 1] = End,
           [mem |-> m, p |-> s], m).mem

(* strnchr: the character behind the n-th slash, whatever chr is, or the    *)
(* end of a string that has fewer of them; null if it has none.             *)
Strnchr(m, s, n) ==
  LET step(x) == [p |-> x.p + 1, count |-> IF m[x.p] = Slash THEN x.count + 1 ELSE x.count]
      last == Loop(step, LAMBDA x : m[x.p] = End \/ x.count >= n, [p |-> s, count |-> 0], m)
  IN  IF last.count = 0 THEN Null ELSE last.p

-----------------------------------------------------------------------------
Filled(m, s, c, count) == [a \in DOMAIN m |-> IF a \in s .. s + count - 1 THEN c ELSE m[a]]

(* Whole words while s is aligned, then bytes. *)
Memset(m, s, c, count) ==
  LET words == IF s % WordBytes = 0 THEN (count \div WordBytes) * WordBytes ELSE 0
  IN  Filled(Filled(m, s, c, words), s + words, c, count - words)

(* One after the other, units of so many bytes that are read and written at *)
(* once.                                                                    *)
CopyOne(m, dest, src, unit) ==
  [a \in DOMAIN m |-> IF a \in dest .. dest + unit - 1 THEN m[a - dest + src] ELSE m[a]]
CopyUp(m, dest, src, units, unit) ==
  LET copied[k \in 0..units] ==
        IF k = 0 THEN m
        ELSE CopyOne(copied[k - 1], dest + (k - 1) * unit, src + (k - 1) * unit, unit)
  IN  copied[units]
CopyDown(m, dest, src, count) ==
  LET copied[k \in 0..count] ==
        IF k = 0 THEN m ELSE CopyOne(copied[k - 1], dest + count - k, src + count - k, 1)
  IN  copied[count]

Bcopy(m, src, dest, count) == CopyUp(m, dest, src, count, 1)

Memcpy(m, dest, src, count) ==
  LET aligned == dest % WordBytes = 0 /\ src % WordBytes = 0
      words == IF aligned THEN count \div WordBytes ELSE 0
      done == words * WordBytes
  IN  CopyUp(CopyUp(m, dest, src, words, WordBytes), dest + done, src + done, count - done, 1)

(* Mutant: one direction for all. *)
MemmoveUp(m, dest, src, count) == CopyUp(m, dest, src, count, 1)

Memmove(m, dest, src, count) ==
  IF dest <= src THEN CopyUp(m, dest, src, count, 1) ELSE CopyDown(m, dest, src, count)

Memcmp(m, cs, ct, count) ==
  LET k == Upwards(LAMBDA j : j = count \/ m[cs + j] # m[ct + j], 0, m)
  IN  IF k = count THEN 0 ELSE m[cs + k] - m[ct + k]

Memscan(m, addr, c, size) == Upwards(LAMBDA p : p = addr + size \/ m[p] = c, addr, m)
Memchr(m, s, c, n) ==
  LET p == Memscan(m, s, c, n)
  IN  IF p = s + n THEN Null ELSE p

Strstr(m, s1, s2) ==
  LET l2 == Strlen(m, s2)
      end == s1 + Strlen(m, s1)
      p == Upwards(LAMBDA q : end - q < l2 \/ Memcmp(m, q, s2, l2) = 0, s1, m)
  IN  IF l2 = 0 THEN s1 ELSE IF end - p < l2 THEN Null ELSE p
=============================================================================
