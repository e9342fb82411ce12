---------------------------- MODULE StringProps -----------------------------
(***************************************************************************)
(* What callers of lib/string.c rely on, in terms of the strings and areas *)
(* that their pointers stand for.                                          *)
(***************************************************************************)
EXTENDS StringCalls, PathSplit

Area(m, a, n) == [k \in 1..n |-> m[a + k - 1]]
Text(m, s) ==
  Area(m, s, CHOOSE n \in 0 .. Cardinality(DOMAIN m) - s - 1 :
               m[s + n] = End /\ End \notin {m[s + k] : k \in 0 .. n - 1})
Take(text, n) == SubSeq(text, 1, Least(n, Len(text)))
Letters(text) == {text[k] : k \in DOMAIN text}
Low(text) == [k \in DOMAIN text |-> Tolower(text[k])]

(* Only these bytes were written. *)
Kept(a, n) == \A b \in Addr \ (a .. a + n - 1) : mem'[b] = mem[b]

FirstOf(S) == IF S = {} THEN Null ELSE CHOOSE a \in S : \A b \in S : a <= b
LastOf(S) == IF S = {} THEN Null ELSE CHOOSE a \in S : \A b \in S : a >= b

(* The answer of a comparison: 0 for equal texts only, and else the sign of *)
(* the first difference, if that fits the type of the answer.               *)
Compares(a, b, limit) ==
  LET differ == {k \in 1 .. Least(Len(a), Len(b)) + 1 : Append(a, End)[k] # Append(b, End)[k]}
      d == LET k == FirstOf(differ) IN Append(a, End)[k] - Append(b, End)[k]
  IN  /\ ret' = 0 <=> a = b
      /\ a # b /\ d \in -limit .. limit => (ret' < 0 <=> d < 0)

(* What a call that has two addresses, or an address and a character, and a *)
(* number among its arguments does.                                         *)
TextsRight(f, s, t) ==
  LET a == Text(mem, s)
      b == Text(mem, t)
  IN CASE f = "strcmp" -> Compares(a, b, 127)
       [] f = "strcasecmp" -> Compares(Low(a), Low(b), 255)
       [] f = "strspn" ->
            /\ ret' <= Len(a) /\ Letters(Take(a, ret')) \subseteq Letters(b)
            /\ ret' < Len(a) => a[ret' + 1] \notin Letters(b)
       [] f = "strpbrk" -> ret' = FirstOf({p \in s .. s + Len(a) - 1 : mem[p] \in Letters(b)})
       [] f = "strstr" ->
            ret' = FirstOf({p \in s .. s + Len(a) - Len(b) : Take(Text(mem, p), Len(b)) = b})
       [] f = "strcpy" -> Kept(s, Len(b) + 1) /\ Text(mem', s) = b
       [] f = "strcat" -> Kept(s, Len(a \o b) + 1) /\ Text(mem', s) = a \o b
       [] f = "strchr" -> ret' = FirstOf({p \in s .. s + Len(a) : mem[p] = t})
       [] f = "strrchr" -> ret' = LastOf({p \in s .. s + Len(a) : mem[p] = t})
       [] f = "strnlen" -> ret' = Least(t, Len(a))

(* The place behind the n-th slash of the string from s to end, or its end  *)
(* if it has fewer; none if it has no slash.                                *)
Slashes(m, s, p) == {q \in s .. p - 1 : m[q] = Slash}
BehindSlash(m, s, end, n) ==
  IF n = 0 \/ Slashes(m, s, end) = {} THEN Null
  ELSE FirstOf({p \in s..end : Cardinality(Slashes(m, s, p)) = n} \cup {end})

AreasRight(f, a, b, n) ==
  CASE f = "strncmp" -> Compares(Take(Text(mem, a), n), Take(Text(mem, b), n), 127)
    [] f = "strncasecmp" -> Compares(Take(Low(Text(mem, a)), n), Take(Low(Text(mem, b)), n), 255)
    [] f = "strncpy" ->
         LET text == Take(Append(Text(mem, b), End), n)
         IN  Kept(a, Len(text)) /\ Area(mem', a, Len(text)) = text
    [] f = "strncat" ->
         LET text == Text(mem, a) \o Take(Text(mem, b), n)
         IN  Kept(a, Len(text) + 1) /\ Text(mem', a) = text
    [] f = "memset" -> Kept(a, n) /\ \A k \in a .. a + n - 1 : mem'[k] = b
    [] f \in {"memcpy", "bcopy", "memmove"} -> Kept(a, n) /\ Area(mem', a, n) = Area(mem, b, n)
    [] f = "memcmp" ->
         LET differ == {k \in 0 .. n - 1 : mem[a + k] # mem[b + k]}
         IN  ret' = IF differ = {} THEN 0 ELSE mem[a + FirstOf(differ)] - mem[b + FirstOf(differ)]
    [] f = "memscan" -> ret' = FirstOf({k \in a .. a + n - 1 : mem[k] = b} \cup {a + n})
    [] f = "memchr" -> ret' = FirstOf({k \in a .. a + n - 1 : mem[k] = b})
    [] f = "strnchr" -> ret' = BehindSlash(mem, a, a + Len(Text(mem, a)), n)

(* strswab swaps the characters in pairs and leaves an odd one. *)
Swapped(text) ==
  [k \in DOMAIN text |->
     IF k % 2 = 0 THEN text[k - 1] ELSE IF k < Len(text) THEN text[k + 1] ELSE text[k]]

(* Each function but strtok, strsep and strdup does to its strings or areas *)
(* what its comment says, and to no byte outside: whichever word alignment, *)
(* overlap, limit, terminator and case of letters its arguments meet        *)
(* (string.c:21-643).  strnchr does not what its comment says, which is to  *)
(* find the n-th chr and return its address (string.c:407-410), but what    *)
(* str_split needs: it answers where the text behind the n-th slash begins. *)
StringsRight == [][
  done' # done =>
    CASE done'[1] = "strlen" -> ret' = Len(Text(mem, done'[2]))
      [] done'[1] = "strswab" ->
           LET text == Text(mem, done'[2])
           IN  Kept(done'[2], Len(text)) /\ Text(mem', done'[2]) = Swapped(text)
      [] done'[1] \notin {"strlen", "strswab"} /\ Len(done') = 3 ->
           TextsRight(done'[1], done'[2], done'[3])
      [] Len(done') = 4 -> AreasRight(done'[1], done'[2], done'[3], done'[4])
  ]_stringVars

(* The pieces of a text between its delimiters, empty ones included, and    *)
(* those of them that are not empty: of the first k characters or pieces.   *)
PiecesUpto(text, delims) ==
  LET upto[k \in 0..Len(text)] ==
        IF k = 0 THEN <<<<>>>>
        ELSE IF text[k] \in delims THEN Append(upto[k - 1], <<>>)
        ELSE [upto[k - 1] EXCEPT ![Len(upto[k - 1])] = Append(@, text[k])]
  IN  upto
Pieces(text, delims) == PiecesUpto(text, delims)[Len(text)]
FilledUpto(pieces) ==
  LET upto[k \in 0..Len(pieces)] ==
        IF k = 0 THEN <<>>
        ELSE IF pieces[k] = <<>> THEN upto[k - 1] ELSE Append(upto[k - 1], pieces[k])
  IN  upto

(* strtok gives the pieces that are not empty, strsep all of them ("It      *)
(* returns empty tokens, too", string.c:358), each once and in order, with  *)
(* calls of the other in between; and no later call changes a token that    *)
(* was given.                                                               *)
Given(pointers) == [k \in DOMAIN pointers |-> Text(mem, pointers[k])]
TokensRight ==
  apart # Whole =>
    LET delims == Letters(Text(apart.before, apart.ct))
        all == Pieces(Text(apart.before, apart.second), delims)
        some == Pieces(Text(apart.before, apart.first), delims)
        filled == FilledUpto(some)[Len(some)]
    IN  /\ Given(apart.tokens) = Take(filled, Len(apart.tokens))
        /\ apart.last = Null => Len(apart.tokens) = Len(filled)
        /\ Given(apart.fields) = Take(all, Len(apart.fields))
        /\ apart.rest = Null => Len(apart.fields) = Len(all)

-----------------------------------------------------------------------------
(* What device_open relies on when str_split has split its path. *)

(* The paths the program makes end in a slash (main.c:27, printf.c:430) or  *)
(* have a device name as long as the class name (main.c:24).                *)
(* For any other the third call reads into what the second has left behind  *)
(* its copy.                                                                *)
WellFormed == names.slash \/ Len(names.device) = Len(names.class)

(* Each part is the name in the path, whatever the temporary and the parts  *)
(* held before, and no byte is written in front of a part or behind it.     *)
Wanted(k) == CASE k = 1 -> names.board [] k = 2 -> names.class [] k = 3 -> names.device
HasName(buf, name) == \A k \in 0..Len(name) :
                        buf[k] = IF k < Len(name) THEN name[k + 1] ELSE End
PartsRight == WellFormed => status = "ok" /\ \A k \in 1..calls : HasName(part[k], Wanted(k))

(* The inductive invariant of the proof: the third call finds the slash the *)
(* second one has left behind the class name.                               *)
PathInv ==
  /\ names \in Paths /\ path = PathOf(names) /\ calls \in 0..3
  /\ tmp \in [0 .. TmpSize - 1 -> Nat] /\ part \in [1..3 -> [0 .. BufSize - 1 -> Nat]]
  /\ calls = 2 => tmp[Len(names.class)] = Slash
  /\ PartsRight
=============================================================================
