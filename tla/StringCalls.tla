---------------------------- MODULE StringCalls -----------------------------
(***************************************************************************)
(* Programs that use lib/string.c: one call of any function but those that *)
(* take strings apart, or two strings taken apart at the same time, one by *)
(* strtok and one by strsep.                                               *)
(***************************************************************************)
EXTENDS Strings

CONSTANTS
  CallMemories,   \* the memories, indexed from 0, in which a call is made
  TokenMemories   \* and those in which two strings are taken apart

ASSUME StringsAssumption ==
  \A m \in CallMemories \cup TokenMemories :
    LET size == Cardinality(DOMAIN m)
    IN  size \in Nat \ {0} /\ m \in [0 .. size - 1 -> 0..255] /\ m[size - 1] = End

VARIABLES
  mem,      \* the memory
  done,     \* the call that was made, <<function, arguments...>>; <<>>; or Tokens
  ret,      \* what it returned
  tok,      \* ___strtok
  apart     \* two strings being taken apart, and the tokens they gave, or Whole

stringVars == <<mem, done, ret, tok, apart>>

Addr == DOMAIN mem
MemSize == Cardinality(Addr)
Whole == [first |-> Null]
Tokens == <<"strtok", "strsep">>    \* those calls are made, and more than once

StringsInit ==
  /\ \/ mem \in CallMemories /\ done = <<>>
     \/ mem \in TokenMemories /\ done = Tokens
  /\ ret = 0 /\ tok = Null /\ apart = Whole

-----------------------------------------------------------------------------
(* Callers leave room for what is written, and pass areas apart from each   *)
(* other where the function is not made for others.                         *)
Length(s) == Strlen(mem, s)
Room(dest, bytes) == dest + bytes <= MemSize
Apart(a, n, b, k) == a + n <= b \/ b + k <= a
Chars == {mem[a] : a \in Addr}

(* The areas of a call from dest and src on. *)
Disjoint(dest, n, src, k) == Room(dest, n) /\ Room(src, k) /\ Apart(dest, n, src, k)
Least(j, k) == IF j < k THEN j ELSE k

Reads(call, answer) ==
  done' = call /\ ret' = answer /\ UNCHANGED <<mem, tok, apart>>
Writes(call, after) ==
  done' = call /\ mem' = after /\ UNCHANGED <<ret, tok, apart>>

CallString(s, t) ==
  \/ Reads(<<"strlen", s>>, Strlen(mem, s))
  \/ mem[s] # End /\ Writes(<<"strswab", s>>, Strswab(mem, s))
  \/ Reads(<<"strcmp", s, t>>, Strcmp(mem, s, t))
  \/ Reads(<<"strcasecmp", s, t>>, Strcasecmp(mem, s, t))
  \/ Reads(<<"strspn", s, t>>, Strspn(mem, s, t))
  \/ Reads(<<"strpbrk", s, t>>, Strpbrk(mem, s, t))
  \/ Reads(<<"strstr", s, t>>, Strstr(mem, s, t))
  \/ \E c \in Chars : \/ Reads(<<"strchr", s, c>>, Strchr(mem, s, c))
                      \/ Reads(<<"strrchr", s, c>>, Strrchr(mem, s, c))
  \/ /\ Disjoint(s, Length(t) + 1, t, Length(t) + 1)
     /\ Writes(<<"strcpy", s, t>>, Strcpy(mem, s, t))
  \/ /\ Disjoint(s, Length(s) + Length(t) + 1, t, Length(t) + 1)
     /\ Writes(<<"strcat", s, t>>, Strcat(mem, s, t))

CallCount(s, t, n) ==
  \/ Reads(<<"strnlen", s, n>>, Strnlen(mem, s, n))
  \/ Reads(<<"strncmp", s, t, n>>, Strncmp(mem, s, t, n))
  \/ Reads(<<"strncasecmp", s, t, n>>, Strncasecmp(mem, s, t, n))
  \/ LET taken == Least(n, Length(t))
         bytes == Least(n, Length(t) + 1)
     IN  \/ /\ Disjoint(s, bytes, t, bytes)
            /\ Writes(<<"strncpy", s, t, n>>, Strncpy(mem, s, t, n))
         \/ /\ Disjoint(s, Length(s) + taken + 1, t, Length(t) + 1)
            /\ Writes(<<"strncat", s, t, n>>, Strncat(mem, s, t, n))

(* What is looked for is a slash, whatever chr is. *)
CallNth(s, n) ==
  \E chr \in Chars : Reads(<<"strnchr", s, chr, n>>, Strnchr(mem, s, n))

CallArea(a, b, n) ==
  /\ Room(a, n)
  /\ \/ \E c \in Chars :
          \/ Writes(<<"memset", a, c, n>>, Memset(mem, a, c, n))
          \/ Reads(<<"memscan", a, c, n>>, Memscan(mem, a, c, n))
          \/ Reads(<<"memchr", a, c, n>>, Memchr(mem, a, c, n))
     \/ /\ Room(b, n)
        /\ \/ Reads(<<"memcmp", a, b, n>>, Memcmp(mem, a, b, n))
           \/ Writes(<<"memmove", a, b, n>>, Memmove(mem, a, b, n))
           \/ /\ Apart(a, n, b, n)
              /\ \/ Writes(<<"memcpy", a, b, n>>, Memcpy(mem, a, b, n))
                 \/ Writes(<<"bcopy", a, b, n>>, Bcopy(mem, b, a, n))

OneCall ==
  /\ done = <<>>
  /\ \E s, t \in Addr :
       \/ CallString(s, t)
       \/ \E n \in 0..MemSize : CallCount(s, t, n) \/ CallNth(s, n) \/ CallArea(s, t, n)

-----------------------------------------------------------------------------
(* Two strings are taken apart at the same delimiters, and until they are   *)
(* nothing else touches them.                                               *)
TakeApart(s, t, ct) ==
  /\ done = Tokens /\ apart = Whole
  /\ Apart(s, Length(s) + 1, t, Length(t) + 1)
  /\ Apart(s, Length(s) + 1, ct, Length(ct) + 1)
  /\ Apart(t, Length(t) + 1, ct, Length(ct) + 1)
  /\ apart' = [before |-> mem, first |-> s, second |-> t, ct |-> ct,
               rest |-> t, tokens |-> <<>>, fields |-> <<>>, last |-> s]
  /\ UNCHANGED <<mem, done, ret, tok>>

(* strtok(s, ct), and then strtok(NULL, ct) until it returns null.          *)
StrtokCall ==
  /\ apart # Whole /\ apart.last # Null
  /\ LET call == Strtok(mem, tok, IF apart.tokens = <<>> THEN apart.first ELSE Null, apart.ct)
     IN  /\ mem' = call.mem /\ tok' = call.tok
         /\ apart' = [apart EXCEPT
              !.tokens = IF call.ret = Null THEN @ ELSE Append(@, call.ret),
              !.last = call.ret]
  /\ UNCHANGED <<done, ret>>

(* strsep(&rest, ct) until rest is null. *)
StrsepCall ==
  /\ apart # Whole /\ apart.rest # Null
  /\ LET call == Strsep(mem, apart.rest, apart.ct)
     IN  /\ mem' = call.mem
         /\ apart' = [apart EXCEPT !.fields = Append(@, call.ret), !.rest = call.next]
  /\ UNCHANGED <<done, ret, tok>>

(* Where a string begins. *)
Starts == {a \in Addr : a = 0 \/ mem[a - 1] = End}

StringsNext ==
  \/ OneCall
  \/ \E s, t, ct \in Starts : TakeApart(s, t, ct)
  \/ StrtokCall \/ StrsepCall

StringsSpec == StringsInit /\ [][StringsNext]_stringVars
=============================================================================
