----------------------------- MODULE PathSplit -----------------------------
(***************************************************************************)
(* lib/advstr.c on lib/string.c: how device_open's split_path cuts a path  *)
(* into board, class and device with three calls of str_split.             *)
(*                                                                         *)
(* str_split's temporary is an array on the stack that nobody clears.  It   *)
(* is at the same place in all three calls and nothing in between uses     *)
(* that place, so each call finds in it what the one before has left.      *)
(***************************************************************************)
EXTENDS Strings

CONSTANTS
  Boards, Classes, Devices,   \* the names paths are made of
  OldBytes,           \* what the temporary may hold before
  TmpSize, BufSize    \* sizes of the temporary and of the parts (50 and 10)

ASSUME NameAssumption ==
  /\ Slash \in Nat \ {End}
  /\ \A name \in Boards \cup Classes \cup Devices :
       /\ name \in Seq(Nat \ {Slash, End}) /\ name # <<>>
       /\ Len(name) < BufSize
  /\ OldBytes \subseteq Nat
  /\ BufSize \in Nat /\ TmpSize \in Nat
  /\ 3 * BufSize + 1 < TmpSize

VARIABLES
  names,    \* the three names of the path, and whether a slash ends it
  path,     \* the path, a string in memory
  tmp,      \* str_split's temporary
  part,     \* the three buffers of device_open, from the first
  calls,    \* calls of str_split that have returned
  status    \* "ok", or "outside" after a write outside a buffer

vars == <<names, path, tmp, part, calls, status>>

Paths == [board : Boards, class : Classes, device : Devices, slash : BOOLEAN]

PathOf(n) ==
  LET text == <<Slash>> \o n.board \o <<Slash>> \o n.class \o <<Slash>> \o n.device
                \o (IF n.slash THEN <<Slash>> ELSE <<>>)
  IN  [k \in 0..Len(text) |-> IF k < Len(text) THEN text[k + 1] ELSE End]

Fresh(size) == {[k \in 0..size-1 |-> byte] : byte \in OldBytes}

Init ==
  /\ names \in Paths
  /\ path = PathOf(names)
  /\ tmp \in Fresh(TmpSize)
  /\ part \in {[i \in 1..3 |-> buf] : buf \in Fresh(BufSize)}
  /\ calls = 0
  /\ status = "ok"

-----------------------------------------------------------------------------
(* strdel_head: the string from its n-th slash on is copied; the terminator *)
(* goes where it was in the source, len bytes on.                           *)
HeadDeleted(str, buf, n) ==
  LET len == Strlen(str, 0)
      pos == Strnchr(str, 0, n)
  IN  [k \in DOMAIN buf |-> IF k < len - pos THEN str[pos + k]
                            ELSE IF k = len THEN End ELSE buf[k]]

(* Mutant: the slash stays. *)
TailDeletedSlash(str, buf, n) ==
  LET pos == Strnchr(str, 0, n)
  IN  [k \in DOMAIN buf |-> IF k < pos THEN str[k] ELSE IF k = pos THEN End ELSE buf[k]]

(* strdel_tail: the string up to its n-th slash, which the terminator       *)
(* replaces.                                                                *)
TailDeleted(str, buf, n) ==
  LET pos == Strnchr(str, 0, n)
  IN  [k \in DOMAIN buf |-> IF k < pos - 1 THEN str[k]
                            ELSE IF k = pos - 1 THEN End ELSE buf[k]]

(* split_path makes three parts. *)
PartsLeft == calls < 3

(* str_split(path, part, '/', n, n + 1), the n-th of the three calls. With  *)
(* no slash in the temporary the terminator goes in front of the part, with *)
(* one too far off it goes behind.                                          *)
StrSplit ==
  /\ status = "ok" /\ PartsLeft
  /\ tmp' = HeadDeleted(path, tmp, calls + 1)
  /\ calls' = calls + 1
  /\ \/ /\ Strnchr(tmp', 0, 1) \in 1..BufSize
        /\ part' = [part EXCEPT ![calls + 1] = TailDeleted(tmp', @, 1)]
        /\ UNCHANGED status
     \/ /\ Strnchr(tmp', 0, 1) \notin 1..BufSize
        /\ status' = "outside"
        /\ UNCHANGED part
  /\ UNCHANGED <<names, path>>

(* device_open is called again, over what the stack holds by then. *)
DeviceOpen(n) ==
  /\ status = "ok" /\ calls = 3
  /\ names' = n
  /\ path' = PathOf(n)
  /\ tmp' \in Fresh(TmpSize)
  /\ part' \in {[i \in 1..3 |-> buf] : buf \in Fresh(BufSize)}
  /\ calls' = 0
  /\ UNCHANGED status

Next == StrSplit \/ \E n \in Paths : DeviceOpen(n)

Spec == Init /\ [][Next]_vars
=============================================================================
