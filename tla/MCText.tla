------------------------------- MODULE MCText -------------------------------
(* The string functions and the path splitter.  A behaviour is one of       *)
(*  - a call in a memory of five bytes with any contents, letters of both    *)
(*    cases and one that is negative as a signed char, or slashes and one    *)
(*    letter; or in one of eight bytes, which has place for two areas of a   *)
(*    word and a byte;                                                       *)
(*  - two strings of three characters taken apart at one or two of them;     *)
(*  - device_open, for names shorter and longer than one another, with       *)
(*    characters in common, up to the longest a part has room for, over      *)
(*    stacks of zeros, of slashes and of letters.                            *)
EXTENDS StringProps

AsMemory(bytes) == [a \in 0 .. Len(bytes) - 1 |-> bytes[a + 1]]
MCCallMemories ==
  {AsMemory(Append(bytes, End)) : bytes \in [1..4 -> {End, 65, 97, 225}]}
    \cup {AsMemory(Append(bytes, End)) : bytes \in [1..4 -> {End, Slash, 97}]}
    \cup {AsMemory(<<97, 65, 225, 98, 97, 65, 97, 0>>)}
MCTokenMemories ==
  {AsMemory(s \o <<End>> \o t \o <<End>> \o ct \o <<End>>) :
     s \in [1..3 -> 1..3], t \in [1..3 -> 1..3], ct \in {<<1>>, <<1, 2>>}}

MCBoards == {<<97>>, <<97, 98, 97, 98>>}
MCClasses == {<<98>>, <<98, 97>>, <<97, 97, 97, 97>>}
MCDevices == {<<97>>, <<98, 97>>, <<97, 98, 97, 98>>}

VARIABLE used

mcVars == <<vars, stringVars, used>>

OnePath == [board |-> <<97>>, class |-> <<98>>, device |-> <<97>>, slash |-> TRUE]

MCInit ==
  /\ used \in {"strings", "paths"}
  /\ StringsInit /\ Init
  /\ used = "strings" => names = OnePath /\ tmp[0] = 0 /\ part[1][0] = 0
  /\ used = "paths" => mem = AsMemory(<<End, End, End, End, End>>)

MCNext ==
  \/ used = "strings" /\ StringsNext /\ UNCHANGED <<vars, used>>
  \/ used = "paths" /\ Next /\ UNCHANGED <<stringVars, used>>

MCSpec == MCInit /\ [][MCNext]_mcVars
=============================================================================
