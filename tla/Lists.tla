------------------------------- MODULE Lists --------------------------------
(***************************************************************************)
(* includes/linux/list.h: circular doubly linked lists, and the loop that  *)
(* allows its body to remove the entry it stands at.                       *)
(*                                                                         *)
(* Callers are those the comments of list.h describe: they add what is in  *)
(* no list, take out what is in one, and use no head that was left behind. *)
(***************************************************************************)
EXTENDS Integers, Sequences, FiniteSets, SequencesExt

CONSTANTS
  Heads, Entries,
  NULL            \* LIST_POISON1 and LIST_POISON2 are both 0 (poison.h)

Nodes == Heads \cup Entries

ASSUME NodeAssumption ==
  /\ Heads \cap Entries = {} /\ NULL \notin Nodes
  /\ IsFiniteSet(Entries)

VARIABLES
  links,    \* next and prev of every node
  live,     \* the heads in use and the entries in their lists
  walk      \* a loop over a list: where it stands and what it has seen

listVars == <<links, live, walk>>

Idle == [head |-> NULL, way |-> "next", pos |-> NULL, n |-> NULL, seen |-> <<>>, due |-> <<>>]

ListsInit ==
  /\ links = [next |-> [x \in Nodes |-> NULL], prev |-> [x \in Nodes |-> NULL]]
  /\ live = {} /\ walk = Idle

-----------------------------------------------------------------------------
(* a->next = b and b->prev = a, which is all that any operation does.       *)
Link(l, a, b) == [next |-> [l.next EXCEPT ![a] = b], prev |-> [l.prev EXCEPT ![b] = a]]

INIT_LIST_HEAD(l, h) == Link(l, h, h)
AddBetween(l, new, p, n) == Link(Link(l, new, n), p, new)        \* __list_add
ListAdd(l, new, head) == AddBetween(l, new, head, l.next[head])
ListAddTail(l, new, head) == AddBetween(l, new, l.prev[head], head)
Unlink(l, entry) == Link(l, l.prev[entry], l.next[entry])        \* __list_del

(* Mutant: prev is set before the old one has been used. *)
ReplaceOneWay(l, old, new) ==
  [Link(l, new, l.next[old]) EXCEPT !.prev[new] = l.prev[old]]

Replace(l, old, new) ==
  LET l1 == Link(l, new, l.next[old])
  IN  Link(l1, l1.prev[old], new)

(* Mutant: the rest of the list is not joined to its head again. *)
CutOpen(l, list, head, entry) ==
  Link(Link(l, list, l.next[head]), entry, list)

Cut(l, list, head, entry) ==                           \* __list_cut_position
  Link(Link(Link(l, list, l.next[head]), entry, list), head, l.next[entry])

SpliceBetween(l, list, p, n) ==                              \* __list_splice
  Link(Link(l, p, l.next[list]), l.prev[list], n)

ListEmpty(h) == links.next[h] = h
ListEmptyCareful(h) == links.next[h] = h /\ links.next[h] = links.prev[h]
ListIsSingular(h) == ~ListEmpty(h) /\ links.next[h] = links.prev[h]
ListIsLast(x, h) == links.next[x] = h

(* The entries from head on, as list_for_each meets them.                   *)
Contents(head) ==
  LET step[k \in 0 .. Cardinality(Entries) + 1] ==
        IF k = 0 THEN head
        ELSE IF step[k - 1] \in Nodes THEN links.next[step[k - 1]] ELSE NULL
      back == {k \in 1 .. Cardinality(Entries) + 1 : step[k] = head}
      len == IF back = {} THEN Cardinality(Entries)
             ELSE (CHOOSE k \in back : \A j \in back : k <= j) - 1
  IN  [k \in 1 .. len |-> step[k]]

Listed == live \cap Entries
Ready == live \cap Heads

-----------------------------------------------------------------------------
(* Between loops: the calls.  new is the state of the links afterwards.     *)
Do(new) == walk = Idle /\ links' = new /\ UNCHANGED walk

Initialise(h) == h \in Heads \ live /\ Do(INIT_LIST_HEAD(links, h)) /\ live' = live \cup {h}

Add(e, h) ==
  /\ e \notin live /\ h \in Ready
  /\ Do(ListAdd(links, e, h)) \/ Do(ListAddTail(links, e, h))
  /\ live' = live \cup {e}

(* list_insert and list_insert_tail, at an entry or a head. *)
Insert(e, pos) ==
  /\ e \notin live /\ pos \in live
  /\ \/ Do(AddBetween(links, e, links.prev[pos], pos))
     \/ Do(AddBetween(links, e, pos, links.next[pos]))
  /\ live' = live \cup {e}

Poisoned(l, e) == [l EXCEPT !.next[e] = NULL, !.prev[e] = NULL]

(* list_del and list_del_init *)
Del(e) ==
  /\ e \in Listed
  /\ LET out == Unlink(links, e)
     IN  Do(Poisoned(out, e)) \/ Do(INIT_LIST_HEAD(out, e))
  /\ live' = live \ {e}

(* list_move and list_move_tail, also inside one list. *)
Move(e, h) ==
  /\ e \in Listed /\ h \in Ready
  /\ LET out == Unlink(links, e)
     IN  Do(ListAdd(out, e, h)) \/ Do(ListAddTail(out, e, h))
  /\ UNCHANGED live

(* list_replace and list_replace_init of an entry, or of a head, which      *)
(* stays in use if it is initialised.                                       *)
ReplaceEntry(e, new) ==
  /\ e \in Listed /\ new \notin live
  /\ LET out == Replace(links, e, new)
     IN  Do(out) \/ Do(INIT_LIST_HEAD(out, e))
  /\ live' = (live \ {e}) \cup {new}

ReplaceHead(h, new) ==
  /\ h \in Ready /\ new \notin live
  /\ LET out == Replace(links, h, new)
     IN  \/ Do(out) /\ live' = (live \ {h}) \cup {new}
         \/ Do(INIT_LIST_HEAD(out, h)) /\ live' = live \cup {new}

(* list_cut_position, for an empty list or a head that is not in use.       *)
CutPosition(list, head, entry) ==
  /\ list \in Heads \ {head} /\ head \in Ready
  /\ list \in live => ListEmpty(list)
  /\ entry = head \/ (entry \in Listed /\ entry \in {Contents(head)[k] : k \in DOMAIN Contents(head)})
  /\ \/ ListEmpty(head) /\ Do(links) /\ UNCHANGED live
     \/ /\ ~ListEmpty(head)
        /\ Do(IF entry = head THEN INIT_LIST_HEAD(links, list)
              ELSE Cut(links, list, head, entry))
        /\ live' = live \cup {list}

(* list_splice and list_splice_tail leave the head behind, the others       *)
(* initialise it.  No list has two heads.                                   *)
Splice(list, head) ==
  /\ list \in Ready /\ head \in Ready \ {list}
  /\ list \notin {links.next[head], links.prev[head]}
  /\ LET front == SpliceBetween(links, list, head, links.next[head])
         tail == SpliceBetween(links, list, links.prev[head], head)
     IN  IF ListEmpty(list) THEN Do(links) /\ UNCHANGED live
         ELSE \/ (Do(front) \/ Do(tail)) /\ live' = live \ {list}
              \/ /\ Do(INIT_LIST_HEAD(front, list)) \/ Do(INIT_LIST_HEAD(tail, list))
                 /\ UNCHANGED live

-----------------------------------------------------------------------------
(* list_for_each_safe and list_for_each_prev_safe, and the same with _entry: *)
(* n is read before the body runs.                                           *)
ForEachSafe(head, way) ==
  /\ walk = Idle /\ head \in Ready
  /\ LET pos == links[way][head]
         all == Contents(head)
     IN  walk' = [head |-> head, way |-> way, pos |-> pos, n |-> links[way][pos],
                  seen |-> <<>>, due |-> IF way = "next" THEN all ELSE Reverse(all)]
  /\ UNCHANGED <<links, live>>

(* Mutant: list_for_each, which reads next after the body. *)
ForEachNext ==
  /\ walk # Idle /\ walk.pos # walk.head
  /\ LET pos == links[walk.way][walk.pos]
     IN  walk' = [walk EXCEPT !.pos = pos, !.n = links[walk.way][pos],
                              !.seen = Append(walk.seen, walk.pos)]
  /\ UNCHANGED <<links, live>>

ForEachSafeNext ==
  /\ walk # Idle /\ walk.pos # walk.head
  /\ walk' = [walk EXCEPT !.pos = walk.n, !.n = links[walk.way][walk.n],
                          !.seen = Append(walk.seen, walk.pos)]
  /\ UNCHANGED <<links, live>>

(* The body removes the entry the loop stands at, or moves it away.         *)
Body ==
  /\ walk # Idle /\ walk.pos \in Listed
  /\ LET out == Unlink(links, walk.pos)
     IN  \/ /\ links' = INIT_LIST_HEAD(out, walk.pos)
            /\ live' = live \ {walk.pos}
         \/ /\ \E h \in Ready \ {walk.head} : links' = ListAddTail(out, walk.pos, h)
            /\ UNCHANGED live
  /\ UNCHANGED walk

ForEachSafeEnd ==
  /\ walk # Idle /\ walk.pos = walk.head
  /\ walk' = Idle
  /\ UNCHANGED <<links, live>>

ListsNext ==
  \/ \E h \in Heads : Initialise(h)
  \/ \E e \in Entries, h \in Heads : Add(e, h) \/ Move(e, h)
  \/ \E e \in Entries, pos \in Nodes : Insert(e, pos)
  \/ \E e \in Entries : Del(e)
  \/ \E e, new \in Entries : ReplaceEntry(e, new)
  \/ \E h, new \in Heads : ReplaceHead(h, new)
  \/ \E list, head \in Heads, entry \in Nodes : CutPosition(list, head, entry)
  \/ \E list, head \in Heads : Splice(list, head)
  \/ \E h \in Heads, way \in {"next", "prev"} : ForEachSafe(h, way)
  \/ ForEachSafeNext \/ Body \/ ForEachSafeEnd

ListsSpec == ListsInit /\ [][ListsNext]_listVars
=============================================================================
