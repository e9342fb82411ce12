----------------------------- MODULE ListsProps -----------------------------
(***************************************************************************)
(* What users of list.h rely on.                                           *)
(***************************************************************************)
EXTENDS Lists

(* Every head in use and every entry in a list points to one that points    *)
(* back, both ways, whatever calls were made before: no call leaves a       *)
(* pointer to what has been taken out, or half of an entry linked           *)
(* (list.h:49-325).                                                         *)
Sound(l, nodes) ==
  \A x \in nodes : /\ l.next[x] \in nodes /\ l.prev[l.next[x]] = x
                   /\ l.prev[x] \in nodes /\ l.next[l.prev[x]] = x
RingsSound == Sound(links, live)

Lists == [h \in Ready |-> Contents(h)]
At(s, e) == CHOOSE k \in DOMAIN s : s[k] = e
Without(e) ==
  [h \in Ready |-> IF \E k \in DOMAIN Lists[h] : Lists[h][k] = e
                   THEN RemoveAt(Lists[h], At(Lists[h], e)) ELSE Lists[h]]
Given(heads, h, s) == [g \in heads |-> IF g = h THEN s ELSE Lists[g]]

(* What each call makes of the lists, taken as sequences.  Calls that leave *)
(* all links as they were (joining or cutting an empty list, and the tests) *)
(* change no list.                                                          *)
AddRight ==                        \* INIT_LIST_HEAD, list_add, list_insert
  /\ \A h \in Heads \ live :
       links' = INIT_LIST_HEAD(links, h) => Lists' = Given(Ready \cup {h}, h, <<>>)
  /\ \A e \in Entries \ live, h \in Ready :
       /\ links' = ListAdd(links, e, h) =>
            Lists' = Given(Ready, h, <<e>> \o Lists[h])
       /\ links' = ListAddTail(links, e, h) =>
            Lists' = Given(Ready, h, Append(Lists[h], e))
       /\ \A k \in DOMAIN Lists[h] :
            LET pos == Lists[h][k]
            IN  /\ links' = AddBetween(links, e, links.prev[pos], pos) =>
                     Lists' = Given(Ready, h, InsertAt(Lists[h], k, e))
                /\ links' = AddBetween(links, e, pos, links.next[pos]) =>
                     Lists' = Given(Ready, h, InsertAt(Lists[h], k + 1, e))

DelRight ==                              \* list_del(_init), list_move(_tail)
  \A e \in Listed :
    LET out == Unlink(links, e)
    IN  /\ links' \in {Poisoned(out, e), INIT_LIST_HEAD(out, e)} => Lists' = Without(e)
        /\ \A h \in Ready :
             /\ links' = ListAdd(out, e, h) =>
                  Lists' = [Without(e) EXCEPT ![h] = <<e>> \o @]
             /\ links' = ListAddTail(out, e, h) =>
                  Lists' = [Without(e) EXCEPT ![h] = Append(@, e)]

ReplaceRight ==             \* list_replace(_init), of an entry or of a head
  \A h \in Ready :
    /\ \A k \in DOMAIN Lists[h], new \in Entries \ live :
         LET old == Lists[h][k]
             out == Replace(links, old, new)
         IN  links' \in {out, INIT_LIST_HEAD(out, old)} =>
               Lists' = Given(Ready, h, [Lists[h] EXCEPT ![k] = new])
    /\ \A new \in Heads \ live :
         LET out == Replace(links, h, new)
         IN  /\ links' = out => Lists' = Given((Ready \ {h}) \cup {new}, new, Lists[h])
             /\ links' = INIT_LIST_HEAD(out, h) =>
                  Lists' = [Given(Ready \cup {new}, new, Lists[h]) EXCEPT ![h] = <<>>]

CutRight ==                     \* list_cut_position, at an entry or the head
  \A h \in Ready, list \in Heads :
    h # list /\ (list \in live => ListEmpty(list)) =>
    /\ links' = INIT_LIST_HEAD(links, list) =>
         Lists' = Given(Ready \cup {list}, list, <<>>)
    /\ \A k \in DOMAIN Lists[h] :
         links' = Cut(links, list, h, Lists[h][k]) =>
           Lists' = [Given(Ready \cup {list}, list, SubSeq(Lists[h], 1, k))
                       EXCEPT ![h] = SubSeq(@, k + 1, Len(@))]

SpliceRight ==                              \* list_splice(_tail)(_init)
  \A h, list \in Ready :
    h # list /\ Lists[list] # <<>> =>
    LET front == SpliceBetween(links, list, h, links.next[h])
        tail == SpliceBetween(links, list, links.prev[h], h)
    IN  /\ links' = front =>
             Lists' = Given(Ready \ {list}, h, Lists[list] \o Lists[h])
        /\ links' = tail =>
             Lists' = Given(Ready \ {list}, h, Lists[h] \o Lists[list])
        /\ links' = INIT_LIST_HEAD(front, list) =>
             Lists' = [Lists EXCEPT ![h] = Lists[list] \o @, ![list] = <<>>]
        /\ links' = INIT_LIST_HEAD(tail, list) =>
             Lists' = [Lists EXCEPT ![h] = @ \o Lists[list], ![list] = <<>>]

CallRight ==
  /\ links' = links => Lists' = Lists
  /\ AddRight /\ DelRight /\ ReplaceRight /\ CutRight /\ SpliceRight

(* Each call that changes links changes the lists, taken as sequences, as   *)
(* its comment says and no other list: where an entry comes to stand, in    *)
(* which order lists are joined, what is left of one that is cut, and which *)
(* heads are in use after a call that leaves one behind or initialises it   *)
(* (list.h:35-345).                                                         *)
CallsRight == [][CallRight]_listVars

(* A loop that is "safe against removal of list entry" (list.h:398) sees    *)
(* every entry once and in order whatever its body does with the one it     *)
(* stands at; and the tests answer what the list is, by looking at one or   *)
(* two pointers.                                                            *)
SeenRight ==
  /\ walk # Idle =>
       Append(walk.seen, walk.pos) = SubSeq(Append(walk.due, walk.head), 1, Len(walk.seen) + 1)
  /\ \A h \in Ready :
       /\ ListEmpty(h) <=> Contents(h) = <<>>
       /\ ListEmptyCareful(h) <=> Contents(h) = <<>>
       /\ ListIsSingular(h) <=> Len(Contents(h)) = 1
       /\ \A k \in DOMAIN Contents(h) :
            ListIsLast(Contents(h)[k], h) <=> k = Len(Contents(h))

(* The inductive invariant of the proofs.  Each ring in use belongs to one  *)
(* head, which is the only one in it.                                       *)
Owned(l, nodes, owner) ==
  /\ owner \in [nodes -> nodes \cap Heads]
  /\ \A h \in nodes \cap Heads : owner[h] = h
  /\ \A x \in nodes : owner[l.next[x]] = owner[x]
OneHead == \E owner \in [live -> Ready] : Owned(links, live, owner)

(* What a head that is not in use points to never points back.              *)
LeftBehind(l, nodes) ==
  \A h \in Heads \ nodes : l.next[h] \in Nodes => l.prev[l.next[h]] # h
NoneJoins == LeftBehind(links, live)

(* And a loop stands at the entry after those it has seen.  Those that come *)
(* after the one it stands at are linked as they were when it began.        *)
LoopRight(l, nodes, w) ==
  LET way == Append(w.due, w.head)
      i == Len(w.seen) + 1
  IN  /\ w.head \in nodes \cap Heads
      /\ w.due \in Seq(Entries) /\ IsInjective(w.due)
      /\ i \in 1 .. Len(w.due) + 1 /\ w.seen = SubSeq(w.due, 1, i - 1)
      /\ w.pos = way[i]
      /\ i <= Len(w.due) => w.n = way[i + 1]
      /\ \A j \in i + 1 .. Len(w.due) :
           w.due[j] \in nodes /\ l[w.way][w.due[j]] = way[j + 1]
LoopInv == walk # Idle => LoopRight(links, live, walk)
=============================================================================
