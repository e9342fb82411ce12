------------------------------- MODULE Stree -------------------------------
(***************************************************************************)
(* lib/stree.c: binary search trees of nodes that users keep in structures *)
(* of their own, with a comparison of theirs.                              *)
(*                                                                         *)
(* A walk that visits more nodes than there are goes round for ever: the   *)
(* call does not return.                                                   *)
(***************************************************************************)
EXTENDS Integers, FiniteSets

CONSTANTS
  Nodes, Roots,     \* the stree_nodes; those that are the root of a tree
  Key,              \* the key in the structure of each node
  Sought,           \* the keys users search for
  Null,             \* the null pointer
  MaxDeletes        \* bound: the number of calls of stree_del and node_move

ASSUME NodeAssumption ==
  /\ IsFiniteSet(Nodes) /\ Roots \subseteq Nodes /\ Null \notin Nodes
  /\ Key \in [Nodes -> Int] /\ Sought \subseteq Int
  /\ MaxDeletes \in Nat

VARIABLES
  link,     \* the fields lh, rh and parent, each a function on the nodes
  tree,     \* the root under which a user has put each node, or Null
  call,     \* the call that just returned: <<name, node or key, root>>
  answer,   \* what it returned
  status,   \* "ok"; "endless" in a walk that goes round; "wild" after a
            \* write through a null pointer
  deletes   \* the number of calls of stree_del and node_move

vars == <<link, tree, call, answer, status, deletes>>

Max == Cardinality(Nodes)
Alone == [n \in Nodes |-> Null]

Init ==
  /\ link = [lh |-> Alone, rh |-> Alone, parent |-> Alone]
  /\ tree = [n \in Nodes |-> IF n \in Roots THEN n ELSE Null]
  /\ call = <<"none", Null, Null>>
  /\ answer = Null
  /\ status = "ok"
  /\ deletes = 0

-----------------------------------------------------------------------------
(* The child the comparison leads to. *)
ChildFor(l, n, key) == IF key > Key[n] THEN l.rh[n] ELSE l.lh[n]

(* The nodes visited from n on, Next leading from each to the one after it. *)
Walk(n, Next(_)) ==
  LET node[k \in 0..Max] ==
        IF k = 0 THEN n ELSE IF node[k - 1] = Null THEN Null ELSE Next(node[k - 1])
  IN  node
First(S) == CHOOSE k \in S : \A j \in S : k <= j

(* stree_search. The case lt falls through to eq, which returns the left    *)
(* child whatever its key.                                                  *)
Search(root, key) ==
  LET node == Walk(root, LAMBDA n : link.rh[n])
      stops == {k \in 0..Max : node[k] = Null \/ key <= Key[node[k]]}
      last == node[First(stops)]
  IN  /\ status = "ok"
      /\ call' = <<"search", key, root>>
      /\ IF stops = {} THEN status' = "endless" /\ UNCHANGED answer
         ELSE /\ answer' = IF last # Null /\ key < Key[last] THEN link.lh[last] ELSE last
              /\ UNCHANGED status
      /\ UNCHANGED <<link, tree, deletes>>

(* Mutant: only the last node of the walk is compared for eq. *)
AddsAtLeaf(l, root, key) ==
  LET node == Walk(root, LAMBDA n : ChildFor(l, n, key))
      stops == {k \in 0..Max : node[k] # Null /\ ChildFor(l, node[k], key) = Null}
  IN  IF stops = {} THEN Null ELSE node[First(stops)]

(* Where stree_add ends its walk: at an equal key, or at a node without the *)
(* child it wants.                                                          *)
AddsAt(l, root, key) ==
  LET node == Walk(root, LAMBDA n : ChildFor(l, n, key))
      stops == {k \in 0..Max : /\ node[k] # Null
                               /\ Key[node[k]] = key \/ ChildFor(l, node[k], key) = Null}
  IN  IF stops = {} THEN Null ELSE node[First(stops)]

(* Mutant: the new node does not learn its parent. *)
LinkedOrphan(l, n, at) ==
  IF Key[n] > Key[at] THEN [l EXCEPT !.rh[at] = n] ELSE [l EXCEPT !.lh[at] = n]

(* The new node under the node where the walk has ended. *)
Linked(l, n, at) ==
  IF Key[n] > Key[at] THEN [l EXCEPT !.rh[at] = n, !.parent[n] = at]
                      ELSE [l EXCEPT !.lh[at] = n, !.parent[n] = at]

(* stree_add, from links l: an equal key is refused. *)
TreeAdd(l, n, root) ==
  LET at == AddsAt(l, root, Key[n])
  IN  /\ status' = IF at = Null THEN "endless" ELSE status
      /\ IF at = Null \/ Key[at] = Key[n]
         THEN link' = l /\ answer' = -1
         ELSE link' = Linked(l, n, at) /\ answer' = 0
      /\ tree' = [tree EXCEPT ![n] = IF answer' = 0 THEN root ELSE Null]

(* Users initialise a node (INIT_STREE_NODE) and add it. *)
Add(n, root) ==
  /\ status = "ok"
  /\ tree[n] = Null
  /\ call' = <<"add", n, root>>
  /\ TreeAdd([link EXCEPT !.lh[n] = Null, !.rh[n] = Null, !.parent[n] = Null], n, root)
  /\ UNCHANGED deletes

-----------------------------------------------------------------------------
(* Mutant: the left child itself, whatever is below it. *)
HeirNext(l, n) == l.lh[n]

(* The node stree_del puts in the place of n: its left child, or the        *)
(* rightmost node below that.                                               *)
Heir(l, n) ==
  LET node == Walk(l.lh[n], LAMBDA m : l.rh[m])
      ends == {k \in 0..Max : node[k] # Null /\ l.rh[node[k]] = Null}
  IN  IF ends = {} THEN Null ELSE node[First(ends)]

(* The links after stree_del of a node that has a parent. Without a left    *)
(* child a right child is left where it is; an heir becomes the right child *)
(* of the parent, also where it is the left one.  No parent link changes.   *)
Unlinked(l, n) ==
  LET p == l.parent[n]
      heir == Heir(l, n)
      placed == [l EXCEPT !.lh[p] = IF @ = n THEN heir ELSE @, !.rh[p] = heir]
      freed == [placed EXCEPT !.rh[l.parent[heir]] = l.lh[heir]]
  IN  IF l.lh[n] = Null
      THEN IF l.lh[p] = n THEN [l EXCEPT !.lh[p] = l.rh[n]] ELSE [l EXCEPT !.rh[p] = n]
      ELSE IF heir = l.lh[n] THEN [placed EXCEPT !.rh[heir] = placed.rh[n]]
      ELSE LET kept == [freed EXCEPT !.lh[heir] = freed.lh[n]]
           IN  [kept EXCEPT !.rh[heir] = kept.rh[n]]

(* What becomes of it: the parent of a deep heir is written to unchecked.   *)
DelFate(n) ==
  LET heir == Heir(link, n)
  IN  IF link.lh[n] = Null THEN "ok"
      ELSE IF heir = Null THEN "endless"
      ELSE IF heir # link.lh[n] /\ link.parent[heir] = Null THEN "wild" ELSE "ok"

(* stree_del *)
Del(n) ==
  /\ status = "ok"
  /\ deletes < MaxDeletes /\ tree[n] # Null
  /\ call' = <<"del", n, tree[n]>>
  /\ deletes' = deletes + 1
  /\ \/ /\ link.parent[n] = Null
        /\ answer' = -1
        /\ UNCHANGED <<link, tree, status>>
     \/ /\ link.parent[n] # Null /\ DelFate(n) = "ok"
        /\ link' = Unlinked(link, n)
        /\ tree' = [tree EXCEPT ![n] = Null]
        /\ answer' = 0
        /\ UNCHANGED status
     \/ /\ link.parent[n] # Null /\ DelFate(n) # "ok"
        /\ status' = DelFate(n)
        /\ UNCHANGED <<link, tree, answer>>

(* Mutant: the node is not taken out of its old tree. *)
NodeMoveKept(n, root) ==
  /\ status = "ok"
  /\ deletes < MaxDeletes /\ tree[n] \notin {Null, root} /\ n \notin Roots
  /\ call' = <<"move", n, root>>
  /\ deletes' = deletes + 1
  /\ TreeAdd(link, n, root)

(* node_move: both results are ignored, and the node keeps its children.    *)
NodeMove(n, root) ==
  /\ status = "ok"
  /\ deletes < MaxDeletes /\ tree[n] \notin {Null, root} /\ n \notin Roots
  /\ call' = <<"move", n, root>>
  /\ deletes' = deletes + 1
  /\ \/ DelFate(n) = "ok" /\ TreeAdd(Unlinked(link, n), n, root)
     \/ DelFate(n) # "ok" /\ status' = DelFate(n) /\ UNCHANGED <<link, tree, answer>>

Next == \/ \E root \in Roots, key \in Sought : Search(root, key)
        \/ \E n \in Nodes, root \in Roots : Add(n, root) \/ NodeMove(n, root)
        \/ \E n \in Nodes : Del(n)

Spec == Init /\ [][Next]_vars
=============================================================================
