----------------------------- MODULE StreeProps -----------------------------
(***************************************************************************)
(* What users of the search trees rely on.                                 *)
(***************************************************************************)
EXTENDS Stree

(* The nodes below n with links l, n included. *)
Under(l, n) ==
  LET level[k \in 0..Max] ==
        IF k = 0 THEN {n} \ {Null}
        ELSE level[k - 1] \cup
               (({l.lh[m] : m \in level[k - 1]} \cup {l.rh[m] : m \in level[k - 1]}) \ {Null})
  IN  level[Max]
Below(n) == Under(link, n)

(* Until something is deleted, a tree reaches exactly the nodes that users  *)
(* added, each through one link and in the order of the keys, and every     *)
(* node knows its parent, which stree_del depends on.                       *)
Reached == \A root \in Roots : Below(root) = {n \in Nodes : tree[n] = root}
InTrees == {n \in Nodes : tree[n] # Null}
InOrder == \A n \in InTrees : /\ \A m \in Below(link.lh[n]) : Key[m] < Key[n]
                              /\ \A m \in Below(link.rh[n]) : Key[m] > Key[n]
ParentsKnown == \A n \in InTrees, m \in Nodes :
                  (link.lh[n] = m \/ link.rh[n] = m) => link.parent[m] = n
Sound == Reached /\ InOrder /\ ParentsKnown
TreesSound == deletes = 0 => Sound

(* The inductive invariant of the proofs: what Sound says, with D[n] for    *)
(* the nodes below n, and that links lead upwards as they lead down.        *)
Shape(l, t, D) ==
  /\ \A n \in Nodes : t[n] = Null => l.lh[n] = Null /\ l.rh[n] = Null /\ l.parent[n] = Null
  /\ \A r \in Roots : t[r] = r /\ D[r] = {n \in Nodes : t[n] = r}
  /\ \A n \in Nodes :
       /\ D[n] = {n} \cup D[l.lh[n]] \cup D[l.rh[n]]
       /\ \A m \in D[l.lh[n]] : Key[m] < Key[n]
       /\ \A m \in D[l.rh[n]] : Key[m] > Key[n]
       /\ \A m \in D[n] : t[m] = t[n] /\ D[m] \subseteq D[n] /\ (m # n => l.parent[m] \in D[n])
       /\ \A m \in {l.lh[n], l.rh[n]} \ {Null} : l.parent[m] = n
       /\ l.parent[n] # Null => n \in {l.lh[l.parent[n]], l.rh[l.parent[n]]}
Linkage == [lh : [Nodes -> Nodes \cup {Null}], rh : [Nodes -> Nodes \cup {Null}],
            parent : [Nodes -> Nodes \cup {Null}]]
ShapeInv ==
  /\ link \in Linkage /\ tree \in [Nodes -> Roots \cup {Null}]
  /\ Shape(link, tree, [n \in Nodes \cup {Null} |-> Below(n)])
TreesInv == deletes \in Nat /\ (deletes = 0 => ShapeInv)

(* stree_add refuses a node exactly when its key is in the tree already.    *)
KeysOf(root) == {Key[n] : n \in Below(root)}
RefusesEqual ==
  call' # call /\ call'[1] = "add" /\ deletes = 0 =>
    (answer' = -1 <=> Key[call'[2]] \in KeysOf(call'[3]))
AddsOnce == [][RefusesEqual]_vars

(* Where stree_del does what its name says: out of a sound tree it takes a  *)
(* left child without left child, or a right child with one, and leaves the *)
(* tree with every other node and in order, whatever subtrees have to move. *)
Removable(n) ==
  LET p == link.parent[n]
  IN  p # Null /\ \/ link.lh[p] = n /\ link.lh[n] = Null
                  \/ link.rh[p] = n /\ link.lh[n] # Null
Removes ==
  call' # call /\ call'[1] = "del" /\ Removable(call'[2]) /\ Sound
    => answer' = 0 /\ Reached' /\ InOrder'
DeletesWhereItCan == [][Removes]_vars

(* And node_move of a leaf on the left leaves both trees sound, parents     *)
(* included; where the other tree refuses the key the node is in neither.   *)
Leaf(n) == link.lh[n] = Null /\ link.rh[n] = Null
Moves ==
  call' # call /\ call'[1] = "move"
    /\ Leaf(call'[2]) /\ Removable(call'[2]) /\ Sound
    => Sound' /\ (answer' = 0 <=> Key[call'[2]] \notin KeysOf(call'[3]))
MovesLeaves == [][Moves]_vars

(* "stree_search ,search an key int the binary serach tree" (lib/stree.c:7):*)
(* it returns the node that has the key, and null if there is none.         *)
SearchFinds ==
  call[1] = "search" =>
    LET having == {n \in Below(call[3]) : Key[n] = call[2]}
    IN  IF having = {} THEN answer = Null ELSE answer \in having
=============================================================================
