------------------------------ MODULE MCStree ------------------------------
(* Two trees and four nodes for them, smaller and larger than one root, one *)
(* with its key, and all in the left subtree of the other: deep enough to   *)
(* delete a node whose heir is two links below it.                          *)
EXTENDS StreeProps, TLC

CONSTANTS r1, r2, n1, n2, n3, n4
MCNodes == {r1, r2, n1, n2, n3, n4}
MCKey == r1 :> 9 @@ r2 :> 2 @@ n1 :> 1 @@ n2 :> 2 @@ n3 :> 4 @@ n4 :> 3
=============================================================================
