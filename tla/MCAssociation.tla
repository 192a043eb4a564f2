--------------------------- MODULE MCAssociation ---------------------------
(* An instance of Association for TLC: four children of which two have the *)
(* same name, and blocks and parents that cannot be told apart.            *)
EXTENDS Association, TLC

CONSTANTS c1, c2, c3, c4, b1, b2, b3

Names == c1 :> 1 @@ c2 :> 1 @@ c3 :> 2 @@ c4 :> 3

Symmetry == Permutations(Parents) \cup Permutations(Blocks)
=============================================================================
