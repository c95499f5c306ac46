--------------------------- MODULE MCRuntimeHeap ---------------------------
(* Three blocks: a chain, two siblings in either order, a bystander; three *)
(* frames: a graph can move past one in the middle.                        *)
EXTENDS RuntimeHeap, TLC

Symmetry == Permutations(Block)
=============================================================================
