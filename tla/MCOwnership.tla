---------------------------- MODULE MCOwnership ----------------------------
(* Ownership on a small instance: enough blocks for a chain of two owners  *)
(* and a bystander, enough frames for a block to escape past one.          *)
EXTENDS Ownership, TLC

Symmetry == Permutations(Block)
=============================================================================
