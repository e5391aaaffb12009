------------------------------ MODULE MC_Boxes ------------------------------
(* Instances of Boxes for TLC.                                              *)
EXTENDS Boxes, TLC

Symmetric == Permutations(Cells) \union Permutations(Ptrs) \union Permutations(Anys)
=============================================================================
