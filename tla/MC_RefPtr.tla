------------------------------ MODULE MC_RefPtr ------------------------------
(* RefPtr on small instances: threads, variables and cells are alike.      *)
EXTENDS RefPtr, TLC

Symmetry == Permutations(Threads) \union Permutations(Vars) \union Permutations(Cells)
=============================================================================
