------------------------------ MODULE MC_Slice -------------------------------
(* Slice on small instances: threads, variables and buffers are alike.     *)
EXTENDS Slice, TLC

Symmetry == Permutations(Threads) \union Permutations(Vars) \union Permutations(Buffers)
=============================================================================
