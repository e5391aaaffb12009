------------------------------ MODULE MC_Items -------------------------------
(* Instances of Items for TLC.                                              *)
EXTENDS Items, TLC

Symmetric == Permutations(Vars) \union Permutations(Values)
=============================================================================
