--------------------------- MODULE MC_ThreadHandle ---------------------------
(* ThreadHandle on small instances: callers, values and threads are alike. *)
EXTENDS ThreadHandle, TLC

Symmetry == Permutations(Callers) \union Permutations(Values) \union Permutations(Natives)
=============================================================================
