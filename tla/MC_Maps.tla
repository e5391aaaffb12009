------------------------------- MODULE MC_Maps -------------------------------
(* Instances of Maps for TLC.                                               *)
EXTENDS Maps, TLC

CONSTANTS m, n
Lengths == [v \in MapVars |-> IF v = m THEN 3 ELSE 1]
Symmetric == Permutations(Keys \ {NaN})
=============================================================================
