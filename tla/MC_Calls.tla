------------------------------ MODULE MC_Calls -------------------------------
(* Instances of Calls for TLC.                                              *)
EXTENDS Calls

SmallestInt == -2
Depths == [t \in Threads |-> IF t = Main THEN 3 ELSE 2]
=============================================================================
