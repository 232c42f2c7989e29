-------------------------- MODULE MCAccountHistory --------------------------
(* Instances of AccountHistory.                                                *)
EXTENDS AccountHistory, TLC


Symmetry == Permutations(Jobs) \cup Permutations(Heights)
=============================================================================
