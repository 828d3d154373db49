--------------------------- MODULE MCObjectList ---------------------------
(* Small heaps for TLC. *)
EXTENDS ObjectList, TLC

Symmetry == Permutations(Cells) \cup Permutations(Values)
============================================================================
