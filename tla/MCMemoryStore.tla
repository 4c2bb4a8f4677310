--------------------------- MODULE MCMemoryStore ---------------------------
(* Model-checking instances of MemoryStore. *)
EXTENDS MemoryStore, TLC

Symmetry == Permutations(Attempts) \cup Permutations(Stores) \cup Permutations(Ids)
=============================================================================
