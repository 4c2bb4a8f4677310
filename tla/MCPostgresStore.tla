--------------------------- MODULE MCPostgresStore ---------------------------
(* Model-checking instances of PostgresStore. *)
EXTENDS PostgresStore, TLC

Symmetry == Permutations(Attempts) \cup Permutations(Ids) \cup Permutations(Writes)
=============================================================================
