--------------------------- MODULE MCPostgresAdmin ---------------------------
(* Model-checking instances of PostgresAdmin. *)
EXTENDS PostgresAdmin, TLC

Symmetry == Permutations(Attempts) \cup Permutations(Writes)
=============================================================================
