--------------------------- MODULE MCCacheMigration ---------------------------
(* CacheMigration with the windows interchangeable. *)
EXTENDS CacheMigration, TLC

Symmetry == Permutations(Windows)
=============================================================================
