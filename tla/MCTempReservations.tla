------------------------- MODULE MCTempReservations -------------------------
EXTENDS TempReservations, TLC

Symmetry == Permutations(Leases)

(* The worlds that are looked at: how large the CSV cache gets and how     *)
(* little space other programs leave.                                      *)
CONSTANTS MaxCache, MinFree
Bounded == cacheBytes <= MaxCache /\ free >= MinFree
=============================================================================
