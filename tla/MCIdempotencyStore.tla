------------------------- MODULE MCIdempotencyStore -------------------------
(* Three fingerprints for a store of two entries and three bytes, bodies   *)
(* that fit, that force an eviction and that are too large, and a clock    *)
(* that passes the window.                                                 *)
EXTENDS IdempotencyStore

Symmetry == Permutations(Fps) \cup Permutations(Jobs)
=============================================================================
