----------------------------- MODULE MCLiveStats ------------------------------
(* A small instance of LiveStats: two filters.                                 *)
EXTENDS LiveStats, TLC

Symmetry == Permutations(Slots) \cup Permutations(Params)
=============================================================================
