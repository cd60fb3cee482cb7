-------------------------- MODULE MCLowStockCache --------------------------
(***************************************************************************)
(* Small instances of LowStockCache for TLC.                               *)
(***************************************************************************)
EXTENDS LowStockCache, TLC

CONSTANTS r1, r2, w1, w2, low, high

CacheSymmetry == Permutations(Readers) \cup Permutations(Writers) \cup Permutations(Thresholds)
=============================================================================
