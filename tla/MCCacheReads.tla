----------------------------- MODULE MCCacheReads -----------------------------
(* Small instances of CacheReads for TLC.                                   *)
EXTENDS CacheReads, TLC

Symmetry == Permutations(Slot) \cup Permutations(Reader)
=============================================================================
