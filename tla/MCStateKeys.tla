----------------------------- MODULE MCStateKeys -----------------------------
(* Small instances of StateKeys for TLC.                                    *)
EXTENDS StateKeys, TLC

Symmetry == Permutations(Key) \cup Permutations(Row)
=============================================================================
