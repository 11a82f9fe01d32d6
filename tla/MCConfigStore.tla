----------------------------- MODULE MCConfigStore -----------------------------
(* Small instances of ConfigStore for TLC.                                  *)
EXTENDS ConfigStore, TLC

Symmetry == Permutations(Process) \cup Permutations(Provider) \cup Permutations(Folder)
=============================================================================
