---------------------------- MODULE MCMessageReads ----------------------------
(* Small instances of MessageReads for TLC.                                 *)
EXTENDS MessageReads, TLC

Symmetry == Permutations(Reader)
=============================================================================
