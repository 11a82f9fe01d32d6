------------------------------ MODULE MCHttpGuard ------------------------------
(* Small instances of HttpGuard for TLC.                                    *)
EXTENDS HttpGuard, TLC

Symmetry == Permutations(Client) \cup Permutations(Request)
=============================================================================
