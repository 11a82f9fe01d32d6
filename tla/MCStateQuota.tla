----------------------------- MODULE MCStateQuota -----------------------------
(* Small instances of StateQuota for TLC: an attachment, a body and an entry *)
(* of another kind, each of which can fill the state together with another   *)
(* one or with an operation.                                                 *)
EXTENDS StateQuota, TLC

CONSTANTS e1, e2, e3

MCKindOf == e1 :> 1 @@ e2 :> 2 @@ e3 :> OtherKinds

Symmetry == Permutations(Writer) \cup Permutations(Token)
=============================================================================
