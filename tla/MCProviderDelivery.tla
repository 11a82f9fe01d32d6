-------------------------- MODULE MCProviderDelivery --------------------------
(* A small instance of ProviderDelivery for TLC.                            *)
EXTENDS ProviderDelivery, TLC

Symmetry == Permutations(Op)

\* Two operations on a message make four versions at most. Those of one event
\* make more only if it is deleted between redirected requests to create it.
FewVersions == item.version <= MaxVersion + 4

\* A capability that no operation asks for is absent: it would only repeat the
\* states that the others reach.
OnlyWhatIsAskedFor ==
  LET kinds == {kind[o] : o \in Op} IN
  /\ kinds \cap Snapshots = {} => ~server.condstore
  /\ kinds \cap {"draft", "redraft"} = {} => ~server.uidplus
  /\ "move" \notin kinds => ~server.move
  /\ kinds \cap CalKind = {} => ~server.late \/ Late = {TRUE}
=============================================================================
