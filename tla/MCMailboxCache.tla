---------------------------- MODULE MCMailboxCache ----------------------------
(* Small instances of MailboxCache for TLC.                                 *)
EXTENDS MailboxCache, TLC

Symmetry == Permutations(Reader)

Active == {r \in Reader : pc[r] # "idle"}

\* Nobody has seen a message.
NoMessages ==
  /\ next = 1 /\ scoped.next <= 1 /\ index.next <= 1
  /\ \A r \in Reader : res[r].next <= 1 /\ cur[r].next <= 1

(* Three shapes in one run: one search where things fail, of two messages;   *)
(* one search where nothing does, of four; and two searches of an empty      *)
(* mailbox that is recreated twice, for the races of their marker.           *)
Shape ==
  \/ faulty /\ Cardinality(Active) <= 1 /\ gen <= 2 /\ next <= 3
  \/ ~faulty /\ Cardinality(Active) <= 1 /\ gen <= 2
  \/ faulty /\ NoMessages
=============================================================================
