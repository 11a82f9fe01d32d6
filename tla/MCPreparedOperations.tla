------------------------- MODULE MCPreparedOperations -------------------------
(* Small instances of PreparedOperations for TLC.                          *)
EXTENDS PreparedOperations, TLC

\* "send" stands for the two-step writes (SMTP submission and sent copy; draft
\* append and cleanup), "batch" for mark and move of several messages,
\* "single" for the writes of one call.
MCKind == {"send", "batch", "single"}
MCParts == [k \in Kind |-> IF k = "single" THEN 1 ELSE 2]

\* At most one of the connection, the attachment file and the policy is not as it
\* was at first. The safety properties are proved without this.
OneEdit ==
  \/ config = SomeConnection /\ file = EmptyFile
  \/ config = SomeConnection /\ ~denied
  \/ file = EmptyFile /\ ~denied
=============================================================================
