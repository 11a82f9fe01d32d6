--------------------------- MODULE OperationPromise ---------------------------
(***************************************************************************)
(* What preparing and executing an operation promises, whoever executes it *)
(* and however often: CONTEXT.md's "prepared operation", seen without      *)
(* callers, clocks, files or configuration. A token is claimed once; only  *)
(* the claim's holder reaches the provider, and makes each call at most    *)
(* once; the final status is written once, and is all anybody is told.     *)
(***************************************************************************)
EXTENDS Naturals

CONSTANTS Token, MaxParts

VARIABLES
  status,    \* [Token -> Status]
  parts,     \* [Token -> SUBSET 1..MaxParts], the provider calls approved
  live,      \* [Token -> BOOLEAN], the claim's holder may still act
  applied,   \* [Token -> [1..MaxParts -> Nat]], effects at the provider
  told       \* [Token -> SUBSET Outcome], final statuses returned

vars == <<status, parts, live, applied, told>>

Outcome == {"succeeded", "failed", "uncertain", "interrupted"}

Init ==
  /\ status = [t \in Token |-> "unused"]
  /\ parts \in [Token -> SUBSET (1..MaxParts)]
  /\ live = [t \in Token |-> FALSE]
  /\ applied = [t \in Token |-> [i \in 1..MaxParts |-> 0]]
  /\ told = [t \in Token |-> {}]

\* Preparing t may drop old rows, whatever their status.
Prepare(t, S, old) ==
  /\ status[t] = "unused" /\ \A u \in old : status[u] # "unused"
  /\ status' = [u \in Token |-> IF u = t THEN "prepared"
                                ELSE IF u \in old THEN "purged" ELSE status[u]]
  /\ parts' = [parts EXCEPT ![t] = S]
  /\ UNCHANGED <<live, applied, told>>

Claim(t) ==
  /\ status[t] = "prepared"
  /\ status' = [status EXCEPT ![t] = "executing"]
  /\ live' = [live EXCEPT ![t] = TRUE]
  /\ UNCHANGED <<parts, applied, told>>

\* The holder makes call i, perhaps its last.
Apply(t, i, more) ==
  /\ live[t] /\ i \in parts[t] /\ applied[t][i] = 0
  /\ applied' = [applied EXCEPT ![t][i] = 1]
  /\ live' = [live EXCEPT ![t] = more]
  /\ UNCHANGED <<status, parts, told>>

\* The holder has finished, failed or died.
Stop(t) ==
  /\ live[t] /\ live' = [live EXCEPT ![t] = FALSE]
  /\ UNCHANGED <<status, parts, applied, told>>

\* A final status is recorded: by the holder, once it is done and truthfully,
\* or as interrupted by somebody who could not wait any longer.
Decide(t, o) ==
  /\ status[t] = "executing"
  /\ o # "interrupted" => ~live[t]
  /\ o = "succeeded" => \A i \in parts[t] : applied[t][i] = 1
  /\ o = "failed" => \A i \in parts[t] : applied[t][i] = 0
  /\ status' = [status EXCEPT ![t] = o]
  /\ told' = [told EXCEPT ![t] = @ \cup {o}]
  /\ UNCHANGED <<parts, live, applied>>

Answer(t) ==
  /\ status[t] \in Outcome
  /\ told' = [told EXCEPT ![t] = @ \cup {status[t]}]
  /\ UNCHANGED <<status, parts, live, applied>>

Next ==
  \E t \in Token :
    \/ \E S \in SUBSET (1..MaxParts), old \in SUBSET Token : Prepare(t, S, old)
    \/ Claim(t) \/ Stop(t) \/ Answer(t)
    \/ \E i \in 1..MaxParts, more \in BOOLEAN : Apply(t, i, more)
    \/ \E o \in Outcome : Decide(t, o)

Spec == Init /\ [][Next]_vars
=============================================================================
