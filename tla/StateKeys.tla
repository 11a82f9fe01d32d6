------------------------------ MODULE StateKeys ------------------------------
(***************************************************************************)
(* The master key of the encrypted state: how state.Open finds it, how the *)
(* key-check marker keeps processes with another key from writing, and how *)
(* Store.Rekey replaces it in two places that no transaction spans, the    *)
(* database and the OS keychain.                                           *)
(*                                                                         *)
(* One action is one transaction, one read or one keychain call of one     *)
(* process. A process that rekeys is a `posthouse cache rekey` command: it *)
(* opens the state, rekeys it once and exits.                              *)
(***************************************************************************)

CONSTANTS
  Process,     \* posthouse processes that share the database
  Headless,    \* those that run with POSTHOUSE_CACHE_KEY, not the keychain
  Key, NoKey,  \* master keys, and the absence of one
  Row,         \* encrypted rows: cache chunks and operations
  OneAtATime   \* TRUE: nobody opens or rekeys while another does

ASSUME KeyAssumption == NoKey \notin Key
ASSUME ProcessAssumption == Headless \subseteq Process /\ OneAtATime \in BOOLEAN

VARIABLES
  marker,      \* key that the key-check row of state_meta is sealed with
  rows,        \* [Row -> Key], the key of each row's ciphertext, if it exists
  recovery,    \* the rekey recovery row: a key sealed by another
  keychain,    \* the credential for this state path
  phase, key   \* [Process -> ...]: the next step, and Store.key

keysVars == <<marker, rows, recovery, keychain, phase, key>>

NoRecovery == [by |-> NoKey, key |-> NoKey]

Opened == {"opened", "open", "ready"}
Busy   == {"check", "sample", "insert", "recover", "recheck", "promote",
           "opened", "ready", "activate", "drop"}

KeysTypeOK ==
  /\ marker \in Key \cup {NoKey} /\ keychain \in Key \cup {NoKey}
  /\ rows \in [Row -> Key \cup {NoKey}]
  /\ recovery \in [by : Key, key : Key] \cup {NoRecovery}
  /\ phase \in [Process -> {"idle", "open"} \cup Busy]
  /\ key \in [Process -> Key \cup {NoKey}]

\* A new database, or one from before the marker, under the keychain's key.
KeysInit ==
  /\ marker = NoKey /\ recovery = NoRecovery
  /\ keychain \in Key \cup {NoKey}
  /\ rows \in [Row -> {keychain, NoKey}]
  /\ phase = [p \in Process |-> "idle"] /\ key = [p \in Process |-> NoKey]

Goto(p, s) == phase' = [phase EXCEPT ![p] = s]

\* The process exits, by an error or for good.
Leave(p) == Goto(p, "idle") /\ key' = [key EXCEPT ![p] = NoKey]

\* Nobody else is opening or rekeying, where that is assumed.
MayStart(p) == OneAtATime => \A q \in Process \ {p} : phase[q] \notin Busy

-----------------------------------------------------------------------------
(* Opening.                                                                 *)

InUse(k) == k \in {marker, recovery.by, recovery.key} \cup {rows[r] : r \in Row}

\* serializedMasterKey: the environment's key, the keychain's, or a new random
\* one, which is stored before the lock on key creation is released.
LoadKey(p, k) ==
  /\ phase[p] = "idle" /\ MayStart(p)
  /\ \/ p \in Headless /\ UNCHANGED keychain
     \/ p \notin Headless /\ keychain = k /\ UNCHANGED keychain
     \/ p \notin Headless /\ keychain = NoKey /\ ~InUse(k) /\ keychain' = k
  /\ key' = [key EXCEPT ![p] = k] /\ Goto(p, "check")
  /\ UNCHANGED <<marker, rows, recovery>>

\* verifyKey, and Open's two ways on from its failure.
CheckMarker(p) ==
  /\ phase[p] = "check"
  /\ \/ marker = NoKey /\ Goto(p, "sample") /\ UNCHANGED key
     \/ marker = key[p] /\ Goto(p, "opened") /\ UNCHANGED key
     \/ /\ marker \notin {key[p], NoKey}
        /\ IF p \in Headless THEN Leave(p)
                             ELSE Goto(p, "recover") /\ UNCHANGED key
  /\ UNCHANGED <<marker, rows, recovery, keychain>>

\* verifyExistingCiphertext: one row must open with the key, if there is one.
Sample(p) ==
  /\ phase[p] = "sample"
  /\ \/ /\ \/ \A r \in Row : rows[r] = NoKey
           \/ key[p] \in {rows[r] : r \in Row}
        /\ Goto(p, "insert") /\ UNCHANGED key
     \/ /\ \E r \in Row : rows[r] \notin {key[p], NoKey}
        /\ IF p \in Headless THEN Leave(p)
                             ELSE Goto(p, "recover") /\ UNCHANGED key
  /\ UNCHANGED <<marker, rows, recovery, keychain>>

\* INSERT OR IGNORE; then the marker is read and verified once more.
InsertMarker(p) ==
  /\ phase[p] = "insert" /\ Goto(p, "check")
  /\ marker' = IF marker = NoKey THEN key[p] ELSE marker
  /\ UNCHANGED <<rows, recovery, keychain, key>>

\* The slip: the new key is sealed, and looked for, under itself.
SealedForNewKey(p) == recovery.key = key[p]

\* The recovery row opens with the key that the process has.
SealedFor(p) == recovery.by = key[p]

\* recoverRekeyKey.
ReadRecovery(p) ==
  /\ phase[p] = "recover"
  /\ IF recovery # NoRecovery /\ SealedFor(p)
     THEN key' = [key EXCEPT ![p] = recovery.key] /\ Goto(p, "recheck")
     ELSE Leave(p)
  /\ UNCHANGED <<marker, rows, recovery, keychain>>

\* OpenWithKey once more, with the recovered key.
Recheck(p) ==
  /\ phase[p] = "recheck"
  /\ IF marker = key[p] THEN Goto(p, "promote") /\ UNCHANGED key ELSE Leave(p)
  /\ UNCHANGED <<marker, rows, recovery, keychain>>

\* Open stores the recovered key in the keychain.
Promote(p) ==
  /\ phase[p] = "promote" /\ keychain' = key[p] /\ Goto(p, "opened")
  /\ UNCHANGED <<marker, rows, recovery, key>>

\* A successful Open deletes the recovery row, whatever it holds; if that
\* fails nobody notices. A server goes on to its work, a rekey command to the
\* rekeying.
ClearRecovery(p) ==
  /\ phase[p] = "opened" /\ recovery' \in {NoRecovery, recovery}
  /\ Goto(p, "open") \/ Goto(p, "ready")
  /\ UNCHANGED <<marker, rows, keychain, key>>

-----------------------------------------------------------------------------
(* Using the state.                                                         *)

\* The slip: writers do not look at the marker again.
CurrentWhenOpened(p) == key[p] # NoKey

\* lockAndVerifyKey, with the database's write lock held.
Current(p) == marker = key[p]

\* Every transaction that writes ciphertext: Put, Mutate, PutOperation,
\* updateOperation.
Write(p, r) ==
  /\ phase[p] = "open" /\ Current(p) /\ rows' = [rows EXCEPT ![r] = key[p]]
  /\ UNCHANGED <<marker, recovery, keychain, phase, key>>

\* Deletions look at no key: purgeExpired, evict, Clear, Delete.
RemoveRow(p, r) ==
  /\ phase[p] \in Opened /\ rows' = [rows EXCEPT ![r] = NoKey]
  /\ UNCHANGED <<marker, recovery, keychain, phase, key>>

-----------------------------------------------------------------------------
(* Rekeying.                                                                *)

\* The slip: the record is sealed with the key that is not in the keychain.
RecordUnderNewKey(p, k) == [by |-> k, key |-> k]

RecoveryRecord(p, k) == [by |-> key[p], key |-> k]

\* Rekey's transaction. A row that does not open with the current key, or a
\* stale key, aborts it.
Rekey(p, k) ==
  /\ phase[p] = "ready" /\ Current(p)
  /\ \A r \in Row : rows[r] \in {NoKey, key[p]}
  /\ rows' = [r \in Row |-> IF rows[r] = NoKey THEN NoKey ELSE k]
  /\ marker' = k
  /\ IF p \in Headless
     THEN Leave(p) /\ UNCHANGED recovery
     ELSE /\ recovery' = RecoveryRecord(p, k)
          /\ key' = [key EXCEPT ![p] = k] /\ Goto(p, "activate")
  /\ UNCHANGED keychain

\* The keychain gets the committed key.
Activate(p) ==
  /\ phase[p] = "activate" /\ keychain' = key[p] /\ Goto(p, "drop")
  /\ UNCHANGED <<marker, rows, recovery, key>>

DropRecovery(p) ==
  /\ phase[p] = "drop" /\ recovery' \in {NoRecovery, recovery} /\ Leave(p)
  /\ UNCHANGED <<marker, rows, keychain>>

\* A server is stopped, or a command is done.
Exit(p) ==
  /\ phase[p] \in {"open", "ready"} /\ Leave(p)
  /\ UNCHANGED <<marker, rows, recovery, keychain>>

\* The process dies, the disk or the keychain fails: Open and Rekey return.
Stop(p) ==
  /\ phase[p] \in Busy /\ Leave(p)
  /\ UNCHANGED <<marker, rows, recovery, keychain>>

-----------------------------------------------------------------------------
Proceed(p) ==
  \/ CheckMarker(p) \/ Sample(p) \/ InsertMarker(p)
  \/ ReadRecovery(p) \/ Recheck(p) \/ Promote(p) \/ ClearRecovery(p)
  \/ Activate(p) \/ DropRecovery(p) \/ Exit(p)

KeysNext ==
  \E p \in Process :
    \/ Proceed(p) \/ Stop(p)
    \/ \E k \in Key : LoadKey(p, k) \/ Rekey(p, k)
    \/ \E r \in Row : Write(p, r) \/ RemoveRow(p, r)

KeysSpec == KeysInit /\ [][KeysNext]_keysVars

(* Posthouse is started again and again, its commands come to an end, and   *)
(* the keychain does not fail every time it is asked.                       *)
Fairness ==
  \A p \in Process :
    /\ WF_keysVars(Proceed(p)) /\ SF_keysVars(\E k \in Key : LoadKey(p, k))
    /\ SF_keysVars(CheckMarker(p)) /\ SF_keysVars(ReadRecovery(p))
    /\ SF_keysVars(Recheck(p)) /\ SF_keysVars(Promote(p))

FairKeysSpec == KeysSpec /\ Fairness

-----------------------------------------------------------------------------
(* Properties.                                                              *)

\* "preventing stale processes from persisting old-key ciphertext": once there
\* is a marker, every row opens with the key that opens the marker.
OneKey == marker # NoKey => \A r \in Row : rows[r] \in {NoKey, marker}

\* The keychain leads to the database's key: it holds it, or it holds the key
\* of the recovery row that does, or a live process is about to store it.
Recoverable ==
  marker # NoKey =>
    \/ keychain = marker
    \/ recovery = [by |-> keychain, key |-> marker]
    \/ \E p \in Process :
         phase[p] \in {"activate", "promote"} /\ key[p] = marker

\* Nobody deletes the recovery row while the keychain depends on it.
RecoveryKept ==
  [][recovery = [by |-> keychain, key |-> marker] /\ keychain # marker
       /\ recovery' = NoRecovery => keychain' = marker']_keysVars

\* The inductive invariant behind OneKey: before there is a marker the rows
\* have one key, and it is the key of whoever is about to write the marker.
KeyInv ==
  /\ KeysTypeOK /\ OneKey
  /\ marker = NoKey => \A r, s \in Row : {rows[r], rows[s]} \subseteq Key
                                         => rows[r] = rows[s]
  /\ \A p \in Process :
       /\ phase[p] # "idle" => key[p] # NoKey
       /\ phase[p] = "insert" /\ marker = NoKey =>
            \A r \in Row : rows[r] \in {NoKey, key[p]}

\* The one behind Recoverable, where processes open and rekey one at a time
\* and all of them use the keychain.
Led == keychain = marker \/ recovery = [by |-> keychain, key |-> marker]

LeadInv ==
  /\ KeyInv
  /\ marker # NoKey => Led
  /\ \A p, q \in Process : phase[p] \in Busy /\ phase[q] \in Busy => p = q
  /\ \A p \in Process :
       /\ phase[p] \in {"check", "sample", "insert", "recover"} =>
            keychain = key[p]
       /\ phase[p] = "recheck" => recovery = [by |-> keychain, key |-> key[p]]
       /\ phase[p] = "promote" => marker = key[p]
       /\ phase[p] \in {"opened", "ready", "drop"} =>
            marker = key[p] /\ keychain = key[p]
       /\ phase[p] = "activate" => marker = key[p]

\* "startup completes that promotion after an interruption".
PromotionCompletes == marker # NoKey ~> keychain = marker
=============================================================================
