------------------------------ MODULE CacheReads ------------------------------
(***************************************************************************)
(* Reading the encrypted cache while others write it. Store.Get selects    *)
(* the entry's row and its chunks in two statements and no transaction;    *)
(* between them any process can replace the entry, delete it, or give its  *)
(* row id, which SQLite reuses, to another entry.                          *)
(***************************************************************************)
EXTENDS Naturals

CONSTANTS
  Slot,     \* pairs of namespace and key: what an entry is addressed by
  Value,    \* what can be stored
  Empty,    \* the value of length zero
  Reader,   \* calls of Get that can run at once
  MaxId     \* bound on row ids; the program has none

ASSUME ValueAssumption == Empty \in Value
ASSUME IdAssumption == MaxId \in Nat \ {0}

VARIABLES
  entry,    \* [Slot -> row id and value], id 0 where there is no row
  step,     \* [Reader -> ...], the next statement of a Get
  slot, id, \* [Reader -> ...], its arguments, and the id its first read found
  held,     \* [Reader -> SUBSET Value], values its entry has had since then
  answer    \* [Reader -> ...], what its last Get returned

readsVars == <<entry, step, slot, id, held, answer>>

NoEntry == [id |-> 0, value |-> Empty]
Stored  == {s \in Slot : entry[s].id # 0}

Answer == [found : BOOLEAN, value : Value]
Missing == [found |-> FALSE, value |-> Empty]
Found(v) == [found |-> TRUE, value |-> v]

ReadsTypeOK ==
  /\ entry \in [Slot -> [id : 0..MaxId, value : Value]]
  /\ step \in [Reader -> {"idle", "chunks", "drop"}]
  /\ slot \in [Reader -> Slot] /\ id \in [Reader -> 0..MaxId]
  /\ held \in [Reader -> SUBSET Value] /\ answer \in [Reader -> Answer]

ReadsInit ==
  /\ entry = [s \in Slot |-> NoEntry]
  /\ step = [p \in Reader |-> "idle"] /\ id = [p \in Reader |-> 0]
  /\ slot \in [Reader -> Slot]
  /\ held = [p \in Reader |-> {}] /\ answer = [p \in Reader |-> Missing]

\* Readers under way see what happens to their entry.
Watch ==
  held' = [p \in Reader |->
             IF step[p] = "chunks" /\ entry'[slot[p]].id # 0
             THEN held[p] \cup {entry'[slot[p]].value} ELSE held[p]]

\* INTEGER PRIMARY KEY without AUTOINCREMENT: one more than the largest in use.
IsNextId(n) ==
  /\ \A s \in Slot : entry[s].id < n
  /\ n = 1 \/ \E s \in Slot : entry[s].id + 1 = n

\* Put and Mutate: one transaction; an entry that exists keeps its row.
PutValue(s, v) ==
  /\ \E n \in 1..MaxId :
       /\ IF s \in Stored THEN n = entry[s].id ELSE IsNextId(n)
       /\ entry' = [entry EXCEPT ![s] = [id |-> n, value |-> v]]
  /\ Watch /\ UNCHANGED <<step, slot, id, answer>>

\* Clear, ClearConnection, Delete, the purge of expired entries, eviction.
RemoveEntries(S) ==
  /\ S # {} /\ S \subseteq Stored
  /\ entry' = [s \in Slot |-> IF s \in S THEN NoEntry ELSE entry[s]]
  /\ Watch /\ UNCHANGED <<step, slot, id, answer>>

\* Get's first statement. An entry may expire after the purge that precedes
\* it; Get then deletes the row it has found, unless it may be stale.
ReadRow(p, s) ==
  /\ step[p] = "idle" /\ slot' = [slot EXCEPT ![p] = s]
  /\ id' = [id EXCEPT ![p] = entry[s].id]
  /\ held' = [held EXCEPT ![p] = IF s \in Stored THEN {entry[s].value} ELSE {}]
  /\ answer' = [answer EXCEPT ![p] = Missing]
  /\ IF s \in Stored THEN \E next \in {"chunks", "drop"} :
                            step' = [step EXCEPT ![p] = next]
                     ELSE UNCHANGED step
  /\ UNCHANGED entry

\* DELETE FROM cache_entries WHERE id=?, whoever has that id by now.
DropExpired(p) ==
  /\ step[p] = "drop" /\ step' = [step EXCEPT ![p] = "idle"]
  /\ entry' = [s \in Slot |-> IF entry[s].id = id[p] THEN NoEntry ELSE entry[s]]
  /\ Watch /\ UNCHANGED <<slot, id, answer>>

\* The slip: chunks are not authenticated with the key of their entry.
OpensForAnySlot(p, s) == s \in Stored

\* chunkAAD: a chunk opens only under the namespace and key it was sealed with.
Opens(p, s) == s = slot[p]

\* Get's second statement: the chunks of the row id. If there are none the
\* loop does not run, and the entry is found with no bytes.
ReadChunks(p) ==
  LET owner == {s \in Stored : entry[s].id = id[p]} IN
  /\ step[p] = "chunks" /\ step' = [step EXCEPT ![p] = "idle"]
  /\ \/ owner = {} /\ answer' = [answer EXCEPT ![p] = Found(Empty)]
     \/ \E s \in owner :
          IF Opens(p, s)
          THEN answer' = [answer EXCEPT ![p] = Found(entry[s].value)]
          ELSE UNCHANGED answer
  /\ UNCHANGED <<entry, slot, id, held>>

ReadsNext ==
  \/ \E s \in Slot, v \in Value : PutValue(s, v)
  \/ \E S \in SUBSET Slot : RemoveEntries(S)
  \/ \E p \in Reader :
       DropExpired(p) \/ ReadChunks(p) \/ \E s \in Slot : ReadRow(p, s)

ReadsSpec == ReadsInit /\ [][ReadsNext]_readsVars

-----------------------------------------------------------------------------
\* Whoever gets a row id in between, no Get returns the bytes of another
\* entry, or bytes that its own entry has not had while the Get ran.
NoForeignBytes ==
  \A p \in Reader : answer[p].found /\ answer[p].value # Empty
    => answer[p].value \in held[p]

\* The same for every length: what is found is a value that was stored. The
\* docs call this a bounded stale read; an entry that vanishes in between is
\* found, empty, instead.
FoundWasStored ==
  \A p \in Reader : answer[p].found => answer[p].value \in held[p]

\* Behind it: while a Get waits for its chunks it has seen what they hold.
Watched ==
  \A p \in Reader : step[p] = "chunks" /\ slot[p] \in Stored
    => entry[slot[p]].value \in held[p]
=============================================================================
