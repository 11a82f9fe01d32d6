------------------------------ MODULE StateQuota ------------------------------
(***************************************************************************)
(* The size limit of the encrypted state. Cache entries and the            *)
(* reservations of prepared operations share it: a write is admitted if it *)
(* fits beside the reservations, is committed, and the writer then evicts  *)
(* cache entries until the state fits again. The eviction runs outside the *)
(* transaction, one statement at a time, against the evictions and writes  *)
(* of every other process.                                                 *)
(***************************************************************************)
EXTENDS FiniteSetsExt, Integers

CONSTANTS
  Writer,     \* writers that can run at once
  Entry,      \* cache entries
  KindOf,     \* [Entry -> 1..OtherKinds], in the order of eviction
  Token,      \* prepared operations
  NoToken,    \* and the absence of one
  Size,       \* sizes of entries and reservations
  Limit,      \* maxBytes
  Alone       \* TRUE: nothing changes the state between an eviction's steps

\* attachment, message_body, event, message_metadata are evicted in this order,
\* then everything else.
OtherKinds == 5

ASSUME LimitAssumption == Limit \in Nat /\ Alone \in BOOLEAN
ASSUME SizeAssumption == Size \subseteq Nat \ {0}
ASSUME TokenAssumption == NoToken \notin Token
ASSUME KindAssumption == KindOf \in [Entry -> 1..OtherKinds]
ASSUME FiniteAssumption == IsFiniteSet(Entry) /\ IsFiniteSet(Token)

VARIABLES
  size,       \* [Entry -> Nat], size_bytes, 0 where there is no entry
  reserved,   \* [Token -> Nat], reserved_bytes, 0 where there is no row
  pc,         \* [Writer -> ...], the next statement of its eviction
  stage,      \* [Writer -> 1..OtherKinds], the kind it is evicting
  bytes,      \* [Writer -> Nat], what Stats has counted
  mine,       \* [Writer -> Token or NoToken], the operation just stored
  abandoned   \* some writer has not finished its eviction

vars == <<size, reserved, pc, stage, bytes, mine, abandoned>>

Cached  == {e \in Entry : size[e] > 0}
Rows    == {t \in Token : reserved[t] > 0}
Bytes   == SumFunction(size)
Claimed(S) == SumFunctionOnSet(reserved, S)

TypeOK ==
  /\ size \in [Entry -> Nat] /\ reserved \in [Token -> Nat]
  /\ pc \in [Writer -> {"idle", "entries", "operations", "evict", "refuse"}]
  /\ stage \in [Writer -> 1..OtherKinds] /\ bytes \in [Writer -> Nat]
  /\ mine \in [Writer -> Token \cup {NoToken}] /\ abandoned \in BOOLEAN

Init ==
  /\ size = [e \in Entry |-> 0] /\ reserved = [t \in Token |-> 0]
  /\ pc = [p \in Writer |-> "idle"] /\ stage = [p \in Writer |-> 1]
  /\ bytes = [p \in Writer |-> 0] /\ mine = [p \in Writer |-> NoToken]
  /\ abandoned = FALSE

\* Nobody is evicting, where that is assumed; what Stats purges itself goes
\* before it counts.
Quiet == Alone => \A p \in Writer : pc[p] \in {"idle", "entries"}

-----------------------------------------------------------------------------
(* Writing.                                                                 *)

\* The slip: the sum is compared before the new bytes are added to it.
AdmitsOneMore(S, n) == Claimed(S) < Limit

\* n more bytes fit beside the reservations of the rows in S.
Admits(S, n) == Claimed(S) + n <= Limit

\* A writer that has committed goes on to evict.
StartEviction(p, t) ==
  /\ pc' = [pc EXCEPT ![p] = "entries"] /\ mine' = [mine EXCEPT ![p] = t]
  /\ stage' = [stage EXCEPT ![p] = 1] /\ bytes' = [bytes EXCEPT ![p] = 0]

\* Put and Mutate: ensureCacheEntryFitsTx and putEntryTx.
Put(p, e, n) ==
  /\ pc[p] = "idle" /\ Admits(Rows, n)
  /\ size' = [size EXCEPT ![e] = n] /\ StartEviction(p, NoToken)
  /\ UNCHANGED <<reserved, abandoned>>

\* PutOperation, with its purge of old rows in the same transaction.
PutOperation(p, t, n, old) ==
  /\ pc[p] = "idle" /\ t \notin Rows /\ old \subseteq Rows
  /\ Admits(Rows \ old, n)
  /\ reserved' = [u \in Token |-> IF u = t THEN n
                                  ELSE IF u \in old THEN 0 ELSE reserved[u]]
  /\ StartEviction(p, t) /\ UNCHANGED <<size, abandoned>>

\* updateOperation: the claim keeps the reservation, the result shrinks it to
\* the ciphertext, which must not exceed it.
UpdateOperation(t, n) ==
  /\ Quiet /\ t \in Rows /\ n <= reserved[t] /\ Admits(Rows \ {t}, n)
  /\ reserved' = [reserved EXCEPT ![t] = n]
  /\ UNCHANGED <<size, pc, stage, bytes, mine, abandoned>>

\* Clear, ClearConnection, Delete, the purge of expired entries.
Remove(S) ==
  /\ Quiet /\ S # {} /\ S \subseteq Cached
  /\ size' = [e \in Entry |-> IF e \in S THEN 0 ELSE size[e]]
  /\ UNCHANGED <<reserved, pc, stage, bytes, mine, abandoned>>

-----------------------------------------------------------------------------
(* Evicting.                                                                *)

Finish(p) ==
  /\ pc' = [pc EXCEPT ![p] = "idle"]
  /\ mine' = [mine EXCEPT ![p] = NoToken]

\* Stats, first statement.
CountEntries(p) ==
  /\ pc[p] = "entries" /\ pc' = [pc EXCEPT ![p] = "operations"]
  /\ bytes' = [bytes EXCEPT ![p] = Bytes]
  /\ UNCHANGED <<size, reserved, stage, mine, abandoned>>

\* The slip: the limit is compared with the cache alone.
CachedBytes(p) == bytes[p]

\* What Stats returns.
StateBytes(p) == bytes[p] + Claimed(Rows)

\* Stats, second statement, and the test of the eviction's loops.
CountOperations(p) ==
  /\ pc[p] = "operations" /\ bytes' = [bytes EXCEPT ![p] = StateBytes(p)]
  /\ IF StateBytes(p) > Limit
     THEN pc' = [pc EXCEPT ![p] = "evict"] /\ UNCHANGED mine
     ELSE Finish(p)
  /\ UNCHANGED <<size, reserved, stage, abandoned>>

\* The slip: the kinds the loop names are all there are.
CandidatesOfNamedKinds(p) ==
  {e \in Cached : KindOf[e] = stage[p] /\ stage[p] < OtherKinds}

\* The slip: the query does not filter by kind.
CandidatesOfAnyKind(p) == Cached

\* The least recently used of these goes; access times are not modelled, so it
\* may be any of them.
Candidates(p) ==
  {e \in Cached : stage[p] < OtherKinds => KindOf[e] = stage[p]}

Evict(p, e) ==
  /\ pc[p] = "evict" /\ e \in Candidates(p)
  /\ size' = [size EXCEPT ![e] = 0] /\ pc' = [pc EXCEPT ![p] = "entries"]
  /\ UNCHANGED <<reserved, stage, bytes, mine, abandoned>>

\* The slip: one kind too many.
LastKindOffByOne(p) == stage[p] > OtherKinds

LastKind(p) == stage[p] = OtherKinds

\* Nothing was deleted: on to the next kind, and after the last one to an
\* error, with the numbers of the last Stats.
NoneLeft(p) ==
  /\ pc[p] = "evict" /\ Candidates(p) = {}
  /\ IF LastKind(p)
     THEN pc' = [pc EXCEPT ![p] = "refuse"] /\ UNCHANGED stage
     ELSE stage' = [stage EXCEPT ![p] = @ + 1] /\ UNCHANGED pc
  /\ UNCHANGED <<size, reserved, bytes, mine, abandoned>>

\* "encrypted state exceeds configured limit": PutOperation takes the
\* operation back, Put leaves the entry.
Refuse(p) ==
  /\ pc[p] = "refuse"
  /\ reserved' = [t \in Token |-> IF t = mine[p] THEN 0 ELSE reserved[t]]
  /\ Finish(p) /\ UNCHANGED <<size, stage, bytes, abandoned>>

\* The writer dies, or its request is cancelled, before the eviction is over;
\* the deletion of its operation may fail for the same reason.
Abandon(p) ==
  /\ pc[p] # "idle" /\ Finish(p) /\ abandoned' = TRUE
  /\ \/ UNCHANGED reserved
     \/ /\ mine[p] # NoToken
        /\ reserved' = [reserved EXCEPT ![mine[p]] = 0]
  /\ UNCHANGED <<size, stage, bytes>>

-----------------------------------------------------------------------------
Next ==
  \/ \E S \in SUBSET Entry : Remove(S)
  \/ \E t \in Token, n \in Size : UpdateOperation(t, n)
  \/ \E p \in Writer :
       \/ \E e \in Entry, n \in Size : Put(p, e, n)
       \/ \E t \in Token, n \in Size, old \in SUBSET Token :
            PutOperation(p, t, n, old)
       \/ CountEntries(p) \/ CountOperations(p) \/ NoneLeft(p) \/ Refuse(p)
       \/ Abandon(p)
       \/ \E e \in Entry : Evict(p, e)

Spec == Init /\ [][Next]_vars

-----------------------------------------------------------------------------
\* The reservations alone never exceed the limit, so that the result of every
\* operation that was prepared can be recorded (store.go updateOperation).
ReservationsFit == Claimed(Token) <= Limit

\* "The cache is bounded": the state exceeds its limit only while a writer is
\* evicting, or after one was kept from it.
StateIsBounded ==
  Bytes + Claimed(Token) > Limit
    => abandoned \/ \E p \in Writer : pc[p] # "idle"

\* No write that was admitted is taken back for want of room: what it needs can
\* always be evicted.
AdmittedWritesStay == \A p \in Writer : pc[p] # "refuse"

\* "evicts attachments before bodies": an eviction removes an entry only when
\* none is left of a kind that goes first.
EvictionInOrder ==
  [][\A p \in Writer : pc[p] = "evict" /\ pc'[p] = "entries"
       => \A e, f \in Cached : size'[e] = 0 => KindOf[e] <= KindOf[f]]_vars
=============================================================================
