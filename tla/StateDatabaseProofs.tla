------------------------- MODULE StateDatabaseProofs -------------------------
(***************************************************************************)
(* Proofs about the state database: its master key (StateKeys), the two    *)
(* statements of a Get (CacheReads), and its size limit (StateQuota), for  *)
(* any number of processes, keys, rows, entries and readers.               *)
(***************************************************************************)
EXTENDS StateKeys, CacheReads, StateQuota, FiniteSetTheorems,
        WellFoundedInduction, TLAPS

-----------------------------------------------------------------------------
(* The master key: KeyInv and LeadInv of StateKeys.                         *)

(* The initial states satisfy the invariant behind OneKey.                  *)
LEMMA KeyInvInit == KeysInit => KeyInv
BY KeyAssumption
   DEF KeysInit, KeyInv, KeysTypeOK, OneKey, NoRecovery, Busy

(* Every step keeps it: the marker guards every writer, and rekeying        *)
(* replaces all the ciphertext together with the marker.                    *)
LEMMA KeyInvNext == KeyInv /\ [KeysNext]_keysVars => KeyInv'
<1> SUFFICES ASSUME KeyInv, [KeysNext]_keysVars PROVE KeyInv'
  OBVIOUS
<1>0. KeysTypeOK /\ OneKey
  BY DEF KeyInv
<1> USE KeyAssumption
<1>1. ASSUME NEW p \in Process, NEW k \in Key, LoadKey(p, k) PROVE KeyInv'
  BY <1>1 DEF LoadKey, Goto, KeyInv, KeysTypeOK, OneKey, Busy, NoRecovery
<1>2. ASSUME NEW p \in Process, CheckMarker(p) PROVE KeyInv'
  BY <1>2
     DEF CheckMarker, Leave, Goto, KeyInv, KeysTypeOK, OneKey, Busy, NoRecovery
<1>3. ASSUME NEW p \in Process, Sample(p) PROVE KeyInv'
  BY <1>3 DEF Sample, Leave, Goto, KeyInv, KeysTypeOK, OneKey, Busy, NoRecovery
<1>4. ASSUME NEW p \in Process, InsertMarker(p) PROVE KeyInv'
  BY <1>4 DEF InsertMarker, Goto, KeyInv, KeysTypeOK, OneKey, Busy, NoRecovery
<1>5. ASSUME NEW p \in Process, ReadRecovery(p) PROVE KeyInv'
  BY <1>5
     DEF ReadRecovery, Leave, Goto, KeyInv, KeysTypeOK, OneKey, Busy, NoRecovery
<1>6. ASSUME NEW p \in Process, Recheck(p) \/ Promote(p) PROVE KeyInv'
  BY <1>6 DEF Recheck, Promote, Leave, Goto, KeyInv, KeysTypeOK, OneKey, Busy,
              NoRecovery
<1>7. ASSUME NEW p \in Process, ClearRecovery(p) PROVE KeyInv'
  BY <1>7 DEF ClearRecovery, Goto, KeyInv, KeysTypeOK, OneKey, Busy, NoRecovery
<1>8. ASSUME NEW p \in Process, Activate(p) \/ DropRecovery(p) PROVE KeyInv'
  BY <1>8
     DEF Activate, DropRecovery, Leave, Goto, KeyInv, KeysTypeOK, OneKey, Busy,
         NoRecovery
<1>9. ASSUME NEW p \in Process, Exit(p) \/ Stop(p) PROVE KeyInv'
  BY <1>9
     DEF Exit, Stop, Leave, Goto, KeyInv, KeysTypeOK, OneKey, Busy, NoRecovery
<1>10. ASSUME NEW p \in Process, NEW k \in Key, Rekey(p, k) PROVE KeyInv'
  BY <1>10 DEF Rekey, Current, RecoveryRecord, Leave, Goto, KeyInv, KeysTypeOK,
               OneKey, Busy, NoRecovery
<1>11. ASSUME NEW p \in Process, NEW r \in Row, Write(p, r) PROVE KeyInv'
  BY <1>11 DEF Write, Current, KeyInv, KeysTypeOK, OneKey, NoRecovery
<1>12. ASSUME NEW p \in Process, NEW r \in Row, RemoveRow(p, r) PROVE KeyInv'
  BY <1>12 DEF RemoveRow, KeyInv, KeysTypeOK, OneKey, NoRecovery
<1>13. CASE UNCHANGED keysVars
  BY <1>13 DEF keysVars, KeyInv, KeysTypeOK, OneKey
<1> QED
  BY <1>1, <1>2, <1>3, <1>4, <1>5, <1>6, <1>7, <1>8, <1>9, <1>10, <1>11, <1>12,
     <1>13
     DEF KeysNext, Proceed

(* Once there is a key-check marker, whatever races, crashes and rekeyings  *)
(* there are, every ciphertext opens with the marker's key (state.go's      *)
(* lockAndVerifyKey and verifyKey).                                         *)
THEOREM AlwaysOneKey == KeysSpec => []OneKey
<1>1. KeyInv => OneKey
  BY DEF KeyInv
<1> QED BY <1>1, KeyInvInit, KeyInvNext, PTL DEF KeysSpec

-----------------------------------------------------------------------------
(* Processes that use the keychain and open or rekey one at a time.         *)

(* No marker yet, and nobody has opened the state.                          *)
LEMMA LeadInvInit == KeysInit => LeadInv
BY KeyInvInit DEF KeysInit, LeadInv, Busy

(* Between any two steps the keychain holds the marker's key or the key of  *)
(* the recovery row that does, and whoever opens or rekeys knows which.     *)
LEMMA LeadInvNext ==
  ASSUME OneAtATime = TRUE, Headless = {}, LeadInv, [KeysNext]_keysVars
  PROVE  LeadInv'
<1>0. /\ KeyInv' /\ KeysTypeOK
  BY KeyInvNext DEF LeadInv, KeyInv
<1> USE KeyAssumption
<1>1. ASSUME NEW p \in Process, NEW k \in Key, LoadKey(p, k) PROVE LeadInv'
  BY <1>0, <1>1
     DEF LoadKey, MayStart, Goto, LeadInv, Led, KeysTypeOK, Busy, NoRecovery
<1>2. ASSUME NEW p \in Process, CheckMarker(p) PROVE LeadInv'
  BY <1>0, <1>2 DEF CheckMarker, Leave, Goto, LeadInv, Led, KeysTypeOK, Busy
<1>3. ASSUME NEW p \in Process, Sample(p) PROVE LeadInv'
  BY <1>0, <1>3 DEF Sample, Leave, Goto, LeadInv, Led, KeysTypeOK, Busy
<1>4. ASSUME NEW p \in Process, InsertMarker(p) PROVE LeadInv'
  BY <1>0, <1>4 DEF InsertMarker, Goto, LeadInv, Led, KeysTypeOK, Busy
<1>5. ASSUME NEW p \in Process, ReadRecovery(p) PROVE LeadInv'
  BY <1>0, <1>5
     DEF ReadRecovery, SealedFor, Leave, Goto, LeadInv, Led, KeysTypeOK,
         Busy, NoRecovery
<1>6. ASSUME NEW p \in Process, Recheck(p) \/ Promote(p) PROVE LeadInv'
  BY <1>0, <1>6
     DEF Recheck, Promote, Leave, Goto, LeadInv, Led, KeysTypeOK, Busy
<1>7. ASSUME NEW p \in Process, ClearRecovery(p) PROVE LeadInv'
  BY <1>0, <1>7
     DEF ClearRecovery, Goto, LeadInv, Led, KeysTypeOK, Busy, NoRecovery
<1>8. ASSUME NEW p \in Process, Activate(p) \/ DropRecovery(p) PROVE LeadInv'
  BY <1>0, <1>8
     DEF Activate, DropRecovery, Leave, Goto, LeadInv, Led, KeysTypeOK,
         Busy, NoRecovery
<1>9. ASSUME NEW p \in Process, Exit(p) \/ Stop(p) PROVE LeadInv'
  BY <1>0, <1>9 DEF Exit, Stop, Leave, Goto, LeadInv, Led, KeysTypeOK, Busy
<1>10. ASSUME NEW p \in Process, NEW k \in Key, Rekey(p, k) PROVE LeadInv'
  BY <1>0, <1>10 DEF Rekey, Current, RecoveryRecord, Leave, Goto, LeadInv, Led,
                     KeysTypeOK, Busy
<1>11. ASSUME NEW p \in Process, NEW r \in Row, Write(p, r) \/ RemoveRow(p, r)
       PROVE  LeadInv'
  BY <1>0, <1>11 DEF Write, RemoveRow, LeadInv, Led
<1>12. CASE UNCHANGED keysVars
  BY <1>0, <1>12 DEF keysVars, LeadInv, Led
<1> QED
  BY <1>1, <1>2, <1>3, <1>4, <1>5, <1>6, <1>7, <1>8, <1>9, <1>10, <1>11, <1>12
     DEF KeysNext, Proceed

(* Where nobody opens or rekeys while another does, and all processes use   *)
(* the keychain, an interruption of a rekey at any point leaves a database  *)
(* that the keychain leads to: startup can complete the promotion.          *)
THEOREM KeychainLeads ==
  ASSUME OneAtATime = TRUE, Headless = {}
  PROVE  KeysSpec => []Recoverable
<1>1. LeadInv => Recoverable
  BY DEF LeadInv, Led, Recoverable
<1>2. LeadInv /\ [KeysNext]_keysVars => LeadInv'
  BY LeadInvNext
<1> QED BY <1>1, <1>2, LeadInvInit, PTL DEF KeysSpec

-----------------------------------------------------------------------------
(* The two statements of a Get.                                             *)

ReadsInv == ReadsTypeOK /\ Watched /\ NoForeignBytes

\* A new cache has no rows and no readers.
LEMMA ReadsInvInit == ReadsInit => ReadsInv
<1> SUFFICES ASSUME ReadsInit PROVE ReadsInv
  OBVIOUS
<1>1. ReadsTypeOK
  BY ValueAssumption, IdAssumption
  DEF ReadsInit, ReadsTypeOK, NoEntry, Missing, Answer
<1>2. Watched /\ NoForeignBytes
  BY DEF ReadsInit, Watched, NoForeignBytes, Missing
<1> QED
  BY <1>1, <1>2 DEF ReadsInv

\* Watching keeps what was held, and adds what the entry has now.
LEMMA WatchHolds ==
  ASSUME ReadsTypeOK, Watch, UNCHANGED slot,
         entry' \in [Slot -> [id : 0..MaxId, value : Value]],
         \A p \in Reader : step'[p] = "chunks" => step[p] = "chunks"
  PROVE  /\ held' \in [Reader -> SUBSET Value]
         /\ \A p \in Reader : held[p] \subseteq held'[p]
         /\ Watched'
BY DEF ReadsTypeOK, Watch, Watched, Stored

\* No statement of a reader or a writer breaks the invariant.
LEMMA ReadsInvNext == ReadsInv /\ [ReadsNext]_readsVars => ReadsInv'
<1> SUFFICES ASSUME ReadsInv, [ReadsNext]_readsVars PROVE ReadsInv'
  OBVIOUS
<1> USE DEF ReadsInv
<1>1. ASSUME NEW s \in Slot, NEW v \in Value, PutValue(s, v) PROVE ReadsInv'
  <2>1. entry' \in [Slot -> [id : 0..MaxId, value : Value]]
    BY <1>1, IdAssumption DEF PutValue, ReadsTypeOK
  <2>2. Watch /\ UNCHANGED <<step, slot, id, answer>>
    BY <1>1 DEF PutValue
  <2> QED
    BY <2>1, <2>2, WatchHolds DEF ReadsTypeOK, NoForeignBytes
<1>2. ASSUME NEW S \in SUBSET Slot, RemoveEntries(S) PROVE ReadsInv'
  <2>1. entry' \in [Slot -> [id : 0..MaxId, value : Value]]
    BY <1>2, ValueAssumption, IdAssumption
       DEF RemoveEntries, ReadsTypeOK, NoEntry
  <2>2. Watch /\ UNCHANGED <<step, slot, id, answer>>
    BY <1>2 DEF RemoveEntries
  <2> QED
    BY <2>1, <2>2, WatchHolds DEF ReadsTypeOK, NoForeignBytes
<1>3. ASSUME NEW p \in Reader, NEW s \in Slot, ReadRow(p, s) PROVE ReadsInv'
  <2>1. ReadsTypeOK'
    BY <1>3, ValueAssumption, IdAssumption
    DEF ReadRow, ReadsTypeOK, Missing, Answer, Stored
  <2>2. Watched'
    BY <1>3 DEF ReadRow, ReadsTypeOK, Watched, Stored
  <2>3. NoForeignBytes'
    BY <1>3 DEF ReadRow, ReadsTypeOK, NoForeignBytes, Missing
  <2> QED
    BY <2>1, <2>2, <2>3
<1>4. ASSUME NEW p \in Reader, DropExpired(p) PROVE ReadsInv'
  <2>1. entry' \in [Slot -> [id : 0..MaxId, value : Value]]
    BY <1>4, ValueAssumption, IdAssumption DEF DropExpired, ReadsTypeOK, NoEntry
  <2>2. /\ step[p] = "drop" /\ step' = [step EXCEPT ![p] = "idle"]
        /\ Watch /\ UNCHANGED <<slot, id, answer>>
    BY <1>4 DEF DropExpired
  <2>3. /\ held' \in [Reader -> SUBSET Value]
        /\ \A q \in Reader : held[q] \subseteq held'[q]
        /\ Watched'
    <3>1. \A q \in Reader : step'[q] = "chunks" => step[q] = "chunks"
      BY <2>2 DEF ReadsTypeOK
    <3> QED
      BY <3>1, <2>1, <2>2, WatchHolds
  <2>4. ReadsTypeOK'
    BY <2>1, <2>2, <2>3 DEF ReadsTypeOK
  <2>5. NoForeignBytes'
    BY <2>2, <2>3 DEF ReadsTypeOK, NoForeignBytes
  <2> QED
    BY <2>3, <2>4, <2>5
<1>5. ASSUME NEW p \in Reader, ReadChunks(p) PROVE ReadsInv'
  <2>1. /\ step[p] = "chunks" /\ step' = [step EXCEPT ![p] = "idle"]
        /\ UNCHANGED <<entry, slot, id, held>>
    BY <1>5 DEF ReadChunks
  <2>2. \/ answer' = [answer EXCEPT ![p] = Found(Empty)]
        \/ UNCHANGED answer
        \/ /\ slot[p] \in Stored
           /\ answer' = [answer EXCEPT ![p] = Found(entry[slot[p]].value)]
    BY <1>5 DEF ReadChunks, Opens
  <2>3. ReadsTypeOK'
    <3>1. /\ Found(Empty) \in Answer
          /\ Found(entry[slot[p]].value) \in Answer
      BY ValueAssumption DEF ReadsTypeOK, Found, Answer
    <3>2. answer' \in [Reader -> Answer]
      BY <3>1, <2>2 DEF ReadsTypeOK
    <3> QED
      BY <3>2, <2>1 DEF ReadsTypeOK
  <2>4. Watched'
    BY <2>1 DEF ReadsTypeOK, Watched, Stored
  <2>5. NoForeignBytes'
    BY <2>1, <2>2 DEF ReadsTypeOK, Watched, NoForeignBytes, Found
  <2> QED
    BY <2>3, <2>4, <2>5
<1>6. CASE UNCHANGED readsVars
  BY <1>6 DEF readsVars, ReadsTypeOK, Watched, NoForeignBytes, Stored
<1> QED
  BY <1>1, <1>2, <1>3, <1>4, <1>5, <1>6 DEF ReadsNext

\* Whatever happens to rows and row ids between the two statements of a Get,
\* it returns no other entry's bytes and none its entry has not had meanwhile.
THEOREM OwnBytesOnly == ReadsSpec => []NoForeignBytes
<1>1. ReadsSpec => []ReadsInv
  BY ReadsInvInit, ReadsInvNext, PTL DEF ReadsSpec
<1> QED
  BY <1>1, PTL DEF ReadsInv

-----------------------------------------------------------------------------
(* Sums over finite sets, for the bytes that StateQuota counts.             *)

\* Of the bad subsets of a finite set, one is the least: what takes the place of
\* an induction here.
LEMMA LeastBad ==
  ASSUME NEW S, IsFiniteSet(S), NEW Bad \in SUBSET SUBSET S, Bad # {}
  PROVE  \E T \in Bad : IsFiniteSet(T) /\ \A U \in Bad : U \subseteq T => U = T
<1> DEFINE R == StrictSubsetOrdering(S)
           F == FiniteSubsetsOf(S)
<1>1. IsWellFoundedOn(R, F)
  BY FS_StrictSubsetOrderingWellFounded
<1>2. Bad \subseteq F
  BY FS_Subset DEF FiniteSubsetsOf
<1>3. PICK T \in Bad : \A U \in Bad : ~ (<<U, T>> \in R)
  <2> HIDE DEF R, F
  <2> QED
    BY <1>1, <1>2, WFMin
<1>4. \A U \in Bad : U \subseteq T => U = T
  BY <1>3 DEF StrictSubsetOrdering
<1> QED
  BY <1>3, <1>4, FS_Subset

\* SumFunctionOnSet as its definition unfolds: the table of the sums of all
\* subsets, in which each set is counted from some element on.
Least(s) == CHOOSE x \in s : TRUE
Of(f, s, it) == IF s = {} THEN 0 ELSE f[Least(s)] + it[s \ {Least(s)}]
Solves(f, S, it) == it = [s \in SUBSET S |-> Of(f, s, it)]
Table(f, S) == CHOOSE it : Solves(f, S, it)

\* The sum is the last entry of its table.
LEMMA SumIsTable ==
  ASSUME NEW f, NEW S
  PROVE  SumFunctionOnSet(f, S) = Table(f, S)[S]
BY DEF SumFunctionOnSet, FoldFunctionOnSet, MapThenFoldSet, Table, Solves, Of,
       Least

\* Two tables agree on the sets that both have.
LEMMA SolutionsAgree ==
  ASSUME NEW f, NEW S, NEW T, IsFiniteSet(S), NEW it, NEW jt,
         Solves(f, S, it), Solves(f, T, jt), NEW X \in SUBSET (S \cap T)
  PROVE  it[X] = jt[X]
<1> DEFINE Bad == {U \in SUBSET (S \cap T) : it[U] # jt[U]}
<1> SUFFICES ASSUME Bad # {} PROVE FALSE
  OBVIOUS
<1>1. IsFiniteSet(S \cap T)
  BY FS_Subset
<1>2. PICK U \in Bad : \A V \in Bad : V \subseteq U => V = U
  <2> HIDE DEF Bad
  <2>1. Bad \in SUBSET SUBSET (S \cap T)
    BY DEF Bad
  <2> QED
    BY <1>1, <2>1, LeastBad
<1>3. it[U] = Of(f, U, it) /\ jt[U] = Of(f, U, jt)
  BY DEF Solves
<1>4. U # {} => Least(U) \in U
  BY DEF Least
<1>5. U # {} => it[U \ {Least(U)}] = jt[U \ {Least(U)}]
  BY <1>2, <1>4
<1> QED
  BY <1>3, <1>5 DEF Of

\* There is a table for every finite set: the definition means something.
LEMMA SumSolves ==
  ASSUME NEW f, NEW S, IsFiniteSet(S) PROVE Solves(f, S, Table(f, S))
<1> DEFINE Bad == {T \in SUBSET S : ~Solves(f, T, Table(f, T))}
<1> SUFFICES ASSUME Bad # {} PROVE FALSE
  OBVIOUS
<1>1. PICK T \in Bad : IsFiniteSet(T) /\ \A U \in Bad : U \subseteq T => U = T
  <2> HIDE DEF Bad
  <2>1. Bad \in SUBSET SUBSET S
    BY DEF Bad
  <2> QED
    BY <2>1, LeastBad
<1> DEFINE sum(s) == Table(f, s)[s]
           it == [s \in SUBSET T |->
                    IF s = T THEN IF T = {} THEN 0
                                  ELSE f[Least(T)] + sum(T \ {Least(T)})
                             ELSE sum(s)]
<1>2. \A s \in SUBSET T : s # T => Solves(f, s, Table(f, s)) /\ IsFiniteSet(s)
  BY <1>1, FS_Subset
<1>3. ASSUME NEW s \in SUBSET T PROVE it[s] = Of(f, s, it)
  <2>1. s # {} => Least(s) \in s
    BY DEF Least
  <2>2. CASE s = {} /\ s = T
    BY <2>2 DEF Of
  <2>3. CASE s = {} /\ s # T
    <3>1. sum(s) = Of(f, s, Table(f, s))
      BY <1>2, <2>3 DEF Solves
    <3> QED
      BY <2>3, <3>1 DEF Of
  <2> DEFINE r == s \ {Least(s)}
  <2>4. CASE s # {} /\ s = T
    <3>1. r # T /\ r \in SUBSET T
      BY <2>1, <2>4
    <3>2. it[r] = sum(r)
      BY <3>1
    <3> QED
      BY <2>4, <3>2 DEF Of
  <2>5. CASE s # {} /\ s # T
    <3>1. r \in SUBSET T /\ r # T
      BY <2>1, <2>5
    <3>2. it[r] = sum(r) /\ it[s] = sum(s)
      BY <2>5, <3>1
    <3>3. /\ Solves(f, s, Table(f, s)) /\ Solves(f, r, Table(f, r))
          /\ IsFiniteSet(s)
      BY <1>2, <2>5, <3>1
    <3>4. Table(f, s)[r] = Table(f, r)[r]
      <4> DEFINE ts == Table(f, s)
                 tr == Table(f, r)
      <4>1. r \in SUBSET (s \cap r)
        OBVIOUS
      <4>2. Solves(f, s, ts) /\ Solves(f, r, tr)
        BY <3>3
      <4> HIDE DEF ts, tr, r
      <4>3. ts[r] = tr[r]
        BY <3>3, <4>1, <4>2, SolutionsAgree
      <4> QED
        BY <4>3 DEF ts, tr
    <3>5. sum(s) = Of(f, s, Table(f, s))
      BY <3>3 DEF Solves
    <3> QED
      BY <2>5, <3>2, <3>4, <3>5 DEF Of
  <2> QED
    BY <2>2, <2>3, <2>4, <2>5
<1>4. Solves(f, T, it)
  <2> DEFINE jt == [s \in SUBSET T |-> Of(f, s, it)]
  <2>1. \A s \in SUBSET T : it[s] = jt[s]
    BY <1>3
  <2> QED
    BY <2>1 DEF Solves
<1> HIDE DEF it
<1>5. Solves(f, T, Table(f, T))
  BY <1>4 DEF Table
<1> QED
  BY <1>5

Natural(f, S) == \A x \in S : f[x] \in Nat

\* The recursion that defines the sum.
LEMMA SumStep ==
  ASSUME NEW f, NEW S, IsFiniteSet(S)
  PROVE  /\ S = {} => SumFunctionOnSet(f, S) = 0
         /\ S # {} => SumFunctionOnSet(f, S)
                        = f[Least(S)] + SumFunctionOnSet(f, S \ {Least(S)})
<1> DEFINE r == S \ {Least(S)}
           ts == Table(f, S)
           tr == Table(f, r)
<1>1. IsFiniteSet(r)
  BY FS_Subset
<1>2. Solves(f, S, ts) /\ Solves(f, r, tr)
  BY <1>1, SumSolves
<1>3. ts[r] = tr[r]
  <2>1. r \in SUBSET (S \cap r)
    OBVIOUS
  <2> HIDE DEF ts, tr, r
  <2> QED
    BY <1>2, <2>1, SolutionsAgree
<1>4. ts[S] = Of(f, S, ts)
  BY <1>2 DEF Solves
<1> QED
  BY <1>3, <1>4, SumIsTable DEF Of

\* Sums of numbers are numbers.
LEMMA SumType ==
  ASSUME NEW f, NEW S, IsFiniteSet(S), Natural(f, S)
  PROVE  SumFunctionOnSet(f, S) \in Nat
<1> DEFINE Bad == {T \in SUBSET S : SumFunctionOnSet(f, T) \notin Nat}
<1> SUFFICES ASSUME Bad # {} PROVE FALSE
  OBVIOUS
<1>1. PICK T \in Bad : IsFiniteSet(T) /\ \A U \in Bad : U \subseteq T => U = T
  <2>1. Bad \in SUBSET SUBSET S
    OBVIOUS
  <2> HIDE DEF Bad
  <2> QED
    BY <2>1, LeastBad
<1>2. T # {} => Least(T) \in T
  BY DEF Least
<1>3. T # {} => /\ f[Least(T)] \in Nat
                /\ SumFunctionOnSet(f, T \ {Least(T)}) \in Nat
  BY <1>1, <1>2 DEF Natural
<1>4. CASE T = {}
  <2>1. SumFunctionOnSet(f, T) = 0
    BY <1>1, <1>4, SumStep
  <2> QED
    BY <2>1
<1>5. CASE T # {}
  <2>1. SumFunctionOnSet(f, T)
          = f[Least(T)] + SumFunctionOnSet(f, T \ {Least(T)})
    BY <1>1, <1>5, SumStep
  <2>2. SumFunctionOnSet(f, T) \in Nat
    BY <1>3, <1>5, <2>1
  <2> QED
    BY <2>2
<1> QED
  BY <1>4, <1>5

\* Any element can be counted first.
LEMMA SumWithout ==
  ASSUME NEW f, NEW S, IsFiniteSet(S), Natural(f, S), NEW e \in S
  PROVE  SumFunctionOnSet(f, S) = f[e] + SumFunctionOnSet(f, S \ {e})
<1> DEFINE sum(T) == SumFunctionOnSet(f, T)
           Bad == {T \in SUBSET S : \E x \in T : sum(T) # f[x] + sum(T \ {x})}
<1> SUFFICES ASSUME Bad # {} PROVE FALSE
  OBVIOUS
<1>1. PICK T \in Bad : IsFiniteSet(T) /\ \A U \in Bad : U \subseteq T => U = T
  <2>1. Bad \in SUBSET SUBSET S
    OBVIOUS
  <2> HIDE DEF Bad
  <2> QED
    BY <2>1, LeastBad
<1>2. PICK x \in T : sum(T) # f[x] + sum(T \ {x})
  OBVIOUS
<1> DEFINE y == Least(T)
<1>3. y \in T
  BY <1>2 DEF Least
<1>4. sum(T) = f[y] + sum(T \ {y})
  BY <1>1, <1>2, SumStep
<1>5. x # y
  BY <1>2, <1>4
<1> HIDE DEF y
<1>6. sum(T \ {y}) = f[x] + sum((T \ {y}) \ {x})
  <2>1. T \ {y} \notin Bad
    BY <1>1, <1>3
  <2> QED
    BY <1>5, <2>1
<1>7. sum(T \ {x}) = f[y] + sum((T \ {x}) \ {y})
  <2>1. T \ {x} \notin Bad
    BY <1>1
  <2> QED
    BY <1>3, <1>5, <2>1
<1>8. sum((T \ {y}) \ {x}) = sum((T \ {x}) \ {y})
  <2>1. (T \ {y}) \ {x} = (T \ {x}) \ {y}
    OBVIOUS
  <2> HIDE DEF sum
  <2> QED
    BY <2>1
<1>9. f[x] \in Nat /\ f[y] \in Nat /\ sum((T \ {x}) \ {y}) \in Nat
  <2>1. T \in SUBSET S /\ IsFiniteSet((T \ {x}) \ {y})
    BY <1>1, FS_Subset
  <2>2. Natural(f, (T \ {x}) \ {y})
    BY <2>1 DEF Natural
  <2> QED
    BY <1>3, <2>1, <2>2, SumType DEF Natural
<1> HIDE DEF sum, Bad
<1> QED
  BY <1>2, <1>4, <1>6, <1>7, <1>8, <1>9

\* What is less at every element is less in sum.
LEMMA SumMonotone ==
  ASSUME NEW f, NEW g, NEW S, IsFiniteSet(S), Natural(f, S), Natural(g, S),
         \A x \in S : f[x] <= g[x]
  PROVE  SumFunctionOnSet(f, S) <= SumFunctionOnSet(g, S)
<1> DEFINE Bad == {T \in SUBSET S :
                     ~(SumFunctionOnSet(f, T) <= SumFunctionOnSet(g, T))}
<1> SUFFICES ASSUME Bad # {} PROVE FALSE
  OBVIOUS
<1>1. PICK T \in Bad : IsFiniteSet(T) /\ \A U \in Bad : U \subseteq T => U = T
  <2>1. Bad \in SUBSET SUBSET S
    OBVIOUS
  <2> HIDE DEF Bad
  <2> QED
    BY <2>1, LeastBad
<1> DEFINE y == Least(T)
           r == T \ {y}
<1>2. CASE T = {}
  <2>1. SumFunctionOnSet(f, T) = 0 /\ SumFunctionOnSet(g, T) = 0
    BY <1>1, <1>2, SumStep
  <2> QED
    BY <2>1
<1>3. CASE T # {}
  <2>1. y \in T
    BY <1>3 DEF Least
  <2>2. SumFunctionOnSet(f, r) <= SumFunctionOnSet(g, r)
    BY <1>1, <2>1
  <2>3. /\ SumFunctionOnSet(f, T) = f[y] + SumFunctionOnSet(f, r)
        /\ SumFunctionOnSet(g, T) = g[y] + SumFunctionOnSet(g, r)
    BY <1>1, <1>3, SumStep
  <2>4. f[y] \in Nat /\ g[y] \in Nat /\ f[y] <= g[y]
    BY <2>1 DEF Natural
  <2>5. SumFunctionOnSet(f, r) \in Nat /\ SumFunctionOnSet(g, r) \in Nat
    <3>1. IsFiniteSet(r) /\ Natural(f, r) /\ Natural(g, r)
      BY <1>1, FS_Subset DEF Natural
    <3> QED
      BY <3>1, SumType
  <2>6. ~(SumFunctionOnSet(f, T) <= SumFunctionOnSet(g, T))
    OBVIOUS
  <2> HIDE DEF r, y, Bad
  <2> QED
    BY <2>2, <2>3, <2>4, <2>5, <2>6
<1> QED
  BY <1>2, <1>3

\* The sum depends on the values only.
LEMMA SumSame ==
  ASSUME NEW f, NEW g, NEW S, IsFiniteSet(S), Natural(f, S),
         \A x \in S : f[x] = g[x]
  PROVE  SumFunctionOnSet(f, S) = SumFunctionOnSet(g, S)
<1>1. /\ Natural(g, S) /\ \A x \in S : f[x] <= g[x] /\ g[x] <= f[x]
  BY DEF Natural
<1>2. /\ SumFunctionOnSet(f, S) <= SumFunctionOnSet(g, S)
      /\ SumFunctionOnSet(g, S) <= SumFunctionOnSet(f, S)
  BY <1>1, SumMonotone
<1>3. SumFunctionOnSet(f, S) \in Nat /\ SumFunctionOnSet(g, S) \in Nat
  BY <1>1, SumType
<1> QED
  BY <1>2, <1>3

\* Elements that count nothing can be left out, and others make it less.
LEMMA SumSubset ==
  ASSUME NEW f, NEW S, IsFiniteSet(S), Natural(f, S), NEW T \in SUBSET S
  PROVE  /\ SumFunctionOnSet(f, T) <= SumFunctionOnSet(f, S)
         /\ (\A x \in S \ T : f[x] = 0)
              => SumFunctionOnSet(f, T) = SumFunctionOnSet(f, S)
<1> DEFINE sum(U) == SumFunctionOnSet(f, U)
           Bad == {U \in SUBSET S : T \subseteq U /\
                     ~(/\ sum(T) <= sum(U)
                       /\ (\A x \in U \ T : f[x] = 0) => sum(T) = sum(U))}
<1> SUFFICES ASSUME Bad # {} PROVE FALSE
  OBVIOUS
<1>1. PICK U \in Bad : IsFiniteSet(U) /\ \A V \in Bad : V \subseteq U => V = U
  <2>1. Bad \in SUBSET SUBSET S
    OBVIOUS
  <2> HIDE DEF Bad
  <2> QED
    BY <2>1, LeastBad
<1>2. T \subseteq U /\ Natural(f, U) /\ Natural(f, T) /\ IsFiniteSet(T)
  BY <1>1, FS_Subset DEF Natural
<1>3. sum(T) \in Nat /\ sum(U) \in Nat
  BY <1>1, <1>2, SumType
<1>4. U # T
  BY <1>3
<1>5. PICK x \in U : x \notin T
  BY <1>2, <1>4
<1>6. sum(U) = f[x] + sum(U \ {x})
  BY <1>1, <1>2, SumWithout
<1>7. /\ sum(T) <= sum(U \ {x})
      /\ (\A y \in (U \ {x}) \ T : f[y] = 0) => sum(T) = sum(U \ {x})
  <2>1. U \ {x} \notin Bad
    BY <1>1, <1>5
  <2> QED
    BY <1>2, <1>5, <2>1
<1>8. f[x] \in Nat /\ sum(U \ {x}) \in Nat
  <2>1. Natural(f, U \ {x}) /\ IsFiniteSet(U \ {x})
    BY <1>1, <1>2, FS_Subset DEF Natural
  <2> QED
    BY <1>2, <2>1, SumType DEF Natural
<1>9. ~(sum(T) <= sum(U) /\ ((\A y \in U \ T : f[y] = 0) => sum(T) = sum(U)))
  BY <1>1
<1> HIDE DEF sum, Bad
<1>10. sum(T) <= sum(U)
  BY <1>3, <1>6, <1>7, <1>8
<1>11. ASSUME \A y \in U \ T : f[y] = 0 PROVE sum(T) = sum(U)
  <2>1. f[x] = 0
    BY <1>5, <1>11
  <2> QED
    BY <1>3, <1>6, <1>7, <1>8, <1>11, <2>1
<1> QED
  BY <1>9, <1>10, <1>11

-----------------------------------------------------------------------------
(* What the writers of the state count.                                     *)

\* The statistics are numbers, and rows without a reservation add nothing.
LEMMA CountsAreNatural ==
  ASSUME TypeOK
  PROVE  /\ Bytes = SumFunctionOnSet(size, Entry) /\ Bytes \in Nat
         /\ Claimed(Token) \in Nat /\ Claimed(Rows) = Claimed(Token)
<1>1. Natural(size, Entry) /\ Natural(reserved, Token) /\ DOMAIN size = Entry
  BY DEF TypeOK, Natural
<1>2. Bytes = SumFunctionOnSet(size, Entry)
  BY <1>1 DEF Bytes, SumFunction
<1>3. Bytes \in Nat /\ Claimed(Token) \in Nat
  BY <1>1, <1>2, FiniteAssumption, SumType DEF Claimed
<1>4. Rows \in SUBSET Token /\ \A t \in Token \ Rows : reserved[t] = 0
  BY DEF Rows, TypeOK
<1>5. Claimed(Rows) = Claimed(Token)
  BY <1>1, <1>4, FiniteAssumption, SumSubset DEF Claimed
<1> QED
  BY <1>2, <1>3, <1>5

\* No entry, no bytes.
LEMMA NothingCached ==
  ASSUME TypeOK, Cached = {}
  PROVE  Bytes = 0
<1>1. Natural(size, Entry) /\ \A e \in Entry \ {} : size[e] = 0
  BY DEF TypeOK, Natural, Cached
<1>2. SumFunctionOnSet(size, {}) = SumFunctionOnSet(size, Entry)
  BY <1>1, FiniteAssumption, SumSubset
<1>3. IsFiniteSet({}) /\ SumFunctionOnSet(size, {}) = 0
  BY FS_EmptySet, SumStep
<1> QED
  BY <1>2, <1>3, CountsAreNatural

\* What gives up bytes or reservations counts no more than before.
LEMMA NoMoreBytes ==
  ASSUME NEW f \in [Entry -> Nat], NEW g \in [Entry -> Nat],
         \A e \in Entry : g[e] <= f[e]
  PROVE  SumFunctionOnSet(g, Entry) <= SumFunctionOnSet(f, Entry)
BY FiniteAssumption, SumMonotone DEF Natural

\* The same of reservations.
LEMMA NoMoreClaimed ==
  ASSUME NEW f \in [Token -> Nat], NEW g \in [Token -> Nat],
         \A t \in Token : g[t] <= f[t]
  PROVE  SumFunctionOnSet(g, Token) <= SumFunctionOnSet(f, Token)
BY FiniteAssumption, SumMonotone DEF Natural

\* One row changes, the rows in S stay, and there are no others.
LEMMA Recount ==
  ASSUME NEW f \in [Token -> Nat], NEW g \in [Token -> Nat], NEW t \in Token,
         NEW S \in SUBSET (Token \ {t}), \A u \in S : g[u] = f[u],
         \A u \in (Token \ {t}) \ S : g[u] = 0
  PROVE  SumFunctionOnSet(g, Token) = g[t] + SumFunctionOnSet(f, S)
<1>1. /\ IsFiniteSet(Token \ {t}) /\ IsFiniteSet(S)
      /\ Natural(g, Token) /\ Natural(g, Token \ {t}) /\ Natural(g, S)
  BY FiniteAssumption, FS_Subset DEF Natural
<1>2. SumFunctionOnSet(g, Token) = g[t] + SumFunctionOnSet(g, Token \ {t})
  BY <1>1, FiniteAssumption, SumWithout
<1>3. SumFunctionOnSet(g, S) = SumFunctionOnSet(g, Token \ {t})
  BY <1>1, SumSubset
<1>4. SumFunctionOnSet(g, S) = SumFunctionOnSet(f, S)
  BY <1>1, SumSame
<1> QED
  BY <1>2, <1>3, <1>4

-----------------------------------------------------------------------------
(* Types and reservations.                                                  *)

QuotaInv == TypeOK /\ ReservationsFit

\* A new state is empty.
LEMMA QuotaInit == Init => QuotaInv
<1> SUFFICES ASSUME Init PROVE QuotaInv
  OBVIOUS
<1>1. TypeOK
  <2>1. size \in [Entry -> Nat] /\ reserved \in [Token -> Nat]
    BY DEF Init
  <2>2. pc \in [Writer -> {"idle", "entries", "operations", "evict", "refuse"}]
    BY DEF Init
  <2>3. stage \in [Writer -> 1..OtherKinds] /\ bytes \in [Writer -> Nat]
    BY DEF Init, OtherKinds
  <2>4. mine \in [Writer -> Token \cup {NoToken}] /\ abandoned \in BOOLEAN
    BY DEF Init
  <2> QED
    BY <2>1, <2>2, <2>3, <2>4 DEF TypeOK
<1>2. Natural(reserved, Token) /\ \A t \in Token \ {} : reserved[t] = 0
  BY DEF Init, Natural
<1>3. SumFunctionOnSet(reserved, {}) = Claimed(Token)
  BY <1>2, FiniteAssumption, SumSubset DEF Claimed
<1>4. SumFunctionOnSet(reserved, {}) = 0
  BY FS_EmptySet, SumStep
<1> QED
  BY <1>1, <1>3, <1>4, LimitAssumption DEF QuotaInv, ReservationsFit

\* A write that is admitted leaves reservations that fit: what it releases and
\* what it adds are in one transaction.
LEMMA AdmittedFits ==
  ASSUME TypeOK, NEW t \in Token, NEW n \in Nat, NEW S \in SUBSET (Token \ {t}),
         Admits(S, n), NEW g \in [Token -> Nat], g[t] = n,
         \A u \in S : g[u] = reserved[u], \A u \in (Token \ {t}) \ S : g[u] = 0
  PROVE  SumFunctionOnSet(g, Token) <= Limit
<1>1. reserved \in [Token -> Nat]
  BY DEF TypeOK
<1>2. SumFunctionOnSet(g, Token) = n + SumFunctionOnSet(reserved, S)
  BY <1>1, Recount
<1>3. SumFunctionOnSet(reserved, S) \in Nat
  <2>1. IsFiniteSet(S) /\ Natural(reserved, S)
    BY <1>1, FiniteAssumption, FS_Subset DEF Natural
  <2> QED
    BY <2>1, SumType
<1>4. SumFunctionOnSet(reserved, S) + n <= Limit
  BY DEF Admits, Claimed
<1> QED
  BY <1>2, <1>3, <1>4, LimitAssumption

\* Every step keeps the types, and the reservations within the limit.
LEMMA QuotaNext == QuotaInv /\ [Next]_vars => QuotaInv'
<1> SUFFICES ASSUME QuotaInv, [Next]_vars PROVE QuotaInv'
  OBVIOUS
<1>0. TypeOK /\ Claimed(Token) \in Nat /\ Claimed(Token) <= Limit
  BY CountsAreNatural DEF QuotaInv, ReservationsFit
<1>1. ASSUME reserved' \in [Token -> Nat],
             \A t \in Token : reserved'[t] <= reserved[t]
      PROVE  ReservationsFit'
  <2>1. Claimed(Token)' <= Claimed(Token) /\ Claimed(Token)' \in Nat
    <3>1. SumFunctionOnSet(reserved', Token) \in Nat
      BY <1>1, FiniteAssumption, SumType DEF Natural
    <3> QED
      BY <1>0, <1>1, <3>1, NoMoreClaimed DEF Claimed, TypeOK
  <2> QED
    BY <1>0, <2>1, LimitAssumption DEF ReservationsFit
<1>2. ASSUME UNCHANGED reserved PROVE ReservationsFit'
  BY <1>2 DEF QuotaInv, ReservationsFit, Claimed
<1>3. ASSUME NEW S \in SUBSET Entry, Remove(S) PROVE QuotaInv'
  <2>1. TypeOK'
    BY <1>0, <1>3 DEF Remove, TypeOK
  <2> QED
    BY <1>2, <1>3, <2>1 DEF Remove, QuotaInv
<1>4. ASSUME NEW t \in Token, NEW n \in Size, UpdateOperation(t, n)
      PROVE  QuotaInv'
  <2>1. TypeOK'
    BY <1>0, <1>4, SizeAssumption DEF UpdateOperation, TypeOK
  <2>2. \A u \in Token : reserved'[u] <= reserved[u]
    BY <1>0, <1>4, SizeAssumption DEF UpdateOperation, TypeOK
  <2> QED
    BY <1>1, <2>1, <2>2 DEF TypeOK, QuotaInv
<1>5. ASSUME NEW p \in Writer, NEW e \in Entry, NEW n \in Size, Put(p, e, n)
      PROVE  QuotaInv'
  <2>1. TypeOK'
    BY <1>0, <1>5, SizeAssumption DEF Put, StartEviction, TypeOK, OtherKinds
  <2> QED
    BY <1>2, <1>5, <2>1 DEF Put, QuotaInv
<1>6. ASSUME NEW p \in Writer, NEW t \in Token, NEW n \in Size,
             NEW old \in SUBSET Token, PutOperation(p, t, n, old)
      PROVE  QuotaInv'
  <2>1. TypeOK'
    BY <1>0, <1>6, SizeAssumption
       DEF PutOperation, StartEviction, TypeOK, OtherKinds
  <2> DEFINE S == Rows \ old
  <2>2. /\ S \in SUBSET (Token \ {t}) /\ n \in Nat /\ Admits(S, n)
    BY <1>6, SizeAssumption DEF PutOperation, Rows
  <2>3. /\ reserved'[t] = n /\ \A u \in S : reserved'[u] = reserved[u]
        /\ \A u \in (Token \ {t}) \ S : reserved'[u] = 0
    BY <1>0, <1>6 DEF PutOperation, Rows, TypeOK
  <2> HIDE DEF S
  <2>4. SumFunctionOnSet(reserved', Token) <= Limit
    BY <1>0, <2>1, <2>2, <2>3, AdmittedFits DEF TypeOK
  <2> QED
    BY <2>1, <2>4 DEF QuotaInv, ReservationsFit, Claimed
<1>7. ASSUME NEW p \in Writer, CountEntries(p) PROVE QuotaInv'
  <2>1. Bytes \in Nat
    BY <1>0, CountsAreNatural
  <2>2. TypeOK'
    BY <1>0, <1>7, <2>1 DEF CountEntries, TypeOK
  <2> QED
    BY <1>2, <1>7, <2>2 DEF CountEntries, QuotaInv
<1>8. ASSUME NEW p \in Writer, CountOperations(p) PROVE QuotaInv'
  <2>1. StateBytes(p) \in Nat
    BY <1>0, CountsAreNatural DEF StateBytes, TypeOK
  <2>2. TypeOK'
    BY <1>0, <1>8, <2>1 DEF CountOperations, Finish, TypeOK
  <2> QED
    BY <1>2, <1>8, <2>2 DEF CountOperations, QuotaInv
<1>9. ASSUME NEW p \in Writer, NEW e \in Entry, Evict(p, e) PROVE QuotaInv'
  <2>1. TypeOK'
    BY <1>0, <1>9 DEF Evict, TypeOK
  <2> QED
    BY <1>2, <1>9, <2>1 DEF Evict, QuotaInv
<1>10. ASSUME NEW p \in Writer, NoneLeft(p) PROVE QuotaInv'
  <2>1. TypeOK'
    BY <1>0, <1>10 DEF NoneLeft, LastKind, TypeOK, OtherKinds
  <2> QED
    BY <1>2, <1>10, <2>1 DEF NoneLeft, QuotaInv
<1>11. ASSUME NEW p \in Writer, Refuse(p) PROVE QuotaInv'
  <2>1. TypeOK'
    BY <1>0, <1>11 DEF Refuse, Finish, TypeOK
  <2>2. \A t \in Token : reserved'[t] <= reserved[t]
    BY <1>0, <1>11 DEF Refuse, TypeOK
  <2> QED
    BY <1>1, <2>1, <2>2 DEF TypeOK, QuotaInv
<1>12. ASSUME NEW p \in Writer, Abandon(p) PROVE QuotaInv'
  <2>1. TypeOK'
    BY <1>0, <1>12 DEF Abandon, Finish, TypeOK
  <2>2. \A t \in Token : reserved'[t] <= reserved[t]
    BY <1>0, <1>12 DEF Abandon, TypeOK
  <2> QED
    BY <1>1, <2>1, <2>2 DEF TypeOK, QuotaInv
<1>13. CASE UNCHANGED vars
  BY <1>2, <1>13 DEF vars, QuotaInv, TypeOK
<1> QED
  BY <1>3, <1>4, <1>5, <1>6, <1>7, <1>8, <1>9, <1>10, <1>11, <1>12, <1>13
     DEF Next

\* The variables of StateQuota keep their types.
THEOREM QuotaTypes == Spec => []TypeOK
<1> QED
  BY QuotaInit, QuotaNext, PTL DEF Spec, QuotaInv

\* Whichever writers race, die or are refused, the reservations fit, so that the
\* result of every operation that was prepared can be recorded.
THEOREM ReservationsAlwaysFit == Spec => []ReservationsFit
<1> QED
  BY QuotaInit, QuotaNext, PTL DEF Spec, QuotaInv

-----------------------------------------------------------------------------
(* The limit of the whole state.                                            *)

\* A writer that will still notice what the state holds now: it has yet to
\* count, has counted no less, or has found too much already.
Alert(p) == \/ pc[p] \in {"entries", "evict"}
            \/ pc[p] = "operations" /\ bytes[p] >= Bytes

\* While the state is too large some writer will notice, unless one was
\* interrupted. That some writer is evicting, as StateIsBounded says, is not
\* inductive: it may have counted too early.
Attended ==
  Bytes + Claimed(Token) > Limit => abandoned \/ \E p \in Writer : Alert(p)

\* A writer that has committed is alert.
LEMMA WritersAttend ==
  ASSUME NEW p \in Writer, pc'[p] \in {"entries", "evict"}
  PROVE  Attended'
BY DEF Attended, Alert

\* Whoever gives up bytes or reservations leaves the alert writers alert.
LEMMA LessIsAttended ==
  ASSUME QuotaInv, QuotaInv', Attended, abandoned' = abandoned,
         \A e \in Entry : size'[e] <= size[e],
         \A t \in Token : reserved'[t] <= reserved[t],
         \A q \in Writer : /\ pc[q] \in {"entries", "operations", "evict"}
                              => pc'[q] = pc[q]
                           /\ bytes'[q] = bytes[q]
  PROVE  Attended'
<1>1. Bytes' <= Bytes /\ Bytes' \in Nat /\ Bytes \in Nat
  <2>1. Bytes = SumFunctionOnSet(size, Entry) /\ Bytes \in Nat
    BY CountsAreNatural DEF QuotaInv
  <2>2. size \in [Entry -> Nat] /\ size' \in [Entry -> Nat]
    BY DEF QuotaInv, TypeOK
  <2>3. Bytes' = SumFunctionOnSet(size', Entry) /\ Bytes' \in Nat
    <3>1. Bytes' = SumFunctionOnSet(size', Entry)
      BY <2>2 DEF Bytes, SumFunction
    <3>2. SumFunctionOnSet(size', Entry) \in Nat
      BY <2>2, FiniteAssumption, SumType DEF Natural
    <3> QED
      BY <3>1, <3>2
  <2> QED
    BY <2>1, <2>2, <2>3, NoMoreBytes
<1>2. /\ Claimed(Token)' <= Claimed(Token)
      /\ Claimed(Token)' \in Nat /\ Claimed(Token) \in Nat
  <2>1. reserved \in [Token -> Nat] /\ reserved' \in [Token -> Nat]
    BY DEF QuotaInv, TypeOK
  <2>2. Claimed(Token) \in Nat /\ Claimed(Token)' \in Nat
    BY <2>1, FiniteAssumption, SumType DEF Claimed, Natural
  <2> QED
    BY <2>1, <2>2, NoMoreClaimed DEF Claimed
<1>3. \A q \in Writer : bytes[q] \in Nat
  BY DEF QuotaInv, TypeOK
<1>4. \A q \in Writer : Alert(q) => Alert(q)'
  BY <1>1, <1>3 DEF Alert
<1>5. Bytes' + Claimed(Token)' > Limit => Bytes + Claimed(Token) > Limit
  BY <1>1, <1>2, LimitAssumption
<1> QED
  BY <1>4, <1>5 DEF Attended

\* Every step keeps it. A writer that ends its eviction has counted no less
\* than there is, and one that finds nothing to evict leaves an empty cache,
\* beside reservations that fit.
LEMMA AttendedNext ==
  ASSUME QuotaInv, QuotaInv', Attended, [Next]_vars
  PROVE  Attended'
<1>0. TypeOK /\ TypeOK' /\ Claimed(Token) \in Nat /\ Claimed(Token) <= Limit
  BY CountsAreNatural DEF QuotaInv, ReservationsFit
<1>1. ASSUME NEW S \in SUBSET Entry, Remove(S) PROVE Attended'
  <2>1. \A e \in Entry : size'[e] <= size[e]
    BY <1>0, <1>1 DEF Remove, TypeOK
  <2> QED
    BY <1>0, <1>1, <2>1, LessIsAttended DEF Remove, TypeOK
<1>2. ASSUME NEW t \in Token, NEW n \in Size, UpdateOperation(t, n)
      PROVE  Attended'
  <2>1. \A u \in Token : reserved'[u] <= reserved[u]
    BY <1>0, <1>2, SizeAssumption DEF UpdateOperation, TypeOK
  <2> QED
    BY <1>0, <1>2, <2>1, LessIsAttended DEF UpdateOperation, TypeOK
<1>3. ASSUME NEW p \in Writer, NEW e \in Entry, NEW n \in Size, Put(p, e, n)
      PROVE  Attended'
  BY <1>0, <1>3, WritersAttend DEF Put, StartEviction, TypeOK
<1>4. ASSUME NEW p \in Writer, NEW t \in Token, NEW n \in Size,
             NEW old \in SUBSET Token, PutOperation(p, t, n, old)
      PROVE  Attended'
  BY <1>0, <1>4, WritersAttend DEF PutOperation, StartEviction, TypeOK
<1>5. ASSUME NEW p \in Writer, CountEntries(p) PROVE Attended'
  <2>1. Bytes' = Bytes /\ Bytes \in Nat
    BY <1>0, <1>5, CountsAreNatural DEF CountEntries, Bytes
  <2>2. pc'[p] = "operations" /\ bytes'[p] = Bytes
    BY <1>0, <1>5 DEF CountEntries, TypeOK
  <2> QED
    BY <2>1, <2>2 DEF Attended, Alert
<1>6. ASSUME NEW p \in Writer, CountOperations(p) PROVE Attended'
  <2>1. /\ Bytes' = Bytes /\ Claimed(Token)' = Claimed(Token) /\ Bytes \in Nat
        /\ Claimed(Rows) = Claimed(Token) /\ abandoned' = abandoned
    BY <1>0, <1>6, CountsAreNatural DEF CountOperations, Bytes, Claimed
  <2>2. CASE StateBytes(p) > Limit
    <3>1. pc'[p] = "evict"
      BY <1>0, <1>6, <2>2 DEF CountOperations, TypeOK
    <3> QED
      BY <3>1, WritersAttend
  <2>3. CASE ~(StateBytes(p) > Limit)
    <3>1. pc[p] = "operations" /\ bytes[p] \in Nat
      BY <1>0, <1>6 DEF CountOperations, TypeOK
    <3>2. \A q \in Writer \ {p} : pc'[q] = pc[q] /\ bytes'[q] = bytes[q]
      BY <1>0, <1>6, <2>3 DEF CountOperations, Finish, TypeOK
    <3>3. ASSUME Bytes + Claimed(Token) > Limit, Alert(p) PROVE FALSE
      <4>1. bytes[p] >= Bytes
        BY <3>1, <3>3 DEF Alert
      <4>2. ~(bytes[p] + Claimed(Token) > Limit)
        BY <2>1, <2>3 DEF StateBytes
      <4> QED
        BY <1>0, <2>1, <3>1, <3>3, <4>1, <4>2, LimitAssumption
    <3>4. \A q \in Writer \ {p} : Alert(q) => Alert(q)'
      BY <2>1, <3>2 DEF Alert
    <3> QED
      BY <2>1, <3>3, <3>4 DEF Attended
  <2> QED
    BY <2>2, <2>3
<1>7. ASSUME NEW p \in Writer, NEW e \in Entry, Evict(p, e) PROVE Attended'
  BY <1>0, <1>7, WritersAttend DEF Evict, TypeOK
<1>8. ASSUME NEW p \in Writer, NoneLeft(p) PROVE Attended'
  <2>1. /\ pc[p] = "evict" /\ Candidates(p) = {}
        /\ UNCHANGED <<size, reserved, bytes, abandoned>>
    BY <1>8 DEF NoneLeft
  <2>2. CASE ~LastKind(p)
    <3>1. pc'[p] = "evict"
      BY <1>8, <2>1, <2>2 DEF NoneLeft
    <3> QED
      BY <3>1, WritersAttend
  <2>3. CASE LastKind(p)
    <3>1. Cached = {}
      BY <2>1, <2>3 DEF LastKind, Candidates, OtherKinds
    <3>2. Bytes' = 0 /\ Claimed(Token)' = Claimed(Token)
      BY <1>0, <2>1, <3>1, NothingCached DEF Bytes, Claimed
    <3> QED
      BY <1>0, <3>2, LimitAssumption DEF Attended
  <2> QED
    BY <2>2, <2>3
<1>9. ASSUME NEW p \in Writer, Refuse(p) PROVE Attended'
  <2>1. \A t \in Token : reserved'[t] <= reserved[t]
    BY <1>0, <1>9 DEF Refuse, TypeOK
  <2>2. \A q \in Writer : /\ pc[q] \in {"entries", "operations", "evict"}
                             => pc'[q] = pc[q]
                          /\ bytes'[q] = bytes[q]
    BY <1>0, <1>9 DEF Refuse, Finish, TypeOK
  <2>3. \A e \in Entry : size'[e] <= size[e]
    BY <1>0, <1>9 DEF Refuse, TypeOK
  <2> QED
    BY <1>9, <2>1, <2>2, <2>3, LessIsAttended DEF Refuse
<1>10. ASSUME NEW p \in Writer, Abandon(p) PROVE Attended'
  BY <1>10 DEF Abandon, Attended
<1>11. CASE UNCHANGED vars
  BY <1>11 DEF vars, Attended, Alert, Bytes, Claimed
<1> QED
  BY <1>1, <1>2, <1>3, <1>4, <1>5, <1>6, <1>7, <1>8, <1>9, <1>10, <1>11
     DEF Next

\* Whatever writers, evictions and deletions do at once, the state is within
\* its limit when no writer is under way, unless one was interrupted.
THEOREM StateBounded == Spec => []StateIsBounded
<1>1. Init => Attended
  <2> SUFFICES ASSUME Init PROVE Attended
    OBVIOUS
  <2>1. TypeOK /\ Claimed(Token) <= Limit /\ Cached = {}
    BY QuotaInit DEF QuotaInv, ReservationsFit, Cached, Init
  <2>2. Bytes = 0 /\ Claimed(Token) \in Nat
    BY <2>1, NothingCached, CountsAreNatural
  <2> QED
    BY <2>1, <2>2, LimitAssumption DEF Attended
<1>2. Attended => StateIsBounded
  BY DEF Attended, StateIsBounded, Alert
<1> QED
  BY <1>1, <1>2, QuotaInit, QuotaNext, AttendedNext, PTL DEF Spec

-----------------------------------------------------------------------------
(* One writer.                                                              *)

OneWriter == \A p, q \in Writer : p = q

\* What the one writer counts is what there is, and it evicts only from a state
\* that is too large.
Exact ==
  \A p \in Writer :
    /\ pc[p] = "operations" => bytes[p] = Bytes
    /\ pc[p] = "evict" => Bytes + Claimed(Token) > Limit
    /\ pc[p] # "refuse"

\* Every step keeps it, where nothing else changes the state meanwhile.
LEMMA ExactNext ==
  ASSUME OneWriter, Alone = TRUE, QuotaInv, Exact, [Next]_vars
  PROVE  Exact'
<1>0. /\ TypeOK /\ Claimed(Token) \in Nat /\ Claimed(Token) <= Limit
      /\ Bytes \in Nat /\ Claimed(Rows) = Claimed(Token)
  BY CountsAreNatural DEF QuotaInv, ReservationsFit
<1>1. ASSUME NEW S \in SUBSET Entry, Remove(S) PROVE Exact'
  <2>1. \A p \in Writer : pc'[p] \in {"idle", "entries"}
    BY <1>1 DEF Remove, Quiet
  <2> QED
    BY <2>1 DEF Exact
<1>2. ASSUME NEW t \in Token, NEW n \in Size, UpdateOperation(t, n)
      PROVE  Exact'
  <2>1. \A p \in Writer : pc'[p] \in {"idle", "entries"}
    BY <1>2 DEF UpdateOperation, Quiet
  <2> QED
    BY <2>1 DEF Exact
<1>3. ASSUME NEW p \in Writer, pc'[p] \in {"idle", "entries"} PROVE Exact'
  <2>1. \A q \in Writer : pc'[q] \in {"idle", "entries"}
    BY <1>3 DEF OneWriter
  <2> QED
    BY <2>1 DEF Exact
<1>4. ASSUME NEW p \in Writer, NEW e \in Entry, NEW n \in Size, Put(p, e, n)
      PROVE  Exact'
  BY <1>0, <1>3, <1>4 DEF Put, StartEviction, TypeOK
<1>5. ASSUME NEW p \in Writer, NEW t \in Token, NEW n \in Size,
             NEW old \in SUBSET Token, PutOperation(p, t, n, old)
      PROVE  Exact'
  BY <1>0, <1>3, <1>5 DEF PutOperation, StartEviction, TypeOK
<1>6. ASSUME NEW p \in Writer, CountEntries(p) PROVE Exact'
  <2>1. pc'[p] = "operations" /\ bytes'[p] = Bytes /\ Bytes' = Bytes
    BY <1>0, <1>6 DEF CountEntries, TypeOK, Bytes
  <2> QED
    BY <2>1 DEF Exact, OneWriter
<1>7. ASSUME NEW p \in Writer, CountOperations(p) PROVE Exact'
  <2>1. StateBytes(p) = Bytes + Claimed(Token)
    BY <1>0, <1>7 DEF CountOperations, StateBytes, Exact
  <2>2. Bytes' = Bytes /\ Claimed(Token)' = Claimed(Token)
    BY <1>7 DEF CountOperations, Bytes, Claimed
  <2>3. CASE StateBytes(p) > Limit
    <3>1. pc'[p] = "evict"
      BY <1>0, <1>7, <2>3 DEF CountOperations, TypeOK
    <3> QED
      BY <2>1, <2>2, <2>3, <3>1 DEF Exact, OneWriter
  <2>4. CASE ~(StateBytes(p) > Limit)
    BY <1>0, <1>3, <1>7, <2>4 DEF CountOperations, Finish, TypeOK
  <2> QED
    BY <2>3, <2>4
<1>8. ASSUME NEW p \in Writer, NEW e \in Entry, Evict(p, e) PROVE Exact'
  BY <1>0, <1>3, <1>8 DEF Evict, TypeOK
<1>9. ASSUME NEW p \in Writer, NoneLeft(p) PROVE Exact'
  <2>1. /\ pc[p] = "evict" /\ Candidates(p) = {}
        /\ UNCHANGED <<size, reserved, bytes>>
    BY <1>9 DEF NoneLeft
  <2>2. ~LastKind(p)
    <3> SUFFICES ASSUME LastKind(p) PROVE FALSE
      OBVIOUS
    <3>1. Cached = {}
      BY <2>1 DEF LastKind, Candidates, OtherKinds
    <3>2. Bytes = 0
      BY <1>0, <3>1, NothingCached
    <3> QED
      BY <1>0, <2>1, <3>2, LimitAssumption DEF Exact
  <2>3. pc' = pc /\ Bytes' = Bytes /\ Claimed(Token)' = Claimed(Token)
    BY <1>9, <2>1, <2>2 DEF NoneLeft, Bytes, Claimed
  <2> QED
    BY <2>1, <2>3 DEF Exact
<1>10. ASSUME NEW p \in Writer, Refuse(p) \/ Abandon(p) PROVE Exact'
  BY <1>0, <1>3, <1>10 DEF Refuse, Abandon, Finish, TypeOK
<1>11. CASE UNCHANGED vars
  BY <1>11 DEF vars, Exact, Bytes, Claimed
<1> QED
  BY <1>1, <1>2, <1>4, <1>5, <1>6, <1>7, <1>8, <1>9, <1>10, <1>11 DEF Next

\* Where one process at a time writes, no write that was admitted is refused:
\* everything that is evicted makes room for it. With two this is wrong.
THEOREM AdmittedWritesAreKept ==
  ASSUME OneWriter, Alone = TRUE
  PROVE  Spec => []AdmittedWritesStay
<1>1. Init => Exact
  BY DEF Init, Exact
<1>2. Exact => AdmittedWritesStay
  BY DEF Exact, AdmittedWritesStay
<1> QED
  BY <1>1, <1>2, QuotaInit, QuotaNext, ExactNext, PTL DEF Spec

\* The kinds before the one that is being evicted are gone.
Exhausted ==
  \A p \in Writer :
    pc[p] # "idle" => \A e \in Cached : KindOf[e] >= stage[p]

\* Every step of a single writer keeps it; what others remove does not matter.
LEMMA ExhaustedNext ==
  ASSUME OneWriter, TypeOK, Exhausted, [Next]_vars
  PROVE  Exhausted'
<1>1. ASSUME Cached' \subseteq Cached, stage' = stage,
             \A p \in Writer : pc'[p] # "idle" => pc[p] # "idle"
      PROVE  Exhausted'
  BY <1>1 DEF Exhausted
<1>2. ASSUME NEW S \in SUBSET Entry, Remove(S) PROVE Exhausted'
  BY <1>1, <1>2 DEF Remove, Cached, TypeOK
<1>3. ASSUME NEW t \in Token, NEW n \in Size, UpdateOperation(t, n)
      PROVE  Exhausted'
  BY <1>1, <1>3 DEF UpdateOperation, Cached
<1>4. ASSUME NEW p \in Writer, stage'[p] = 1 PROVE Exhausted'
  <2>1. \A e \in Entry : KindOf[e] >= 1
    BY KindAssumption DEF OtherKinds
  <2> QED
    BY <1>4, <2>1 DEF Exhausted, Cached, OneWriter
<1>5. ASSUME NEW p \in Writer, NEW e \in Entry, NEW n \in Size, Put(p, e, n)
      PROVE  Exhausted'
  BY <1>4, <1>5 DEF Put, StartEviction, TypeOK
<1>6. ASSUME NEW p \in Writer, NEW t \in Token, NEW n \in Size,
             NEW old \in SUBSET Token, PutOperation(p, t, n, old)
      PROVE  Exhausted'
  BY <1>4, <1>6 DEF PutOperation, StartEviction, TypeOK
<1>7. ASSUME NEW p \in Writer, CountEntries(p) \/ CountOperations(p)
      PROVE  Exhausted'
  BY <1>1, <1>7 DEF CountEntries, CountOperations, Finish, Cached, TypeOK
<1>8. ASSUME NEW p \in Writer, NEW e \in Entry, Evict(p, e) PROVE Exhausted'
  BY <1>1, <1>8 DEF Evict, Cached, TypeOK
<1>9. ASSUME NEW p \in Writer, NoneLeft(p) PROVE Exhausted'
  <2>1. Cached' = Cached /\ pc[p] = "evict" /\ Candidates(p) = {}
    BY <1>9 DEF NoneLeft, Cached
  <2>2. CASE LastKind(p)
    BY <1>1, <1>9, <2>1, <2>2 DEF NoneLeft, OneWriter
  <2>3. CASE ~LastKind(p)
    <3>1. stage'[p] = stage[p] + 1 /\ stage[p] \in 1..OtherKinds
          /\ stage[p] < OtherKinds
      BY <1>9, <2>3 DEF NoneLeft, TypeOK, LastKind, OtherKinds
    <3>2. \A e \in Cached : KindOf[e] # stage[p] /\ KindOf[e] \in 1..OtherKinds
      BY <2>1, <3>1, KindAssumption DEF Candidates, Cached
    <3>3. \A e \in Cached : KindOf[e] >= stage[p]
      BY <2>1 DEF Exhausted
    <3>4. \A e \in Cached' : KindOf[e] >= stage'[p]
      BY <2>1, <3>1, <3>2, <3>3 DEF OtherKinds
    <3> QED
      BY <3>4 DEF Exhausted, OneWriter
  <2> QED
    BY <2>2, <2>3
<1>10. ASSUME NEW p \in Writer, Refuse(p) \/ Abandon(p) PROVE Exhausted'
  BY <1>1, <1>10 DEF Refuse, Abandon, Finish, Cached, TypeOK
<1>11. CASE UNCHANGED vars
  BY <1>11 DEF vars, Exhausted, Cached
<1> QED
  BY <1>2, <1>3, <1>5, <1>6, <1>7, <1>8, <1>9, <1>10, <1>11 DEF Next

\* A single writer evicts an entry only when none is left of a kind that goes
\* first, although entries are removed by others at any moment.
THEOREM EvictsInOrder == ASSUME OneWriter PROVE Spec => EvictionInOrder
<1> DEFINE InOrder ==
      \A p \in Writer : pc[p] = "evict" /\ pc'[p] = "entries"
        => \A e, f \in Cached : size'[e] = 0 => KindOf[e] <= KindOf[f]
<1>1. Init => Exhausted
  BY DEF Init, Exhausted
<1>2. TypeOK /\ Exhausted /\ [Next]_vars => [InOrder]_vars
  <2> SUFFICES ASSUME TypeOK, Exhausted, Next,
                      NEW p \in Writer, pc[p] = "evict", pc'[p] = "entries"
               PROVE  \A e, f \in Cached :
                        size'[e] = 0 => KindOf[e] <= KindOf[f]
    OBVIOUS
  <2>1. PICK e \in Entry : Evict(p, e)
    <3>1. \A q \in Writer : q = p
      BY DEF OneWriter
    <3>2. ~ \E S \in SUBSET Entry : Remove(S)
      BY DEF Remove
    <3>3. ~ \E t \in Token, n \in Size : UpdateOperation(t, n)
      BY DEF UpdateOperation
    <3>4. ~ (CountEntries(p) \/ CountOperations(p) \/ Refuse(p))
      BY DEF CountEntries, CountOperations, Refuse
    <3>5. ~ (NoneLeft(p) \/ Abandon(p))
      BY DEF NoneLeft, Abandon, Finish, TypeOK
    <3>6. /\ ~ \E x \in Entry, n \in Size : Put(p, x, n)
          /\ ~ \E t \in Token, n \in Size, old \in SUBSET Token :
                 PutOperation(p, t, n, old)
      BY DEF Put, PutOperation
    <3> QED
      BY <3>1, <3>2, <3>3, <3>4, <3>5, <3>6 DEF Next
  <2>2. \A x \in Cached : size'[x] = 0 => x = e
    BY <2>1 DEF Evict, Cached, TypeOK
  <2>3. /\ stage[p] \in 1..OtherKinds /\ KindOf[e] \in 1..OtherKinds
        /\ \A f \in Cached :
             KindOf[f] \in 1..OtherKinds /\ KindOf[f] >= stage[p]
    BY KindAssumption DEF TypeOK, Exhausted, Cached
  <2>4. stage[p] < OtherKinds => KindOf[e] = stage[p]
    BY <2>1 DEF Evict, Candidates
  <2>5. \A f \in Cached : KindOf[e] <= KindOf[f]
    BY <2>3, <2>4 DEF OtherKinds
  <2> QED
    BY <2>2, <2>5
<1>3. Spec => [][InOrder]_vars
  BY <1>1, <1>2, QuotaTypes, ExhaustedNext, PTL DEF Spec
<1> QED
  BY <1>3 DEF EvictionInOrder
=============================================================================
