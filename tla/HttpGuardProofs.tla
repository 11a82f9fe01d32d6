---------------------------- MODULE HttpGuardProofs ----------------------------
(***************************************************************************)
(* What holds of HttpGuard for any addresses, limits and durations: its    *)
(* table is bounded, no lock is given up for room, and a client's guesses  *)
(* in a window are bounded, whatever requests are handled at once.         *)
(***************************************************************************)
EXTENDS HttpGuard, FiniteSetTheorems, WellFoundedInduction, TLAPS

\* The clients are finitely many, and no more than the limit.
Bounded == IsFiniteSet(Tracked(table)) /\ TableIsBounded

-----------------------------------------------------------------------------
\* An entry with a failure more, just seen.
LEMMA OneFailureMore ==
  ASSUME NEW e \in Entry, NEW s \in BOOLEAN, NEW n \in 0..Lockout
  PROVE  [e EXCEPT !.failures = e.failures + 1, !.idle = 0, !.set = s, !.left = n]
           \in Entry
<1> DEFINE R == 0..(Window + 1)
           L == 0..Lockout
<1>1. e.failures + 1 \in Nat /\ 0 \in R
  BY GuardAssumption DEF Entry
<1>2. Entry = [failures : Nat, age : R, idle : R, set : BOOLEAN, left : L]
  BY DEF Entry
<1>3. n \in L
  OBVIOUS
<1> HIDE DEF R, L
<1>4. DOMAIN e = {"failures", "age", "idle", "set", "left"}
  BY <1>2
<1> QED
  BY <1>1, <1>2, <1>3, <1>4

\* An entry to which a failure is added has a failure.
LEMMA CountedType ==
  ASSUME NEW e \in Entry
  PROVE  /\ Counted(e) \in Entry /\ Counted(e) # NoEntry
<1> DEFINE started == IF e = NoEntry \/ e.age > Window THEN NoEntry ELSE e
           locks   == LocksAt(started.failures + 1)
           counted == [started EXCEPT !.failures = @ + 1, !.idle = 0,
                        !.set = @ \/ locks, !.left = IF locks THEN Lockout ELSE @]
<1>1. NoEntry \in Entry
  BY GuardAssumption DEF Entry, NoEntry
<1>2. started \in Entry
  BY <1>1
<1>3. locks \in BOOLEAN
  BY <1>2, GuardAssumption DEF LocksAt, Entry
<1>4. (started.set \/ locks) \in BOOLEAN
  BY <1>2, <1>3 DEF Entry
<1>5. counted \in Entry
  <2>1. counted = [started EXCEPT !.failures = started.failures + 1, !.idle = 0,
          !.set = (started.set \/ locks), !.left = IF locks THEN Lockout ELSE started.left]
    OBVIOUS
  <2>2. PICK s \in BOOLEAN : s = (started.set \/ locks)
    BY <1>4
  <2>3. PICK n \in 0..Lockout : n = IF locks THEN Lockout ELSE started.left
    BY <1>2, <1>3, GuardAssumption DEF Entry
  <2>4. counted = [started EXCEPT !.failures = started.failures + 1, !.idle = 0,
                     !.set = s, !.left = n]
    BY <2>1, <2>2, <2>3
  <2> HIDE DEF started, locks, counted
  <2>5. ASSUME NEW x \in Entry
        PROVE  [x EXCEPT !.failures = x.failures + 1, !.idle = 0,
                         !.set = s, !.left = n] \in Entry
    BY <2>2, <2>3, OneFailureMore
  <2> QED
    BY <1>2, <2>4, <2>5
<1>6. counted.failures = started.failures + 1
  <2> HIDE DEF started, locks
  <2> QED
    BY <1>2 DEF Entry
<1>7. counted # NoEntry
  <2>1. started.failures + 1 # 0
    BY <1>2 DEF Entry
  <2> HIDE DEF started, counted
  <2> QED
    BY <1>6, <2>1 DEF NoEntry
<1> QED
  BY <1>5, <1>7 DEF Counted

\* Pruning keeps entries or empties them, and those of locked clients it keeps.
LEMMA PrunedType ==
  ASSUME TypeOK
  PROVE  /\ Pruned \in [Client -> Entry]
         /\ \A c \in Client : Pruned[c] = table[c] \/ Pruned[c] = NoEntry
         /\ \A c \in Locked(table) : Pruned[c] = table[c]
         /\ Locked(Pruned) = Locked(table)
<1>1. NoEntry \in Entry
  BY GuardAssumption DEF Entry, NoEntry
<1>2. \A c \in Client : Pruned[c] = IF Outdated(table[c]) THEN NoEntry ELSE table[c]
  BY DEF Pruned
<1>3. Pruned \in [Client -> Entry]
  BY <1>1 DEF Pruned, TypeOK
<1>4. \A c \in Locked(table) : Pruned[c] = table[c]
  BY <1>2 DEF Outdated, Locked, TypeOK, Entry
<1>5. \A c \in Locked(Pruned) : Pruned[c] = table[c]
  BY <1>2 DEF Locked, NoEntry
<1> QED
  BY <1>2, <1>3, <1>4, <1>5 DEF Locked

\* A table that tracks no client that another does not is as bounded.
LEMMA FewerTracked ==
  ASSUME Bounded, NEW t, Tracked(t) \subseteq Tracked(table)
  PROVE  IsFiniteSet(Tracked(t)) /\ Cardinality(Tracked(t)) <= MaxTracked
<1>1. IsFiniteSet(Tracked(t)) /\ Cardinality(Tracked(t)) <= Cardinality(Tracked(table))
  BY FS_Subset DEF Bounded
<1>2. Cardinality(Tracked(t)) \in Nat /\ Cardinality(Tracked(table)) \in Nat
  BY <1>1, FS_CardinalityType DEF Bounded
<1> QED
  BY <1>1, <1>2, GuardAssumption DEF Bounded, TableIsBounded

\* Of clients that are tracked and not locked, one was seen longest ago.
LEMMA SomeEvictable ==
  ASSUME NEW t \in [Client -> Entry], Evictable(t) = {}
  PROVE  Tracked(t) \subseteq Locked(t)
<1> SUFFICES ASSUME NEW d \in Tracked(t) \ Locked(t) PROVE FALSE
  OBVIOUS
<1> DEFINE free == Tracked(t) \ Locked(t)
           S == {Window + 1 - t[c].idle : c \in free}
<1>1. \A c \in free : t[c].idle \in 0..(Window + 1)
  BY DEF Tracked, Entry
<1>2. S \in SUBSET Nat /\ S # {}
  BY <1>1, GuardAssumption
<1>3. PICK n \in S : \A m \in S : n <= m
  <2> HIDE DEF S
  <2> DEFINE R == OpToRel(<, Nat)
  <2>1. PICK n \in S : \A m \in S : ~ (<<m, n>> \in R)
    BY <1>2, NatLessThanWellFounded, WFMin
  <2>2. \A a, b \in Nat : a < b => <<a, b>> \in R
    BY DEF OpToRel
  <2> HIDE DEF R
  <2>3. ASSUME NEW m \in S PROVE n <= m
    <3>1. m \in Nat /\ n \in Nat /\ ~ (<<m, n>> \in R)
      BY <1>2, <2>1
    <3> QED
      BY <2>2, <3>1
  <2> QED
    BY <2>3
<1>4. PICK c \in free : n = Window + 1 - t[c].idle
  BY <1>3
<1>5. ASSUME NEW x \in free PROVE t[x].idle <= t[c].idle
  <2>1. n <= Window + 1 - t[x].idle
    BY <1>3
  <2>2. t[x].idle \in 0..(Window + 1) /\ t[c].idle \in 0..(Window + 1)
    BY <1>1
  <2> QED
    BY <2>1, <2>2, <1>4, GuardAssumption
<1> QED
  BY <1>4, <1>5 DEF Evictable

\* The history after pruning has its types.
LEMMA BegunType ==
  ASSUME TypeOK
  PROVE  /\ Begun(guesses, 0) \in [Client -> Nat]
         /\ Begun(crowded, FALSE) \in [Client -> BOOLEAN]
BY DEF Begun, TypeOK

\* So has it after a failure.
LEMMA GuessType ==
  ASSUME TypeOK, NEW c \in Client, NEW lost, Guess(c, lost)
  PROVE  guesses' \in [Client -> Nat] /\ crowded' \in [Client -> BOOLEAN]
<1> DEFINE begins == Pruned[c].age > Window
           G == Begun(guesses, 0)
           K == Begun(crowded, FALSE)
<1>1. G \in [Client -> Nat]
  BY BegunType
<1>2. /\ crowded' = [d \in Client |-> d \in lost \/ (K[d] /\ ~(d = c /\ begins))]
      /\ guesses' = [d \in Client |-> IF crowded'[d] THEN 0
                       ELSE IF d # c THEN G[d] ELSE IF begins THEN 1 ELSE G[d] + 1]
  BY DEF Guess
<1> HIDE DEF begins, G, K
<1>3. crowded' \in [Client -> BOOLEAN]
  BY <1>2, Zenon
<1>4. guesses' \in [Client -> Nat]
  BY <1>1, <1>2
<1> QED
  BY <1>3, <1>4

-----------------------------------------------------------------------------
\* Every step keeps the types.
LEMMA TypeNext ==
  ASSUME TypeOK, [Next]_vars PROVE TypeOK'
<1>0. NoEntry \in Entry
  BY GuardAssumption DEF Entry, NoEntry
<1>1. CASE UNCHANGED vars
  BY <1>1 DEF vars, request, history, TypeOK
<1>2. CASE Tick
  <2>1. ASSUME NEW c \in Client
        PROVE  [table[c] EXCEPT !.age  = Lower(@ + 1, Window + 1),
                                !.idle = Lower(@ + 1, Window + 1),
                                !.left = IF @ = 0 THEN 0 ELSE @ - 1] \in Entry
    <3> DEFINE e == table[c]
    <3>1. e \in Entry
      BY DEF TypeOK
    <3> HIDE DEF e
    <3>2. /\ Lower(e.age + 1, Window + 1) \in 0..(Window + 1)
          /\ Lower(e.idle + 1, Window + 1) \in 0..(Window + 1)
          /\ (IF e.left = 0 THEN 0 ELSE e.left - 1) \in 0..Lockout
      BY <3>1, GuardAssumption DEF Entry, Lower
    <3> USE DEF e
    <3> QED
      BY <3>1, <3>2 DEF Entry
  <2>2. table' \in [Client -> Entry]
    BY <1>0, <1>2, <2>1 DEF Tick
  <2> QED
    BY <1>2, <2>2 DEF Tick, request, history, TypeOK
<1>3. ASSUME NEW r \in Request, NEW c \in Client, AskLockout(r, c)
      PROVE  TypeOK'
  BY <1>3, PrunedType, BegunType DEF AskLockout, Goto, PrunedHistory, TypeOK
<1>4. ASSUME NEW r \in Request, Compare(r) PROVE TypeOK'
  BY <1>4 DEF Compare, Goto, history, TypeOK
<1>5. ASSUME NEW r \in Request, NoteFailure(r) PROVE TypeOK'
  <2>1. Pruned \in [Client -> Entry] /\ from[r] \in Client
    BY PrunedType DEF TypeOK
  <2>2. Counted(Pruned[from[r]]) \in Entry /\ Counted(NoEntry) \in Entry
    BY <1>0, <2>1, CountedType
  <2>3. table' \in [Client -> Entry]
    BY <1>0, <1>5, <2>1, <2>2 DEF NoteFailure
  <2>4. PICK lost : Guess(from[r], lost)
    BY <1>5 DEF NoteFailure
  <2>5. /\ guesses' \in [Client -> Nat]
        /\ crowded' \in [Client -> BOOLEAN]
    BY <2>1, <2>4, GuessType
  <2> QED
    BY <1>5, <2>3, <2>5 DEF NoteFailure, Goto, TypeOK
<1>6. ASSUME NEW r \in Request, NoteSuccess(r) PROVE TypeOK'
  BY <1>0, <1>6 DEF NoteSuccess, Goto, TypeOK
<1> QED
  BY <1>1, <1>2, <1>3, <1>4, <1>5, <1>6 DEF Next

\* A client is added to a table with room, or in the place of another.
LEMMA BoundedNext ==
  ASSUME TypeOK, Bounded, [Next]_vars PROVE Bounded'
<1>1. CASE Tracked(table') \subseteq Tracked(table)
  BY <1>1, FewerTracked DEF Bounded, TableIsBounded
<1>2. Tracked(Pruned) \subseteq Tracked(table)
  BY PrunedType DEF Tracked
<1>3. CASE Tick
  BY <1>1, <1>3 DEF Tick, Tracked
<1>4. ASSUME NEW r \in Request, NoteSuccess(r) PROVE Bounded'
  <2>1. Tracked(table') \subseteq Tracked(table)
    BY <1>4 DEF NoteSuccess, Tracked, TypeOK
  <2> QED
    BY <1>1, <2>1
<1>5. ASSUME NEW r \in Request, NoteFailure(r) PROVE Bounded'
  <2> DEFINE c == from[r]
  <2>1. Pruned \in [Client -> Entry] /\ c \in Client
    BY PrunedType DEF TypeOK
  <2>2. IsFiniteSet(Tracked(Pruned)) /\ Cardinality(Tracked(Pruned)) <= MaxTracked
        /\ Cardinality(Tracked(Pruned)) \in Nat
    BY <1>2, FewerTracked, FS_CardinalityType
  <2>3. CASE Room(Pruned, c)
    <3>1. Tracked(table') \subseteq Tracked(Pruned) \cup {c}
      BY <1>5, <2>1, <2>3 DEF NoteFailure, Tracked
    <3>2. CASE c \in Tracked(Pruned)
      BY <1>1, <1>2, <3>1, <3>2
    <3>3. CASE c \notin Tracked(Pruned)
      <4>1. Cardinality(Tracked(Pruned)) < MaxTracked
        BY <2>2, <2>3, <3>3, GuardAssumption DEF Room, Full
      <4>2. /\ IsFiniteSet(Tracked(Pruned) \cup {c})
            /\ Cardinality(Tracked(Pruned) \cup {c}) = Cardinality(Tracked(Pruned)) + 1
        BY <2>2, <3>3, FS_AddElement
      <4>3. /\ IsFiniteSet(Tracked(table'))
            /\ Cardinality(Tracked(table')) <= Cardinality(Tracked(Pruned)) + 1
        BY <3>1, <4>2, FS_Subset
      <4> QED
        BY <2>2, <4>1, <4>3, FS_CardinalityType, GuardAssumption DEF Bounded, TableIsBounded
    <3> QED
      BY <3>2, <3>3
  <2>4. ASSUME NEW x \in Evictable(Pruned), ~Room(Pruned, c),
               table' = [Pruned EXCEPT ![x] = NoEntry, ![c] = Counted(NoEntry)]
        PROVE  Bounded'
    <3>1. x \in Tracked(Pruned) /\ x # c
      BY <2>4 DEF Evictable, Room
    <3>2. Tracked(table') \subseteq (Tracked(Pruned) \ {x}) \cup {c}
      BY <2>1, <2>4, <3>1 DEF Tracked
    <3>3. /\ IsFiniteSet(Tracked(Pruned) \ {x})
          /\ Cardinality(Tracked(Pruned) \ {x}) = Cardinality(Tracked(Pruned)) - 1
      BY <2>2, <3>1, FS_RemoveElement
    <3>4. c \notin Tracked(Pruned) \ {x}
      BY <2>4 DEF Room
    <3>5. /\ IsFiniteSet((Tracked(Pruned) \ {x}) \cup {c})
          /\ Cardinality((Tracked(Pruned) \ {x}) \cup {c}) = Cardinality(Tracked(Pruned))
      <4> DEFINE S == Tracked(Pruned) \ {x}
      <4>1. IsFiniteSet(S) /\ c \notin S /\ Cardinality(S) = Cardinality(Tracked(Pruned)) - 1
        BY <3>3, <3>4
      <4> HIDE DEF S
      <4>2. IsFiniteSet(S \cup {c}) /\ Cardinality(S \cup {c}) = Cardinality(S) + 1
        BY <4>1, FS_AddElement
      <4>3. Cardinality(S \cup {c}) = Cardinality(Tracked(Pruned))
        BY <2>2, <4>1, <4>2
      <4> QED
        BY <4>2, <4>3 DEF S
    <3>6. /\ IsFiniteSet(Tracked(table'))
          /\ Cardinality(Tracked(table')) <= Cardinality(Tracked(Pruned))
      BY <3>2, <3>5, FS_Subset
    <3> QED
      BY <2>2, <3>6, FS_CardinalityType, GuardAssumption DEF Bounded, TableIsBounded
  <2>5. CASE table' = Pruned
    BY <1>1, <1>2, <2>5
  <2> QED
    BY <1>5, <2>3, <2>4, <2>5 DEF NoteFailure
<1>6. ASSUME NEW r \in Request, NEW c \in Client, AskLockout(r, c) PROVE Bounded'
  BY <1>1, <1>2, <1>6 DEF AskLockout
<1>7. CASE UNCHANGED table
  BY <1>1, <1>7
<1> QED
  BY <1>3, <1>4, <1>5, <1>6, <1>7 DEF Next, vars, Compare

\* Nothing is tracked at first.
LEMMA InitBounded ==
  ASSUME Init PROVE TypeOK /\ Bounded
<1>1. NoEntry \in Entry
  BY GuardAssumption DEF Entry, NoEntry
<1>2. Tracked(table) = {}
  BY DEF Init, Tracked
<1>3. TypeOK
  BY <1>1 DEF Init, TypeOK
<1> QED
  BY <1>2, <1>3, FS_EmptySet, GuardAssumption DEF Bounded, TableIsBounded

-----------------------------------------------------------------------------
\* The variables have their types.
THEOREM TypeCorrect == Spec => []TypeOK
<1>1. TypeOK /\ [Next]_vars => TypeOK'
  BY TypeNext
<1>2. Init => TypeOK
  BY InitBounded
<1> QED
  BY <1>1, <1>2, PTL DEF Spec

\* Whatever addresses requests come from, maxTrackedClients of them are kept.
THEOREM TableBounded == Spec => []TableIsBounded
<1>1. Bounded /\ TypeOK /\ [Next]_vars => Bounded'
  BY BoundedNext
<1>2. Init => Bounded
  BY InitBounded
<1>3. Bounded => TableIsBounded
  BY DEF Bounded
<1> QED
  BY <1>1, <1>2, <1>3, TypeCorrect, PTL DEF Spec

\* A failure gives up no lock but its own client's, and is not counted only when
\* the table is full of locked clients.
LEMMA FailureKeepsLocks ==
  ASSUME TypeOK, NEW r \in Request, NoteFailure(r)
  PROVE  /\ Locked(table) \ Locked(table') \subseteq {from[r]}
         /\ from[r] \notin Tracked(table') => Locked(table') = Tracked(table')
<1> DEFINE c == from[r]
<1>1. /\ Pruned \in [Client -> Entry] /\ Locked(Pruned) = Locked(table)
      /\ \A d \in Locked(table) : Pruned[d] = table[d]
      /\ c \in Client /\ NoEntry \in Entry
  BY PrunedType, GuardAssumption DEF TypeOK, Entry, NoEntry
<1>2. CASE Room(Pruned, c)
  <2>1. table' = [Pruned EXCEPT ![c] = Counted(Pruned[c])]
    BY <1>2 DEF NoteFailure
  <2>2. \A d \in Client \ {c} : table'[d] = Pruned[d]
    BY <1>1, <2>1
  <2>3. c \in Tracked(table')
    BY <1>1, <2>1, CountedType DEF Tracked
  <2> QED
    BY <1>1, <2>2, <2>3 DEF Locked
<1>3. ASSUME NEW x \in Evictable(Pruned), ~Room(Pruned, c),
             table' = [Pruned EXCEPT ![x] = NoEntry, ![c] = Counted(NoEntry)]
      PROVE  /\ Locked(table) \ Locked(table') \subseteq {c}
             /\ c \in Tracked(table')
  <2>1. x \notin Locked(table) /\ x \in Client /\ x # c
    BY <1>1, <1>3 DEF Evictable, Room, Tracked
  <2>2. \A d \in Client \ {c, x} : table'[d] = Pruned[d]
    BY <1>1, <1>3
  <2>3. table'[c] = Counted(NoEntry)
    BY <1>1, <1>3, <2>1
  <2> QED
    BY <1>1, <2>1, <2>2, <2>3, CountedType DEF Locked, Tracked
<1>4. CASE Evictable(Pruned) = {} /\ table' = Pruned
  <2>1. Tracked(Pruned) \subseteq Locked(Pruned)
    BY <1>1, <1>4, SomeEvictable
  <2>2. Locked(Pruned) \subseteq Tracked(Pruned)
    BY DEF Locked, Tracked, NoEntry
  <2> QED
    BY <1>1, <1>4, <2>1, <2>2
<1> QED
  BY <1>2, <1>3, <1>4 DEF NoteFailure

\* No lock is given up for room.
THEOREM LocksKept == Spec => LocksAreNotEvicted
<1>1. TypeOK /\ [Next]_vars =>
        [\A r \in Request : pc[r] = "failure" /\ pc'[r] = "idle"
           => /\ Locked(table) \ Locked(table') \subseteq {from[r]}
              /\ from[r] \notin Tracked(table') => Locked(table') = Tracked(table')]_vars
  <2> SUFFICES ASSUME TypeOK, Next, NEW r \in Request,
                      pc[r] = "failure", pc'[r] = "idle"
               PROVE  /\ Locked(table) \ Locked(table') \subseteq {from[r]}
                      /\ from[r] \notin Tracked(table') => Locked(table') = Tracked(table')
    OBVIOUS
  <2>1. NoteFailure(r)
    BY DEF Next, Tick, request, AskLockout, Compare, NoteFailure, NoteSuccess,
       Goto, TypeOK
  <2> QED
    BY <2>1, FailureKeepsLocks
<1> QED
  BY <1>1, TypeCorrect, PTL DEF Spec, LocksAreNotEvicted

-----------------------------------------------------------------------------
(* Guesses, of finitely many requests at once.                              *)

\* Whoever has used up the failures of a window has been locked since.
LockedAtLimit == \A c \in Client : ~table[c].set => table[c].failures < MaxFailures

\* The number of failures that client c has or can come to have by requests
\* that are let in.
Guesses(c) == table[c].failures + Cardinality(Admitted(c))

\* What is bounded whoever is crowded out: the failures that the table has.
CountsAreBounded ==
  \A c \in Client : Guesses(c) < MaxFailures + Cardinality(Request)

\* Who is not crowded out has all its guesses counted.
AllAreCounted == \A c \in Client : ~crowded[c] => guesses[c] = table[c].failures

\* A failure more, of an entry or of none, and a lock at the limit.
LEMMA CountedFailures ==
  ASSUME NEW e \in Entry
  PROVE  /\ Counted(e).failures \in {1, e.failures + 1}
         /\ ~Counted(e).set => Counted(e).failures < MaxFailures
<1> DEFINE started == IF e = NoEntry \/ e.age > Window THEN NoEntry ELSE e
           locks   == LocksAt(started.failures + 1)
<1>1. started \in Entry /\ started.failures \in {0, e.failures}
  BY GuardAssumption DEF Entry, NoEntry
<1>2. Counted(e) = [started EXCEPT !.failures = @ + 1, !.idle = 0,
                      !.set = @ \/ locks, !.left = IF locks THEN Lockout ELSE @]
  BY DEF Counted
<1>3. locks <=> started.failures + 1 >= MaxFailures
  BY DEF LocksAt
<1> HIDE DEF started, locks
<1>4. Counted(e).failures = started.failures + 1 /\ (Counted(e).set <=> started.set \/ locks)
  BY <1>1, <1>2 DEF Entry
<1> QED
  BY <1>1, <1>3, <1>4, GuardAssumption DEF Entry

\* The failures of an entry whose window goes on, and of one whose window begins.
LEMMA CountedExactly ==
  ASSUME NEW e \in Entry
  PROVE  Counted(e).failures = IF e.age > Window THEN 1 ELSE e.failures + 1
<1> DEFINE started == IF e = NoEntry \/ e.age > Window THEN NoEntry ELSE e
           locks   == LocksAt(started.failures + 1)
<1>1. started \in Entry
  BY GuardAssumption DEF Entry, NoEntry
<1>2. started.failures = IF e.age > Window THEN 0 ELSE e.failures
  BY GuardAssumption DEF Entry, NoEntry
<1>3. Counted(e) = [started EXCEPT !.failures = @ + 1, !.idle = 0,
                      !.set = @ \/ locks, !.left = IF locks THEN Lockout ELSE @]
  BY DEF Counted
<1> HIDE DEF started, locks
<1>4. Counted(e).failures = started.failures + 1
  BY <1>1, <1>3 DEF Entry
<1> QED
  BY <1>2, <1>4

\* A lock that is over takes the failures with it.
LEMMA PrunedFailures ==
  ASSUME TypeOK, LockedAtLimit, NEW c \in Client
  PROVE  /\ Pruned[c].failures \in {0, table[c].failures}
         /\ ~Pruned[c].set => Pruned[c].failures < MaxFailures
         /\ c \notin Locked(Pruned) => Pruned[c].failures < MaxFailures
<1>1. Pruned[c] = IF Outdated(table[c]) THEN NoEntry ELSE table[c]
  BY DEF Pruned
<1>2. table[c] \in Entry
  BY DEF TypeOK
<1> QED
  BY <1>1, <1>2, GuardAssumption DEF LockedAtLimit, Outdated, Locked, NoEntry, Entry

\* What a step makes of the table.
LEMMA LockedAtLimitNext ==
  ASSUME TypeOK, LockedAtLimit, [Next]_vars PROVE LockedAtLimit'
<1>0. NoEntry \in Entry /\ NoEntry.failures = 0 /\ 0 < MaxFailures
  BY GuardAssumption DEF Entry, NoEntry
<1>p. Pruned \in [Client -> Entry] /\ table \in [Client -> Entry]
  BY PrunedType DEF TypeOK
<1>1. CASE UNCHANGED table
  BY <1>1 DEF LockedAtLimit
<1>2. CASE Tick
  <2>1. \A c \in Client : table'[c].set = table[c].set /\ table'[c].failures = table[c].failures
    BY <1>2, <1>p DEF Tick, Entry
  <2> QED
    BY <2>1 DEF LockedAtLimit
<1>3. CASE table' = Pruned
  BY <1>3, PrunedFailures DEF LockedAtLimit
<1>4. ASSUME NEW r \in Request, NoteFailure(r) PROVE LockedAtLimit'
  <2>1. ASSUME NEW d \in Client PROVE
          \/ table'[d] \in {Pruned[d], NoEntry}
          \/ table'[d] = Counted(Pruned[d]) \/ table'[d] = Counted(NoEntry)
    BY <1>4, <1>p DEF NoteFailure
  <2>2. ASSUME NEW d \in Client, ~table'[d].set PROVE table'[d].failures < MaxFailures
    <3>1. Pruned[d] \in Entry
      BY <1>p
    <3> QED
      BY <1>0, <2>1, <2>2, <3>1, CountedFailures, PrunedFailures
  <2> QED
    BY <2>2 DEF LockedAtLimit
<1>5. ASSUME NEW r \in Request, NoteSuccess(r) PROVE LockedAtLimit'
  BY <1>0, <1>5, <1>p DEF NoteSuccess, LockedAtLimit
<1> QED
  BY <1>1, <1>2, <1>3, <1>4, <1>5 DEF Next, vars, Compare, AskLockout

\* A client with no more failures, and no more requests let in.
LEMMA NoMoreGuesses ==
  ASSUME IsFiniteSet(Request), TypeOK, TypeOK', CountsAreBounded, NEW c \in Client,
         table'[c].failures <= table[c].failures, Admitted(c)' \subseteq Admitted(c)
  PROVE  Guesses(c)' < MaxFailures + Cardinality(Request)
<1>1. IsFiniteSet(Admitted(c)) /\ Cardinality(Request) \in Nat
  BY FS_Subset, FS_CardinalityType DEF Admitted
<1>2. /\ Cardinality(Admitted(c)') <= Cardinality(Admitted(c))
      /\ Cardinality(Admitted(c)') \in Nat /\ Cardinality(Admitted(c)) \in Nat
  BY <1>1, FS_Subset, FS_CardinalityType
<1>3. table[c].failures \in Nat /\ table'[c].failures \in Nat
  BY DEF TypeOK, Entry
<1> QED
  BY <1>1, <1>2, <1>3, GuardAssumption DEF Guesses, CountsAreBounded

\* Every step keeps the bound: who is let in has a failure left, and who adds a
\* failure is let in no more.
LEMMA GuessesNext ==
  ASSUME IsFiniteSet(Request), TypeOK, TypeOK', LockedAtLimit, CountsAreBounded,
         [Next]_vars
  PROVE  CountsAreBounded'
<1> SUFFICES ASSUME NEW c \in Client
             PROVE  Guesses(c)' < MaxFailures + Cardinality(Request)
  BY DEF CountsAreBounded, Guesses
<1>0. /\ NoEntry.failures = 0 /\ NoEntry \in Entry
      /\ Pruned \in [Client -> Entry] /\ table \in [Client -> Entry] /\ table[c].failures \in Nat
      /\ Pruned[c].failures \in {0, table[c].failures} /\ Pruned[c] \in Entry
  BY PrunedType, PrunedFailures, GuardAssumption DEF TypeOK, Entry, NoEntry
<1>1. CASE UNCHANGED vars
  <2>1. table'[c].failures <= table[c].failures /\ Admitted(c)' \subseteq Admitted(c)
    BY <1>0, <1>1 DEF vars, request, Admitted
  <2> QED
    BY <2>1, NoMoreGuesses
<1>2. CASE Tick
  <2>1. table'[c].failures = table[c].failures /\ Admitted(c)' \subseteq Admitted(c)
    BY <1>0, <1>2 DEF Tick, Entry, request, Admitted
  <2> QED
    BY <1>0, <2>1, NoMoreGuesses
<1>3. ASSUME NEW r \in Request, NEW d \in Client, AskLockout(r, d)
      PROVE  Guesses(c)' < MaxFailures + Cardinality(Request)
  <2>1. table' = Pruned /\ from' = [from EXCEPT ![r] = d]
    BY <1>3 DEF AskLockout
  <2>2. CASE d = c /\ c \notin Locked(Pruned)
    <3>1. Pruned[c].failures < MaxFailures
      BY <2>2, PrunedFailures
    <3>2. /\ Cardinality(Admitted(c)') <= Cardinality(Request)
          /\ Cardinality(Admitted(c)') \in Nat /\ Cardinality(Request) \in Nat
      <4>1. Admitted(c)' \in SUBSET Request
        BY DEF Admitted
      <4> QED
        BY <4>1, FS_Subset, FS_CardinalityType
    <3> QED
      BY <1>0, <2>1, <3>1, <3>2, GuardAssumption DEF Guesses, Entry
  <2>3. CASE ~(d = c /\ c \notin Locked(Pruned))
    <3>1. table'[c].failures <= table[c].failures
      BY <1>0, <2>1
    <3>2. Admitted(c)' \subseteq Admitted(c)
      BY <1>3, <2>1, <2>3 DEF AskLockout, Goto, Admitted, TypeOK
    <3> QED
      BY <3>1, <3>2, NoMoreGuesses
  <2> QED
    BY <2>2, <2>3
<1>4. ASSUME NEW r \in Request, Compare(r)
      PROVE  Guesses(c)' < MaxFailures + Cardinality(Request)
  <2>1. table'[c].failures <= table[c].failures /\ Admitted(c)' \subseteq Admitted(c)
    BY <1>0, <1>4 DEF Compare, Goto, Admitted, TypeOK
  <2> QED
    BY <2>1, NoMoreGuesses
<1>5. ASSUME NEW r \in Request, NoteFailure(r)
      PROVE  Guesses(c)' < MaxFailures + Cardinality(Request)
  <2>1. CASE from[r] # c
    <3>1. table'[c] \in {Pruned[c], NoEntry}
      BY <1>0, <1>5, <2>1 DEF NoteFailure
    <3>2. table'[c].failures <= table[c].failures
      BY <1>0, <3>1
    <3>3. Admitted(c)' \subseteq Admitted(c)
      BY <1>5, <2>1 DEF NoteFailure, Goto, Admitted, TypeOK
    <3> QED
      BY <3>2, <3>3, NoMoreGuesses
  <2>2. CASE from[r] = c
    <3>1. Admitted(c)' = Admitted(c) \ {r} /\ r \in Admitted(c)
      BY <1>5, <2>2 DEF NoteFailure, Goto, Admitted, TypeOK
    <3>2. /\ IsFiniteSet(Admitted(c)) /\ Cardinality(Admitted(c)) <= Cardinality(Request)
          /\ Cardinality(Admitted(c)) \in Nat /\ Cardinality(Request) \in Nat
      <4>1. Admitted(c) \in SUBSET Request
        BY DEF Admitted
      <4> QED
        BY <4>1, FS_Subset, FS_CardinalityType
    <3>3. Cardinality(Admitted(c)') = Cardinality(Admitted(c)) - 1
      BY <3>1, <3>2, FS_RemoveElement
    <3>4. table'[c].failures \in {0, 1, table[c].failures, table[c].failures + 1}
      <4>1. \/ table'[c] \in {Pruned[c], NoEntry}
            \/ table'[c] = Counted(Pruned[c]) \/ table'[c] = Counted(NoEntry)
        BY <1>0, <1>5 DEF NoteFailure
      <4> QED
        BY <1>0, <4>1, CountedFailures
    <3> QED
      BY <1>0, <3>2, <3>3, <3>4, GuardAssumption DEF Guesses, CountsAreBounded
  <2> QED
    BY <2>1, <2>2
<1>6. ASSUME NEW r \in Request, NoteSuccess(r)
      PROVE  Guesses(c)' < MaxFailures + Cardinality(Request)
  <2>1. table'[c].failures <= table[c].failures /\ Admitted(c)' \subseteq Admitted(c)
    BY <1>0, <1>6 DEF NoteSuccess, Goto, Admitted, TypeOK
  <2> QED
    BY <2>1, NoMoreGuesses
<1> QED
  BY <1>1, <1>2, <1>3, <1>4, <1>5, <1>6 DEF Next

\* The failures that a client's entry has are those of its window.
LEMMA AllAreCountedNext ==
  ASSUME TypeOK, AllAreCounted, [Next]_vars PROVE AllAreCounted'
<1> SUFFICES ASSUME NEW d \in Client, ~crowded'[d]
             PROVE  guesses'[d] = table'[d].failures
  BY DEF AllAreCounted
<1> DEFINE G == Begun(guesses, 0)
           K == Begun(crowded, FALSE)
<1>0. /\ NoEntry.failures = 0 /\ NoEntry.age = 0 /\ NoEntry \in Entry
      /\ Pruned \in [Client -> Entry] /\ table \in [Client -> Entry]
  BY PrunedType, GuardAssumption DEF TypeOK, Entry, NoEntry
<1>1. /\ ~crowded[d] => guesses[d] = table[d].failures
      /\ \A e \in Client : ~K[e] => G[e] = Pruned[e].failures
  BY <1>0 DEF AllAreCounted, Begun, Pruned
<1>2. CASE UNCHANGED <<table, history>>
  BY <1>1, <1>2 DEF history
<1>3. CASE Tick
  BY <1>0, <1>1, <1>3 DEF Tick, history, Entry
<1>4. ASSUME NEW r \in Request, NEW c \in Client, AskLockout(r, c)
      PROVE  guesses'[d] = table'[d].failures
  BY <1>1, <1>4 DEF AskLockout, PrunedHistory
<1>5. ASSUME NEW r \in Request, NoteSuccess(r)
      PROVE  guesses'[d] = table'[d].failures
  BY <1>0, <1>1, <1>5 DEF NoteSuccess, TypeOK
<1>6. ASSUME NEW r \in Request, NoteFailure(r)
      PROVE  guesses'[d] = table'[d].failures
  <2> DEFINE c == from[r]
             begins == Pruned[c].age > Window
  <2>0. c \in Client
    BY DEF TypeOK
  <2>1. ASSUME NEW lost, Guess(c, lost)
        PROVE  /\ d \notin lost
               /\ d # c => guesses'[d] = Pruned[d].failures
               /\ begins /\ d = c => guesses'[d] = 1
               /\ ~begins /\ d = c => guesses'[d] = Pruned[d].failures + 1
    <3>1. /\ crowded'[d] = (d \in lost \/ (K[d] /\ ~(d = c /\ begins)))
          /\ guesses'[d] = IF crowded'[d] THEN 0
                           ELSE IF d # c THEN G[d] ELSE IF begins THEN 1 ELSE G[d] + 1
      BY <2>1 DEF Guess
    <3>2. ~K[d] => G[d] = Pruned[d].failures
      BY <1>1
    <3> HIDE DEF G, K, begins
    <3>3. d \notin lost /\ (d # c => ~K[d]) /\ (~begins => ~K[d])
      BY <3>1
    <3> QED
      BY <3>1, <3>2, <3>3
  <2>2. Pruned[c] \in Entry
    BY <1>0, <2>0
  <2>3. /\ Counted(Pruned[c]).failures = IF begins THEN 1 ELSE Pruned[c].failures + 1
        /\ Counted(NoEntry).failures = 1
    BY <1>0, <2>2, CountedExactly
  <2> HIDE DEF begins
  <2>4. CASE Room(Pruned, c)
    <3>1. table' = [Pruned EXCEPT ![c] = Counted(Pruned[c])] /\ Guess(c, {})
      BY <1>6, <2>4 DEF NoteFailure
    <3> QED
      BY <1>0, <2>0, <2>1, <2>3, <3>1
  <2>5. ASSUME NEW x \in Evictable(Pruned), ~Room(Pruned, c), Guess(c, {x}),
               table' = [Pruned EXCEPT ![x] = NoEntry, ![c] = Counted(NoEntry)]
        PROVE  guesses'[d] = table'[d].failures
    <3>1. Pruned[c] = NoEntry /\ ~begins
      BY <1>0, <2>0, <2>5, GuardAssumption DEF Room, Tracked, begins
    <3>2. d # x
      BY <2>1, <2>5
    <3> QED
      BY <1>0, <2>0, <2>1, <2>3, <2>5, <3>1, <3>2
  <2>6. CASE table' = Pruned /\ Guess(c, {c})
    BY <2>1, <2>6
  <2> QED
    BY <1>6, <2>4, <2>5, <2>6 DEF NoteFailure
<1> QED
  BY <1>2, <1>3, <1>4, <1>5, <1>6 DEF Next, vars, Compare

\* Between Guard.lockout and noteFailure a client is in no critical section; still
\* whoever is not crowded out gets no more guesses in its window than the limit and
\* the requests that are handled at once allow.
THEOREM GuessesBounded == ASSUME IsFiniteSet(Request) PROVE Spec => []GuessesAreBounded
<1> DEFINE Inv == LockedAtLimit /\ CountsAreBounded /\ AllAreCounted
<1>1. Init => Inv
  <2> SUFFICES ASSUME Init PROVE Inv
    OBVIOUS
  <2>1. LockedAtLimit
    BY GuardAssumption DEF Init, LockedAtLimit, NoEntry
  <2>2. ASSUME NEW c \in Client PROVE Guesses(c) < MaxFailures + Cardinality(Request)
    <3>1. Admitted(c) = {} /\ table[c].failures = 0
      BY <2>2 DEF Init, Admitted, NoEntry
    <3> QED
      BY <3>1, FS_EmptySet, FS_CardinalityType, GuardAssumption DEF Guesses
  <2>3. AllAreCounted
    BY DEF Init, AllAreCounted, NoEntry
  <2> QED
    BY <2>1, <2>2, <2>3 DEF CountsAreBounded
<1>2. TypeOK /\ TypeOK' /\ Inv /\ [Next]_vars => Inv'
  BY LockedAtLimitNext, GuessesNext, AllAreCountedNext
<1>3. Inv => GuessesAreBounded
  BY DEF CountsAreBounded, AllAreCounted, Guesses, GuessesAreBounded
<1> QED
  BY <1>1, <1>2, <1>3, TypeCorrect, PTL DEF Spec
=============================================================================
