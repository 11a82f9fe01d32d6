------------------------------- MODULE HttpGuard -------------------------------
(***************************************************************************)
(* Guard.Middleware: requests that ask whether their client is locked out, *)
(* compare the access key, and note the failure or the success, each in a  *)
(* critical section of its own. The table of clients has a limit.          *)
(*                                                                         *)
(* Times are kept as ages: how long ago, or how long still.                *)
(***************************************************************************)
EXTENDS Naturals, FiniteSets

CONSTANTS
  Client,       \* client addresses
  Request,      \* requests that are handled at once
  MaxTracked,   \* maxTrackedClients
  MaxFailures,  \* maxFailures
  Window,       \* failureWindow
  Lockout       \* lockoutDuration

ASSUME GuardAssumption ==
  /\ MaxTracked \in Nat \ {0} /\ MaxFailures \in Nat \ {0}
  /\ Window \in Nat \ {0} /\ Lockout \in Nat \ {0}

VARIABLES
  table,   \* [Client -> Entry]: Guard.clients
  pc,      \* [Request -> ...]: the critical section that comes next
  from,    \* [Request -> Client]
  guesses, \* [Client -> Nat]: wrong keys since its window began (history)
  crowded  \* [Client -> BOOLEAN]: since then other clients' failures have made
           \* the table forget some of them; guesses is 0 (history)

request == <<pc, from>>
history == <<guesses, crowded>>
vars    == <<table, request, history>>

\* clientState: failures, time since windowStart and since lastSeen (counted
\* no further than guards compare), whether lockedUntil is set, time until it.
Entry   == [failures : Nat, age : 0..(Window + 1), idle : 0..(Window + 1),
            set : BOOLEAN, left : 0..Lockout]
NoEntry == [failures |-> 0, age |-> 0, idle |-> 0, set |-> FALSE, left |-> 0]

Tracked(t) == {c \in Client : t[c] # NoEntry}
Locked(t)  == {c \in Client : t[c].left > 0}

TypeOK ==
  /\ table \in [Client -> Entry]
  /\ pc \in [Request -> {"idle", "compare", "failure", "success"}]
  /\ from \in [Request -> Client]
  /\ guesses \in [Client -> Nat] /\ crowded \in [Client -> BOOLEAN]

Init ==
  /\ table = [c \in Client |-> NoEntry]
  /\ pc = [r \in Request |-> "idle"]
  /\ from \in [Request -> Client]
  /\ guesses = [c \in Client |-> 0] /\ crowded = [c \in Client |-> FALSE]

-----------------------------------------------------------------------------
Lower(a, b) == IF a < b THEN a ELSE b

Tick ==
  /\ table' = [c \in Client |->
       IF table[c] = NoEntry THEN NoEntry
       ELSE [table[c] EXCEPT !.age  = Lower(@ + 1, Window + 1),
                             !.idle = Lower(@ + 1, Window + 1),
                             !.left = IF @ = 0 THEN 0 ELSE @ - 1]]
  /\ UNCHANGED <<request, history>>

Goto(r, s) == pc' = [pc EXCEPT ![r] = s]

Outdated(e) == e.left = 0 /\ (e.set \/ (e.idle > Window /\ e.age > Window))

\* pruneLocked.
Pruned == [c \in Client |-> IF Outdated(table[c]) THEN NoEntry ELSE table[c]]

\* The history after it: with an outdated entry, a client's window is over.
Begun(f, begin) == [c \in Client |-> IF Outdated(table[c]) THEN begin ELSE f[c]]
PrunedHistory   == guesses' = Begun(guesses, 0) /\ crowded' = Begun(crowded, FALSE)

\* The slip: a request during the lockout begins it anew.
AskLockoutRenewing(r, c) ==
  /\ pc[r] = "idle" /\ PrunedHistory
  /\ from' = [from EXCEPT ![r] = c]
  /\ IF c \in Locked(Pruned)
     THEN table' = [Pruned EXCEPT ![c].left = Lockout] /\ UNCHANGED pc
     ELSE table' = Pruned /\ Goto(r, "compare")

\* A request of client c begins with Guard.lockout: 429, or on to the key. What of
\* a request names its client (clientID) is left out.
AskLockout(r, c) ==
  /\ pc[r] = "idle" /\ table' = Pruned /\ PrunedHistory
  /\ from' = [from EXCEPT ![r] = c]
  /\ Goto(r, IF c \in Locked(Pruned) THEN "idle" ELSE "compare")

\* authorized: the key is right or wrong.
Compare(r) ==
  /\ pc[r] = "compare" /\ (Goto(r, "success") \/ Goto(r, "failure"))
  /\ UNCHANGED <<table, from, history>>

\* The slip: the client that was seen longest ago goes, locked or not.
EvictableAny(t) ==
  {c \in Tracked(t) : \A d \in Tracked(t) : t[d].idle <= t[c].idle}

\* evictOldest's choice: of the clients that are not locked.
Evictable(t) ==
  LET free == Tracked(t) \ Locked(t)
  IN {c \in free : \A d \in free : t[d].idle <= t[c].idle}

\* The slip: one failure more than MaxFailures locks.
LocksLate(n) == n > MaxFailures

LocksAt(n) == n >= MaxFailures

\* What noteFailure makes of a client's entry, new or old.
Counted(e) ==
  LET started == IF e = NoEntry \/ e.age > Window THEN NoEntry ELSE e
      locks   == LocksAt(started.failures + 1)
  IN [started EXCEPT !.failures = @ + 1, !.idle = 0,
                     !.set = @ \/ locks, !.left = IF locks THEN Lockout ELSE @]

Full(t) == Cardinality(Tracked(t)) >= MaxTracked

\* The slip: one client too many is tracked.
RoomWithOneMore(t, c) == c \in Tracked(t) \/ Cardinality(Tracked(t)) <= MaxTracked

Room(t, c) == c \in Tracked(t) \/ ~Full(t)

\* The history of a failure of client c that makes the table forget those of the
\* clients lost: c's window may begin with it.
Guess(c, lost) ==
  LET begins == Pruned[c].age > Window IN
  /\ crowded' = [d \in Client |->
       d \in lost \/ (Begun(crowded, FALSE)[d] /\ ~(d = c /\ begins))]
  /\ guesses' = [d \in Client |->
       IF crowded'[d] THEN 0
       ELSE IF d # c THEN Begun(guesses, 0)[d]
       ELSE IF begins THEN 1 ELSE Begun(guesses, 0)[d] + 1]

\* Guard.noteFailure: in a full table another client makes room, or this one is
\* not counted.
NoteFailure(r) ==
  LET c == from[r] IN
  /\ pc[r] = "failure" /\ Goto(r, "idle")
  /\ \/ /\ Room(Pruned, c)
        /\ table' = [Pruned EXCEPT ![c] = Counted(@)] /\ Guess(c, {})
     \/ /\ ~Room(Pruned, c)
        /\ \/ \E x \in Evictable(Pruned) :
                /\ table' = [Pruned EXCEPT ![x] = NoEntry, ![c] = Counted(NoEntry)]
                /\ Guess(c, {x})
           \/ Evictable(Pruned) = {} /\ table' = Pruned /\ Guess(c, {c})
  /\ UNCHANGED from

\* Guard.noteSuccess; the request is served.
NoteSuccess(r) ==
  /\ pc[r] = "success" /\ Goto(r, "idle")
  /\ table' = [table EXCEPT ![from[r]] = NoEntry]
  /\ guesses' = [guesses EXCEPT ![from[r]] = 0]
  /\ crowded' = [crowded EXCEPT ![from[r]] = FALSE]
  /\ UNCHANGED from

Next ==
  \/ Tick
  \/ \E r \in Request :
       \/ \E c \in Client : AskLockout(r, c)
       \/ Compare(r) \/ NoteFailure(r) \/ NoteSuccess(r)

Spec == Init /\ [][Next]_vars

\* Handlers run to their end, and time passes.
FairSpec ==
  /\ Spec /\ WF_vars(Tick)
  /\ \A r \in Request : WF_vars(Compare(r) \/ NoteFailure(r) \/ NoteSuccess(r))

-----------------------------------------------------------------------------
Admitted(c) == {r \in Request : from[r] = c /\ pc[r] \in {"compare", "failure"}}

\* However the critical sections interleave, a client gets MaxFailures guesses
\* in its window, and beyond that only those that had passed Guard.lockout before.
\* Its window begins with a guess, and is over with its lock, with its right key,
\* and when it has lasted failureWindow and the client asks again. Excepted is who
\* is crowded out: evictOldest has forgotten its failures, or noteFailure found
\* nothing but locked clients in a full table and did not count.
GuessesAreBounded ==
  \A c \in Client :
    ~crowded[c]
      => guesses[c] + Cardinality(Admitted(c)) < MaxFailures + Cardinality(Request)

\* Many addresses cannot make the table grow.
TableIsBounded == Cardinality(Tracked(table)) <= MaxTracked

\* A client whose guess is not counted found a table full of locked clients: no
\* lock is given up for room, and no failure is forgotten without need.
LocksAreNotEvicted ==
  [][\A r \in Request : pc[r] = "failure" /\ pc'[r] = "idle"
       => /\ Locked(table) \ Locked(table') \subseteq {from[r]}
          /\ from[r] \notin Tracked(table') => Locked(table') = Tracked(table')]_vars

\* A lock ends, whatever its client and others go on sending.
LockEnds == \A c \in Client : c \in Locked(table) ~> c \notin Locked(table)

\* "Guard ... locks out noisy client addresses": a lock ends with its time or by
\* the right key.
LockHolds ==
  [][\A c \in Locked(table) \ Locked(table') :
       \/ UNCHANGED request
       \/ \E r \in Request : from[r] = c /\ pc[r] = "success"]_vars
=============================================================================
