------------------------- MODULE PreparedOperations -------------------------
(***************************************************************************)
(* The life of a prepared operation, from Service.prepare to the recorded  *)
(* result: the rows of the encrypted operations table, the callers that    *)
(* run Service.ExecuteOperation on them (in one process or in several; the *)
(* database is what they share), and the provider they write to.           *)
(*                                                                         *)
(* One action is one database transaction, one read of the configuration   *)
(* or of the attachment file, or one provider call; callers interleave     *)
(* between them, and may die or be cancelled at any of them.               *)
(***************************************************************************)
EXTENDS Naturals

CONSTANTS
  Token,         \* operation tokens: random, never reused
  Caller,        \* invocations of ExecuteOperation that can run at once
  Kind,          \* kinds of operation, told apart by the calls they make
  BatchKind,     \* kinds that go on to the next message after a failure
  FileKind,      \* kinds that carry an attachment given by path
  Parts,         \* the number of provider calls of each kind
  MaxParts,      \* maxBatchMailUIDs
  Content,       \* contents the attachment file can have
  EmptyFile,     \* the content of length zero
  Connection,    \* digests a connection's resolved settings can have
  TTL,           \* lifetime of a token (ten minutes)
  ExecLimit,     \* age at which a claim counts as interrupted (ten minutes)
  Retention      \* how long an expired row is kept (a day)

ASSUME PartsAssumption ==
  /\ MaxParts \in Nat \ {0}
  /\ Parts \in [Kind -> 1..MaxParts]
  /\ BatchKind \subseteq Kind /\ FileKind \subseteq Kind
ASSUME ContentAssumption == EmptyFile \in Content
ASSUME TimeAssumption ==
  TTL \in Nat \ {0} /\ ExecLimit \in Nat \ {0} /\ Retention \in Nat
ASSUME PopulationAssumption == Kind # {} /\ Connection # {} /\ Token # {}

SomeKind == CHOOSE k \in Kind : TRUE
SomeToken == CHOOSE t \in Token : TRUE
SomeConnection == CHOOSE x \in Connection : TRUE

VARIABLES
  status,      \* [Token -> Status], the status column of the row
  kind,        \* [Token -> Kind]
  approved,    \* [Token -> Content], the content digested at prepare time
  bound,       \* [Token -> Connection], the connection digest (Precondition)
  age,         \* [Token -> Nat], time since CreatedAt
  ran,         \* [Token -> Nat], time since the claim set ExecutedAt
  file,        \* the attachment file now
  config,      \* the connection's digest in the configuration now
  denied,      \* whether the policy denies this class of writes now
  pc, tok,     \* [Caller -> ...]: the next step of a call, and its token
  snap,        \* [Caller -> Content], executionPayload's attachment
  using,       \* [Caller -> Connection], the resolved connection snapshot
  built,       \* [Caller -> Content], the content in the serialized message
  part,        \* [Caller -> Nat], the provider call to make next
  bad,         \* [Caller -> BOOLEAN], some message of the batch failed
  verdict,     \* [Caller -> Outcome], the status about to be recorded
  applied,     \* [Token -> [1..MaxParts -> Nat]], effects at the provider
  told         \* [Token -> SUBSET Outcome], final statuses ever returned

row     == <<status, kind, approved, bound>>
clocks  == <<age, ran>>
env     == <<file, config, denied>>
locals  == <<snap, using, built, part, bad, verdict>>
callers == <<pc, tok, locals>>
vars    == <<row, clocks, env, callers, applied, told>>

(* "interrupted" is the status uncertain recorded by a waiter, with the     *)
(* result that says so; "uncertain" is the one recorded by the executor.    *)
(* "unused" and "purged" are rows that do not exist yet and any more.       *)
ProviderOutcome == {"succeeded", "failed", "uncertain"}
Outcome == ProviderOutcome \cup {"interrupted"}
Status  == {"unused", "prepared", "executing", "purged"} \cup Outcome

(* build, call and complete are the steps of a caller that holds the claim. *)
Owning == {"build", "call", "complete"}
Checking == {"idle", "policy", "snapshot", "digest", "connection", "claim",
             "claimWrite"}
Step == Checking \cup Owning \cup {"wait", "reread"}

\* mailActionUIDs: the provider calls of a mail action are its messages, of
\* which there are at most maxBatchMailUIDs.
PartsOf(t) == 1..Parts[kind[t]]
Expired(t) == age[t] >= TTL
Stale(t)   == age[t] > TTL + Retention

TypeOK ==
  /\ status \in [Token -> Status] /\ kind \in [Token -> Kind]
  /\ approved \in [Token -> Content] /\ bound \in [Token -> Connection]
  /\ age \in [Token -> Nat] /\ ran \in [Token -> Nat]
  /\ file \in Content /\ config \in Connection /\ denied \in BOOLEAN
  /\ pc \in [Caller -> Step] /\ tok \in [Caller -> Token]
  /\ snap \in [Caller -> Content] /\ using \in [Caller -> Connection]
  /\ built \in [Caller -> Content] /\ part \in [Caller -> 1..MaxParts]
  /\ bad \in [Caller -> BOOLEAN] /\ verdict \in [Caller -> Outcome]
  /\ applied \in [Token -> [1..MaxParts -> Nat]]
  /\ told \in [Token -> SUBSET Outcome]

Init ==
  /\ status = [t \in Token |-> "unused"]
  /\ kind = [t \in Token |-> SomeKind]
  /\ approved = [t \in Token |-> EmptyFile]
  /\ bound = [t \in Token |-> SomeConnection]
  /\ age = [t \in Token |-> 0] /\ ran = [t \in Token |-> 0]
  /\ file \in Content /\ config = SomeConnection /\ denied = FALSE
  /\ pc = [c \in Caller |-> "idle"] /\ tok = [c \in Caller |-> SomeToken]
  /\ snap = [c \in Caller |-> EmptyFile]
  /\ using = [c \in Caller |-> SomeConnection]
  /\ built = [c \in Caller |-> EmptyFile]
  /\ part = [c \in Caller |-> 1] /\ bad = [c \in Caller |-> FALSE]
  /\ verdict = [c \in Caller |-> "failed"]
  /\ applied = [t \in Token |-> [i \in 1..MaxParts |-> 0]]
  /\ told = [t \in Token |-> {}]

-----------------------------------------------------------------------------
(* The conditions that decide, each next to the slip it is tested against.   *)

\* The WHERE clause of the claim: AND status='prepared'.
ClaimableWithoutStatus(t) == status[t] \in {"prepared", "executing"}
Claimable(t) == status[t] = "prepared"

\* The WHERE clause of a completion: AND status='executing'.
CompletableWithoutStatus(t) == status[t] \in {"executing"} \cup Outcome
Completable(t) == status[t] = "executing"

\* waitForOperation's deadline.
WaitsForever(t) == FALSE
Overdue(t) == ran[t] >= ExecLimit

-----------------------------------------------------------------------------
(* The world around the calls.                                             *)

\* Service.prepare, with the purge that Store.PutOperation runs in the same
\* transaction: rows a day past expiry go, whatever their status. Its reads of
\* the policy, the connection and the file are one step with its write: nobody
\* has the token before it returns, so what is changed between them might as
\* well be changed right after, before the token is first used.
Prepare(t, k) ==
  /\ status[t] = "unused" /\ ~denied
  /\ status' = [u \in Token |->
                  IF u = t THEN "prepared"
                  ELSE IF status[u] # "unused" /\ Stale(u) THEN "purged"
                  ELSE status[u]]
  /\ kind' = [kind EXCEPT ![t] = k]
  /\ approved' = [approved EXCEPT ![t] =
                    IF k \in FileKind THEN file ELSE EmptyFile]
  /\ bound' = [bound EXCEPT ![t] = config]
  /\ UNCHANGED <<clocks, env, callers, applied, told>>

\* Time passes for every row; the ages stop at the last value a guard tells
\* apart, so no bound on the length of a behaviour is needed.
Tick ==
  /\ age' = [t \in Token |-> IF status[t] \in {"unused", "purged"} \/ Stale(t)
                             THEN age[t] ELSE age[t] + 1]
  /\ ran' = [t \in Token |-> IF \/ status[t] \in {"unused", "prepared"}
                                \/ ran[t] >= ExecLimit
                             THEN ran[t] ELSE ran[t] + 1]
  /\ clocks' # clocks
  /\ UNCHANGED <<row, env, callers, applied, told>>

\* The user saves another version of the attachment.
WriteFile(f) ==
  /\ f # file /\ file' = f
  /\ UNCHANGED <<row, clocks, config, denied, callers, applied, told>>

\* The connection is edited, or its secret rotated.
ChangeConnection(x) ==
  /\ x # config /\ config' = x
  /\ UNCHANGED <<row, clocks, file, denied, callers, applied, told>>

\* Service.PolicyDeny and Service.PolicyAllow.
UpdatePolicy ==
  /\ denied' = ~denied
  /\ UNCHANGED <<row, clocks, file, config, callers, applied, told>>

-----------------------------------------------------------------------------
(* ExecuteOperation up to the claim. Every check that fails returns an      *)
(* error and leaves no trace.                                               *)

Goto(c, s) == pc' = [pc EXCEPT ![c] = s]

\* The call returns, or its process dies: its local variables are gone.
Return(c) ==
  /\ Goto(c, "idle")
  /\ tok' = [tok EXCEPT ![c] = SomeToken]
  /\ snap' = [snap EXCEPT ![c] = EmptyFile]
  /\ using' = [using EXCEPT ![c] = SomeConnection]
  /\ built' = [built EXCEPT ![c] = EmptyFile]
  /\ part' = [part EXCEPT ![c] = 1] /\ bad' = [bad EXCEPT ![c] = FALSE]
  /\ verdict' = [verdict EXCEPT ![c] = "failed"]

\* The call returns the final status it has read or written.
Tell(t, o) == told' = [told EXCEPT ![t] = @ \cup {o}]

\* GetOperation and the first three tests of ExecuteOperation.
Begin(c, t) ==
  /\ pc[c] = "idle"
  /\ \/ /\ \/ status[t] = "prepared" /\ ~Expired(t) /\ Goto(c, "policy")
           \/ status[t] = "executing" /\ Goto(c, "wait")
        /\ tok' = [tok EXCEPT ![c] = t]
        /\ UNCHANGED <<locals, told>>
     \/ /\ status[t] \in Outcome /\ Tell(t, status[t])
        /\ UNCHANGED callers
  /\ UNCHANGED <<row, clocks, env, applied>>

\* assertPolicyAllows.
CheckPolicy(c) ==
  /\ pc[c] = "policy"
  /\ IF denied THEN Return(c)
     ELSE Goto(c, "snapshot") /\ UNCHANGED <<tok, locals>>
  /\ UNCHANGED <<row, clocks, env, applied, told>>

\* snapshotAttachmentPayload. The bytes travel in a field marshalled with
\* omitempty: an empty snapshot is dropped, and looks like none was taken.
TakeSnapshot(c) ==
  /\ pc[c] = "snapshot"
  /\ snap' = [snap EXCEPT ![c] =
                IF kind[tok[c]] \in FileKind THEN file ELSE EmptyFile]
  /\ Goto(c, "digest")
  /\ UNCHANGED <<row, clocks, env, tok, using, built, part, bad, verdict,
                 applied, told>>

\* The slip: the message is built from the path again.
AttachmentFromPath(c) == IF kind[tok[c]] \in FileKind THEN file ELSE snap[c]

\* What a reader of the execution payload gets for the attachment: the
\* snapshot if it is there, else the file as it is at that moment.
AttachmentOf(c) ==
  IF kind[tok[c]] \in FileKind /\ snap[c] = EmptyFile THEN file ELSE snap[c]

\* digestPayload of the execution payload against the approved digest.
CheckDigest(c) ==
  /\ pc[c] = "digest"
  /\ IF AttachmentOf(c) = approved[tok[c]]
     THEN Goto(c, "connection") /\ UNCHANGED <<tok, locals>>
     ELSE Return(c)
  /\ UNCHANGED <<row, clocks, env, applied, told>>

\* exactConnection, resolveOperationConnection, digestOperationConnection:
\* the connection is resolved once and that value is used from here on.
CheckConnection(c) ==
  /\ pc[c] = "connection"
  /\ IF config = bound[tok[c]]
     THEN /\ using' = [using EXCEPT ![c] = config]
          /\ Goto(c, "claim")
          /\ UNCHANGED <<tok, snap, built, part, bad, verdict>>
     ELSE Return(c)
  /\ UNCHANGED <<row, clocks, env, applied, told>>

\* ClaimOperation's read, the first one and the one after a lost claim.
ReadForClaim(c) ==
  LET t == tok[c] IN
  /\ pc[c] = "claim"
  /\ \/ /\ \/ status[t] = "prepared" /\ Goto(c, "claimWrite")
           \/ status[t] = "executing" /\ Goto(c, "wait")
        /\ UNCHANGED <<tok, locals, told>>
     \/ status[t] \in Outcome /\ Tell(t, status[t]) /\ Return(c)
     \/ status[t] = "purged" /\ Return(c) /\ UNCHANGED told
  /\ UNCHANGED <<row, clocks, env, applied>>

\* updateOperation(record, "prepared"): UPDATE ... AND status='prepared'.
\* When no row matches, the caller reads the row again.
WriteClaim(c) ==
  LET t == tok[c] IN
  /\ pc[c] = "claimWrite"
  /\ IF Claimable(t)
     THEN /\ status' = [status EXCEPT ![t] = "executing"]
          /\ ran' = [ran EXCEPT ![t] = 0]
          /\ Goto(c, "build")
     ELSE Goto(c, "claim") /\ UNCHANGED <<status, ran>>
  /\ UNCHANGED <<kind, approved, bound, age, env, tok, locals, applied, told>>

-----------------------------------------------------------------------------
(* Service.execute, by the caller that holds the claim.                     *)

\* mailBuild serializes the message; a provider call that cannot be prepared
\* fails before anything is sent.
Build(c) ==
  /\ pc[c] = "build"
  /\ \/ Goto(c, "call") /\ UNCHANGED verdict
     \/ /\ Goto(c, "complete")
        /\ verdict' = [verdict EXCEPT ![c] = "failed"]
  /\ built' = [built EXCEPT ![c] = AttachmentOf(c)]
  /\ UNCHANGED <<row, clocks, env, tok, snap, using, part, bad, applied, told>>

\* The slip: a later call that is refused counts as a plain failure.
VerdictOfLastCall(c, reply, b) ==
  IF reply = "ok" /\ ~b THEN "succeeded"
  ELSE IF reply = "refused" THEN "failed" ELSE "uncertain"

\* The status ExecuteOperation records after the last provider call of c,
\* when the call answers reply and b says that an earlier message failed.
Verdict(c, reply, b) ==
  IF reply = "ok" /\ ~b THEN "succeeded"
  ELSE IF kind[tok[c]] \in BatchKind THEN "uncertain"
  ELSE IF reply = "refused" /\ part[c] = 1 THEN "failed"
  ELSE "uncertain"

\* Another call follows. A batch goes on to the next message after a failure,
\* every other kind stops.
MoreCalls(c, reply) ==
  /\ part[c] < Parts[kind[tok[c]]]
  /\ reply = "ok" \/ kind[tok[c]] \in BatchKind

\* One provider call: SMTP submission, IMAP append or mutation, CalDAV write.
\* It may never end: the SMTP and IMAP clients clear their deadline once they
\* are connected, and ExecuteOperation adds none. done says whether it took effect; an ambiguous reply (connection lost
\* after the request was written) leaves that open.
CallProvider(c, reply, done) ==
  /\ pc[c] = "call"
  /\ (reply = "ok") => done
  /\ (reply = "refused") => ~done
  /\ applied' = IF done THEN [applied EXCEPT ![tok[c]][part[c]] = @ + 1]
                         ELSE applied
  /\ bad' = [bad EXCEPT ![c] = @ \/ reply # "ok"]
  /\ IF MoreCalls(c, reply)
     THEN /\ part' = [part EXCEPT ![c] = @ + 1]
          /\ UNCHANGED <<pc, verdict>>
     ELSE /\ verdict' = [verdict EXCEPT ![c] = Verdict(c, reply, bad[c])]
          /\ Goto(c, "complete") /\ UNCHANGED part
  /\ UNCHANGED <<row, clocks, env, tok, snap, using, built, told>>

\* The request is cancelled between two messages of a batch.
BreakBatch(c) ==
  /\ pc[c] = "call" /\ kind[tok[c]] \in BatchKind
  /\ verdict' = [verdict EXCEPT ![c] = "uncertain"]
  /\ Goto(c, "complete")
  /\ UNCHANGED <<row, clocks, env, tok, snap, using, built, part, bad, applied,
                 told>>

-----------------------------------------------------------------------------
(* Recording the result, and waiting for somebody else's.                   *)

\* CompleteOperation: UPDATE ... AND status='executing'.
Record(c, o) ==
  LET t == tok[c] IN
  IF Completable(t)
  THEN /\ status' = [status EXCEPT ![t] = o]
       /\ Tell(t, o) /\ Return(c)
  ELSE Goto(c, "reread") /\ UNCHANGED <<status, tok, locals, told>>

Complete(c) ==
  /\ pc[c] = "complete" /\ Record(c, verdict[c])
  /\ UNCHANGED <<kind, approved, bound, clocks, env, applied>>

\* waitForOperation past the deadline.
ResolveInterrupted(c) ==
  /\ pc[c] = "wait" /\ Overdue(tok[c]) /\ Record(c, "interrupted")
  /\ UNCHANGED <<kind, approved, bound, clocks, env, applied>>

\* CompleteOperation fails: the result exceeds its reservation, the state is
\* over its limit, the key was rotated, the disk is full.
StoreFails(c) ==
  /\ pc[c] = "complete" \/ (pc[c] = "wait" /\ Overdue(tok[c]))
  /\ Goto(c, "reread")
  /\ UNCHANGED <<row, clocks, env, tok, locals, applied, told>>

\* GetOperation once more; what is still executing or gone is not an answer.
Reread(c) ==
  LET t == tok[c] IN
  /\ pc[c] = "reread" /\ Return(c)
  /\ IF status[t] \in Outcome THEN Tell(t, status[t]) ELSE UNCHANGED told
  /\ UNCHANGED <<row, clocks, env, applied>>

\* waitForOperation's poll finds that the row is no longer executing.
Poll(c) ==
  LET t == tok[c] IN
  /\ pc[c] = "wait" /\ ~Overdue(t) /\ status[t] # "executing" /\ Return(c)
  /\ IF status[t] \in Outcome THEN Tell(t, status[t]) ELSE UNCHANGED told
  /\ UNCHANGED <<row, clocks, env, applied>>

\* The process dies, the request is cancelled while it waits, or a read or a
\* write before the claim fails: the call is over and the row is as it was.
Abandon(c) ==
  /\ pc[c] # "idle" /\ Return(c)
  /\ UNCHANGED <<row, clocks, env, applied, told>>

-----------------------------------------------------------------------------
Reply == {"ok", "refused", "ambiguous"}

\* What needs the database, the configuration and local files only.
ProceedLocally(c) ==
  \/ CheckPolicy(c) \/ TakeSnapshot(c) \/ CheckDigest(c) \/ CheckConnection(c)
  \/ ReadForClaim(c) \/ WriteClaim(c) \/ Build(c)
  \/ Complete(c) \/ ResolveInterrupted(c) \/ StoreFails(c)
  \/ Reread(c) \/ Poll(c)

Proceed(c) ==
  \/ ProceedLocally(c)
  \/ \E reply \in Reply, done \in BOOLEAN : CallProvider(c, reply, done)
  \/ BreakBatch(c)

Environment ==
  \/ \E t \in Token, k \in Kind : Prepare(t, k)
  \/ Tick
  \/ \E f \in Content : WriteFile(f)
  \/ \E x \in Connection : ChangeConnection(x)
  \/ UpdatePolicy

Next ==
  \/ Environment
  \/ \E c \in Caller, t \in Token : Begin(c, t)
  \/ \E c \in Caller : Proceed(c) \/ Abandon(c)

Spec == Init /\ [][Next]_vars

(* A caller that runs is scheduled again; so is time. The provider need not  *)
(* answer: a call can hang in it for ever. Nobody is obliged to prepare, to  *)
(* begin, to edit anything, or to fail.                                      *)
Fairness ==
  /\ WF_vars(Tick)
  /\ \A c \in Caller : WF_vars(ProceedLocally(c))

FairSpec == Spec /\ Fairness

\* Somebody asks for the result again and again, and a completion that can be
\* written infinitely often is written.
RetrySpec ==
  /\ FairSpec
  /\ \A c \in Caller, t \in Token :
       WF_vars(Begin(c, t)) /\ SF_vars(ResolveInterrupted(c) /\ tok[c] = t)

-----------------------------------------------------------------------------
(* Safety.                                                                  *)

\* However many callers execute a token, across processes, crashes and late
\* answers, no provider call of it takes effect twice (store.go ClaimOperation).
AtMostOnce == \A t \in Token, i \in 1..MaxParts : applied[t][i] <= 1

\* A status recorded or returned describes the provider: succeeded means that
\* every call took effect, failed that none did and none ever will, however
\* late a slow executor is (service.go execute and ExecuteOperation).
OutcomesAreTrue ==
  \A t \in Token :
    /\ "succeeded" \in told[t] \cup {status[t]} =>
         \A i \in PartsOf(t) : applied[t][i] = 1
    /\ "failed" \in told[t] \cup {status[t]} =>
         \A i \in 1..MaxParts : applied[t][i] = 0

\* "Repeated execute returns the original result": whoever got a final status
\* for a token, executor or waiter, got the one that is recorded, until the
\* row is purged.
AnswersAgree ==
  \A t \in Token : \A o \in told[t] :
    /\ status[t] \in {o, "purged"}
    /\ told[t] = {o}

\* While a caller reaches the provider it uses the connection that was bound
\* at prepare time and, if its snapshot of the attachment survived, the bytes
\* that were approved, whatever happened to either in the meantime.
ExecutesWhatWasApproved ==
  \A c \in Caller : pc[c] = "call" =>
    /\ using[c] = bound[tok[c]]
    /\ kind[tok[c]] \in FileKind /\ snap[c] # EmptyFile
         => built[c] = approved[tok[c]]

\* The same without the exception, as CONTEXT.md states it: a prepared
\* operation binds one write to its exact payload digest.
ExecutesApprovedBytes ==
  \A c \in Caller : pc[c] = "call" /\ kind[tok[c]] \in FileKind
    => built[c] = approved[tok[c]]

\* Tokens last ten minutes: no claim succeeds on an expired token.
NoClaimAfterExpiry ==
  [][\A t \in Token : status[t] = "prepared" /\ status'[t] = "executing"
       => ~Expired(t)]_vars

-----------------------------------------------------------------------------
(* The inductive invariant behind the safety properties.                     *)

\* The claim is exclusive, and outlives its row only in its holder's memory.
ClaimIsExclusive ==
  /\ \A c, d \in Caller :
       pc[c] \in Owning /\ pc[d] \in Owning /\ tok[c] = tok[d] => c = d
  /\ \A c \in Caller : pc[c] \in Owning =>
       status[tok[c]] \in {"executing", "interrupted", "purged"}
  /\ \A c \in Caller : pc[c] # "idle" => status[tok[c]] # "unused"

\* Before the claim nothing has happened, and nobody was told anything.
NothingBeforeClaim ==
  /\ \A t \in Token : status[t] \in {"unused", "prepared"} =>
       told[t] = {} /\ \A i \in 1..MaxParts : applied[t][i] = 0
  /\ \A c \in Caller : pc[c] \in Checking => part[c] = 1 /\ ~bad[c]

\* How far the holder of a claim has got, and what the provider has seen.
CallsInOrder(c) ==
  LET t == tok[c] IN
  /\ part[c] \in PartsOf(t)
  /\ pc[c] = "build" =>
       /\ part[c] = 1 /\ ~bad[c]
       /\ \A i \in 1..MaxParts : applied[t][i] = 0
  /\ pc[c] = "call" =>
       /\ \A i \in 1..MaxParts : i >= part[c] => applied[t][i] = 0
       /\ ~bad[c] => \A i \in 1..MaxParts : i < part[c] => applied[t][i] = 1
       /\ bad[c] => kind[t] \in BatchKind
  /\ pc[c] = "complete" =>
       /\ verdict[c] \in ProviderOutcome
       /\ verdict[c] = "succeeded" => \A i \in PartsOf(t) : applied[t][i] = 1
       /\ verdict[c] = "failed" => \A i \in 1..MaxParts : applied[t][i] = 0

\* What an executor answered is final: nobody holds the claim any more.
AnswerEndsClaim ==
  \A t \in Token, c \in Caller :
    told[t] \cap ProviderOutcome # {} /\ tok[c] = t => pc[c] \notin Owning

\* What a caller took when it checked is still what was approved.
BindingsHold ==
  \A c \in Caller :
    /\ pc[c] \in {"claim", "claimWrite", "build", "call"} =>
         using[c] = bound[tok[c]]
    /\ pc[c] \in {"connection", "claim", "claimWrite", "build", "call"}
         /\ kind[tok[c]] \in FileKind /\ snap[c] # EmptyFile
         => snap[c] = approved[tok[c]]

IInv ==
  /\ TypeOK
  /\ ClaimIsExclusive
  /\ NothingBeforeClaim
  /\ \A c \in Caller : pc[c] \in Owning => CallsInOrder(c)
  /\ AnswerEndsClaim
  /\ BindingsHold
  /\ AtMostOnce
  /\ OutcomesAreTrue
  /\ AnswersAgree
  /\ ExecutesWhatWasApproved

-----------------------------------------------------------------------------
(* Refinement.                                                              *)

Live == [t \in Token |-> \E c \in Caller : /\ pc[c] \in {"build", "call"}
                                           /\ tok[c] = t]

Promise == INSTANCE OperationPromise WITH
             parts <- [t \in Token |-> PartsOf(t)], live <- Live

\* The callers, the ledger and the provider keep OperationPromise's promise.
KeepsPromise == Promise!Spec

-----------------------------------------------------------------------------
(* Liveness.                                                                *)

\* Only the provider can keep a call from returning. What it does before and
\* after its provider calls ends, and a call that waits for the executor of its
\* token (waitForOperation) returns even when that one died, or hangs in a
\* provider call for ever.
OnlyTheProviderHoldsACall ==
  \A c \in Caller : pc[c] \notin {"idle", "call"} ~> pc[c] \in {"idle", "call"}

\* No claim is left executing for ever if callers keep asking for its result.
EveryClaimIsDecided ==
  \A t \in Token : status[t] = "executing" ~> status[t] # "executing"
=============================================================================
