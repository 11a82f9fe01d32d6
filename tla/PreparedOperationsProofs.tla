---------------------- MODULE PreparedOperationsProofs ----------------------
(***************************************************************************)
(* Proofs that PreparedOperations keeps its safety properties for every    *)
(* number of tokens, callers, provider calls and versions of the           *)
(* attachment, and for every value of the three time limits; and that it   *)
(* implements OperationPromise: every step of a caller, of the ledger or   *)
(* of the provider is a step of the promise or leaves it alone.            *)
(***************************************************************************)
EXTENDS PreparedOperations, TLAPS

(* The conjunct of IInv about the holders of claims, by name.               *)
OwnersInOrder == \A c \in Caller : pc[c] \in Owning => CallsInOrder(c)

(* A step leaves the ledger and the provider alone.                         *)
Quiet == UNCHANGED <<row, applied, told>>

(* A step leaves d's claim, if d has one afterwards, where it was.          *)
Kept(d) ==
  /\ pc'[d] = pc[d] /\ tok'[d] = tok[d] /\ part'[d] = part[d]
  /\ bad'[d] = bad[d] /\ verdict'[d] = verdict[d]

(* A step may tell somebody the recorded status of t, and does no more.     *)
Asks(t) ==
  /\ UNCHANGED <<row, applied>>
  /\ UNCHANGED told \/ (status[t] \in Outcome /\ Tell(t, status[t]))

-----------------------------------------------------------------------------
(* Types.                                                                   *)

(* A call that returns leaves well-typed local variables.                   *)
LEMMA ReturnTypes ==
  ASSUME TypeOK, NEW c \in Caller, Return(c)
  PROVE  /\ pc' \in [Caller -> Step] /\ tok' \in [Caller -> Token]
         /\ snap' \in [Caller -> Content] /\ using' \in [Caller -> Connection]
         /\ built' \in [Caller -> Content] /\ part' \in [Caller -> 1..MaxParts]
         /\ bad' \in [Caller -> BOOLEAN] /\ verdict' \in [Caller -> Outcome]
<1>1. /\ SomeToken \in Token /\ SomeConnection \in Connection
      /\ 1 \in 1..MaxParts /\ EmptyFile \in Content
  BY PartsAssumption, ContentAssumption, PopulationAssumption
     DEF SomeToken, SomeConnection
<1>2. "idle" \in Step /\ "failed" \in Outcome
  BY DEF Step, Checking, Owning, Outcome, ProviderOutcome
<1> QED BY <1>1, <1>2 DEF TypeOK, Return, Goto

(* Moving a caller to a step keeps pc well typed.                           *)
LEMMA GotoTypes ==
  ASSUME TypeOK, NEW c \in Caller, NEW s, Goto(c, s),
         s \in Checking \cup Owning \cup {"wait", "reread"}
  PROVE  pc' \in [Caller -> Step]
BY DEF TypeOK, Goto, Step

(* Telling a final status keeps told well typed.                            *)
LEMMA TellTypes ==
  ASSUME TypeOK, NEW t \in Token, NEW o \in Outcome, Tell(t, o)
  PROVE  told' \in [Token -> SUBSET Outcome]
BY DEF TypeOK, Tell

(* Recording a result, or failing to, keeps the types.                      *)
LEMMA RecordTypes ==
  ASSUME TypeOK, NEW c \in Caller, NEW o \in Outcome, Record(c, o)
  PROVE  /\ status' \in [Token -> Status]
         /\ told' \in [Token -> SUBSET Outcome]
         /\ pc' \in [Caller -> Step] /\ tok' \in [Caller -> Token]
         /\ snap' \in [Caller -> Content] /\ using' \in [Caller -> Connection]
         /\ built' \in [Caller -> Content] /\ part' \in [Caller -> 1..MaxParts]
         /\ bad' \in [Caller -> BOOLEAN] /\ verdict' \in [Caller -> Outcome]
<1>1. tok[c] \in Token
  BY DEF TypeOK
<1>2. CASE Completable(tok[c])
  <2>1. status' = [status EXCEPT ![tok[c]] = o] /\ Tell(tok[c], o) /\ Return(c)
    BY <1>2 DEF Record
  <2>2. status' \in [Token -> Status]
    BY <2>1 DEF TypeOK, Status
  <2> QED BY <1>1, <2>1, <2>2, TellTypes, ReturnTypes
<1>3. CASE ~Completable(tok[c])
  <2>1. Goto(c, "reread") /\ UNCHANGED <<status, tok, locals, told>>
    BY <1>3 DEF Record
  <2>2. pc' \in [Caller -> Step]
    BY <2>1, GotoTypes
  <2> QED BY <2>1, <2>2 DEF TypeOK, locals
<1> QED BY <1>2, <1>3

(* The initial states are well typed.                                       *)
LEMMA TypeInit == Init => TypeOK
<1>1. SomeToken \in Token /\ SomeConnection \in Connection /\ SomeKind \in Kind
  BY PopulationAssumption DEF SomeToken, SomeConnection, SomeKind
<1>2. 1 \in 1..MaxParts /\ EmptyFile \in Content
  BY PartsAssumption, ContentAssumption
<1>3. "unused" \in Status /\ "idle" \in Step /\ "failed" \in Outcome
  BY DEF Status, Step, Checking, Owning, Outcome, ProviderOutcome
<1> SUFFICES ASSUME Init PROVE TypeOK
  OBVIOUS
<1>4. /\ status \in [Token -> Status] /\ kind \in [Token -> Kind]
      /\ approved \in [Token -> Content] /\ bound \in [Token -> Connection]
      /\ age \in [Token -> Nat] /\ ran \in [Token -> Nat]
      /\ file \in Content /\ config \in Connection /\ denied \in BOOLEAN
  BY <1>1, <1>2, <1>3 DEF Init
<1>5. /\ pc \in [Caller -> Step] /\ tok \in [Caller -> Token]
      /\ snap \in [Caller -> Content] /\ using \in [Caller -> Connection]
      /\ built \in [Caller -> Content] /\ part \in [Caller -> 1..MaxParts]
      /\ bad \in [Caller -> BOOLEAN] /\ verdict \in [Caller -> Outcome]
  BY <1>1, <1>2, <1>3 DEF Init
<1>6. applied \in [Token -> [1..MaxParts -> Nat]]
  BY DEF Init
<1>7. told \in [Token -> SUBSET Outcome]
  BY DEF Init
<1> QED BY <1>4, <1>5, <1>6, <1>7 DEF TypeOK

(* Every step keeps the types.                                              *)
LEMMA TypeNext == TypeOK /\ [Next]_vars => TypeOK'
<1> SUFFICES ASSUME TypeOK, [Next]_vars PROVE TypeOK'
  OBVIOUS
<1> USE DEF row, clocks, env, locals, callers, vars
<1>1. ASSUME NEW t \in Token, NEW k \in Kind, Prepare(t, k) PROVE TypeOK'
  BY <1>1, ContentAssumption DEF Prepare, TypeOK, Status
<1>2. CASE Tick
  BY <1>2 DEF Tick, TypeOK
<1>3. ASSUME NEW f \in Content, WriteFile(f) PROVE TypeOK'
  BY <1>3 DEF WriteFile, TypeOK
<1>4. ASSUME NEW x \in Connection, ChangeConnection(x) PROVE TypeOK'
  BY <1>4 DEF ChangeConnection, TypeOK
<1>5. CASE UpdatePolicy
  BY <1>5 DEF UpdatePolicy, TypeOK
<1>6. ASSUME NEW c \in Caller, NEW t \in Token, Begin(c, t) PROVE TypeOK'
  <2>1. CASE status[t] \in Outcome /\ Tell(t, status[t]) /\ UNCHANGED callers
    <3>1. told' \in [Token -> SUBSET Outcome]
      BY <2>1, TellTypes
    <3> QED BY <3>1, <2>1, <1>6 DEF Begin, TypeOK
  <2>2. CASE /\ Goto(c, "policy") \/ Goto(c, "wait")
             /\ tok' = [tok EXCEPT ![c] = t] /\ UNCHANGED <<locals, told>>
    <3>1. pc' \in [Caller -> Step]
      BY <2>2, GotoTypes DEF Checking
    <3>2. tok' \in [Caller -> Token]
      BY <2>2 DEF TypeOK
    <3> QED BY <3>1, <3>2, <2>2, <1>6 DEF Begin, TypeOK
  <2> QED BY <2>1, <2>2, <1>6 DEF Begin
<1>7. ASSUME NEW c \in Caller, CheckPolicy(c) PROVE TypeOK'
  <2>1. CASE Return(c)
    BY <2>1, <1>7, ReturnTypes DEF CheckPolicy, TypeOK
  <2>2. CASE Goto(c, "snapshot") /\ UNCHANGED <<tok, locals>>
    <3>1. pc' \in [Caller -> Step] BY <2>2, GotoTypes DEF Checking
    <3> QED BY <3>1, <2>2, <1>7 DEF CheckPolicy, TypeOK
  <2> QED BY <2>1, <2>2, <1>7 DEF CheckPolicy
<1>8. ASSUME NEW c \in Caller, TakeSnapshot(c) PROVE TypeOK'
  <2>1. pc' \in [Caller -> Step]
    BY <1>8, GotoTypes DEF TakeSnapshot, Checking
  <2>2. snap' \in [Caller -> Content]
    BY <1>8, ContentAssumption DEF TakeSnapshot, TypeOK
  <2> QED BY <2>1, <2>2, <1>8 DEF TakeSnapshot, TypeOK
<1>9. ASSUME NEW c \in Caller, CheckDigest(c) PROVE TypeOK'
  <2>1. CASE Return(c)
    BY <2>1, <1>9, ReturnTypes DEF CheckDigest, TypeOK
  <2>2. CASE Goto(c, "connection") /\ UNCHANGED <<tok, locals>>
    <3>1. pc' \in [Caller -> Step] BY <2>2, GotoTypes DEF Checking
    <3> QED BY <3>1, <2>2, <1>9 DEF CheckDigest, TypeOK
  <2> QED BY <2>1, <2>2, <1>9 DEF CheckDigest
<1>10. ASSUME NEW c \in Caller, CheckConnection(c) PROVE TypeOK'
  <2>1. CASE Return(c)
    BY <2>1, <1>10, ReturnTypes DEF CheckConnection, TypeOK
  <2>2. CASE /\ using' = [using EXCEPT ![c] = config] /\ Goto(c, "claim")
             /\ UNCHANGED <<tok, snap, built, part, bad, verdict>>
    <3>1. pc' \in [Caller -> Step] BY <2>2, GotoTypes DEF Checking
    <3>2. using' \in [Caller -> Connection] BY <2>2 DEF TypeOK
    <3> QED BY <3>1, <3>2, <2>2, <1>10 DEF CheckConnection, TypeOK
  <2> QED BY <2>1, <2>2, <1>10 DEF CheckConnection
<1>11. ASSUME NEW c \in Caller, ReadForClaim(c) PROVE TypeOK'
  <2>1. CASE Return(c)
    <3>1. told' \in [Token -> SUBSET Outcome]
      BY <1>11, TellTypes DEF ReadForClaim, TypeOK
    <3> QED BY <3>1, <2>1, <1>11, ReturnTypes DEF ReadForClaim, TypeOK
  <2>2. CASE /\ Goto(c, "claimWrite") \/ Goto(c, "wait")
             /\ UNCHANGED <<tok, locals, told>>
    <3>1. pc' \in [Caller -> Step] BY <2>2, GotoTypes DEF Checking
    <3> QED BY <3>1, <2>2, <1>11 DEF ReadForClaim, TypeOK
  <2> QED BY <2>1, <2>2, <1>11 DEF ReadForClaim
<1>12. ASSUME NEW c \in Caller, WriteClaim(c) PROVE TypeOK'
  <2>1. pc' \in [Caller -> Step]
    BY <1>12, GotoTypes DEF WriteClaim, Checking, Owning
  <2>2. status' \in [Token -> Status]
    BY <1>12 DEF WriteClaim, TypeOK, Status
  <2>3. ran' \in [Token -> Nat]
    <3>1. ran \in [Token -> Nat] BY DEF TypeOK
    <3>2. ran' = ran \/ ran' = [ran EXCEPT ![tok[c]] = 0]
      BY <1>12 DEF WriteClaim
    <3> QED BY <3>1, <3>2
  <2> QED BY <2>1, <2>2, <2>3, <1>12 DEF WriteClaim, TypeOK
<1>13. ASSUME NEW c \in Caller, Build(c) PROVE TypeOK'
  <2>1. pc' \in [Caller -> Step]
    BY <1>13, GotoTypes DEF Build, Owning
  <2>2. verdict' \in [Caller -> Outcome]
    BY <1>13 DEF Build, TypeOK, Outcome, ProviderOutcome
  <2>3. built' \in [Caller -> Content]
    BY <1>13 DEF Build, AttachmentOf, TypeOK
  <2> QED BY <2>1, <2>2, <2>3, <1>13 DEF Build, TypeOK
<1>14. ASSUME NEW c \in Caller, NEW reply \in Reply, NEW done \in BOOLEAN,
              CallProvider(c, reply, done)
       PROVE  TypeOK'
  <2>1. pc' \in [Caller -> Step]
    BY <1>14, GotoTypes DEF CallProvider, Owning, TypeOK
  <2>2. verdict' \in [Caller -> Outcome] /\ bad' \in [Caller -> BOOLEAN]
    BY <1>14 DEF CallProvider, Verdict, TypeOK, Outcome, ProviderOutcome
  <2>3. part' \in [Caller -> 1..MaxParts]
    <3>1. Parts[kind[tok[c]]] \in 1..MaxParts
      BY PartsAssumption DEF TypeOK
    <3>2. part \in [Caller -> 1..MaxParts] /\ MaxParts \in Nat
      BY PartsAssumption DEF TypeOK
    <3>3. CASE part' = part
      BY <3>2, <3>3
    <3>4. CASE /\ part' = [part EXCEPT ![c] = @ + 1]
               /\ part[c] < Parts[kind[tok[c]]]
      <4>1. part[c] + 1 \in 1..MaxParts BY <3>1, <3>2, <3>4
      <4> QED BY <4>1, <3>2, <3>4
    <3> QED BY <1>14, <3>3, <3>4 DEF CallProvider, MoreCalls
  <2>4. applied' \in [Token -> [1..MaxParts -> Nat]]
    <3>1. /\ applied \in [Token -> [1..MaxParts -> Nat]]
          /\ tok[c] \in Token /\ part[c] \in 1..MaxParts
      BY DEF TypeOK
    <3> DEFINE a == applied[tok[c]]
    <3>a. a \in [1..MaxParts -> Nat]
      BY <3>1
    <3> HIDE DEF a
    <3>b. a[part[c]] + 1 \in Nat
      BY <3>a, <3>1
    <3>2. [a EXCEPT ![part[c]] = a[part[c]] + 1] \in [1..MaxParts -> Nat]
      BY <3>a, <3>b
    <3> USE DEF a
    <3>3. \/ applied' = applied
          \/ applied' = [applied EXCEPT ![tok[c]][part[c]] = @ + 1]
      BY <1>14 DEF CallProvider
    <3> QED BY <3>1, <3>2, <3>3
  <2> QED BY <2>1, <2>2, <2>3, <2>4, <1>14 DEF CallProvider, TypeOK
<1>15. ASSUME NEW c \in Caller, BreakBatch(c) PROVE TypeOK'
  <2>1. pc' \in [Caller -> Step]
    BY <1>15, GotoTypes DEF BreakBatch, Owning
  <2>2. verdict' \in [Caller -> Outcome]
    BY <1>15 DEF BreakBatch, TypeOK, Outcome, ProviderOutcome
  <2> QED BY <2>1, <2>2, <1>15 DEF BreakBatch, TypeOK
<1>16. ASSUME NEW c \in Caller, Complete(c) PROVE TypeOK'
  <2>1. verdict[c] \in Outcome BY DEF TypeOK
  <2> QED BY <2>1, <1>16, RecordTypes DEF Complete, TypeOK
<1>17. ASSUME NEW c \in Caller, ResolveInterrupted(c) PROVE TypeOK'
  <2>1. "interrupted" \in Outcome BY DEF Outcome
  <2> QED BY <2>1, <1>17, RecordTypes DEF ResolveInterrupted, TypeOK
<1>18. ASSUME NEW c \in Caller, StoreFails(c) PROVE TypeOK'
  <2>1. pc' \in [Caller -> Step] BY <1>18, GotoTypes DEF StoreFails
  <2> QED BY <2>1, <1>18 DEF StoreFails, TypeOK
<1>19. ASSUME NEW c \in Caller, Reread(c) \/ Poll(c) PROVE TypeOK'
  <2>1. told' \in [Token -> SUBSET Outcome]
    BY <1>19, TellTypes DEF Reread, Poll, TypeOK
  <2> QED BY <2>1, <1>19, ReturnTypes DEF Reread, Poll, TypeOK
<1>20. ASSUME NEW c \in Caller, Abandon(c) PROVE TypeOK'
  BY <1>20, ReturnTypes DEF Abandon, TypeOK
<1>21. CASE UNCHANGED vars
  BY <1>21 DEF TypeOK
<1> QED
  BY <1>1, <1>2, <1>3, <1>4, <1>5, <1>6, <1>7, <1>8, <1>9, <1>10, <1>11, <1>12,
     <1>13, <1>14, <1>15, <1>16, <1>17, <1>18, <1>19, <1>20, <1>21
     DEF Next, Environment, Proceed, ProceedLocally

(* Every variable keeps the type that its declaration states.               *)
THEOREM TypeCorrect == Spec => []TypeOK
BY TypeInit, TypeNext, PTL DEF Spec

-----------------------------------------------------------------------------
(* What the steps of a caller leave alone.                                  *)

(* Time and edits touch neither the ledger nor the callers.                 *)
LEMMA EnvironmentSteps ==
  ASSUME Tick \/ (\E f \in Content : WriteFile(f))
         \/ (\E x \in Connection : ChangeConnection(x)) \/ UpdatePolicy
  PROVE  Quiet /\ UNCHANGED callers
BY DEF Tick, WriteFile, ChangeConnection, UpdatePolicy, Quiet

(* These steps of a caller touch neither ledger nor provider.               *)
LEMMA QuietSteps ==
  ASSUME NEW c \in Caller,
         \/ CheckPolicy(c) \/ TakeSnapshot(c) \/ CheckDigest(c)
         \/ CheckConnection(c) \/ Build(c) \/ BreakBatch(c) \/ StoreFails(c)
         \/ Abandon(c)
  PROVE  Quiet
BY DEF CheckPolicy, TakeSnapshot, CheckDigest, CheckConnection, Build,
       BreakBatch, StoreFails, Abandon, Quiet

(* A caller that reads the row tells at most what it read.                  *)
LEMMA AskingSteps ==
  ASSUME TypeOK, NEW c \in Caller,
         ReadForClaim(c) \/ Reread(c) \/ Poll(c)
  PROVE  \E t \in Token : Asks(t)
<1>1. tok[c] \in Token
  BY DEF TypeOK
<1>2. Asks(tok[c])
  BY DEF ReadForClaim, Reread, Poll, Asks
<1> QED BY <1>1, <1>2

(* So does a caller that begins.                                            *)
LEMMA BeginAsks ==
  ASSUME NEW c \in Caller, NEW t \in Token, Begin(c, t)
  PROVE  Asks(t)
BY DEF Begin, Asks

(* Everybody else's claim stays where it was, and so does that of a caller  *)
(* that is not at one of the three steps that move a claim.                 *)
LEMMA ClaimsKept ==
  ASSUME TypeOK, NEW c \in Caller, NEW d \in Caller,
         pc'[d] \in Owning,
         \/ \E t \in Token : Begin(c, t)
         \/ CheckPolicy(c) \/ TakeSnapshot(c) \/ CheckDigest(c)
         \/ CheckConnection(c) \/ ReadForClaim(c) \/ Complete(c)
         \/ ResolveInterrupted(c) \/ StoreFails(c) \/ Reread(c) \/ Poll(c)
         \/ Abandon(c)
  PROVE  Kept(d)
<1> USE DEF locals, callers
<1>1. /\ pc \in [Caller -> Step] /\ tok \in [Caller -> Token]
      /\ part \in [Caller -> 1..MaxParts] /\ bad \in [Caller -> BOOLEAN]
      /\ verdict \in [Caller -> Outcome]
  BY DEF TypeOK
<1>2. CASE Return(c)
  BY <1>1, <1>2 DEF Return, Goto, Kept, Owning
<1>3. CASE /\ Goto(c, "connection") \/ Goto(c, "snapshot") \/ Goto(c, "wait")
              \/ Goto(c, "claimWrite") \/ Goto(c, "reread")
           /\ UNCHANGED <<tok, locals>>
  BY <1>1, <1>3 DEF Goto, Kept, Owning
<1>4. ASSUME NEW t \in Token, Begin(c, t) PROVE Kept(d)
  BY <1>1, <1>4 DEF Begin, Goto, Kept, Owning
<1>5. CASE TakeSnapshot(c)
  BY <1>1, <1>5 DEF TakeSnapshot, Goto, Kept, Owning
<1>6. CASE CheckConnection(c)
  BY <1>1, <1>2, <1>6 DEF CheckConnection, Goto, Kept, Owning
<1> QED
  BY <1>2, <1>3, <1>4, <1>5, <1>6
     DEF CheckPolicy, CheckDigest, ReadForClaim, Complete, ResolveInterrupted,
         Record, StoreFails, Reread, Poll, Abandon

(* Where claims stay and the provider sees nothing, order is kept.          *)
LEMMA KeptInOrder ==
  ASSUME OwnersInOrder, UNCHANGED <<kind, applied>>,
         \A d \in Caller : pc'[d] \in Owning => Kept(d)
  PROVE  OwnersInOrder'
<1> SUFFICES ASSUME NEW d \in Caller, pc'[d] \in Owning
             PROVE  CallsInOrder(d)'
  BY DEF OwnersInOrder
<1>1. Kept(d) /\ CallsInOrder(d)
  BY DEF OwnersInOrder, Kept
<1> QED BY <1>1 DEF CallsInOrder, Kept, PartsOf

-----------------------------------------------------------------------------
(* The conjuncts of the inductive invariant, one by one.                    *)

(* No step makes a second holder of a claim.                                *)
LEMMA ExclusiveNext ==
  ASSUME TypeOK, ClaimIsExclusive, [Next]_vars
  PROVE  ClaimIsExclusive'
<1> USE DEF row, locals, callers
<1>0. /\ pc \in [Caller -> Step] /\ tok \in [Caller -> Token]
      /\ status \in [Token -> Status]
  BY DEF TypeOK
<1>1. CASE UNCHANGED <<pc, tok, status>>
  BY <1>1 DEF ClaimIsExclusive
<1>2. ASSUME NEW t \in Token, NEW k \in Kind, Prepare(t, k)
      PROVE  ClaimIsExclusive'
  BY <1>0, <1>2 DEF Prepare, ClaimIsExclusive, Owning
<1>3. ASSUME NEW c \in Caller, NEW t \in Token, Begin(c, t)
      PROVE  ClaimIsExclusive'
  BY <1>0, <1>3
     DEF Begin, Goto, Outcome, ProviderOutcome, ClaimIsExclusive, Owning
<1>4. ASSUME NEW c \in Caller, CheckPolicy(c) PROVE ClaimIsExclusive'
  BY <1>0, <1>4 DEF CheckPolicy, Goto, Return, ClaimIsExclusive, Owning
<1>5. ASSUME NEW c \in Caller, TakeSnapshot(c) PROVE ClaimIsExclusive'
  BY <1>0, <1>5 DEF TakeSnapshot, Goto, ClaimIsExclusive, Owning
<1>6. ASSUME NEW c \in Caller, CheckDigest(c) PROVE ClaimIsExclusive'
  BY <1>0, <1>6 DEF CheckDigest, Goto, Return, ClaimIsExclusive, Owning
<1>7. ASSUME NEW c \in Caller, CheckConnection(c) PROVE ClaimIsExclusive'
  BY <1>0, <1>7 DEF CheckConnection, Goto, Return, ClaimIsExclusive, Owning
<1>8. ASSUME NEW c \in Caller, ReadForClaim(c) PROVE ClaimIsExclusive'
  BY <1>0, <1>8 DEF ReadForClaim, Goto, Return, ClaimIsExclusive, Owning
<1>9. ASSUME NEW c \in Caller, WriteClaim(c) PROVE ClaimIsExclusive'
  BY <1>0, <1>9 DEF WriteClaim, Goto, Claimable, ClaimIsExclusive, Owning
<1>10. ASSUME NEW c \in Caller, Build(c) PROVE ClaimIsExclusive'
  BY <1>0, <1>10 DEF Build, Goto, ClaimIsExclusive, Owning
<1>11. ASSUME NEW c \in Caller, NEW reply \in Reply, NEW done \in BOOLEAN,
              CallProvider(c, reply, done)
       PROVE  ClaimIsExclusive'
  BY <1>0, <1>11 DEF CallProvider, Goto, ClaimIsExclusive, Owning
<1>12. ASSUME NEW c \in Caller, BreakBatch(c) PROVE ClaimIsExclusive'
  BY <1>0, <1>12 DEF BreakBatch, Goto, ClaimIsExclusive, Owning
<1>13. ASSUME NEW c \in Caller, Complete(c) \/ ResolveInterrupted(c)
       PROVE  ClaimIsExclusive'
  <2>1. pc[c] = "complete" \/ pc[c] = "wait"
    BY <1>13 DEF Complete, ResolveInterrupted
  <2>2. CASE Goto(c, "reread") /\ UNCHANGED <<status, tok>>
    BY <1>0, <2>1, <2>2 DEF Goto, ClaimIsExclusive, Owning
  <2>3. ASSUME NEW o \in Outcome, status[tok[c]] = "executing", Return(c),
               status' = [status EXCEPT ![tok[c]] = o],
               pc[c] = "wait" => o = "interrupted"
        PROVE  ClaimIsExclusive'
    <3>1. \A d \in Caller : pc'[d] # "idle" =>
            d # c /\ pc'[d] = pc[d] /\ tok'[d] = tok[d]
      BY <1>0, <2>3 DEF Return, Goto
    <3>2. /\ o # "unused"
          /\ \A t \in Token : status[t] # "unused" => status'[t] # "unused"
      BY <1>0, <2>3 DEF Outcome, ProviderOutcome
    <3>3. ASSUME NEW d \in Caller, pc'[d] \in Owning
          PROVE  status'[tok'[d]] \in {"executing", "interrupted", "purged"}
      <4>1. d # c /\ pc[d] \in Owning /\ tok'[d] = tok[d]
        BY <3>1, <3>3 DEF Owning
      <4>2. CASE tok[d] = tok[c]
        <5>1. pc[c] = "wait" BY <2>1, <4>1, <4>2 DEF ClaimIsExclusive, Owning
        <5> QED BY <5>1, <4>1, <4>2, <1>0, <2>3
      <4>3. CASE tok[d] # tok[c]
        BY <4>1, <4>3, <1>0, <2>3 DEF ClaimIsExclusive
      <4> QED BY <4>2, <4>3
    <3> QED BY <3>1, <3>2, <3>3, <1>0 DEF ClaimIsExclusive, Owning
  <2>4. verdict[c] \in Outcome /\ "interrupted" \in Outcome
    BY DEF TypeOK, Outcome
  <2> QED
    BY <1>13, <2>2, <2>3, <2>4
       DEF Complete, ResolveInterrupted, Record, Completable
<1>14. ASSUME NEW c \in Caller, StoreFails(c) PROVE ClaimIsExclusive'
  BY <1>0, <1>14 DEF StoreFails, Goto, ClaimIsExclusive, Owning
<1>15. ASSUME NEW c \in Caller, Reread(c) \/ Poll(c) \/ Abandon(c)
       PROVE  ClaimIsExclusive'
  BY <1>0, <1>15
     DEF Reread, Poll, Abandon, Goto, Return, ClaimIsExclusive, Owning
<1> QED
  BY <1>1, <1>2, <1>3, <1>4, <1>5, <1>6, <1>7, <1>8, <1>9, <1>10, <1>11, <1>12,
     <1>13, <1>14, <1>15, EnvironmentSteps
     DEF Next, Environment, Proceed, ProceedLocally, Quiet, vars

(* No step acts for, or answers about, an unclaimed token.                  *)
LEMMA NothingBeforeClaimNext ==
  ASSUME TypeOK, ClaimIsExclusive, NothingBeforeClaim, [Next]_vars
  PROVE  NothingBeforeClaim'
<1> USE DEF row, locals, callers
<1>0. /\ pc \in [Caller -> Step] /\ tok \in [Caller -> Token]
      /\ status \in [Token -> Status] /\ told \in [Token -> SUBSET Outcome]
      /\ part \in [Caller -> 1..MaxParts] /\ bad \in [Caller -> BOOLEAN]
      /\ applied \in [Token -> [1..MaxParts -> Nat]]
  BY DEF TypeOK
<1> DEFINE Fresh == \A t \in Token : status[t] \in {"unused", "prepared"} =>
                      told[t] = {} /\ \A i \in 1..MaxParts : applied[t][i] = 0
           Start == \A c \in Caller : pc[c] \in Checking =>
                      part[c] = 1 /\ ~bad[c]
<1>1. Fresh /\ Start
  BY DEF NothingBeforeClaim
<1>2. SUFFICES Fresh' /\ Start'
  BY DEF NothingBeforeClaim
<1>a. ASSUME UNCHANGED <<status, told, applied>> PROVE Fresh'
  BY <1>1, <1>a
<1>b. ASSUME NEW t \in Token, Asks(t) PROVE Fresh'
  <2>1. \A u \in Token : status[u] \in {"unused", "prepared"} => told'[u] = told[u]
    BY <1>0, <1>b DEF Asks, Tell, Outcome, ProviderOutcome
  <2> QED BY <2>1, <1>1, <1>b DEF Asks
<1>c. ASSUME UNCHANGED <<pc, part, bad>> PROVE Start'
  BY <1>1, <1>c
<1>d. ASSUME NEW c \in Caller, NEW s, Goto(c, s), UNCHANGED <<part, bad>>,
             s \in Checking => pc[c] \in Checking
      PROVE  Start'
  BY <1>0, <1>1, <1>d DEF Goto
<1>e. ASSUME NEW c \in Caller, Return(c) PROVE Start'
  BY <1>0, <1>1, <1>e DEF Return, Goto
<1> HIDE DEF Fresh, Start
<1>3. ASSUME Quiet, UNCHANGED callers PROVE Fresh' /\ Start'
  BY <1>3, <1>a, <1>c DEF Quiet
<1>4. ASSUME NEW t \in Token, NEW k \in Kind, Prepare(t, k)
      PROVE  Fresh' /\ Start'
  <2>1. Start' BY <1>4, <1>c DEF Prepare
  <2>2. Fresh' BY <1>0, <1>1, <1>4 DEF Prepare, Fresh
  <2> QED BY <2>1, <2>2
<1>5. ASSUME NEW c \in Caller, NEW t \in Token, Begin(c, t)
      PROVE  Fresh' /\ Start'
  BY <1>5, <1>b, <1>c, <1>d, BeginAsks DEF Begin, Checking
<1>6. ASSUME NEW c \in Caller,
             \/ CheckPolicy(c) \/ TakeSnapshot(c) \/ CheckDigest(c)
             \/ CheckConnection(c) \/ Build(c) \/ BreakBatch(c) \/ StoreFails(c)
             \/ Abandon(c)
      PROVE  Fresh' /\ Start'
  <2>1. Fresh' BY <1>6, <1>a, QuietSteps DEF Quiet
  <2>2. Start'
    BY <1>6, <1>d, <1>e
       DEF CheckPolicy, TakeSnapshot, CheckDigest, CheckConnection, Build,
           BreakBatch, StoreFails, Abandon, Checking
  <2> QED BY <2>1, <2>2
<1>7. ASSUME NEW c \in Caller, ReadForClaim(c) \/ Reread(c) \/ Poll(c)
      PROVE  Fresh' /\ Start'
  <2>1. Fresh' BY <1>7, <1>b, AskingSteps
  <2>2. Start' BY <1>7, <1>d, <1>e DEF ReadForClaim, Reread, Poll, Checking
  <2> QED BY <2>1, <2>2
<1>8. ASSUME NEW c \in Caller, WriteClaim(c) PROVE Fresh' /\ Start'
  <2>1. Start' BY <1>8, <1>d DEF WriteClaim, Checking
  <2>2. Fresh' BY <1>0, <1>1, <1>8 DEF WriteClaim, Fresh
  <2> QED BY <2>1, <2>2
<1>9. ASSUME NEW c \in Caller, NEW reply \in Reply, NEW done \in BOOLEAN,
             CallProvider(c, reply, done)
      PROVE  Fresh' /\ Start'
  <2>1. pc[c] = "call" /\ status[tok[c]] \notin {"unused", "prepared"}
    BY <1>9 DEF CallProvider, ClaimIsExclusive, Owning
  <2>2. \A t \in Token : t # tok[c] => applied'[t] = applied[t]
    BY <1>0, <1>9 DEF CallProvider
  <2>3. Fresh' BY <1>1, <1>9, <2>1, <2>2 DEF CallProvider, Fresh
  <2>4. \A d \in Caller : pc'[d] \in Checking =>
          pc[d] \in Checking /\ part'[d] = part[d] /\ bad'[d] = bad[d]
    BY <1>0, <1>9, <2>1 DEF CallProvider, Goto, Checking
  <2>5. Start' BY <1>1, <2>4 DEF Start
  <2> QED BY <2>3, <2>5
<1>10. ASSUME NEW c \in Caller, Complete(c) \/ ResolveInterrupted(c)
       PROVE  Fresh' /\ Start'
  <2>1. Start'
    BY <1>10, <1>d, <1>e DEF Complete, ResolveInterrupted, Record, Checking
  <2>2. verdict[c] \in Outcome /\ "interrupted" \in Outcome /\ tok[c] \in Token
    BY DEF TypeOK, Outcome
  <2>3. \A o \in Outcome : o \notin {"unused", "prepared"}
    BY DEF Outcome, ProviderOutcome
  <2>4. ASSUME UNCHANGED <<status, told>> PROVE Fresh'
    BY <1>10, <2>4, <1>a DEF Complete, ResolveInterrupted
  <2>5. ASSUME NEW o \in Outcome, status' = [status EXCEPT ![tok[c]] = o],
               Tell(tok[c], o), UNCHANGED applied
        PROVE  Fresh'
    <3>1. status'[tok[c]] = o /\ \A t \in Token \ {tok[c]} :
            status'[t] = status[t] /\ told'[t] = told[t]
      BY <1>0, <2>2, <2>5 DEF Tell
    <3> QED BY <3>1, <2>3, <2>5, <1>1 DEF Fresh
  <2>6. Fresh'
    BY <1>10, <2>2, <2>4, <2>5 DEF Complete, ResolveInterrupted, Record
  <2> QED BY <2>1, <2>6
<1>11. CASE UNCHANGED vars
  BY <1>11, <1>3 DEF vars, Quiet
<1> QED
  BY <1>3, <1>4, <1>5, <1>6, <1>7, <1>8, <1>9, <1>10, <1>11, EnvironmentSteps
     DEF Next, Environment, Proceed, ProceedLocally

(* A holder's progress matches what the provider has seen.                  *)
LEMMA OwnersNext ==
  ASSUME TypeOK, ClaimIsExclusive, NothingBeforeClaim, OwnersInOrder,
         [Next]_vars
  PROVE  OwnersInOrder'
<1> USE DEF row, locals, callers
<1>0. /\ pc \in [Caller -> Step] /\ tok \in [Caller -> Token]
      /\ status \in [Token -> Status] /\ kind \in [Token -> Kind]
      /\ part \in [Caller -> 1..MaxParts] /\ bad \in [Caller -> BOOLEAN]
      /\ verdict \in [Caller -> Outcome]
      /\ applied \in [Token -> [1..MaxParts -> Nat]]
  BY DEF TypeOK
<1>1. MaxParts \in Nat \ {0} /\ Parts \in [Kind -> 1..MaxParts]
  BY PartsAssumption
<1>2. ASSUME Quiet, UNCHANGED callers PROVE OwnersInOrder'
  BY <1>2, KeptInOrder DEF Quiet, Kept
<1>3. ASSUME NEW t \in Token, NEW k \in Kind, Prepare(t, k)
      PROVE  OwnersInOrder'
  <2> SUFFICES ASSUME NEW d \in Caller, pc[d] \in Owning
               PROVE  CallsInOrder(d)'
    BY <1>3 DEF OwnersInOrder, Prepare
  <2>1. CallsInOrder(d) /\ tok[d] # t
    BY <1>3 DEF OwnersInOrder, ClaimIsExclusive, Prepare, Owning
  <2>2. kind'[tok[d]] = kind[tok[d]]
    BY <1>0, <1>3, <2>1 DEF Prepare
  <2> QED BY <1>3, <2>1, <2>2 DEF CallsInOrder, Prepare, PartsOf
<1>4. ASSUME NEW c \in Caller,
             \/ \E t \in Token : Begin(c, t)
             \/ CheckPolicy(c) \/ TakeSnapshot(c) \/ CheckDigest(c)
             \/ CheckConnection(c) \/ ReadForClaim(c) \/ Complete(c)
             \/ ResolveInterrupted(c) \/ StoreFails(c) \/ Reread(c) \/ Poll(c)
             \/ Abandon(c)
      PROVE  OwnersInOrder'
  <2>1. UNCHANGED <<kind, applied>>
    BY <1>4
       DEF Begin, CheckPolicy, TakeSnapshot, CheckDigest, CheckConnection,
           ReadForClaim, Complete, ResolveInterrupted, StoreFails, Reread, Poll,
           Abandon
  <2>2. \A d \in Caller : pc'[d] \in Owning => Kept(d)
    BY <1>4, ClaimsKept
  <2> QED BY <2>1, <2>2, KeptInOrder
<1>5. ASSUME NEW c \in Caller, WriteClaim(c) PROVE OwnersInOrder'
  <2>1. CASE ~Claimable(tok[c])
    <3>1. \A d \in Caller : pc'[d] \in Owning => Kept(d)
      BY <1>0, <1>5, <2>1 DEF WriteClaim, Goto, Kept, Owning
    <3> QED BY <3>1, <1>5, KeptInOrder DEF WriteClaim
  <2>2. CASE Claimable(tok[c])
    <3> SUFFICES ASSUME NEW d \in Caller, pc'[d] \in Owning
                 PROVE  CallsInOrder(d)'
      BY DEF OwnersInOrder
    <3>1. CASE d = c
      <4>1. pc'[c] = "build"
        BY <1>0, <1>5, <2>2 DEF WriteClaim, Goto
      <4>2. part[c] = 1 /\ ~bad[c] /\ \A i \in 1..MaxParts : applied[tok[c]][i] = 0
        BY <1>0, <1>5, <2>2
           DEF WriteClaim, Claimable, NothingBeforeClaim, Checking
      <4>3. Parts[kind[tok[c]]] \in 1..MaxParts
        BY <1>0, <1>1
      <4> QED BY <1>1, <1>5, <3>1, <4>1, <4>2, <4>3
              DEF CallsInOrder, WriteClaim, PartsOf
    <3>2. CASE d # c
      <4>1. Kept(d)
        BY <1>0, <1>5, <2>2, <3>2 DEF WriteClaim, Goto, Kept
      <4>2. CallsInOrder(d)
        BY <4>1 DEF Kept, OwnersInOrder
      <4> QED BY <1>5, <4>1, <4>2 DEF CallsInOrder, Kept, WriteClaim, PartsOf
    <3> QED BY <3>1, <3>2
  <2> QED BY <2>1, <2>2
<1>6. ASSUME NEW c \in Caller, Build(c) \/ BreakBatch(c) PROVE OwnersInOrder'
  <2> SUFFICES ASSUME NEW d \in Caller, pc'[d] \in Owning
               PROVE  CallsInOrder(d)'
    BY DEF OwnersInOrder
  <2>1. UNCHANGED <<kind, applied, tok, part, bad>>
    BY <1>6 DEF Build, BreakBatch
  <2>2. CASE d # c
    <3>1. Kept(d) /\ CallsInOrder(d)
      BY <1>0, <1>6, <2>1, <2>2
         DEF Build, BreakBatch, Goto, Kept, OwnersInOrder
    <3> QED BY <2>1, <3>1 DEF CallsInOrder, Kept, PartsOf
  <2>3. CASE d = c
    <3>1. CallsInOrder(c) /\ pc[c] \in {"build", "call"}
      BY <1>6 DEF Build, BreakBatch, OwnersInOrder, Owning
    <3>2. CASE pc'[c] = "call" /\ pc[c] = "build"
      BY <1>0, <1>1, <2>1, <2>3, <3>1, <3>2 DEF CallsInOrder, PartsOf
    <3>3. CASE pc'[c] = "complete" /\ verdict'[c] = "failed" /\ pc[c] = "build"
      BY <2>1, <2>3, <3>1, <3>3 DEF CallsInOrder, PartsOf, ProviderOutcome
    <3>4. CASE pc'[c] = "complete" /\ verdict'[c] = "uncertain"
      BY <2>1, <2>3, <3>1, <3>4 DEF CallsInOrder, PartsOf, ProviderOutcome
    <3> QED BY <1>0, <1>6, <3>2, <3>3, <3>4 DEF Build, BreakBatch, Goto
  <2> QED BY <2>2, <2>3
<1>7. ASSUME NEW c \in Caller, NEW reply \in Reply, NEW done \in BOOLEAN,
             CallProvider(c, reply, done)
      PROVE  OwnersInOrder'
  <2> DEFINE t == tok[c]
             p == part[c]
  <2>1. /\ pc[c] = "call" /\ CallsInOrder(c) /\ t \in Token /\ p \in PartsOf(t)
        /\ PartsOf(t) \subseteq 1..MaxParts /\ Parts[kind[t]] \in 1..MaxParts
    BY <1>0, <1>1, <1>7 DEF CallProvider, OwnersInOrder, Owning, CallsInOrder, PartsOf
  <2>2. UNCHANGED <<kind, tok>> /\ reply \in {"ok", "refused", "ambiguous"}
        /\ ((reply = "ok") => done) /\ ((reply = "refused") => ~done)
    BY <1>7 DEF CallProvider, Reply
  <2>3. /\ \A i \in 1..MaxParts : i >= p => applied[t][i] = 0
        /\ ~bad[c] => \A i \in 1..MaxParts : i < p => applied[t][i] = 1
        /\ bad[c] => kind[t] \in BatchKind
    BY <2>1 DEF CallsInOrder
  <2>4. /\ \A u \in Token : u # t => applied'[u] = applied[u]
        /\ \A i \in 1..MaxParts : i # p => applied'[t][i] = applied[t][i]
        /\ applied'[t][p] = IF done THEN 1 ELSE 0
    <3>1. CASE done
      <4>1. applied' = [applied EXCEPT ![t][p] = @ + 1]
        BY <1>7, <3>1 DEF CallProvider
      <4>2. applied[t][p] = 0 /\ p \in 1..MaxParts
        BY <1>0, <2>1, <2>3
      <4>3. applied'[t] = [applied[t] EXCEPT ![p] = @ + 1]
            /\ applied[t] \in [1..MaxParts -> Nat]
        BY <1>0, <2>1, <4>1
      <4>4. applied'[t][p] = applied[t][p] + 1
        BY <4>2, <4>3
      <4>5. \A i \in 1..MaxParts : i # p => applied'[t][i] = applied[t][i]
        BY <4>3
      <4>6. \A u \in Token : u # t => applied'[u] = applied[u]
        BY <1>0, <4>1
      <4> QED BY <3>1, <4>2, <4>4, <4>5, <4>6
    <3>2. CASE ~done
      BY <1>0, <1>7, <2>1, <2>3, <3>2 DEF CallProvider
    <3> QED BY <3>1, <3>2
  <2>5. bad'[c] = (bad[c] \/ reply # "ok")
    BY <1>0, <1>7 DEF CallProvider
  <2> SUFFICES ASSUME NEW d \in Caller, pc'[d] \in Owning
               PROVE  CallsInOrder(d)'
    BY DEF OwnersInOrder
  <2>6. CASE d # c
    <3>1. Kept(d)
      BY <1>0, <1>7, <2>6 DEF CallProvider, Goto, Kept
    <3>2. pc[d] \in Owning /\ CallsInOrder(d) /\ tok[d] # t
      BY <2>1, <2>6, <3>1 DEF Kept, OwnersInOrder, ClaimIsExclusive, Owning
    <3>3. applied'[tok[d]] = applied[tok[d]]
      BY <1>0, <2>4, <3>2
    <3> QED BY <2>2, <3>1, <3>2, <3>3 DEF CallsInOrder, Kept, PartsOf
  <2>7. CASE d = c /\ MoreCalls(c, reply)
    <3>1. part'[c] = p + 1 /\ pc'[c] = "call"
      BY <1>0, <1>7, <2>1, <2>7 DEF CallProvider
    <3>2. p + 1 \in PartsOf(t)
      BY <2>1, <2>7 DEF PartsOf, MoreCalls
    <3>3. \A i \in 1..MaxParts : i >= p + 1 => applied'[t][i] = 0
      BY <2>1, <2>3, <2>4 DEF PartsOf
    <3>4. ~bad'[c] => \A i \in 1..MaxParts : i < p + 1 => applied'[t][i] = 1
      <4> SUFFICES ASSUME ~bad'[c], NEW i \in 1..MaxParts, i < p + 1
                   PROVE  applied'[t][i] = 1
        OBVIOUS
      <4>1. ~bad[c] /\ done BY <2>2, <2>5
      <4>2. i < p \/ i = p BY <1>1, <2>1 DEF PartsOf
      <4> QED BY <2>3, <2>4, <4>1, <4>2
    <3>5. bad'[c] => kind[t] \in BatchKind
      BY <2>3, <2>5, <2>7 DEF MoreCalls
    <3> QED BY <2>2, <2>7, <3>1, <3>2, <3>3, <3>4, <3>5 DEF CallsInOrder, PartsOf
  <2>8. CASE d = c /\ ~MoreCalls(c, reply)
    <3>1. /\ part' = part /\ pc'[c] = "complete"
          /\ verdict'[c] = Verdict(c, reply, bad[c])
      BY <1>0, <1>7, <2>8 DEF CallProvider, Goto
    <3>2. verdict'[c] \in ProviderOutcome
      BY <3>1 DEF Verdict, ProviderOutcome
    <3>3. ASSUME verdict'[c] = "succeeded"
          PROVE  \A i \in PartsOf(t) : applied'[t][i] = 1
      <4>1. reply = "ok" /\ ~bad[c] BY <3>1, <3>3 DEF Verdict
      <4>2. p = Parts[kind[t]] BY <2>1, <2>8, <4>1 DEF PartsOf, MoreCalls
      <4> QED BY <2>1, <2>2, <2>3, <2>4, <4>1, <4>2 DEF PartsOf
    <3>4. ASSUME verdict'[c] = "failed"
          PROVE  \A i \in 1..MaxParts : applied'[t][i] = 0
      <4>1. /\ ~(reply = "ok" /\ ~bad[c]) /\ kind[t] \notin BatchKind
            /\ reply = "refused" /\ p = 1
        BY <3>1, <3>4 DEF Verdict
      <4> QED BY <2>1, <2>2, <2>3, <2>4, <4>1 DEF PartsOf
    <3> QED BY <2>1, <2>2, <2>8, <3>1, <3>2, <3>3, <3>4 DEF CallsInOrder, PartsOf
  <2> QED BY <2>6, <2>7, <2>8
<1>8. CASE UNCHANGED vars
  BY <1>2, <1>8 DEF vars, Quiet
<1> QED
  BY <1>2, <1>3, <1>4, <1>5, <1>6, <1>7, <1>8, EnvironmentSteps
     DEF Next, Environment, Proceed, ProceedLocally

(* Only a holder that is done answers with its own outcome.                 *)
LEMMA AnswerEndsClaimNext ==
  ASSUME TypeOK, ClaimIsExclusive, NothingBeforeClaim, OwnersInOrder,
         AnswerEndsClaim, [Next]_vars
  PROVE  AnswerEndsClaim'
<1> USE DEF row, locals, callers
<1>0. /\ pc \in [Caller -> Step] /\ tok \in [Caller -> Token]
      /\ status \in [Token -> Status] /\ told \in [Token -> SUBSET Outcome]
  BY DEF TypeOK
<1>a. ASSUME UNCHANGED told,
             \A d \in Caller : pc'[d] \in Owning =>
               pc[d] \in Owning /\ tok'[d] = tok[d]
      PROVE  AnswerEndsClaim'
  BY <1>a DEF AnswerEndsClaim
<1>b. ASSUME NEW t \in Token, Asks(t),
             \A d \in Caller : pc'[d] \in Owning =>
               pc[d] \in Owning /\ tok'[d] = tok[d]
      PROVE  AnswerEndsClaim'
  <2> SUFFICES ASSUME NEW u \in Token, NEW d \in Caller, pc[d] \in Owning,
                      tok[d] = u, told'[u] \cap ProviderOutcome # {}
               PROVE  FALSE
    BY <1>b DEF AnswerEndsClaim
  <2>1. told[u] \cap ProviderOutcome = {}
    BY DEF AnswerEndsClaim
  <2>2. u = t /\ status[t] \in ProviderOutcome
    BY <1>0, <1>b, <2>1 DEF Asks, Tell
  <2> QED BY <2>2 DEF ClaimIsExclusive, ProviderOutcome
<1>1. ASSUME Quiet, UNCHANGED callers PROVE AnswerEndsClaim'
  BY <1>1, <1>a DEF Quiet
<1>2. ASSUME NEW t \in Token, NEW k \in Kind, Prepare(t, k)
      PROVE  AnswerEndsClaim'
  BY <1>2, <1>a DEF Prepare
<1>3. ASSUME NEW c \in Caller,
             \/ CheckPolicy(c) \/ TakeSnapshot(c) \/ CheckDigest(c)
             \/ CheckConnection(c) \/ StoreFails(c) \/ Abandon(c)
      PROVE  AnswerEndsClaim'
  <2>1. UNCHANGED told BY <1>3, QuietSteps DEF Quiet
  <2> QED BY <1>3, <2>1, <1>a, ClaimsKept DEF Kept
<1>4. ASSUME NEW c \in Caller,
             \/ \E t \in Token : Begin(c, t)
             \/ ReadForClaim(c) \/ Reread(c) \/ Poll(c)
      PROVE  AnswerEndsClaim'
  <2>1. \E t \in Token : Asks(t)
    BY <1>4, AskingSteps, BeginAsks
  <2>2. \A d \in Caller : pc'[d] \in Owning =>
          pc[d] \in Owning /\ tok'[d] = tok[d]
    BY <1>4, ClaimsKept DEF Kept
  <2> QED BY <2>1, <2>2, <1>b
<1>5. ASSUME NEW c \in Caller, WriteClaim(c) PROVE AnswerEndsClaim'
  <2>1. UNCHANGED <<tok, told>> BY <1>5 DEF WriteClaim
  <2>2. CASE Claimable(tok[c])
    <3>1. told[tok[c]] = {}
      BY <1>0, <2>2 DEF Claimable, NothingBeforeClaim
    <3>2. \A d \in Caller : d # c => pc'[d] = pc[d]
      BY <1>0, <1>5, <2>2 DEF WriteClaim, Goto
    <3> QED BY <2>1, <3>1, <3>2 DEF AnswerEndsClaim
  <2>3. CASE ~Claimable(tok[c])
    BY <1>0, <1>5, <2>1, <2>3, <1>a DEF WriteClaim, Goto, Owning
  <2> QED BY <2>2, <2>3
<1>6. ASSUME NEW c \in Caller, Build(c) \/ BreakBatch(c) PROVE AnswerEndsClaim'
  BY <1>0, <1>6, <1>a DEF Build, BreakBatch, Goto, Owning
<1>7. ASSUME NEW c \in Caller, NEW reply \in Reply, NEW done \in BOOLEAN,
             CallProvider(c, reply, done)
      PROVE  AnswerEndsClaim'
  BY <1>0, <1>7, <1>a DEF CallProvider, Goto, Owning
<1>8. ASSUME NEW c \in Caller, Complete(c) \/ ResolveInterrupted(c)
      PROVE  AnswerEndsClaim'
  <2>1. \A d \in Caller : pc'[d] \in Owning =>
          pc[d] \in Owning /\ tok'[d] = tok[d]
    BY <1>8, ClaimsKept DEF Kept
  <2>2. CASE ~Completable(tok[c])
    BY <1>8, <2>1, <2>2, <1>a DEF Complete, ResolveInterrupted, Record
  <2>3. ASSUME Complete(c), Completable(tok[c]) PROVE AnswerEndsClaim'
    <3>1. Return(c) /\ Tell(tok[c], verdict[c]) /\ pc[c] \in Owning
      BY <2>3 DEF Complete, Record, Owning
    <3>2. pc'[c] \notin Owning
      BY <1>0, <3>1 DEF Return, Goto, Owning
    <3>3. \A d \in Caller : pc'[d] \in Owning => tok[d] # tok[c]
      BY <2>1, <3>1, <3>2 DEF ClaimIsExclusive
    <3>4. \A u \in Token : u # tok[c] => told'[u] = told[u]
      BY <1>0, <3>1 DEF Tell
    <3> QED BY <2>1, <3>3, <3>4 DEF AnswerEndsClaim
  <2>4. ASSUME ResolveInterrupted(c), Completable(tok[c])
        PROVE  AnswerEndsClaim'
    <3>1. Tell(tok[c], "interrupted")
      BY <2>4 DEF ResolveInterrupted, Record
    <3>2. \A u \in Token : told'[u] \cap ProviderOutcome = told[u] \cap ProviderOutcome
      BY <1>0, <3>1 DEF Tell, ProviderOutcome
    <3> QED BY <2>1, <3>2 DEF AnswerEndsClaim
  <2> QED BY <1>8, <2>2, <2>3, <2>4
<1>9. CASE UNCHANGED vars
  BY <1>1, <1>9 DEF vars, Quiet
<1> QED
  BY <1>1, <1>2, <1>3, <1>4, <1>5, <1>6, <1>7, <1>8, <1>9, EnvironmentSteps
     DEF Next, Environment, Proceed, ProceedLocally

(* What a check took stays bound to the token.                              *)
LEMMA BindingsNext ==
  ASSUME TypeOK, ClaimIsExclusive, BindingsHold, [Next]_vars
  PROVE  BindingsHold'
<1> USE DEF row, locals, callers
<1>0. /\ pc \in [Caller -> Step] /\ tok \in [Caller -> Token]
      /\ kind \in [Token -> Kind] /\ approved \in [Token -> Content]
      /\ bound \in [Token -> Connection] /\ snap \in [Caller -> Content]
      /\ using \in [Caller -> Connection]
  BY DEF TypeOK
<1>1. ASSUME UNCHANGED <<kind, approved, bound, pc, tok, snap, using>>
      PROVE  BindingsHold'
  BY <1>1 DEF BindingsHold
<1>2. ASSUME NEW t \in Token, NEW k \in Kind, Prepare(t, k)
      PROVE  BindingsHold'
  BY <1>0, <1>2 DEF Prepare, BindingsHold, ClaimIsExclusive
<1>3. ASSUME NEW c \in Caller, UNCHANGED <<kind, approved, bound>>, Return(c)
      PROVE  BindingsHold'
  BY <1>0, <1>3 DEF Return, Goto, BindingsHold
<1>4. ASSUME NEW c \in Caller, NEW s, Goto(c, s),
             UNCHANGED <<kind, approved, bound, tok, snap, using>>,
             \/ s \in {"policy", "wait", "snapshot", "complete", "reread"}
             \/ s \in {"claimWrite", "build", "claim", "call"}
                /\ pc[c] \in {"claim", "claimWrite", "build"}
      PROVE  BindingsHold'
  BY <1>0, <1>4 DEF Goto, BindingsHold
<1>5. ASSUME NEW c \in Caller, NEW t \in Token, Begin(c, t)
      PROVE  BindingsHold'
  BY <1>0, <1>1, <1>5 DEF Begin, Goto, BindingsHold
<1>6. ASSUME NEW c \in Caller, TakeSnapshot(c) PROVE BindingsHold'
  BY <1>0, <1>6 DEF TakeSnapshot, Goto, BindingsHold
<1>7. ASSUME NEW c \in Caller, CheckDigest(c) PROVE BindingsHold'
  <2>1. CASE Goto(c, "connection") /\ AttachmentOf(c) = approved[tok[c]]
             /\ UNCHANGED <<tok, locals>>
    BY <1>0, <1>7, <2>1 DEF CheckDigest, AttachmentOf, Goto, BindingsHold
  <2> QED BY <1>3, <1>7, <2>1 DEF CheckDigest
<1>8. ASSUME NEW c \in Caller, CheckConnection(c) PROVE BindingsHold'
  <2>1. CASE config = bound[tok[c]]
    BY <1>0, <1>8, <2>1 DEF CheckConnection, Goto, BindingsHold
  <2> QED BY <1>3, <1>8, <2>1 DEF CheckConnection
<1>9. ASSUME NEW c \in Caller, NEW reply \in Reply, NEW done \in BOOLEAN,
             CallProvider(c, reply, done)
      PROVE  BindingsHold'
  BY <1>1, <1>4, <1>9 DEF CallProvider
<1>10. ASSUME NEW c \in Caller,
              \/ CheckPolicy(c) \/ ReadForClaim(c) \/ WriteClaim(c) \/ Build(c)
              \/ BreakBatch(c) \/ Complete(c) \/ ResolveInterrupted(c)
              \/ StoreFails(c) \/ Reread(c) \/ Poll(c) \/ Abandon(c)
       PROVE  BindingsHold'
  BY <1>3, <1>4, <1>10
     DEF CheckPolicy, ReadForClaim, WriteClaim, Build, BreakBatch, Complete,
         ResolveInterrupted, Record, StoreFails, Reread, Poll, Abandon
<1>11. CASE UNCHANGED vars
  BY <1>1, <1>11 DEF vars
<1> QED
  BY <1>1, <1>2, <1>5, <1>6, <1>7, <1>8, <1>9, <1>10, <1>11, EnvironmentSteps
     DEF Next, Environment, Proceed, ProceedLocally, Quiet

(* A provider call is made only where it was not made before.               *)
LEMMA AtMostOnceNext ==
  ASSUME TypeOK, OwnersInOrder, AtMostOnce, [Next]_vars
  PROVE  AtMostOnce'
<1>1. CASE UNCHANGED applied
  BY <1>1 DEF AtMostOnce
<1>2. ASSUME NEW c \in Caller, NEW reply \in Reply, NEW done \in BOOLEAN,
             CallProvider(c, reply, done)
      PROVE  AtMostOnce'
  <2> DEFINE t == tok[c]
             p == part[c]
  <2>1. CASE ~done
    BY <1>1, <1>2, <2>1 DEF CallProvider
  <2>2. CASE done
    <3>1. applied \in [Token -> [1..MaxParts -> Nat]] /\ t \in Token
      BY DEF TypeOK
    <3>2. p \in 1..MaxParts /\ applied[t][p] = 0
      <4>1. p \in 1..MaxParts /\ pc[c] = "call"
        BY <1>2 DEF TypeOK, CallProvider
      <4>2. CallsInOrder(c)
        BY <4>1 DEF OwnersInOrder, Owning
      <4> QED BY <4>1, <4>2, PartsAssumption DEF CallsInOrder
    <3>3. applied' = [applied EXCEPT ![t] = [applied[t] EXCEPT ![p] = applied[t][p] + 1]]
      BY <1>2, <2>2 DEF CallProvider
    <3>4. applied[t] \in [1..MaxParts -> Nat]
      BY <3>1
    <3>5. applied'[t] = [applied[t] EXCEPT ![p] = applied[t][p] + 1]
      BY <3>1, <3>3
    <3>a. applied'[t][p] = applied[t][p] + 1
      BY <3>2, <3>4, <3>5
    <3>b. \A i \in 1..MaxParts : i # p => applied'[t][i] = applied[t][i]
      BY <3>4, <3>5
    <3>6. \A u \in Token : u # t => applied'[u] = applied[u]
      BY <3>1, <3>3
    <3> QED BY <3>2, <3>6, <3>a, <3>b DEF AtMostOnce
  <2> QED BY <2>1, <2>2
<1> QED
  BY <1>1, <1>2
     DEF Next, Environment, Proceed, ProceedLocally, Prepare, Tick, WriteFile, ChangeConnection,
         UpdatePolicy, Begin, CheckPolicy, TakeSnapshot, CheckDigest,
         CheckConnection, ReadForClaim, WriteClaim, Build, BreakBatch, Complete,
         ResolveInterrupted, StoreFails, Reread, Poll, Abandon, vars

(* Recorded and returned outcomes stay true.                                *)
LEMMA OutcomesNext ==
  ASSUME TypeOK, ClaimIsExclusive, NothingBeforeClaim, OwnersInOrder,
         AnswerEndsClaim, AnswersAgree, OutcomesAreTrue, [Next]_vars
  PROVE  OutcomesAreTrue'
<1> USE DEF row, locals, callers
<1>0. /\ pc \in [Caller -> Step] /\ tok \in [Caller -> Token]
      /\ status \in [Token -> Status] /\ told \in [Token -> SUBSET Outcome]
      /\ kind \in [Token -> Kind]
      /\ applied \in [Token -> [1..MaxParts -> Nat]]
  BY DEF TypeOK
<1> DEFINE Claims(t, o) == o \in told[t] \/ status[t] = o
<1>1. \A t \in Token :
        /\ Claims(t, "succeeded") => \A i \in PartsOf(t) : applied[t][i] = 1
        /\ Claims(t, "failed") => \A i \in 1..MaxParts : applied[t][i] = 0
  BY DEF OutcomesAreTrue
<1>2. SUFFICES ASSUME NEW t \in Token
      PROVE  /\ Claims(t, "succeeded")' =>
                  \A i \in PartsOf(t)' : applied'[t][i] = 1
             /\ Claims(t, "failed")' =>
                  \A i \in 1..MaxParts : applied'[t][i] = 0
  BY DEF OutcomesAreTrue
<1>3. CASE /\ UNCHANGED <<kind, applied>>
           /\ \A o \in {"succeeded", "failed"} : Claims(t, o)' => Claims(t, o)
  BY <1>1, <1>3 DEF PartsOf
<1> HIDE DEF Claims
<1>4. ASSUME NEW u \in Token, NEW k \in Kind, Prepare(u, k),
             t = u
      PROVE  ~Claims(t, "succeeded")' /\ ~Claims(t, "failed")'
  BY <1>0, <1>4 DEF Prepare, NothingBeforeClaim, Claims
<1>5. ASSUME NEW u \in Token, NEW k \in Kind, Prepare(u, k), t # u
      PROVE  /\ kind'[t] = kind[t] /\ UNCHANGED applied
             /\ \A o \in {"succeeded", "failed"} : Claims(t, o)' => Claims(t, o)
  BY <1>0, <1>5 DEF Prepare, Claims
<1>6. CASE \E u \in Token, k \in Kind : Prepare(u, k)
  BY <1>1, <1>4, <1>5, <1>6 DEF PartsOf
<1>7. CASE Quiet
  BY <1>3, <1>7 DEF Quiet, Claims
<1>8. ASSUME NEW u \in Token, Asks(u)
      PROVE  /\ UNCHANGED <<kind, applied>>
             /\ \A o \in {"succeeded", "failed"} : Claims(t, o)' => Claims(t, o)
  BY <1>0, <1>8 DEF Asks, Tell, Claims
<1>9. ASSUME NEW c \in Caller, WriteClaim(c)
      PROVE  /\ UNCHANGED <<kind, applied>>
             /\ \A o \in {"succeeded", "failed"} : Claims(t, o)' => Claims(t, o)
  BY <1>0, <1>9 DEF WriteClaim, Claims
<1>10. CASE \E c \in Caller, reply \in Reply, done \in BOOLEAN :
              CallProvider(c, reply, done)
  <2> PICK c \in Caller, reply \in Reply, done \in BOOLEAN :
             CallProvider(c, reply, done)
    BY <1>10
  <2>1. UNCHANGED <<status, kind, told>>
    BY DEF CallProvider
  <2>2. CASE t = tok[c]
    <3>1. pc[c] \in Owning BY DEF CallProvider, Owning
    <3>2. status[t] \notin {"succeeded", "failed"}
      BY <2>2, <3>1 DEF ClaimIsExclusive
    <3>3. told[t] \cap ProviderOutcome = {}
      BY <2>2, <3>1 DEF AnswerEndsClaim
    <3> QED BY <2>1, <3>2, <3>3 DEF Claims, ProviderOutcome
  <2>3. CASE t # tok[c]
    <3>1. applied'[t] = applied[t]
      BY <1>0, <2>3 DEF CallProvider
    <3> QED BY <1>1, <2>1, <3>1 DEF Claims, PartsOf
  <2> QED BY <2>2, <2>3
<1>11. CASE \E c \in Caller : Complete(c) \/ ResolveInterrupted(c)
  <2> PICK c \in Caller : Complete(c) \/ ResolveInterrupted(c)
    BY <1>11
  <2>1. UNCHANGED <<kind, applied>>
    BY DEF Complete, ResolveInterrupted
  <2>2. CASE t # tok[c] \/ ~Completable(tok[c])
    <3>1. status'[t] = status[t] /\ told'[t] = told[t]
      BY <1>0, <2>2 DEF Complete, ResolveInterrupted, Record, Tell
    <3> QED BY <1>3, <2>1, <3>1 DEF Claims
  <2>3. CASE t = tok[c] /\ Completable(tok[c])
    <3>1. told[t] = {}
      BY <1>0, <2>3 DEF Completable, AnswersAgree, Outcome, ProviderOutcome
    <3>2. CASE ResolveInterrupted(c)
      <4>1. \A o : Claims(t, o)' => o = "interrupted"
        BY <1>0, <2>3, <3>1, <3>2
           DEF ResolveInterrupted, Record, Tell, Claims
      <4> QED BY <4>1
    <3>3. CASE Complete(c)
      <4>1. \A o : Claims(t, o)' => o = verdict[c]
        BY <1>0, <2>3, <3>1, <3>3 DEF Complete, Record, Tell, Claims
      <4>2. pc[c] = "complete" /\ CallsInOrder(c)
        BY <3>3 DEF Complete, OwnersInOrder, Owning
      <4> QED BY <2>1, <2>3, <4>1, <4>2 DEF CallsInOrder, PartsOf
    <3> QED BY <3>2, <3>3
  <2> QED BY <2>2, <2>3
<1>12. CASE UNCHANGED vars
  BY <1>7, <1>12 DEF vars, Quiet
<1> QED
  BY <1>3, <1>6, <1>7, <1>8, <1>9, <1>10, <1>11, <1>12, EnvironmentSteps,
     QuietSteps, AskingSteps, BeginAsks
     DEF Next, Environment, Proceed, ProceedLocally

(* A recorded outcome is never replaced by another.                         *)
LEMMA AnswersNext ==
  ASSUME TypeOK, NothingBeforeClaim, AnswersAgree, [Next]_vars
  PROVE  AnswersAgree'
<1> USE DEF row, locals, callers
<1>0. /\ tok \in [Caller -> Token] /\ status \in [Token -> Status]
      /\ told \in [Token -> SUBSET Outcome]
      /\ verdict \in [Caller -> Outcome]
  BY DEF TypeOK
<1>1. CASE UNCHANGED <<status, told>>
  BY <1>1 DEF AnswersAgree
<1>2. ASSUME NEW u \in Token, NEW k \in Kind, Prepare(u, k)
      PROVE  AnswersAgree'
  BY <1>0, <1>2 DEF Prepare, AnswersAgree, NothingBeforeClaim
<1>3. ASSUME NEW u \in Token, Asks(u) PROVE AnswersAgree'
  BY <1>0, <1>3 DEF Asks, Tell, AnswersAgree, Outcome, ProviderOutcome
<1>4. ASSUME NEW c \in Caller, WriteClaim(c) PROVE AnswersAgree'
  BY <1>0, <1>4 DEF WriteClaim, Claimable, AnswersAgree, NothingBeforeClaim
<1>5. ASSUME NEW c \in Caller, NEW o \in Outcome, Record(c, o)
      PROVE  AnswersAgree'
  <2>1. CASE ~Completable(tok[c])
    BY <1>1, <1>5, <2>1 DEF Record
  <2>2. CASE Completable(tok[c])
    <3>1. told[tok[c]] = {}
      BY <1>0, <2>2 DEF Completable, AnswersAgree, Outcome, ProviderOutcome
    <3>2. status'[tok[c]] = o /\ told'[tok[c]] = {o}
      BY <1>0, <1>5, <2>2, <3>1 DEF Record, Tell
    <3>3. \A t \in Token : t # tok[c] =>
            status'[t] = status[t] /\ told'[t] = told[t]
      BY <1>0, <1>5, <2>2 DEF Record, Tell
    <3> QED BY <3>2, <3>3 DEF AnswersAgree
  <2> QED BY <2>1, <2>2
<1>6. ASSUME NEW c \in Caller, Complete(c) \/ ResolveInterrupted(c)
      PROVE  AnswersAgree'
  BY <1>0, <1>5, <1>6 DEF Complete, ResolveInterrupted, Outcome
<1>7. ASSUME NEW c \in Caller, NEW reply \in Reply, NEW done \in BOOLEAN,
             CallProvider(c, reply, done)
      PROVE  AnswersAgree'
  BY <1>1, <1>7 DEF CallProvider
<1>8. CASE Quiet \/ UNCHANGED vars
  BY <1>1, <1>8 DEF Quiet, vars
<1> QED
  BY <1>2, <1>3, <1>4, <1>6, <1>7, <1>8, EnvironmentSteps, QuietSteps,
     AskingSteps, BeginAsks
     DEF Next, Environment, Proceed, ProceedLocally

(* The message is built from what was bound and approved.                   *)
LEMMA ApprovedNext ==
  ASSUME TypeOK, ClaimIsExclusive, BindingsHold, BindingsHold',
         ExecutesWhatWasApproved, [Next]_vars
  PROVE  ExecutesWhatWasApproved'
<1> USE DEF row, locals, callers
<1>0. /\ pc \in [Caller -> Step] /\ tok \in [Caller -> Token]
      /\ kind \in [Token -> Kind] /\ approved \in [Token -> Content]
      /\ snap \in [Caller -> Content] /\ built \in [Caller -> Content]
  BY DEF TypeOK
<1> SUFFICES ASSUME NEW d \in Caller, pc'[d] = "call",
                    kind'[tok'[d]] \in FileKind, snap'[d] # EmptyFile
             PROVE  built'[d] = approved'[tok'[d]]
  BY DEF ExecutesWhatWasApproved, BindingsHold
<1>1. CASE /\ UNCHANGED <<kind, approved>> /\ pc[d] = "call"
           /\ tok'[d] = tok[d] /\ snap'[d] = snap[d] /\ built'[d] = built[d]
  BY <1>1 DEF ExecutesWhatWasApproved
<1>2. ASSUME NEW t \in Token, NEW k \in Kind, Prepare(t, k)
      PROVE  built'[d] = approved'[tok'[d]]
  BY <1>0, <1>2 DEF Prepare, ExecutesWhatWasApproved, ClaimIsExclusive
<1>3. ASSUME NEW c \in Caller, Build(c) PROVE built'[d] = approved'[tok'[d]]
  <2>1. CASE d = c
    BY <1>0, <1>3, <2>1 DEF Build, AttachmentOf, BindingsHold
  <2>2. CASE d # c
    BY <1>0, <1>1, <1>3, <2>2 DEF Build, Goto
  <2> QED BY <2>1, <2>2
<1>4. CASE \E c \in Caller : Return(c) /\ UNCHANGED <<kind, approved>>
  BY <1>0, <1>1, <1>4 DEF Return, Goto
<1>5. ASSUME NEW c \in Caller, NEW s, s # "call", Goto(c, s),
             \A e \in Caller : e # c =>
               tok'[e] = tok[e] /\ snap'[e] = snap[e] /\ built'[e] = built[e],
             UNCHANGED <<kind, approved>>
      PROVE  built'[d] = approved'[tok'[d]]
  BY <1>0, <1>1, <1>5 DEF Goto
<1>6. CASE UNCHANGED <<kind, approved, pc, tok, snap, built>>
  BY <1>1, <1>6
<1>7. ASSUME NEW c \in Caller, NEW t \in Token, Begin(c, t)
      PROVE  built'[d] = approved'[tok'[d]]
  BY <1>0, <1>5, <1>6, <1>7 DEF Begin
<1>8. ASSUME NEW c \in Caller, TakeSnapshot(c)
      PROVE  built'[d] = approved'[tok'[d]]
  BY <1>0, <1>5, <1>8 DEF TakeSnapshot
<1>9. ASSUME NEW c \in Caller, NEW reply \in Reply, NEW done \in BOOLEAN,
             CallProvider(c, reply, done)
      PROVE  built'[d] = approved'[tok'[d]]
  BY <1>5, <1>6, <1>9 DEF CallProvider
<1>10. ASSUME NEW c \in Caller,
              \/ CheckPolicy(c) \/ CheckDigest(c) \/ CheckConnection(c)
              \/ ReadForClaim(c) \/ WriteClaim(c)
              \/ BreakBatch(c) \/ Complete(c) \/ ResolveInterrupted(c)
              \/ StoreFails(c) \/ Reread(c) \/ Poll(c) \/ Abandon(c)
       PROVE  built'[d] = approved'[tok'[d]]
  BY <1>4, <1>5, <1>10
     DEF CheckPolicy, CheckDigest, CheckConnection, ReadForClaim, WriteClaim,
         BreakBatch, Complete, ResolveInterrupted, Record, StoreFails, Reread,
         Poll, Abandon
<1>11. CASE UNCHANGED vars
  BY <1>6, <1>11 DEF vars
<1> QED
  BY <1>2, <1>3, <1>6, <1>7, <1>8, <1>9, <1>10, <1>11, EnvironmentSteps
     DEF Next, Environment, Proceed, ProceedLocally, Quiet

-----------------------------------------------------------------------------
(* The inductive invariant, and what follows from it.                       *)

(* The inductive invariant holds initially.                                 *)
LEMMA InvInit == Init => IInv
<1> SUFFICES ASSUME Init PROVE IInv
  OBVIOUS
<1>1. TypeOK
  BY TypeInit
<1>2. \A c \in Caller : pc[c] = "idle" /\ part[c] = 1 /\ ~bad[c]
  BY DEF Init
<1>3. \A t \in Token : /\ status[t] = "unused" /\ told[t] = {}
                       /\ \A i \in 1..MaxParts : applied[t][i] = 0
  BY DEF Init
<1>4. ClaimIsExclusive /\ NothingBeforeClaim /\ OwnersInOrder
  BY <1>2, <1>3 DEF ClaimIsExclusive, NothingBeforeClaim, OwnersInOrder, Owning
<1>5. AnswerEndsClaim /\ BindingsHold /\ ExecutesWhatWasApproved
  BY <1>2 DEF AnswerEndsClaim, BindingsHold, ExecutesWhatWasApproved, Owning
<1>6. AtMostOnce /\ OutcomesAreTrue /\ AnswersAgree
  BY <1>3 DEF AtMostOnce, OutcomesAreTrue, AnswersAgree
<1> QED BY <1>1, <1>4, <1>5, <1>6 DEF IInv, OwnersInOrder

(* The inductive invariant is inductive.                                    *)
LEMMA InvNext == IInv /\ [Next]_vars => IInv'
<1> SUFFICES ASSUME IInv, [Next]_vars PROVE IInv'
  OBVIOUS
<1>1. /\ TypeOK /\ ClaimIsExclusive /\ NothingBeforeClaim /\ OwnersInOrder
      /\ AnswerEndsClaim /\ BindingsHold /\ AtMostOnce /\ OutcomesAreTrue
      /\ AnswersAgree /\ ExecutesWhatWasApproved
  BY DEF IInv, OwnersInOrder
<1>2. TypeOK' /\ ClaimIsExclusive' /\ NothingBeforeClaim' /\ OwnersInOrder'
  BY <1>1, TypeNext, ExclusiveNext, NothingBeforeClaimNext, OwnersNext
<1>3. AnswerEndsClaim' /\ BindingsHold' /\ AtMostOnce'
  BY <1>1, AnswerEndsClaimNext, BindingsNext, AtMostOnceNext
<1>4. OutcomesAreTrue' /\ AnswersAgree' /\ ExecutesWhatWasApproved'
  BY <1>1, <1>3, OutcomesNext, AnswersNext, ApprovedNext
<1> QED BY <1>2, <1>3, <1>4 DEF IInv, OwnersInOrder

(* The inductive invariant holds in every reachable state.                  *)
THEOREM Invariance == Spec => []IInv
BY InvInit, InvNext, PTL DEF Spec

(* However many callers, processes and crashes: no provider call of a token *)
(* takes effect twice (Store.ClaimOperation and Service.execute).           *)
THEOREM NeverTwice == Spec => []AtMostOnce
<1>1. IInv => AtMostOnce
  BY DEF IInv
<1> QED BY <1>1, Invariance, PTL

(* What is recorded or returned as succeeded or failed is what the provider *)
(* did (Service.execute and Service.ExecuteOperation).                      *)
THEOREM TruthfulOutcomes == Spec => []OutcomesAreTrue
<1>1. IInv => OutcomesAreTrue
  BY DEF IInv
<1> QED BY <1>1, Invariance, PTL

(* Everybody who is given a final status for a token is given the same one, *)
(* executors and waiters alike (Store.CompleteOperation).                   *)
THEOREM OneAnswer == Spec => []AnswersAgree
<1>1. IInv => AnswersAgree
  BY DEF IInv
<1> QED BY <1>1, Invariance, PTL

(* A provider call uses the bound connection and, where the snapshot of the *)
(* attachment survived, the approved bytes (Service.ExecuteOperation).      *)
THEOREM BoundExecution == Spec => []ExecutesWhatWasApproved
<1>1. IInv => ExecutesWhatWasApproved
  BY DEF IInv
<1> QED BY <1>1, Invariance, PTL
-----------------------------------------------------------------------------
(* The refinement of OperationPromise.                                      *)

Acting == {"build", "call"}

PartsMap == [t \in Token |-> PartsOf(t)]

(* What the promise sees of a step that it does not see.                    *)
Unseen == UNCHANGED <<status, PartsMap, Live, applied, told>>

(* The step neither starts nor ends d's time as the acting holder.          *)
SameActing(d) ==
  /\ pc'[d] \in Acting <=> pc[d] \in Acting
  /\ pc[d] \in Acting => tok'[d] = tok[d]

-----------------------------------------------------------------------------
(* The refinement mapping's two derived variables.                          *)

(* The holders stay the same if nobody starts or stops acting.              *)
LEMMA SameLive ==
  ASSUME \A d \in Caller : SameActing(d)
  PROVE  UNCHANGED Live
BY DEF Live, SameActing, Acting

(* A holder that stops acting was the only one of its token.                *)
LEMMA LiveStops ==
  ASSUME TypeOK, ClaimIsExclusive, NEW c \in Caller, pc[c] \in Acting,
         pc'[c] \notin Acting,
         \A d \in Caller \ {c} : SameActing(d)
  PROVE  Live[tok[c]] /\ Live' = [Live EXCEPT ![tok[c]] = FALSE]
<1>1. tok[c] \in Token
  BY DEF TypeOK
<1>2. Live[tok[c]]
  BY <1>1 DEF Live, Acting
<1>3. \A d \in Caller \ {c} : pc[d] \in Acting => tok[d] # tok[c]
  BY DEF ClaimIsExclusive, Acting, Owning
<1>4. \A t \in Token : Live'[t] = IF t = tok[c] THEN FALSE ELSE Live[t]
  BY <1>1, <1>3 DEF Live, SameActing, Acting
<1> QED BY <1>1, <1>2, <1>4 DEF Live

(* A caller that starts acting becomes the holder of its token.             *)
LEMMA LiveStarts ==
  ASSUME TypeOK, NEW c \in Caller, pc[c] \notin Acting, pc'[c] \in Acting,
         tok'[c] = tok[c], \A d \in Caller \ {c} : SameActing(d)
  PROVE  Live' = [Live EXCEPT ![tok[c]] = TRUE]
<1>1. tok[c] \in Token
  BY DEF TypeOK
<1>2. \A t \in Token : Live'[t] = IF t = tok[c] THEN TRUE ELSE Live[t]
  BY <1>1 DEF Live, SameActing, Acting
<1> QED BY <1>1, <1>2 DEF Live

(* The approved calls follow from the kind.                                 *)
LEMMA SameParts ==
  ASSUME UNCHANGED kind
  PROVE  UNCHANGED PartsMap
BY DEF PartsMap, PartsOf

(* The approved calls are among the numbered ones.                          *)
LEMMA PartsInRange ==
  ASSUME TypeOK
  PROVE  PartsMap \in [Token -> SUBSET (1..MaxParts)]
<1>1. \A t \in Token : Parts[kind[t]] \in 1..MaxParts
  BY PartsAssumption DEF TypeOK
<1>2. ASSUME NEW t \in Token PROVE PartsOf(t) \subseteq 1..MaxParts
  <2>1. MaxParts \in Nat /\ Parts[kind[t]] \in 1..MaxParts
    BY <1>1, PartsAssumption
  <2> QED BY <2>1 DEF PartsOf
<1> QED BY <1>2 DEF PartsMap

-----------------------------------------------------------------------------
(* Steps that ask, steps that stop, and all the others.                     *)

(* Reading a row is an answer of the promise, or unseen.                    *)
LEMMA AskedOrUnseen ==
  ASSUME TypeOK, NEW t \in Token, Asks(t), UNCHANGED Live
  PROVE  Unseen \/ Promise!Answer(t)
<1>1. UNCHANGED <<status, PartsMap, Live, applied>>
  BY SameParts DEF Asks, row
<1>2. CASE UNCHANGED told
  BY <1>1, <1>2 DEF Unseen
<1>3. CASE status[t] \in Outcome /\ Tell(t, status[t])
  BY <1>1, <1>3
     DEF Promise!Answer, Tell, Outcome, ProviderOutcome, Promise!Outcome,
         PartsMap
<1> QED BY <1>2, <1>3 DEF Asks

(* A call that returns stops acting, and alone.                             *)
LEMMA ReturnActing ==
  ASSUME TypeOK, NEW c \in Caller, Return(c)
  PROVE  /\ pc'[c] \notin Acting
         /\ \A d \in Caller \ {c} : SameActing(d)
BY DEF TypeOK, Return, Goto, SameActing, Acting

(* A caller that moves leaves the others acting as they were.               *)
LEMMA GotoActing ==
  ASSUME TypeOK, NEW c \in Caller, NEW s, Goto(c, s), UNCHANGED tok
  PROVE  /\ pc'[c] = s
         /\ tok'[c] = tok[c]
         /\ \A d \in Caller \ {c} : SameActing(d)
BY DEF TypeOK, Goto, SameActing, Acting

(* Every step is a step of the promise, or unseen.                          *)
LEMMA StepRefines ==
  ASSUME IInv, [Next]_vars
  PROVE  Unseen \/ Promise!Next
<1> USE DEF row, locals, callers
<1>0. TypeOK /\ ClaimIsExclusive /\ OwnersInOrder
  BY DEF IInv, OwnersInOrder
<1>a. /\ pc \in [Caller -> Step] /\ tok \in [Caller -> Token]
      /\ status \in [Token -> Status] /\ kind \in [Token -> Kind]
  BY <1>0 DEF TypeOK
<1>1. CASE Quiet /\ UNCHANGED callers
  BY <1>1, SameLive, SameParts DEF Quiet, SameActing, Unseen
<1>2. ASSUME NEW t \in Token, NEW k \in Kind, Prepare(t, k)
      PROVE  Promise!Next
  <2> DEFINE old == {u \in Token : status[u] # "unused" /\ Stale(u)}
  <2>1. UNCHANGED Live
    BY <1>2, SameLive DEF Prepare, SameActing
  <2>2. PartsMap' = [PartsMap EXCEPT ![t] = 1..Parts[k]]
    BY <1>a, <1>2 DEF Prepare, PartsMap, PartsOf
  <2>3. 1..Parts[k] \in SUBSET (1..MaxParts)
    <3>1. Parts[k] \in 1..MaxParts /\ MaxParts \in Nat BY PartsAssumption
    <3> QED BY <3>1
  <2>4. Promise!Prepare(t, 1..Parts[k], old)
    BY <1>2, <2>1, <2>2 DEF Promise!Prepare, Prepare, PartsMap
  <2> QED BY <2>3, <2>4 DEF Promise!Next
<1>3. ASSUME NEW c \in Caller, NEW t \in Token, Begin(c, t)
      PROVE  Unseen \/ Promise!Next
  <2>1. \A d \in Caller : SameActing(d)
    BY <1>a, <1>3 DEF Begin, Goto, SameActing, Acting
  <2> QED BY <1>0, <1>3, <2>1, SameLive, BeginAsks, AskedOrUnseen
          DEF Promise!Next
<1>4. ASSUME NEW c \in Caller, ReadForClaim(c) \/ Reread(c) \/ Poll(c)
      PROVE  Unseen \/ Promise!Next
  <2>1. pc[c] \notin Acting
    BY <1>4 DEF ReadForClaim, Reread, Poll, Acting
  <2>2. \/ Return(c)
        \/ Goto(c, "claimWrite") /\ UNCHANGED tok
        \/ Goto(c, "wait") /\ UNCHANGED tok
    BY <1>4 DEF ReadForClaim, Reread, Poll
  <2>3. pc'[c] \notin Acting /\ \A d \in Caller \ {c} : SameActing(d)
    BY <1>0, <2>2, ReturnActing, GotoActing DEF Acting
  <2>4. UNCHANGED Live
    BY <2>1, <2>3, SameLive DEF SameActing
  <2> QED BY <1>0, <1>4, <2>4, AskingSteps, AskedOrUnseen DEF Promise!Next
<1>5. ASSUME NEW c \in Caller, Quiet, pc'[c] \notin Acting,
             \A d \in Caller \ {c} : SameActing(d)
      PROVE  Unseen \/ Promise!Next
  <2>1. CASE pc[c] \in Acting
    <3>1. tok[c] \in Token BY <1>a
    <3>2. Promise!Stop(tok[c])
      BY <1>0, <1>5, <2>1, LiveStops, SameParts
         DEF Promise!Stop, Quiet, PartsMap
    <3> QED BY <3>1, <3>2 DEF Promise!Next
  <2>2. CASE pc[c] \notin Acting
    BY <1>5, <2>2, SameLive, SameParts DEF SameActing, Quiet, Unseen
  <2> QED BY <2>1, <2>2
<1>6. ASSUME NEW c \in Caller, CheckPolicy(c) \/ CheckDigest(c)
                                \/ CheckConnection(c) \/ Abandon(c)
      PROVE  Unseen \/ Promise!Next
  <2>1. \/ Return(c)
        \/ \E s \in {"snapshot", "connection", "claim"} :
             Goto(c, s) /\ UNCHANGED tok
    BY <1>6 DEF CheckPolicy, CheckDigest, CheckConnection, Abandon
  <2>2. pc'[c] \notin Acting /\ \A d \in Caller \ {c} : SameActing(d)
    BY <1>0, <2>1, ReturnActing, GotoActing DEF Acting
  <2> QED BY <1>5, <1>6, <2>2, QuietSteps
<1>7. ASSUME NEW c \in Caller, TakeSnapshot(c) \/ BreakBatch(c) \/ StoreFails(c)
      PROVE  Unseen \/ Promise!Next
  <2>1. \E s \in {"digest", "complete", "reread"} : Goto(c, s) /\ UNCHANGED tok
    BY <1>7 DEF TakeSnapshot, BreakBatch, StoreFails
  <2>2. pc'[c] \notin Acting /\ \A d \in Caller \ {c} : SameActing(d)
    BY <1>0, <2>1, GotoActing DEF Acting
  <2> QED BY <1>5, <1>7, <2>2, QuietSteps
<1>8. ASSUME NEW c \in Caller, WriteClaim(c) PROVE Unseen \/ Promise!Next
  <2>1. pc[c] \notin Acting /\ tok[c] \in Token
    BY <1>a, <1>8 DEF WriteClaim, Acting
  <2>2. CASE ~Claimable(tok[c])
    <3>1. pc'[c] \notin Acting /\ \A d \in Caller \ {c} : SameActing(d)
      BY <1>0, <1>8, <2>2, GotoActing DEF WriteClaim, Acting
    <3> QED BY <1>5, <1>8, <2>2, <3>1 DEF WriteClaim, Quiet
  <2>3. CASE Claimable(tok[c])
    <3>1. /\ pc'[c] \in Acting /\ tok'[c] = tok[c]
          /\ \A d \in Caller \ {c} : SameActing(d)
      BY <1>0, <1>8, <2>3, GotoActing DEF WriteClaim, Acting
    <3>2. Promise!Claim(tok[c])
      BY <1>0, <1>8, <2>1, <2>3, <3>1, LiveStarts, SameParts
         DEF Promise!Claim, WriteClaim, Claimable, PartsMap
    <3> QED BY <2>1, <3>2 DEF Promise!Next
  <2> QED BY <2>2, <2>3
<1>9. ASSUME NEW c \in Caller, Build(c) PROVE Unseen \/ Promise!Next
  <2>1. Quiet
    BY <1>9, QuietSteps
  <2>2. CASE Goto(c, "complete")
    BY <1>0, <1>5, <1>9, <2>1, <2>2, GotoActing DEF Build, Acting
  <2>3. CASE Goto(c, "call")
    <3>1. \A d \in Caller : SameActing(d)
      BY <1>a, <1>9, <2>3 DEF Build, Goto, SameActing, Acting
    <3> QED BY <2>1, <3>1, SameLive, SameParts DEF Quiet, Unseen
  <2> QED BY <1>9, <2>2, <2>3 DEF Build
<1>10. ASSUME NEW c \in Caller, NEW reply \in Reply, NEW done \in BOOLEAN,
              CallProvider(c, reply, done)
       PROVE  Unseen \/ Promise!Next
  <2> DEFINE t == tok[c]
             p == part[c]
  <2>1. /\ pc[c] = "call" /\ t \in Token /\ p \in PartsOf(t)
        /\ p \in 1..MaxParts /\ applied[t][p] = 0
    <3>1. pc[c] = "call" /\ CallsInOrder(c)
      BY <1>0, <1>10 DEF CallProvider, OwnersInOrder, Owning
    <3>2. p \in 1..MaxParts /\ t \in Token
      BY <1>0 DEF TypeOK
    <3> QED BY <3>1, <3>2, PartsAssumption DEF CallsInOrder
  <2>2. UNCHANGED <<status, kind, told, tok>>
    BY <1>10 DEF CallProvider
  <2>3. \/ pc' = pc
        \/ Goto(c, "complete")
    BY <1>10 DEF CallProvider
  <2>4. CASE ~done
    <3>1. Quiet
      BY <1>10, <2>4 DEF CallProvider, Quiet
    <3>2. CASE pc' = pc
      BY <2>2, <3>1, <3>2, SameLive, SameParts DEF SameActing, Quiet, Unseen
    <3>3. CASE Goto(c, "complete")
      BY <1>0, <1>5, <2>2, <3>1, <3>3, GotoActing DEF Acting
    <3> QED BY <2>3, <3>2, <3>3
  <2>5. CASE done
    <3>1. applied' = [applied EXCEPT ![t] = [applied[t] EXCEPT ![p] = applied[t][p] + 1]]
      BY <1>10, <2>5 DEF CallProvider
    <3>2. applied' = [applied EXCEPT ![t] = [applied[t] EXCEPT ![p] = 1]]
      BY <2>1, <3>1
    <3>3. Live[t] /\ t \in DOMAIN PartsMap /\ p \in PartsMap[t]
      BY <2>1 DEF Live, PartsMap
    <3>4. Live' = [Live EXCEPT ![t] = TRUE] \/ Live' = [Live EXCEPT ![t] = FALSE]
      <4>1. CASE pc' = pc
        <5>1. Live' = Live BY <2>2, <4>1, SameLive DEF SameActing
        <5> QED BY <5>1, <3>3, <2>1 DEF Live
      <4>2. CASE Goto(c, "complete")
        BY <1>0, <2>1, <2>2, <4>2, GotoActing, LiveStops DEF Acting
      <4> QED BY <2>3, <4>1, <4>2
    <3>5. \E more \in BOOLEAN : Promise!Apply(t, p, more)
      BY <2>1, <2>2, <3>2, <3>3, <3>4, SameParts DEF Promise!Apply, PartsMap
    <3> QED BY <2>1, <3>5 DEF Promise!Next
  <2> QED BY <2>4, <2>5
<1>11. ASSUME NEW c \in Caller, Complete(c) \/ ResolveInterrupted(c)
       PROVE  Unseen \/ Promise!Next
  <2>1. /\ UNCHANGED <<kind, applied>> /\ tok[c] \in Token
        /\ pc[c] \in {"complete", "wait"}
    BY <1>a, <1>11 DEF Complete, ResolveInterrupted
  <2>2. Return(c) \/ (Goto(c, "reread") /\ UNCHANGED tok)
    BY <1>11 DEF Complete, ResolveInterrupted, Record
  <2>3. pc'[c] \notin Acting /\ \A d \in Caller \ {c} : SameActing(d)
    BY <1>0, <2>2, ReturnActing, GotoActing DEF Acting
  <2>4. UNCHANGED Live
    BY <2>1, <2>3, SameLive DEF SameActing, Acting
  <2>5. CASE ~Completable(tok[c])
    BY <1>11, <2>1, <2>4, <2>5, SameParts
       DEF Complete, ResolveInterrupted, Record, Unseen
  <2>6. ASSUME Completable(tok[c]), Complete(c) PROVE Promise!Next
    <3>1. CallsInOrder(c) /\ pc[c] = "complete"
      BY <1>0, <2>6 DEF Complete, OwnersInOrder, Owning
    <3>2. ~Live[tok[c]]
      <4>1. ASSUME NEW d \in Caller, pc[d] \in Acting, tok[d] = tok[c]
            PROVE  FALSE
        BY <1>0, <3>1, <4>1 DEF ClaimIsExclusive, Owning, Acting
      <4> QED BY <2>1, <4>1 DEF Live, Acting
    <3>3. /\ verdict[c] \in Promise!Outcome /\ verdict[c] # "interrupted"
      BY <3>1 DEF CallsInOrder, ProviderOutcome, Promise!Outcome
    <3>4. /\ verdict[c] = "succeeded" =>
               \A i \in PartsMap[tok[c]] : applied[tok[c]][i] = 1
          /\ verdict[c] = "failed" =>
               \A i \in PartsMap[tok[c]] : applied[tok[c]][i] = 0
      BY <1>0, <2>1, <3>1, PartsInRange DEF CallsInOrder, PartsMap
    <3>5. Promise!Decide(tok[c], verdict[c])
      BY <2>1, <2>4, <2>6, <3>2, <3>3, <3>4, SameParts
         DEF Promise!Decide, Complete, Record, Completable, Tell, PartsMap
    <3> QED BY <2>1, <3>3, <3>5 DEF Promise!Next
  <2>7. ASSUME Completable(tok[c]), ResolveInterrupted(c) PROVE Promise!Next
    <3>1. Promise!Decide(tok[c], "interrupted")
      BY <2>1, <2>4, <2>7, SameParts
         DEF Promise!Decide, ResolveInterrupted, Record, Completable, Tell,
             PartsMap
    <3> QED BY <2>1, <3>1 DEF Promise!Next, Promise!Outcome
  <2> QED BY <1>11, <2>5, <2>6, <2>7
<1>12. CASE UNCHANGED vars
  BY <1>1, <1>12 DEF vars, Quiet
<1> QED
  BY <1>1, <1>2, <1>3, <1>4, <1>6, <1>7, <1>8, <1>9, <1>10, <1>11, <1>12,
     EnvironmentSteps
     DEF Next, Environment, Proceed, ProceedLocally

(* Initial states are initial states of the promise.                        *)
LEMMA InitRefines ==
  ASSUME Init
  PROVE  Promise!Init
<1>1. PartsMap \in [Token -> SUBSET (1..MaxParts)]
  BY TypeInit, PartsInRange
<1>2. Live = [t \in Token |-> FALSE]
  BY DEF Init, Live
<1> QED BY <1>1, <1>2 DEF Init, Promise!Init, PartsMap

(* Whatever the callers, the clock, the environment and the provider do, a  *)
(* token is claimed once, only the holder of its claim reaches the provider,*)
(* one truthful final status is written, and that is all anybody is told.   *)
THEOREM Refinement == Spec => KeepsPromise
<1>1. Init => Promise!Init
  BY InitRefines
<1>2. IInv /\ [Next]_vars => [Promise!Next]_(Promise!vars)
  BY StepRefines DEF Unseen, Promise!vars, PartsMap
<1> QED BY <1>1, <1>2, Invariance, PTL DEF Spec, KeepsPromise, Promise!Spec
=============================================================================
