--------------------------- MODULE ProviderDelivery ---------------------------
(***************************************************************************)
(* One external write on its way: Service.execute and the SMTP, IMAP and   *)
(* CalDAV clients it calls, down to the commands on the wire, their        *)
(* answers and the loss of either. Operations of several callers are about *)
(* one message or one event, which other clients change as well.           *)
(*                                                                         *)
(* An answer of an SMTP or IMAP server is believed, as those protocols     *)
(* have it: what a server says it has refused it has not done. An HTTP     *)
(* answer need not be the CalDAV server's: see Mask.                       *)
(***************************************************************************)
EXTENDS Naturals, Sequences, FiniteSets

CONSTANTS
  Op,          \* claimed operations
  MaxVersion,  \* bound on the versions that other clients make
  Late         \* whether WroteRequest can come late: a subset of BOOLEAN

ASSUME DeliveryAssumption ==
  MaxVersion \in Nat \ {0} /\ Late \in (SUBSET BOOLEAN) \ {{}}

VARIABLES
  kind,      \* [Op -> Kind]
  server,    \* what the provider can: condstore, uidplus, move; and late
  item,      \* the message or event: whether it is there, version, flags
  prepared,  \* the operations that are prepared, and run
  want,      \* [Op -> Nat], the approved version, 0 where none is known
  mod,       \* [Op -> Nat], the version the next STORE is conditional on
  at,        \* [Op -> Nat], the step of its plan
  wire,      \* [Op -> ...], the command that is on its way, or its answer
  noted,     \* [Op -> BOOLEAN], WroteRequest has been called
  base,      \* [Op -> Nat], the version an update is merged with
  answer,    \* [Op -> ...], the status that is recorded
  done,      \* history: [Op -> set of steps whose change is at the provider]
  met,       \* history: [Op -> set of steps whose purpose was achieved]
  misled     \* history: the operations whose write another's answer has hidden

local == <<prepared, want, mod, at, noted, base>>
ghost == <<done, met, misled>>
vars  == <<kind, server, item, local, wire, answer, ghost>>

Flag     == {"seen", "flagged", "deleted"}
MailKind == {"send", "mark", "move", "draft", "redraft", "discard"}
CalKind  == {"create", "update", "delete"}
Kind     == MailKind \cup CalKind

\* The steps of each kind, in the order of the code. A flag is the STORE that
\* sets it; "verify" is the FETCH after it; "check" the SELECT and FETCH that
\* compare the precondition.
SendPlan    == <<"smtp", "copy">>
MarkPlan    == <<"check", "seen", "verify", "flagged", "verify">>
MovePlan    == <<"check", "move">>
RedraftPlan == <<"check", "append", "check", "deleted", "verify">>
DiscardPlan == <<"check", "deleted", "verify">>
UpdatePlan  == <<"get", "put">>
RemovePlan  == <<"remove">>

Plan ==
  [send |-> SendPlan, mark |-> MarkPlan, move |-> MovePlan,
   draft |-> <<"append">>, redraft |-> RedraftPlan, discard |-> DiscardPlan,
   create |-> <<"put">>, update |-> UpdatePlan, delete |-> RemovePlan]

\* The kinds for which a message is looked at when they are prepared.
Snapshots == {"mark", "move", "redraft", "discard"}

Write   == Flag \cup {"smtp", "copy", "append", "move", "put", "remove"}
\* The slip: the last step is taken for one before the last.
PastLast(o) == at[o] > Len(Plan[kind[o]])

Writes(o) == {Plan[kind[o]][i] : i \in DOMAIN Plan[kind[o]]} \cap Write
StepOf(o) == Plan[kind[o]][at[o]]
Last(o)   == at[o] = Len(Plan[kind[o]])
Before(o) == {Plan[kind[o]][i] : i \in 1..(at[o] - 1)}

TypeOK ==
  /\ kind \in [Op -> Kind]
  /\ server \in [condstore : BOOLEAN, uidplus : BOOLEAN, move : BOOLEAN,
                 late : BOOLEAN]
  /\ item \in [there : BOOLEAN, version : Nat, flags : SUBSET Flag]
  /\ {want, mod, at, base} \subseteq [Op -> Nat]
  /\ \A o \in Op : at[o] \in DOMAIN Plan[kind[o]]
  /\ wire \in [Op -> {"idle", "sent", "ok", "nouid", "no", "moved"}]
  /\ noted \in [Op -> BOOLEAN]
  /\ answer \in [Op -> {"none", "succeeded", "failed", "uncertain"}]
  /\ done \in [Op -> SUBSET Write] /\ met \in [Op -> SUBSET Write]
  /\ prepared \subseteq Op /\ misled \subseteq Op

Init ==
  /\ kind \in [Op -> MailKind] \cup [Op -> CalKind]
  /\ server \in [condstore : BOOLEAN, uidplus : BOOLEAN, move : BOOLEAN,
                 late : Late]
  /\ (\A o \in Op : kind[o] \in CalKind) =>
       ~server.condstore /\ ~server.uidplus /\ ~server.move
  /\ item \in {[there |-> b, version |-> 1, flags |-> {}] : b \in BOOLEAN}
  /\ prepared = {} /\ want = [o \in Op |-> 0] /\ mod = want
  /\ at = [o \in Op |-> 1]
  /\ wire = [o \in Op |-> "idle"] /\ noted = [o \in Op |-> FALSE]
  /\ base = [o \in Op |-> 0] /\ answer = [o \in Op |-> "none"]
  /\ done = [o \in Op |-> {}] /\ met = [o \in Op |-> {}] /\ misled = {}

-----------------------------------------------------------------------------
(* Other clients of the same mailbox or calendar.                           *)

\* A flag goes on or off, or the event is written.
Touch(f) ==
  /\ item.there /\ item.version < MaxVersion
  /\ item' = [item EXCEPT !.version = @ + 1,
                          !.flags = IF f \in @ THEN @ \ {f} ELSE @ \cup {f}]
  /\ done' = [o \in Op |-> IF f \in item.flags THEN done[o] \ {f} ELSE done[o]]
  /\ UNCHANGED <<kind, server, local, wire, answer, met, misled>>

\* It is expunged, moved or deleted; or the mailbox is recreated.
Vanish ==
  /\ item.there /\ item' = [item EXCEPT !.there = FALSE]
  /\ UNCHANGED <<kind, server, local, wire, answer, ghost>>

-----------------------------------------------------------------------------
(* Preparing, and what an operation is bound to.                            *)

\* PrepareMailAction, PrepareDraft, PrepareSend: the message is looked at, and
\* its modification sequence kept where the server has one.
ApproveMail(o) ==
  /\ o \notin prepared /\ kind[o] \in MailKind
  /\ kind[o] \in Snapshots => item.there
  /\ prepared' = prepared \cup {o}
  /\ want' = [want EXCEPT ![o] =
       IF kind[o] \in Snapshots /\ server.condstore THEN item.version ELSE 0]
  /\ mod' = want'
  /\ UNCHANGED <<kind, server, item, at, wire, noted, base, answer, ghost>>

\* PrepareCalendarWrite, PrepareCalendarDelete: the ETag is the caller's, of any
\* version that it may have seen.
ApproveEvent(o) ==
  /\ o \notin prepared /\ kind[o] \in CalKind
  /\ prepared' = prepared \cup {o}
  /\ \E v \in IF kind[o] = "create" THEN {0} ELSE 1..item.version :
       want' = [want EXCEPT ![o] = v]
  /\ UNCHANGED <<kind, server, item, mod, at, wire, noted, base, answer, ghost>>

-----------------------------------------------------------------------------
(* How an operation ends: Service.execute and the status it gets.           *)

\* The slip: a batch with no success is plainly failed.
WrappedAfterSuccess(o) == "smtp" \in Before(o) \/ "append" \in Before(o)

\* Errors that execute turns into an uncertainOperationError: those of
\* finishBatchMailAction, of the sent copy and of a draft's cleanup.
Wrapped(o) ==
  \/ kind[o] \in {"mark", "move"}
  \/ "smtp" \in Before(o) \/ "append" \in Before(o)

\* The client returns an error, plain or of one of its uncertain types.
Fail(o, uncertain) ==
  answer' = [answer EXCEPT ![o] =
    IF uncertain \/ Wrapped(o) THEN "uncertain" ELSE "failed"]

Advance(o) ==
  /\ wire' = [wire EXCEPT ![o] = "idle"]
  /\ IF Last(o) THEN answer' = [answer EXCEPT ![o] = "succeeded"] /\ UNCHANGED at
                ELSE at' = [at EXCEPT ![o] = @ + 1] /\ UNCHANGED answer

Runs(o) == o \in prepared /\ answer[o] = "none"

\* Connecting, AUTH, the sender, a recipient or the body fails before the dot
\* after DATA is sent.
SmtpFails(o) == StepOf(o) = "smtp" /\ Fail(o, FALSE)

\* The steps over IMAP: connecting, and LOGIN, come first.
OverImap(o) == StepOf(o) \notin {"smtp", "get", "put", "remove"}

\* Connecting, LOGIN, SELECT, a FETCH, a capability, a literal or ctx.Err()
\* fails. (After one STORE only ctx.Err() is plain; the verdict is the same.)
ImapFails(o) == OverImap(o) /\ Fail(o, StepOf(o) = "verify")

\* The URL, the collection, the document, GET, or connecting fails.
DavFails(o) == StepOf(o) \in {"get", "put", "remove"} /\ Fail(o, FALSE)

\* Something fails before a command that changes anything is complete.
Break(o) ==
  /\ Runs(o) /\ wire[o] = "idle"
  /\ SmtpFails(o) \/ ImapFails(o) \/ DavFails(o)
  /\ UNCHANGED <<kind, server, item, local, wire, ghost>>

\* validateSelectedMessage; SnapshotMessage for a draft update.
Approved(o) == item.there /\ want[o] \in {0, item.version}

Check(o) ==
  /\ Runs(o) /\ StepOf(o) = "check"
  /\ IF Approved(o) THEN Advance(o) ELSE Fail(o, FALSE) /\ UNCHANGED <<wire, at>>
  /\ UNCHANGED <<kind, server, item, prepared, want, mod, noted, base, ghost>>

\* getCalendarObject, and the merge; its ETag is not compared.
Get(o) ==
  /\ Runs(o) /\ StepOf(o) = "get"
  /\ IF item.there THEN Advance(o) /\ base' = [base EXCEPT ![o] = item.version]
                   ELSE Fail(o, FALSE) /\ UNCHANGED <<wire, at, base>>
  /\ UNCHANGED <<kind, server, item, prepared, want, mod, noted, ghost>>

-----------------------------------------------------------------------------
(* A command that changes the provider.                                     *)

\* An addressable APPEND needs UIDPLUS, MOVE needs MOVE.
Able(o) ==
  /\ StepOf(o) = "append" => server.uidplus
  /\ StepOf(o) = "move" => server.move

\* The last byte of the command is sent: the dot after DATA, the end of the
\* literal, the end of the request. Over HTTP/1 the transport calls WroteRequest
\* before it flushes a request that fits its buffer; the end of a larger one can
\* be at the provider before that, and over HTTP/2 any can.
Send(o) ==
  /\ Runs(o) /\ wire[o] = "idle" /\ StepOf(o) \in Write /\ Able(o)
  /\ wire' = [wire EXCEPT ![o] = "sent"]
  /\ noted' = [noted EXCEPT ![o] = kind[o] \in CalKind /\ ~server.late]
  /\ UNCHANGED <<kind, server, item, prepared, want, mod, at, base, answer,
                 ghost>>

WroteRequest(o) ==
  /\ Runs(o) /\ kind[o] \in CalKind /\ wire[o] # "idle" /\ ~noted[o]
  /\ noted' = [noted EXCEPT ![o] = TRUE]
  /\ UNCHANGED <<kind, server, item, prepared, want, mod, at, wire, base, answer,
                 ghost>>

\* The slip: PUT and DELETE are sent without If-Match.
UnguardedWrite(o) ==
  CASE StepOf(o) = "put" /\ kind[o] = "create" -> ~item.there
    [] StepOf(o) \in {"put", "remove", "move"} /\ kind[o] # "create" -> item.there
    [] StepOf(o) \in Flag -> item.there /\ mod[o] \in {0, item.version}
    [] OTHER -> TRUE

\* What a command on the item is conditional on: If-None-Match, If-Match,
\* UNCHANGEDSINCE, and for a MOVE only that there is such a message.
MayWrite(o) ==
  CASE StepOf(o) = "put" /\ kind[o] = "create" -> ~item.there
    [] StepOf(o) \in {"put", "remove"} /\ kind[o] # "create" ->
         item.there /\ item.version = want[o]
    [] StepOf(o) \in Flag -> item.there /\ mod[o] \in {0, item.version}
    [] StepOf(o) = "move" -> item.there
    [] OTHER -> TRUE

Written(o) ==
  CASE StepOf(o) = "put" -> [item EXCEPT !.there = TRUE, !.version = @ + 1]
    [] StepOf(o) \in {"move", "remove"} -> [item EXCEPT !.there = FALSE]
    [] StepOf(o) \in Flag -> [item EXCEPT !.version = @ + 1,
                                         !.flags = @ \cup {StepOf(o)}]
    [] OTHER -> item

\* The provider acts on it, also when the client has stopped waiting.
Act(o) ==
  /\ wire[o] = "sent" /\ MayWrite(o)
  /\ item' = Written(o)
  /\ done' = [done EXCEPT ![o] = @ \cup {StepOf(o)}]
  /\ met' = [met EXCEPT ![o] = @ \cup {StepOf(o)}]
  /\ UNCHANGED <<kind, server, local, answer>>

\* Its answer says so.
Serve(o) ==
  /\ Act(o) /\ UNCHANGED misled
  /\ wire' \in {[wire EXCEPT ![o] = "ok"],
                [wire EXCEPT ![o] = IF StepOf(o) \in {"append", "copy"}
                                    THEN "nouid" ELSE "ok"]}

\* The answer is that of a gateway before a CalDAV server that has acted: 502 or
\* 504, or a redirect. To the client it is a refusal like any other.
Mask(o) ==
  /\ Act(o) /\ kind[o] \in CalKind
  /\ \E reply \in {"no", "moved"} : wire' = [wire EXCEPT ![o] = reply]
  /\ misled' = misled \cup {o}

\* The provider does not act: for a reason of its own, a precondition (412), or
\* a redirect of the request. IMAP says OK when UNCHANGEDSINCE or a missing
\* message kept it from acting.
Decline(o) ==
  /\ wire[o] = "sent"
  /\ \E reply \in {"no", "ok", "moved"} :
       /\ reply = "ok" => ~MayWrite(o) /\ StepOf(o) \in Flag \cup {"move"}
       /\ reply = "moved" => kind[o] \in CalKind
       /\ wire' = [wire EXCEPT ![o] = reply]
  /\ UNCHANGED <<kind, server, item, local, answer, ghost>>

\* Answers that are taken for a refusal: a status after DATA, NO and BAD, 412 and
\* every other code than 2xx.
Final(o) == wire[o] = "no"

Receive(o) ==
  /\ Runs(o)
  /\ \/ wire[o] = "ok" /\ Advance(o)
     \/ wire[o] = "nouid" /\ StepOf(o) = "copy" /\ Advance(o)
     \/ wire[o] = "nouid" /\ StepOf(o) # "copy" /\ Fail(o, TRUE) /\ UNCHANGED <<wire, at>>
     \/ Final(o) /\ Fail(o, FALSE) /\ UNCHANGED <<wire, at>>
  /\ UNCHANGED <<kind, server, item, prepared, want, mod, noted, base, ghost>>

\* net/http follows a redirect of PUT or DELETE with a GET (301, 302, 303), the
\* answer to which is taken for the answer to the write, or repeats the request
\* (307, 308); it refuses one to another origin.
Follow(o) ==
  /\ Runs(o) /\ wire[o] = "moved"
  /\ \/ Advance(o) /\ UNCHANGED noted
     \/ Fail(o, FALSE) /\ UNCHANGED <<wire, at, noted>>
     \/ Fail(o, noted[o]) /\ UNCHANGED <<wire, at, noted>>
     \/ /\ wire' = [wire EXCEPT ![o] = "sent"]
        /\ noted' = [noted EXCEPT ![o] = ~server.late] /\ UNCHANGED <<at, answer>>
  /\ UNCHANGED <<kind, server, item, prepared, want, mod, base, ghost>>

\* The slip: any error of the transport is plain.
NeverWritten(o) == FALSE

\* classifyDataCloseError, classifyAppendWaitError, classifyMutationError: an
\* error that is not an answer of the provider; doCalDAVMutation asks whether
\* the request was written.
MaybeWritten(o) == kind[o] \in CalKind => noted[o]

\* No answer comes: the connection is lost, ctx is done, or, for CalDAV, thirty
\* seconds have passed. It may also never be noticed that none comes.
Lose(o) ==
  /\ Runs(o) /\ wire[o] # "idle" /\ Fail(o, MaybeWritten(o))
  /\ UNCHANGED <<kind, server, item, local, wire, ghost>>

-----------------------------------------------------------------------------
\* The slip: the flags that were fetched are not looked at.
NotLooked(o) == item.there

\* flagMutationApplied; after the last, requestedFlagStateApplied.
Holds(o) ==
  LET asked == Before(o) \cap Flag IN
  IF Last(o) THEN asked \subseteq item.flags
             ELSE Plan[kind[o]][at[o] - 1] \in item.flags

\* fetchMutationState. The next STORE is conditional on what it returns.
Verify(o) ==
  /\ Runs(o) /\ StepOf(o) = "verify"
  /\ \/ ~item.there /\ Fail(o, TRUE) /\ UNCHANGED <<wire, at, mod>>
     \/ item.there /\ ~Holds(o) /\ Fail(o, FALSE) /\ UNCHANGED <<wire, at, mod>>
     \/ /\ item.there /\ Holds(o) /\ Advance(o)
        /\ mod' = [mod EXCEPT ![o] = IF @ = 0 THEN 0 ELSE item.version]
  /\ met' = [met EXCEPT ![o] = @ \cup (item.flags \cap Before(o))]
  /\ UNCHANGED <<kind, server, item, prepared, want, noted, base, done, misled>>

Next ==
  \/ Vanish \/ \E f \in Flag : Touch(f)
  \/ \E o \in Op :
       \/ ApproveMail(o) \/ ApproveEvent(o)
       \/ Break(o) \/ Check(o) \/ Get(o) \/ Send(o) \/ WroteRequest(o)
       \/ Serve(o) \/ Mask(o) \/ Decline(o) \/ Receive(o) \/ Follow(o)
       \/ Lose(o) \/ Verify(o)

Spec == Init /\ [][Next]_vars

-----------------------------------------------------------------------------
\* What the client can know it has written.
Acted == {o \in Op \ misled :
            done[o] # {} /\ (kind[o] \in CalKind => noted[o])}

Promise == INSTANCE ProviderCall WITH effect <- Acted

\* "failed" is only said of an operation of which nothing is done that the
\* client could know of, and nothing will be done, wherever it stopped. It cannot
\* know of a write whose answer is another server's (Mask), or that was made
\* before the transport noted the request (late).
KeepsProviderPromise == Promise!Spec

\* Where WroteRequest precedes the write and the answer is that of the provider,
\* "failed" says that the provider has not been changed, and that no command of
\* the operation is on its way.
FailedMeansNothing ==
  \A o \in Op \ misled : answer[o] = "failed" /\ ~server.late
                           => done[o] = {} /\ wire[o] # "sent"

\* "UncertainError reports a mutating request whose response was lost after the
\* HTTP client accepted it": also where WroteRequest comes late.
LostAnswerIsUncertain ==
  \A o \in Op \ misled :
    answer[o] = "failed" => done[o] = {} /\ wire[o] # "sent"

\* Without the exception for other servers' answers: the code takes a 502 or 504
\* of a gateway for the CalDAV server's refusal.
FailedIsTrue ==
  \A o \in Op : answer[o] = "failed" /\ ~server.late
                  => done[o] = {} /\ wire[o] # "sent"

\* "succeeded" is said of an operation all of whose writes achieved their
\* purpose, if only because another client did the same; but a MOVE and a
\* redirected request are believed without looking.
SuccessIsReal ==
  \A o \in Op : answer[o] = "succeeded" /\ kind[o] \notin CalKind \cup {"move"}
                  => Writes(o) \subseteq met[o]

\* Without the exceptions: every success is of writes that were made.
SuccessIsWritten ==
  \A o \in Op : answer[o] = "succeeded" => Writes(o) \subseteq met[o]

\* Of two writes of an event that were approved on one version at most one is
\* made, and an update is merged with the version it was approved on.
NoLostUpdate ==
  \A o, p \in {x \in Op : kind[x] \in {"update", "delete"} /\ done[x] # {}} :
     /\ want[o] = want[p] => o = p
     /\ kind[o] = "update" => base[o] = want[o]
=============================================================================
