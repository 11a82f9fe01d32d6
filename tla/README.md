# Posthouse in TLA+

Posthouse gives people and agents one way to read and write mail and calendars.
It is a Go program that runs as a command line tool, an MCP and REST server, and
a terminal interface, often several processes at once on one encrypted SQLite
database. These modules model the parts of it where interleavings, crashes,
lost answers and stale reads decide whether it is right.

All paths are relative to `src/`; `service.go` is `internal/service/service.go`
and `store.go` is `internal/state/store.go`.

## The system and its parts

| Part | State | Operations | What is hard | What makes it right |
|---|---|---|---|---|
| Prepared operations (`service.go`, `store.go`) | rows of `operations`: status, payload, precondition, times, reservation | prepare, execute, wait, interrupt, purge | callers in several processes, death of the claim's holder, late answers, files and connections that change | one effect per call, truthful outcomes, one answer, what was approved is what is sent |
| State database: keys (`store.go`) | key marker, ciphertexts, recovery row, OS keychain, key in each process | open, first key, write, rekey, promote | two stores that no transaction spans, processes with an old key | one key for all rows, the keychain leads to it |
| State database: entries (`store.go`) | entries and their chunks, row ids | Put, Mutate, Get, Delete, Clear, purge | Get is two statements, row ids are reused | a Get returns a value of its entry |
| State database: limit (`store.go`) | sizes, reservations | admission, Stats, evict | eviction in single statements against other writers | within the limit, results always fit, nothing admitted is refused |
| Mailbox pages (`service.go`, `mail/imap.go`) | cached generation, scoped snapshot, mailbox index, cursors | SearchMessages, Sync, offline search | three cache writes per page, arrivals, expunges, UIDVALIDITY changes, lost entries | nothing skipped or repeated, one generation, complete means complete |
| Message and attachment reads (`service.go`, `mail/message.go`) | bodies and attachments by generation, continuation cursors | GetMessage, GetAttachment | generation and body are two reads | a body belongs to its message |
| Event pages (`service.go`) | event caches by scope and collection, snapshot fingerprint | ListEvents, offline list, Sync | partial sources, list fetched anew for each page | one snapshot per traversal |
| Configuration (`config/store.go`, `filelock`, `safeio`) | configuration file, backup, lock file | load, update, migrate; connection changes clear the cache | several processes, crash between file and cache | no lost update, no cache of a former provider |
| Provider writes (`mail/smtp.go`, `mail/message.go`, `calendar/caldav.go`) | the provider's | send, append, flag, move, delete, create, update | lost answers | "failed" only if nothing happened |
| HTTP guard (`httpauth/auth.go`) | failures and lockouts by client | middleware | check and count in different critical sections | a lockout is enforced, the table is bounded |
| ICS, time zones (`calendar/ics.go`, `timezone.go`) | none | parse, generate, expand, merge | recurrence, overrides | an update keeps what it does not change |
| Policy, selector, cursors (`policy`, `selector`, `pagination`) | none | pure | precedence, scope binding | deny wins, a cursor fits its query only |
| Front ends (`cli`, `mcpserver`, `tui`, `cmd`, `skill`) | views | calls of Service | results that arrive late in the TUI | as Service |
| Discovery (`autoconfig`, `netproxy`) | none | network I/O | - | - |

The front ends call `Service`; `Service` reads the configuration for every call,
keeps one `state.Store` per process, and calls the providers. Processes share the
database, the keychain, the configuration file and the providers, and nothing
else, so a "caller", "reader" or "process" of the modules is a call in any process.

## Modules

| Module | What it is |
|---|---|
| `OperationPromise` | what preparing and executing promises, without callers, clocks, files or configuration |
| `PreparedOperations` | the callers, the rows, the clock, the files and the provider; refines `OperationPromise` |
| `PreparedOperationsProofs` | its theorems, and that it implements `OperationPromise` |
| `StateKeys` | keys of the state database |
| `CacheReads` | chunked entries and the two statements of a Get |
| `StateQuota` | the size limit |
| `StateDatabaseProofs` | the theorems of these three |
| `MailboxCache`, `MailboxCacheProofs` | pages of a mailbox and their cache |
| `ProviderCall` | what the outcome of one write promises, whatever protocol carries it |
| `ProviderDelivery`, `ProviderDeliveryProofs` | SMTP, IMAP and CalDAV writes down to commands and answers; implements `ProviderCall` |
| `ConfigStore`, `ConfigStoreProofs` | the configuration file, its lock and migration, and the cache of a connection that changes |
| `MessageReads`, `MessageReadsProofs` | one message or attachment, live or from the cache, and downloads in pieces |
| `EventPages`, `EventPagesProofs` | pages of events of several sources and their cache |
| `HttpGuard`, `HttpGuardProofs` | lockout of clients and the table that is kept of them |
| `MC*` | small instances for TLC: sets, symmetries |

`MailboxCache` and `MessageReads` have the same marker, the cached UIDVALIDITY of a
mailbox, and treat it alike (`MarkerUnchanged`, `CommitMarker` and `Commit`), as
`commitMailboxUIDValidity` is one function. `PreparedOperations` assumes that a reply
of the provider is truthful; `ProviderDelivery` shows how far the clients make it so.
`ConfigStore` has a read of the cache as one step, which `MessageReads`, `EventPages`
and `MailboxCache` have in detail for one connection.

A definition named after a slip (`ClaimableWithoutStatus`, `LastPage`, ...) stands
before the one it would replace. It is used nowhere in the specifications; putting
it in shows that a property notices.

### PreparedOperations

| Variables | Code |
|---|---|
| `status`, `kind`, `approved`, `bound` | columns of `operations` and the sealed record (`model.PreparedOperation`, digests, precondition) |
| `age`, `ran` | time since CreatedAt and ExecutedAt |
| `file`, `config`, `denied` | attachment file, resolved connection, policy, as they are now |
| `pc`, `tok`, `snap`, `using`, `built`, `part`, `bad`, `verdict` | local variables of one `ExecuteOperation` |
| `applied`, `told` | history: effects at the provider, final statuses returned |

`Begin` to `CheckConnection` are the checks of `ExecuteOperation` in their order,
`ReadForClaim` and `WriteClaim` the read and the conditional UPDATE of
`ClaimOperation`, `Build` and `CallProvider` the serialization and the calls of
`execute`, `Complete` to `Poll` what is recorded and what waiters do. A kind of
operation is told apart by how many calls it makes, whether it goes on after a
failure (`BatchKind`) and whether it carries a file (`FileKind`): "single" stands
for the writes of one call (a calendar event, a draft creation), "batch" for a mail
action on several messages, "send" for writes of two calls (a mail and its sent
copy, a draft update and its cleanup).

The status `"uncertain"` that `waitForOperation` writes is called `"interrupted"`
here so that the properties can tell who wrote it.

A provider call answers ok (it took effect), refused (it did not) or ambiguously.
That the protocol clients classify answers like that is assumed here, and checked in
`ProviderDelivery` (with the exceptions named there). `Prepare` is one step: what
prepare reads of policy, connection and files before its `Put` is what it stores, and a
change during it is one before or after it.

### StateKeys

`marker` is the key-check row of `state_meta`, `rows` the key of each ciphertext,
`recovery` the row `Rekey` leaves for an interrupted promotion, `keychain` the
credential of the OS. `LoadKey` to `ClearRecovery` are the steps of `Open`, with
`serializedMasterKey`, `verifyKey`, `recoverRekeyKey` and `OpenWithKey`; `Rekey` is the
transaction, `Activate` the keychain write, `DropRecovery` the last statement.
`Headless` processes have `POSTHOUSE_CACHE_KEY`. `OneAtATime` restricts the model to
processes that open and rekey one at a time; others may write at any moment. The
specifications of this module and of `CacheReads` are called `KeysSpec` and `ReadsSpec`,
so that `StateDatabaseProofs` can extend them together with `StateQuota`.

### CacheReads

An entry is a slot (namespace and key) with a row id and a value. `Put` reuses
the largest free id as SQLite does without AUTOINCREMENT. A Get is `ReadRow`, then
`ReadChunks` or, when the row has expired, `DropExpired`. `held` records what
values its entry had while it ran.

### StateQuota

Sizes are small numbers. `Put` and `PutOperation` admit and commit; then `CountEntries`
and `CountOperations` are the statements of `Stats`, `Evict` and `NoneLeft` one turn of
the loops of `evict`, `Refuse` its error and what `PutOperation` does about it. That the
result of an operation fits what was reserved for it is a guard here; what is checked is
that the reservations fit. `Abandon` is a death or a cancelled request. `Alone` keeps
everything else still while somebody evicts.

### MailboxCache

One connection, one folder, one unfiltered scope. A message is a generation and a UID.
`gen`, `mailbox`, `next` are the IMAP server; `marker`, `scoped`, `index` the three
cache entries; `cur` is the cursor. A page is `Begin`, `SeeMarker`, `SearchLive`, then
`CommitMarker`, `CacheScoped`, `CacheIndex`, each a transaction, then `ReturnPage`; or,
when the search fails or mode is offline, `ReadScoped`, `ReadIndex`, `CheckMarker` from
the cache. Other connections of the search appear in `ReturnPage` only: they take room
on the page, and can make another page necessary. `Faults` lets searches and cache
writes fail, readers stop, and entries disappear. `SearchLive` is SELECT, SEARCH and
FETCH in one step, of a server without SORT and a search without a BEFORE date; what
arrives or is expunged between the commands does so before or after the step, and a
message that FETCH misses is one that is not there. Messages have distinct times in the
order of their UIDs; the tie-break of equal times is `messageBefore`'s and is not
modelled.

### ProviderDelivery

| Variables | Code |
|---|---|
| `server`, `item` | capabilities of the provider, and whether `WroteRequest` comes late (`late`); the message or event: there or not, version (MODSEQ, ETag), flags |
| `kind`, `want`, `prepared` | kind of the operation and the version in its precondition; those that are prepared |
| `at`, `mod`, `base` | local variables of `execute` and of the clients: how far, the version of the next conditional STORE, the version an update was merged with |
| `wire` | the command that is on its way, or its answer |
| `noted` | the `WroteRequest` flag of `doCalDAVMutation` |
| `answer` | the status that `ExecuteOperation` records |
| `done`, `met` | history: steps whose change is at the provider; steps whose purpose was achieved, by whomever |
| `misled` | history: operations whose write was hidden by the answer of another server |

`ApproveMail` and `ApproveEvent` prepare an operation at any time, with the version of
the message at that moment or an ETag that the caller has seen. `Plan` lists the steps
of each kind as `execute` and the clients make them. `Send` is the last byte of a
command, `Serve` and `Decline` what the server does with it, at any time, `Receive`,
`Follow` and `Lose` what the client makes of the answer or of none, `Verify` the FETCH
after a STORE, `Break` a failure before anything is changed. `Touch` and `Vanish` are
other clients, which set and clear flags. Several operations work on one message or
event. A provider does not use an ETag or MODSEQ again for another content.

Of an answer it is assumed that an SMTP or IMAP server which refuses a command has not
acted on it. An HTTP answer can come from somebody else: `Mask` is a gateway that
answers 502 or 504, or redirects, when the CalDAV server has acted. (One that gives up
before the server acts is taken to answer when it has acted.) The code takes every
status but 2xx for a refusal, so "failed" says nothing about such a write.
`WroteRequest`, by which the code knows that a request may have been acted on, precedes
the write only where HTTP/1 flushes the request after it; over HTTP/2, and with a body
larger than the buffer of the transport, it can come late. Both are exceptions of
`FailedMeansNothing`, and of what counts as an effect in the refinement (`Acted`);
without them the property is violated (`GatewayError`, `LostAnswer`).

### HttpGuard

`table` is `Guard.clients`; a time is kept as how long ago (`age`, `idle`) or how long
still (`left`). `AskLockout`, `Compare`, `NoteFailure` and `NoteSuccess` are the
critical sections of one `Request`, with `pruneLocked` (`Pruned`) and `evictOldest`
(`Evictable`) inside them. Addresses are values: `clientAddress` is not modelled.
`guesses` counts the wrong keys of a client since its window began, whether the table
has them or not: the window begins with the first and is over with the client's lock,
with its right key, or when it has lasted `failureWindow` and the client asks again.
`crowded` marks those of whom other clients' failures have made the full table forget
some (`evictOldest`, or all it has are locked). Of them no number of guesses is
promised, because the code keeps none.

### ConfigStore

| Variables | Code |
|---|---|
| `file`, `backup` | `config.json`, `config.json.v1.bak` |
| `holder` | the lock of `filelock.Exclusive` |
| `pc`, `op`, `seen`, `start` | local variables of a process: what it does, the configuration it loaded last, the one its discovery began with |
| `cache` | entries of the connection by `resolvedCacheID` |
| `intended`, `torn` | history: all saved changes applied one after another; a stop in the middle of the backup |

`Acquire`, `Load`, `WriteBackup`, `Migrate` are `withConfigLock` and `loadUnlocked`;
`Upsert`, `RemoveConnection`, `UpdatePolicy` and `Merge` the changes of
`Store.Update`, with its save and the end of its lock; `Discovered` the answer of a
discovery, which works without the lock; `Clear` the second half of a change of
provider; `Fetch` the cache write of a read. `Quit` is an error or a stop at any step.
One connection stands for each of them: no update relates two, except through the
file, which is replaced as a whole. Its `provider` is what `providerConfigID` digests.

### MessageReads

One UID of one mailbox. `gen` and `here` are the provider; `marker`, `body`, `file` and
`meta` the cache entries `mailbox_uidvalidity`, `message_body`, `attachment` and
`attachment_metadata`, the last three by the generation in their key. A read by default
is `ReadMarker`, `Probe`, `ReadMarker`, `AskLive`, `Confirm`, then `ReadMarker`,
`Fetch`, `Commit`, `Put` (and `PutDescription`), or the fallback `ReadMarker`,
`ReadCached` (and `ReadDescription`, `ReadDetail`); the other modes begin later. Every
access of the database is a step. `Continue` is a later call with the cursor of a large
attachment; the second reading of the description it makes, and its check that the
connection is the same account, are left out (a connection that changes its account is
in `ConfigStore`). The content of a UID does not change within a generation (RFC 3501)
and is named by it.

### EventPages

A source is a connection, a collection one calendar of it with one event or none, which
is all that matters to which events are kept or replaced. `scoped`, `index` and `marked`
are the entries `events`, `event_index` and `event_scope_partial`. A page visits the
sources in order (`ListAll`, `ListPart`, `ListFails`, `Skip`); what one answers goes
through `MarkPartial`, `Look`, `CacheScoped`, `CacheIndex`, `Unmark`, each a transaction
and each of which may be the last (`CacheFails`, `Quit`). `ReadScoped` and `ReadIndex`
are the fallback, `ReturnPage` and `NoPage` the comparison with the fingerprint and the
cut. `Continue` is the next turn of `Sync`, `GetEvent` or any caller, `Retry` that of a
caller that comes with the old cursor after an error. `ReadMark` is the first of the
three reads of the fallback and may fail; what it says is `warned`. `Clear` and
`EvictMark` happen at any moment. A feed answers as a whole, so that a listing of it is
`ListAll`.

Three variables are history. `steady` says that a traversal has had no reason to be sent
back to its start, and `stale` of which sources its list has the cached events: a change
of those is a reason, and so is an answer of such a source. `disturbed` has the sources
whose note that the cached list is partial cannot be relied on: two listings were at
what is cached of the source at once, or the note was cleared or evicted under one, or
could not be read. A listing that is alone at the source and writes the note, or stores
a whole list, settles it again. Bounds: one event per collection, and events of the
collections in `Changing` only.

## What TLC checks

| Run | Bounds | Shows |
|---|---|---|
| `Operations` | 1 token, 2 callers, 3 kinds, 2 parts, 2 contents, 2 connections; fair callers and clock, somebody asks again | no effect twice, truthful outcomes, one answer, approved bytes and connection; refinement of `OperationPromise`; only the provider keeps a call from returning, no claim stays executing |
| `ProviderDelivery` | 2 operations of any kinds on one item, others write while its version is below 3, all capabilities, `WroteRequest` in time or late, answers by the server or another | "failed" is said only if nothing happened or will (with the two exceptions above), "succeeded" only of what is there; no lost update; refinement of `ProviderCall` |
| `StateOneKey` | 3 processes, 1 headless, 3 keys, 2 rows | one key for all rows |
| `StateRecovery` | 2 processes, one at a time, 3 keys; fair starts | the keychain leads to the key after a stop at any step, and an interrupted promotion is completed |
| `CacheReads` | 2 slots, 3 values, 2 readers, 3 row ids | no foreign bytes |
| `QuotaShared` | 2 writers, 3 entries of 3 kinds, 2 tokens | within the limit, reservations always fit |
| `MailPages` | pages of 1; by `Shape`: 1 reader, 2 UIDs, 2 generations, faults; 1 reader, 4 UIDs, 2 generations, no faults; 2 readers, 3 generations, empty mailbox, faults | nothing skipped, nothing repeated, generations not mixed; while a generation is cached no older one takes its place; without faults complete snapshots are complete, the index keeps its messages |
| `MessageReads` | 2 readers, 2 generations | entries are of the generation in their key, nothing older than asked, one snapshot per download |
| `EventPages` | 1 traversal, a CalDAV account with 2 collections around a feed, pages of 1; fair listings | pages of one list, sent back only with cause, a partial list is given with its warning unless its source is disturbed, every traversal ends |
| `ConfigStore` | 2 processes, 2 providers, 1 folder | no lost update, no mixed accounts, the backup precedes the migration, no entry of another account is served |
| `HttpGuard` | 2 requests, 3 clients, 2 tracked, 2 failures, window 1, lockout 2; fair handlers and clock | guesses of who is not crowded out bounded, table bounded, no lock evicted, every lock ends |
| `EmptySnapshot` | 1 caller, 3 contents | violated, see below |

The bounds are the smallest at which what the property is about happens: two callers
race for a claim, or one dies with it and the other waits; two calls let the first
succeed and the second fail; the first key, the key of an interrupted rekey and another
candidate are three; three row ids are one more than two entries need. A page of one
message fetches two, so two UIDs let one message be shown and the other be held back,
expunged or arrive between the pages, and four give a search a first, two middle and a
last page. Three generations let a marker be lost, renewed and put back. Other clients
that write up to the third version do so twice before the first operation writes, or
once after it: before, between or after the GET of one and the write of the other, and
after a STORE and before its FETCH. Three clients for a table of two make one come when
it is full of locked clients, of free ones, or of both. Two providers and two processes
let an account be changed and changed back while another process reads or discovers. Two
collections on either side of a feed let a listing be partial, and the second source
fail between the events of the first. In the shape of `MailPages` with two readers the
mailbox is empty, and what they can mix up is the marker and the cursors' generations;
with messages, `OneGenerationOnly` below covers any number of readers. Ages stop
counting at the last value a guard compares, so no run bounds the length of a behaviour.

Three runs have a CONSTRAINT. `OneEdit` (`Operations`): of policy, file and connection
at most one has changed at any time; the three are compared by separate checks, so each
check meets its change, and the theorems below cover all of them at once, several tokens
(one of which purges another's row) and any number of callers. `Shape` (`MailPages`):
the three cases of the table in one run; each property has the case it can fail in, as
its slip shows. `OnlyWhatIsAskedFor` (`ProviderDelivery`) drops the initial states with
a capability that neither operation asks for, which repeat others, and `FewVersions`
cuts an event that is created, deleted and created again without end. `ProviderDelivery`
does not check deadlock, since its operations end. In `HttpGuard`, `Window` is short
because an age counts only to one tick beyond it.

### Further configurations

These repeat a question of the table at other bounds or show a disagreement, and are run
by hand (`tlc -config X.cfg MC...`):

| Configuration | Module | Shows |
|---|---|---|
| `QuotaAlone` | `MCStateQuota` | 1 writer: nothing admitted is refused; order of eviction |
| `LateClaim` | `MCPreparedOperations` | violated, see below |
| `StateRace`, `StateHeadless` | `MCStateKeys` | violated, see below |
| `CacheTornRead` | `MCCacheReads` | violated, see below |
| `QuotaRefusal` | `MCStateQuota` | violated, see below |
| `MailSnapshot`, `MailIndex` | `MCMailboxCache` | violated, see below |
| `LostAnswer`, `GatewayError`, `BelievedSuccess` | `MCProviderDelivery` | violated, see below |
| `HttpLock` | `MCHttpGuard` | violated, see below |
| `ConfigFolders`, `ConfigBackup` | `MCConfigStore` | violated, see below |
| `MixedAttachment` | `MCMessageReads` | violated, see below |
| `EventRace` | `MCEventPages` | violated, see below |

### Fairness

`FairSpec` of `PreparedOperations`: time passes, and a call that can go on by itself
does (`ProceedLocally`; goroutines are scheduled). A call of the provider need never
end: the SMTP and IMAP clients clear the deadline once they are connected
(`smtp.go:208`, `225`, `imap.go:424`), and only CalDAV requests have a timeout
(`caldav.go:567`). So `OnlyTheProviderHoldsACall` says that whoever is elsewhere gets to
the end or to the provider, and `EveryClaimIsDecided` holds also where a claim's holder
hangs there for ever. Nobody has to prepare, begin or fail. `RetrySpec`, which
`Operations` uses, adds a caller who asks again and a completion that is not refused by
the store for ever; without either an interrupted claim rightly stays executing.
`FairKeysSpec`, which `StateRecovery` uses: Posthouse is started again and again,
commands end, and the keychain does not fail every time. `FairSpec` of `HttpGuard`:
handlers run to their end and time passes; that requests come is not assumed, and a lock
ends while they do. `FairSpec` of `EventPages`: a listing that is under way goes on and
its caller follows the cursor, as `Sync` and `GetEvent` do; a caller may also give up.
Here sources answer: a listing of events is a CalDAV or feed request, which has a
timeout. The other runs assume no fairness.

### Disagreements

Each of these configurations checks one property that a document, a comment or an error
message states, or that the neighbouring code relies on, and the code does not keep:

| Configuration | Property | What happens |
|---|---|---|
| `EmptySnapshot` | `ExecutesApprovedBytes` | the snapshot of an empty attachment is lost in JSON (`omitempty`) and the path is read again after the digest |
| `LateClaim` | `NoClaimAfterExpiry` | expiry is compared before slow checks and not at the claim |
| `StateRace`, `StateHeadless` | `Recoverable`, `RecoveryKept` | `Open` deletes a recovery row that is still needed (`design.md:13`: "startup completes that promotion after an interruption") |
| `CacheTornRead` | `FoundWasStored` | an entry deleted between the statements of a Get is found empty |
| `QuotaRefusal` | `AdmittedWritesStay` | an eviction fails because another one was faster |
| `MailSnapshot` | `SnapshotIsComplete` | a snapshot without its first page is marked complete by its last (`service.go:2695-2697`) |
| `MailIndex` | `IndexKeepsMessages` | the last page drops messages from the index |
| `LostAnswer` | `LostAnswerIsUncertain` | over HTTP/2, or with a body larger than its buffer, the transport reports the request written after it is sent; an answer lost in between is "failed" though the event is written (`caldav.go:31-32`) |
| `GatewayError` | `FailedIsTrue` | a gateway's 502 or 504 after the event is written is reported as "failed" (`caldav.go:246-248`, `288-290`; the server's own response is lost, for which `caldav.go:31-32` has "uncertain") |
| `BelievedSuccess` | `SuccessIsWritten` | a MOVE of a message that is gone is answered OK, and a redirected PUT or DELETE is followed by a GET whose answer counts as its own |
| `HttpLock` | `LockHolds` | a guess that was let in before the lock and is noted after the window ends the lock early (`auth.go:190-194`) |
| `ConfigFolders` | `FoldersKept` | a folder configured while a discovery is under way is overwritten by it (`service.go:2451-2454`; `config/store.go:100-101`: "Update serializes a complete load-modify-save transaction") |
| `ConfigBackup` | `BackupIsWhole` | a backup that was interrupted is taken for one by the next start (`INSTALLATION-AND-USAGE-GUIDE.md:130`: "migrated atomically to v2 on load and backed up") |
| `MixedAttachment` | `AttachmentIsOfItsMessage` | an attachment whose description was evicted is described by the message of a newer generation (`service.go:3193`) |
| `EventRace` | `PartialIsMarked` | the note that the list is partial is cleared or evicted between its writing and the storing of the partial list; of two listings, one also deletes the note of the other |

## What is proved

TLAPS proves these for all values of the constants that satisfy the `ASSUME`s.

* `PreparedOperationsProofs`: `TypeCorrect`, `Invariance`, `NeverTwice`,
  `TruthfulOutcomes`, `OneAnswer`, `BoundExecution`. The properties are not inductive:
  that a second caller cannot call the provider needs that a claim has one owner
  (`ClaimIsExclusive`), that "failed" is true needs to know how far the owner has got
  (`CallsInOrder`) and that nothing precedes the claim (`NothingBeforeClaim`), that an
  answer is final needs that nobody owns the claim any more (`AnswerEndsClaim`), and
  that what is sent was approved needs what the checks have established so far
  (`BindingsHold`). `IInv` is their conjunction; each action has one lemma. `Refinement`
  maps every step to one of `OperationPromise` or to a stutter, from the same invariant.
* `ProviderDeliveryProofs`: `TypeCorrect`, `FailuresAreTrue`, `SuccessesAreReal`,
  `UpdatesAreNotLost`, and `Implements`, that every step maps to one of `ProviderCall`
  or to a stutter (`FailuresAreTrue` and `Implements` with the two exceptions above).
  `IInv` says for each operation where its command can be
  (`WireInOrder`, `RequestNoted`) and what is done by then (`DoneInOrder`); that a
  failure stays true (`FailureIsFinal`), since a command that is on its way could still
  be served; which parts have been met (`MetSoFar`, `FlagsAreSet`), on which
  `SuccessMet` rests; and for all of them that once an update or a deletion is made, the
  version they were approved on is not there (`VersionIsSpent`, `BaseIsApproved`).
  `PlanTable` lists the steps at which an operation can be, in place of an induction
  over its plan.
* `StateDatabaseProofs`, keys: `AlwaysOneKey` from `KeyInv` (before there is a marker
  the rows have one key, and whoever is about to write the marker has it), and
  `KeychainLeads`, which assumes `OneAtATime` and no headless process, as `StateRace`
  and `StateHeadless` show it must. Chunks: `OwnBytesOnly` from `Watched`.
* `StateDatabaseProofs`, size limit: `QuotaTypes`, `ReservationsAlwaysFit` and
  `StateBounded`, for any number of writers. That some writer is evicting while the
  state is too large is not inductive, as it may have counted too early: `Attended`
  says that some writer is `Alert`, which has yet to count, or counted no less than
  there is, or has found too much already, or that one was interrupted.
  `AdmittedWritesAreKept` and `EvictsInOrder` assume one writer, the first also that
  nothing else changes the state meanwhile, as `QuotaRefusal` shows that two writers
  do refuse what was admitted; their invariants (`Exact`, `Exhausted`) say what the
  writer's statistics are worth. Sums are folds of the community modules. What
  the proofs need of them (the step without one element, that they are numbers, monotone
  and additive) is proved without an induction rule: were a statement wrong of some
  set, it would be wrong of a smallest one (`LeastBad`, from the well-foundedness of
  strict inclusion), and that one contradicts its own step.
* `MailboxCacheProofs`: `TypeCorrect`, `GenerationsAdvance`, `NoRepetition`,
  `OneGenerationOnly`, `NoneSkipped`, from `NotAhead` (a page is not behind the marker
  its reader saw), `Divided` (the cursor divides what was shown from what can come),
  `Unmixed` (entries and pages name the generation of all their messages) and `Kept`
  (what was there all the time and has not been shown is on the page or older than all
  of it, or still to be fetched). `GenerationsAdvance` is about markers that are cached:
  after an eviction a slow search that saw none may commit an older generation than the
  one that was evicted, as the compare-and-set has nothing to compare with. That a page
  of the newest messages leaves out only older ones is counted in `PageOrOlder`, with
  the library's facts on cardinalities. `LoneSnapshotIsComplete` and `LoneIndexKeeps`
  assume `Lone`, that searches do not overlap, and are about behaviours without faults;
  `MailSnapshot` and `MailIndex` show that they need the latter, and two readers without
  faults that they need the former: the first page of one search takes the place of the
  other's snapshot. `QuietInv` says that the snapshot follows the cursor
  (`SnapshotFollows`), has the page once it is cached (`PageIsCached`), and that a page
  from the provider has all that is left or the newest of it (`WholePage`).
* `MessageReadsProofs`: `TypeCorrect`, `EntriesMatch`, `NothingOlder`, `OneSnapshot`,
  `MarkerOnlyAdvances`. A late `Put` is harmless because what is to be put has the key
  it was fetched with; that nothing older is returned needs that a reader which was told
  of a mismatch cannot reach the cache, and that the marker never passes the provider.
  `MarkerOnlyAdvances`, too, is about a marker that is cached.
* `ConfigStoreProofs`: `TypeCorrect`, `NothingLost`, `CollectionsStay`, `BackupFirst`,
  `OwnAccount`. `UpdatesKept` needs `LockIsHeld` (who is between load and save has the
  lock) and `LoadedIsCurrent` (what it loaded is still in the file); that late clears do
  no harm needs only `OwnEntries`: every entry is of the account in its key.
* `HttpGuardProofs`: `TypeCorrect`, `TableBounded`, `LocksKept`, for any set of client
  addresses, from `Bounded` (the table is finite and within its limit), and
  `GuessesBounded` for finitely many requests at once. A request that was admitted
  has yet to note its failure, so the two numbers are bounded together
  (`CountsAreBounded`); `LockedAtLimit` (who is not locked has failures left) is what
  admits one more. That the failures in the table are all the guesses of a client that
  is not crowded out is `AllAreCounted`.
* `EventPagesProofs`: `TypeCorrect`, `OneList`, `RestartsHaveCause` and
  `PartialListsAreMarked`, for any listers, connections and collections. `Placed` says
  where a lister is and whose answer it holds. `Shown` says that the pages so far are
  the part of the snapshot up to the cursor's event; a page adds the next ones, and the
  event it names is the last of them (`LatestOf`, `PageOf`). `SteadyPages` says that a
  traversal that has had no reason to start again has got, at every source it has
  visited, exactly what the snapshot has of it (`Part`, `Upto`), from the source itself
  or from what is cached and has not changed, and has failed only at sources that had
  failed before; so its list is again the snapshot. `MarkedInTime` follows the note
  through the transactions of one source that is not disturbed: before a partial list
  can be stored the note is there, and it is deleted only when a whole one has been
  stored. `Alone` says that two listings at one source have disturbed it.

The type invariants of most modules are left to their `TypeCorrect`; `ProviderDelivery`
and `QuotaShared` check theirs as well. `MarkerOnlyAdvances` needs no run beside that of
`MarkerAdvances` in `MailPages`.

TLC only: liveness and ENABLED, which the prover has no means for:
`OnlyTheProviderHoldsACall`, `EveryClaimIsDecided`, `PromotionCompletes`, `LockEnds`,
`TraversalEnds`. Besides them, what is wrong without a hypothesis (the disagreements
above) has no theorem, and `SnapshotIsComplete` and `IndexKeepsMessages` have theirs
under the hypotheses of `QuietSnapshotIsComplete` and `QuietIndexKeepsMessages`.

## What could follow

An instance of `EventPages` with two traversals, which the theorems cover but no run; a
refinement of `EventPages` to an abstract traversal, as `PreparedOperations` has with
`OperationPromise`; SELECT, SEARCH and FETCH of `MailboxCache` as steps of their own,
and the window that a server with SORT is asked for.

## Not modelled

* Network I/O and discovery documents (`autoconfig`, `netproxy`): sockets and parsing,
  with no state of their own.
* Front ends (`cli`, `mcpserver`, `tui`, `cmd`, `skill`): argument decoding and printing
  around calls of `Service`. The terminal interface starts calls in the background; its
  code is a sequence of callbacks of one goroutine, and what it calls is modelled.
* The MIME and ICS formats and calendar arithmetic (`calendar/ics.go`, `timezone.go`,
  `mail/message.go` parsing): functions of strings, whose model would repeat the code.
* Policy, selectors and the encoding of cursors: pure functions without a state. That a
  policy may change at any moment is in `PreparedOperations` and `ConfigStore`.
* Validation of configuration fields, secrets and the keychain beyond the state key.
* Text search, the merge of several connections' messages, equal timestamps.
* Encryption itself (a ciphertext is what opens under its key and its label), and
  SQLite's isolation, which is assumed: transactions are atomic and statements of one
  connection see what was committed before them. The file system's rename is atomic.
