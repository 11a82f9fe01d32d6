----------------------------- MODULE MessageReads -----------------------------
(***************************************************************************)
(* Reading one message, or one of its attachments, live or from the cache. *)
(* A read by default asks first whether the mailbox still has the cached   *)
(* generation (its UIDVALIDITY), then fetches, and falls back on what is   *)
(* cached. What was fetched is cached after the mailbox's generation, each *)
(* in a transaction of its own. A large attachment is read in pieces, by   *)
(* a cursor that names the snapshot in the cache.                          *)
(*                                                                         *)
(* One UID of one mailbox: its content in a generation never changes, and  *)
(* is named by the generation.                                             *)
(***************************************************************************)
EXTENDS Naturals

CONSTANTS
  Reader,   \* reads at once
  MaxGen    \* bound on generations

ASSUME GenAssumption == MaxGen \in Nat \ {0}

VARIABLES
  gen, here,         \* the provider: generation, whether it has the message
  marker,            \* the cached generation, 0 if there is none
  body, file, meta,  \* [1..MaxGen -> 0..MaxGen]: what is cached under the key of
                     \* a generation, 0 for nothing: the message, the bytes of the
                     \* attachment and its description
  lost,              \* ghost: the marker was evicted
  pc, what,          \* [Reader -> ...]: next step; "body" or "file"
  seen,              \* [Reader -> 0..MaxGen], the marker as it was last read
  live,              \* [Reader -> 0..MaxGen], the generation it asked for first
  mismatch,          \* [Reader -> BOOLEAN], confirmedUIDMismatch
  res                \* [Reader -> Result]: what it returns

server == <<gen, here>>
cache  == <<marker, body, file, meta, lost>>
reader == <<pc, what, seen, live, mismatch, res>>
vars   == <<server, cache, reader>>

\* Generations; with 0 where there is none.
Gen  == 1..MaxGen
Mark == 0..MaxGen

\* The snapshot's UIDVALIDITY, the content, the attachment's description, and the
\* piece of the attachment that was read last.
Result   == [key : Mark, of : Mark, meta : Mark, piece : Mark]
NoResult == [key |-> 0, of |-> 0, meta |-> 0, piece |-> 0]

Step == {"idle", "probe", "probed", "ask", "live", "confirm", "snapshot", "fetch",
         "commit", "put", "describe", "fallback", "cached", "described", "message",
         "detail", "returned", "pieces"}

TypeOK ==
  /\ gen \in Gen /\ here \in BOOLEAN /\ marker \in Mark /\ lost \in BOOLEAN
  /\ body \in [Gen -> Mark] /\ file \in [Gen -> Mark]
  /\ meta \in [Gen -> Mark]
  /\ pc \in [Reader -> Step] /\ what \in [Reader -> {"body", "file"}]
  /\ seen \in [Reader -> Mark] /\ live \in [Reader -> Mark]
  /\ mismatch \in [Reader -> BOOLEAN] /\ res \in [Reader -> Result]

Init ==
  /\ gen = 1 /\ here = TRUE /\ marker = 0 /\ lost = FALSE
  /\ body = [g \in Gen |-> 0] /\ file = body /\ meta = body
  /\ pc = [r \in Reader |-> "idle"] /\ what = [r \in Reader |-> "body"]
  /\ seen = [r \in Reader |-> 0] /\ live = [r \in Reader |-> 0]
  /\ mismatch = [r \in Reader |-> FALSE] /\ res = [r \in Reader |-> NoResult]

-----------------------------------------------------------------------------
(* The provider, and what becomes of cache entries.                         *)

Expunge == here /\ here' = FALSE /\ UNCHANGED <<gen, cache, reader>>

\* The mailbox is recreated, and the UID is another message or none.
Renew ==
  /\ gen < MaxGen /\ gen' = gen + 1 /\ here' \in BOOLEAN
  /\ UNCHANGED <<cache, reader>>

\* Expiry, eviction and cache clear take entries one by one.
Evict(g) ==
  /\ \/ body[g] # 0 /\ body' = [body EXCEPT ![g] = 0] /\ UNCHANGED <<file, meta>>
     \/ file[g] # 0 /\ file' = [file EXCEPT ![g] = 0] /\ UNCHANGED <<body, meta>>
     \/ meta[g] # 0 /\ meta' = [meta EXCEPT ![g] = 0] /\ UNCHANGED <<body, file>>
  /\ UNCHANGED <<server, marker, lost, reader>>

EvictMarker ==
  /\ marker # 0 /\ marker' = 0 /\ lost' = TRUE
  /\ UNCHANGED <<server, body, file, meta, reader>>

-----------------------------------------------------------------------------
Goto(r, s) == pc' = [pc EXCEPT ![r] = s]

\* Variables of the code go out of scope.
ForgetSeen(r)  == seen' = [seen EXCEPT ![r] = 0]
ForgetAsked(r) == /\ live' = [live EXCEPT ![r] = 0]
                  /\ mismatch' = [mismatch EXCEPT ![r] = FALSE]
Forget(r) ==
  /\ what' = [what EXCEPT ![r] = "body"] /\ ForgetSeen(r) /\ ForgetAsked(r)
  /\ res' = [res EXCEPT ![r] = NoResult]

\* The first step by mode: a probe by default, none in mode "refresh" nor where
\* the secret does not resolve, no fetch in mode "offline".
Begin(r, w) ==
  /\ pc[r] = "idle" /\ what' = [what EXCEPT ![r] = w]
  /\ Goto(r, "probe") \/ Goto(r, "snapshot") \/ Goto(r, "fallback")
  /\ UNCHANGED <<server, cache, seen, live, mismatch, res>>

\* cachedMailboxUIDValidityFor and mailboxCacheSnapshotWithID: a transaction that
\* reads the marker, in five places.
Following ==
  [probe |-> "probed", ask |-> "live", snapshot |-> "fetch", fallback |-> "cached",
   message |-> "detail"]

ReadMarker(r) ==
  /\ pc[r] \in DOMAIN Following /\ Goto(r, Following[pc[r]])
  /\ seen' = [seen EXCEPT ![r] = marker]
  /\ UNCHANGED <<server, cache, what, live, mismatch, res>>

\* What is cached, by its key: messageCacheKey with the generation.
At(entries, g) == IF g = 0 THEN 0 ELSE entries[g]
Entries(r)     == IF what[r] = "body" THEN body ELSE file

Probe(r) ==
  /\ pc[r] = "probed" /\ Goto(r, IF At(Entries(r), seen[r]) # 0 THEN "ask" ELSE "snapshot")
  /\ ForgetSeen(r) /\ UNCHANGED <<server, cache, what, live, mismatch, res>>

\* The slip: only a read that also fails to fetch is asked about the mismatch.
MismatchIgnored(r) == FALSE

\* confirmedUIDMismatch.
Mismatch(r) == seen[r] # 0 /\ gen # seen[r]

\* The UIDVALIDITY of SELECT's answer.
Selected == gen

\* MailboxUIDValidityContext, or its failure.
AskLive(r) ==
  /\ pc[r] = "live"
  /\ \/ /\ live' = [live EXCEPT ![r] = Selected] /\ Goto(r, "confirm")
        /\ mismatch' = [mismatch EXCEPT ![r] = Mismatch(r)] /\ UNCHANGED seen
     \/ Goto(r, "snapshot") /\ ForgetSeen(r) /\ UNCHANGED <<live, mismatch>>
  /\ UNCHANGED <<server, cache, what, res>>

\* commitMailboxUIDValidity's comparison.
MarkerUnchanged(r) == marker = seen[r]

\* The probe's answer is stored; no error of it counts.
Confirm(r) ==
  /\ pc[r] = "confirm" /\ Goto(r, "snapshot")
  /\ marker' \in {marker, IF MarkerUnchanged(r) THEN live[r] ELSE marker}
  /\ ForgetSeen(r)
  /\ UNCHANGED <<server, body, file, meta, lost, what, live, mismatch, res>>

\* GetContext: one session selects the mailbox and fetches.
Fetch(r) ==
  /\ pc[r] = "fetch" /\ here /\ Goto(r, "commit")
  /\ res' = [res EXCEPT ![r] = [key |-> Selected, of |-> gen, meta |-> gen, piece |-> 0]]
  /\ ForgetAsked(r) /\ UNCHANGED <<server, cache, what, seen>>

\* The read has no result: a failure in mode "refresh", or nothing in the cache.
Fail(r) == Goto(r, "idle") /\ Forget(r)

\* No fetch: the cache is asked, if it is not known to be of another generation.
FetchFails(r) ==
  /\ pc[r] = "fetch"
  /\ \/ Fail(r)
     \/ ~mismatch[r] /\ Goto(r, "fallback") /\ UNCHANGED <<what, seen, live, mismatch, res>>
  /\ UNCHANGED <<server, cache>>

\* Only a result of the generation that was stored with it is cached.
Commit(r) ==
  /\ pc[r] = "commit"
  /\ \/ MarkerUnchanged(r) /\ marker' = res[r].key /\ Goto(r, "put")
     \/ Goto(r, "returned") /\ UNCHANGED marker
  /\ ForgetSeen(r)
  /\ UNCHANGED <<server, body, file, meta, lost, what, live, mismatch, res>>

\* The slip: the key has the generation that is stored now.
KeyOfMarker(r) == IF marker = 0 THEN res[r].key ELSE marker

\* The key has the generation that was fetched.
Key(r) == res[r].key

\* ledger.Put of what was fetched, or its failure.
Put(r) ==
  /\ pc[r] = "put" /\ Goto(r, IF what[r] = "body" THEN "returned" ELSE "describe")
  /\ \/ UNCHANGED <<body, file>>
     \/ what[r] = "body" /\ body' = [body EXCEPT ![Key(r)] = res[r].of] /\ UNCHANGED file
     \/ what[r] = "file" /\ file' = [file EXCEPT ![Key(r)] = res[r].of] /\ UNCHANGED body
  /\ UNCHANGED <<server, marker, meta, lost, what, seen, live, mismatch, res>>

PutDescription(r) ==
  /\ pc[r] = "describe" /\ Goto(r, "returned")
  /\ meta' \in {meta, [meta EXCEPT ![Key(r)] = res[r].meta]}
  /\ UNCHANGED <<server, marker, body, file, lost, what, seen, live, mismatch, res>>

-----------------------------------------------------------------------------
(* From the cache: cachedMessageFor and cachedAttachmentForSnapshot.        *)

ReadCached(r) ==
  LET found == At(Entries(r), seen[r]) IN
  /\ pc[r] = "cached"
  /\ IF found = 0
     THEN Fail(r)
     ELSE /\ res' = [res EXCEPT ![r] = [NoResult EXCEPT !.key = seen[r], !.of = found]]
          /\ Goto(r, IF what[r] = "body" THEN "returned" ELSE "described")
          /\ ForgetSeen(r) /\ UNCHANGED <<what, live, mismatch>>
  /\ UNCHANGED <<server, cache>>

\* The description of the attachment, or else the cached message's.
ReadDescription(r) ==
  LET found == At(meta, res[r].key) IN
  /\ pc[r] = "described" /\ Goto(r, IF found # 0 THEN "returned" ELSE "message")
  /\ res' = [res EXCEPT ![r].meta = found]
  /\ UNCHANGED <<server, cache, what, seen, live, mismatch>>

ReadDetail(r) ==
  /\ pc[r] = "detail" /\ Goto(r, "returned")
  /\ res' = [res EXCEPT ![r].meta = At(body, seen[r])]
  /\ ForgetSeen(r) /\ UNCHANGED <<server, cache, what, live, mismatch>>

\* The slip: the next piece is of whatever is cached now.
SnapshotNow(r) == At(file, marker)

\* cachedAttachmentSnapshotFor: the bytes of the cursor's key, with its digest.
Snapshot(r) == IF At(file, res[r].key) = res[r].of THEN res[r].of ELSE 0

\* The read returns; an attachment has a cursor if its bytes are in the cache.
Return(r) ==
  /\ pc[r] = "returned"
  /\ IF what[r] = "file" /\ Snapshot(r) # 0
     THEN /\ Goto(r, "pieces") /\ res' = [res EXCEPT ![r].piece = res[r].of, ![r].meta = 0]
          /\ ForgetAsked(r) /\ UNCHANGED <<what, seen>>
     ELSE Fail(r)
  /\ UNCHANGED <<server, cache>>

\* The next piece, or "attachment continuation expired; restart the download". The
\* account, which the cursor names too, is the same here, and the description is
\* read again with the bytes, under the same key.
Continue(r) ==
  /\ pc[r] = "pieces"
  /\ IF Snapshot(r) # 0
     THEN /\ res' = [res EXCEPT ![r].piece = Snapshot(r)]
          /\ UNCHANGED <<pc, what, seen, live, mismatch>>
     ELSE Fail(r)
  /\ UNCHANGED <<server, cache>>

\* The caller, or its process, gives up.
Quit(r) == pc[r] # "idle" /\ Fail(r) /\ UNCHANGED <<server, cache>>

Next ==
  \/ Expunge \/ Renew \/ EvictMarker
  \/ \E g \in Gen : Evict(g)
  \/ \E r \in Reader :
       \/ \E w \in {"body", "file"} : Begin(r, w)
       \/ ReadMarker(r) \/ Probe(r) \/ AskLive(r) \/ Confirm(r)
       \/ Fetch(r) \/ FetchFails(r) \/ Commit(r) \/ Put(r) \/ PutDescription(r)
       \/ ReadCached(r) \/ ReadDescription(r) \/ ReadDetail(r)
       \/ Return(r) \/ Continue(r) \/ Quit(r)

Spec == Init /\ [][Next]_vars

-----------------------------------------------------------------------------
\* An entry that is put long after its generation was stored, when another one
\* may be, is the content of the generation that its key names.
EntriesMatchTheirKeys ==
  \A g \in Gen : {body[g], file[g], meta[g]} \subseteq {0, g}

\* A slow read, or a late answer to the probe, never puts an older generation in
\* the place of a newer one that is cached; where that was evicted it may.
MarkerAdvances == [][marker # 0 /\ marker' # 0 => marker' >= marker]_vars

\* A read that was told the mailbox's generation does not fall back on a message
\* of an older one, as long as the stored generation is not evicted.
NeverOlderThanAsked ==
  \A r \in Reader : ~lost /\ pc[r] = "returned" => res[r].of >= live[r]

\* "Attachment continuation keeps original UIDVALIDITY snapshot": the pieces of a
\* download are of one attachment, whatever is fetched and cached between them.
DownloadIsOneSnapshot ==
  \A r \in Reader : pc[r] = "pieces" => res[r].piece = res[r].of

\* An attachment that is returned has the description of its own message.
AttachmentIsOfItsMessage ==
  \A r \in Reader : pc[r] = "returned" /\ what[r] = "file" => res[r].meta \in {0, res[r].of}
=============================================================================
