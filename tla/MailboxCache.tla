----------------------------- MODULE MailboxCache -----------------------------
(***************************************************************************)
(* Paging through one mailbox, live or from the cache, as                  *)
(* Service.SearchMessagesContext does it for one connection, one folder    *)
(* and one unfiltered scope. Every live page is also written to the cache: *)
(* the mailbox's generation (its UIDVALIDITY) by compare-and-set, then the *)
(* snapshot of the scope, then the index of the whole mailbox, each in a   *)
(* transaction of its own. When the provider cannot be reached, a page     *)
(* comes from the cache instead.                                           *)
(*                                                                         *)
(* A message is a pair of generation and UID; the newest has the largest   *)
(* UID, and a page goes from new to old.                                   *)
(***************************************************************************)
EXTENDS Naturals, FiniteSets

CONSTANTS
  Reader,      \* searches that can run at once
  PageSize,    \* messages to a page
  MaxUid,      \* bound on the UIDs of a generation
  MaxGen,      \* bound on generations
  Faults       \* the values that faulty can have

ASSUME BoundAssumption ==
  /\ PageSize \in Nat \ {0} /\ MaxUid \in Nat /\ MaxGen \in Nat \ {0}
  /\ Faults \subseteq BOOLEAN

VARIABLES
  gen, mailbox, next,   \* the provider: generation, UIDs and UIDNEXT
  faulty,               \* whether, in this behaviour, a search or a cache write
                        \* can fail, a search stop halfway, and a cache entry
                        \* expire, be evicted or be cleared
  marker,               \* the cached generation, 0 if there is none
  scoped, index,        \* the cached snapshot of the scope, and the index
  pc, cur,              \* [Reader -> ...]: next step, and pagination cursor
  seen,                 \* [Reader -> Nat], the marker before the live search
  res, merged,          \* [Reader -> ...], its page, and what the scope has now
  got,                  \* [Reader -> SUBSET Message], what its pages returned
  due,                  \* [Reader -> SUBSET Message], there since its first page
  stale                 \* [Reader -> BOOLEAN], some page came from the cache

server == <<gen, mailbox, next, faulty>>
cache  == <<marker, scoped, index>>
reader == <<pc, cur, seen, res, merged, got, due, stale>>
vars   == <<server, cache, reader>>

Message == (1..MaxGen) \X (1..MaxUid)
Uid(m)  == m[2]
Live    == {<<gen, u>> : u \in mailbox}

\* SearchResult; NoResult is an entry that is not there.
Result   == [gen : 1..MaxGen, next : 1..(MaxUid + 1), more : BOOLEAN,
             msgs : SUBSET Message]
NoResult == [gen |-> 0, next |-> 0, more |-> FALSE, msgs |-> {}]

\* mailCursorState: BeforeUID, UIDNext and UIDValidity, 0 where not yet set.
Cursor   == [before : 0..MaxUid, next : 0..(MaxUid + 1), gen : 0..MaxGen]
NoCursor == [before |-> 0, next |-> 0, gen |-> 0]

Step == {"idle", "ready", "done", "seen", "search", "commit", "scoped", "index",
         "page", "cached", "broad", "check"}

TypeOK ==
  /\ gen \in 1..MaxGen /\ next \in 1..(MaxUid + 1)
  /\ mailbox \in SUBSET (1..MaxUid) /\ faulty \in BOOLEAN
  /\ marker \in 0..MaxGen /\ {scoped, index} \subseteq Result \cup {NoResult}
  /\ pc \in [Reader -> Step]
  /\ cur \in [Reader -> Cursor] /\ seen \in [Reader -> 0..MaxGen]
  /\ res \in [Reader -> Result \cup {NoResult}]
  /\ merged \in [Reader -> SUBSET Message] /\ got \in [Reader -> SUBSET Message]
  /\ due \in [Reader -> SUBSET Message] /\ stale \in [Reader -> BOOLEAN]

Init ==
  /\ gen = 1 /\ next \in 1..(MaxUid + 1) /\ mailbox = 1..(next - 1)
  /\ faulty \in Faults
  /\ marker = 0 /\ scoped = NoResult /\ index = NoResult
  /\ pc = [r \in Reader |-> "idle"] /\ cur = [r \in Reader |-> NoCursor]
  /\ seen = [r \in Reader |-> 0] /\ res = [r \in Reader |-> NoResult]
  /\ merged = [r \in Reader |-> {}] /\ got = [r \in Reader |-> {}]
  /\ due = [r \in Reader |-> {}] /\ stale = [r \in Reader |-> FALSE]

-----------------------------------------------------------------------------
(* The provider, and what happens to cache entries.                         *)

Arrive ==
  /\ next <= MaxUid /\ next' = next + 1 /\ mailbox' = mailbox \cup {next}
  /\ UNCHANGED <<gen, faulty, cache, reader>>

Expunge(u) ==
  /\ u \in mailbox /\ mailbox' = mailbox \ {u}
  /\ due' = [r \in Reader |-> due[r] \ {<<gen, u>>}]
  /\ UNCHANGED <<gen, next, faulty, cache, pc, cur, seen, res, merged, got, stale>>

\* The mailbox is recreated: UIDs start again under a new UIDVALIDITY.
Renew(n) ==
  /\ gen < MaxGen /\ gen' = gen + 1
  /\ next' = n + 1 /\ mailbox' = 1..n
  /\ UNCHANGED <<faulty, cache, reader>>

\* Expiry, eviction, cache clear; entries go one by one or together.
Evict ==
  /\ faulty
  /\ marker' \in {marker, 0} /\ scoped' \in {scoped, NoResult}
  /\ index' \in {index, NoResult} /\ cache' # cache
  /\ UNCHANGED <<server, reader>>

-----------------------------------------------------------------------------
(* A page from the provider.                                                *)

Goto(r, s) == pc' = [pc EXCEPT ![r] = s]

NewSearch(r) ==
  /\ cur' = [cur EXCEPT ![r] = NoCursor] /\ got' = [got EXCEPT ![r] = {}]
  /\ due' = [due EXCEPT ![r] = {}] /\ stale' = [stale EXCEPT ![r] = FALSE]

\* The first page, or the page after a cursor.
Begin(r) ==
  /\ Goto(r, "seen")
  /\ \/ /\ pc[r] = "ready" /\ UNCHANGED <<cur, got, due, stale>>
     \/ pc[r] \in {"idle", "done"} /\ NewSearch(r)
  /\ UNCHANGED <<server, cache, seen, res, merged>>

\* mailboxCacheSnapshotWithID.
SeeMarker(r) ==
  /\ pc[r] = "seen" /\ Goto(r, "search") /\ seen' = [seen EXCEPT ![r] = marker]
  /\ UNCHANGED <<server, cache, cur, res, merged, got, due, stale>>

\* The slip: the message of the cursor is returned once more.
AfterOrAtCursor(S, c) ==
  {m \in S : /\ c.before = 0 \/ Uid(m) <= c.before
             /\ c.next = 0 \/ Uid(m) < c.next}

\* The messages that a page after cursor c can have: older than its last one,
\* and none that arrived after the first page.
After(S, c) ==
  {m \in S : /\ c.before = 0 \/ Uid(m) < c.before
             /\ c.next = 0 \/ Uid(m) < c.next}

Newest(S, n) == {m \in S : Cardinality({x \in S : Uid(x) > Uid(m)}) < n}

\* One message more than the page needs is fetched, and kept.
PageOf(S, g, n) ==
  [gen |-> g, next |-> n, more |-> Cardinality(S) > PageSize + 1,
   msgs |-> Newest(S, PageSize + 1)]

\* The slip: the cursor's UIDVALIDITY is not compared.
AnyGeneration(c) == TRUE

\* "mailbox UIDVALIDITY changed; restart pagination".
SameGeneration(c) == c.gen \in {0, gen}

\* postmail.SearchContext, its SELECT, SEARCH and FETCH as one step, for a search
\* without dates on a server without SORT. With SORT no more than PageSize + 1
\* messages are fetched (imap.go:142-162), and if one of them is expunged between
\* SORT and FETCH the page has none to spare and is taken for the last: nothing is
\* claimed here of such servers.
SearchLive(r) ==
  /\ pc[r] = "search" /\ SameGeneration(cur[r]) /\ Goto(r, "commit")
  /\ res' = [res EXCEPT ![r] = PageOf(After(Live, cur[r]), gen, next)]
  /\ due' = [due EXCEPT ![r] = IF cur[r] = NoCursor THEN Live ELSE @]
  /\ UNCHANGED <<server, cache, cur, seen, merged, got, stale>>

\* The search fails, or mode "offline" makes none. Mode "refresh" has no page
\* then, and the caller may try again with the same cursor; otherwise the cache
\* is asked.
SearchFails(r) ==
  /\ pc[r] = "search" /\ (faulty \/ ~SameGeneration(cur[r]))
  /\ Goto(r, "cached") \/ Goto(r, "ready")
  /\ seen' = [seen EXCEPT ![r] = 0]
  /\ UNCHANGED <<server, cache, cur, res, merged, got, due, stale>>

\* The slip: the generation is stored whatever has happened meanwhile.
NothingSeen(r) == TRUE

\* commitMailboxUIDValidity's transform: the marker is what it was before the
\* search.
MarkerUnchanged(r) == marker = seen[r]

CommitMarker(r) ==
  /\ pc[r] = "commit"
  /\ IF MarkerUnchanged(r)
     THEN marker' = res[r].gen /\ Goto(r, "scoped")
     ELSE Goto(r, "page") /\ UNCHANGED marker
  /\ UNCHANGED <<server, scoped, index, cur, seen, res, merged, got, due, stale>>

\* The page as it is cached: a continuation keeps the first page's UIDNEXT.
Fresh(r) ==
  IF cur[r].next = 0 THEN res[r] ELSE [res[r] EXCEPT !.next = cur[r].next]

\* The slip: a continuation replaces the pages before it.
MergedWithoutEarlier(r) == Fresh(r)

\* mergeMailResults: whether there is more is for the later page to say.
Merged(r) == [Fresh(r) EXCEPT !.msgs = @ \cup scoped.msgs]

\* A continuation belongs to the snapshot that is there.
Continues(r) == scoped.gen = res[r].gen /\ scoped.next = Fresh(r).next

\* The first Mutate of cacheMailResultDataWithID. A continuation without the
\* pages before it is marked as incomplete.
CacheScoped(r) ==
  /\ pc[r] = "scoped"
  /\ \/ cur[r].before = 0 /\ scoped' = Fresh(r) /\ Goto(r, "index")
     \/ /\ cur[r].before # 0 /\ scoped = NoResult
        /\ scoped' = [Fresh(r) EXCEPT !.more = TRUE] /\ Goto(r, "index")
     \/ /\ cur[r].before # 0 /\ scoped # NoResult /\ Continues(r)
        /\ scoped' = Merged(r) /\ Goto(r, "index")
     \/ /\ cur[r].before # 0 /\ scoped # NoResult /\ ~Continues(r)
        /\ UNCHANGED scoped /\ Goto(r, "page")
  /\ merged' = [merged EXCEPT ![r] = scoped'.msgs]
  /\ UNCHANGED <<server, marker, index, cur, seen, res, got, due, stale>>

Larger(a, b) == IF a > b THEN a ELSE b

\* The slip: the last page alone takes the place of all of them.
LastPage(r) == res[r].msgs

\* What takes the place of the index's messages when the last page is there.
AllPages(r) == merged[r]

\* The second Mutate: the last page of an unfiltered search replaces the index,
\* but for messages newer than the search; other pages add to it.
CacheIndex(r) ==
  LET newer == {m \in index.msgs : cur[r].next # 0 /\ Uid(m) >= cur[r].next}
  IN
  /\ pc[r] = "index" /\ Goto(r, "page")
  /\ index' =
       IF index.gen # res[r].gen THEN Fresh(r)
       ELSE [Fresh(r) EXCEPT
               !.next = Larger(@, index.next),
               !.msgs = IF res[r].more THEN @ \cup index.msgs
                                       ELSE AllPages(r) \cup newer]
  /\ UNCHANGED <<server, marker, scoped, cur, seen, res, merged, got, due, stale>>

\* The cache cannot be written: the page is returned all the same.
CacheFails(r) ==
  /\ faulty /\ pc[r] \in {"commit", "scoped", "index"} /\ Goto(r, "page")
  /\ UNCHANGED <<server, cache, cur, seen, res, merged, got, due, stale>>

Last(S) == {Uid(m) : m \in {x \in S : \A y \in S : Uid(x) <= Uid(y)}}

\* The slip: the cursor is set to the last message that was fetched.
BeforeNextFetched(r, shown) ==
  IF shown = {} THEN {cur[r].before} ELSE Last(res[r].msgs)

\* The cursor is set to the last message that was shown, if any was.
BeforeNext(r, shown) == IF shown = {} THEN {cur[r].before} ELSE Last(shown)

Forget(r) ==
  /\ res' = [res EXCEPT ![r] = NoResult] /\ merged' = [merged EXCEPT ![r] = {}]
  /\ seen' = [seen EXCEPT ![r] = 0]

\* The page: as many of the messages as those of other connections leave room
\* for. There is a next page if this or another connection has more.
ReturnPage(r) ==
  /\ pc[r] = "page" /\ Forget(r)
  /\ \E k \in 0..PageSize :
       LET shown == Newest(res[r].msgs, k) IN
       /\ got' = [got EXCEPT ![r] = @ \cup shown]
       /\ \/ Goto(r, "ready")
          \/ shown = res[r].msgs /\ ~res[r].more /\ Goto(r, "done")
       /\ \E b \in BeforeNext(r, shown) :
            cur' = [cur EXCEPT ![r] =
              [before |-> b, gen |-> res[r].gen,
               next |-> IF @.next = 0 THEN res[r].next ELSE @.next]]
  /\ UNCHANGED <<server, cache, due, stale>>

-----------------------------------------------------------------------------
(* A page from the cache: cachedMailResult.                                 *)

Take(r, e) == res' = [res EXCEPT ![r] = e] /\ Goto(r, "check")

\* The snapshot of the scope, unless it is incomplete.
ReadScoped(r) ==
  /\ pc[r] = "cached"
  /\ IF scoped = NoResult \/ scoped.more THEN Goto(r, "broad") /\ UNCHANGED res
                                         ELSE Take(r, scoped)
  /\ UNCHANGED <<server, cache, cur, seen, merged, got, due, stale>>

ReadIndex(r) ==
  /\ pc[r] = "broad"
  /\ IF index = NoResult THEN Goto(r, "ready") /\ UNCHANGED res
                         ELSE Take(r, index)
  /\ UNCHANGED <<server, cache, cur, seen, merged, got, due, stale>>

\* What was read counts if it is of the cached generation and the cursor's.
CheckMarker(r) ==
  /\ pc[r] = "check"
  /\ IF marker = res[r].gen /\ cur[r].gen \in {0, res[r].gen}
     THEN /\ res' = [res EXCEPT ![r] =
                       PageOf(After(@.msgs, cur[r]), @.gen, @.next)]
          /\ stale' = [stale EXCEPT ![r] = TRUE] /\ Goto(r, "page")
     ELSE /\ res' = [res EXCEPT ![r] = NoResult]
          /\ Goto(r, "ready") /\ UNCHANGED stale
  /\ UNCHANGED <<server, cache, cur, seen, merged, got, due>>

-----------------------------------------------------------------------------
\* The caller or its process gives up.
Quit(r) ==
  /\ faulty /\ pc[r] \notin {"idle", "done"} /\ Goto(r, "idle")
  /\ Forget(r) /\ NewSearch(r) /\ UNCHANGED <<server, cache>>

Next ==
  \/ Arrive \/ Evict
  \/ \E u \in 1..MaxUid : Expunge(u)
  \/ \E n \in 0..MaxUid : Renew(n)
  \/ \E r \in Reader :
       \/ Begin(r) \/ SeeMarker(r) \/ SearchLive(r) \/ SearchFails(r)
       \/ CommitMarker(r) \/ CacheScoped(r) \/ CacheIndex(r) \/ CacheFails(r)
       \/ ReturnPage(r) \/ ReadScoped(r) \/ ReadIndex(r) \/ CheckMarker(r)
       \/ Quit(r)

Spec == Init /\ [][Next]_vars

-----------------------------------------------------------------------------
\* Whatever arrives, goes, or is written by others between the pages, a search
\* that got all its pages from the provider, one without SORT, has returned every
\* message that was there all the time.
NothingSkipped ==
  \A r \in Reader : pc[r] = "done" /\ ~stale[r] => due[r] \subseteq got[r]

\* No page repeats a message of the pages before it, wherever they came from.
NothingRepeated ==
  \A r \in Reader : pc[r] = "page" => res[r].msgs \cap got[r] = {}

\* The pages of one search show one generation, though some come from the
\* provider and others from the cache, and the mailbox is recreated between.
OneGeneration ==
  \A r \in Reader : pc[r] # "idle" => \A m, n \in got[r] : m[1] = n[1]

\* "a newer mailbox generation was cached while this read was in flight": while a
\* generation is cached, no slow read puts an older one in its place. After an
\* eviction one that saw none may put back an older one than there was before.
MarkerAdvances == [][marker # 0 /\ marker' # 0 => marker' >= marker]_vars

\* "A missing earlier page cannot become an apparently complete scoped
\* snapshot": one without more has all the messages of its search that the
\* mailbox still has.
SnapshotIsComplete ==
  scoped # NoResult /\ ~scoped.more /\ scoped.gen = gen
    => \A m \in Live : Uid(m) < scoped.next => m \in scoped.msgs

\* "The broad atomic index remains available as fallback": caching a page drops
\* no message from the index that the mailbox still has.
KeepsIndex ==
  index # NoResult /\ index' # NoResult /\ index.gen = gen /\ index'.gen = gen
    => index.msgs \cap Live \subseteq index'.msgs
IndexKeepsMessages == [][KeepsIndex]_vars

\* Both, as far as the code keeps them: where no search fails or stops halfway,
\* no entry is lost and no two searches overlap, cacheMailResultDataWithID
\* builds a whole snapshot page by page, and its last page drops nothing from
\* the index. (Another search's first page takes the place of the snapshot.)
QuietSnapshotIsComplete == ~faulty => SnapshotIsComplete
QuietIndexKeepsMessages == [][~faulty => KeepsIndex]_vars
=============================================================================
