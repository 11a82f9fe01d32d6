------------------------------ MODULE EventPages ------------------------------
(***************************************************************************)
(* ListEventsMode: pages of the events of several sources. Every page asks *)
(* all sources again, except those that failed before, and is cut from the *)
(* same list as the first one or not at all. What a source answers is also *)
(* cached, in several transactions: that it answered for some collections  *)
(* only, the scope's list, the source's index, and that it is whole again. *)
(* A source that fails is replaced by what is cached of it, in three reads.*)
(*                                                                         *)
(* A collection has one event, named like it, or none; events are sorted   *)
(* by that name. The scope is that of all collections without a query.     *)
(***************************************************************************)
EXTENDS Naturals, FiniteSets

CONSTANTS
  Lister,      \* traversals at once
  NSources,    \* connections, 1..NSources in the order of their IDs
  CalDAV,      \* those that are not feeds, and can answer in part
  Owner,       \* [1..n -> 1..NSources]: the connection of a collection
  Changing,    \* bound: collections whose event comes and goes, gets too old in
               \* the index, and is listed alone
  PageSize,
  None         \* no cache entry, no cursor

Source     == 1..NSources
Collection == DOMAIN Owner

ASSUME SourceAssumption ==
  /\ NSources \in Nat \ {0} /\ CalDAV \subseteq Source /\ PageSize \in Nat \ {0}
  /\ Collection \subseteq Nat \ {0} /\ IsFiniteSet(Collection)
  /\ Owner \in [Collection -> Source] /\ Changing \subseteq Collection

VARIABLES
  has,      \* SUBSET Collection: those that have their event
  marked,   \* [Source -> BOOLEAN]: event_scope_partial
  scoped,   \* [Source -> Cached or None]: the scope's list of events
  index,    \* [Source -> SUBSET Collection or None]: event_index
  disturbed, \* ghost, SUBSET Source: while a listing was at what is cached of
             \* it, another one was too, its mark was cleared or evicted, or
             \* could not be read
  pc, at,   \* [Lister -> ...]: next step, and the source it is at
  got,      \* [Lister -> Answer]: that source's answer
  warned,   \* [Lister -> BOOLEAN]: that what is cached of it is partial
  list,     \* [Lister -> SUBSET Collection]: the events of the sources so far
  failing,  \* [Lister -> SUBSET Source]: failed, and the failures of this page
  failed,   \* [Lister -> SUBSET Source]: the cursor's Failed
  snap,     \* [Lister -> SUBSET Collection or None]: the cursor's Snapshot
  after,    \* [Lister -> Nat]: the event the cursor names, 0 for the first page
  shown,    \* ghost, [Lister -> SUBSET Collection]: what its pages had
  steady,   \* ghost, [Lister -> BOOLEAN]: none of the causes has come about that
            \* RestartHasCause allows
  stale     \* ghost, [Lister -> SUBSET Source]: as long, sources whose part of the
            \* first page's list is the cached one

source == <<has>>
cache  == <<marked, scoped, index, disturbed>>
answer == <<pc, at, got, warned, list, failing>>
cursor == <<failed, snap, after, shown, steady, stale>>
vars   == <<source, cache, answer, cursor>>

\* Events, and the collections that were listed successfully; a cached list of
\* events, and (a ghost) whether it began as a listing of all collections.
Answer   == [events : SUBSET Collection, covers : SUBSET Collection]
Cached   == [events : SUBSET Collection, whole : BOOLEAN]
NoAnswer == [events |-> {}, covers |-> {}]

ASSUME NoneAssumption ==
  (\A S \in SUBSET Collection : S # None) /\ (\A e \in Cached : e # None)

Of(s) == {c \in Collection : Owner[c] = s}

Step == {"idle", "list", "mark", "look", "scoped", "index", "unmark", "cached",
         "exact", "broad", "page", "ready", "done", "changed", "down"}

TypeOK ==
  /\ has \subseteq Collection /\ marked \in [Source -> BOOLEAN]
  /\ scoped \in [Source -> Cached \cup {None}]
  /\ index \in [Source -> (SUBSET Collection) \cup {None}]
  /\ \A s \in Source : index[s] # None => index[s] \subseteq Of(s)
  /\ disturbed \subseteq Source
  /\ pc \in [Lister -> Step] /\ at \in [Lister -> 1..(NSources + 1)]
  /\ got \in [Lister -> Answer] /\ warned \in [Lister -> BOOLEAN]
  /\ list \in [Lister -> SUBSET Collection]
  /\ failing \in [Lister -> SUBSET Source] /\ failed \in [Lister -> SUBSET Source]
  /\ snap \in [Lister -> (SUBSET Collection) \cup {None}]
  /\ after \in [Lister -> Collection \cup {0}]
  /\ shown \in [Lister -> SUBSET Collection]
  /\ stale \in [Lister -> SUBSET Source] /\ steady \in [Lister -> BOOLEAN]

Init ==
  /\ has \in {H \in SUBSET Collection : Collection \ Changing \subseteq H}
  /\ marked = [s \in Source |-> FALSE]
  /\ scoped = [s \in Source |-> None] /\ index = [s \in Source |-> None]
  /\ disturbed = {}
  /\ pc = [l \in Lister |-> "idle"] /\ at = [l \in Lister |-> 1]
  /\ got = [l \in Lister |-> NoAnswer] /\ warned = [l \in Lister |-> FALSE]
  /\ list = [l \in Lister |-> {}] /\ failing = [l \in Lister |-> {}]
  /\ failed = [l \in Lister |-> {}] /\ snap = [l \in Lister |-> None]
  /\ after = [l \in Lister |-> 0] /\ shown = [l \in Lister |-> {}]
  /\ stale = [l \in Lister |-> {}] /\ steady = [l \in Lister |-> TRUE]

-----------------------------------------------------------------------------
(* The sources, and what becomes of cache entries.                          *)

\* The traversals of the listers L are no longer steady.
Shaken(L) ==
  /\ steady' = [l \in Lister |-> steady[l] /\ l \notin L]
  /\ stale'  = [l \in Lister |-> IF l \in L THEN {} ELSE stale[l]]
  /\ UNCHANGED <<failed, snap, after, shown>>

\* An event is written or deleted.
Change(c) ==
  /\ has' = IF c \in has THEN has \ {c} ELSE has \cup {c}
  /\ Shaken({l \in Lister : Owner[c] \notin failing[l] \cup stale[l]})
  /\ UNCHANGED <<cache, answer>>

\* A change of what is cached is one to the traversals that have it in their list.
CacheShakes ==
  Shaken({l \in Lister : \E s \in stale[l] :
            scoped'[s] # scoped[s] \/ index'[s] # index[s]})

\* A listing has begun to cache what s gave, or to read what is cached of s. Of a
\* feed no part is given.
Busy(l, s) ==
  /\ s \in CalDAV /\ at[l] = s
  /\ pc[l] \in {"mark", "look", "scoped", "index", "unmark", "exact"}

\* Eviction and expiry of the scope's list or of the index.
Evict(s) ==
  /\ \/ scoped' = [scoped EXCEPT ![s] = None] /\ UNCHANGED index
     \/ index' = [index EXCEPT ![s] = None] /\ UNCHANGED scoped
  /\ <<scoped, index>>' # <<scoped, index>> /\ CacheShakes
  /\ UNCHANGED <<source, marked, disturbed, answer>>

\* Store.evict takes what is of kind "sync_state" when it has found no lists; as it
\* is several statements, there may be one again.
EvictMark(s) ==
  /\ marked[s] /\ marked' = [marked EXCEPT ![s] = FALSE]
  /\ disturbed' = IF scoped[s] # None \/ \E l \in Lister : Busy(l, s)
                  THEN disturbed \cup {s} ELSE disturbed
  /\ UNCHANGED <<source, scoped, index, answer, cursor>>

\* A clear of the cache, or of a connection's part of it.
Clear(S) ==
  /\ scoped' = [s \in Source |-> IF s \in S THEN None ELSE scoped[s]]
  /\ index'  = [s \in Source |-> IF s \in S THEN None ELSE index[s]]
  /\ marked' = [s \in Source |-> marked[s] /\ s \notin S]
  /\ disturbed' = disturbed \cup {s \in S : \E l \in Lister : Busy(l, s)}
  /\ CacheShakes /\ UNCHANGED <<source, answer>>

\* An event of the index gets too old to be read; an index with nothing else
\* cannot be read at all.
Age(c) ==
  LET s == Owner[c] IN
  /\ index[s] # None /\ c \in index[s]
  /\ index' = [index EXCEPT ![s] = IF @ = {c} THEN None ELSE @ \ {c}]
  /\ UNCHANGED <<source, marked, scoped, disturbed, answer>> /\ CacheShakes

\* A listing of one collection: in the index it replaces that collection.
OtherScope(c) ==
  LET s == Owner[c] IN
  /\ index' = [index EXCEPT ![s] = (IF @ = None THEN {} ELSE @ \ {c}) \cup (has \cap {c})]
  /\ UNCHANGED <<source, marked, scoped, disturbed, answer>> /\ CacheShakes

-----------------------------------------------------------------------------
Goto(l, s) == pc' = [pc EXCEPT ![l] = s]

\* The call has ended, or begins, with the failures that its cursor has.
Restart(l) ==
  /\ at' = [at EXCEPT ![l] = 1] /\ list' = [list EXCEPT ![l] = {}]
  /\ got' = [got EXCEPT ![l] = NoAnswer] /\ warned' = [warned EXCEPT ![l] = FALSE]
  /\ failing' = [failing EXCEPT ![l] = failed'[l]]

\* The next call of ListEventsMode.
NewPage(l) == Goto(l, "list") /\ Restart(l)

\* No cursor yet, or any more.
NoCursor(l) ==
  /\ failed' = [failed EXCEPT ![l] = {}] /\ snap' = [snap EXCEPT ![l] = None]
  /\ after' = [after EXCEPT ![l] = 0] /\ shown' = [shown EXCEPT ![l] = {}]
  /\ steady' = [steady EXCEPT ![l] = TRUE] /\ stale' = [stale EXCEPT ![l] = {}]

\* There is no cursor to follow: the last page, or an error.
Ended == {"idle", "done", "changed", "down"}

Begin(l) ==
  /\ pc[l] \in Ended /\ NoCursor(l) /\ NewPage(l) /\ UNCHANGED <<source, cache>>

\* GetEvent and Sync pass the cursor on, until there is none.
Continue(l) ==
  /\ pc[l] = "ready" /\ UNCHANGED cursor /\ NewPage(l) /\ UNCHANGED <<source, cache>>

\* After an error a caller may come with the same cursor again.
Retry(l) ==
  /\ pc[l] \in {"changed", "down"} /\ snap[l] # None
  /\ UNCHANGED cursor /\ NewPage(l) /\ UNCHANGED <<source, cache>>

AtLast(l) == at[l] = NSources

\* The source at hand has given these events, or none: on to the next source.
Take(l, events) ==
  /\ list' = [list EXCEPT ![l] = @ \cup events] /\ at' = [at EXCEPT ![l] = @ + 1]
  /\ Goto(l, IF AtLast(l) THEN "page" ELSE "list")
  /\ got' = [got EXCEPT ![l] = NoAnswer] /\ warned' = [warned EXCEPT ![l] = FALSE]

\* The slip: a source that failed is asked again.
FailedBeforeForgotten(l) == FALSE

FailedBefore(l) == snap[l] # None /\ at[l] \in failed[l]

Skip(l) ==
  /\ pc[l] = "list" /\ FailedBefore(l) /\ Take(l, {})
  /\ UNCHANGED <<source, cache, failing, cursor>>

\* A traversal remains steady, with the cached events of the sources S, or not.
Remains(l, ok, S) ==
  /\ steady' = [steady EXCEPT ![l] = @ /\ ok]
  /\ stale'  = [stale EXCEPT ![l] = IF steady[l] /\ ok THEN S ELSE {}]
  /\ UNCHANGED <<failed, snap, after, shown>>

\* Where another listing is at what is cached of the source, too.
Meets(l) ==
  disturbed' = IF \E m \in Lister \ {l} : Busy(m, at[l])
               THEN disturbed \cup {at[l]} ELSE disturbed

ListAll(l) ==
  LET s == at[l] IN
  /\ pc[l] = "list" /\ ~FailedBefore(l) /\ Goto(l, "scoped") /\ Meets(l)
  /\ got' = [got EXCEPT ![l] = [events |-> has \cap Of(s), covers |-> Of(s)]]
  /\ Remains(l, s \notin stale[l], stale[l])
  /\ UNCHANGED <<source, marked, scoped, index, at, warned, list, failing>>

\* ListCalDAV's PartialError with something of use: of a collection that was not
\* listed successfully some events may be there.
ListPart(l) ==
  LET s == at[l] IN
  /\ pc[l] = "list" /\ s \in CalDAV /\ ~FailedBefore(l) /\ Goto(l, "mark") /\ Meets(l)
  /\ \E ok \in SUBSET Of(s) : \E some \in SUBSET ((has \cap Of(s)) \ ok) :
       /\ ok # Of(s) /\ (ok # {} \/ some # {})
       /\ got' = [got EXCEPT ![l] = [events |-> (has \cap ok) \cup some, covers |-> ok]]
  /\ Remains(l, FALSE, {})
  /\ UNCHANGED <<source, marked, scoped, index, at, warned, list, failing>>

\* The source has nothing: it is not asked again for the pages that follow.
SourceFails(l) ==
  /\ Take(l, {}) /\ failing' = [failing EXCEPT ![l] = @ \cup {at[l]}]
  /\ Remains(l, snap[l] = None, stale[l] \ {at[l]}) /\ UNCHANGED <<source, cache>>

\* A failure counts as such in mode "refresh"; otherwise, and without asking in
\* mode "offline", the cache is read.
ListFails(l) ==
  /\ pc[l] = "list" /\ ~FailedBefore(l)
  /\ \/ SourceFails(l)
     \/ /\ Goto(l, "cached")
        /\ UNCHANGED <<source, cache, at, got, warned, list, failing, cursor>>

-----------------------------------------------------------------------------
(* cacheEventsReplacingWithID.                                              *)

\* The slip: a partial list is not remembered as one.
NotMarked == FALSE

AsPartial == TRUE

\* What is cached of a source is consistent again, if nobody else is at it.
Settles(l) ==
  disturbed' = IF \E m \in Lister \ {l} : Busy(m, at[l])
               THEN disturbed ELSE disturbed \ {at[l]}

MarkPartial(l) ==
  /\ pc[l] = "mark" /\ Goto(l, "look") /\ marked' = [marked EXCEPT ![at[l]] = AsPartial]
  /\ Settles(l)
  /\ UNCHANGED <<source, scoped, index, at, got, warned, list, failing, cursor>>

\* A partial list does not become the scope's; it may complete one that is found.
Look(l) ==
  /\ pc[l] = "look"
  /\ \/ scoped[at[l]] # None /\ Goto(l, "scoped")
     \/ Goto(l, "index")
  /\ UNCHANGED <<source, cache, at, got, warned, list, failing, cursor>>

Whole(l) == got[l].covers = Of(at[l])

\* The part that is listed again replaces its collections.
Merged(old, new) ==
  [old EXCEPT !.events = (@ \ new.covers) \cup new.events]

CacheScoped(l) ==
  LET s == at[l] IN
  /\ pc[l] = "scoped" /\ Goto(l, "index")
  /\ scoped' = [scoped EXCEPT ![s] =
                  IF Whole(l) \/ @ = None
                  THEN [events |-> got[l].events, whole |-> Whole(l)]
                  ELSE Merged(@, got[l])]
  /\ IF Whole(l) THEN Settles(l) ELSE UNCHANGED disturbed
  /\ UNCHANGED <<source, marked, index, at, got, warned, list, failing>> /\ CacheShakes

\* replaceIndex and replaceCollections: what was listed successfully.
Replaced(l) == got[l].covers

CacheIndex(l) ==
  LET s == at[l] IN
  /\ pc[l] = "index"
  /\ index' = [index EXCEPT ![s] =
                 IF @ = None THEN got[l].events ELSE (@ \ Replaced(l)) \cup got[l].events]
  /\ IF Whole(l) THEN Goto(l, "unmark") /\ UNCHANGED <<at, got, warned, list>>
                 ELSE Take(l, got[l].events)
  /\ UNCHANGED <<source, marked, scoped, disturbed, failing>> /\ CacheShakes

Unmark(l) ==
  /\ pc[l] = "unmark" /\ marked' = [marked EXCEPT ![at[l]] = FALSE]
  /\ Take(l, got[l].events)
  /\ UNCHANGED <<source, scoped, index, disturbed, failing, cursor>>

\* "cache_write_failed", or the provider's identity is not known: the events are
\* used all the same.
CacheFails(l) ==
  /\ pc[l] \in {"mark", "look", "scoped", "index", "unmark"}
  /\ Take(l, got[l].events) /\ UNCHANGED <<source, cache, failing, cursor>>

-----------------------------------------------------------------------------
(* cachedEvents.                                                            *)

\* Whether what is cached is partial is asked first; where the state cannot say, it
\* is taken for whole.
ReadMark(l) ==
  /\ pc[l] = "cached" /\ Goto(l, "exact")
  /\ \/ Meets(l) /\ warned' = [warned EXCEPT ![l] = marked[at[l]]]
     \/ /\ marked[at[l]] /\ warned' = [warned EXCEPT ![l] = FALSE]
        /\ disturbed' = disturbed \cup {at[l]}
  /\ UNCHANGED <<source, marked, scoped, index, at, got, list, failing, cursor>>

\* On the first page the cached events are new to the list, on a later one if the
\* source itself gave them before.
ReadScoped(l) ==
  LET s == at[l] IN
  /\ pc[l] = "exact"
  /\ IF scoped[s] # None
     THEN Take(l, scoped[s].events)
     ELSE Goto(l, "broad") /\ UNCHANGED <<at, got, warned, list>>
  /\ Remains(l, snap[l] = None \/ s \in stale[l], stale[l] \cup {s})
  /\ UNCHANGED <<source, cache, failing>>

ReadIndex(l) ==
  /\ pc[l] = "broad"
  /\ IF index[at[l]] # None
     THEN Take(l, index[at[l]]) /\ UNCHANGED <<source, cache, failing, cursor>>
     ELSE SourceFails(l)

-----------------------------------------------------------------------------
(* The page.                                                                *)

\* The slip: the list of a later page is not compared.
ListComparedOnce(l) == TRUE

\* "event sources changed; restart pagination".
SameList(l) == snap[l] \in {None, list[l]}

\* The slip: the page begins with the event that the cursor names.
RestFromCursor(l) == {e \in list[l] : e >= after[l]}

Rest(l) == {e \in list[l] : e > after[l]}

Oldest(S, n) == {e \in S : Cardinality({x \in S : x < e}) < n}
Latest(S)    == CHOOSE e \in S : \A x \in S : x <= e

ReturnPage(l) ==
  LET page == Oldest(Rest(l), PageSize) IN
  /\ pc[l] = "page" /\ failing[l] # Source /\ SameList(l)
  /\ shown' = [shown EXCEPT ![l] = @ \cup page] /\ snap' = [snap EXCEPT ![l] = list[l]]
  /\ failed' = [failed EXCEPT ![l] = failing[l]]
  /\ IF page # Rest(l)
     THEN Goto(l, "ready") /\ after' = [after EXCEPT ![l] = Latest(page)]
     ELSE Goto(l, "done") /\ UNCHANGED after
  /\ Restart(l) /\ UNCHANGED <<source, cache, steady, stale>>

\* No page: the list is another one, or all sources failed.
NoPage(l) ==
  /\ pc[l] = "page" /\ UNCHANGED cursor /\ Restart(l) /\ UNCHANGED <<source, cache>>
  /\ \/ failing[l] = Source /\ Goto(l, "down")
     \/ failing[l] # Source /\ ~SameList(l) /\ Goto(l, "changed")

\* The caller, or its process, gives up.
Quit(l) ==
  /\ pc[l] \notin Ended /\ Goto(l, "idle")
  /\ NoCursor(l) /\ Restart(l) /\ UNCHANGED <<source, cache>>

Run(l) ==
  \/ Skip(l) \/ ListAll(l) \/ ListPart(l) \/ ListFails(l)
  \/ MarkPartial(l) \/ Look(l) \/ CacheScoped(l) \/ CacheIndex(l) \/ Unmark(l)
  \/ CacheFails(l) \/ ReadMark(l) \/ ReadScoped(l) \/ ReadIndex(l)
  \/ ReturnPage(l) \/ NoPage(l) \/ Continue(l)

Next ==
  \/ \E c \in Changing : Change(c) \/ Age(c) \/ OtherScope(c)
  \/ \E s \in Source : Evict(s) \/ EvictMark(s) \/ Clear({s})
  \/ Clear(Source)
  \/ \E l \in Lister : Begin(l) \/ Run(l) \/ Retry(l) \/ Quit(l)

Spec == Init /\ [][Next]_vars

\* A listing runs to its end, and GetEvent and Sync follow every cursor.
FairSpec == Spec /\ \A l \in Lister : WF_vars(Run(l))

-----------------------------------------------------------------------------
\* However the sources change and fail between the pages, the pages of a finished
\* traversal are together one list that the sources gave, without a gap.
PagesAreOneList == \A l \in Lister : pc[l] = "done" => shown[l] = snap[l]

\* A traversal is sent back to the start only because a source changed, failed or
\* answered in part that had given its own events, or because the cached events
\* changed that a source was replaced by, or such a source answered again. A source
\* that gave nothing, for want of a cached list, is not asked again: that it answers,
\* or that its events or the cache change, sends no traversal back; nor do changes
\* of what is cached of sources that answer.
RestartHasCause == \A l \in Lister : pc[l] = "changed" => ~steady[l]

\* A cached list without the events of some collection is not given for all there
\* is, whatever failed, stopped halfway or was evicted. Excepted is a source that is
\* disturbed: two listings were at what is cached of it at once, or its mark was
\* cleared or evicted under one, or could not be read, and no listing has settled it
\* since.
PartIsNotHidden ==
  [][\A l \in Lister :
       LET s == at[l] IN
       pc[l] = "exact" /\ pc'[l] \in {"list", "page"}
         => s \in disturbed \/ scoped[s].whole \/ warned[l]]_vars

\* The same of the cache at any time, without exception: this does not hold.
PartialIsMarked ==
  \A s \in Source : scoped[s] # None /\ ~scoped[s].whole => marked[s]

\* A caller that follows the cursors gets to the last page or to an error, though
\* events come and go all the time.
TraversalEnds == \A l \in Lister : pc[l] = "ready" ~> pc[l] \in Ended
=============================================================================
