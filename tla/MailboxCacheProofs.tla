-------------------------- MODULE MailboxCacheProofs --------------------------
(***************************************************************************)
(* What holds of MailboxCache for every number of readers, messages and    *)
(* generations, and every page size.                                       *)
(***************************************************************************)
EXTENDS MailboxCache, FiniteSetTheorems, TLAPS

\* A reader that has a page to cache or to return.
HasPage(r) == pc[r] \in {"commit", "scoped", "index", "page"}

\* No cached generation and no page is ahead of the provider, and a page is not
\* behind the marker that was seen before it was fetched.
NotAhead ==
  /\ marker <= gen
  /\ \A r \in Reader : pc[r] = "search" => seen[r] <= gen
  /\ \A r \in Reader : pc[r] = "commit" => seen[r] <= res[r].gen
  /\ \A r \in Reader : pc[r] \in {"commit", "scoped", "index"} => res[r].gen <= gen

\* What is cached, on a page, or merged is of the one generation it names.
AllOf(e)  == \A m \in e.msgs : m[1] = e.gen
Unmixed ==
  /\ AllOf(scoped) /\ AllOf(index)
  /\ \A r \in Reader :
       /\ AllOf(res[r])
       /\ pc[r] = "index" => \A m \in merged[r] : m[1] = res[r].gen
       /\ HasPage(r) => cur[r].gen \in {0, res[r].gen}
       /\ \A m \in got[r] : m[1] = cur[r].gen

\* The cursor divides what was returned from what a page can have.
Divided ==
  \A r \in Reader :
    /\ \A m \in got[r] : cur[r].before # 0 /\ m[2] >= cur[r].before
    /\ HasPage(r) => \A m \in res[r].msgs :
                       cur[r].before = 0 \/ m[2] < cur[r].before

\* A reader that is about to use a page has one.
PageIsThere ==
  \A r \in Reader : HasPage(r) \/ pc[r] = "check" => res[r] \in Result

Typed == TypeOK /\ PageIsThere


-----------------------------------------------------------------------------
(* The operators.                                                           *)

\* A page is made of messages it was made from.
LEMMA PageOfItsMessages ==
  ASSUME NEW S \in SUBSET Message, NEW g \in 1..MaxGen, NEW n \in 1..(MaxUid + 1)
  PROVE  /\ PageOf(S, g, n) \in Result /\ PageOf(S, g, n).gen = g
         /\ PageOf(S, g, n).msgs \subseteq S
  BY DEF PageOf, Result, Newest

\* The next cursor is the old one, or a message that was shown and is older
\* than all others that were.
LEMMA BeforeNextBelow ==
  ASSUME TypeOK, NEW r \in Reader, NEW S \in SUBSET Message,
         NEW b \in BeforeNext(r, S)
  PROVE  /\ b \in 0..MaxUid
         /\ S = {} => b = cur[r].before
         /\ S # {} => \E m \in S : b = m[2]
         /\ \A m \in S : b <= m[2]
<1>1. CASE S = {}
  BY <1>1 DEF BeforeNext, TypeOK, Cursor
<1>2. CASE S # {}
  BY <1>2 DEF BeforeNext, Last, Uid, Message
<1> QED
  BY <1>1, <1>2

\* What a later page stores is a page of the same generation.
LEMMA FreshPage ==
  ASSUME TypeOK, NEW r \in Reader, res[r] \in Result
  PROVE  /\ Fresh(r) \in Result /\ Fresh(r).gen = res[r].gen
         /\ Fresh(r).msgs = res[r].msgs
  BY BoundAssumption DEF BoundAssumption, Fresh, TypeOK, Cursor, Result

-----------------------------------------------------------------------------
(* Types.                                                                   *)

\* Variables have their types at first.
LEMMA TypeInit == Init => Typed
  BY BoundAssumption DEF BoundAssumption, Init, Typed, TypeOK, PageIsThere, HasPage,
     Cursor, NoCursor, Step, Result, NoResult, Message

\* Every step keeps them.
LEMMA TypeNext == ASSUME Typed, [Next]_vars PROVE Typed'
<1> USE BoundAssumption DEF BoundAssumption, Typed, PageIsThere, HasPage, Step
<1>1. CASE UNCHANGED vars
  BY <1>1 DEF vars, server, cache, reader, TypeOK
<1>2. CASE Arrive
  BY <1>2 DEF Arrive, cache, reader, TypeOK
<1>3. CASE Evict
  BY <1>3 DEF Evict, server, reader, TypeOK
<1>4. ASSUME NEW u \in 1..MaxUid, Expunge(u) PROVE Typed'
  BY <1>4 DEF Expunge, cache, TypeOK
<1>5. ASSUME NEW n \in 0..MaxUid, Renew(n) PROVE Typed'
  BY <1>5 DEF Renew, cache, reader, TypeOK
<1>6. ASSUME NEW r \in Reader, Begin(r) PROVE Typed'
  <2>1. CASE UNCHANGED <<cur, got, due, stale>>
    BY <1>6, <2>1 DEF Begin, Goto, server, cache, TypeOK
  <2>2. CASE NewSearch(r)
    BY <1>6, <2>2 DEF Begin, NewSearch, Goto, server, cache, TypeOK, Cursor, NoCursor
  <2> QED
    BY <1>6, <2>1, <2>2 DEF Begin
<1>7. ASSUME NEW r \in Reader, SeeMarker(r) PROVE Typed'
  BY <1>7 DEF SeeMarker, Goto, server, cache, TypeOK
<1>8. ASSUME NEW r \in Reader, SearchLive(r) PROVE Typed'
  <2>0. gen \in 1..MaxGen /\ mailbox \in SUBSET (1..MaxUid)
    BY DEF TypeOK
  <2>1. Live \in SUBSET Message /\ After(Live, cur[r]) \in SUBSET Message
    BY <2>0 DEF Live, After, Message
  <2>2. PageOf(After(Live, cur[r]), gen, next) \in Result
    BY <2>1, PageOfItsMessages DEF TypeOK
  <2> QED
    BY <1>8, <2>1, <2>2 DEF SearchLive, Goto, server, cache, TypeOK
<1>9. ASSUME NEW r \in Reader, SearchFails(r) PROVE Typed'
  BY <1>9 DEF SearchFails, Goto, server, cache, TypeOK
<1>10. ASSUME NEW r \in Reader, CommitMarker(r) PROVE Typed'
  BY <1>10 DEF CommitMarker, Goto, server, TypeOK, Result
<1>11. ASSUME NEW r \in Reader, CacheScoped(r) PROVE Typed'
  <2>1. Fresh(r) \in Result
    BY <1>11, FreshPage DEF CacheScoped
  <2>2. [Fresh(r) EXCEPT !.more = TRUE] \in Result
    BY <2>1 DEF Result
  <2>3. scoped # NoResult => Merged(r) \in Result
    BY <2>1 DEF Merged, Result, TypeOK
  <2>4. scoped' \in Result \cup {NoResult} /\ scoped'.msgs \in SUBSET Message
    BY <1>11, <2>1, <2>2, <2>3 DEF CacheScoped, TypeOK, Result, NoResult
  <2> QED
    BY <1>11, <2>4 DEF CacheScoped, Goto, server, TypeOK
<1>12. ASSUME NEW r \in Reader, CacheIndex(r) PROVE Typed'
  <2>1. Fresh(r) \in Result
    BY <1>12, FreshPage DEF CacheIndex
  <2>2. index' \in Result
    <3>1. index.msgs \in SUBSET Message /\ index.next \in 0..(MaxUid + 1)
      BY DEF TypeOK, Result, NoResult
    <3>2. Larger(Fresh(r).next, index.next) \in 1..(MaxUid + 1)
      BY <2>1, <3>1 DEF Larger, Result
    <3>3. merged[r] \in SUBSET Message
      BY DEF TypeOK
    <3> QED
      BY <1>12, <2>1, <3>1, <3>2, <3>3 DEF CacheIndex, AllPages, Result
  <2> QED
    BY <1>12, <2>2 DEF CacheIndex, Goto, server, TypeOK
<1>13. ASSUME NEW r \in Reader, CacheFails(r) PROVE Typed'
  BY <1>13 DEF CacheFails, Goto, server, cache, TypeOK
<1>14. ASSUME NEW r \in Reader, ReturnPage(r) PROVE Typed'
  <2>1. PICK k \in 0..PageSize :
          /\ got' = [got EXCEPT ![r] = @ \cup Newest(res[r].msgs, k)]
          /\ \E b \in BeforeNext(r, Newest(res[r].msgs, k)) :
               cur' = [cur EXCEPT ![r] =
                 [before |-> b, gen |-> res[r].gen,
                  next |-> IF @.next = 0 THEN res[r].next ELSE @.next]]
    BY <1>14 DEF ReturnPage
  <2>2. res[r] \in Result /\ Newest(res[r].msgs, k) \in SUBSET Message
    BY <1>14 DEF ReturnPage, Newest, Result
  <2>3. cur' \in [Reader -> Cursor]
    BY <2>1, <2>2, BeforeNextBelow DEF TypeOK, Cursor, Result
  <2>4. got' \in [Reader -> SUBSET Message]
    BY <2>1, <2>2 DEF TypeOK
  <2> QED
    BY <1>14, <2>3, <2>4 DEF ReturnPage, Forget, Goto, server, cache, TypeOK
<1>15. ASSUME NEW r \in Reader, ReadScoped(r) PROVE Typed'
  BY <1>15 DEF ReadScoped, Take, Goto, server, cache, TypeOK
<1>16. ASSUME NEW r \in Reader, ReadIndex(r) PROVE Typed'
  BY <1>16 DEF ReadIndex, Take, Goto, server, cache, TypeOK
<1>17. ASSUME NEW r \in Reader, CheckMarker(r) PROVE Typed'
  <2>1. res[r] \in Result
    BY <1>17 DEF CheckMarker
  <2>2. PageOf(After(res[r].msgs, cur[r]), res[r].gen, res[r].next) \in Result
    BY <2>1, PageOfItsMessages DEF After, Result
  <2>3. res' \in [Reader -> Result \cup {NoResult}]
    BY <1>17, <2>2 DEF CheckMarker, TypeOK
  <2>4. pc' \in [Reader -> Step] /\ stale' \in [Reader -> BOOLEAN]
    BY <1>17 DEF CheckMarker, Goto, TypeOK
  <2>5. UNCHANGED <<server, cache, cur, seen, merged, got, due>>
    BY <1>17 DEF CheckMarker
  <2>6. PageIsThere'
    BY <1>17, <2>2 DEF CheckMarker, Goto, TypeOK
  <2>7. TypeOK'
    BY <2>3, <2>4, <2>5 DEF server, cache, TypeOK
  <2> QED
    BY <2>6, <2>7
<1>18. ASSUME NEW r \in Reader, Quit(r) PROVE Typed'
  BY <1>18 DEF Quit, Forget, NewSearch, Goto, server, cache, TypeOK, Cursor, NoCursor
<1> QED
  BY <1>1, <1>2, <1>3, <1>4, <1>5, <1>6, <1>7, <1>8, <1>9, <1>10, <1>11, <1>12,
     <1>13, <1>14, <1>15, <1>16, <1>17, <1>18 DEF Next

-----------------------------------------------------------------------------
(* A slow read never puts an older generation back.                         *)

\* No reader has a page at first.
LEMMA NotAheadInit == Init => NotAhead
  BY BoundAssumption DEF BoundAssumption, Init, NotAhead

\* Only a search, a commit and an eviction set what NotAhead compares.
LEMMA NotAheadNext ==
  ASSUME Typed, NotAhead, [Next]_vars PROVE NotAhead'
<1> USE DEF NotAhead, Typed, TypeOK
<1>1. CASE UNCHANGED vars
  BY <1>1 DEF vars, server, cache, reader
<1>2. CASE Arrive
  BY <1>2 DEF Arrive, cache, reader
<1>3. CASE Evict
  BY <1>3 DEF Evict, server, reader
<1>4. ASSUME NEW u \in 1..MaxUid, Expunge(u) PROVE NotAhead'
  BY <1>4 DEF Expunge, cache
<1>5. ASSUME NEW n \in 0..MaxUid, Renew(n) PROVE NotAhead'
  <2>1. \A r \in Reader : res[r].gen \in 0..MaxGen /\ seen[r] \in 0..MaxGen
    BY BoundAssumption DEF BoundAssumption, Result, NoResult
  <2> QED
    BY <1>5, <2>1 DEF Renew, cache, reader
<1>6. ASSUME NEW r \in Reader, Begin(r) PROVE NotAhead'
  BY <1>6 DEF Begin, Goto, server, cache
<1>7. ASSUME NEW r \in Reader, SeeMarker(r) PROVE NotAhead'
  BY <1>7 DEF SeeMarker, Goto, server, cache
<1>8. ASSUME NEW r \in Reader, SearchLive(r) PROVE NotAhead'
  <2>1. PageOf(After(Live, cur[r]), gen, next).gen = gen
    BY DEF PageOf
  <2> QED
    BY <1>8, <2>1 DEF SearchLive, Goto, server, cache
<1>9. ASSUME NEW r \in Reader, SearchFails(r) PROVE NotAhead'
  BY <1>9 DEF SearchFails, Goto, server, cache
<1>10. ASSUME NEW r \in Reader, CommitMarker(r) PROVE NotAhead'
  BY <1>10 DEF CommitMarker, Goto, server
<1>11. ASSUME NEW r \in Reader, CacheScoped(r) PROVE NotAhead'
  BY <1>11 DEF CacheScoped, Goto, server
<1>12. ASSUME NEW r \in Reader, CacheIndex(r) PROVE NotAhead'
  BY <1>12 DEF CacheIndex, Goto, server
<1>13. ASSUME NEW r \in Reader, CacheFails(r) PROVE NotAhead'
  BY <1>13 DEF CacheFails, Goto, server, cache
<1>14. ASSUME NEW r \in Reader, ReturnPage(r) PROVE NotAhead'
  BY <1>14 DEF ReturnPage, Forget, Goto, server, cache
<1>15. ASSUME NEW r \in Reader, ReadScoped(r) PROVE NotAhead'
  BY <1>15 DEF ReadScoped, Take, Goto, server, cache
<1>16. ASSUME NEW r \in Reader, ReadIndex(r) PROVE NotAhead'
  BY <1>16 DEF ReadIndex, Take, Goto, server, cache
<1>17. ASSUME NEW r \in Reader, CheckMarker(r) PROVE NotAhead'
  BY <1>17 DEF CheckMarker, Goto, server, cache
<1>18. ASSUME NEW r \in Reader, Quit(r) PROVE NotAhead'
  BY <1>18 DEF Quit, Forget, Goto, server, cache
<1> QED
  BY <1>1, <1>2, <1>3, <1>4, <1>5, <1>6, <1>7, <1>8, <1>9, <1>10, <1>11, <1>12,
     <1>13, <1>14, <1>15, <1>16, <1>17, <1>18 DEF Next

\* A commit replaces the marker that was seen by a generation that is not older;
\* an eviction removes it; nothing else writes it.
LEMMA MarkerStep ==
  ASSUME Typed, NotAhead, [Next]_vars
  PROVE  marker # 0 /\ marker' # 0 => marker' >= marker
<1> USE DEF NotAhead, Typed, TypeOK
<1>1. ASSUME NEW r \in Reader, CommitMarker(r) PROVE marker' \in Nat /\ marker' >= marker
  <2>1. res[r].gen \in Nat
    BY DEF Result, NoResult
  <2> QED
    BY <1>1, <2>1 DEF CommitMarker, MarkerUnchanged
<1>2. CASE Evict
  BY <1>2 DEF Evict
<1>3. CASE ~Evict /\ \A r \in Reader : ~CommitMarker(r)
  <2>1. marker' = marker
    BY <1>3 DEF Next, vars, server, cache, reader, Arrive, Expunge, Renew, Begin,
       SeeMarker, SearchLive, SearchFails, CacheScoped, CacheIndex, CacheFails,
       ReturnPage, ReadScoped, ReadIndex, CheckMarker, Quit
  <2> QED
    BY <2>1
<1> QED
  BY <1>1, <1>2, <1>3

-----------------------------------------------------------------------------
(* One search, one generation.                                              *)

\* Nothing is cached and no page is held at first.
LEMMA UnmixedInit == Init => Unmixed
  BY DEF Init, Unmixed, AllOf, NoResult, HasPage

\* Pages and entries keep to one generation in every step.
LEMMA UnmixedNext ==
  ASSUME Typed, Unmixed, [Next]_vars PROVE Unmixed'
<1> USE DEF Unmixed, HasPage, AllOf
<1>t. /\ TypeOK /\ pc \in [Reader -> Step] /\ cur \in [Reader -> Cursor]
      /\ res \in [Reader -> Result \cup {NoResult}]
      /\ merged \in [Reader -> SUBSET Message] /\ got \in [Reader -> SUBSET Message]
      /\ {scoped, index} \subseteq Result \cup {NoResult} /\ gen \in 1..MaxGen
  BY DEF Typed, TypeOK
<1>1. CASE UNCHANGED vars
  BY <1>1 DEF vars, server, cache, reader
<1>2. CASE Arrive
  BY <1>2 DEF Arrive, cache, reader
<1>3. CASE Evict
  BY <1>3 DEF Evict, server, reader, NoResult
<1>4. ASSUME NEW u \in 1..MaxUid, Expunge(u) PROVE Unmixed'
  BY <1>4 DEF Expunge, cache
<1>5. ASSUME NEW n \in 0..MaxUid, Renew(n) PROVE Unmixed'
  BY <1>5 DEF Renew, cache, reader
<1>6. ASSUME NEW r \in Reader, Begin(r) PROVE Unmixed'
  BY <1>6, <1>t DEF Begin, NewSearch, Goto, server, cache
<1>7. ASSUME NEW r \in Reader, SeeMarker(r) PROVE Unmixed'
  BY <1>7, <1>t DEF SeeMarker, Goto, server, cache
<1>8. ASSUME NEW r \in Reader, SearchLive(r) PROVE Unmixed'
  <2>1. /\ PageOf(After(Live, cur[r]), gen, next).gen = gen
        /\ \A m \in PageOf(After(Live, cur[r]), gen, next).msgs : m[1] = gen
    BY DEF PageOf, Newest, After, Live
  <2> QED
    BY <1>8, <1>t, <2>1 DEF SearchLive, SameGeneration, Goto, server, cache
<1>9. ASSUME NEW r \in Reader, SearchFails(r) PROVE Unmixed'
  BY <1>9, <1>t DEF SearchFails, Goto, server, cache
<1>10. ASSUME NEW r \in Reader, CommitMarker(r) PROVE Unmixed'
  BY <1>10, <1>t DEF CommitMarker, Goto, server
<1>11. ASSUME NEW r \in Reader, CacheScoped(r) PROVE Unmixed'
  <2>1. /\ Fresh(r) \in Result /\ Fresh(r).gen = res[r].gen
        /\ Fresh(r).msgs = res[r].msgs
    BY <1>11, <1>t, FreshPage DEF CacheScoped, Typed, PageIsThere
  <2>2. scoped # NoResult /\ Continues(r) => AllOf(Merged(r)) /\ Merged(r).gen = res[r].gen
    BY <2>1, <1>t DEF Merged, Continues, Result
  <2>3. AllOf([Fresh(r) EXCEPT !.more = TRUE])
    BY <2>1 DEF Result
  <2>4. AllOf(scoped)' /\ (pc'[r] = "index" => scoped'.gen = res[r].gen)
    BY <1>11, <1>t, <2>1, <2>2, <2>3 DEF CacheScoped, Goto, Result
  <2> QED
    BY <1>11, <1>t, <2>4 DEF CacheScoped, Goto, server
<1>12. ASSUME NEW r \in Reader, CacheIndex(r) PROVE Unmixed'
  <2>1. /\ Fresh(r) \in Result /\ Fresh(r).gen = res[r].gen
        /\ Fresh(r).msgs = res[r].msgs
    BY <1>12, <1>t, FreshPage DEF CacheIndex, Typed, PageIsThere
  <2>2. AllOf(index)'
    BY <1>12, <2>1, <1>t DEF CacheIndex, AllPages, Result
  <2> QED
    BY <1>12, <1>t, <2>2 DEF CacheIndex, Goto, server
<1>13. ASSUME NEW r \in Reader, CacheFails(r) PROVE Unmixed'
  BY <1>13, <1>t DEF CacheFails, Goto, server, cache
<1>14. ASSUME NEW r \in Reader, ReturnPage(r) PROVE Unmixed'
  <2>1. PICK k \in 0..PageSize :
          /\ got' = [got EXCEPT ![r] = @ \cup Newest(res[r].msgs, k)]
          /\ \E b \in BeforeNext(r, Newest(res[r].msgs, k)) :
               cur' = [cur EXCEPT ![r] =
                 [before |-> b, gen |-> res[r].gen,
                  next |-> IF @.next = 0 THEN res[r].next ELSE @.next]]
    BY <1>14 DEF ReturnPage
  <2>2. cur'[r].gen = res[r].gen /\ \A q \in Reader \ {r} : cur'[q] = cur[q]
    BY <2>1, <1>t
  <2>3. \A m \in got[r] : m[1] = res[r].gen
    <3>1. \A m \in got[r] : m[1] # 0
      BY <1>t DEF Message
    <3> QED
      BY <3>1, <1>14 DEF ReturnPage
  <2>4. \A m \in Newest(res[r].msgs, k) : m[1] = res[r].gen
    BY DEF Newest
  <2>5. \A m \in got'[r] : m[1] = cur'[r].gen
    BY <2>1, <2>2, <2>3, <2>4, <1>t
  <2>6. AllOf(NoResult)
    BY DEF NoResult
  <2> QED
    BY <1>14, <1>t, <2>1, <2>2, <2>5, <2>6 DEF ReturnPage, Forget, Goto, server, cache
<1>15. ASSUME NEW r \in Reader, ReadScoped(r) PROVE Unmixed'
  BY <1>15, <1>t DEF ReadScoped, Take, Goto, server, cache
<1>16. ASSUME NEW r \in Reader, ReadIndex(r) PROVE Unmixed'
  BY <1>16, <1>t DEF ReadIndex, Take, Goto, server, cache
<1>17. ASSUME NEW r \in Reader, CheckMarker(r) PROVE Unmixed'
  <2>1. LET p == PageOf(After(res[r].msgs, cur[r]), res[r].gen, res[r].next)
        IN  p.gen = res[r].gen /\ AllOf(p)
    BY DEF PageOf, Newest, After
  <2> QED
    BY <1>17, <1>t, <2>1 DEF CheckMarker, Goto, server, cache, NoResult
<1>18. ASSUME NEW r \in Reader, Quit(r) PROVE Unmixed'
  BY <1>18, <1>t DEF Quit, Forget, NewSearch, Goto, server, cache, NoResult
<1> QED
  BY <1>1, <1>2, <1>3, <1>4, <1>5, <1>6, <1>7, <1>8, <1>9, <1>10, <1>11, <1>12,
     <1>13, <1>14, <1>15, <1>16, <1>17, <1>18 DEF Next

-----------------------------------------------------------------------------
(* No message twice.                                                        *)

\* Nothing is shown at first.
LEMMA DividedInit == Init => Divided
  BY DEF Init, Divided, HasPage

\* Every step keeps the cursor between what was shown and what can come.
LEMMA DividedNext ==
  ASSUME Typed, Divided, [Next]_vars PROVE Divided'
<1> USE DEF Divided, HasPage
<1>t. /\ TypeOK /\ pc \in [Reader -> Step] /\ cur \in [Reader -> Cursor]
      /\ res \in [Reader -> Result \cup {NoResult}]
      /\ got \in [Reader -> SUBSET Message]
  BY DEF Typed, TypeOK
<1>a. ASSUME NEW r \in Reader, NEW S, NEW g, NEW n
      PROVE  \A m \in PageOf(After(S, cur[r]), g, n).msgs :
               cur[r].before = 0 \/ m[2] < cur[r].before
  BY DEF PageOf, Newest, After, Uid
<1>1. CASE UNCHANGED vars
  BY <1>1 DEF vars, server, cache, reader
<1>2. CASE Arrive
  BY <1>2 DEF Arrive, cache, reader
<1>3. CASE Evict
  BY <1>3 DEF Evict, server, reader
<1>4. ASSUME NEW u \in 1..MaxUid, Expunge(u) PROVE Divided'
  BY <1>4 DEF Expunge, cache
<1>5. ASSUME NEW n \in 0..MaxUid, Renew(n) PROVE Divided'
  BY <1>5 DEF Renew, cache, reader
<1>6. ASSUME NEW r \in Reader, Begin(r) PROVE Divided'
  BY <1>6, <1>t DEF Begin, NewSearch, Goto, server, cache
<1>7. ASSUME NEW r \in Reader, SeeMarker(r) PROVE Divided'
  BY <1>7, <1>t DEF SeeMarker, Goto, server, cache
<1>8. ASSUME NEW r \in Reader, SearchLive(r) PROVE Divided'
  BY <1>8, <1>t, <1>a DEF SearchLive, Goto, server, cache
<1>9. ASSUME NEW r \in Reader, SearchFails(r) PROVE Divided'
  BY <1>9, <1>t DEF SearchFails, Goto, server, cache
<1>10. ASSUME NEW r \in Reader, CommitMarker(r) PROVE Divided'
  BY <1>10, <1>t DEF CommitMarker, Goto, server
<1>11. ASSUME NEW r \in Reader, CacheScoped(r) PROVE Divided'
  BY <1>11, <1>t DEF CacheScoped, Goto, server
<1>12. ASSUME NEW r \in Reader, CacheIndex(r) PROVE Divided'
  BY <1>12, <1>t DEF CacheIndex, Goto, server
<1>13. ASSUME NEW r \in Reader, CacheFails(r) PROVE Divided'
  BY <1>13, <1>t DEF CacheFails, Goto, server, cache
<1>14. ASSUME NEW r \in Reader, ReturnPage(r) PROVE Divided'
  <2>1. PICK k \in 0..PageSize :
          /\ got' = [got EXCEPT ![r] = @ \cup Newest(res[r].msgs, k)]
          /\ \E b \in BeforeNext(r, Newest(res[r].msgs, k)) :
               cur' = [cur EXCEPT ![r] =
                 [before |-> b, gen |-> res[r].gen,
                  next |-> IF @.next = 0 THEN res[r].next ELSE @.next]]
    BY <1>14 DEF ReturnPage
  <2> DEFINE shown == Newest(res[r].msgs, k)
  <2>2. PICK b \in BeforeNext(r, shown) :
          cur' = [cur EXCEPT ![r] =
            [before |-> b, gen |-> res[r].gen,
             next |-> IF @.next = 0 THEN res[r].next ELSE @.next]]
    BY <2>1
  <2>3. /\ shown \in SUBSET res[r].msgs /\ shown \in SUBSET Message
        /\ cur'[r].before = b /\ \A q \in Reader \ {r} : cur'[q] = cur[q]
    BY <2>2, <1>t DEF Newest, Result, NoResult
  <2>4. \A m \in got[r] : b # 0 /\ m[2] >= b
    <3>1. \A m \in got[r] : m[2] \in Nat
      BY <1>t DEF Message
    <3>2. CASE shown = {}
      BY <3>2, <1>t, BeforeNextBelow
    <3>3. CASE shown # {}
      <4>1. PICK x \in shown : b = x[2]
        BY <3>3, <2>3, <1>t, BeforeNextBelow
      <4>2. b \in Nat \ {0} /\ cur[r].before \in Nat
        BY <4>1, <2>3, <1>t DEF Message, Cursor
      <4>3. cur[r].before = 0 \/ b < cur[r].before
        BY <4>1, <2>3, <1>14 DEF ReturnPage
      <4> QED
        BY <4>2, <4>3, <3>1
    <3> QED
      BY <3>2, <3>3
  <2>5. \A m \in shown : b # 0 /\ m[2] >= b
    <3> SUFFICES ASSUME NEW m \in shown PROVE b # 0 /\ m[2] >= b
      OBVIOUS
    <3>1. PICK x \in shown : b = x[2]
      BY <2>3, <1>t, BeforeNextBelow
    <3>2. b <= m[2]
      BY <2>3, <1>t, BeforeNextBelow
    <3> QED
      BY <3>1, <3>2, <2>3 DEF Message
  <2>6. \A m \in got'[r] : cur'[r].before # 0 /\ m[2] >= cur'[r].before
    <3>1. got'[r] = got[r] \cup shown
      BY <2>1, <1>t
    <3> QED
      BY <3>1, <2>3, <2>4, <2>5
  <2> QED
    BY <1>14, <1>t, <2>1, <2>3, <2>6 DEF ReturnPage, Forget, Goto, server, cache
<1>15. ASSUME NEW r \in Reader, ReadScoped(r) PROVE Divided'
  BY <1>15, <1>t DEF ReadScoped, Take, Goto, server, cache
<1>16. ASSUME NEW r \in Reader, ReadIndex(r) PROVE Divided'
  BY <1>16, <1>t DEF ReadIndex, Take, Goto, server, cache
<1>17. ASSUME NEW r \in Reader, CheckMarker(r) PROVE Divided'
  BY <1>17, <1>t, <1>a DEF CheckMarker, Goto, server, cache
<1>18. ASSUME NEW r \in Reader, Quit(r) PROVE Divided'
  BY <1>18, <1>t DEF Quit, Forget, NewSearch, Goto, server, cache
<1> QED
  BY <1>1, <1>2, <1>3, <1>4, <1>5, <1>6, <1>7, <1>8, <1>9, <1>10, <1>11, <1>12,
     <1>13, <1>14, <1>15, <1>16, <1>17, <1>18 DEF Next

-----------------------------------------------------------------------------
(* No message is skipped.                                                   *)

\* The UIDs of the mailbox are below UIDNEXT.
UidsBelowNext == mailbox \subseteq 1..(next - 1)

\* The generation and the UIDNEXT of r's search: its cursor's, or those of the
\* first page.
SearchGen(r)  == IF cur[r].next = 0 THEN res[r].gen ELSE cur[r].gen
SearchNext(r) == IF cur[r].next = 0 THEN res[r].next ELSE cur[r].next

\* m is on the page, or older than all of a page that says that there is more.
OnPageOrOlder(m, r) ==
  \/ m \in res[r].msgs
  \/ res[r].more /\ \A x \in res[r].msgs : m[2] < x[2]

\* A message that was there all the time is one that r has shown, or that can
\* still come.
StillToCome(m, r) ==
  /\ m[1] <= gen /\ (m[1] = gen => m[2] \in mailbox)
  /\ m[1] = SearchGen(r) /\ m[2] < SearchNext(r)
  /\ m \in got[r] \/ cur[r].before = 0 \/ m[2] < cur[r].before
  /\ HasPage(r) => m \in got[r] \/ OnPageOrOlder(m, r)

SearchInOrder(r) ==
  /\ cur[r].next = 0 => cur[r] = NoCursor
  /\ cur[r].next # 0 => cur[r].gen # 0

NoneLost(r) ==
  ~stale[r] =>
    /\ cur[r].next = 0 => HasPage(r) \/ due[r] = {}
    /\ \A m \in due[r] : StillToCome(m, r)
    /\ pc[r] = "done" => due[r] \subseteq got[r]

Kept == UidsBelowNext /\ \A r \in Reader : SearchInOrder(r) /\ NoneLost(r)

\* Of a page's messages, the newest n are taken: one that is not among them is
\* older than all of them, and there are more than n.
LEMMA OlderThanNewest ==
  ASSUME NEW S \in SUBSET Message, NEW n \in Nat, NEW m \in S \ Newest(S, n)
  PROVE  /\ IsFiniteSet(S) /\ Cardinality(S) > n
         /\ \A x \in Newest(S, n) : m[2] < x[2]
<1> DEFINE Newer(y) == {x \in S : Uid(x) > Uid(y)}
<1>1. IsFiniteSet(Message)
  <2>1. IsFiniteSet(1..MaxGen) /\ IsFiniteSet(1..MaxUid)
    BY FS_Interval, BoundAssumption DEF BoundAssumption
  <2> QED
    BY <2>1, FS_Product DEF Message
<1>2. IsFiniteSet(S) /\ \A y \in S : /\ IsFiniteSet(Newer(y)) /\ Newer(y) \in SUBSET S
                                    /\ Cardinality(Newer(y)) \in Nat
  BY <1>1, FS_Subset, FS_CardinalityType
<1>3. Cardinality(Newer(m)) >= n
  BY <1>2 DEF Newest
<1>4. Cardinality(Newer(m)) < Cardinality(S)
  <2>1. Newer(m) # S
    BY DEF Uid, Message
  <2>2. Cardinality(S) \in Nat /\ Cardinality(Newer(m)) <= Cardinality(S)
    BY <1>2, FS_Subset, FS_CardinalityType
  <2>3. Cardinality(S) # Cardinality(Newer(m))
    BY <2>1, <1>2, FS_Subset
  <2> QED
    BY <2>2, <2>3, <1>2
<1>5. ASSUME NEW x \in Newest(S, n), ~(m[2] < x[2]) PROVE FALSE
  <2>1. x \in S /\ Cardinality(Newer(x)) < n
    BY DEF Newest
  <2>2. Newer(m) \in SUBSET Newer(x)
    BY <1>5, <2>1 DEF Uid, Message
  <2>3. Cardinality(Newer(m)) <= Cardinality(Newer(x))
    BY <2>1, <2>2, <1>2, FS_Subset
  <2> QED
    BY <2>1, <2>3, <1>2, <1>3
<1> QED
  BY <1>2, <1>3, <1>4, <1>5, FS_CardinalityType

\* A message that a page could have is on it or older than all of it.
LEMMA PageOrOlder ==
  ASSUME NEW S \in SUBSET Message, NEW g, NEW n, NEW m \in S
  PROVE  \/ m \in PageOf(S, g, n).msgs
         \/ /\ PageOf(S, g, n).more
            /\ \A x \in PageOf(S, g, n).msgs : m[2] < x[2]
<1>1. PageSize + 1 \in Nat
  BY BoundAssumption DEF BoundAssumption
<1> QED
  BY <1>1, OlderThanNewest DEF PageOf

\* The lemmas below are about one reader; the others keep what they have.
Same(r) == /\ (HasPage(r)' <=> HasPage(r)) /\ (pc'[r] = "done" <=> pc[r] = "done")
           /\ stale'[r] = stale[r] /\ cur'[r] = cur[r] /\ res'[r] = res[r]
           /\ got'[r] = got[r] /\ due'[r] = due[r]

\* A step that changes nothing of what a search can show.
LEMMA SameKept ==
  ASSUME NEW r \in Reader, Same(r), UNCHANGED <<gen, mailbox>>,
         SearchInOrder(r), NoneLost(r)
  PROVE  (SearchInOrder(r) /\ NoneLost(r))'
BY DEF Same, SearchInOrder, NoneLost, StillToCome, OnPageOrOlder, SearchGen,
       SearchNext

\* Nothing has been shown or is due at first.
LEMMA KeptInit == Init => Kept
<1> SUFFICES ASSUME Init PROVE Kept
  OBVIOUS
<1>1. UidsBelowNext
  BY DEF Init, UidsBelowNext
<1>2. \A r \in Reader : SearchInOrder(r) /\ NoneLost(r)
  BY DEF Init, SearchInOrder, NoneLost, NoCursor
<1> QED
  BY <1>1, <1>2 DEF Kept

\* A page is returned: what is left of it is older than what was shown.
LEMMA ReturnPageKept ==
  ASSUME Typed, Unmixed, Kept, NEW r \in Reader, ReturnPage(r)
  PROVE  (SearchInOrder(r) /\ NoneLost(r))'
<1>t. /\ TypeOK /\ pc \in [Reader -> Step] /\ cur \in [Reader -> Cursor]
      /\ got \in [Reader -> SUBSET Message] /\ due \in [Reader -> SUBSET Message]
      /\ res[r] \in Result /\ HasPage(r) /\ UNCHANGED <<gen, mailbox, due, stale>>
  BY DEF Typed, TypeOK, PageIsThere, ReturnPage, HasPage, server
<1>1. PICK k \in 0..PageSize :
        LET shown == Newest(res[r].msgs, k) IN
         /\ got' = [got EXCEPT ![r] = @ \cup shown]
         /\ \/ Goto(r, "ready")
            \/ shown = res[r].msgs /\ ~res[r].more /\ Goto(r, "done")
         /\ \E b \in BeforeNext(r, shown) :
              cur' = [cur EXCEPT ![r] =
                [before |-> b, gen |-> res[r].gen,
                 next |-> IF @.next = 0 THEN res[r].next ELSE @.next]]
  BY DEF ReturnPage
<1> DEFINE shown == Newest(res[r].msgs, k)
<1>2. PICK b \in BeforeNext(r, shown) :
        cur' = [cur EXCEPT ![r] =
          [before |-> b, gen |-> res[r].gen,
           next |-> IF @.next = 0 THEN res[r].next ELSE @.next]]
  BY <1>1
<1>3. /\ got'[r] = got[r] \cup shown
      /\ cur'[r].before = b /\ cur'[r].gen = res[r].gen
      /\ cur'[r].next = IF cur[r].next = 0 THEN res[r].next ELSE cur[r].next
      /\ pc'[r] = "ready" \/ (pc'[r] = "done" /\ shown = res[r].msgs /\ ~res[r].more)
  BY <1>1, <1>2, <1>t DEF Goto
<1>4. k \in Nat /\ shown \in SUBSET res[r].msgs /\ res[r].msgs \in SUBSET Message
      /\ res[r].gen \in 1..MaxGen /\ res[r].next \in 1..(MaxUid + 1)
      /\ cur[r].next \in Nat
  BY <1>t, BoundAssumption DEF BoundAssumption, Newest, Result, Cursor
<1>5. cur'[r].next # 0 /\ cur'[r].gen # 0 /\ ~HasPage(r)'
  BY <1>3, <1>4, BoundAssumption DEF HasPage, BoundAssumption
<1>6. SearchInOrder(r) /\ NoneLost(r)
  BY DEF Kept
<1>7. SearchGen(r) = res[r].gen
  BY <1>6, <1>t DEF SearchGen, SearchInOrder, Unmixed
<1>8. ASSUME ~stale[r], NEW m \in due[r]
      PROVE  /\ m \in got'[r] \/ (b = 0 \/ m[2] < b)
             /\ pc'[r] = "done" => m \in got'[r]
  <2>1. /\ m \in got[r] \/ cur[r].before = 0 \/ m[2] < cur[r].before
        /\ m \in got[r] \/ OnPageOrOlder(m, r)
    BY <1>6, <1>8, <1>t DEF NoneLost, StillToCome
  <2>2. m \in Message /\ m[2] \in Nat
    BY <1>t DEF Message
  <2>3. CASE m \in got[r] \/ m \in shown
    BY <1>3, <2>3
  <2>4. CASE m \notin got[r] /\ m \in res[r].msgs \ shown
    <3>1. \A x \in shown : m[2] < x[2]
      BY <1>4, <2>4, OlderThanNewest
    <3>2. shown = {} => b = cur[r].before
      BY <1>2, <1>4, <1>t, BeforeNextBelow
    <3>3. shown # {} => \E x \in shown : b = x[2]
      BY <1>2, <1>4, <1>t, BeforeNextBelow
    <3> QED
      BY <1>3, <2>1, <2>4, <3>1, <3>2, <3>3
  <2>5. CASE m \notin got[r] /\ m \notin res[r].msgs
    <3>1. res[r].more /\ \A x \in shown : m[2] < x[2]
      BY <1>4, <2>1, <2>5 DEF OnPageOrOlder
    <3>2. shown = {} => b = cur[r].before
      BY <1>2, <1>4, <1>t, BeforeNextBelow
    <3>3. shown # {} => \E x \in shown : b = x[2]
      BY <1>2, <1>4, <1>t, BeforeNextBelow
    <3> QED
      BY <1>3, <2>1, <2>5, <3>1, <3>2, <3>3
  <2> QED
    BY <2>3, <2>4, <2>5
<1>9. SearchInOrder(r)'
  BY <1>5 DEF SearchInOrder
<1>10. ASSUME ~stale[r], NEW m \in due[r] PROVE StillToCome(m, r)'
  <2>1. /\ m[1] <= gen /\ (m[1] = gen => m[2] \in mailbox)
        /\ m[1] = SearchGen(r) /\ m[2] < SearchNext(r)
    BY <1>6, <1>10 DEF NoneLost, StillToCome
  <2>2. SearchGen(r)' = SearchGen(r) /\ SearchNext(r)' = SearchNext(r)
    BY <1>3, <1>5, <1>7 DEF SearchGen, SearchNext
  <2>3. m \in got'[r] \/ (cur'[r].before = 0 \/ m[2] < cur'[r].before)
    BY <1>3, <1>8, <1>10
  <2> QED
    BY <1>5, <1>t, <2>1, <2>2, <2>3 DEF StillToCome
<1>11. NoneLost(r)'
  BY <1>5, <1>8, <1>10, <1>t DEF NoneLost
<1> QED
  BY <1>9, <1>11

\* A live page is made: all that may still come is on it or older.
LEMMA SearchLiveKept ==
  ASSUME Typed, Kept, NEW r \in Reader, SearchLive(r)
  PROVE  (SearchInOrder(r) /\ NoneLost(r))'
<1>t. /\ TypeOK /\ pc \in [Reader -> Step] /\ cur \in [Reader -> Cursor]
      /\ res \in [Reader -> Result \cup {NoResult}]
      /\ gen \in 1..MaxGen /\ mailbox \in SUBSET (1..MaxUid) /\ next \in 1..(MaxUid + 1)
      /\ due \in [Reader -> SUBSET Message]
      /\ pc[r] = "search" /\ ~HasPage(r) /\ HasPage(r)' /\ pc'[r] # "done"
      /\ UNCHANGED <<gen, mailbox, cur, got, stale>>
  BY DEF Typed, TypeOK, SearchLive, Goto, HasPage, server
<1> DEFINE S == After(Live, cur[r])
<1>1. /\ res'[r] = PageOf(S, gen, next)
      /\ due'[r] = IF cur[r] = NoCursor THEN Live ELSE due[r]
      /\ cur[r].gen \in {0, gen}
  BY <1>t DEF SearchLive, SameGeneration
<1>2. res'[r].gen = gen /\ res'[r].next = next
  BY <1>1 DEF PageOf
<1>3. Live \in SUBSET Message /\ S \in SUBSET Message
  BY <1>t DEF Live, After, Message
<1>4. ASSUME NEW m \in S PROVE OnPageOrOlder(m, r)'
  <2> DEFINE page == PageOf(S, gen, next)
  <2>1. m \in page.msgs \/ (page.more /\ \A x \in page.msgs : m[2] < x[2])
    BY <1>3, PageOrOlder
  <2>2. res'[r] = page
    BY <1>1
  <2> HIDE DEF page
  <2> QED
    BY <2>1, <2>2 DEF OnPageOrOlder
<1>5. SearchInOrder(r) /\ NoneLost(r) /\ UidsBelowNext
  BY DEF Kept
<1>6. SearchInOrder(r)'
  BY <1>5, <1>t DEF SearchInOrder
<1>7. CASE cur[r] = NoCursor
  <2>1. S = Live /\ cur[r].next = 0 /\ cur[r].before = 0
    BY <1>7 DEF After, NoCursor
  <2>2. \A m \in Live : m[1] = gen /\ m[2] \in mailbox /\ m[2] < next
    BY <1>5, <1>t DEF Live, UidsBelowNext
  <2>3. \A m \in Live : StillToCome(m, r)'
    BY <1>2, <1>4, <1>t, <2>1, <2>2 DEF StillToCome, SearchGen, SearchNext
  <2> QED
    BY <1>1, <1>6, <1>7, <1>t, <2>3 DEF NoneLost
<1>8. CASE cur[r] # NoCursor
  <2>1. cur[r].next # 0 /\ cur[r].gen = gen /\ due'[r] = due[r]
    BY <1>1, <1>5, <1>8 DEF SearchInOrder
  <2>2. ASSUME ~stale[r], NEW m \in due[r] PROVE StillToCome(m, r)'
    <3>1. StillToCome(m, r) /\ m \in Message
      BY <1>5, <1>t, <2>2 DEF NoneLost
    <3>2. /\ m[1] = gen /\ m[2] \in mailbox /\ m[2] < cur[r].next
          /\ m \in got[r] \/ cur[r].before = 0 \/ m[2] < cur[r].before
      BY <2>1, <3>1 DEF StillToCome, SearchGen, SearchNext
    <3>3. m \in Live
      BY <3>1, <3>2 DEF Live, Message
    <3>4. m \in got[r] \/ m \in S
      BY <3>2, <3>3 DEF After, Uid
    <3> QED
      BY <1>4, <1>t, <2>1, <3>1, <3>4 DEF StillToCome, SearchGen, SearchNext
  <2> QED
    BY <1>6, <1>t, <2>1, <2>2 DEF NoneLost
<1> QED
  BY <1>7, <1>8

\* A new search has nothing to show and nothing to wait for.
LEMMA NewSearchKept ==
  ASSUME Typed, NEW r \in Reader, NewSearch(r), ~HasPage(r)'
  PROVE  (SearchInOrder(r) /\ NoneLost(r))'
<1>1. cur'[r] = NoCursor /\ due'[r] = {}
  BY DEF Typed, TypeOK, NewSearch
<1> QED
  BY <1>1 DEF SearchInOrder, NoneLost, NoCursor

\* Every step keeps what a search can still show.
LEMMA KeptNext ==
  ASSUME Typed, NotAhead, Unmixed, Kept, [Next]_vars PROVE Kept'
<1>t. /\ TypeOK /\ pc \in [Reader -> Step] /\ cur \in [Reader -> Cursor]
      /\ res \in [Reader -> Result \cup {NoResult}]
      /\ got \in [Reader -> SUBSET Message] /\ due \in [Reader -> SUBSET Message]
      /\ gen \in 1..MaxGen /\ next \in 1..(MaxUid + 1) /\ mailbox \in SUBSET (1..MaxUid)
      /\ stale \in [Reader -> BOOLEAN]
  BY DEF Typed, TypeOK
<1>k. UidsBelowNext /\ \A r \in Reader : SearchInOrder(r) /\ NoneLost(r)
  BY DEF Kept
<1>s. ASSUME \A r \in Reader : Same(r), UNCHANGED <<gen, mailbox, next>> PROVE Kept'
  BY <1>k, <1>s, SameKept DEF Kept, UidsBelowNext
<1>r. ASSUME NEW r \in Reader, \A q \in Reader \ {r} : Same(q), UNCHANGED server,
             (SearchInOrder(r) /\ NoneLost(r))'
      PROVE  Kept'
  BY <1>k, <1>r, SameKept DEF Kept, UidsBelowNext, server
<1>1. CASE UNCHANGED vars
  BY <1>1, <1>s DEF vars, server, cache, reader, Same, HasPage
<1>2. CASE Arrive
  <2>1. next' = next + 1 /\ mailbox' = mailbox \cup {next} /\ UNCHANGED <<gen, reader>>
    BY <1>2 DEF Arrive
  <2>2. UidsBelowNext'
    BY <1>k, <1>t, <2>1 DEF UidsBelowNext
  <2>3. ASSUME NEW r \in Reader PROVE (SearchInOrder(r) /\ NoneLost(r))'
    <3>1. \A m \in due[r] : StillToCome(m, r) => StillToCome(m, r)'
      BY <2>1 DEF StillToCome, reader, OnPageOrOlder, SearchGen, SearchNext, HasPage
    <3> QED
      BY <1>k, <2>1, <3>1 DEF SearchInOrder, NoneLost, reader, HasPage
  <2> QED
    BY <2>2, <2>3 DEF Kept
<1>3. CASE Evict
  BY <1>3, <1>s DEF Evict, server, reader, Same, HasPage
<1>4. ASSUME NEW u \in 1..MaxUid, Expunge(u) PROVE Kept'
  <2>1. /\ mailbox' = mailbox \ {u}
        /\ \A r \in Reader : due'[r] = due[r] \ {<<gen, u>>}
        /\ UNCHANGED <<gen, next, pc, cur, res, got, stale>>
    BY <1>4 DEF Expunge
  <2>2. UidsBelowNext'
    BY <1>k, <2>1 DEF UidsBelowNext
  <2>3. ASSUME NEW r \in Reader PROVE (SearchInOrder(r) /\ NoneLost(r))'
    <3>1. ASSUME NEW m \in due'[r], StillToCome(m, r) PROVE StillToCome(m, r)'
      <4>1. m \in Message /\ m # <<gen, u>>
        BY <1>t, <2>1, <3>1
      <4>2. m[1] = gen => m[2] \in mailbox'
        BY <2>1, <3>1, <4>1 DEF StillToCome, Message
      <4> QED
        BY <2>1, <3>1, <4>2
        DEF StillToCome, OnPageOrOlder, SearchGen, SearchNext, HasPage
    <3> QED
      BY <1>k, <2>1, <3>1 DEF SearchInOrder, NoneLost, HasPage
  <2> QED
    BY <2>2, <2>3 DEF Kept
<1>5. ASSUME NEW n \in 0..MaxUid, Renew(n) PROVE Kept'
  <2>1. gen' = gen + 1 /\ next' = n + 1 /\ mailbox' = 1..n /\ UNCHANGED reader
    BY <1>5 DEF Renew
  <2>2. UidsBelowNext'
    BY <2>1 DEF UidsBelowNext
  <2>3. ASSUME NEW r \in Reader PROVE (SearchInOrder(r) /\ NoneLost(r))'
    <3>1. ASSUME NEW m \in due[r], StillToCome(m, r) PROVE StillToCome(m, r)'
      <4>1. m[1] \in Nat /\ m[1] <= gen /\ gen \in Nat
        BY <1>t, <3>1 DEF StillToCome, Message
      <4>2. m[1] <= gen' /\ m[1] # gen'
        BY <2>1, <4>1
      <4> QED
        BY <2>1, <3>1, <4>2
        DEF StillToCome, OnPageOrOlder, SearchGen, SearchNext, HasPage, reader
    <3> QED
      BY <1>k, <2>1, <3>1 DEF SearchInOrder, NoneLost, HasPage, reader
  <2> QED
    BY <2>2, <2>3 DEF Kept
<1>6. ASSUME NEW r \in Reader, Begin(r) PROVE Kept'
  <2>1. /\ ~HasPage(r) /\ ~HasPage(r)' /\ pc'[r] = "seen"
        /\ UNCHANGED <<server, res>>
    BY <1>6, <1>t DEF Begin, Goto, HasPage
  <2>2. \A q \in Reader \ {r} : Same(q)
    BY <1>6, <1>t DEF Begin, NewSearch, Goto, HasPage, Same
  <2>3. CASE pc[r] = "ready" /\ UNCHANGED <<cur, got, due, stale>>
    <3>1. Same(r)
      BY <2>1, <2>3 DEF Same
    <3> QED
      BY <1>s, <2>1, <2>2, <3>1 DEF server
  <2>4. CASE NewSearch(r)
    BY <1>r, <2>1, <2>2, <2>4, NewSearchKept
  <2> QED
    BY <1>6, <2>3, <2>4 DEF Begin
<1>7. ASSUME NEW r \in Reader, SeeMarker(r) PROVE Kept'
  BY <1>7, <1>s, <1>t DEF SeeMarker, Goto, Same, HasPage, server
<1>8. ASSUME NEW r \in Reader, SearchLive(r) PROVE Kept'
  <2>1. \A q \in Reader \ {r} : Same(q)
    BY <1>8, <1>t DEF SearchLive, Goto, HasPage, Same
  <2> QED
    BY <1>8, <1>r, <2>1, SearchLiveKept DEF SearchLive
<1>9. ASSUME NEW r \in Reader, SearchFails(r) PROVE Kept'
  BY <1>9, <1>s, <1>t DEF SearchFails, Goto, Same, HasPage, server
<1>10. ASSUME NEW r \in Reader, CommitMarker(r) PROVE Kept'
  BY <1>10, <1>s, <1>t DEF CommitMarker, Goto, Same, HasPage, server
<1>11. ASSUME NEW r \in Reader, CacheScoped(r) PROVE Kept'
  BY <1>11, <1>s, <1>t DEF CacheScoped, Goto, Same, HasPage, server
<1>12. ASSUME NEW r \in Reader, CacheIndex(r) PROVE Kept'
  BY <1>12, <1>s, <1>t DEF CacheIndex, Goto, Same, HasPage, server
<1>13. ASSUME NEW r \in Reader, CacheFails(r) PROVE Kept'
  BY <1>13, <1>s, <1>t DEF CacheFails, Goto, Same, HasPage, server
<1>14. ASSUME NEW r \in Reader, ReturnPage(r) PROVE Kept'
  <2>1. \A q \in Reader \ {r} : Same(q)
    BY <1>14, <1>t DEF ReturnPage, Forget, Goto, HasPage, Same
  <2> QED
    BY <1>14, <1>r, <2>1, ReturnPageKept DEF ReturnPage
<1>15. ASSUME NEW r \in Reader, ReadScoped(r) PROVE Kept'
  <2>1. \A q \in Reader \ {r} : Same(q)
    BY <1>15, <1>t DEF ReadScoped, Take, Goto, HasPage, Same
  <2>2. /\ ~HasPage(r) /\ ~HasPage(r)' /\ pc'[r] # "done"
        /\ UNCHANGED <<server, cur, got, due, stale>>
    BY <1>15, <1>t DEF ReadScoped, Take, Goto, HasPage
  <2>3. (SearchInOrder(r) /\ NoneLost(r))'
    BY <1>k, <2>2
    DEF SearchInOrder, NoneLost, StillToCome, SearchGen, SearchNext, server
  <2> QED
    BY <1>r, <2>1, <2>2, <2>3
<1>16. ASSUME NEW r \in Reader, ReadIndex(r) PROVE Kept'
  <2>1. \A q \in Reader \ {r} : Same(q)
    BY <1>16, <1>t DEF ReadIndex, Take, Goto, HasPage, Same
  <2>2. /\ ~HasPage(r) /\ ~HasPage(r)' /\ pc'[r] # "done"
        /\ UNCHANGED <<server, cur, got, due, stale>>
    BY <1>16, <1>t DEF ReadIndex, Take, Goto, HasPage
  <2>3. (SearchInOrder(r) /\ NoneLost(r))'
    BY <1>k, <2>2
    DEF SearchInOrder, NoneLost, StillToCome, SearchGen, SearchNext, server
  <2> QED
    BY <1>r, <2>1, <2>2, <2>3
<1>17. ASSUME NEW r \in Reader, CheckMarker(r) PROVE Kept'
  <2>1. \A q \in Reader \ {r} : Same(q)
    BY <1>17, <1>t DEF CheckMarker, Goto, HasPage, Same
  <2>2. UNCHANGED <<server, cur, got, due>> /\ ~HasPage(r) /\ pc'[r] # "done"
    BY <1>17, <1>t DEF CheckMarker, Goto, HasPage
  <2>3. stale'[r] = TRUE \/ (stale'[r] = stale[r] /\ ~HasPage(r)')
    BY <1>17, <1>t DEF CheckMarker, Goto, HasPage
  <2>4. (SearchInOrder(r) /\ NoneLost(r))'
    BY <1>k, <2>2, <2>3
    DEF SearchInOrder, NoneLost, StillToCome, SearchGen, SearchNext, server
  <2> QED
    BY <1>r, <2>1, <2>2, <2>4
<1>18. ASSUME NEW r \in Reader, Quit(r) PROVE Kept'
  <2>1. \A q \in Reader \ {r} : Same(q)
    BY <1>18, <1>t DEF Quit, Forget, NewSearch, Goto, HasPage, Same
  <2>2. ~HasPage(r)' /\ UNCHANGED server /\ NewSearch(r)
    BY <1>18, <1>t DEF Quit, Goto, HasPage
  <2> QED
    BY <1>r, <2>1, <2>2, NewSearchKept
<1> QED
  BY <1>1, <1>2, <1>3, <1>4, <1>5, <1>6, <1>7, <1>8, <1>9, <1>10, <1>11, <1>12,
     <1>13, <1>14, <1>15, <1>16, <1>17, <1>18 DEF Next

-----------------------------------------------------------------------------
(* The results.                                                             *)

IInv == Typed /\ NotAhead /\ Unmixed /\ Divided /\ Kept

\* The parts together are inductive.
LEMMA MailboxInvariance == Spec => []IInv
<1>1. Init => IInv
  BY TypeInit, NotAheadInit, UnmixedInit, DividedInit, KeptInit DEF IInv
<1>2. IInv /\ [Next]_vars => IInv'
  BY TypeNext, NotAheadNext, UnmixedNext, DividedNext, KeptNext DEF IInv
<1> QED
  BY <1>1, <1>2, PTL DEF Spec

\* The variables of MailboxCache keep their types, cursors and cached snapshots
\* among them.
THEOREM TypeCorrect == Spec => []TypeOK
<1>1. IInv => TypeOK
  BY DEF IInv, Typed
<1> QED
  BY <1>1, MailboxInvariance, PTL

\* While a generation of the mailbox is cached, a read that took long never puts
\* an older one in its place: the compare-and-set of commitMailboxUIDValidity is
\* enough. Of what follows an eviction of the marker this says nothing: a slow read
\* that saw none may then put back an older generation than was evicted.
THEOREM GenerationsAdvance == Spec => MarkerAdvances
<1>1. IInv /\ [Next]_vars => [marker # 0 /\ marker' # 0 => marker' >= marker]_vars
  BY MarkerStep DEF IInv
<1> QED
  BY <1>1, MailboxInvariance, PTL DEF Spec, MarkerAdvances

\* No page of SearchMessagesContext repeats a message of the pages before it.
THEOREM NoRepetition == Spec => []NothingRepeated
<1>1. IInv => NothingRepeated
  <2> SUFFICES ASSUME IInv, NEW r \in Reader, pc[r] = "page",
                      NEW m \in res[r].msgs \cap got[r]
               PROVE  FALSE
    BY DEF NothingRepeated
  <2>1. m[2] \in Nat /\ cur[r].before \in Nat
    BY DEF IInv, Typed, TypeOK, Message, Cursor
  <2> QED
    BY <2>1 DEF IInv, Divided, HasPage
<1> QED
  BY <1>1, MailboxInvariance, PTL

\* The pages of one search are of one generation, wherever they came from.
THEOREM OneGenerationOnly == Spec => []OneGeneration
<1>1. IInv => OneGeneration
  BY DEF IInv, Unmixed, OneGeneration
<1> QED
  BY <1>1, MailboxInvariance, PTL

\* A search that got all its pages from the provider has shown every message
\* that was there from its first page to its last, whatever arrived, was
\* expunged, or was cached by others meanwhile, and however little room other
\* connections left it on a page.
THEOREM NoneSkipped == Spec => []NothingSkipped
<1>1. IInv => NothingSkipped
  BY DEF IInv, Kept, NoneLost, NothingSkipped
<1> QED
  BY <1>1, MailboxInvariance, PTL

-----------------------------------------------------------------------------
(* One search at a time, where nothing fails or is lost.                    *)

\* No two searches overlap: the snapshot has room for the pages of one search,
\* and another's first page takes their place.
Lone == \A r, s \in Reader : r = s

\* r is at work on a page, or between two pages.
Active(r) == pc[r] \notin {"idle", "done"}

\* r does not write the cache any more: its mailbox has been recreated.
Offline(r) == stale[r] \/ pc[r] \in {"cached", "broad", "check"}

\* A page that r has from the provider is whole.
WholePage(r) ==
  /\ res[r].gen <= gen /\ \A m \in res[r].msgs : m[2] < SearchNext(r)
  /\ res[r].gen = gen =>
       /\ SearchNext(r) <= res[r].next /\ res[r].next <= next
       /\ \A m \in Live :
            /\ m[2] < SearchNext(r)
            /\ cur[r].before = 0 \/ m[2] < cur[r].before
            => OnPageOrOlder(m, r)

\* The snapshot is r's, and has all that r's pages had, up to its cursor.
SnapshotFollows(r) ==
  /\ scoped.gen = cur[r].gen /\ scoped.next = cur[r].next
  /\ cur[r].before # 0 /\ cur[r].gen = gen =>
       \A m \in Live : cur[r].before <= m[2] /\ m[2] < cur[r].next
                        => m \in scoped.msgs

\* The snapshot has r's page.
PageIsCached(r) ==
  /\ scoped.gen = res[r].gen /\ scoped.next = SearchNext(r)
  /\ res[r].msgs \subseteq scoped.msgs
  /\ pc[r] = "index" => merged[r] = scoped.msgs /\ scoped.more = res[r].more

Undisturbed(r) ==
  Active(r) =>
    /\ cur[r].gen <= gen /\ (cur[r].gen = gen => cur[r].next <= next)
    /\ Offline(r) => cur[r].gen \notin {0, gen}
    /\ pc[r] \in {"search", "commit"} => seen[r] = marker
    /\ pc[r] \in {"commit", "scoped", "index"} =>
         /\ ~stale[r]
         /\ \A m \in index.msgs : m[1] = res[r].gen => m[2] < res[r].next
    /\ cur[r].next # 0 => SnapshotFollows(r)
    /\ HasPage(r) /\ ~stale[r] => WholePage(r)
    /\ pc[r] \in {"index", "page"} /\ ~stale[r] => PageIsCached(r)

\* What the cache says of the current generation.
CacheInOrder ==
  /\ scoped.gen <= gen /\ \A m \in scoped.msgs : m[2] < scoped.next
  /\ scoped.gen = gen => scoped.next <= next
  /\ SnapshotIsComplete
  /\ \A m \in index.msgs : m[1] <= gen /\ (m[1] = gen => m[2] < next)

QuietInv == ~faulty => CacheInOrder /\ \A r \in Reader : Undisturbed(r)

\* What the lemmas below are about, in the types that they need.
LEMMA QuietTypes ==
  ASSUME Typed, NEW r \in Reader
  PROVE  /\ gen \in Nat \ {0} /\ next \in Nat \ {0} /\ mailbox \subseteq Nat
         /\ cur[r].gen \in Nat /\ cur[r].next \in Nat /\ cur[r].before \in Nat
         /\ res[r].gen \in Nat /\ res[r].next \in Nat /\ res[r].msgs \subseteq Message
         /\ scoped.gen \in Nat /\ scoped.next \in Nat /\ scoped.msgs \subseteq Message
         /\ index.gen \in Nat /\ index.next \in Nat /\ index.msgs \subseteq Message
         /\ \A m \in Message : m[1] \in Nat \ {0} /\ m[2] \in Nat \ {0}
         /\ HasPage(r) => res[r] \in Result
<1>1. /\ gen \in 1..MaxGen /\ next \in 1..(MaxUid + 1) /\ mailbox \in SUBSET (1..MaxUid)
      /\ cur[r] \in Cursor /\ res[r] \in Result \cup {NoResult}
      /\ scoped \in Result \cup {NoResult} /\ index \in Result \cup {NoResult}
  BY DEF Typed, TypeOK
<1> QED
  BY <1>1, BoundAssumption
  DEF BoundAssumption, Typed, PageIsThere, Cursor, Result, NoResult, Message

\* Nobody is at work at first, and there is no cache.
LEMMA QuietInit == Init => QuietInv
<1> SUFFICES ASSUME Init PROVE CacheInOrder /\ \A r \in Reader : Undisturbed(r)
  BY DEF QuietInv
<1>1. CacheInOrder
  BY DEF Init, CacheInOrder, SnapshotIsComplete, NoResult
<1>2. \A r \in Reader : Undisturbed(r)
  BY DEF Init, Undisturbed, Active
<1> QED
  BY <1>1, <1>2

\* Messages come, go, and begin again.
LEMMA ArriveQuiet ==
  ASSUME Typed, NotAhead, Unmixed, QuietInv, ~faulty, Arrive
  PROVE  CacheInOrder' /\ \A r \in Reader : Undisturbed(r)'
<1>1. /\ next' = next + 1 /\ mailbox' = mailbox \cup {next}
      /\ UNCHANGED <<gen, cache, reader>>
  BY DEF Arrive
<1>2. \A m \in Live' : m \in Live \/ m[2] = next
  BY <1>1 DEF Live
<1>3. CacheInOrder
  BY DEF QuietInv
<1>4. /\ gen \in Nat /\ next \in Nat /\ scoped.next \in Nat
      /\ \A m \in index.msgs : m[2] \in Nat
  BY DEF Typed, TypeOK, Result, NoResult, Message
<1>5. CacheInOrder'
  <2>1. SnapshotIsComplete'
    BY <1>1, <1>2, <1>3, <1>4 DEF CacheInOrder, SnapshotIsComplete, Uid, cache
  <2> QED
    BY <1>1, <1>3, <1>4, <2>1 DEF CacheInOrder, cache
<1>6. ASSUME NEW r \in Reader PROVE Undisturbed(r)'
  <2>1. Undisturbed(r) /\ (SearchNext(r)' = SearchNext(r)) /\ (HasPage(r)' <=> HasPage(r))
    BY <1>1 DEF QuietInv, SearchNext, HasPage, reader
  <2>2. cur[r].next \in Nat /\ res[r].next \in Nat /\ SearchNext(r) \in Nat
    BY QuietTypes DEF SearchNext
  <2>3. WholePage(r) => WholePage(r)'
    BY <1>1, <1>2, <1>4, <2>1, <2>2 DEF WholePage, OnPageOrOlder, reader
  <2>4. /\ SnapshotFollows(r) /\ (cur[r].gen = gen => cur[r].next <= next)
        => SnapshotFollows(r)'
    BY <1>1, <1>2, <1>4, <2>2 DEF SnapshotFollows, reader, cache
  <2>5. PageIsCached(r) => PageIsCached(r)'
    BY <1>1, <2>1 DEF PageIsCached, reader, cache
  <2> QED
    BY <1>1, <1>4, <2>1, <2>2, <2>3, <2>4, <2>5
    DEF Undisturbed, Active, Offline, reader, cache
<1> QED
  BY <1>5, <1>6

\* Nothing that the snapshot must have comes back.
LEMMA ExpungeQuiet ==
  ASSUME Typed, QuietInv, ~faulty, NEW u \in 1..MaxUid, Expunge(u)
  PROVE  CacheInOrder' /\ \A r \in Reader : Undisturbed(r)'
<1>1. /\ mailbox' = mailbox \ {u}
      /\ UNCHANGED <<gen, next, cache, pc, cur, seen, res, merged, stale>>
  BY DEF Expunge
<1>2. Live' \subseteq Live
  BY <1>1 DEF Live
<1>3. CacheInOrder'
  BY <1>1, <1>2 DEF QuietInv, CacheInOrder, SnapshotIsComplete, cache
<1>4. ASSUME NEW r \in Reader PROVE Undisturbed(r)'
  <2>1. Undisturbed(r) /\ (SearchNext(r)' = SearchNext(r)) /\ (HasPage(r)' <=> HasPage(r))
    BY <1>1 DEF QuietInv, SearchNext, HasPage
  <2>2. WholePage(r) => WholePage(r)'
    BY <1>1, <1>2, <2>1 DEF WholePage, OnPageOrOlder
  <2>3. SnapshotFollows(r) => SnapshotFollows(r)'
    BY <1>1, <1>2 DEF SnapshotFollows, cache
  <2>4. PageIsCached(r) => PageIsCached(r)'
    BY <1>1, <2>1 DEF PageIsCached, cache
  <2> QED
    BY <1>1, <2>1, <2>2, <2>3, <2>4 DEF Undisturbed, Active, Offline, cache
<1> QED
  BY <1>3, <1>4

\* The snapshot, and every page under way, is of an older generation then.
LEMMA RenewQuiet ==
  ASSUME Typed, QuietInv, ~faulty, NEW n \in 0..MaxUid, Renew(n)
  PROVE  CacheInOrder' /\ \A r \in Reader : Undisturbed(r)'
<1>1. gen' = gen + 1 /\ gen \in Nat /\ UNCHANGED <<cache, reader>>
  BY DEF Renew, Typed, TypeOK
<1>2. CacheInOrder'
  <2>1. CacheInOrder /\ scoped.gen \in Nat /\ \A m \in index.msgs : m[1] \in Nat
    BY DEF QuietInv, Typed, TypeOK, Result, NoResult, Message
  <2> QED
    BY <1>1, <2>1 DEF CacheInOrder, SnapshotIsComplete, cache
<1>3. ASSUME NEW r \in Reader PROVE Undisturbed(r)'
  <2>1. Undisturbed(r) /\ (SearchNext(r)' = SearchNext(r)) /\ (HasPage(r)' <=> HasPage(r))
    BY <1>1 DEF QuietInv, SearchNext, HasPage, reader
  <2>2. cur[r].gen \in Nat /\ res[r].gen \in Nat
    BY QuietTypes
  <2>3. WholePage(r) => WholePage(r)'
    BY <1>1, <2>1, <2>2 DEF WholePage, reader
  <2>4. cur[r].gen <= gen /\ SnapshotFollows(r) => SnapshotFollows(r)'
    BY <1>1, <2>2 DEF SnapshotFollows, reader, cache
  <2>5. PageIsCached(r) => PageIsCached(r)'
    BY <1>1, <2>1 DEF PageIsCached, reader, cache
  <2> QED
    BY <1>1, <2>1, <2>2, <2>3, <2>4, <2>5 DEF Undisturbed, Active, Offline, reader, cache
<1> QED
  BY <1>2, <1>3

\* The steps of a search, by one reader. What they all know:
Reading(r) ==
  /\ Typed /\ NotAhead /\ Unmixed /\ Kept /\ CacheInOrder /\ Undisturbed(r)
  /\ r \in Reader /\ ~faulty

\* A step that leaves the cache, the cursor and the page alone.
LEMMA MoveQuiet ==
  ASSUME NEW r, Reading(r), Active(r),
         UNCHANGED <<server, cache, cur, res, merged, stale>>,
         HasPage(r)' => HasPage(r),
         Offline(r)' => cur[r].gen \notin {0, gen},
         pc'[r] \in {"search", "commit"} => seen'[r] = marker,
         pc'[r] \in {"commit", "scoped", "index"} => pc[r] = pc'[r],
         pc'[r] = "page" => pc[r] = "page"
  PROVE  CacheInOrder' /\ Undisturbed(r)'
<1>1. CacheInOrder'
  BY DEF Reading, CacheInOrder, SnapshotIsComplete, Live, server, cache
<1>2. (SearchNext(r)' = SearchNext(r)) /\ UNCHANGED <<gen, next>> /\ (Live' = Live)
  BY DEF SearchNext, Live, server
<1>3. /\ WholePage(r) => WholePage(r)'
      /\ SnapshotFollows(r) => SnapshotFollows(r)'
      /\ PageIsCached(r) /\ (pc'[r] = "index" => pc[r] = "index") => PageIsCached(r)'
  BY <1>2 DEF WholePage, OnPageOrOlder, SnapshotFollows, PageIsCached, cache
<1>4. Undisturbed(r)'
  BY <1>2, <1>3 DEF Reading, Undisturbed, cache
<1> QED
  BY <1>1, <1>4

\* A search begins, or goes on from its cursor.
LEMMA BeginQuiet ==
  ASSUME NEW r, Reading(r), Begin(r) PROVE CacheInOrder' /\ Undisturbed(r)'
<1>1. /\ Typed /\ r \in Reader /\ pc'[r] = "seen" /\ UNCHANGED <<server, cache, seen, res, merged>>
  BY DEF Reading, Begin, Goto, Typed, TypeOK
<1>2. CASE pc[r] = "ready" /\ UNCHANGED <<cur, got, due, stale>>
  BY <1>1, <1>2, MoveQuiet DEF Active, HasPage, Offline, Reading, Undisturbed
<1>3. CASE NewSearch(r)
  <2>1. CacheInOrder'
    BY <1>1 DEF Reading, CacheInOrder, SnapshotIsComplete, Live, server, cache
  <2>2. cur'[r] = NoCursor /\ ~stale'[r]
    BY <1>1, <1>3 DEF NewSearch, Typed, TypeOK
  <2>3. gen \in Nat \ {0} /\ UNCHANGED gen
    BY <1>1, QuietTypes DEF server
  <2>4. Undisturbed(r)'
    BY <1>1, <2>2, <2>3 DEF Undisturbed, Offline, HasPage, NoCursor
  <2> QED
    BY <2>1, <2>4
<1> QED
  BY <1>2, <1>3 DEF Begin

\* No one else changes the marker from here to the commit.
LEMMA SeeMarkerQuiet ==
  ASSUME NEW r, Reading(r), SeeMarker(r) PROVE CacheInOrder' /\ Undisturbed(r)'
<1>1. pc[r] = "seen" /\ pc'[r] = "search" /\ seen'[r] = marker
      /\ UNCHANGED <<server, cache, cur, res, merged, stale>>
  BY DEF Reading, SeeMarker, Goto, Typed, TypeOK
<1>2. Offline(r)' => cur[r].gen \notin {0, gen}
  BY <1>1 DEF Reading, Undisturbed, Active, Offline
<1> QED
  BY <1>1, <1>2, MoveQuiet DEF Active, HasPage

\* Only because the mailbox has been recreated.
LEMMA SearchFailsQuiet ==
  ASSUME NEW r, Reading(r), SearchFails(r) PROVE CacheInOrder' /\ Undisturbed(r)'
<1>1. /\ pc[r] = "search" /\ pc'[r] \in {"cached", "ready"}
      /\ cur[r].gen \notin {0, gen}
      /\ UNCHANGED <<server, cache, cur, res, merged, stale>>
  BY DEF Reading, SearchFails, SameGeneration, Goto, Typed, TypeOK
<1> QED
  BY <1>1, MoveQuiet DEF Active, HasPage

\* The page has all of what is left, or the newest of it.
LEMMA SearchLiveQuiet ==
  ASSUME NEW r, Reading(r), SearchLive(r) PROVE CacheInOrder' /\ Undisturbed(r)'
<1> DEFINE S == After(Live, cur[r])
           page == PageOf(S, gen, next)
<1>1. /\ Typed /\ r \in Reader /\ pc[r] = "search" /\ pc'[r] = "commit" /\ res'[r] = page
      /\ cur[r].gen \in {0, gen}
      /\ UNCHANGED <<server, cache, cur, seen, merged, stale>>
  BY DEF Reading, SearchLive, SameGeneration, Goto, Typed, TypeOK
<1>2. CacheInOrder'
  BY <1>1 DEF Reading, CacheInOrder, SnapshotIsComplete, Live, server, cache
<1>3. ~stale[r] /\ seen[r] = marker /\ (cur[r].gen = gen => cur[r].next <= next)
      /\ (cur[r].next # 0 => SnapshotFollows(r))
  BY <1>1 DEF Reading, Undisturbed, Active, Offline
<1>4. /\ page.gen = gen /\ page.next = next /\ page.msgs \subseteq S
      /\ S \in SUBSET Message
  <2>1. gen \in 1..MaxGen /\ mailbox \in SUBSET (1..MaxUid)
    BY <1>1 DEF Typed, TypeOK
  <2>2. Live \in SUBSET Message
    BY <2>1 DEF Live, Message
  <2> QED
    BY <2>2 DEF PageOf, Newest, After
<1>5. \A m \in S : m \in page.msgs \/ (page.more /\ \A x \in page.msgs : m[2] < x[2])
  BY <1>4, PageOrOlder
<1> HIDE DEF page
<1>6. SearchNext(r)' = IF cur[r].next = 0 THEN next ELSE cur[r].next
  BY <1>1, <1>4 DEF SearchNext
<1>7. gen \in Nat \ {0} /\ next \in Nat /\ cur[r].next \in Nat /\ UNCHANGED <<gen, next>>
      /\ (Live' = Live)
  BY <1>1, QuietTypes DEF server, Live
<1>8. cur[r].next # 0 => cur[r].gen = gen
  BY <1>1, <1>3 DEF Reading, Kept, SearchInOrder
<1>9. \A m \in Live : m[2] < next
  BY <1>1, <1>7 DEF Reading, Kept, UidsBelowNext, Live, Typed, TypeOK
<1>10. WholePage(r)'
  <2>1. \A m \in page.msgs : m[2] < SearchNext(r)'
    BY <1>4, <1>6, <1>9 DEF After, Uid
  <2>2. SearchNext(r)' <= next
    BY <1>3, <1>6, <1>7, <1>8
  <2>3. ASSUME NEW m \in Live, m[2] < SearchNext(r)',
               cur[r].before = 0 \/ m[2] < cur[r].before
        PROVE  m \in S
    BY <1>6, <2>3 DEF After, Uid
  <2> QED
    BY <1>1, <1>4, <1>5, <1>7, <2>1, <2>2, <2>3 DEF WholePage, OnPageOrOlder
<1>11. SnapshotFollows(r) => SnapshotFollows(r)'
  BY <1>1, <1>7 DEF SnapshotFollows, cache
<1>12. \A m \in index.msgs : m[1] = gen => m[2] < next
  BY DEF Reading, CacheInOrder
<1>13. Undisturbed(r)'
  BY <1>1, <1>3, <1>4, <1>7, <1>10, <1>11, <1>12
  DEF Reading, Undisturbed, Active, Offline, cache
<1> QED
  BY <1>2, <1>13

\* The marker is what it was, and is written.
LEMMA CommitMarkerQuiet ==
  ASSUME NEW r, Reading(r), CommitMarker(r) PROVE CacheInOrder' /\ Undisturbed(r)'
<1>1. /\ pc[r] = "commit" /\ seen[r] = marker
  BY DEF Reading, CommitMarker, Undisturbed, Active
<1>2. /\ pc'[r] = "scoped"
      /\ UNCHANGED <<server, scoped, index, cur, seen, res, merged, stale>>
  BY <1>1 DEF Reading, CommitMarker, MarkerUnchanged, Goto, Typed, TypeOK
<1>3. CacheInOrder'
  BY <1>2 DEF Reading, CacheInOrder, SnapshotIsComplete, Live, server
<1>4. (SearchNext(r)' = SearchNext(r)) /\ UNCHANGED <<gen, next>> /\ (Live' = Live)
  BY <1>2 DEF SearchNext, Live, server
<1>5. /\ WholePage(r) => WholePage(r)'
      /\ SnapshotFollows(r) => SnapshotFollows(r)'
  BY <1>2, <1>4 DEF WholePage, OnPageOrOlder, SnapshotFollows
<1>6. Undisturbed(r)'
  BY <1>1, <1>2, <1>4, <1>5 DEF Reading, Undisturbed, Active, Offline, HasPage
<1> QED
  BY <1>3, <1>6

\* The snapshot becomes the page, or the page is added to it.
LEMMA CacheScopedQuiet ==
  ASSUME NEW r, Reading(r), CacheScoped(r) PROVE CacheInOrder' /\ Undisturbed(r)'
<1>1. /\ Typed /\ r \in Reader /\ pc[r] = "scoped" /\ res[r] \in Result
      /\ UNCHANGED <<server, marker, index, cur, seen, res, stale>>
      /\ merged'[r] = scoped'.msgs
  BY DEF Reading, CacheScoped, Typed, TypeOK, PageIsThere, HasPage
<1>2. /\ Fresh(r) \in Result /\ Fresh(r).gen = res[r].gen
      /\ Fresh(r).msgs = res[r].msgs /\ Fresh(r).more = res[r].more
      /\ Fresh(r).next = SearchNext(r)
  BY <1>1, FreshPage DEF Typed, TypeOK, Fresh, SearchNext, Result
<1>3. /\ WholePage(r) /\ ~stale[r] /\ (cur[r].next # 0 => SnapshotFollows(r))
      /\ \A m \in index.msgs : m[1] = res[r].gen => m[2] < res[r].next
  BY <1>1 DEF Reading, Undisturbed, Active, HasPage
<1>4. /\ cur[r].next # 0 => cur[r].gen = res[r].gen
      /\ cur[r].before # 0 => cur[r].next # 0
      /\ res[r].gen # 0
  BY <1>1 DEF Reading, Kept, SearchInOrder, Unmixed, HasPage, NoCursor, Result
<1>5. gen \in Nat /\ next \in Nat /\ SearchNext(r) \in Nat /\ res[r].next \in Nat
  BY <1>1, QuietTypes DEF SearchNext
<1>6. /\ scoped'.gen = res[r].gen /\ scoped'.next = SearchNext(r)
      /\ scoped'.more = res[r].more /\ pc'[r] = "index"
      /\ \/ cur[r].before = 0 /\ scoped'.msgs = res[r].msgs
         \/ cur[r].before # 0 /\ scoped'.msgs = res[r].msgs \cup scoped.msgs
  <2>1. CASE cur[r].before = 0
    BY <1>1, <1>2, <2>1 DEF CacheScoped, Goto, Typed, TypeOK
  <2>2. CASE cur[r].before # 0
    <3>1. scoped.gen = res[r].gen /\ scoped.next = SearchNext(r)
      BY <1>3, <1>4, <2>2 DEF SnapshotFollows, SearchNext
    <3>2. scoped # NoResult /\ Continues(r)
      BY <1>2, <1>4, <3>1 DEF NoResult, Continues
    <3>3. scoped' = Merged(r) /\ pc'[r] = "index"
      BY <1>1, <2>2, <3>2 DEF CacheScoped, Goto, Typed, TypeOK
    <3> QED
      BY <1>2, <2>2, <3>3 DEF Merged, Result
  <2> QED
    BY <2>1, <2>2
<1>7. /\ UNCHANGED <<gen, next>> /\ (Live' = Live) /\ (SearchNext(r)' = SearchNext(r))
      /\ WholePage(r)'
  BY <1>1, <1>3 DEF server, Live, SearchNext, WholePage, OnPageOrOlder
<1>8. cur[r].before # 0 => SnapshotFollows(r) /\ SearchNext(r) = cur[r].next
                           /\ cur[r].gen = res[r].gen
  BY <1>3, <1>4 DEF SearchNext
<1>9. cur[r].next # 0 => SnapshotFollows(r)'
  <2>1. ASSUME cur[r].next # 0, cur[r].before # 0 PROVE SnapshotFollows(r)'
    BY <1>1, <1>6, <1>7, <1>8, <2>1 DEF SnapshotFollows
  <2>2. ASSUME cur[r].next # 0, cur[r].before = 0 PROVE SnapshotFollows(r)'
    BY <1>1, <1>4, <1>6, <2>2 DEF SnapshotFollows, SearchNext
  <2> QED
    BY <2>1, <2>2
<1>10. PageIsCached(r)'
  BY <1>1, <1>6, <1>7 DEF PageIsCached
<1>11. Undisturbed(r)'
  BY <1>1, <1>3, <1>6, <1>7, <1>9, <1>10
  DEF Reading, Undisturbed, Active, Offline, HasPage
<1>12. \A m \in scoped'.msgs : m[2] < scoped'.next
  <2>1. \A m \in res[r].msgs : m[2] < SearchNext(r)
    BY <1>3 DEF WholePage
  <2>2. \A m \in scoped.msgs : m[2] < scoped.next
    BY DEF Reading, CacheInOrder
  <2> QED
    BY <1>6, <1>8, <2>1, <2>2 DEF SnapshotFollows
<1>13. SnapshotIsComplete'
  <2> SUFFICES ASSUME ~res[r].more, res[r].gen = gen, NEW m \in Live,
                      m[2] < SearchNext(r)
               PROVE  m \in scoped'.msgs
    BY <1>6, <1>7 DEF SnapshotIsComplete, Uid
  <2>1. CASE cur[r].before = 0 \/ m[2] < cur[r].before
    BY <1>3, <1>6, <2>1 DEF WholePage, OnPageOrOlder
  <2>2. CASE cur[r].before # 0 /\ ~(m[2] < cur[r].before)
    <3>1. cur[r].before <= m[2]
      BY <1>1, <2>2, QuietTypes DEF Live
    <3> QED
      BY <1>6, <1>8, <2>2, <3>1 DEF SnapshotFollows
  <2> QED
    BY <2>1, <2>2
<1>14. CacheInOrder'
  <2>1. res[r].gen <= gen /\ (res[r].gen = gen => SearchNext(r) <= next)
    BY <1>3, <1>5 DEF WholePage
  <2> QED
    BY <1>1, <1>6, <1>7, <1>12, <1>13, <2>1 DEF Reading, CacheInOrder
<1> QED
  BY <1>11, <1>14

\* The index gets the page, or all pages of the search: of what it had, the
\* mailbox has no message any more that it loses.
LEMMA CacheIndexQuiet ==
  ASSUME NEW r, Reading(r), CacheIndex(r)
  PROVE  CacheInOrder' /\ Undisturbed(r)' /\ KeepsIndex
<1>1. /\ Typed /\ r \in Reader /\ pc[r] = "index" /\ pc'[r] = "page" /\ res[r] \in Result
      /\ UNCHANGED <<server, marker, scoped, cur, seen, res, merged, stale>>
  BY DEF Reading, CacheIndex, Goto, Typed, TypeOK, PageIsThere, HasPage
<1>2. /\ Fresh(r) \in Result /\ Fresh(r).gen = res[r].gen
      /\ Fresh(r).msgs = res[r].msgs
  BY <1>1, FreshPage DEF Typed, TypeOK
<1>3. /\ WholePage(r) /\ PageIsCached(r) /\ ~stale[r]
      /\ \A m \in index.msgs : m[1] = res[r].gen => m[2] < res[r].next
      /\ merged[r] = scoped.msgs /\ scoped.more = res[r].more
  BY <1>1 DEF Reading, Undisturbed, Active, HasPage, PageIsCached
<1> DEFINE newer == {m \in index.msgs : cur[r].next # 0 /\ Uid(m) >= cur[r].next}
<1>4. /\ index'.gen = res[r].gen
      /\ \/ index.gen # res[r].gen /\ index'.msgs = res[r].msgs
         \/ /\ index.gen = res[r].gen /\ res[r].more
            /\ index'.msgs = res[r].msgs \cup index.msgs
         \/ /\ index.gen = res[r].gen /\ ~res[r].more
            /\ index'.msgs = merged[r] \cup newer
  BY <1>2 DEF CacheIndex, AllPages, Result
<1>5. CacheInOrder /\ UNCHANGED <<gen, next>> /\ (Live' = Live)
  BY <1>1 DEF Reading, server, Live
<1>6. KeepsIndex
  <2> SUFFICES ASSUME index.gen = gen, index'.gen = gen,
                      NEW m \in index.msgs, m \in Live
               PROVE  m \in index'.msgs
    BY DEF KeepsIndex
  <2>1. res[r].gen = gen /\ index.gen = res[r].gen
    BY <1>4
  <2>2. CASE ~res[r].more /\ m[2] < SearchNext(r)
    <3>1. scoped # NoResult /\ scoped.gen = gen /\ scoped.next = SearchNext(r) /\ ~scoped.more
      BY <1>1, <1>3, <2>1, <2>2 DEF PageIsCached, NoResult, Result
    <3>2. m \in scoped.msgs
      BY <1>5, <2>2, <3>1 DEF CacheInOrder, SnapshotIsComplete, Uid
    <3> QED
      BY <1>3, <1>4, <2>1, <2>2, <3>2
  <2>3. CASE ~res[r].more /\ ~(m[2] < SearchNext(r))
    <3>1. m[1] = gen /\ m[2] \in Nat /\ cur[r].next \in Nat /\ res[r].next \in Nat
      BY <1>1, QuietTypes DEF Live
    <3>2. cur[r].next # 0
      BY <1>3, <2>1, <2>3, <3>1 DEF SearchNext
    <3>3. m \in newer
      BY <2>3, <3>1, <3>2 DEF SearchNext, Uid
    <3> QED
      BY <1>4, <2>1, <2>3, <3>3
  <2>4. CASE res[r].more
    BY <1>4, <2>1, <2>4
  <2> QED
    BY <2>2, <2>3, <2>4
<1>7. ASSUME NEW m \in index'.msgs PROVE m[1] <= gen /\ (m[1] = gen => m[2] < next)
  <2>1. CASE m \in index.msgs
    BY <1>5, <2>1 DEF CacheInOrder
  <2>2. CASE m \in scoped.msgs
    <3>1. m[1] = scoped.gen /\ m[2] < scoped.next /\ scoped.gen <= gen
          /\ (scoped.gen = gen => scoped.next <= next)
      BY <1>5, <2>2 DEF CacheInOrder, Reading, Unmixed, AllOf
    <3>2. m[2] \in Nat /\ scoped.next \in Nat /\ next \in Nat
      BY <1>1, <2>2, QuietTypes
    <3> QED
      BY <3>1, <3>2
  <2>3. res[r].msgs \subseteq scoped.msgs
    BY <1>3 DEF PageIsCached
  <2> QED
    BY <1>3, <1>4, <2>1, <2>2, <2>3
<1>8. CacheInOrder'
  BY <1>1, <1>5, <1>7 DEF CacheInOrder, SnapshotIsComplete
<1>9. /\ (SearchNext(r)' = SearchNext(r)) /\ WholePage(r)'
      /\ (SnapshotFollows(r) => SnapshotFollows(r)')
  BY <1>1, <1>3, <1>5 DEF SearchNext, WholePage, OnPageOrOlder, SnapshotFollows
<1>10. PageIsCached(r)'
  BY <1>1, <1>3, <1>9 DEF PageIsCached
<1>11. Undisturbed(r)'
  BY <1>1, <1>3, <1>5, <1>9, <1>10 DEF Reading, Undisturbed, Active, Offline
<1> QED
  BY <1>6, <1>8, <1>11

\* What is before the new cursor is in the snapshot.
LEMMA ReturnPageQuiet ==
  ASSUME NEW r, Reading(r), ReturnPage(r) PROVE CacheInOrder' /\ Undisturbed(r)'
<1>1. /\ Typed /\ TypeOK /\ r \in Reader /\ pc[r] = "page" /\ res[r] \in Result
      /\ cur \in [Reader -> Cursor] /\ pc'[r] \in {"ready", "done"}
      /\ UNCHANGED <<server, cache, stale>>
  BY DEF Reading, ReturnPage, Goto, Typed, TypeOK, PageIsThere, HasPage
<1>2. PICK k \in 0..PageSize : \E b \in BeforeNext(r, Newest(res[r].msgs, k)) :
        cur' = [cur EXCEPT ![r] =
          [before |-> b, gen |-> res[r].gen,
           next |-> IF @.next = 0 THEN res[r].next ELSE @.next]]
  BY DEF ReturnPage
<1> DEFINE shown == Newest(res[r].msgs, k)
<1>3. PICK b \in BeforeNext(r, shown) :
        cur' = [cur EXCEPT ![r] =
          [before |-> b, gen |-> res[r].gen,
           next |-> IF @.next = 0 THEN res[r].next ELSE @.next]]
  BY <1>2
<1>4. /\ cur'[r].before = b /\ cur'[r].gen = res[r].gen
      /\ cur'[r].next = SearchNext(r)
  BY <1>1, <1>3 DEF SearchNext
<1>5. /\ shown \subseteq res[r].msgs /\ shown \in SUBSET Message
      /\ \A m \in Message : m[2] \in Nat
  BY <1>1 DEF Newest, Result, Message
<1>6. /\ shown = {} => b = cur[r].before
      /\ shown # {} => \E x \in shown : b = x[2]
  BY <1>1, <1>3, <1>5, BeforeNextBelow
<1>7. /\ CacheInOrder' /\ UNCHANGED <<gen, next>> /\ (Live' = Live)
  BY <1>1 DEF Reading, CacheInOrder, SnapshotIsComplete, Live, server, cache
<1>8. /\ cur[r].gen # 0 => cur[r].gen = res[r].gen
      /\ cur[r].before # 0 => cur[r].next # 0
      /\ cur[r].next # 0 => cur[r].gen # 0
      /\ cur[r].gen <= gen /\ (cur[r].gen = gen => cur[r].next <= next)
      /\ (cur[r].next # 0 => SnapshotFollows(r))
  BY <1>1 DEF Reading, Kept, SearchInOrder, Unmixed, HasPage, NoCursor, Undisturbed, Active
<1>9. CASE stale[r]
  <2>1. cur[r].gen \notin {0, gen} /\ cur[r].gen = res[r].gen
    BY <1>1, <1>8, <1>9 DEF Reading, Undisturbed, Active, Offline
  <2>2. cur[r].next # 0
    BY <2>1, <1>1 DEF Reading, Kept, SearchInOrder, NoCursor
  <2>3. SearchNext(r) = cur[r].next
    BY <2>2 DEF SearchNext
  <2>4. SnapshotFollows(r)'
    BY <1>1, <1>4, <1>7, <1>8, <2>1, <2>2, <2>3 DEF SnapshotFollows, cache
  <2> QED
    BY <1>1, <1>4, <1>7, <1>8, <2>1, <2>2, <2>3, <2>4
    DEF Undisturbed, Offline, HasPage
<1>10. CASE ~stale[r]
  <2>1. WholePage(r) /\ PageIsCached(r)
    BY <1>1, <1>10 DEF Reading, Undisturbed, Active, HasPage
  <2>2. ASSUME NEW m \in Live, res[r].gen = gen, b # 0, b <= m[2], m[2] < SearchNext(r)
        PROVE  m \in scoped.msgs
    <3>1. m[2] \in Nat /\ cur[r].before \in Nat /\ res[r].msgs \subseteq Message
      BY <1>1, QuietTypes DEF Live
    <3>2. CASE cur[r].before = 0 \/ m[2] < cur[r].before
      <4>1. m \in res[r].msgs \/ \A x \in res[r].msgs : m[2] < x[2]
        BY <2>1, <2>2, <3>2 DEF WholePage, OnPageOrOlder
      <4>2. shown # {}
        BY <1>6, <2>2, <3>1, <3>2
      <4>3. PICK x \in shown : b = x[2]
        BY <1>6, <4>2
      <4>4. ~(m[2] < x[2])
        BY <1>5, <2>2, <3>1, <4>3
      <4> QED
        BY <1>5, <2>1, <4>1, <4>4 DEF PageIsCached
    <3>3. CASE cur[r].before # 0 /\ ~(m[2] < cur[r].before)
      <4>1. cur[r].before <= m[2] /\ cur[r].gen = gen /\ SearchNext(r) = cur[r].next
        BY <1>8, <2>2, <3>1, <3>3 DEF SearchNext
      <4> QED
        BY <1>8, <2>2, <3>3, <4>1 DEF SnapshotFollows
    <3> QED
      BY <3>2, <3>3
  <2>3. SnapshotFollows(r)'
    BY <1>1, <1>4, <1>7, <2>1, <2>2 DEF SnapshotFollows, PageIsCached, cache
  <2>4. /\ res[r].gen <= gen /\ (res[r].gen = gen => SearchNext(r) <= next)
    <3>1. SearchNext(r) \in Nat /\ res[r].next \in Nat /\ next \in Nat
      BY <1>1, QuietTypes DEF SearchNext
    <3> QED
      BY <2>1, <3>1 DEF WholePage
  <2> QED
    BY <1>1, <1>4, <1>7, <1>10, <2>3, <2>4 DEF Undisturbed, Offline, HasPage
<1> QED
  BY <1>9, <1>10

\* A page from the cache is for a cursor of an older generation.
LEMMA OfflineQuiet ==
  ASSUME NEW r, Reading(r), ReadScoped(r) \/ ReadIndex(r) \/ CheckMarker(r)
  PROVE  CacheInOrder' /\ Undisturbed(r)'
<1>1. /\ Active(r) /\ Offline(r) /\ UNCHANGED <<server, cache, cur>>
      /\ pc'[r] \in {"broad", "check", "ready", "page"}
      /\ pc'[r] = "page" => stale'[r]
  BY DEF Reading, ReadScoped, ReadIndex, CheckMarker, Take, Goto, Active, Offline,
     Typed, TypeOK
<1>2. CacheInOrder'
  BY <1>1 DEF Reading, CacheInOrder, SnapshotIsComplete, Live, server, cache
<1>3. /\ UNCHANGED <<gen, next>> /\ (Live' = Live) /\ (SnapshotFollows(r) => SnapshotFollows(r)')
  BY <1>1 DEF server, cache, Live, SnapshotFollows
<1>4. Undisturbed(r)'
  BY <1>1, <1>3 DEF Reading, Undisturbed, HasPage
<1> QED
  BY <1>2, <1>4

\* With one reader, what holds of it holds of all; and nothing but the second
\* Mutate changes the index.
LEMMA QuietNext ==
  ASSUME Lone, Typed, NotAhead, Unmixed, Kept, QuietInv, [Next]_vars
  PROVE  QuietInv' /\ (~faulty => KeepsIndex)
<1>1. (faulty' = faulty)
  BY DEF Next, vars, server, Arrive, Evict, Expunge, Renew, Begin, SeeMarker, SearchLive,
     SearchFails, CommitMarker, CacheScoped, CacheIndex, CacheFails, ReturnPage,
     ReadScoped, ReadIndex, CheckMarker, Quit
<1> SUFFICES ASSUME ~faulty
             PROVE  CacheInOrder' /\ (\A r \in Reader : Undisturbed(r)') /\ KeepsIndex
  BY <1>1 DEF QuietInv
<1>2. (index' = index) => KeepsIndex
  BY DEF KeepsIndex
<1>3. \A r \in Reader : Reading(r)
  BY DEF QuietInv, Reading
<1>4. ASSUME NEW r \in Reader, CacheInOrder' /\ Undisturbed(r)', KeepsIndex
      PROVE  CacheInOrder' /\ (\A q \in Reader : Undisturbed(q)') /\ KeepsIndex
  <2>1. \A q \in Reader : q = r
    BY DEF Lone
  <2> QED
    BY <1>4, <2>1
<1>5. CASE UNCHANGED vars
  <2>1. /\ UNCHANGED <<server, cache, reader>> /\ UNCHANGED <<gen, next>> /\ (Live' = Live)
        /\ (index' = index)
    BY <1>5 DEF vars, server, cache, Live
  <2>2. CacheInOrder'
    BY <2>1, <1>3 DEF QuietInv, CacheInOrder, SnapshotIsComplete, cache
  <2>3. ASSUME NEW r \in Reader PROVE Undisturbed(r)'
    BY <2>1, <1>3 DEF Reading, Undisturbed, Active, Offline, HasPage, WholePage,
       SnapshotFollows, PageIsCached, SearchNext, OnPageOrOlder, cache, reader
  <2> QED
    BY <1>2, <2>1, <2>2, <2>3
<1>6. CASE Arrive
  BY <1>2, <1>6, ArriveQuiet DEF Arrive, cache
<1>7. CASE Evict
  BY <1>7 DEF Evict
<1>8. ASSUME NEW u \in 1..MaxUid, Expunge(u)
      PROVE  CacheInOrder' /\ (\A r \in Reader : Undisturbed(r)') /\ KeepsIndex
  BY <1>2, <1>8, ExpungeQuiet DEF Expunge, cache
<1>9. ASSUME NEW n \in 0..MaxUid, Renew(n)
      PROVE  CacheInOrder' /\ (\A r \in Reader : Undisturbed(r)') /\ KeepsIndex
  BY <1>2, <1>9, RenewQuiet DEF Renew, cache
<1>10. ASSUME NEW r \in Reader, Begin(r) PROVE CacheInOrder' /\ Undisturbed(r)' /\ KeepsIndex
  BY <1>2, <1>3, <1>10, BeginQuiet DEF Begin, cache
<1>11. ASSUME NEW r \in Reader, SeeMarker(r)
       PROVE CacheInOrder' /\ Undisturbed(r)' /\ KeepsIndex
  BY <1>2, <1>3, <1>11, SeeMarkerQuiet DEF SeeMarker, cache
<1>12. ASSUME NEW r \in Reader, SearchLive(r)
       PROVE CacheInOrder' /\ Undisturbed(r)' /\ KeepsIndex
  BY <1>2, <1>3, <1>12, SearchLiveQuiet DEF SearchLive, cache
<1>13. ASSUME NEW r \in Reader, SearchFails(r)
       PROVE CacheInOrder' /\ Undisturbed(r)' /\ KeepsIndex
  BY <1>2, <1>3, <1>13, SearchFailsQuiet DEF SearchFails, cache
<1>14. ASSUME NEW r \in Reader, CommitMarker(r)
       PROVE CacheInOrder' /\ Undisturbed(r)' /\ KeepsIndex
  BY <1>2, <1>3, <1>14, CommitMarkerQuiet DEF CommitMarker
<1>15. ASSUME NEW r \in Reader, CacheScoped(r)
       PROVE CacheInOrder' /\ Undisturbed(r)' /\ KeepsIndex
  BY <1>2, <1>3, <1>15, CacheScopedQuiet DEF CacheScoped
<1>16. ASSUME NEW r \in Reader, CacheIndex(r)
       PROVE CacheInOrder' /\ Undisturbed(r)' /\ KeepsIndex
  BY <1>3, <1>16, CacheIndexQuiet
<1>17. ASSUME NEW r \in Reader, ReturnPage(r)
       PROVE CacheInOrder' /\ Undisturbed(r)' /\ KeepsIndex
  BY <1>2, <1>3, <1>17, ReturnPageQuiet DEF ReturnPage, cache
<1>18. ASSUME NEW r \in Reader, ReadScoped(r) \/ ReadIndex(r) \/ CheckMarker(r)
       PROVE CacheInOrder' /\ Undisturbed(r)' /\ KeepsIndex
  <2>1. (index' = index)
    BY <1>18 DEF ReadScoped, ReadIndex, CheckMarker, cache
  <2> QED
    BY <1>2, <1>3, <1>18, <2>1, OfflineQuiet
<1>19. ASSUME NEW r \in Reader, CacheFails(r) \/ Quit(r) PROVE FALSE
  BY <1>19 DEF CacheFails, Quit
<1> QED
  BY <1>4, <1>5, <1>6, <1>7, <1>8, <1>9, <1>10, <1>11, <1>12, <1>13, <1>14, <1>15,
     <1>16, <1>17, <1>18, <1>19 DEF Next

\* The invariant of one search at a time.
LEMMA QuietInvariance == ASSUME Lone PROVE Spec => []QuietInv
<1>1. IInv /\ QuietInv /\ [Next]_vars => QuietInv'
  BY QuietNext DEF IInv
<1> QED
  BY <1>1, QuietInit, MailboxInvariance, PTL DEF Spec

\* Where searches do not overlap, none fails or stops halfway, and no entry is
\* lost, a snapshot without more has all of its search that the mailbox still
\* has: cacheMailResultDataWithID leaves out no page, though the mailbox
\* changes between the pages and may be recreated.
THEOREM LoneSnapshotIsComplete == ASSUME Lone PROVE Spec => []QuietSnapshotIsComplete
<1>1. QuietInv => QuietSnapshotIsComplete
  BY DEF QuietInv, CacheInOrder, QuietSnapshotIsComplete
<1> QED
  BY <1>1, QuietInvariance, PTL

\* There, its last page drops no message from the index that the mailbox still
\* has.
THEOREM LoneIndexKeeps == ASSUME Lone PROVE Spec => QuietIndexKeepsMessages
<1>1. IInv /\ QuietInv /\ [Next]_vars => [~faulty => KeepsIndex]_vars
  BY QuietNext DEF IInv
<1> QED
  BY <1>1, MailboxInvariance, QuietInvariance, PTL DEF Spec, QuietIndexKeepsMessages
=============================================================================
