-------------------------- MODULE MessageReadsProofs --------------------------
(***************************************************************************)
(* What holds of MessageReads for every number of readers and generations. *)
(***************************************************************************)
EXTENDS MessageReads, TLAPS

\* No stored generation, none that was read and none that was fetched is ahead
\* of the provider, and what is about to be stored is not behind what was read.
NotAhead ==
  /\ marker <= gen
  /\ \A r \in Reader :
       /\ seen[r] <= gen
       /\ pc[r] = "confirm" => seen[r] <= live[r] /\ live[r] <= gen
       /\ pc[r] = "commit" => seen[r] <= res[r].key
       /\ pc[r] \in {"commit", "put", "describe"} => res[r].key <= gen

\* What is cached, or about to be, is what its key says.
Matching ==
  /\ EntriesMatchTheirKeys
  /\ \A r \in Reader : pc[r] \in {"commit", "put", "describe"} =>
       res[r].key # 0 /\ res[r].of = res[r].key /\ res[r].meta = res[r].key

\* While the marker is not lost it follows what readers have read and asked.
Asked ==
  \A r \in Reader :
    /\ mismatch[r] => pc[r] \in {"confirm", "snapshot", "fetch"}
    /\ pc[r] \in {"idle", "probe", "probed", "ask", "live", "commit", "put",
                  "describe", "pieces"} => live[r] = 0
    /\ ~lost =>
         /\ seen[r] <= marker
         /\ pc[r] = "ask" => marker # 0
         /\ pc[r] = "live" => seen[r] # 0
         /\ pc[r] = "confirm" /\ ~mismatch[r] => live[r] = seen[r]
         /\ ~mismatch[r] => live[r] <= marker
         /\ pc[r] = "cached" => live[r] <= seen[r]
         /\ pc[r] \in {"described", "message", "detail", "returned"} =>
              live[r] <= res[r].of

IInv == TypeOK /\ NotAhead /\ Matching /\ Asked /\ DownloadIsOneSnapshot

-----------------------------------------------------------------------------
\* The initial state satisfies all of them.
LEMMA InitInvariant == Init => IInv
<1> SUFFICES ASSUME Init PROVE IInv
  OBVIOUS
<1>1. TypeOK
  <2>1. 1 \in Gen /\ 0 \in Mark
    BY GenAssumption DEF GenAssumption, Gen, Mark
  <2> QED
    BY <2>1 DEF Init, TypeOK, Step, Result, NoResult
<1>2. NotAhead /\ Matching /\ Asked /\ DownloadIsOneSnapshot
  BY DEF Init, NotAhead, Matching, Asked, EntriesMatchTheirKeys,
     DownloadIsOneSnapshot, NoResult
<1> QED
  BY <1>1, <1>2 DEF IInv

\* Zero is a mark, and every generation is.
LEMMA Marks == Mark = Gen \cup {0} /\ 0 \notin Gen /\ Mark \subseteq Nat
  BY GenAssumption DEF GenAssumption, Gen, Mark

\* What is looked up is a mark; zero where the generation is zero.
LEMMA Lookup ==
  ASSUME TypeOK, NEW g \in Mark
  PROVE  /\ At(body, g) \in Mark /\ At(file, g) \in Mark /\ At(meta, g) \in Mark
         /\ EntriesMatchTheirKeys => {At(body, g), At(file, g), At(meta, g)} \subseteq {0, g}
  BY Marks DEF At, TypeOK, EntriesMatchTheirKeys

\* The numbers that are compared.
LEMMA Numbers ==
  ASSUME TypeOK
  PROVE  /\ gen \in Nat \ {0} /\ marker \in Nat
         /\ \A r \in Reader : /\ seen[r] \in Nat /\ live[r] \in Nat
                             /\ res[r].key \in Nat /\ res[r].of \in Nat
  BY Marks DEF TypeOK, Result

(* Every reader has a next step.                                              *)
LEMMA StepNext ==
  ASSUME TypeOK, [Next]_vars PROVE pc' \in [Reader -> Step]
<1>1. CASE UNCHANGED vars
  BY <1>1 DEF vars, server, cache, reader, TypeOK, Step
<1>2. CASE Expunge
  BY <1>2 DEF Expunge, server, cache, reader, TypeOK, Step
<1>3. CASE Renew
  BY <1>3 DEF Renew, server, cache, reader, TypeOK, Step
<1>4. CASE EvictMarker
  BY <1>4 DEF EvictMarker, server, cache, reader, TypeOK, Step
<1>5. ASSUME NEW g \in Gen, Evict(g) PROVE pc' \in [Reader -> Step]
  BY <1>5 DEF Evict, server, cache, reader, TypeOK, Step
<1>6. ASSUME NEW r \in Reader, NEW w \in {"body", "file"}, Begin(r, w)
      PROVE  pc' \in [Reader -> Step]
  BY <1>6 DEF Begin, Goto, TypeOK, Step
<1>7. ASSUME NEW r \in Reader, ReadMarker(r) PROVE pc' \in [Reader -> Step]
  BY <1>7 DEF ReadMarker, Following, Goto, TypeOK, Step
<1>8. ASSUME NEW r \in Reader, Probe(r) PROVE pc' \in [Reader -> Step]
  BY <1>8 DEF Probe, Goto, TypeOK, Step
<1>9. ASSUME NEW r \in Reader, AskLive(r) PROVE pc' \in [Reader -> Step]
  BY <1>9 DEF AskLive, Mismatch, Selected, Goto, TypeOK, Step
<1>10. ASSUME NEW r \in Reader, Confirm(r) PROVE pc' \in [Reader -> Step]
  BY <1>10 DEF Confirm, MarkerUnchanged, Goto, TypeOK, Step
<1>11. ASSUME NEW r \in Reader, Fetch(r) PROVE pc' \in [Reader -> Step]
  BY <1>11 DEF Fetch, Selected, Goto, TypeOK, Step
<1>12. ASSUME NEW r \in Reader, FetchFails(r) PROVE pc' \in [Reader -> Step]
  BY <1>12 DEF FetchFails, Fail, Goto, TypeOK, Step
<1>13. ASSUME NEW r \in Reader, Commit(r) PROVE pc' \in [Reader -> Step]
  BY <1>13 DEF Commit, MarkerUnchanged, Goto, TypeOK, Step
<1>14. ASSUME NEW r \in Reader, Put(r) PROVE pc' \in [Reader -> Step]
  BY <1>14 DEF Put, Key, Goto, TypeOK, Step
<1>15. ASSUME NEW r \in Reader, PutDescription(r) PROVE pc' \in [Reader -> Step]
  BY <1>15 DEF PutDescription, Key, Goto, TypeOK, Step
<1>16. ASSUME NEW r \in Reader, ReadCached(r) PROVE pc' \in [Reader -> Step]
  BY <1>16 DEF ReadCached, Fail, Goto, TypeOK, Step
<1>17. ASSUME NEW r \in Reader, ReadDescription(r) PROVE pc' \in [Reader -> Step]
  BY <1>17 DEF ReadDescription, Goto, TypeOK, Step
<1>18. ASSUME NEW r \in Reader, ReadDetail(r) PROVE pc' \in [Reader -> Step]
  BY <1>18 DEF ReadDetail, Goto, TypeOK, Step
<1>19. ASSUME NEW r \in Reader, Return(r) PROVE pc' \in [Reader -> Step]
  BY <1>19 DEF Return, Fail, Goto, TypeOK, Step
<1>20. ASSUME NEW r \in Reader, Continue(r) PROVE pc' \in [Reader -> Step]
  BY <1>20 DEF Continue, Fail, Goto, TypeOK, Step
<1>21. ASSUME NEW r \in Reader, Quit(r) PROVE pc' \in [Reader -> Step]
  BY <1>21 DEF Quit, Fail, Goto, TypeOK, Step
<1> QED
  BY <1>1, <1>2, <1>3, <1>4, <1>5, <1>6, <1>7, <1>8, <1>9, <1>10,
     <1>11, <1>12, <1>13, <1>14, <1>15, <1>16, <1>17, <1>18, <1>19, <1>20,
     <1>21 DEF Next

\* A read that ends without a result leaves the types as they were.
LEMMA FailTyped ==
  ASSUME TypeOK, NEW r \in Reader, Fail(r), UNCHANGED <<server, cache>>
  PROVE  TypeOK'
<1>1. pc' \in [Reader -> Step]
  BY DEF Fail, Goto, TypeOK, Step
<1> QED
  BY <1>1, Marks DEF Fail, Forget, ForgetSeen, ForgetAsked, server, cache, TypeOK,
     Result, NoResult

(* Every step keeps the types.                                               *)
LEMMA TypeNext ==
  ASSUME TypeOK, [Next]_vars PROVE TypeOK'
<1>p. pc' \in [Reader -> Step]
  BY StepNext
<1>1. CASE UNCHANGED vars
  BY <1>1 DEF vars, server, cache, reader, TypeOK, Result
<1>2. CASE Expunge
  BY <1>2, <1>p, Marks DEF Expunge, server, cache, reader, TypeOK, Result
<1>3. CASE Renew
  <2>1. gen' \in Gen
    BY <1>3, GenAssumption DEF GenAssumption, Renew, TypeOK, Gen
  <2> QED
    BY <1>3, <2>1 DEF Renew, cache, reader, TypeOK
<1>4. CASE EvictMarker
  BY <1>4, <1>p, Marks DEF EvictMarker, server, cache, reader, TypeOK, Result
<1>5. ASSUME NEW g \in Gen, Evict(g) PROVE TypeOK'
  BY <1>5, <1>p, Marks DEF Evict, server, cache, reader, TypeOK, Result
<1>6. ASSUME NEW r \in Reader, NEW w \in {"body", "file"}, Begin(r, w)
      PROVE  TypeOK'
  BY <1>6, <1>p, Marks DEF Begin, Goto, server, cache, TypeOK, Result
<1>7. ASSUME NEW r \in Reader, ReadMarker(r) PROVE TypeOK'
  BY <1>7, <1>p, Marks DEF ReadMarker, Following, Goto, server, cache, TypeOK,
     Result
<1>8. ASSUME NEW r \in Reader, Probe(r) PROVE TypeOK'
  BY <1>8, <1>p, Marks DEF Probe, Goto, server, cache, ForgetSeen, TypeOK,
     Result
<1>9. ASSUME NEW r \in Reader, AskLive(r) PROVE TypeOK'
  <2>1. Mismatch(r) \in BOOLEAN /\ Selected \in Mark
    BY Marks DEF Mismatch, Selected, TypeOK
  <2> QED
    BY <1>9, <1>p, <2>1, Marks DEF AskLive, ForgetSeen, cache, server, TypeOK
<1>10. ASSUME NEW r \in Reader, Confirm(r) PROVE TypeOK'
  BY <1>10, <1>p, Marks DEF Confirm, MarkerUnchanged, Goto, server, cache,
     ForgetSeen, TypeOK, Result
<1>11. ASSUME NEW r \in Reader, Fetch(r) PROVE TypeOK'
  BY <1>11, <1>p, Marks DEF Fetch, Selected, Goto, server, cache, ForgetAsked,
     TypeOK, Result
<1>12. ASSUME NEW r \in Reader, FetchFails(r) PROVE TypeOK'
  <2>1. CASE Fail(r)
    BY <1>12, <2>1, FailTyped DEF FetchFails
  <2>2. CASE ~Fail(r)
    BY <1>12, <1>p, <2>2 DEF FetchFails, server, cache, TypeOK
  <2> QED
    BY <2>1, <2>2
<1>13. ASSUME NEW r \in Reader, Commit(r) PROVE TypeOK'
  BY <1>13, <1>p, Marks DEF Commit, MarkerUnchanged, Goto, server, cache,
     ForgetSeen, TypeOK, Result
<1>14. ASSUME NEW r \in Reader, Put(r) PROVE TypeOK'
  BY <1>14, <1>p, Marks DEF Put, Key, Goto, server, cache, TypeOK, Result
<1>15. ASSUME NEW r \in Reader, PutDescription(r) PROVE TypeOK'
  BY <1>15, <1>p, Marks DEF PutDescription, Key, Goto, server, cache, TypeOK,
     Result
<1>16. ASSUME NEW r \in Reader, ReadCached(r) PROVE TypeOK'
  <2> DEFINE found == At(Entries(r), seen[r])
  <2>1. found \in Mark /\ seen[r] \in Mark
    BY Lookup DEF Entries, TypeOK
  <2>2. CASE found = 0
    BY <1>16, <2>2, FailTyped DEF ReadCached
  <2>3. CASE found # 0
    <3>0. [NoResult EXCEPT !.key = seen[r], !.of = found] \in Result
      BY <2>1, Marks DEF Result, NoResult
    <3>1. res' \in [Reader -> Result]
      BY <1>16, <2>3, <3>0 DEF ReadCached, TypeOK
    <3> QED
      BY <1>16, <1>p, <2>3, <3>1, Marks DEF ReadCached, ForgetSeen, server, cache,
         TypeOK
  <2> QED
    BY <2>2, <2>3
<1>17. ASSUME NEW r \in Reader, ReadDescription(r) PROVE TypeOK'
  <2>1. At(meta, res[r].key) \in Mark
    BY Lookup DEF TypeOK, Result
  <2>2. res' \in [Reader -> Result]
    BY <1>17, <2>1 DEF ReadDescription, TypeOK, Result
  <2> QED
    BY <1>17, <1>p, <2>2 DEF ReadDescription, server, cache, TypeOK
<1>18. ASSUME NEW r \in Reader, ReadDetail(r) PROVE TypeOK'
  <2>1. At(body, seen[r]) \in Mark
    BY Lookup DEF TypeOK
  <2>2. res' \in [Reader -> Result]
    BY <1>18, <2>1 DEF ReadDetail, TypeOK, Result
  <2> QED
    BY <1>18, <1>p, <2>2, Marks DEF ReadDetail, ForgetSeen, server, cache, TypeOK
<1>19. ASSUME NEW r \in Reader, Return(r) PROVE TypeOK'
  <2>1. CASE Fail(r)
    BY <1>19, <2>1, FailTyped DEF Return
  <2>2. CASE ~Fail(r)
    <3>1. res' \in [Reader -> Result]
      BY <1>19, <2>2, Marks DEF Return, TypeOK, Result
    <3> QED
      BY <1>19, <1>p, <2>2, <3>1, Marks DEF Return, ForgetAsked, server, cache, TypeOK
  <2> QED
    BY <2>1, <2>2
<1>20. ASSUME NEW r \in Reader, Continue(r) PROVE TypeOK'
  <2>1. CASE Fail(r)
    BY <1>20, <2>1, FailTyped DEF Continue
  <2>2. CASE ~Fail(r)
    <3>1. Snapshot(r) \in Mark
      BY Marks DEF Snapshot, TypeOK, Result
    <3>2. res' \in [Reader -> Result]
      BY <1>20, <2>2, <3>1 DEF Continue, TypeOK, Result
    <3> QED
      BY <1>20, <2>2, <3>2 DEF Continue, server, cache, TypeOK
  <2> QED
    BY <2>1, <2>2
<1>21. ASSUME NEW r \in Reader, Quit(r) PROVE TypeOK'
  BY <1>21, <1>p, Marks DEF Quit, Fail, Goto, server, cache, Forget,
     ForgetSeen, ForgetAsked, TypeOK, Result, NoResult
<1> QED
  BY <1>1, <1>2, <1>3, <1>4, <1>5, <1>6, <1>7, <1>8, <1>9, <1>10,
     <1>11, <1>12, <1>13, <1>14, <1>15, <1>16, <1>17, <1>18, <1>19, <1>20,
     <1>21 DEF Next

(* The provider's generation only grows, and every reader asks it.           *)
LEMMA NotAheadNext ==
  ASSUME TypeOK, NotAhead, [Next]_vars PROVE NotAhead'
<1>1. CASE UNCHANGED vars
  BY <1>1 DEF vars, server, cache, reader, TypeOK, NotAhead
<1>2. CASE Expunge
  BY <1>2, Numbers DEF Expunge, server, cache, reader, TypeOK, NotAhead
<1>3. CASE Renew
  BY <1>3, Marks, Numbers DEF Renew, server, cache, reader, TypeOK, NotAhead
<1>4. CASE EvictMarker
  BY <1>4, Numbers DEF EvictMarker, server, cache, reader, TypeOK, NotAhead
<1>5. ASSUME NEW g \in Gen, Evict(g) PROVE NotAhead'
  BY <1>5, Numbers DEF Evict, server, cache, reader, TypeOK, NotAhead
<1>6. ASSUME NEW r \in Reader, NEW w \in {"body", "file"}, Begin(r, w)
      PROVE  NotAhead'
  BY <1>6, Numbers DEF Begin, Goto, server, cache, TypeOK, NotAhead
<1>7. ASSUME NEW r \in Reader, ReadMarker(r) PROVE NotAhead'
  BY <1>7, Numbers DEF ReadMarker, Following, Goto, server, cache, TypeOK,
     NotAhead
<1>8. ASSUME NEW r \in Reader, Probe(r) PROVE NotAhead'
  BY <1>8, Numbers DEF Probe, Goto, server, cache, ForgetSeen, TypeOK,
     NotAhead
<1>9. ASSUME NEW r \in Reader, AskLive(r) PROVE NotAhead'
  BY <1>9, Numbers DEF AskLive, Mismatch, Selected, Goto, server, cache,
     ForgetSeen, TypeOK, NotAhead
<1>10. ASSUME NEW r \in Reader, Confirm(r) PROVE NotAhead'
  BY <1>10, Numbers DEF Confirm, MarkerUnchanged, Goto, server, cache,
     ForgetSeen, TypeOK, NotAhead
<1>11. ASSUME NEW r \in Reader, Fetch(r) PROVE NotAhead'
  BY <1>11, Numbers DEF Fetch, Selected, Goto, server, cache, ForgetAsked,
     TypeOK, NotAhead
<1>12. ASSUME NEW r \in Reader, FetchFails(r) PROVE NotAhead'
  BY <1>12, Numbers DEF FetchFails, Fail, Goto, server, cache, Forget,
     ForgetSeen, ForgetAsked, TypeOK, NotAhead, NoResult
<1>13. ASSUME NEW r \in Reader, Commit(r) PROVE NotAhead'
  BY <1>13, Numbers DEF Commit, MarkerUnchanged, Goto, server, cache,
     ForgetSeen, TypeOK, NotAhead
<1>14. ASSUME NEW r \in Reader, Put(r) PROVE NotAhead'
  BY <1>14, Numbers DEF Put, Key, Goto, server, cache, TypeOK, NotAhead
<1>15. ASSUME NEW r \in Reader, PutDescription(r) PROVE NotAhead'
  BY <1>15, Numbers DEF PutDescription, Key, Goto, server, cache, TypeOK,
     NotAhead
<1>16. ASSUME NEW r \in Reader, ReadCached(r) PROVE NotAhead'
  BY <1>16, Numbers DEF ReadCached, Fail, Goto, server, cache, Forget,
     ForgetSeen, ForgetAsked, TypeOK, NotAhead, NoResult
<1>17. ASSUME NEW r \in Reader, ReadDescription(r) PROVE NotAhead'
  BY <1>17, Numbers DEF ReadDescription, Goto, server, cache, TypeOK, NotAhead
<1>18. ASSUME NEW r \in Reader, ReadDetail(r) PROVE NotAhead'
  BY <1>18, Numbers DEF ReadDetail, Goto, server, cache, ForgetSeen, TypeOK,
     NotAhead
<1>19. ASSUME NEW r \in Reader, Return(r) PROVE NotAhead'
  BY <1>19, Numbers DEF Return, Fail, Goto, server, cache, Forget, ForgetSeen,
     ForgetAsked, Snapshot, TypeOK, NotAhead, NoResult
<1>20. ASSUME NEW r \in Reader, Continue(r) PROVE NotAhead'
  BY <1>20, Numbers DEF Continue, Fail, Goto, server, cache, Forget,
     ForgetSeen, ForgetAsked, Snapshot, TypeOK, NotAhead, NoResult
<1>21. ASSUME NEW r \in Reader, Quit(r) PROVE NotAhead'
  BY <1>21, Numbers DEF Quit, Fail, Goto, server, cache, Forget, ForgetSeen,
     ForgetAsked, TypeOK, NotAhead, NoResult
<1> QED
  BY <1>1, <1>2, <1>3, <1>4, <1>5, <1>6, <1>7, <1>8, <1>9, <1>10,
     <1>11, <1>12, <1>13, <1>14, <1>15, <1>16, <1>17, <1>18, <1>19, <1>20,
     <1>21 DEF Next

(* One session selects and fetches, and its answer makes the key.            *)
LEMMA MatchingNext ==
  ASSUME TypeOK, Matching, [Next]_vars PROVE Matching'
<1>1. CASE UNCHANGED vars
  BY <1>1 DEF vars, server, cache, reader, TypeOK, Matching, EntriesMatchTheirKeys
<1>2. CASE Expunge
  BY <1>2, Marks DEF Expunge, server, cache, reader, TypeOK, Matching,
     EntriesMatchTheirKeys
<1>3. CASE Renew
  BY <1>3, Marks DEF Renew, server, cache, reader, TypeOK, Matching,
     EntriesMatchTheirKeys
<1>4. CASE EvictMarker
  BY <1>4, Marks DEF EvictMarker, server, cache, reader, TypeOK, Matching,
     EntriesMatchTheirKeys
<1>5. ASSUME NEW g \in Gen, Evict(g) PROVE Matching'
  BY <1>5, Marks DEF Evict, server, cache, reader, TypeOK, Matching,
     EntriesMatchTheirKeys
<1>6. ASSUME NEW r \in Reader, NEW w \in {"body", "file"}, Begin(r, w)
      PROVE  Matching'
  BY <1>6, Marks DEF Begin, Goto, server, cache, TypeOK, Matching,
     EntriesMatchTheirKeys
<1>7. ASSUME NEW r \in Reader, ReadMarker(r) PROVE Matching'
  BY <1>7, Marks DEF ReadMarker, Following, Goto, server, cache, TypeOK,
     Matching, EntriesMatchTheirKeys
<1>8. ASSUME NEW r \in Reader, Probe(r) PROVE Matching'
  BY <1>8, Marks DEF Probe, Goto, server, cache, ForgetSeen, TypeOK, Matching,
     EntriesMatchTheirKeys
<1>9. ASSUME NEW r \in Reader, AskLive(r) PROVE Matching'
  BY <1>9, Marks DEF AskLive, Mismatch, Selected, Goto, server, cache,
     ForgetSeen, TypeOK, Matching, EntriesMatchTheirKeys
<1>10. ASSUME NEW r \in Reader, Confirm(r) PROVE Matching'
  BY <1>10, Marks DEF Confirm, MarkerUnchanged, Goto, server, cache,
     ForgetSeen, TypeOK, Matching, EntriesMatchTheirKeys
<1>11. ASSUME NEW r \in Reader, Fetch(r) PROVE Matching'
  BY <1>11, Marks DEF Fetch, Selected, Goto, server, cache, ForgetAsked,
     TypeOK, Matching, EntriesMatchTheirKeys
<1>12. ASSUME NEW r \in Reader, FetchFails(r) PROVE Matching'
  BY <1>12, Marks DEF FetchFails, Fail, Goto, server, cache, Forget,
     ForgetSeen, ForgetAsked, TypeOK, Matching, EntriesMatchTheirKeys,
     NoResult
<1>13. ASSUME NEW r \in Reader, Commit(r) PROVE Matching'
  BY <1>13, Marks DEF Commit, MarkerUnchanged, Goto, server, cache,
     ForgetSeen, TypeOK, Matching, EntriesMatchTheirKeys
<1>14. ASSUME NEW r \in Reader, Put(r) PROVE Matching'
  BY <1>14, Marks DEF Put, Key, Goto, server, cache, TypeOK, Matching,
     EntriesMatchTheirKeys
<1>15. ASSUME NEW r \in Reader, PutDescription(r) PROVE Matching'
  BY <1>15, Marks DEF PutDescription, Key, Goto, server, cache, TypeOK,
     Matching, EntriesMatchTheirKeys
<1>16. ASSUME NEW r \in Reader, ReadCached(r) PROVE Matching'
  BY <1>16, Marks DEF ReadCached, Fail, Goto, server, cache, Forget,
     ForgetSeen, ForgetAsked, TypeOK, Matching, EntriesMatchTheirKeys,
     NoResult
<1>17. ASSUME NEW r \in Reader, ReadDescription(r) PROVE Matching'
  BY <1>17, Marks DEF ReadDescription, Goto, server, cache, TypeOK, Matching,
     EntriesMatchTheirKeys
<1>18. ASSUME NEW r \in Reader, ReadDetail(r) PROVE Matching'
  BY <1>18, Marks DEF ReadDetail, Goto, server, cache, ForgetSeen, TypeOK,
     Matching, EntriesMatchTheirKeys
<1>19. ASSUME NEW r \in Reader, Return(r) PROVE Matching'
  BY <1>19, Marks DEF Return, Fail, Goto, server, cache, Forget, ForgetSeen,
     ForgetAsked, Snapshot, TypeOK, Matching, EntriesMatchTheirKeys, NoResult
<1>20. ASSUME NEW r \in Reader, Continue(r) PROVE Matching'
  BY <1>20, Marks DEF Continue, Fail, Goto, server, cache, Forget, ForgetSeen,
     ForgetAsked, Snapshot, TypeOK, Matching, EntriesMatchTheirKeys, NoResult
<1>21. ASSUME NEW r \in Reader, Quit(r) PROVE Matching'
  BY <1>21, Marks DEF Quit, Fail, Goto, server, cache, Forget, ForgetSeen,
     ForgetAsked, TypeOK, Matching, EntriesMatchTheirKeys, NoResult
<1> QED
  BY <1>1, <1>2, <1>3, <1>4, <1>5, <1>6, <1>7, <1>8, <1>9, <1>10,
     <1>11, <1>12, <1>13, <1>14, <1>15, <1>16, <1>17, <1>18, <1>19, <1>20,
     <1>21 DEF Next

(* A read that does not know of a mismatch is not behind what it was told.   *)
LEMMA AskedNext ==
  ASSUME TypeOK, NotAhead, Matching, Asked, [Next]_vars PROVE Asked'
<1>1. CASE UNCHANGED vars
  BY <1>1 DEF vars, server, cache, reader, TypeOK, Asked
<1>2. CASE Expunge
  BY <1>2, Numbers DEF Expunge, server, cache, reader, TypeOK, Asked
<1>3. CASE Renew
  BY <1>3, Numbers DEF Renew, server, cache, reader, TypeOK, Asked
<1>4. CASE EvictMarker
  BY <1>4, Numbers DEF EvictMarker, server, cache, reader, TypeOK, Asked
<1>5. ASSUME NEW g \in Gen, Evict(g) PROVE Asked'
  BY <1>5, Numbers DEF Evict, server, cache, reader, TypeOK, Asked
<1>6. ASSUME NEW r \in Reader, NEW w \in {"body", "file"}, Begin(r, w)
      PROVE  Asked'
  BY <1>6, Numbers DEF Begin, Goto, server, cache, TypeOK, Asked
<1>7. ASSUME NEW r \in Reader, ReadMarker(r) PROVE Asked'
  BY <1>7, Numbers DEF ReadMarker, Following, Goto, server, cache, TypeOK,
     Asked
<1>8. ASSUME NEW r \in Reader, Probe(r) PROVE Asked'
  <2>1. At(Entries(r), seen[r]) # 0 => seen[r] # 0
    BY DEF At
  <2> QED
    BY <1>8, <2>1, Numbers DEF Probe, Goto, ForgetSeen, server, cache, TypeOK, Asked
<1>9. ASSUME NEW r \in Reader, AskLive(r) PROVE Asked'
  <2>1. /\ UNCHANGED <<marker, lost>>
        /\ \A q \in Reader \ {r} :
             UNCHANGED <<pc[q], seen[q], live[q], mismatch[q], res[q]>>
    BY <1>9 DEF AskLive, Goto, ForgetSeen, cache, TypeOK
  <2>2. CASE pc'[r] = "confirm"
    <3>1. live'[r] = gen /\ mismatch'[r] = Mismatch(r) /\ seen'[r] = seen[r]
      BY <1>9, <2>2 DEF AskLive, Goto, Selected, TypeOK
    <3>2. ~mismatch'[r] /\ ~lost => gen = seen[r] /\ gen <= marker
      BY <1>9, <3>1, Numbers DEF AskLive, Mismatch, Asked
    <3> QED
      BY <2>1, <2>2, <3>1, <3>2, <1>9, Numbers DEF AskLive, Asked
  <2>3. CASE pc'[r] # "confirm"
    BY <1>9, <2>1, <2>3, Numbers DEF AskLive, Goto, ForgetSeen, TypeOK, Asked
  <2> QED
    BY <2>2, <2>3
<1>10. ASSUME NEW r \in Reader, Confirm(r) PROVE Asked'
  <2>1. marker' >= marker /\ marker' \in Nat
    BY <1>10, Numbers DEF Confirm, MarkerUnchanged, NotAhead
  <2>2. \A q \in Reader : /\ UNCHANGED <<live[q], mismatch[q], res[q], lost>>
                          /\ seen'[q] \in {seen[q], 0}
    BY <1>10 DEF Confirm, ForgetSeen, TypeOK
  <2> QED
    BY <1>10, <2>1, <2>2, Numbers DEF Confirm, ForgetSeen, Goto, TypeOK, Asked
<1>11. ASSUME NEW r \in Reader, Fetch(r) PROVE Asked'
  BY <1>11, Numbers DEF Fetch, Selected, Goto, server, cache, ForgetAsked,
     TypeOK, Asked
<1>12. ASSUME NEW r \in Reader, FetchFails(r) PROVE Asked'
  BY <1>12, Numbers DEF FetchFails, Fail, Goto, server, cache, Forget,
     ForgetSeen, ForgetAsked, TypeOK, Asked, NoResult
<1>13. ASSUME NEW r \in Reader, Commit(r) PROVE Asked'
  <2>1. marker' >= marker /\ marker' \in Nat
    BY <1>13, Numbers DEF Commit, MarkerUnchanged, NotAhead
  <2>2. \A q \in Reader : /\ UNCHANGED <<live[q], mismatch[q], res[q], lost>>
                          /\ seen'[q] \in {seen[q], 0}
    BY <1>13 DEF Commit, ForgetSeen, TypeOK
  <2> QED
    BY <1>13, <2>1, <2>2, Numbers DEF Commit, ForgetSeen, Goto, TypeOK, Asked
<1>14. ASSUME NEW r \in Reader, Put(r) PROVE Asked'
  BY <1>14, Numbers DEF Put, Key, Goto, server, cache, TypeOK, Asked
<1>15. ASSUME NEW r \in Reader, PutDescription(r) PROVE Asked'
  BY <1>15, Numbers DEF PutDescription, Key, Goto, server, cache, TypeOK,
     Asked
<1>16. ASSUME NEW r \in Reader, ReadCached(r) PROVE Asked'
  <2> DEFINE found == At(Entries(r), seen[r])
  <2>1. found \in {0, seen[r]}
    BY Lookup DEF Entries, Matching, TypeOK
  <2>2. CASE found = 0
    BY <1>16, <2>2, Numbers DEF ReadCached, Fail, Forget, ForgetSeen, ForgetAsked,
       Goto, cache, TypeOK, Asked, NoResult
  <2>3. CASE found # 0
    <3>1. res'[r].of = seen[r] /\ \A q \in Reader \ {r} : res'[q] = res[q]
      BY <1>16, <2>1, <2>3 DEF ReadCached, TypeOK, NoResult
    <3>2. /\ pc[r] = "cached" /\ pc'[r] \in {"returned", "described"}
          /\ seen'[r] = 0 /\ UNCHANGED <<marker, lost, live, mismatch>>
          /\ \A q \in Reader \ {r} : UNCHANGED <<pc[q], seen[q]>>
      BY <1>16, <2>3 DEF ReadCached, ForgetSeen, Goto, cache, TypeOK
    <3> QED
      BY <3>1, <3>2, Numbers DEF Asked
  <2> QED
    BY <2>2, <2>3
<1>17. ASSUME NEW r \in Reader, ReadDescription(r) PROVE Asked'
  BY <1>17, Numbers DEF ReadDescription, Goto, server, cache, TypeOK, Asked
<1>18. ASSUME NEW r \in Reader, ReadDetail(r) PROVE Asked'
  BY <1>18, Numbers DEF ReadDetail, Goto, server, cache, ForgetSeen, TypeOK,
     Asked
<1>19. ASSUME NEW r \in Reader, Return(r) PROVE Asked'
  BY <1>19, Numbers DEF Return, Fail, Goto, server, cache, Forget, ForgetSeen,
     ForgetAsked, Snapshot, TypeOK, Asked, NoResult
<1>20. ASSUME NEW r \in Reader, Continue(r) PROVE Asked'
  BY <1>20, Numbers DEF Continue, Fail, Goto, server, cache, Forget,
     ForgetSeen, ForgetAsked, Snapshot, TypeOK, Asked, NoResult
<1>21. ASSUME NEW r \in Reader, Quit(r) PROVE Asked'
  BY <1>21, Numbers DEF Quit, Fail, Goto, server, cache, Forget, ForgetSeen,
     ForgetAsked, TypeOK, Asked, NoResult
<1> QED
  BY <1>1, <1>2, <1>3, <1>4, <1>5, <1>6, <1>7, <1>8, <1>9, <1>10,
     <1>11, <1>12, <1>13, <1>14, <1>15, <1>16, <1>17, <1>18, <1>19, <1>20,
     <1>21 DEF Next

(* A piece is of the snapshot or there is none.                              *)
LEMMA SnapshotNext ==
  ASSUME TypeOK, DownloadIsOneSnapshot, [Next]_vars PROVE DownloadIsOneSnapshot'
<1>1. CASE UNCHANGED vars
  BY <1>1 DEF vars, server, cache, reader, TypeOK, DownloadIsOneSnapshot
<1>2. CASE Expunge
  BY <1>2 DEF Expunge, server, cache, reader, TypeOK, DownloadIsOneSnapshot
<1>3. CASE Renew
  BY <1>3 DEF Renew, server, cache, reader, TypeOK, DownloadIsOneSnapshot
<1>4. CASE EvictMarker
  BY <1>4 DEF EvictMarker, server, cache, reader, TypeOK,
     DownloadIsOneSnapshot
<1>5. ASSUME NEW g \in Gen, Evict(g) PROVE DownloadIsOneSnapshot'
  BY <1>5 DEF Evict, server, cache, reader, TypeOK, DownloadIsOneSnapshot
<1>6. ASSUME NEW r \in Reader, NEW w \in {"body", "file"}, Begin(r, w)
      PROVE  DownloadIsOneSnapshot'
  BY <1>6 DEF Begin, Goto, server, cache, TypeOK, DownloadIsOneSnapshot
<1>7. ASSUME NEW r \in Reader, ReadMarker(r) PROVE DownloadIsOneSnapshot'
  BY <1>7 DEF ReadMarker, Following, Goto, server, cache, TypeOK,
     DownloadIsOneSnapshot
<1>8. ASSUME NEW r \in Reader, Probe(r) PROVE DownloadIsOneSnapshot'
  BY <1>8 DEF Probe, Goto, server, cache, ForgetSeen, TypeOK,
     DownloadIsOneSnapshot
<1>9. ASSUME NEW r \in Reader, AskLive(r) PROVE DownloadIsOneSnapshot'
  BY <1>9 DEF AskLive, Mismatch, Selected, Goto, server, cache, ForgetSeen,
     TypeOK, DownloadIsOneSnapshot
<1>10. ASSUME NEW r \in Reader, Confirm(r) PROVE DownloadIsOneSnapshot'
  BY <1>10 DEF Confirm, MarkerUnchanged, Goto, server, cache, ForgetSeen,
     TypeOK, DownloadIsOneSnapshot
<1>11. ASSUME NEW r \in Reader, Fetch(r) PROVE DownloadIsOneSnapshot'
  BY <1>11 DEF Fetch, Selected, Goto, server, cache, ForgetAsked, TypeOK,
     DownloadIsOneSnapshot
<1>12. ASSUME NEW r \in Reader, FetchFails(r) PROVE DownloadIsOneSnapshot'
  BY <1>12 DEF FetchFails, Fail, Goto, server, cache, Forget, ForgetSeen,
     ForgetAsked, TypeOK, DownloadIsOneSnapshot, NoResult
<1>13. ASSUME NEW r \in Reader, Commit(r) PROVE DownloadIsOneSnapshot'
  BY <1>13 DEF Commit, MarkerUnchanged, Goto, server, cache, ForgetSeen,
     TypeOK, DownloadIsOneSnapshot
<1>14. ASSUME NEW r \in Reader, Put(r) PROVE DownloadIsOneSnapshot'
  BY <1>14 DEF Put, Key, Goto, server, cache, TypeOK, DownloadIsOneSnapshot
<1>15. ASSUME NEW r \in Reader, PutDescription(r) PROVE DownloadIsOneSnapshot'
  BY <1>15 DEF PutDescription, Key, Goto, server, cache, TypeOK,
     DownloadIsOneSnapshot
<1>16. ASSUME NEW r \in Reader, ReadCached(r) PROVE DownloadIsOneSnapshot'
  BY <1>16 DEF ReadCached, Fail, Goto, server, cache, Forget, ForgetSeen,
     ForgetAsked, TypeOK, DownloadIsOneSnapshot, NoResult
<1>17. ASSUME NEW r \in Reader, ReadDescription(r) PROVE DownloadIsOneSnapshot'
  BY <1>17 DEF ReadDescription, Goto, server, cache, TypeOK,
     DownloadIsOneSnapshot
<1>18. ASSUME NEW r \in Reader, ReadDetail(r) PROVE DownloadIsOneSnapshot'
  BY <1>18 DEF ReadDetail, Goto, server, cache, ForgetSeen, TypeOK,
     DownloadIsOneSnapshot
<1>19. ASSUME NEW r \in Reader, Return(r) PROVE DownloadIsOneSnapshot'
  <2>1. CASE Fail(r)
    BY <1>19, <2>1 DEF Return, Fail, Forget, Goto, TypeOK, DownloadIsOneSnapshot
  <2>2. CASE ~Fail(r)
    BY <1>19, <2>2 DEF Return, Goto, TypeOK, Result, DownloadIsOneSnapshot
  <2> QED
    BY <2>1, <2>2
<1>20. ASSUME NEW r \in Reader, Continue(r) PROVE DownloadIsOneSnapshot'
  <2>1. CASE Fail(r)
    BY <1>20, <2>1 DEF Continue, Fail, Forget, Goto, TypeOK, DownloadIsOneSnapshot
  <2>2. CASE ~Fail(r)
    BY <1>20, <2>2 DEF Continue, Snapshot, TypeOK, Result, DownloadIsOneSnapshot
  <2> QED
    BY <2>1, <2>2
<1>21. ASSUME NEW r \in Reader, Quit(r) PROVE DownloadIsOneSnapshot'
  BY <1>21 DEF Quit, Fail, Goto, server, cache, Forget, ForgetSeen,
     ForgetAsked, TypeOK, DownloadIsOneSnapshot, NoResult
<1> QED
  BY <1>1, <1>2, <1>3, <1>4, <1>5, <1>6, <1>7, <1>8, <1>9, <1>10,
     <1>11, <1>12, <1>13, <1>14, <1>15, <1>16, <1>17, <1>18, <1>19, <1>20,
     <1>21 DEF Next

-----------------------------------------------------------------------------
(* The results.                                                             *)

\* The parts together are inductive.
LEMMA ReadsInvariance == Spec => []IInv
<1>1. IInv /\ [Next]_vars => IInv'
  BY TypeNext, NotAheadNext, MatchingNext, AskedNext, SnapshotNext DEF IInv
<1> QED
  BY <1>1, InitInvariant, PTL DEF Spec

\* The variables of MessageReads keep their types.
THEOREM TypeCorrect == Spec => []TypeOK
<1>1. IInv => TypeOK
  BY DEF IInv
<1> QED
  BY <1>1, ReadsInvariance, PTL

\* Whatever is stored between a fetch and the write of what was fetched, an entry
\* has the content of the generation that its key names.
THEOREM EntriesMatch == Spec => []EntriesMatchTheirKeys
<1>1. IInv => EntriesMatchTheirKeys
  BY DEF IInv, Matching
<1> QED
  BY <1>1, ReadsInvariance, PTL

\* A read that was told a generation returns no message of an older one, as long
\* as the stored generation is not evicted.
THEOREM NothingOlder == Spec => []NeverOlderThanAsked
<1>1. IInv => NeverOlderThanAsked
  BY Numbers DEF IInv, Asked, NeverOlderThanAsked
<1> QED
  BY <1>1, ReadsInvariance, PTL

\* The pieces of a download are of one attachment.
THEOREM OneSnapshot == Spec => []DownloadIsOneSnapshot
<1>1. IInv => DownloadIsOneSnapshot
  BY DEF IInv
<1> QED
  BY <1>1, ReadsInvariance, PTL

\* No read, slow or late, puts an older generation in the place of a newer one
\* that is cached. (Of one that was evicted this says nothing.)
THEOREM MarkerOnlyAdvances == Spec => MarkerAdvances
<1>1. IInv /\ [Next]_vars => [marker # 0 /\ marker' # 0 => marker' >= marker]_vars
  <2> SUFFICES ASSUME IInv, Next PROVE marker # 0 /\ marker' # 0 => marker' >= marker
    BY DEF vars, cache
  <2>0. TypeOK /\ NotAhead /\ marker \in Nat
    BY Numbers DEF IInv
  <2>1. ASSUME NEW r \in Reader, Confirm(r) \/ Commit(r) PROVE marker' >= marker
    BY <2>0, <2>1, Numbers DEF Confirm, Commit, MarkerUnchanged, NotAhead
  <2>2. CASE EvictMarker
    BY <2>2 DEF EvictMarker
  <2>3. CASE ~EvictMarker /\ \A r \in Reader : ~Confirm(r) /\ ~Commit(r)
    <3>1. marker' = marker
      BY <2>3 DEF Next, cache, Expunge, Renew, Evict, Begin, ReadMarker, Probe,
         AskLive, Fetch, FetchFails, Put, PutDescription, ReadCached,
         ReadDescription, ReadDetail, Return, Continue, Quit
    <3> QED
      BY <3>1, <2>0
  <2> QED
    BY <2>1, <2>2, <2>3
<1> QED
  BY <1>1, ReadsInvariance, PTL DEF Spec, MarkerAdvances
=============================================================================
