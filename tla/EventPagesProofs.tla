--------------------------- MODULE EventPagesProofs ---------------------------
(***************************************************************************)
(* Proofs about the pages of events: that they are one list, that a        *)
(* traversal restarts only with cause, and that a partial list from the    *)
(* cache is given as one, for any number of listers, sources and           *)
(* collections.                                                            *)
(***************************************************************************)
EXTENDS EventPages, FiniteSetTheorems, WellFoundedInduction, TLAPS

-----------------------------------------------------------------------------
(* Where a lister is.                                                       *)

Writing == {"mark", "look", "scoped", "index", "unmark"}
Asking  == Writing \cup {"list", "cached", "exact", "broad"}

\* A lister that asks has a source to ask, one that cuts a page is past the
\* last one, and an answer is about the source that gave it.
PlacedAt(l) ==
  /\ pc[l] \in Asking => at[l] \in Source
  /\ pc[l] = "page" => at[l] = NSources + 1
  /\ pc[l] \in Writing =>
       got[l].events \subseteq Of(at[l]) /\ got[l].covers \subseteq Of(at[l])

Placed == \A l \in Lister : PlacedAt(l)
Typed  == TypeOK /\ Placed

-----------------------------------------------------------------------------
\* What the pages of a traversal have had: nothing before the first one, then
\* the events of the snapshot up to the one that the cursor names.
ShownAt(l) ==
  /\ pc[l] = "ready" => snap[l] # None
  /\ pc[l] \in Asking \cup {"page", "ready", "changed", "down"} =>
       IF snap[l] = None THEN shown[l] = {} /\ after[l] = 0
                         ELSE shown[l] = {e \in snap[l] : e <= after[l]}
  /\ pc[l] = "done" => shown[l] = snap[l]

Shown == \A l \in Lister : ShownAt(l)

\* What a steady traversal has of a source: nothing where that failed, what is
\* cached where that was read for the first page, else what the source has.
Read(s)    == IF scoped[s] # None THEN scoped[s].events ELSE index[s]
Part(l, s) == IF s \in failing[l] THEN {}
              ELSE IF s \in stale[l] THEN Read(s) ELSE has \cap Of(s)
Upto(l, n) == UNION {Part(l, s) : s \in 1..n}

\* What a traversal whose sources have been steady has got, and has failed at.
SteadyAt(l) ==
  /\ pc[l] \in Asking \cup {"page"} =>
       /\ \A s \in failing[l] : s < at[l] \/ (snap[l] # None /\ s \in failed[l])
       /\ snap[l] = None =>
            \A s \in stale[l] : s < at[l] \/ (s = at[l] /\ pc[l] = "broad")
  /\ pc[l] \in Asking \ {"list"} => at[l] \notin failing[l]
  /\ pc[l] = "ready" => snap[l] # None
  /\ pc[l] \in {"mark", "look", "changed"} => ~steady[l]
  /\ steady[l] =>
       /\ pc[l] \in Asking \cup {"page", "ready", "down"} /\ snap[l] # None =>
            snap[l] = Upto(l, NSources) /\ failing[l] = failed[l]
       /\ pc[l] \in Asking \cup {"page"} => list[l] = Upto(l, at[l] - 1)
       /\ pc[l] \in Writing =>
            got[l].events = has \cap Of(at[l]) /\ at[l] \notin stale[l]
       /\ pc[l] = "broad" => at[l] \in stale[l] /\ scoped[at[l]] = None

SteadyPages == \A l \in Lister : SteadyAt(l)

-----------------------------------------------------------------------------
\* What is cached of a source that is not disturbed: a list of some collections is
\* marked from before it can be cached, and the mark goes only after a whole one is
\* cached; a feed's lists are whole.
PartialMarked(s) == scoped[s] # None /\ ~scoped[s].whole => marked[s]
FeedWhole(s)     == scoped[s] # None => scoped[s].whole

MarkedAt(l) ==
  LET s == at[l] IN
  /\ pc[l] \in {"mark", "look"} => ~Whole(l)
  /\ s \notin CalDAV /\ pc[l] \in Writing => Whole(l)
  /\ s \in CalDAV \ disturbed =>
       /\ pc[l] = "look" => marked[s]
       /\ pc[l] = "scoped" /\ ~Whole(l) => marked[s]
       /\ (pc[l] = "index" /\ Whole(l)) \/ pc[l] = "unmark" =>
            scoped[s] = None \/ scoped[s].whole
       /\ pc[l] = "exact" => scoped[s] = None \/ scoped[s].whole \/ warned[l]

\* Two listings at once disturb what is cached of a source.
Alone == \A l, m \in Lister : \A s \in Source :
           l # m /\ Busy(l, s) /\ Busy(m, s) => s \in disturbed

MarkedInTime ==
  /\ \A s \in CalDAV \ disturbed : PartialMarked(s)
  /\ \A s \in Source \ CalDAV : FeedWhole(s)
  /\ \A l \in Lister : MarkedAt(l)
  /\ Alone

-----------------------------------------------------------------------------
(* Types.                                                                   *)

(* The types again, in the parts that a step leaves alone together.         *)

CacheTyped ==
  /\ marked \in [Source -> BOOLEAN]
  /\ scoped \in [Source -> Cached \cup {None}]
  /\ index \in [Source -> (SUBSET Collection) \cup {None}]
  /\ \A s \in Source : index[s] # None => index[s] \subseteq Of(s)
  /\ disturbed \subseteq Source

AnswerTyped ==
  /\ pc \in [Lister -> Step] /\ at \in [Lister -> 1..(NSources + 1)]
  /\ got \in [Lister -> Answer] /\ warned \in [Lister -> BOOLEAN]
  /\ list \in [Lister -> SUBSET Collection]
  /\ failing \in [Lister -> SUBSET Source]

CursorTyped ==
  /\ failed \in [Lister -> SUBSET Source]
  /\ snap \in [Lister -> (SUBSET Collection) \cup {None}]
  /\ after \in [Lister -> Collection \cup {0}]
  /\ shown \in [Lister -> SUBSET Collection]
  /\ steady \in [Lister -> BOOLEAN] /\ stale \in [Lister -> SUBSET Source]

\* The steps of one lister leave the others where they are.
LEMMA OthersPlaced ==
  ASSUME Placed, NEW l \in Lister, PlacedAt(l)',
         \A m \in Lister \ {l} :
           pc'[m] = pc[m] /\ at'[m] = at[m] /\ got'[m] = got[m]
  PROVE  Placed'
BY DEF Placed, PlacedAt

\* Where nobody moves, everybody stays placed.
LEMMA StillPlaced == Placed /\ UNCHANGED <<pc, at, got>> => Placed'
BY DEF Placed, PlacedAt

\* Beginning again at the first source.
LEMMA RestartTyped ==
  ASSUME Typed, NEW l \in Lister, Restart(l), NEW s \in Step, Goto(l, s),
         s \notin Writing, s # "page", failed' \in [Lister -> SUBSET Source]
  PROVE  AnswerTyped' /\ Placed'
<1>1. NoAnswer \in Answer
  BY DEF NoAnswer, Answer
<1>2. 1 \in Source /\ 1 \in 1..(NSources + 1)
  BY SourceAssumption DEF Source
<1>3. /\ pc' \in [Lister -> Step] /\ at' \in [Lister -> 1..(NSources + 1)]
      /\ got' \in [Lister -> Answer] /\ list' \in [Lister -> SUBSET Collection]
  BY <1>1, <1>2 DEF Typed, TypeOK, Restart, Goto
<1>4. /\ warned' \in [Lister -> BOOLEAN]
      /\ failing' \in [Lister -> SUBSET Source]
  BY DEF Typed, TypeOK, Restart
<1>5. PlacedAt(l)'
  BY <1>2 DEF Typed, TypeOK, Restart, Goto, PlacedAt, Asking
<1>6. Placed'
  BY <1>5, OthersPlaced DEF Typed, TypeOK, Restart, Goto
<1> QED
  BY <1>3, <1>4, <1>6 DEF AnswerTyped

\* Going on to the next source.
LEMMA TakeTyped ==
  ASSUME Typed, NEW l \in Lister, pc[l] \in Asking,
         NEW E \in SUBSET Collection, Take(l, E),
         failing' \in [Lister -> SUBSET Source]
  PROVE  AnswerTyped' /\ Placed'
<1>1. NoAnswer \in Answer
  BY DEF NoAnswer, Answer
<1>2. at[l] \in 1..NSources /\ NSources \in Nat
  BY SourceAssumption DEF Typed, Placed, PlacedAt, Source
<1>3. at[l] + 1 \in 1..(NSources + 1)
  BY <1>2
<1>4. pc' \in [Lister -> Step]
  BY DEF Typed, TypeOK, Take, Goto, Step
<1>5. at' \in [Lister -> 1..(NSources + 1)]
  BY <1>3 DEF Typed, TypeOK, Take
<1>6. got' \in [Lister -> Answer] /\ list' \in [Lister -> SUBSET Collection]
  BY <1>1 DEF Typed, TypeOK, Take
<1>7. warned' \in [Lister -> BOOLEAN]
  BY DEF Typed, TypeOK, Take
<1>8. PlacedAt(l)'
  <2>1. at'[l] = at[l] + 1 /\ pc'[l] = IF AtLast(l) THEN "page" ELSE "list"
    BY DEF Typed, TypeOK, Take, Goto
  <2> QED
    BY <1>2, <2>1 DEF PlacedAt, AtLast, Asking, Writing, Source
<1>9. Placed'
  BY <1>8, OthersPlaced DEF Typed, TypeOK, Take, Goto
<1> QED
  BY <1>4, <1>5, <1>6, <1>7, <1>9 DEF AnswerTyped

\* Going on with the source at hand.
LEMMA GotoTyped ==
  ASSUME Typed, NEW l \in Lister, pc[l] \in Asking,
         NEW s \in Asking, Goto(l, s), UNCHANGED at,
         got' \in [Lister -> Answer],
         \A m \in Lister \ {l} : got'[m] = got[m],
         s \in Writing => /\ got'[l].events \subseteq Of(at[l])
                          /\ got'[l].covers \subseteq Of(at[l])
  PROVE  pc' \in [Lister -> Step] /\ Placed'
<1>1. pc' \in [Lister -> Step]
  BY DEF Typed, TypeOK, Goto, Step, Asking, Writing
<1>2. pc'[l] = s /\ \A m \in Lister \ {l} : pc'[m] = pc[m]
  BY DEF Typed, TypeOK, Goto
<1>3. PlacedAt(l)'
  BY <1>2 DEF Typed, Placed, PlacedAt, Asking, Writing
<1> QED
  BY <1>1, <1>2, <1>3, OthersPlaced DEF Typed

\* They are all there is.
LEMMA TypedParts ==
  ASSUME Typed
  PROVE  /\ has \subseteq Collection /\ CacheTyped
         /\ AnswerTyped /\ CursorTyped /\ Placed
BY DEF Typed, TypeOK, CacheTyped, AnswerTyped, CursorTyped

\* The same of the state after a step.
LEMMA TypedPartsNext ==
  ASSUME has' \subseteq Collection, CacheTyped', AnswerTyped', CursorTyped',
         Placed'
  PROVE  Typed'
BY DEF Typed, TypeOK, CacheTyped, AnswerTyped, CursorTyped

\* A step that leaves a part alone leaves its types.
LEMMA CacheSame == ASSUME CacheTyped, UNCHANGED cache PROVE CacheTyped'
BY DEF cache, CacheTyped

\* An answer that nobody touches keeps its types and its place.
LEMMA AnswerSame ==
  ASSUME AnswerTyped, Placed, UNCHANGED answer
  PROVE  AnswerTyped' /\ Placed'
BY StillPlaced DEF answer, AnswerTyped

\* A cursor that nobody touches keeps its types.
LEMMA CursorSame == ASSUME CursorTyped, UNCHANGED cursor PROVE CursorTyped'
BY DEF cursor, CursorTyped

\* A traversal that is no longer steady keeps its types.
LEMMA ShakenTyped == ASSUME CursorTyped, NEW L, Shaken(L) PROVE CursorTyped'
BY DEF Shaken, CursorTyped

\* So does one that remains so or not.
LEMMA RemainsTyped ==
  ASSUME CursorTyped, NEW l \in Lister, NEW ok, NEW S \in SUBSET Source,
         Remains(l, ok, S)
  PROVE  CursorTyped'
<1>1. stale' \in [Lister -> SUBSET Source]
  BY DEF Remains, CursorTyped
<1>2. steady' \in [Lister -> BOOLEAN]
  BY Zenon DEF Remains, CursorTyped
<1> QED
  BY <1>1, <1>2 DEF Remains, CursorTyped

\* The sources and what becomes of cache entries.
LEMMA TypedSources ==
  ASSUME Typed,
         \/ \E c \in Changing : Change(c) \/ Age(c) \/ OtherScope(c)
         \/ \E s \in Source : Evict(s) \/ EvictMark(s) \/ Clear({s})
         \/ Clear(Source)
  PROVE  Typed'
<1>0. /\ has \subseteq Collection /\ CacheTyped /\ AnswerTyped /\ CursorTyped
      /\ Placed
  BY TypedParts
<1>a. CacheShakes => CursorTyped'
  BY <1>0, ShakenTyped DEF CacheShakes
<1>1. ASSUME NEW c \in Changing, Change(c) PROVE Typed'
  <2>1. has' \subseteq Collection /\ UNCHANGED <<cache, answer>>
    BY <1>0, <1>1, SourceAssumption DEF Change
  <2>2. CursorTyped'
    BY <1>0, <1>1, ShakenTyped DEF Change
  <2> QED
    BY <1>0, <2>1, <2>2, CacheSame, AnswerSame, TypedPartsNext
<1>2. ASSUME NEW c \in Changing, Age(c) \/ OtherScope(c) PROVE Typed'
  <2>1. UNCHANGED <<source, answer>> /\ CursorTyped'
    BY <1>a, <1>2 DEF Age, OtherScope
  <2>2. /\ UNCHANGED <<marked, scoped, disturbed>> /\ c \in Of(Owner[c])
        /\ Owner[c] \in Source
    BY <1>2, SourceAssumption DEF Age, OtherScope, Of
  <2>3. /\ index' \in [Source -> (SUBSET Collection) \cup {None}]
        /\ \A s \in Source : index'[s] # None => index'[s] \subseteq Of(s)
    <3>1. CASE Age(c)
      BY <1>0, <2>2, <3>1 DEF Age, CacheTyped
    <3>2. CASE OtherScope(c)
      <4> DEFINE s == Owner[c]
                 i == (IF index[s] = None THEN {} ELSE index[s] \ {c}) \cup (has \cap {c})
      <4>1. i \subseteq Of(s) /\ i \in SUBSET Collection
        BY <1>0, <2>2 DEF CacheTyped, Of
      <4>2. index' = [index EXCEPT ![s] = i]
        BY <3>2 DEF OtherScope
      <4> HIDE DEF i
      <4> QED
        BY <1>0, <2>2, <4>1, <4>2 DEF CacheTyped
    <3> QED
      BY <1>2, <3>1, <3>2
  <2>4. CacheTyped'
    BY <1>0, <2>2, <2>3 DEF CacheTyped
  <2> QED
    BY <1>0, <2>1, <2>4, AnswerSame, TypedPartsNext DEF source
<1>3. ASSUME NEW s \in Source, Evict(s) PROVE Typed'
  <2>1. UNCHANGED <<source, answer>> /\ CursorTyped'
    BY <1>a, <1>3 DEF Evict
  <2>2. CacheTyped'
    BY <1>0, <1>3 DEF Evict, CacheTyped
  <2> QED
    BY <1>0, <2>1, <2>2, AnswerSame, TypedPartsNext DEF source
<1>4. ASSUME NEW s \in Source, EvictMark(s) PROVE Typed'
  <2>1. UNCHANGED <<source, answer, cursor>>
    BY <1>4 DEF EvictMark
  <2>2. CacheTyped'
    BY <1>0, <1>4 DEF EvictMark, CacheTyped
  <2> QED
    BY <1>0, <2>1, <2>2, AnswerSame, CursorSame, TypedPartsNext DEF source
<1>5. ASSUME NEW S \in SUBSET Source, Clear(S) PROVE Typed'
  <2>1. UNCHANGED <<source, answer>> /\ CursorTyped'
    BY <1>a, <1>5 DEF Clear
  <2>2. CacheTyped'
    <3>1. scoped' \in [Source -> Cached \cup {None}]
      BY <1>0, <1>5 DEF Clear, CacheTyped
    <3>2. marked' \in [Source -> BOOLEAN]
      BY Zenon, <1>0, <1>5 DEF Clear, CacheTyped
    <3>3. /\ index' \in [Source -> (SUBSET Collection) \cup {None}]
          /\ \A s \in Source : index'[s] # None => index'[s] \subseteq Of(s)
      BY <1>0, <1>5 DEF Clear, CacheTyped
    <3>4. disturbed' \subseteq Source
      BY <1>0, <1>5 DEF Clear, CacheTyped
    <3> QED
      BY <3>1, <3>2, <3>3, <3>4 DEF CacheTyped
  <2> QED
    BY <1>0, <2>1, <2>2, AnswerSame, TypedPartsNext DEF source
<1> QED
  BY <1>1, <1>2, <1>3, <1>4, <1>5

\* Asking a source, and going on without an answer of its own.
LEMMA TypedAsking ==
  ASSUME Typed, NEW l \in Lister,
         \/ Skip(l) \/ ListAll(l) \/ ListPart(l) \/ ListFails(l)
         \/ ReadMark(l) \/ ReadScoped(l) \/ ReadIndex(l)
  PROVE  Typed'
<1>0. /\ has \subseteq Collection /\ CacheTyped /\ AnswerTyped /\ CursorTyped
      /\ Placed
  BY TypedParts
<1>1. pc[l] \in Asking /\ at[l] \in Source
  BY <1>0
     DEF Skip, ListAll, ListPart, ListFails, SourceFails, ReadMark, ReadScoped,
         ReadIndex, Placed, PlacedAt, Asking
<1>a. stale[l] \in SUBSET Source
  BY <1>0 DEF CursorTyped
<1>b. ASSUME UNCHANGED <<marked, scoped, index>>, Meets(l) PROVE CacheTyped'
  BY <1>0, <1>1, <1>b DEF Meets, CacheTyped
<1>2. ASSUME NEW E \in SUBSET Collection, Take(l, E), CursorTyped',
             failing' \in [Lister -> SUBSET Source],
             UNCHANGED <<source, cache>>
      PROVE  Typed'
  BY <1>0, <1>1, <1>2, TakeTyped, CacheSame, TypedPartsNext DEF source
<1>3. ASSUME SourceFails(l) PROVE Typed'
  <2>1. CursorTyped'
    BY <1>0, <1>a, <1>3, RemainsTyped DEF SourceFails
  <2>2. failing' \in [Lister -> SUBSET Source]
    BY <1>0, <1>1, <1>3 DEF SourceFails, AnswerTyped
  <2> QED
    BY <1>2, <1>3, <2>1, <2>2 DEF SourceFails
<1>4. ASSUME NEW s \in Asking \ Writing, Goto(l, s),
             UNCHANGED <<source, at, got, list, failing>>,
             warned' \in [Lister -> BOOLEAN], CacheTyped', CursorTyped'
      PROVE  Typed'
  <2>1. pc' \in [Lister -> Step] /\ Placed'
    BY <1>0, <1>1, <1>4, GotoTyped DEF AnswerTyped
  <2> QED
    BY <1>0, <1>4, <2>1, TypedPartsNext DEF source, AnswerTyped
<1>5. CASE Skip(l)
  <2>1. CursorTyped' /\ failing' \in [Lister -> SUBSET Source]
    BY <1>0, <1>5, CursorSame DEF Skip, AnswerTyped
  <2> QED
    BY <1>2, <1>5, <2>1 DEF Skip
<1>6. CASE ListAll(l)
  <2> DEFINE a == [events |-> has \cap Of(at[l]), covers |-> Of(at[l])]
  <2>1. a \in Answer
    BY <1>0 DEF Answer, Of
  <2>2. got' = [got EXCEPT ![l] = a]
    BY <1>6 DEF ListAll
  <2>3. got' \in [Lister -> Answer] /\ got'[l] = a
        /\ \A m \in Lister \ {l} : got'[m] = got[m]
    <3> HIDE DEF a
    <3> QED
      BY <1>0, <2>1, <2>2 DEF AnswerTyped
  <2>4. pc' \in [Lister -> Step] /\ Placed'
    BY <1>0, <1>1, <1>6, <2>3, GotoTyped DEF ListAll, Asking, Writing
  <2>5. UNCHANGED <<source, at, warned, list, failing>> /\ CacheTyped'
    BY <1>b, <1>6 DEF ListAll
  <2>6. CursorTyped'
    BY <1>0, <1>a, <1>6, RemainsTyped DEF ListAll
  <2> QED
    BY <1>0, <2>3, <2>4, <2>5, <2>6, TypedPartsNext DEF source, AnswerTyped
<1>7. CASE ListPart(l)
  <2>0. PICK ok \in SUBSET Of(at[l]) :
          \E some \in SUBSET ((has \cap Of(at[l])) \ ok) :
            got' = [got EXCEPT ![l] =
                      [events |-> (has \cap ok) \cup some, covers |-> ok]]
    BY <1>7 DEF ListPart
  <2>1. PICK some \in SUBSET ((has \cap Of(at[l])) \ ok) :
               got' = [got EXCEPT ![l] =
                         [events |-> (has \cap ok) \cup some, covers |-> ok]]
    BY <2>0
  <2> DEFINE a == [events |-> (has \cap ok) \cup some, covers |-> ok]
  <2>2. /\ a \in Answer /\ a.events \subseteq Of(at[l])
        /\ a.covers \subseteq Of(at[l])
    BY <1>0 DEF Answer, Of
  <2>3. got' \in [Lister -> Answer] /\ got'[l] = a
        /\ \A m \in Lister \ {l} : got'[m] = got[m]
    <3>1. got' = [got EXCEPT ![l] = a]
      BY <2>1
    <3> HIDE DEF a
    <3> QED
      BY <1>0, <2>2, <3>1 DEF AnswerTyped
  <2>4. pc' \in [Lister -> Step] /\ Placed'
    BY <1>0, <1>1, <1>7, <2>2, <2>3, GotoTyped DEF ListPart, Asking, Writing
  <2>5. UNCHANGED <<source, at, warned, list, failing>> /\ CacheTyped'
    BY <1>b, <1>7 DEF ListPart
  <2>6. CursorTyped'
    BY <1>0, <1>7, RemainsTyped DEF ListPart
  <2> QED
    BY <1>0, <2>3, <2>4, <2>5, <2>6, TypedPartsNext DEF source, AnswerTyped
<1>8. CASE ListFails(l)
  <2>1. CASE /\ Goto(l, "cached")
             /\ UNCHANGED <<source, cache, at, got, warned, list, failing, cursor>>
    BY <1>0, <1>4, <2>1, CacheSame, CursorSame DEF Asking, Writing, AnswerTyped
  <2> QED
    BY <1>3, <1>8, <2>1 DEF ListFails
<1>9. CASE ReadMark(l)
  <2>1. marked[at[l]] \in BOOLEAN
    BY <1>0, <1>1 DEF CacheTyped
  <2>2. warned' \in [Lister -> BOOLEAN]
    BY <1>0, <1>9, <2>1 DEF ReadMark, AnswerTyped
  <2>3. CacheTyped' /\ CursorTyped'
    <3>1. CASE Meets(l)
      BY <1>0, <1>b, <1>9, <3>1, CursorSame DEF ReadMark
    <3>2. CASE disturbed' = disturbed \cup {at[l]}
      BY <1>0, <1>1, <1>9, <3>2, CursorSame DEF ReadMark, CacheTyped
    <3> QED
      BY <1>9, <3>1, <3>2 DEF ReadMark
  <2> QED
    BY <1>4, <1>9, <2>2, <2>3 DEF ReadMark, Asking, Writing
<1>10. CASE ReadScoped(l)
  <2>1. CursorTyped'
    BY <1>0, <1>1, <1>a, <1>10, RemainsTyped DEF ReadScoped
  <2>2. failing' \in [Lister -> SUBSET Source] /\ UNCHANGED <<source, cache, failing>>
    BY <1>0, <1>10 DEF ReadScoped, AnswerTyped
  <2>3. CASE scoped[at[l]] # None
    <3>1. scoped[at[l]].events \in SUBSET Collection
      BY <1>0, <1>1, <2>3 DEF CacheTyped, Cached
    <3> QED
      BY <1>2, <1>10, <2>1, <2>2, <2>3, <3>1 DEF ReadScoped
  <2>4. CASE scoped[at[l]] = None
    BY <1>0, <1>4, <1>10, <2>1, <2>2, <2>4, CacheSame
       DEF ReadScoped, Asking, Writing, AnswerTyped
  <2> QED
    BY <2>3, <2>4
<1>11. CASE ReadIndex(l)
  <2>1. CASE index[at[l]] # None
    <3>1. index[at[l]] \in SUBSET Collection
      BY <1>0, <1>1, <2>1 DEF CacheTyped
    <3> QED
      BY <1>0, <1>2, <1>11, <2>1, <3>1, CursorSame DEF ReadIndex, AnswerTyped
  <2>2. CASE index[at[l]] = None
    BY <1>3, <1>11, <2>2 DEF ReadIndex
  <2> QED
    BY <2>1, <2>2
<1> QED
  BY <1>5, <1>6, <1>7, <1>8, <1>9, <1>10, <1>11

\* Caching what a source has given.
LEMMA TypedCaching ==
  ASSUME Typed, NEW l \in Lister,
         \/ MarkPartial(l) \/ Look(l) \/ CacheScoped(l) \/ CacheIndex(l)
         \/ Unmark(l) \/ CacheFails(l)
  PROVE  Typed'
<1>0. /\ has \subseteq Collection /\ CacheTyped /\ AnswerTyped /\ CursorTyped
      /\ Placed
  BY TypedParts
<1>1. /\ pc[l] \in Writing /\ at[l] \in Source /\ got[l] \in Answer
      /\ got[l].events \in SUBSET Collection
      /\ got[l].events \subseteq Of(at[l]) /\ got[l].covers \subseteq Of(at[l])
      /\ failing' = failing
  BY <1>0
     DEF MarkPartial, Look, CacheScoped, CacheIndex, Unmark, CacheFails, Placed,
         PlacedAt, Asking, Writing, AnswerTyped, Answer
<1>a. CacheShakes => CursorTyped'
  BY <1>0, ShakenTyped DEF CacheShakes
<1>b. UNCHANGED cursor => CursorTyped'
  BY <1>0, CursorSame
<1>c. Settles(l) => disturbed' \subseteq Source
  BY <1>0 DEF Settles, CacheTyped
<1>2. ASSUME Take(l, got[l].events), CacheTyped', CursorTyped', UNCHANGED source
      PROVE  Typed'
  BY <1>0, <1>1, <1>2, TakeTyped, TypedPartsNext DEF source, AnswerTyped, Asking
<1>3. ASSUME NEW s \in Writing, Goto(l, s), CacheTyped', CursorTyped',
             UNCHANGED <<source, at, got, warned, list>>
      PROVE  Typed'
  <2>1. pc' \in [Lister -> Step] /\ Placed'
    BY <1>0, <1>1, <1>3, GotoTyped DEF Asking, AnswerTyped
  <2> QED
    BY <1>0, <1>1, <1>3, <2>1, TypedPartsNext DEF source, AnswerTyped
<1>4. CASE MarkPartial(l)
  <2>1. CacheTyped'
    BY <1>0, <1>c, <1>4 DEF MarkPartial, AsPartial, CacheTyped
  <2> QED
    BY <1>b, <1>3, <1>4, <2>1 DEF MarkPartial, Writing
<1>5. CASE Look(l)
  BY <1>0, <1>b, <1>3, <1>5, CacheSame DEF Look, Writing
<1>6. CASE CacheScoped(l)
  <2> DEFINE s == at[l]
             new == [events |-> got[l].events, whole |-> Whole(l)]
             e == IF Whole(l) \/ scoped[s] = None THEN new
                  ELSE Merged(scoped[s], got[l])
  <2>1. new \in Cached
    BY <1>1 DEF Cached, Whole
  <2>2. scoped[s] # None => Merged(scoped[s], got[l]) \in Cached
    BY <1>0, <1>1 DEF CacheTyped, Cached, Merged
  <2>3. e \in Cached
    BY <2>1, <2>2
  <2>4. scoped' = [scoped EXCEPT ![s] = e] /\ UNCHANGED <<marked, index>>
    BY <1>6 DEF CacheScoped
  <2>5. disturbed' \subseteq Source
    BY <1>0, <1>c, <1>6 DEF CacheScoped, CacheTyped
  <2>6. CacheTyped'
    <3> HIDE DEF e, s
    <3> QED
      BY <1>0, <2>3, <2>4, <2>5 DEF CacheTyped
  <2> QED
    BY <1>a, <1>3, <1>6, <2>6 DEF CacheScoped, Writing
<1>7. CASE CacheIndex(l)
  <2> DEFINE s == at[l]
             i == IF index[s] = None THEN got[l].events
                  ELSE (index[s] \ Replaced(l)) \cup got[l].events
  <2>1. i \subseteq Of(s) /\ i \in SUBSET Collection
    BY <1>0, <1>1 DEF CacheTyped, Of
  <2>2. index' = [index EXCEPT ![s] = i] /\ UNCHANGED <<marked, scoped, disturbed>>
    BY <1>7 DEF CacheIndex
  <2>3. CacheTyped'
    <3> HIDE DEF i, s
    <3> QED
      BY <1>0, <2>1, <2>2 DEF CacheTyped
  <2>4. CASE Whole(l)
    BY <1>a, <1>3, <1>7, <2>3, <2>4 DEF CacheIndex, Writing
  <2>5. CASE ~Whole(l)
    BY <1>a, <1>2, <1>7, <2>3, <2>5 DEF CacheIndex
  <2> QED
    BY <2>4, <2>5
<1>8. CASE Unmark(l)
  <2>1. CacheTyped'
    BY <1>0, <1>8 DEF Unmark, CacheTyped
  <2> QED
    BY <1>b, <1>2, <1>8, <2>1 DEF Unmark
<1>9. CASE CacheFails(l)
  BY <1>0, <1>b, <1>2, <1>9, CacheSame DEF CacheFails
<1> QED
  BY <1>4, <1>5, <1>6, <1>7, <1>8, <1>9

\* What the cursor names is an event of the page.
LEMMA LatestOf ==
  ASSUME NEW S \in SUBSET Collection, S # {}
  PROVE  Latest(S) \in S /\ \A x \in S : x <= Latest(S)
<1> DEFINE Above(e) == {x \in S : e < x}
           Bad == {Above(e) : e \in S}
<1>1. IsFiniteSet(S) /\ \A x \in S : x \in Nat
  BY SourceAssumption, FS_Subset
<1>2. PICK e \in S : \A d \in S : ~ (<<Above(d), Above(e)>>
                                       \in StrictSubsetOrdering(S))
  <2>1. Bad \subseteq FiniteSubsetsOf(S) /\ Bad # {}
    <3>1. \A e \in S : Above(e) \subseteq S /\ IsFiniteSet(Above(e))
      BY <1>1, FS_Subset
    <3> QED
      BY <3>1 DEF FiniteSubsetsOf
  <2>2. IsWellFoundedOn(StrictSubsetOrdering(S), FiniteSubsetsOf(S))
    BY FS_StrictSubsetOrderingWellFounded
  <2>3. PICK T \in Bad : \A U \in Bad : ~ (<<U, T>> \in StrictSubsetOrdering(S))
    <3> HIDE DEF Bad
    <3> QED
      BY <2>1, <2>2, WFMin
  <2> QED
    BY <2>3
<1>3. \A x \in S : x <= e
  <2> SUFFICES ASSUME NEW x \in S, ~(x <= e) PROVE FALSE
    OBVIOUS
  <2>1. e \in Nat /\ x \in Nat /\ e < x
    BY <1>1
  <2>2. Above(x) \subseteq Above(e) /\ x \in Above(e) /\ x \notin Above(x)
    <3>1. \A y \in S : x < y => e < y
      BY <1>1, <2>1
    <3>2. x \in Above(e) /\ x \notin Above(x)
      BY <2>1
    <3> QED
      BY <3>1, <3>2
  <2>3. <<Above(x), Above(e)>> \in StrictSubsetOrdering(S)
    <3> HIDE DEF Bad
    <3> QED
      BY <2>2 DEF StrictSubsetOrdering
  <2> QED
    BY <1>2, <2>3
<1> QED
  BY <1>3 DEF Latest

\* A page is a beginning of what remains, and of something that remains there is
\* a page.
LEMMA PageOf ==
  ASSUME NEW S \in SUBSET Collection
  PROVE  /\ Oldest(S, PageSize) \subseteq S
         /\ \A e \in Oldest(S, PageSize), d \in S :
              d <= e => d \in Oldest(S, PageSize)
         /\ S # {} => Oldest(S, PageSize) # {}
<1>1. IsFiniteSet(S) /\ \A x \in S : x \in Nat
  BY SourceAssumption, FS_Subset
<1> DEFINE Below(e) == {x \in S : x < e}
<1>2. ASSUME NEW e \in Oldest(S, PageSize), NEW d \in S, d <= e
      PROVE  d \in Oldest(S, PageSize)
  <2>1. e \in S /\ Cardinality(Below(e)) < PageSize
    BY DEF Oldest
  <2>2. Below(d) \subseteq Below(e) /\ IsFiniteSet(Below(e))
    BY <1>1, <1>2, <2>1, FS_Subset
  <2>3. /\ Cardinality(Below(d)) <= Cardinality(Below(e))
        /\ Cardinality(Below(d)) \in Nat /\ Cardinality(Below(e)) \in Nat
    <3> HIDE DEF Below
    <3> QED
      BY <2>2, FS_Subset, FS_CardinalityType
  <2>4. Cardinality(Below(d)) < PageSize
    <3> HIDE DEF Below
    <3> QED
      BY <2>1, <2>3, SourceAssumption
  <2> QED
    BY <2>4 DEF Oldest
<1>3. ASSUME S # {} PROVE Oldest(S, PageSize) # {}
  <2> DEFINE Bad == {Below(e) : e \in S}
  <2>1. Bad \subseteq FiniteSubsetsOf(S) /\ Bad # {}
    <3>1. \A e \in S : Below(e) \subseteq S /\ IsFiniteSet(Below(e))
      BY <1>1, FS_Subset
    <3> QED
      BY <1>3, <3>1 DEF FiniteSubsetsOf
  <2>2. IsWellFoundedOn(StrictSubsetOrdering(S), FiniteSubsetsOf(S))
    BY FS_StrictSubsetOrderingWellFounded
  <2>3. PICK T \in Bad : \A U \in Bad : ~ (<<U, T>> \in StrictSubsetOrdering(S))
    <3> HIDE DEF Bad
    <3> QED
      BY <2>1, <2>2, WFMin
  <2>4. PICK e \in S : T = Below(e)
    OBVIOUS
  <2>5. Below(e) = {}
    <3> SUFFICES ASSUME NEW x \in Below(e) PROVE FALSE
      OBVIOUS
    <3>1. x \in S /\ x < e /\ e \in Nat /\ x \in Nat
      BY <1>1
    <3>2. Below(x) \subseteq Below(e) /\ x \notin Below(x)
      <4>1. \A y \in S : y < x => y < e
        BY <1>1, <3>1
      <4>2. x \notin Below(x)
        BY <3>1
      <4> QED
        BY <4>1, <4>2
    <3>3. <<Below(x), Below(e)>> \in StrictSubsetOrdering(S)
      <4> HIDE DEF Bad
      <4> QED
        BY <3>1, <3>2 DEF StrictSubsetOrdering
    <3> QED
      BY <2>3, <2>4, <3>1, <3>3
  <2>6. Cardinality(Below(e)) = 0
    <3> HIDE DEF Below
    <3> QED
      BY <2>5, FS_EmptySet
  <2> QED
    BY <2>6, SourceAssumption DEF Oldest
<1> QED
  BY <1>2, <1>3 DEF Oldest

\* Pages, and the cursor.
LEMMA TypedPages ==
  ASSUME Typed, NEW l \in Lister,
         \/ Begin(l) \/ Continue(l) \/ Retry(l)
         \/ ReturnPage(l) \/ NoPage(l) \/ Quit(l)
  PROVE  Typed'
<1>0. /\ has \subseteq Collection /\ CacheTyped /\ AnswerTyped /\ CursorTyped
      /\ Placed
  BY TypedParts
<1>1. ASSUME NEW s \in Step, Goto(l, s), s \notin Writing, s # "page",
             Restart(l),
             CursorTyped', UNCHANGED <<source, cache>>
      PROVE  Typed'
  BY <1>0, <1>1, RestartTyped, CacheSame, TypedPartsNext DEF source, CursorTyped
<1>2. NoCursor(l) => CursorTyped'
  BY <1>0 DEF NoCursor, CursorTyped
<1>3. CASE Begin(l)
  BY <1>1, <1>2, <1>3 DEF Begin, NewPage, Step, Writing
<1>4. CASE Continue(l) \/ Retry(l)
  BY <1>0, <1>1, <1>4, CursorSame DEF Continue, Retry, NewPage, Step, Writing
<1>5. CASE ReturnPage(l)
  <2> DEFINE page == Oldest(Rest(l), PageSize)
  <2>1. list[l] \in SUBSET Collection /\ Rest(l) \in SUBSET Collection
    BY <1>0 DEF AnswerTyped, Rest
  <2>2. page \subseteq Rest(l) /\ (Rest(l) # {} => page # {})
    BY <2>1, PageOf
  <2>3. page # Rest(l) => Latest(page) \in Collection
    <3> HIDE DEF page
    <3> QED
      BY <2>1, <2>2, LatestOf
  <2>4. CursorTyped'
    <3>1. shown' = [shown EXCEPT ![l] = @ \cup page]
          /\ snap' = [snap EXCEPT ![l] = list[l]]
          /\ failed' = [failed EXCEPT ![l] = failing[l]]
          /\ UNCHANGED <<steady, stale>>
      BY <1>5 DEF ReturnPage
    <3>2. \/ page # Rest(l) /\ after' = [after EXCEPT ![l] = Latest(page)]
          \/ UNCHANGED after
      BY <1>5 DEF ReturnPage
    <3> HIDE DEF page
    <3>3. after' \in [Lister -> Collection \cup {0}]
      BY <1>0, <2>3, <3>2 DEF CursorTyped
    <3> QED
      BY <1>0, <2>1, <2>2, <3>1, <3>3 DEF CursorTyped, AnswerTyped
  <2>5. \E s \in {"ready", "done"} : Goto(l, s)
    BY <1>5 DEF ReturnPage
  <2>6. Restart(l) /\ UNCHANGED <<source, cache>>
    BY <1>5 DEF ReturnPage
  <2> QED
    BY <1>1, <2>4, <2>5, <2>6 DEF Step, Writing
<1>6. CASE NoPage(l)
  BY <1>0, <1>1, <1>6, CursorSame DEF NoPage, Step, Writing
<1>7. CASE Quit(l)
  BY <1>1, <1>2, <1>7 DEF Quit, Step, Writing
<1> QED
  BY <1>3, <1>4, <1>5, <1>6, <1>7

\* In the beginning nothing is cached and nobody lists.
LEMMA TypedInit == Init => Typed
<1> SUFFICES ASSUME Init PROVE Typed
  OBVIOUS
<1>1. has \subseteq Collection /\ CacheTyped
  <2>1. has \subseteq Collection /\ marked \in [Source -> BOOLEAN]
    BY DEF Init
  <2>2. scoped \in [Source -> Cached \cup {None}]
    BY DEF Init
  <2>3. index \in [Source -> (SUBSET Collection) \cup {None}]
    BY DEF Init
  <2>4. \A s \in Source : index[s] = None
    BY DEF Init
  <2> QED
    BY <2>1, <2>2, <2>3, <2>4 DEF Init, CacheTyped
<1>2. AnswerTyped
  BY SourceAssumption DEF Init, Step, NoAnswer, Answer, AnswerTyped
<1>3. CursorTyped
  <2>1. /\ failed \in [Lister -> SUBSET Source]
        /\ steady \in [Lister -> BOOLEAN] /\ stale \in [Lister -> SUBSET Source]
    BY DEF Init
  <2>2. snap \in [Lister -> (SUBSET Collection) \cup {None}]
    BY DEF Init
  <2>3. after \in [Lister -> Collection \cup {0}]
    BY DEF Init
  <2>4. shown \in [Lister -> SUBSET Collection]
    BY DEF Init
  <2> QED
    BY <2>1, <2>2, <2>3, <2>4 DEF CursorTyped
<1>4. Placed
  BY DEF Init, Placed, PlacedAt, Asking, Writing
<1> QED
  BY <1>1, <1>2, <1>3, <1>4
     DEF Typed, TypeOK, CacheTyped, AnswerTyped, CursorTyped

\* Every step keeps the types and the places.
LEMMA TypedNext == Typed /\ [Next]_vars => Typed'
<1> SUFFICES ASSUME Typed, [Next]_vars PROVE Typed'
  OBVIOUS
<1>1. CASE UNCHANGED vars
  BY <1>1, TypedParts, CacheSame, AnswerSame, CursorSame, TypedPartsNext
     DEF vars, source
<1>2. ASSUME NEW l \in Lister, Run(l) PROVE Typed'
  BY <1>2, TypedAsking, TypedCaching, TypedPages DEF Run
<1>3. ASSUME NEW l \in Lister, Begin(l) \/ Retry(l) \/ Quit(l) PROVE Typed'
  BY <1>3, TypedPages
<1> QED
  BY <1>1, <1>2, <1>3, TypedSources DEF Next

\* The variables of EventPages keep their types.
THEOREM TypeCorrect == Spec => []TypeOK
<1>1. Typed => TypeOK
  BY DEF Typed
<1> QED
  BY <1>1, TypedInit, TypedNext, PTL DEF Spec

-----------------------------------------------------------------------------
(* The pages are one list.                                                  *)

\* While a lister asks and caches it keeps its place in the traversal.
LEMMA AskingKeepsPages ==
  ASSUME Typed, NEW l \in Lister,
         \/ Skip(l) \/ ListAll(l) \/ ListPart(l) \/ ListFails(l)
         \/ MarkPartial(l) \/ Look(l) \/ CacheScoped(l) \/ CacheIndex(l)
         \/ Unmark(l) \/ CacheFails(l) \/ ReadMark(l) \/ ReadScoped(l)
         \/ ReadIndex(l)
  PROVE  /\ pc[l] \in Asking /\ pc'[l] \in Asking \cup {"page"}
         /\ \A m \in Lister \ {l} : pc'[m] = pc[m]
         /\ UNCHANGED <<snap, after, shown>>
<1>1. pc[l] \in Asking /\ UNCHANGED <<snap, after, shown>>
  BY DEF Skip, ListAll, ListPart, ListFails, SourceFails, MarkPartial, Look,
         CacheScoped, CacheIndex, Unmark, CacheFails, ReadMark, ReadScoped, ReadIndex,
         Remains, CacheShakes, Shaken, cursor, Asking, Writing
<1>2. \E s \in Asking \cup {"page"} : Goto(l, s)
  BY DEF Skip, ListAll, ListPart, ListFails, SourceFails, MarkPartial, Look,
         CacheScoped, CacheIndex, Unmark, CacheFails, ReadMark, ReadScoped, ReadIndex,
         Take, Asking, Writing
<1> QED
  BY <1>1, <1>2 DEF Goto, Typed, TypeOK

\* A page adds to what was shown the events up to the one it names next, and the
\* last page the rest.
LEMMA PageExtends ==
  ASSUME Typed, NEW l \in Lister, ShownAt(l), ReturnPage(l)
  PROVE  ShownAt(l)'
<1> DEFINE page == Oldest(Rest(l), PageSize)
<1>1. /\ list[l] \in SUBSET Collection /\ Rest(l) \in SUBSET Collection
      /\ after[l] \in Nat /\ shown[l] \in SUBSET Collection
      /\ \A c \in Collection : c \in Nat /\ c > 0
  <2>1. \A c \in Collection : c \in Nat /\ c > 0
    BY SourceAssumption
  <2>2. list[l] \in SUBSET Collection /\ shown[l] \in SUBSET Collection
    BY DEF Typed, TypeOK
  <2>3. after[l] \in Nat
    BY <2>1 DEF Typed, TypeOK
  <2> QED
    BY <2>1, <2>2, <2>3 DEF Rest
<1>2. shown[l] = {e \in list[l] : e <= after[l]}
  <2>1. CASE snap[l] = None
    <3>1. shown[l] = {} /\ after[l] = 0
      BY <2>1 DEF ReturnPage, ShownAt
    <3>2. \A e \in list[l] : ~(e <= 0)
      BY <1>1
    <3> QED
      BY <3>1, <3>2
  <2>2. CASE snap[l] # None
    <3>1. snap[l] = list[l]
      BY <2>2 DEF ReturnPage, SameList
    <3> QED
      BY <2>2, <3>1 DEF ReturnPage, ShownAt
  <2> QED
    BY <2>1, <2>2
<1>3. /\ shown'[l] = shown[l] \cup page /\ snap'[l] = list[l]
      /\ snap'[l] # None
  BY <1>1, NoneAssumption DEF ReturnPage, Typed, TypeOK
<1>4. /\ page \subseteq Rest(l) /\ (Rest(l) # {} => page # {})
      /\ \A e \in page, d \in Rest(l) : d <= e => d \in page
  BY <1>1, PageOf
<1>5. CASE page = Rest(l)
  <2>1. pc'[l] = "done"
    BY <1>5 DEF ReturnPage, Goto, Typed, TypeOK
  <2>2. shown'[l] = list[l]
    <3>1. \A e \in list[l] : e <= after[l] \/ e > after[l]
      BY <1>1
    <3> QED
      BY <1>2, <1>3, <1>5, <3>1 DEF Rest
  <2> QED
    BY <1>3, <2>1, <2>2 DEF ShownAt, Asking, Writing
<1>6. CASE page # Rest(l)
  <2>1. pc'[l] = "ready" /\ after'[l] = Latest(page)
    BY <1>6 DEF ReturnPage, Goto, Typed, TypeOK
  <2>2. /\ Latest(page) \in page /\ \A x \in page : x <= Latest(page)
        /\ page \in SUBSET Collection
    <3> HIDE DEF page
    <3> QED
      BY <1>1, <1>4, <1>6, LatestOf
  <2> DEFINE top == Latest(page)
  <2>3. top \in Nat /\ after[l] < top /\ top \in list[l]
    <3>1. top \in Rest(l) /\ top \in Collection
      BY <1>4, <2>2
    <3> QED
      BY <1>1, <3>1 DEF Rest
  <2>4. ASSUME NEW e \in list[l] PROVE e \in shown'[l] <=> e <= top
    <3>1. e \in Nat /\ e \in Collection
      BY <1>1
    <3>2. CASE e <= after[l]
      <4>1. e <= top
        BY <1>1, <2>3, <3>1, <3>2
      <4> QED
        BY <1>2, <1>3, <3>2, <4>1
    <3>3. CASE ~(e <= after[l])
      <4>1. e \in Rest(l)
        BY <1>1, <3>1, <3>3 DEF Rest
      <4>2. e <= top <=> e \in page
        <5> HIDE DEF page
        <5> QED
          BY <1>4, <2>2, <4>1
      <4> QED
        BY <1>2, <1>3, <3>3, <4>2
    <3> QED
      BY <3>2, <3>3
  <2>5. shown'[l] \subseteq list[l]
    BY <1>2, <1>3, <1>4 DEF Rest
  <2>6. shown'[l] = {e \in snap'[l] : e <= after'[l]}
    <3> HIDE DEF page
    <3> QED
      BY <1>3, <2>1, <2>4, <2>5
  <2> QED
    BY <1>3, <2>1, <2>6 DEF ShownAt, Asking, Writing
<1> QED
  BY <1>5, <1>6

\* Every step keeps what the pages have shown.
LEMMA ShownNext == ASSUME Typed, Shown, [Next]_vars PROVE Shown'
<1>1. ASSUME NEW l \in Lister, ShownAt(l)',
             \A m \in Lister \ {l} :
               /\ pc'[m] = pc[m] /\ snap'[m] = snap[m]
               /\ after'[m] = after[m] /\ shown'[m] = shown[m]
      PROVE  Shown'
  BY <1>1 DEF Shown, ShownAt
<1>2. ASSUME UNCHANGED <<pc, snap, after, shown>> PROVE Shown'
  BY <1>2 DEF Shown, ShownAt
<1>3. ASSUME NEW l \in Lister,
             \/ Skip(l) \/ ListAll(l) \/ ListPart(l) \/ ListFails(l)
             \/ MarkPartial(l) \/ Look(l) \/ CacheScoped(l) \/ CacheIndex(l)
             \/ Unmark(l) \/ CacheFails(l) \/ ReadMark(l) \/ ReadScoped(l)
             \/ ReadIndex(l)
      PROVE  Shown'
  <2>1. /\ pc[l] \in Asking /\ pc'[l] \in Asking \cup {"page"}
        /\ \A m \in Lister \ {l} : pc'[m] = pc[m]
        /\ UNCHANGED <<snap, after, shown>>
    BY <1>3, AskingKeepsPages
  <2>2. ShownAt(l)'
    BY <2>1 DEF Shown, ShownAt, Asking, Writing
  <2> QED
    BY <1>1, <2>1, <2>2
<1>4. ASSUME NEW l \in Lister, ReturnPage(l) PROVE Shown'
  <2>1. ShownAt(l)'
    BY <1>4, PageExtends DEF Shown
  <2> QED
    BY <1>1, <1>4, <2>1 DEF ReturnPage, Goto, Typed, TypeOK
<1>5. ASSUME NEW l \in Lister, NoPage(l) PROVE Shown'
  <2>1. /\ pc[l] = "page" /\ pc'[l] \in {"down", "changed"}
        /\ UNCHANGED <<snap, after, shown>>
        /\ \A m \in Lister \ {l} : pc'[m] = pc[m]
    BY <1>5 DEF NoPage, Goto, cursor, Typed, TypeOK
  <2>2. ShownAt(l)'
    BY <2>1 DEF Shown, ShownAt, Asking, Writing
  <2> QED
    BY <1>1, <2>1, <2>2
<1>6. ASSUME NEW l \in Lister, Continue(l) \/ Retry(l) PROVE Shown'
  <2>1. /\ pc[l] \in {"ready", "changed", "down"} /\ pc'[l] = "list"
        /\ UNCHANGED <<snap, after, shown>>
        /\ \A m \in Lister \ {l} : pc'[m] = pc[m]
    BY <1>6 DEF Continue, Retry, NewPage, Goto, cursor, Typed, TypeOK
  <2>2. ShownAt(l)'
    BY <2>1 DEF Shown, ShownAt, Asking, Writing
  <2> QED
    BY <1>1, <2>1, <2>2
<1>7. ASSUME NEW l \in Lister, Begin(l) \/ Quit(l) PROVE Shown'
  <2>1. /\ snap'[l] = None /\ shown'[l] = {} /\ after'[l] = 0
        /\ pc'[l] \in {"list", "idle"}
        /\ \A m \in Lister \ {l} :
             /\ pc'[m] = pc[m] /\ snap'[m] = snap[m]
             /\ after'[m] = after[m] /\ shown'[m] = shown[m]
    BY <1>7 DEF Begin, Quit, NewPage, NoCursor, Goto, Typed, TypeOK
  <2>2. ShownAt(l)'
    BY <2>1 DEF ShownAt
  <2> QED
    BY <1>1, <2>1, <2>2
<1>8. ASSUME \/ \E c \in Changing : Change(c) \/ Age(c) \/ OtherScope(c)
             \/ \E s \in Source : Evict(s) \/ EvictMark(s) \/ Clear({s})
             \/ Clear(Source)
      PROVE  Shown'
  BY <1>2, <1>8
     DEF Change, Age, OtherScope, Evict, EvictMark, Clear, CacheShakes, Shaken,
         answer, cursor
<1>9. CASE UNCHANGED vars
  BY <1>2, <1>9 DEF vars, answer, cursor
<1> QED
  BY <1>3, <1>4, <1>5, <1>6, <1>7, <1>8, <1>9 DEF Next, Run

\* However the sources change and fail between the pages, and however many
\* traversals there are, the pages of one that is finished are one list.
THEOREM OneList == Spec => []PagesAreOneList
<1>1. Init => Shown
  BY DEF Init, Shown, ShownAt, Asking, Writing
<1>2. Shown => PagesAreOneList
  BY DEF Shown, ShownAt, PagesAreOneList
<1> QED
  BY <1>1, <1>2, TypedInit, TypedNext, ShownNext, PTL DEF Spec

-----------------------------------------------------------------------------
(* A restart has cause.                                                     *)

\* What a traversal knows stays true of it where neither what it has nor the
\* parts of its list change, and where it is no longer steady.
LEMMA KeepsSteady ==
  ASSUME Typed, NEW m \in Lister, SteadyAt(m),
         pc'[m] = pc[m], at'[m] = at[m], got'[m] = got[m], list'[m] = list[m],
         failing'[m] = failing[m], failed'[m] = failed[m], snap'[m] = snap[m],
         \/ ~steady'[m] /\ stale'[m] = {}
         \/ /\ steady'[m] => steady[m]
            /\ stale'[m] = stale[m]
            /\ steady[m] => \A s \in Source : Part(m, s)' = Part(m, s)
            /\ pc[m] \in Writing /\ steady[m]
                 => has' \cap Of(at[m]) = has \cap Of(at[m])
            /\ pc[m] = "broad" /\ steady[m] => scoped'[at[m]] = scoped[at[m]]
  PROVE  SteadyAt(m)'
<1>1. CASE ~steady'[m] /\ stale'[m] = {}
  BY <1>1 DEF SteadyAt, Asking, Writing
<1>2. ASSUME steady'[m] => steady[m], stale'[m] = stale[m],
             steady[m] => \A s \in Source : Part(m, s)' = Part(m, s),
             pc[m] \in Writing /\ steady[m]
               => has' \cap Of(at[m]) = has \cap Of(at[m]),
             pc[m] = "broad" /\ steady[m] => scoped'[at[m]] = scoped[at[m]]
      PROVE  SteadyAt(m)'
  <2>1. at[m] - 1 \in 0..NSources /\ NSources \in Nat
    BY SourceAssumption DEF Typed, TypeOK
  <2>2. ASSUME steady[m], NEW n \in 0..NSources PROVE Upto(m, n)' = Upto(m, n)
    <3>1. \A s \in 1..n : Part(m, s)' = Part(m, s)
      BY <1>2, <2>1, <2>2 DEF Source
    <3> QED
      BY <3>1 DEF Upto
  <2>3. steady[m] => /\ Upto(m, NSources)' = Upto(m, NSources)
                     /\ Upto(m, at[m] - 1)' = Upto(m, at[m] - 1)
    BY <2>1, <2>2
  <2> QED
    BY <1>2, <2>3 DEF SteadyAt, Asking, Writing
<1> QED
  BY <1>1, <1>2

\* What changes in the cache is no part of the list of a traversal that is still
\* steady.
LEMMA CacheShaken ==
  ASSUME Typed, NEW m \in Lister, SteadyAt(m), has' = has, CacheShakes,
         pc'[m] = pc[m], at'[m] = at[m], got'[m] = got[m], list'[m] = list[m],
         failing'[m] = failing[m], failed'[m] = failed[m], snap'[m] = snap[m]
  PROVE  SteadyAt(m)'
<1>1. \/ ~steady'[m] /\ stale'[m] = {}
      \/ /\ steady'[m] => steady[m]
         /\ stale'[m] = stale[m]
         /\ \A s \in stale[m] : scoped'[s] = scoped[s] /\ index'[s] = index[s]
  BY DEF CacheShakes, Shaken, Typed, TypeOK
<1>2. CASE ~steady'[m] /\ stale'[m] = {}
  BY <1>2, KeepsSteady
<1>3. CASE /\ steady'[m] => steady[m]
           /\ stale'[m] = stale[m]
           /\ \A s \in stale[m] : scoped'[s] = scoped[s] /\ index'[s] = index[s]
  <2>1. \A s \in Source : Part(m, s)' = Part(m, s)
    <3> SUFFICES ASSUME NEW s \in Source PROVE Part(m, s)' = Part(m, s)
      OBVIOUS
    <3>1. s \in stale[m] => Read(s)' = Read(s)
      BY <1>3 DEF Read
    <3> QED
      BY <1>3, <3>1 DEF Part
  <2>2. pc[m] = "broad" /\ steady[m] => scoped'[at[m]] = scoped[at[m]]
    BY <1>3 DEF SteadyAt
  <2> QED
    BY <1>3, <2>1, <2>2, KeepsSteady
<1> QED
  BY <1>1, <1>2, <1>3

\* The source at hand has given its part, or none.
LEMMA TakeSteady ==
  ASSUME Typed, NEW l \in Lister, SteadyAt(l), pc[l] \in Asking,
         NEW n \in Source, n = at[l],
         NEW E \in SUBSET Collection, Take(l, E), UNCHANGED <<failed, snap>>,
         failing'[l] \in SUBSET (failing[l] \cup {n}),
         stale'[l] \in SUBSET (stale[l] \cup {n}),
         steady'[l] => /\ steady[l] /\ E = Part(l, n)'
                       /\ \A s \in Source \ {n} : Part(l, s)' = Part(l, s),
         steady'[l] /\ snap[l] # None =>
           failing'[l] = failing[l] /\ Part(l, n)' = Part(l, n)
  PROVE  SteadyAt(l)'
<1>1. /\ n \in 1..NSources /\ NSources \in Nat /\ at'[l] = n + 1
      /\ list'[l] = list[l] \cup E /\ pc'[l] \in {"list", "page"}
  BY SourceAssumption
     DEF Typed, TypeOK, Placed, PlacedAt, Take, Goto, Source
<1>2. \A s \in failing[l] \cup stale[l] : s \in 1..NSources
  BY DEF Typed, TypeOK, Source
<1>3. /\ \A s \in failing'[l] : s < at'[l] \/ (snap'[l] # None /\ s \in failed'[l])
      /\ snap'[l] = None => \A s \in stale'[l] : s < at'[l]
  <2>1. \A s \in failing[l] : s < at[l] \/ (snap[l] # None /\ s \in failed[l])
    BY DEF SteadyAt
  <2>2. snap[l] = None => \A s \in stale[l] : s <= at[l]
    BY <1>1, <1>2 DEF SteadyAt
  <2> QED
    BY <1>1, <1>2, <2>1, <2>2
<1>4. ASSUME steady'[l] PROVE list'[l] = Upto(l, n)'
  <2>1. list[l] = Upto(l, n - 1)
    BY <1>4 DEF SteadyAt
  <2>2. 1..n = (1..(n - 1)) \cup {n}
    BY <1>1
  <2>3. \A s \in 1..(n - 1) : Part(l, s)' = Part(l, s)
    BY <1>1, <1>4 DEF Source
  <2>4. Upto(l, n)' = Upto(l, n - 1) \cup Part(l, n)'
    <3>1. Upto(l, n)' = UNION {Part(l, s)' : s \in 1..n}
      BY <1>1 DEF Upto
    <3> QED
      BY <2>2, <2>3, <3>1 DEF Upto
  <2> QED
    BY <1>1, <1>4, <2>1, <2>4
<1>5. steady'[l] /\ snap[l] # None =>
        snap'[l] = Upto(l, NSources)' /\ failing'[l] = failed'[l]
  <2> SUFFICES ASSUME steady'[l], snap[l] # None
               PROVE  snap'[l] = Upto(l, NSources)' /\ failing'[l] = failed'[l]
    OBVIOUS
  <2>1. snap[l] = Upto(l, NSources) /\ failing[l] = failed[l]
    BY DEF SteadyAt
  <2>2. \A s \in Source : Part(l, s)' = Part(l, s)
    OBVIOUS
  <2> QED
    BY <2>1, <2>2 DEF Upto, Source
<1>6. at'[l] - 1 = n
  BY <1>1
<1> QED
  BY <1>1, <1>3, <1>4, <1>5, <1>6 DEF SteadyAt, Asking, Writing

\* Going on with the source at hand changes no part that the list has.
LEMMA GotoSteady ==
  ASSUME Typed, NEW l \in Lister, SteadyAt(l), pc[l] \in Asking \ {"broad"},
         pc'[l] \in Asking \ {"list"},
         at'[l] = at[l], list'[l] = list[l], failing'[l] = failing[l],
         UNCHANGED <<failed, snap>>,
         at[l] \notin failing[l],
         \/ stale'[l] = stale[l] \/ stale'[l] = {}
         \/ pc'[l] = "broad" /\ stale'[l] = stale[l] \cup {at[l]},
         pc'[l] \in {"mark", "look"} => ~steady'[l],
         steady'[l] => /\ steady[l]
                       /\ \A s \in Source : s # at[l] \/ snap[l] # None
                                              => Part(l, s)' = Part(l, s),
         steady'[l] /\ pc'[l] \in Writing =>
           got'[l].events = has' \cap Of(at[l]) /\ at[l] \notin stale'[l],
         steady'[l] /\ pc'[l] = "broad" =>
           at[l] \in stale'[l] /\ scoped'[at[l]] = None
  PROVE  SteadyAt(l)'
<1>1. /\ at[l] \in 1..NSources /\ NSources \in Nat
      /\ at[l] \in Source
  BY SourceAssumption DEF Typed, TypeOK, Placed, PlacedAt, Source
<1>2. ASSUME steady'[l] PROVE list'[l] = Upto(l, at[l] - 1)'
  <2>1. list[l] = Upto(l, at[l] - 1)
    BY <1>2 DEF SteadyAt
  <2>2. \A s \in 1..(at[l] - 1) : Part(l, s)' = Part(l, s)
    BY <1>1, <1>2 DEF Source
  <2> QED
    BY <2>1, <2>2 DEF Upto
<1>3. ASSUME steady'[l], snap[l] # None
      PROVE  snap'[l] = Upto(l, NSources)' /\ failing'[l] = failed'[l]
  <2>1. snap[l] = Upto(l, NSources) /\ failing[l] = failed[l]
    BY <1>3 DEF SteadyAt
  <2>2. \A s \in 1..NSources : Part(l, s)' = Part(l, s)
    BY <1>3 DEF Source
  <2> QED
    BY <2>1, <2>2 DEF Upto
<1>4. /\ \A s \in failing'[l] :
           s < at'[l] \/ (snap'[l] # None /\ s \in failed'[l])
      /\ snap'[l] = None =>
           \A s \in stale'[l] : s < at'[l] \/ (s = at'[l] /\ pc'[l] = "broad")
  BY <1>1 DEF SteadyAt
<1>5. at'[l] \notin failing'[l]
  OBVIOUS
<1> QED
  BY <1>1, <1>2, <1>3, <1>4, <1>5 DEF SteadyAt, Asking, Writing

\* A source that is asked has not failed, nor is it listed from the cache before
\* it is read there.
LEMMA AskedHasNotFailed ==
  ASSUME Typed, NEW l \in Lister, SteadyAt(l), pc[l] \in Asking,
         pc[l] = "list" => ~FailedBefore(l)
  PROVE  at[l] \notin failing[l]
<1>1. at[l] \in Nat
  BY SourceAssumption DEF Typed, Placed, PlacedAt, Source
<1>2. CASE pc[l] # "list"
  BY <1>2 DEF SteadyAt
<1>3. CASE pc[l] = "list"
  BY <1>1, <1>3 DEF SteadyAt, FailedBefore
<1> QED
  BY <1>2, <1>3

\* A source that fails gives nothing: it is left out from the first page on, or
\* it has not been steady.
LEMMA FailsSteady ==
  ASSUME Typed, NEW l \in Lister, SteadyAt(l), pc[l] \in Asking,
         SourceFails(l)
  PROVE  SteadyAt(l)'
<1>0. PICK n \in Source : n = at[l]
  BY DEF Typed, Placed, PlacedAt
<1>1. /\ failing'[l] = failing[l] \cup {n} /\ UNCHANGED <<failed, snap>>
      /\ UNCHANGED <<has, scoped, index>> /\ Take(l, {})
      /\ steady'[l] => steady[l] /\ snap[l] = None
      /\ stale'[l] \in {stale[l] \ {n}, {}}
      /\ steady'[l] => stale'[l] = stale[l] \ {n}
  BY <1>0 DEF Typed, TypeOK, SourceFails, Remains, source, cache
<1>2. Part(l, n)' = {}
  <2>1. n \in failing'[l]
    BY <1>1
  <2> QED
    BY <2>1 DEF Part
<1>3. steady'[l] => \A s \in Source \ {n} : Part(l, s)' = Part(l, s)
  BY <1>1 DEF Part, Read
<1> QED
  BY <1>0, <1>1, <1>2, <1>3, TakeSteady

\* Asking the sources, and reading what is cached of them.
LEMMA SteadyAsking ==
  ASSUME Typed, NEW l \in Lister, SteadyAt(l),
         \/ Skip(l) \/ ListAll(l) \/ ListPart(l) \/ ListFails(l)
         \/ ReadMark(l) \/ ReadScoped(l) \/ ReadIndex(l)
  PROVE  SteadyAt(l)'
<1>0. /\ has \subseteq Collection /\ CacheTyped /\ AnswerTyped /\ CursorTyped
      /\ Placed
  BY TypedParts
<1>1. pc[l] \in Asking /\ at[l] \in Source
  BY <1>0
     DEF Skip, ListAll, ListPart, ListFails, SourceFails, ReadMark, ReadScoped,
         ReadIndex, Placed, PlacedAt, Asking
<1>n. PICK n \in Source : n = at[l]
  BY <1>1
<1>2. /\ UNCHANGED <<has, scoped, index, failed, snap>>
      /\ steady'[l] => steady[l]
  BY <1>0
     DEF Skip, ListAll, ListPart, ListFails, SourceFails, ReadMark, ReadScoped,
         ReadIndex, Remains, source, cache, cursor, CursorTyped
<1>3. (pc[l] = "list" => ~FailedBefore(l)) => n \notin failing[l]
  BY <1>n, <1>1, AskedHasNotFailed
<1>4. ASSUME failing'[l] = failing[l], stale'[l] = stale[l]
      PROVE  \A s \in Source : Part(l, s)' = Part(l, s)
  BY <1>2, <1>4 DEF Part, Read
<1>5. CASE Skip(l)
  <2>1. /\ n \in failed[l] /\ snap[l] # None /\ Take(l, {})
        /\ failing' = failing /\ stale' = stale
    BY <1>n, <1>5 DEF Skip, FailedBefore, cursor
  <2>2. steady[l] => Part(l, n) = {}
    <3>1. steady[l] => failing[l] = failed[l]
      BY <1>1, <2>1 DEF SteadyAt
    <3> QED
      BY <2>1, <3>1 DEF Part
  <2>3. Part(l, n)' = Part(l, n)
    BY <1>4, <2>1
  <2> QED
    BY <1>n, <1>1, <1>2, <1>4, <2>1, <2>2, <2>3, TakeSteady
<1>6. CASE ListAll(l)
  <2>1. /\ pc'[l] = "scoped" /\ pc[l] = "list" /\ UNCHANGED <<at, list, failing>>
        /\ got'[l].events = has \cap Of(at[l])
        /\ steady'[l] => stale'[l] = stale[l] /\ at[l] \notin stale[l]
        /\ stale'[l] \in {stale[l], {}}
    BY <1>0, <1>6 DEF ListAll, Goto, Remains, AnswerTyped, CursorTyped
  <2>2. at[l] \notin failing[l]
    BY <1>n, <1>3, <1>6 DEF ListAll
  <2> QED
    BY <1>1, <1>2, <1>4, <2>1, <2>2, GotoSteady DEF Asking, Writing
<1>7. CASE ListPart(l)
  <2>1. /\ pc'[l] = "mark" /\ pc[l] = "list" /\ UNCHANGED <<at, list, failing>>
        /\ ~steady'[l] /\ stale'[l] = {}
    BY <1>0, <1>7 DEF ListPart, Goto, Remains, AnswerTyped, CursorTyped
  <2>2. at[l] \notin failing[l]
    BY <1>n, <1>3, <1>7 DEF ListPart
  <2> QED
    BY <1>1, <1>2, <2>1, <2>2, GotoSteady DEF Asking, Writing
<1>8. CASE ListFails(l)
  <2>1. CASE SourceFails(l)
    BY <1>1, <2>1, FailsSteady
  <2>2. CASE /\ Goto(l, "cached")
             /\ UNCHANGED <<source, cache, at, got, warned, list, failing, cursor>>
    <3>1. UNCHANGED <<at, list, failing, steady, stale>> /\ pc[l] = "list"
          /\ at[l] \notin failing[l] /\ pc'[l] = "cached"
      BY <1>0, <1>n, <1>3, <1>8, <2>2 DEF ListFails, cursor, Goto, AnswerTyped
    <3> QED
      BY <1>1, <1>2, <1>4, <2>2, <3>1, GotoSteady DEF Asking, Writing
  <2> QED
    BY <1>8, <2>1, <2>2 DEF ListFails
<1>9. CASE ReadMark(l)
  <2>1. /\ UNCHANGED <<at, list, failing, steady, stale>> /\ pc[l] = "cached"
        /\ pc'[l] = "exact" /\ at[l] \notin failing[l]
    BY <1>0, <1>n, <1>3, <1>9 DEF ReadMark, cursor, Goto, AnswerTyped
  <2> QED
    BY <1>1, <1>2, <1>4, <2>1, GotoSteady DEF Asking, Writing
<1>10. CASE ReadScoped(l)
  <2>1. /\ failing' = failing /\ pc[l] = "exact" /\ n \notin failing[l]
        /\ steady'[l] => /\ stale'[l] = stale[l] \cup {n}
                         /\ snap[l] = None \/ n \in stale[l]
        /\ stale'[l] \in {stale[l] \cup {n}, {}}
    BY <1>n, <1>0, <1>3, <1>10 DEF ReadScoped, Remains, CursorTyped
  <2>2. steady'[l] => \A s \in Source : s # n \/ snap[l] # None
                                          => Part(l, s)' = Part(l, s)
    BY <1>2, <2>1 DEF Part, Read
  <2>3. CASE scoped[n] # None
    <3>1. /\ scoped[n].events \in SUBSET Collection
          /\ Take(l, scoped[n].events)
      BY <1>0, <1>n, <1>10, <2>3 DEF ReadScoped, CacheTyped, Cached
    <3>2. steady'[l] => Part(l, n)' = scoped[n].events
      <4>1. failing'[l] = failing[l]
        BY <2>1
      <4> QED
        BY <1>2, <2>1, <2>3, <4>1 DEF Part, Read
    <3> QED
      BY <1>n, <1>1, <1>2, <2>1, <2>2, <3>1, <3>2, TakeSteady
  <2>4. CASE scoped[n] = None
    <3>1. pc'[l] = "broad" /\ UNCHANGED <<at, list>>
      BY <1>0, <1>n, <1>10, <2>4 DEF ReadScoped, Goto, AnswerTyped
    <3>2. stale'[l] = {} \/ stale'[l] = stale[l] \cup {at[l]}
      BY <1>n, <2>1
    <3>3. steady'[l] => at[l] \in stale'[l] /\ scoped'[at[l]] = None
      BY <1>n, <1>2, <2>1, <2>4
    <3> QED
      BY <1>n, <1>1, <1>2, <2>1, <2>2, <3>1, <3>2, <3>3, GotoSteady
         DEF Asking, Writing
  <2> QED
    BY <2>3, <2>4
<1>11. CASE ReadIndex(l)
  <2>1. CASE index[n] # None
    <3>1. /\ index[n] \in SUBSET Collection /\ Take(l, index[n])
          /\ failing' = failing /\ stale' = stale
          /\ pc[l] = "broad" /\ n \notin failing[l]
      BY <1>0, <1>n, <1>3, <1>11, <2>1 DEF ReadIndex, CacheTyped, cursor
    <3>2. steady[l] => n \in stale[l] /\ scoped[n] = None
      BY <1>n, <3>1 DEF SteadyAt
    <3>3. steady[l] => Part(l, n) = index[n]
      BY <3>1, <3>2 DEF Part, Read
    <3>4. Part(l, n)' = Part(l, n)
      BY <1>4, <3>1
    <3> QED
      BY <1>n, <1>1, <1>2, <1>4, <3>1, <3>3, <3>4, TakeSteady
  <2>2. CASE index[n] = None
    BY <1>n, <1>1, <1>11, <2>2, FailsSteady DEF ReadIndex
  <2> QED
    BY <2>1, <2>2
<1> QED
  BY <1>5, <1>6, <1>7, <1>8, <1>9, <1>10, <1>11

\* Caching an answer changes what other traversals have read, not what this one
\* has asked for itself.
LEMMA SteadyCaching ==
  ASSUME Typed, NEW l \in Lister, SteadyAt(l),
         \/ MarkPartial(l) \/ Look(l) \/ CacheScoped(l) \/ CacheIndex(l)
         \/ Unmark(l) \/ CacheFails(l)
  PROVE  SteadyAt(l)'
<1>0. /\ AnswerTyped /\ CursorTyped /\ Placed /\ CacheTyped
  BY TypedParts
<1>1. /\ pc[l] \in Writing /\ pc[l] \in Asking \ {"broad", "list"}
      /\ got[l].events \in SUBSET Collection
      /\ UNCHANGED <<has, failed, snap, failing>>
      /\ at[l] \in Source
  BY <1>0
     DEF MarkPartial, Look, CacheScoped, CacheIndex, Unmark, CacheFails, source,
         CacheShakes, Shaken, cursor, AnswerTyped, Answer, Asking, Writing,
         Placed, PlacedAt
<1>n. PICK n \in Source : n = at[l]
  BY <1>1
<1>2. /\ n \notin failing[l]
      /\ steady[l] => got[l].events = has \cap Of(n) /\ n \notin stale[l]
      /\ pc[l] \in {"mark", "look"} => ~steady[l]
  BY <1>n, <1>1 DEF SteadyAt, Asking, Writing
<1>3. /\ steady'[l] => /\ steady[l] /\ stale'[l] = stale[l]
                       /\ \A s \in stale[l] : scoped'[s] = scoped[s]
                                              /\ index'[s] = index[s]
      /\ stale'[l] \in {stale[l], {}}
  <2>1. CASE CacheScoped(l) \/ CacheIndex(l)
    <3>1. CacheShakes
      BY <2>1 DEF CacheScoped, CacheIndex
    <3> QED
      BY <1>0, <3>1 DEF CacheShakes, Shaken, CursorTyped
  <2>2. CASE MarkPartial(l) \/ Look(l) \/ Unmark(l) \/ CacheFails(l)
    BY <2>2 DEF MarkPartial, Look, Unmark, CacheFails, cache, cursor
  <2> QED
    BY <2>1, <2>2
<1>4. steady'[l] => \A s \in Source : Part(l, s)' = Part(l, s)
  <2> SUFFICES ASSUME steady'[l], NEW s \in Source
               PROVE  Part(l, s)' = Part(l, s)
    OBVIOUS
  <2>1. s \in stale[l] => Read(s)' = Read(s)
    BY <1>3 DEF Read
  <2> QED
    BY <1>1, <1>3, <2>1 DEF Part
<1>5. ASSUME Take(l, got[l].events) PROVE SteadyAt(l)'
  <2>1. steady[l] => Part(l, n) = got[l].events
    BY <1>2 DEF Part
  <2> QED
    BY <1>n, <1>1, <1>3, <1>4, <1>5, <2>1, TakeSteady
<1>6. ASSUME NEW s \in {"look", "scoped", "index", "unmark"}, Goto(l, s),
             UNCHANGED <<at, got, list>>, s = "look" => pc[l] = "mark"
      PROVE  SteadyAt(l)'
  <2>1. pc'[l] = s
    BY <1>0, <1>6 DEF Goto, AnswerTyped
  <2>2. /\ at[l] \notin failing[l] /\ stale'[l] \in {stale[l], {}}
        /\ s = "look" => ~steady'[l]
        /\ steady'[l] => got'[l].events = has' \cap Of(at[l])
                         /\ at[l] \notin stale'[l]
    BY <1>n, <1>1, <1>2, <1>3, <1>6
  <2> QED
    BY <1>1, <1>3, <1>4, <1>6, <2>1, <2>2, GotoSteady DEF Asking, Writing
<1>7. CASE MarkPartial(l) \/ Look(l)
  BY <1>6, <1>7 DEF MarkPartial, Look
<1>8. CASE CacheScoped(l)
  BY <1>6, <1>8 DEF CacheScoped
<1>9. CASE CacheIndex(l)
  BY <1>5, <1>6, <1>9 DEF CacheIndex
<1>10. CASE Unmark(l) \/ CacheFails(l)
  BY <1>5, <1>10 DEF Unmark, CacheFails
<1> QED
  BY <1>7, <1>8, <1>9, <1>10

\* Pages: the first one fixes a list that steady sources give again, so that a
\* later one cannot find another.
LEMMA SteadyPaging ==
  ASSUME Typed, NEW l \in Lister, SteadyAt(l),
         \/ Begin(l) \/ Continue(l) \/ Retry(l)
         \/ ReturnPage(l) \/ NoPage(l) \/ Quit(l)
  PROVE  SteadyAt(l)'
<1>0. /\ AnswerTyped /\ CursorTyped /\ Placed /\ has \subseteq Collection
  BY TypedParts
<1>1. /\ at'[l] = 1 /\ list'[l] = {} /\ failing'[l] = failed'[l]
      /\ UNCHANGED <<has, scoped, index>>
  BY <1>0
     DEF Begin, Continue, Retry, ReturnPage, NoPage, Quit, NewPage, Restart,
         source, cache, AnswerTyped
<1>2. Upto(l, at[l] - 1)' = {}
  <2>1. 1..(at'[l] - 1) = {}
    BY <1>1
  <2> QED
    BY <2>1 DEF Upto
<1>3. ASSUME failing'[l] = failing[l], stale'[l] = stale[l]
      PROVE  Upto(l, NSources)' = Upto(l, NSources)
  <2>1. \A s \in 1..NSources : Part(l, s)' = Part(l, s)
    BY <1>1, <1>3 DEF Part, Read
  <2> QED
    BY <2>1 DEF Upto
<1>4. CASE Begin(l) \/ Quit(l)
  <2>1. /\ pc'[l] \in {"list", "idle"} /\ snap'[l] = None /\ failed'[l] = {}
        /\ stale'[l] = {}
    BY <1>0, <1>4
       DEF Begin, Quit, NewPage, NoCursor, Goto, AnswerTyped, CursorTyped
  <2> QED
    BY <1>1, <1>2, <2>1 DEF SteadyAt, Asking, Writing
<1>5. CASE Continue(l) \/ Retry(l)
  <2>1. /\ pc[l] \in {"ready", "changed", "down"} /\ pc'[l] = "list"
        /\ UNCHANGED <<failed, snap, steady, stale>>
        /\ pc[l] # "ready" => snap[l] # None
    BY <1>0, <1>5 DEF Continue, Retry, NewPage, Goto, cursor, AnswerTyped
  <2>2. /\ snap[l] # None
        /\ steady[l] => snap[l] = Upto(l, NSources) /\ failing[l] = failed[l]
    BY <2>1 DEF SteadyAt
  <2>3. steady[l] => snap'[l] = Upto(l, NSources)'
    BY <1>1, <1>3, <2>1, <2>2
  <2> QED
    BY <1>1, <1>2, <2>1, <2>2, <2>3 DEF SteadyAt, Asking, Writing
<1>6. ASSUME pc[l] = "page", steady[l] PROVE list[l] = Upto(l, NSources)
  <2>1. list[l] = Upto(l, at[l] - 1) /\ at[l] = NSources + 1
    BY <1>0, <1>6 DEF SteadyAt, Placed, PlacedAt
  <2>2. at[l] - 1 = NSources
    BY <2>1, SourceAssumption
  <2> QED
    BY <2>1, <2>2
<1>7. CASE ReturnPage(l)
  <2>1. /\ pc[l] = "page" /\ pc'[l] \in {"ready", "done"} /\ snap'[l] = list[l]
        /\ failed'[l] = failing[l] /\ UNCHANGED <<steady, stale>>
    BY <1>0, <1>7 DEF ReturnPage, Goto, AnswerTyped, CursorTyped
  <2>2. snap'[l] # None
    BY <1>0, <2>1, NoneAssumption DEF AnswerTyped
  <2>3. steady[l] => snap'[l] = Upto(l, NSources)'
    BY <1>1, <1>3, <1>6, <2>1
  <2> QED
    BY <1>1, <1>2, <2>1, <2>2, <2>3 DEF SteadyAt, Asking, Writing
<1>8. CASE NoPage(l)
  <2>1. /\ pc[l] = "page" /\ UNCHANGED <<failed, snap, steady, stale>>
        /\ \/ pc'[l] = "down"
           \/ pc'[l] = "changed" /\ ~SameList(l)
    BY <1>0, <1>8 DEF NoPage, Goto, cursor, AnswerTyped
  <2>2. steady[l] /\ snap[l] # None =>
          snap[l] = Upto(l, NSources) /\ failing[l] = failed[l]
    BY <2>1 DEF SteadyAt
  <2>3. steady[l] => SameList(l)
    BY <1>6, <2>1, <2>2 DEF SameList
  <2>4. steady[l] /\ snap[l] # None => snap'[l] = Upto(l, NSources)'
    BY <1>1, <1>3, <2>1, <2>2
  <2> QED
    BY <1>1, <1>2, <2>1, <2>3, <2>4 DEF SteadyAt, Asking, Writing
<1> QED
  BY <1>4, <1>5, <1>7, <1>8

\* What a step of one lister leaves of the others'.
LEMMA OthersSteady ==
  ASSUME Typed, SteadyPages, NEW l \in Lister, Begin(l) \/ Run(l) \/ Retry(l) \/ Quit(l),
         NEW m \in Lister, m # l
  PROVE  SteadyAt(m)'
<1>0. /\ AnswerTyped /\ CursorTyped /\ CacheTyped /\ SteadyAt(m)
  BY TypedParts DEF SteadyPages
<1>1. has' = has
  BY DEF Run, Skip, ListAll, ListPart, ListFails, SourceFails, MarkPartial, Look,
         CacheScoped, CacheIndex, Unmark, CacheFails, ReadMark, ReadScoped,
         ReadIndex, ReturnPage, NoPage, Continue, Begin, Retry, Quit, source
<1>2. ASSUME UNCHANGED <<scoped, index>>, steady'[m] = steady[m],
             stale'[m] = stale[m], failing'[m] = failing[m],
             pc'[m] = pc[m], at'[m] = at[m], got'[m] = got[m], list'[m] = list[m],
             failed'[m] = failed[m], snap'[m] = snap[m]
      PROVE  SteadyAt(m)'
  <2>1. \A s \in Source : Part(m, s)' = Part(m, s)
    BY <1>1, <1>2 DEF Part, Read
  <2> QED
    BY <1>0, <1>1, <1>2, <2>1, KeepsSteady
<1>3. CASE Skip(l) \/ ListAll(l) \/ ListPart(l) \/ ListFails(l)
  BY <1>0, <1>2, <1>3
     DEF Skip, ListAll, ListPart, ListFails, SourceFails, Take, Goto, Remains,
         cache, cursor, AnswerTyped, CursorTyped
<1>4. CASE MarkPartial(l) \/ Look(l) \/ Unmark(l) \/ CacheFails(l)
  BY <1>0, <1>2, <1>4
     DEF MarkPartial, Look, Unmark, CacheFails, Take, Goto, cache, cursor,
         AnswerTyped, CursorTyped
<1>5. CASE ReadMark(l) \/ ReadScoped(l) \/ ReadIndex(l)
  BY <1>0, <1>2, <1>5
     DEF ReadMark, ReadScoped, ReadIndex, SourceFails, Take, Goto, Remains,
         cache, cursor, AnswerTyped, CursorTyped
<1>6. CASE \/ ReturnPage(l) \/ NoPage(l) \/ Continue(l)
           \/ Begin(l) \/ Retry(l) \/ Quit(l)
  BY <1>0, <1>2, <1>6
     DEF ReturnPage, NoPage, Continue, Begin, Retry, Quit, NewPage, NoCursor,
         Restart, Goto, cache, cursor, AnswerTyped, CursorTyped
<1>7. CASE CacheScoped(l) \/ CacheIndex(l)
  <2>1. /\ CacheShakes /\ pc'[m] = pc[m] /\ at'[m] = at[m] /\ got'[m] = got[m]
        /\ list'[m] = list[m] /\ failing'[m] = failing[m]
        /\ failed'[m] = failed[m] /\ snap'[m] = snap[m]
    BY <1>0, <1>7
       DEF CacheScoped, CacheIndex, Take, Goto, CacheShakes, Shaken, AnswerTyped
  <2> QED
    BY <1>0, <1>1, <2>1, CacheShaken
<1> QED
  BY <1>3, <1>4, <1>5, <1>6, <1>7 DEF Run

\* Every step keeps what the listers know. A change of a source is one of a
\* source that has failed or is listed from the cache, and does not matter, or
\* ends the steadiness.
LEMMA SteadyNext == ASSUME Typed, SteadyPages, [Next]_vars PROVE SteadyPages'
<1>0. /\ AnswerTyped /\ CursorTyped /\ CacheTyped /\ has \subseteq Collection
  BY TypedParts
<1>1. ASSUME UNCHANGED <<source, answer, cursor, scoped, index>>
      PROVE  SteadyPages'
  <2> SUFFICES ASSUME NEW m \in Lister PROVE SteadyAt(m)'
    BY DEF SteadyPages
  <2>1. \A s \in Source : Part(m, s)' = Part(m, s)
    BY <1>1 DEF Part, Read, source, answer, cursor
  <2>2. SteadyAt(m)
    BY DEF SteadyPages
  <2> QED
    BY <1>1, <2>1, <2>2, KeepsSteady DEF source, answer, cursor
<1>2. ASSUME NEW c \in Changing, Change(c) PROVE SteadyPages'
  <2> SUFFICES ASSUME NEW m \in Lister PROVE SteadyAt(m)'
    BY DEF SteadyPages
  <2>1. /\ UNCHANGED <<pc, at, got, list, failing, failed, snap, scoped, index>>
        /\ \/ ~steady'[m] /\ stale'[m] = {}
           \/ /\ steady'[m] => steady[m] /\ stale'[m] = stale[m]
              /\ stale'[m] = stale[m] /\ Owner[c] \in failing[m] \cup stale[m]
        /\ \A d \in Collection \ {c} : d \in has' <=> d \in has
        /\ has' \subseteq Collection /\ SteadyAt(m)
    BY <1>0, <1>2, SourceAssumption
       DEF Change, Shaken, cache, answer, CursorTyped, SteadyPages
  <2>2. CASE ~steady'[m] /\ stale'[m] = {}
    BY <2>1, <2>2, KeepsSteady
  <2>3. CASE ~(~steady'[m] /\ stale'[m] = {})
    <3>1. \A s \in Source : s \notin failing[m] \cup stale[m]
                              => has' \cap Of(s) = has \cap Of(s)
      BY <1>0, <2>1, <2>3 DEF Of
    <3>2. \A s \in Source : Part(m, s)' = Part(m, s)
      BY <2>1, <2>3, <3>1 DEF Part, Read
    <3>3. ASSUME pc[m] \in Writing, steady[m]
          PROVE  has' \cap Of(at[m]) = has \cap Of(at[m])
      <4>1. /\ at[m] \in Source /\ at[m] \notin failing[m] \cup stale[m]
        BY <2>1, <3>3 DEF Typed, Placed, PlacedAt, SteadyAt, Asking, Writing
      <4> QED
        BY <3>1, <4>1
    <3> QED
      BY <2>1, <2>3, <3>2, <3>3, KeepsSteady
  <2> QED
    BY <2>2, <2>3
<1>3. ASSUME UNCHANGED <<source, answer>>, CacheShakes PROVE SteadyPages'
  <2> SUFFICES ASSUME NEW m \in Lister PROVE SteadyAt(m)'
    BY DEF SteadyPages
  <2> QED
    BY <1>3, CacheShaken
       DEF SteadyPages, source, answer, CacheShakes, Shaken
<1>4. ASSUME \/ \E c \in Changing : Age(c) \/ OtherScope(c)
             \/ \E s \in Source : Evict(s) \/ Clear({s})
             \/ Clear(Source)
      PROVE  SteadyPages'
  BY <1>3, <1>4 DEF Age, OtherScope, Evict, Clear
<1>5. ASSUME NEW s \in Source, EvictMark(s) PROVE SteadyPages'
  BY <1>1, <1>5 DEF EvictMark
<1>6. ASSUME NEW l \in Lister, Begin(l) \/ Run(l) \/ Retry(l) \/ Quit(l)
      PROVE  SteadyPages'
  <2>1. SteadyAt(l)'
    BY <1>6, SteadyAsking, SteadyCaching, SteadyPaging DEF SteadyPages, Run
  <2>2. \A m \in Lister : m # l => SteadyAt(m)'
    BY <1>6, OthersSteady
  <2> QED
    BY <2>1, <2>2 DEF SteadyPages
<1>7. CASE UNCHANGED vars
  BY <1>1, <1>7 DEF vars, cache
<1> QED
  BY <1>2, <1>4, <1>5, <1>6, <1>7 DEF Next

\* A traversal is sent back to its start only where a source that it got events
\* from has changed, failed or answered in part since, or where the cached events
\* changed that a source was replaced by, or that source answered again: not
\* because a source that gave nothing answers, and not because of what is cached
\* of sources that answer.
THEOREM RestartsHaveCause == Spec => []RestartHasCause
<1>1. Init => SteadyPages
  BY DEF Init, SteadyPages, SteadyAt, Asking, Writing
<1>2. SteadyPages => RestartHasCause
  BY DEF SteadyPages, SteadyAt, RestartHasCause
<1> QED
  BY <1>1, <1>2, TypedInit, TypedNext, SteadyNext, PTL DEF Spec

-----------------------------------------------------------------------------
(* Partial lists in the cache.                                              *)

\* The steps of a lister disturb nothing, and settle nothing, where another one is
\* at work, and a step that changes a list or a mark is of one who is alone there.
LEMMA MarkedStep ==
  ASSUME Typed, MarkedInTime, NEW l \in Lister, NEW n, n = at[l],
         \A m \in Lister \ {l} : pc'[m] = pc[m] /\ at'[m] = at[m]
                                 /\ got'[m] = got[m] /\ warned'[m] = warned[m],
         \A s \in Source \ {n} : /\ marked'[s] = marked[s]
                                 /\ scoped'[s] = scoped[s]
                                 /\ s \in disturbed' <=> s \in disturbed,
         pc[l] \in Writing \/ UNCHANGED <<marked, scoped>>,
         n \in disturbed /\ (\E m \in Lister \ {l} : Busy(m, n))
           => n \in disturbed',
         \A s \in Source : Busy(l, s)' /\ ~Busy(l, s) =>
           \A m \in Lister \ {l} : Busy(m, s) => s \in disturbed',
         n \in CalDAV \ disturbed' => PartialMarked(n)',
         n \in Source \ CalDAV => FeedWhole(n)',
         MarkedAt(l)'
  PROVE  MarkedInTime'
<1>1. \A s \in CalDAV \ disturbed' : PartialMarked(s)'
  <2> SUFFICES ASSUME NEW s \in CalDAV, s \notin disturbed', s # n
               PROVE  PartialMarked(s)'
    OBVIOUS
  <2>1. s \in Source \ {n}
    BY SourceAssumption
  <2>2. PartialMarked(s)
    BY <2>1 DEF MarkedInTime
  <2> QED
    BY <2>1, <2>2 DEF PartialMarked
<1>2. \A s \in Source \ CalDAV : FeedWhole(s)'
  BY DEF MarkedInTime, FeedWhole
<1>3. \A m \in Lister \ {l}, s \in Source :
        /\ Busy(m, s)' <=> Busy(m, s)
        /\ Busy(m, s) /\ s \in disturbed => s \in disturbed'
  BY DEF Busy
<1>4. ASSUME NEW m \in Lister \ {l} PROVE MarkedAt(m)'
  <2>1. MarkedAt(m)
    BY DEF MarkedInTime
  <2>2. CASE pc[m] \notin Writing \cup {"exact"}
    BY <2>2 DEF MarkedAt, Writing
  <2>3. CASE pc[m] \in Writing \cup {"exact"}
    <3>1. at[m] \in Source
      BY <2>3 DEF Typed, Placed, PlacedAt, Asking
    <3>2. ASSUME at[m] \in CalDAV \ disturbed'
          PROVE  /\ at[m] \notin disturbed
                 /\ marked'[at[m]] = marked[at[m]] /\ scoped'[at[m]] = scoped[at[m]]
      <4>1. Busy(m, at[m])
        BY <2>3, <3>2 DEF Busy, Writing
      <4>2. at[m] \notin disturbed
        BY <1>3, <3>1, <3>2, <4>1
      <4>3. ASSUME at[m] = n PROVE pc[l] \notin Writing
        <5> SUFFICES ASSUME pc[l] \in Writing PROVE FALSE
          OBVIOUS
        <5>1. Busy(l, at[m])
          BY <3>2, <4>3 DEF Busy, Writing
        <5> QED
          BY <3>1, <4>1, <4>2, <5>1 DEF MarkedInTime, Alone
      <4> QED
        BY <3>1, <4>2, <4>3
    <3> QED
      BY <2>1, <3>2 DEF MarkedAt, Whole
  <2> QED
    BY <2>2, <2>3
<1>5. Alone'
  <2> SUFFICES ASSUME NEW k \in Lister, NEW m \in Lister, NEW s \in Source,
                      k # m, Busy(k, s)', Busy(m, s)', m # l
               PROVE  s \in disturbed'
    <3>1. \A k, m \in Lister : \A s \in Source :
            k # m /\ Busy(k, s)' /\ Busy(m, s)' /\ m # l => s \in disturbed'
      OBVIOUS
    <3> QED
      BY <3>1 DEF Alone
  <2>1. Busy(m, s)
    BY <1>3
  <2>2. CASE Busy(k, s)
    <3>1. s \in disturbed
      BY <2>1, <2>2 DEF MarkedInTime, Alone
    <3> QED
      BY <1>3, <2>1, <3>1
  <2>3. CASE ~Busy(k, s)
    <3>1. k = l
      BY <1>3, <2>3
    <3> QED
      BY <2>1, <2>3, <3>1
  <2> QED
    BY <2>2, <2>3
<1> QED
  BY <1>1, <1>2, <1>4, <1>5 DEF MarkedInTime

\* Eviction and clears: where a mark goes that somebody counts on, the source is
\* disturbed.
LEMMA MarkedSources ==
  ASSUME Typed, MarkedInTime,
         \/ \E s \in Source : Evict(s) \/ EvictMark(s) \/ Clear({s})
         \/ Clear(Source)
  PROVE  MarkedInTime'
<1>1. UNCHANGED <<pc, at, got, warned>>
  BY DEF Evict, EvictMark, Clear, answer
<1> DEFINE Losses ==
             /\ disturbed \subseteq disturbed'
             /\ \A s \in Source : scoped'[s] \in {scoped[s], None}
             /\ \A s \in Source :
                  \/ marked'[s] = marked[s] \/ s \in disturbed'
                  \/ scoped'[s] = None /\ \A l \in Lister : ~Busy(l, s)
<1>2. Losses
  <2>1. ASSUME NEW s \in Source, Evict(s) PROVE Losses
    BY <2>1 DEF Evict, Typed, TypeOK
  <2>2. ASSUME NEW s \in Source, EvictMark(s) PROVE Losses
    BY <2>2 DEF EvictMark, Typed, TypeOK
  <2>3. ASSUME NEW S \in SUBSET Source, Clear(S) PROVE Losses
    BY <2>3 DEF Clear, Typed, TypeOK
  <2> QED
    BY <2>1, <2>2, <2>3
<1>3. \A s \in CalDAV \ disturbed' : PartialMarked(s)'
  <2> SUFFICES ASSUME NEW s \in CalDAV, s \notin disturbed'
               PROVE  PartialMarked(s)'
    OBVIOUS
  <2>1. s \in Source /\ s \notin disturbed
    BY <1>2, SourceAssumption
  <2>2. PartialMarked(s)
    BY <2>1 DEF MarkedInTime
  <2> QED
    BY <1>2, <2>1, <2>2 DEF PartialMarked
<1>4. \A s \in Source \ CalDAV : FeedWhole(s)'
  BY <1>2 DEF MarkedInTime, FeedWhole
<1>5. ASSUME NEW m \in Lister PROVE MarkedAt(m)'
  <2>1. MarkedAt(m)
    BY DEF MarkedInTime
  <2>2. CASE pc[m] \notin Writing \cup {"exact"}
    BY <1>1, <2>2 DEF MarkedAt, Writing
  <2>3. CASE pc[m] \in Writing \cup {"exact"}
    <3>1. at[m] \in Source
      BY <2>3 DEF Typed, Placed, PlacedAt, Asking
    <3>2. at[m] \in CalDAV \ disturbed' =>
            at[m] \notin disturbed /\ marked'[at[m]] = marked[at[m]]
      BY <1>2, <2>3, <3>1 DEF Busy, Writing
    <3> QED
      BY <1>1, <1>2, <2>1, <3>1, <3>2 DEF MarkedAt, Whole
  <2> QED
    BY <2>2, <2>3
<1>6. Alone'
  <2>1. \A l \in Lister, s \in Source : Busy(l, s)' <=> Busy(l, s)
    BY <1>1 DEF Busy
  <2> QED
    BY <1>2, <2>1 DEF MarkedInTime, Alone
<1> QED
  BY <1>3, <1>4, <1>5, <1>6 DEF MarkedInTime

\* Asking a source and reading the cache change no list and no mark; an answer in
\* part goes to the mark first, a whole one need not.
LEMMA MarkedAsking ==
  ASSUME Typed, MarkedInTime, NEW l \in Lister,
         \/ Skip(l) \/ ListAll(l) \/ ListPart(l) \/ ListFails(l)
         \/ CacheFails(l) \/ ReadMark(l) \/ ReadScoped(l) \/ ReadIndex(l)
         \/ ReturnPage(l) \/ NoPage(l) \/ Continue(l)
         \/ Begin(l) \/ Retry(l) \/ Quit(l)
  PROVE  MarkedInTime'
<1>0. AnswerTyped /\ CacheTyped
  BY TypedParts
<1>n. PICK n : n = at[l]
  OBVIOUS
<1>1. UNCHANGED <<marked, scoped>>
  BY DEF Skip, ListAll, ListPart, ListFails, SourceFails, CacheFails, ReadMark,
         ReadScoped, ReadIndex, ReturnPage, NoPage, Continue, Begin, Retry,
         Quit, cache
<1>2. \A m \in Lister \ {l} : pc'[m] = pc[m] /\ at'[m] = at[m]
                              /\ got'[m] = got[m] /\ warned'[m] = warned[m]
  <2>1. CASE \/ Skip(l) \/ ListAll(l) \/ ListPart(l) \/ ListFails(l)
             \/ CacheFails(l)
    BY <1>0, <2>1
       DEF Skip, ListAll, ListPart, ListFails, SourceFails, CacheFails, Take,
           Goto, AnswerTyped
  <2>2. CASE ReadMark(l) \/ ReadScoped(l) \/ ReadIndex(l)
    BY <1>0, <2>2
       DEF ReadMark, ReadScoped, ReadIndex, SourceFails, Take, Goto, AnswerTyped
  <2>3. CASE \/ ReturnPage(l) \/ NoPage(l) \/ Continue(l)
             \/ Begin(l) \/ Retry(l) \/ Quit(l)
    BY <1>0, <2>3
       DEF ReturnPage, NoPage, Continue, Begin, Retry, Quit, NewPage, Restart,
           Goto, AnswerTyped
  <2> QED
    BY <2>1, <2>2, <2>3
<1>3. n \in CalDAV /\ PartialMarked(n) => PartialMarked(n)'
  BY <1>1 DEF PartialMarked
<1>4. n \in Source \ CalDAV => FeedWhole(n)'
  BY <1>1 DEF FeedWhole, MarkedInTime
<1>5. CASE \/ Skip(l) \/ ListFails(l) \/ CacheFails(l)
           \/ ReadScoped(l) \/ ReadIndex(l)
           \/ ReturnPage(l) \/ NoPage(l) \/ Continue(l)
           \/ Begin(l) \/ Retry(l) \/ Quit(l)
  <2>1. disturbed' = disturbed
    BY <1>5
       DEF Skip, ListFails, SourceFails, CacheFails, ReadScoped, ReadIndex,
           ReturnPage, NoPage, Continue, Begin, Retry, Quit, cache
  <2>2. pc'[l] \notin Writing \cup {"exact"}
    <3>1. CASE \/ Skip(l) \/ ListFails(l) \/ CacheFails(l)
               \/ ReadScoped(l) \/ ReadIndex(l)
      BY <1>0, <3>1
         DEF Skip, ListFails, SourceFails, CacheFails, ReadScoped, ReadIndex,
             Take, Goto, AnswerTyped, Writing
    <3>2. CASE \/ ReturnPage(l) \/ NoPage(l) \/ Continue(l)
               \/ Begin(l) \/ Retry(l) \/ Quit(l)
      BY <1>0, <3>2
         DEF ReturnPage, NoPage, Continue, Begin, Retry, Quit, NewPage, Goto,
             AnswerTyped, Writing
    <3> QED
      BY <1>5, <3>1, <3>2
  <2>3. MarkedAt(l)' /\ \A s \in Source : ~Busy(l, s)'
    BY <2>2 DEF MarkedAt, Busy, Writing
  <2>4. n \in CalDAV \ disturbed' => PartialMarked(n)'
    BY <1>3, <2>1 DEF MarkedInTime
  <2> QED
    BY <1>n, <1>1, <1>2, <1>4, <2>1, <2>3, <2>4, MarkedStep
<1>6. CASE ListAll(l) \/ ListPart(l) \/ ReadMark(l)
  <2>1. /\ Meets(l) \/ disturbed' = disturbed \cup {n}
        /\ pc[l] \in {"list", "cached"} /\ at'[l] = at[l] /\ n \in Source
    BY <1>n, <1>6
       DEF ListAll, ListPart, ReadMark, Typed, Placed, PlacedAt, Asking
  <2>2. /\ disturbed \subseteq disturbed' /\ disturbed' \subseteq disturbed \cup {n}
        /\ \A m \in Lister \ {l} : Busy(m, n) => n \in disturbed'
    BY <1>n, <2>1 DEF Meets
  <2>3. \A s \in Source : Busy(l, s)' => s = n
    BY <1>n, <2>1 DEF Busy
  <2>4. n \in CalDAV \ disturbed' => PartialMarked(n) /\ PartialMarked(n)'
    BY <1>3, <2>1, <2>2 DEF MarkedInTime
  <2>5. MarkedAt(l)'
    <3>1. CASE ListAll(l)
      <4>1. pc'[l] = "scoped" /\ Whole(l)'
        BY <1>0, <3>1 DEF ListAll, Goto, Whole, AnswerTyped
      <4> QED
        BY <4>1 DEF MarkedAt
    <3>2. CASE ListPart(l)
      <4>1. pc'[l] = "mark" /\ ~Whole(l)' /\ at'[l] \in CalDAV
        BY <1>0, <3>2 DEF ListPart, Goto, Whole, AnswerTyped
      <4> QED
        BY <4>1 DEF MarkedAt
    <3>3. CASE ReadMark(l)
      <4>1. /\ pc'[l] = "exact" /\ at'[l] = n
            /\ warned'[l] = marked[n] \/ n \in disturbed'
        BY <1>0, <1>n, <3>3 DEF ReadMark, Goto, AnswerTyped
      <4> QED
        BY <1>1, <2>4, <4>1 DEF MarkedAt, PartialMarked, Writing
    <3> QED
      BY <1>6, <3>1, <3>2, <3>3
  <2> QED
    BY <1>n, <1>1, <1>2, <1>4, <2>2, <2>3, <2>4, <2>5, MarkedStep
<1> QED
  BY <1>5, <1>6

\* The transactions that cache an answer, in their order.
LEMMA MarkedCaching ==
  ASSUME Typed, MarkedInTime, NEW l \in Lister,
         \/ MarkPartial(l) \/ Look(l) \/ CacheScoped(l) \/ CacheIndex(l)
         \/ Unmark(l)
  PROVE  MarkedInTime'
<1>0. /\ AnswerTyped /\ CacheTyped /\ pc[l] \in Writing /\ at[l] \in Source
  BY TypedParts
     DEF Typed, Placed, PlacedAt, Asking, Writing, MarkPartial, Look,
         CacheScoped, CacheIndex, Unmark
<1>n. PICK n \in Source : n = at[l]
  BY <1>0
<1>1. /\ MarkedAt(l)
      /\ n \in CalDAV \ disturbed => PartialMarked(n)
      /\ n \in Source \ CalDAV => FeedWhole(n)
  BY DEF MarkedInTime
<1>2. \A m \in Lister \ {l} : pc'[m] = pc[m] /\ at'[m] = at[m]
                              /\ got'[m] = got[m] /\ warned'[m] = warned[m]
  BY <1>0
     DEF MarkPartial, Look, CacheScoped, CacheIndex, Unmark, Take, Goto,
         AnswerTyped
<1>3. \A s \in Source \ {n} : marked'[s] = marked[s] /\ scoped'[s] = scoped[s]
  BY <1>0, <1>n
     DEF MarkPartial, Look, CacheScoped, CacheIndex, Unmark, CacheTyped, cache
<1>4. /\ \A s \in Source \ {n} : s \in disturbed' <=> s \in disturbed
      /\ n \in disturbed /\ (\E m \in Lister \ {l} : Busy(m, n))
           => n \in disturbed'
      /\ disturbed' \subseteq disturbed
  BY <1>n
     DEF MarkPartial, Look, CacheScoped, CacheIndex, Unmark, Settles, cache
<1>5. \A s \in Source : Busy(l, s)' => Busy(l, s)
  <2>1. at'[l] = at[l] \/ pc'[l] \in {"list", "page"}
    BY <1>0
       DEF MarkPartial, Look, CacheScoped, CacheIndex, Unmark, Take, Goto,
           AnswerTyped
  <2> QED
    BY <1>0, <2>1 DEF Busy, Writing
<1>6. ASSUME n \in CalDAV \ disturbed' => PartialMarked(n)',
             n \in Source \ CalDAV => FeedWhole(n)', MarkedAt(l)'
      PROVE  MarkedInTime'
  BY <1>n, <1>0, <1>2, <1>3, <1>4, <1>5, <1>6, MarkedStep
<1>7. CASE MarkPartial(l)
  <2>1. /\ pc[l] = "mark" /\ pc'[l] = "look" /\ UNCHANGED <<at, got, scoped>>
        /\ marked'[n] = TRUE
    BY <1>0, <1>n, <1>7
       DEF MarkPartial, AsPartial, Goto, AnswerTyped, CacheTyped
  <2>2. ~Whole(l) /\ ~Whole(l)' /\ n \in CalDAV
    BY <1>n, <1>1, <2>1 DEF MarkedAt, Whole, Writing
  <2>3. PartialMarked(n)'
    BY <2>1 DEF PartialMarked
  <2>4. MarkedAt(l)'
    BY <1>n, <2>1, <2>2 DEF MarkedAt
  <2> QED
    BY <1>6, <2>2, <2>3, <2>4
<1>8. CASE Look(l)
  <2>1. /\ pc[l] = "look" /\ pc'[l] \in {"scoped", "index"}
        /\ UNCHANGED <<at, got, scoped, marked, disturbed>>
    BY <1>0, <1>8 DEF Look, cache, Goto, AnswerTyped
  <2>2. ~Whole(l) /\ ~Whole(l)' /\ n \in CalDAV
    BY <1>n, <1>1, <2>1 DEF MarkedAt, Whole, Writing
  <2>3. PartialMarked(n)' <=> PartialMarked(n)
    BY <2>1 DEF PartialMarked
  <2>4. MarkedAt(l)'
    BY <1>n, <1>1, <2>1, <2>2 DEF MarkedAt
  <2> QED
    BY <1>1, <1>6, <2>1, <2>2, <2>3, <2>4
<1>9. CASE CacheScoped(l)
  <2>1. /\ pc[l] = "scoped" /\ pc'[l] = "index" /\ UNCHANGED <<at, got, marked>>
        /\ ~Whole(l) => disturbed' = disturbed
    BY <1>0, <1>9 DEF CacheScoped, Goto, AnswerTyped
  <2>2. Whole(l) => scoped'[n].whole
    BY <1>0, <1>n, <1>9 DEF CacheScoped, CacheTyped
  <2>3. /\ n \notin CalDAV => Whole(l)
        /\ n \in CalDAV \ disturbed /\ ~Whole(l) => marked[n]
    BY <1>n, <1>1, <2>1 DEF MarkedAt, Writing
  <2>4. n \in CalDAV \ disturbed' => PartialMarked(n)'
    BY <2>1, <2>2, <2>3 DEF PartialMarked
  <2>5. n \in Source \ CalDAV => FeedWhole(n)'
    BY <2>2, <2>3 DEF FeedWhole
  <2>6. Whole(l)' <=> Whole(l)
    BY <2>1 DEF Whole
  <2>7. MarkedAt(l)'
    BY <1>n, <2>1, <2>2, <2>3, <2>6 DEF MarkedAt
  <2> QED
    BY <1>6, <2>4, <2>5, <2>7
<1>10. CASE CacheIndex(l)
  <2>1. /\ pc[l] = "index" /\ UNCHANGED <<scoped, marked, disturbed>>
        /\ \/ Whole(l) /\ pc'[l] = "unmark" /\ UNCHANGED <<at, got>>
           \/ pc'[l] \in {"page", "list"}
    BY <1>0, <1>10 DEF CacheIndex, Take, Goto, AnswerTyped
  <2>2. PartialMarked(n)' <=> PartialMarked(n)
    BY <2>1 DEF PartialMarked
  <2>3. FeedWhole(n)' <=> FeedWhole(n)
    BY <2>1 DEF FeedWhole
  <2>4. MarkedAt(l)'
    <3>1. CASE pc'[l] \in {"page", "list"}
      BY <3>1 DEF MarkedAt, Writing
    <3>2. CASE Whole(l) /\ pc'[l] = "unmark" /\ UNCHANGED <<at, got>>
      <4>1. Whole(l)'
        BY <3>2 DEF Whole
      <4> QED
        BY <1>1, <2>1, <3>2, <4>1 DEF MarkedAt
    <3> QED
      BY <2>1, <3>1, <3>2
  <2> QED
    BY <1>1, <1>6, <2>1, <2>2, <2>3, <2>4
<1>11. CASE Unmark(l)
  <2>1. /\ pc[l] = "unmark" /\ pc'[l] \in {"page", "list"} /\ scoped' = scoped
        /\ disturbed' = disturbed
    BY <1>0, <1>11 DEF Unmark, Take, Goto, AnswerTyped
  <2>2. n \in CalDAV \ disturbed => scoped[n] = None \/ scoped[n].whole
    BY <1>n, <1>1, <2>1 DEF MarkedAt
  <2>3. n \in CalDAV \ disturbed' => PartialMarked(n)'
    BY <2>1, <2>2 DEF PartialMarked
  <2>4. FeedWhole(n)' <=> FeedWhole(n)
    BY <2>1 DEF FeedWhole
  <2>5. MarkedAt(l)'
    BY <2>1 DEF MarkedAt, Writing
  <2> QED
    BY <1>1, <1>6, <2>3, <2>4, <2>5
<1> QED
  BY <1>7, <1>8, <1>9, <1>10, <1>11

\* Every step keeps the marks.
LEMMA MarkedNext == ASSUME Typed, MarkedInTime, [Next]_vars PROVE MarkedInTime'
<1>1. ASSUME UNCHANGED <<marked, scoped, disturbed, pc, at, got, warned>>
      PROVE  MarkedInTime'
  BY <1>1 DEF MarkedInTime, PartialMarked, FeedWhole, MarkedAt, Whole, Alone, Busy
<1>2. ASSUME NEW c \in Changing, Change(c) \/ Age(c) \/ OtherScope(c)
      PROVE  MarkedInTime'
  BY <1>1, <1>2 DEF Change, Age, OtherScope, cache, answer
<1>3. ASSUME NEW l \in Lister, Begin(l) \/ Run(l) \/ Retry(l) \/ Quit(l)
      PROVE  MarkedInTime'
  BY <1>3, MarkedAsking, MarkedCaching DEF Run
<1>4. CASE UNCHANGED vars
  BY <1>1, <1>4 DEF vars, cache, answer
<1> QED
  BY <1>2, <1>3, <1>4, MarkedSources DEF Next

\* A list that is taken from the cache is a whole one or known to be partial,
\* unless the source is disturbed.
LEMMA TakenIsMarked ==
  ASSUME Typed, MarkedInTime, [Next]_vars, NEW l \in Lister,
         pc[l] = "exact", pc'[l] \in {"list", "page"}
  PROVE  at[l] \in disturbed \/ scoped[at[l]].whole \/ warned[l]
<1>1. scoped[at[l]] # None
  <2>1. ASSUME NEW m \in Lister, Begin(m) \/ Run(m) \/ Retry(m) \/ Quit(m)
        PROVE  scoped[at[l]] # None
    <3>1. CASE m # l
      <4>1. \E s \in Step : Goto(m, s)
        BY <2>1
           DEF Run, Skip, ListAll, ListPart, ListFails, SourceFails, MarkPartial,
               Look, CacheScoped, CacheIndex, Unmark, CacheFails, ReadMark,
               ReadScoped, ReadIndex, ReturnPage, NoPage, Continue, Begin,
               Retry, Quit, NewPage, Take, Step
      <4> QED
        BY <3>1, <4>1 DEF Goto, Typed, TypeOK
    <3>2. CASE m = l
      <4>1. Quit(l) \/ ReadScoped(l)
        BY <2>1, <3>2
           DEF Run, Skip, ListAll, ListPart, ListFails, SourceFails, MarkPartial,
               Look, CacheScoped, CacheIndex, Unmark, CacheFails, ReadMark,
               ReadIndex, ReturnPage, NoPage, Continue, Begin, Retry, Ended
      <4> QED
        BY <4>1 DEF Quit, ReadScoped, Goto, Typed, TypeOK
    <3> QED
      BY <3>1, <3>2
  <2>2. pc'[l] # pc[l]
    OBVIOUS
  <2>3. pc' # pc
    BY <2>2
  <2> QED
    BY <2>1, <2>3
       DEF Next, Change, Age, OtherScope, Evict, EvictMark, Clear, answer, vars
<1>2. at[l] \in Source /\ MarkedAt(l)
  BY DEF Typed, Placed, PlacedAt, Asking, MarkedInTime
<1>3. CASE at[l] \in CalDAV
  BY <1>1, <1>2, <1>3 DEF MarkedAt
<1>4. CASE at[l] \notin CalDAV
  BY <1>1, <1>2, <1>4 DEF MarkedInTime, FeedWhole
<1> QED
  BY <1>3, <1>4

\* However many listings there are, and whatever step of their caching fails or is
\* interrupted: a cached list without the events of some collection is given with
\* the warning that it is partial. Only a source is excepted where two listings
\* were at what is cached of it at once, or whose mark was cleared or evicted under
\* one, until a listing that is alone there has settled it.
THEOREM PartialListsAreMarked == Spec => PartIsNotHidden
<1>1. Init => MarkedInTime
  <2> SUFFICES ASSUME Init PROVE MarkedInTime
    OBVIOUS
  <2>1. /\ \A s \in Source : PartialMarked(s) /\ FeedWhole(s)
        /\ CalDAV \subseteq Source
    BY SourceAssumption DEF Init, PartialMarked, FeedWhole
  <2>2. \A l \in Lister : pc[l] = "idle"
    BY DEF Init
  <2>3. \A l \in Lister : MarkedAt(l)
    BY <2>2 DEF MarkedAt, Writing
  <2>4. Alone
    BY <2>2 DEF Alone, Busy
  <2> QED
    BY <2>1, <2>3, <2>4 DEF MarkedInTime
<1>2. Typed /\ MarkedInTime /\ [Next]_vars => MarkedInTime'
  BY MarkedNext
<1>3. Typed /\ MarkedInTime /\ [Next]_vars
        => [\A l \in Lister :
              LET s == at[l] IN
              pc[l] = "exact" /\ pc'[l] \in {"list", "page"}
                => s \in disturbed \/ scoped[s].whole \/ warned[l]]_vars
  BY TakenIsMarked
<1> QED
  BY <1>1, <1>2, <1>3, TypedInit, TypedNext, PTL DEF Spec, PartIsNotHidden
===============================================================================
