---------------------------- MODULE CompareProofs ----------------------------
(* What holds of Compare for every corpus, every number of jobs, every limit *)
(* and every set of requests.                                               *)
EXTENDS Compare, FiniteSetTheorems, TLAPS

MaybeRevs == Revs \union {NoRev}
CacheType == /\ latest \in [Pages -> Revs]
             /\ wikitext \in [Pages -> MaybeRevs]
             /\ rendered \in [Pages -> MaybeRevs]
FoundType == /\ rev \in [Pages -> MaybeRevs]
             /\ text \in [Pages -> MaybeRevs]
             /\ oracle \in [Pages -> MaybeRevs]
Busy == {"revision", "wikitext", "fetch_wikitext", "oracle", "fetch_oracle",
         "render", "rendering"}
Ends == {"compared", "skipped", "lost", "stalled", "refused"}
StepType == /\ step \in [Pages -> Busy \union {"waiting", "done"}]
            /\ row \in [Pages -> Ends \union {"none"}]
            /\ \A p \in Pages : step[p] = "done" <=> row[p] # "none"
RunType == /\ runs \in Nat /\ req \in Requests
           /\ worker \in [Pages -> {"none", "busy", "abandoned"}]
           /\ live \in Nat
Typed == CacheType /\ FoundType /\ StepType /\ RunType

\* The type invariant says no less than its parts.
LEMMA TypedIsTypeOK == Typed => TypeOK
<1> SUFFICES ASSUME Typed PROVE TypeOK
  OBVIOUS
<1>1. Busy \union {"waiting", "done"} =
        {"waiting", "revision", "wikitext", "fetch_wikitext", "oracle",
         "fetch_oracle", "render", "rendering", "done"}
  BY DEF Busy
<1>2. Ends \union {"none"} = {"none", "compared", "skipped", "lost", "stalled",
                              "refused"}
  BY DEF Ends
<1>3. step \in [Pages -> {"waiting", "revision", "wikitext", "fetch_wikitext",
                          "oracle", "fetch_oracle", "render", "rendering",
                          "done"}]
  BY <1>1 DEF Typed, StepType
<1>4. row \in [Pages -> {"none", "compared", "skipped", "lost", "stalled",
                         "refused"}]
  BY <1>2 DEF Typed, StepType
<1>5. \A p \in Pages : At(p, "done") <=> row[p] # "none"
  BY DEF Typed, StepType, At
<1>6. \A f \in {wikitext, rendered, rev, text, oracle} :
          f \in [Pages -> Revs \union {NoRev}]
  BY DEF Typed, CacheType, FoundType, MaybeRevs
<1> QED BY <1>3, <1>4, <1>5, <1>6 DEF Typed, CacheType, RunType, TypeOK

\* A page that goes on to another step of its comparison has no row yet.
LEMMA GoesType ==
  ASSUME StepType, NEW p \in Pages, NEW x \in Busy, step[p] # "done",
         Goes(p, x), UNCHANGED row
  PROVE  StepType'
  BY DEF StepType, Goes, Busy

\* A page that gets its row is done.
LEMMA RowType ==
  ASSUME StepType, NEW p \in Pages, NEW x \in Ends, Row(p, x)
  PROVE  StepType'
  BY DEF StepType, Row, Goes, Ends

\* The revision looked up is one, or none.
LEMMA RevisionType ==
  ASSUME Typed, NEW p \in Pages
  PROVE  Revision(p) \in MaybeRevs
<1>1. req.pinned \in [Pages -> MaybeRevs]
  BY ConstantsAssumption DEF Typed, RunType, MaybeRevs
<1> QED BY <1>1 DEF Revision, CachedRev, Typed, CacheType, MaybeRevs

\* Initially every variable is of its type.
LEMMA InitTyped == Init => Typed
<1> SUFFICES ASSUME Init PROVE Typed
  OBVIOUS
<1>1. 1 \in Revs
  BY ConstantsAssumption DEF Revs
<1>2. CacheType /\ FoundType
  BY <1>1 DEF Init, Each, CacheType, FoundType, MaybeRevs
<1>3. StepType /\ RunType
  BY DEF Init, Each, StepType, RunType, Busy, Ends
<1> QED BY <1>2, <1>3 DEF Typed

\* Every step keeps every variable of its type.
LEMMA NextTyped == Typed /\ [Next]_vars => Typed'
<1> SUFFICES ASSUME Typed, [Next]_vars PROVE Typed'
  OBVIOUS
<1> USE DEF At
<1>1. ASSUME NEW p \in Pages, Begin(p) PROVE Typed'
  <2>1. StepType'
    BY <1>1, GoesType DEF Begin, Typed, Busy
  <2>2. CacheType'
    BY <1>1 DEF Begin, Typed, CacheType, MaybeRevs, cache
  <2> QED BY <1>1, <2>1, <2>2 DEF Begin, Typed, FoundType, RunType, found, stalls
<1>2. ASSUME NEW p \in Pages, Resolve(p) PROVE Typed'
  <2>1. StepType'
    BY <1>2, GoesType, RowType DEF Resolve, Typed, Busy, Ends
  <2>2. FoundType'
    BY <1>2, RevisionType DEF Resolve, Typed, FoundType
  <2> QED BY <1>2, <2>1, <2>2 DEF Resolve, Typed, CacheType, RunType, cache, stalls
<1>3. ASSUME NEW p \in Pages, CachedWikitext(p) PROVE Typed'
  <2>1. StepType'
    BY <1>3, GoesType DEF CachedWikitext, Typed, Busy
  <2>2. FoundType'
    BY <1>3 DEF CachedWikitext, Typed, FoundType, CacheType
  <2> QED BY <1>3, <2>1, <2>2
          DEF CachedWikitext, Typed, CacheType, RunType, cache, stalls
<1>4. ASSUME NEW p \in Pages, MissWikitext(p) \/ MissOracle(p) \/ FetchFails(p)
                              \/ Refuse(p)
      PROVE  Typed'
  <2>1. StepType'
    BY <1>4, GoesType, RowType
       DEF MissWikitext, MissOracle, FetchFails, Refuse, Typed, Busy, Ends
  <2> QED BY <1>4, <2>1 DEF MissWikitext, MissOracle, FetchFails, Refuse, Typed,
                            CacheType, FoundType, RunType, cache, found, stalls
<1>5. ASSUME NEW p \in Pages, FetchWikitext(p) PROVE Typed'
  <2>1. StepType'
    BY <1>5, GoesType DEF FetchWikitext, Typed, Busy
  <2>2. FoundType' /\ CacheType'
    BY <1>5 DEF FetchWikitext, Typed, FoundType, CacheType
  <2> QED BY <1>5, <2>1, <2>2 DEF FetchWikitext, Typed, RunType, stalls
<1>6. ASSUME NEW p \in Pages, CachedOracle(p) PROVE Typed'
  <2>1. StepType'
    BY <1>6, GoesType DEF CachedOracle, Typed, Busy
  <2>2. FoundType'
    BY <1>6 DEF CachedOracle, Typed, FoundType, CacheType
  <2> QED BY <1>6, <2>1, <2>2
          DEF CachedOracle, Typed, CacheType, RunType, cache, stalls
<1>7. ASSUME NEW p \in Pages, FetchOracle(p) PROVE Typed'
  <2>1. StepType'
    BY <1>7, GoesType DEF FetchOracle, Typed, Busy
  <2>2. FoundType' /\ CacheType'
    BY <1>7 DEF FetchOracle, Typed, FoundType, CacheType
  <2> QED BY <1>7, <2>1, <2>2 DEF FetchOracle, Typed, RunType, stalls
<1>8. ASSUME NEW p \in Pages, Render(p) PROVE Typed'
  <2>1. StepType'
    BY <1>8, GoesType DEF Render, Typed, Busy
  <2> QED BY <1>8, <2>1
          DEF Render, Typed, CacheType, FoundType, RunType, cache, found
<1>9. ASSUME NEW p \in Pages, RenderEnds(p) \/ Timeout(p) PROVE Typed'
  <2>1. StepType'
    BY <1>9, RowType DEF RenderEnds, Timeout, Typed, Ends
  <2> QED BY <1>9, <2>1 DEF RenderEnds, Timeout, Typed, CacheType, FoundType,
                            RunType, cache, found
<1>10. ASSUME NEW p \in Pages, AbandonedEnds(p) PROVE Typed'
  BY <1>10 DEF AbandonedEnds, Typed, CacheType, FoundType, StepType, RunType,
               cache, found
<1>11. ASSUME NEW p \in Pages, NEW q \in Pages, FetchInput(p, q) PROVE Typed'
  BY <1>11 DEF FetchInput, Typed, CacheType, FoundType, StepType, RunType,
               MaybeRevs, found, stalls
<1>12. ASSUME NEW p \in Pages, Edit(p) PROVE Typed'
  <2>1. latest[p] + 1 \in Revs
    BY <1>12, ConstantsAssumption DEF Edit, Typed, CacheType, Revs
  <2> QED BY <1>12, <2>1 DEF Edit, Typed, CacheType, FoundType, StepType,
                            RunType, cache, found, stalls
<1>13. CASE NextRun
  <2>1. StepType' /\ FoundType'
    BY <1>13 DEF NextRun, Each, StepType, FoundType, MaybeRevs, Busy, Ends
  <2> QED BY <1>13, <2>1 DEF NextRun, Each, Typed, CacheType, RunType, cache
<1>14. CASE UNCHANGED vars
  BY <1>14 DEF vars, cache, found, stalls, Typed, CacheType, FoundType,
               StepType, RunType
<1> QED BY <1>1, <1>2, <1>3, <1>4, <1>5, <1>6, <1>7, <1>8, <1>9, <1>10, <1>11,
           <1>12, <1>13, <1>14 DEF Next, Comparing

\* In every reachable state.
LEMMA AlwaysTyped == Spec => []Typed
  BY InitTyped, NextTyped, PTL DEF Spec

\* Type correctness: whatever the wiki answers and whichever request is made,
\* every page is at a step of its comparison, and it has a row exactly when that
\* comparison is over.
THEOREM CompareTypeCorrect == Spec => []TypeOK
  BY AlwaysTyped, TypedIsTypeOK, PTL

-----------------------------------------------------------------------------
(* The revision of the oracle. *)

\* From the moment the oracle is found until the row is written it is of the
\* page's revision.
OracleFound ==
    \A p \in Pages : step[p] \in {"render", "rendering"} \/ row[p] = "compared"
                        => oracle[p] = rev[p]

\* Every step keeps the oracle of the page's revision.
LEMMA NextOracle == Typed /\ OracleFound /\ [Next]_vars => OracleFound'
<1> SUFFICES ASSUME Typed, OracleFound, [Next]_vars, NEW o \in Pages,
                    (step[o] \in {"render", "rendering"} \/ row[o] = "compared")'
             PROVE  (oracle[o] = rev[o])'
  BY DEF OracleFound
<1> USE DEF At, Goes, Row
<1>1. /\ step \in [Pages -> Busy \union {"waiting", "done"}]
      /\ row \in [Pages -> Ends \union {"none"}]
      /\ \A p \in Pages : step[p] = "done" <=> row[p] # "none"
  BY DEF Typed, StepType
<1>2. rev \in [Pages -> MaybeRevs] /\ oracle \in [Pages -> MaybeRevs]
  BY DEF Typed, FoundType
<1>3. ASSUME NEW p \in Pages, Begin(p) PROVE (oracle[o] = rev[o])'
  BY <1>1, <1>3 DEF Begin, OracleFound, found
<1>4. ASSUME NEW p \in Pages, Resolve(p) PROVE (oracle[o] = rev[o])'
  BY <1>1, <1>2, <1>4 DEF Resolve, OracleFound
<1>5. ASSUME NEW p \in Pages, CachedWikitext(p) \/ FetchWikitext(p)
      PROVE  (oracle[o] = rev[o])'
  BY <1>1, <1>5 DEF CachedWikitext, FetchWikitext, OracleFound
<1>6. ASSUME NEW p \in Pages, MissWikitext(p) \/ MissOracle(p) \/ FetchFails(p)
                              \/ Refuse(p)
      PROVE  (oracle[o] = rev[o])'
  BY <1>1, <1>6 DEF MissWikitext, MissOracle, FetchFails, Refuse, OracleFound, found
<1>7. ASSUME NEW p \in Pages, CachedOracle(p) \/ FetchOracle(p)
      PROVE  (oracle[o] = rev[o])'
  BY <1>1, <1>2, <1>7 DEF CachedOracle, FetchOracle, rev_matches, OracleFound
<1>8. ASSUME NEW p \in Pages, Render(p) \/ RenderEnds(p) \/ Timeout(p)
      PROVE  (oracle[o] = rev[o])'
  BY <1>1, <1>8 DEF Render, RenderEnds, Timeout, OracleFound, found
<1>9. ASSUME NEW p \in Pages, NEW q \in Pages,
             AbandonedEnds(p) \/ FetchInput(p, q) \/ Edit(p)
      PROVE  (oracle[o] = rev[o])'
  BY <1>9 DEF AbandonedEnds, FetchInput, Edit, OracleFound, found
<1>10. CASE NextRun
  BY <1>10 DEF NextRun, Each
<1>11. CASE UNCHANGED vars
  BY <1>11 DEF vars, found, OracleFound
<1> QED BY <1>3, <1>4, <1>5, <1>6, <1>7, <1>8, <1>9, <1>10, <1>11
        DEF Next, Comparing

\* A page is compared with the wiki's HTML of the revision its row names,
\* whatever earlier runs, other pages' renders and edits of the wiki have left
\* in the cache the pages share.
THEOREM OracleAlwaysOfRevision == Spec => []OracleIsOfRevision
<1>1. Init => OracleFound
  BY DEF Init, Each, OracleFound
<1>2. OracleFound => OracleIsOfRevision
  BY DEF OracleFound, OracleIsOfRevision
<1> QED BY <1>1, <1>2, NextOracle, AlwaysTyped, PTL DEF Spec

-----------------------------------------------------------------------------
(* The renders that were given up. *)

Active == {p \in Pages : step[p] \notin {"waiting", "done"}}
Rendering == {p \in Pages : step[p] = "rendering"}
Abandoned == {p \in Pages : worker[p] = "abandoned"}

\* The pages begin in their order.
InOrder == \A p \in Pages : step[p] # "waiting"
                               => \A q \in 1..(p - 1) : step[q] # "waiting"

\* At most `Jobs' pages are under way, and the renders given up and those that
\* still may be are within the limit and the pages that have passed it.
Stalls == /\ InOrder
          /\ Cardinality(Active) <= Jobs
          /\ Cardinality(Abandoned) <= live
          /\ live + Cardinality(Rendering) <= MaxStalled + Jobs - 1

\* Sets of pages are finite.
LEMMA PagesFinite ==
  ASSUME NEW S \in SUBSET Pages
  PROVE  IsFiniteSet(S) /\ Cardinality(S) \in Nat
<1>1. IsFiniteSet(Pages)
  BY FS_Interval, ConstantsAssumption DEF Pages
<1> QED BY <1>1, FS_Subset, FS_CardinalityType

\* A set of pages has no more of them than one that includes it.
LEMMA FewerPages ==
  ASSUME NEW S \in SUBSET Pages, NEW T \in SUBSET S
  PROVE  Cardinality(T) <= Cardinality(S)
  BY PagesFinite, FS_Subset

\* With one page more it has at most one more.
LEMMA OnePageMore ==
  ASSUME NEW S \in SUBSET Pages, NEW p \in Pages, NEW T \in SUBSET (S \union {p})
  PROVE  Cardinality(T) <= Cardinality(S) + 1
<1>1. Cardinality(S \union {p}) <= Cardinality(S) + 1
  BY PagesFinite, FS_AddElement
<1>2. Cardinality(T) <= Cardinality(S \union {p})
  BY FewerPages
<1>3. /\ Cardinality(T) \in Nat
      /\ Cardinality(S \union {p}) \in Nat
      /\ Cardinality(S) \in Nat
  BY PagesFinite
<1> QED BY <1>1, <1>2, <1>3

\* Without one of its pages it has one less.
LEMMA OnePageLess ==
  ASSUME NEW S \in SUBSET Pages, NEW p \in S, NEW T \in SUBSET (S \ {p})
  PROVE  Cardinality(T) <= Cardinality(S) - 1
<1>1. Cardinality(S \ {p}) = Cardinality(S) - 1
  BY PagesFinite, FS_RemoveElement
<1>2. Cardinality(T) <= Cardinality(S \ {p})
  BY FewerPages
<1> QED BY <1>1, <1>2

\* A page begins only while fewer than `Jobs' are under way: those that are come
\* before it, and have no row.
LEMMA RoomForOne ==
  ASSUME Typed, InOrder, NEW p \in Pages, Begin(p)
  PROVE  Cardinality(Active) <= Jobs - 1
<1>1. step[p] = "waiting" /\ Cardinality(InFlight(p)) < Jobs
  BY DEF Begin, At
<1>2. InFlight(p) \in SUBSET Pages
  BY ConstantsAssumption DEF InFlight, Pages
<1>3. ASSUME NEW q \in Active PROVE q \in InFlight(p)
  <2>1. q \in Pages /\ step[q] # "waiting" /\ row[q] = "none"
    BY <1>3 DEF Active, Typed, StepType
  <2>2. p \notin 1..(q - 1)
    BY <1>1, <2>1 DEF InOrder
  <2>3. q # p
    BY <1>1, <2>1
  <2>4. q \in 1..(p - 1) /\ q \in 1..q
    BY <2>1, <2>2, <2>3, ConstantsAssumption DEF Pages
  <2> QED BY <2>1, <2>4 DEF InFlight
<1>4. Cardinality(Active) <= Cardinality(InFlight(p))
  BY <1>2, <1>3, FewerPages
<1>5. Cardinality(Active) \in Nat /\ Cardinality(InFlight(p)) \in Nat
  BY <1>2, PagesFinite DEF Active
<1> QED BY <1>1, <1>4, <1>5, ConstantsAssumption

\* Steps that start no render and no page, and give none up.
LEMMA Quieter ==
  ASSUME Typed, Typed', Stalls, InOrder', live' = live,
         Active' \subseteq Active, Rendering' \subseteq Rendering,
         Abandoned' \subseteq Abandoned
  PROVE  Stalls'
<1>1. /\ Active \in SUBSET Pages /\ Rendering \in SUBSET Pages
      /\ Abandoned \in SUBSET Pages
  BY DEF Active, Rendering, Abandoned
<1>2. /\ Cardinality(Active') <= Cardinality(Active)
      /\ Cardinality(Rendering') <= Cardinality(Rendering)
      /\ Cardinality(Abandoned') <= Cardinality(Abandoned)
  BY <1>1, FewerPages
<1>3. /\ Cardinality(Active) \in Nat /\ Cardinality(Active') \in Nat
      /\ Cardinality(Rendering) \in Nat /\ Cardinality(Rendering') \in Nat
      /\ Cardinality(Abandoned) \in Nat /\ Cardinality(Abandoned') \in Nat
  BY <1>1, PagesFinite
<1>4. live \in Nat /\ MaxStalled \in Nat /\ Jobs \in Nat
  BY ConstantsAssumption DEF Typed, RunType
<1> QED BY <1>2, <1>3, <1>4 DEF Stalls

\* Nothing has been given up before the first page begins.
LEMMA NoStalls ==
  ASSUME step = Each("waiting"), worker = Each("none"), live = 0
  PROVE  Stalls
<1>1. Active = {} /\ Rendering = {} /\ Abandoned = {}
  BY DEF Active, Rendering, Abandoned, Each
<1>2. InOrder
  BY DEF InOrder, Each
<1> QED BY <1>1, <1>2, FS_EmptySet, ConstantsAssumption DEF Stalls

\* A step after which the same pages wait keeps the order.
LEMMA OrderKept ==
  ASSUME InOrder, \A p \in Pages : step'[p] = "waiting" <=> step[p] = "waiting"
  PROVE  InOrder'
<1> SUFFICES ASSUME NEW p \in Pages, step'[p] # "waiting", NEW q \in 1..(p - 1)
             PROVE  step'[q] # "waiting"
  BY DEF InOrder
<1>1. q \in Pages
  BY ConstantsAssumption DEF Pages
<1> QED BY <1>1 DEF InOrder

\* Every step keeps the bounds.
LEMMA NextStalls == Typed /\ Typed' /\ Stalls /\ [Next]_vars => Stalls'
<1> SUFFICES ASSUME Typed, Typed', Stalls, [Next]_vars PROVE Stalls'
  OBVIOUS
<1> USE DEF At, Goes, Row
<1>1. /\ step \in [Pages -> Busy \union {"waiting", "done"}]
      /\ worker \in [Pages -> {"none", "busy", "abandoned"}]
  BY DEF Typed, StepType, RunType
<1>2. /\ Active \in SUBSET Pages /\ Rendering \in SUBSET Pages
      /\ Abandoned \in SUBSET Pages
  BY DEF Active, Rendering, Abandoned
<1>3. /\ Active' \in SUBSET Pages /\ Rendering' \in SUBSET Pages
      /\ Abandoned' \in SUBSET Pages
  BY DEF Active, Rendering, Abandoned
<1>4. /\ Cardinality(Active) \in Nat /\ Cardinality(Active') \in Nat
      /\ Cardinality(Rendering) \in Nat /\ Cardinality(Rendering') \in Nat
      /\ Cardinality(Abandoned) \in Nat /\ Cardinality(Abandoned') \in Nat
  BY <1>2, <1>3, PagesFinite
<1>5. live \in Nat /\ MaxStalled \in Nat /\ Jobs \in Nat
  BY ConstantsAssumption DEF Typed, RunType
<1>6. ASSUME NEW p \in Pages, Begin(p) PROVE Stalls'
  <2>1. InOrder'
    <3>1. \A r \in Pages : \A o \in 1..(r - 1) : o \in Pages
      BY ConstantsAssumption DEF Pages
    <3> QED BY <1>1, <1>6, <3>1 DEF Begin, Stalls, InOrder
  <2>2. Active' \subseteq Active \union {p}
    BY <1>1, <1>6 DEF Begin, Active
  <2>3. Cardinality(Active') <= Cardinality(Active) + 1
    BY <1>2, <2>2, OnePageMore
  <2>4. Cardinality(Active) <= Jobs - 1
    BY <1>6, RoomForOne DEF Stalls
  <2>5. Rendering' = Rendering /\ Abandoned' = Abandoned /\ live' = live
    BY <1>1, <1>6 DEF Begin, Rendering, Abandoned, stalls
  <2> QED BY <1>4, <1>5, <2>1, <2>3, <2>4, <2>5 DEF Stalls
<1>7. ASSUME NEW p \in Pages, Render(p) PROVE Stalls'
  <2>1. InOrder'
    BY <1>1, <1>7, OrderKept DEF Render, Stalls
  <2>2. Active' \subseteq Active /\ Rendering' \subseteq Active'
    BY <1>1, <1>7 DEF Render, Active, Rendering
  <2>3. /\ Cardinality(Active') <= Cardinality(Active)
        /\ Cardinality(Rendering') <= Cardinality(Active')
    BY <1>2, <1>3, <2>2, FewerPages
  <2>4. Abandoned' \subseteq Abandoned
    BY <1>1, <1>7 DEF Render, Abandoned
  <2>5. Cardinality(Abandoned') <= Cardinality(Abandoned)
    BY <1>2, <2>4, FewerPages
  <2>6. live' = live /\ live <= MaxStalled - 1
    BY <1>5, <1>7 DEF Render, TooManyStalled
  <2> QED BY <1>4, <1>5, <2>1, <2>3, <2>5, <2>6 DEF Stalls
<1>8. ASSUME NEW p \in Pages, Timeout(p) PROVE Stalls'
  <2>1. InOrder'
    BY <1>1, <1>8, OrderKept DEF Timeout, Stalls
  <2>2. Active' \subseteq Active
    BY <1>1, <1>8 DEF Timeout, Active
  <2>3. p \in Rendering /\ Rendering' \subseteq Rendering \ {p}
    BY <1>1, <1>8 DEF Timeout, Rendering
  <2>4. Abandoned' \subseteq Abandoned \union {p}
    BY <1>1, <1>8 DEF Timeout, Abandoned
  <2>5. /\ Cardinality(Active') <= Cardinality(Active)
        /\ Cardinality(Rendering') <= Cardinality(Rendering) - 1
        /\ Cardinality(Abandoned') <= Cardinality(Abandoned) + 1
    BY <1>2, <2>2, <2>3, <2>4, FewerPages, OnePageLess, OnePageMore
  <2>6. live' = live + 1
    BY <1>8 DEF Timeout
  <2> QED BY <1>4, <1>5, <2>1, <2>5, <2>6 DEF Stalls
<1>9. ASSUME NEW p \in Pages,
             \/ Resolve(p) \/ CachedWikitext(p) \/ MissWikitext(p)
             \/ FetchWikitext(p) \/ CachedOracle(p) \/ MissOracle(p)
             \/ FetchOracle(p) \/ FetchFails(p) \/ Refuse(p) \/ RenderEnds(p)
      PROVE  Stalls'
  <2>1. /\ step[p] \in Busy \ {"waiting", "done"}
        /\ \E x \in (Busy \ {"rendering"}) \union {"done"} :
              step' = [step EXCEPT ![p] = x]
    BY <1>9 DEF Resolve, CachedWikitext, MissWikitext, FetchWikitext,
       CachedOracle, MissOracle, FetchOracle, FetchFails, Refuse, RenderEnds, Busy
  <2>2. live' = live /\ Abandoned' \subseteq Abandoned
    BY <1>1, <1>9 DEF Resolve, CachedWikitext, MissWikitext, FetchWikitext,
       CachedOracle, MissOracle, FetchOracle, FetchFails, Refuse, RenderEnds,
       Abandoned, stalls
  <2>3. \A o \in Pages : step'[o] = "waiting" <=> step[o] = "waiting"
    BY <1>1, <2>1 DEF Busy
  <2>4. Active' \subseteq Active /\ Rendering' \subseteq Rendering
    BY <1>1, <2>1 DEF Active, Rendering, Busy
  <2>5. InOrder'
    BY <2>3, OrderKept DEF Stalls
  <2> QED BY <2>2, <2>4, <2>5, Quieter
<1>10. ASSUME NEW p \in Pages, NEW q \in Pages,
              AbandonedEnds(p) \/ FetchInput(p, q) \/ Edit(p) \/ UNCHANGED vars
       PROVE  Stalls'
  <2>1. /\ live' = live /\ step' = step
        /\ worker' = worker \/ worker' = [worker EXCEPT ![p] = "none"]
    BY <1>10 DEF AbandonedEnds, FetchInput, Edit, vars, stalls
  <2>2. Abandoned' \subseteq Abandoned
    BY <1>1, <2>1 DEF Abandoned
  <2>3. Active' \subseteq Active /\ Rendering' \subseteq Rendering
    BY <2>1 DEF Active, Rendering
  <2>4. InOrder'
    BY <2>1, OrderKept DEF Stalls
  <2> QED BY <2>1, <2>2, <2>3, <2>4, Quieter
<1>11. CASE NextRun
  <2>1. step' = Each("waiting") /\ worker' = Each("none") /\ live' = 0
    BY <1>11 DEF NextRun
  <2>2. Active' = {} /\ Rendering' = {} /\ Abandoned' = {}
    BY <2>1 DEF Active, Rendering, Abandoned, Each
  <2>3. InOrder'
    BY <2>1 DEF InOrder, Each
  <2> QED BY <2>1, <2>2, <2>3, FS_EmptySet, ConstantsAssumption DEF Stalls
<1>12. CASE UNCHANGED vars
  <2>1. 1 \in Pages
    BY ConstantsAssumption DEF Pages
  <2> QED BY <1>10, <1>12, <2>1
<1> QED BY <1>6, <1>7, <1>8, <1>9, <1>10, <1>11, <1>12 DEF Next, Comparing

\* The limit on renders that were given up, which is read before a render starts
\* and raised when it is given up, is passed by as many renders as may run at
\* once less one, whatever the corpus and however long the renders go on.
THEOREM StalledAlwaysBounded == Spec => []StalledBounded
<1>1. Init => Stalls
  BY NoStalls DEF Init
<1>2. Typed /\ Stalls => StalledBounded
  <2> SUFFICES ASSUME Typed, Stalls PROVE StalledBounded
    OBVIOUS
  <2>1. Cardinality(Rendering) \in Nat
    BY PagesFinite DEF Rendering
  <2>2. live \in Nat /\ MaxStalled \in Nat /\ Jobs \in Nat
    BY ConstantsAssumption DEF Typed, RunType
  <2> QED BY <2>1, <2>2 DEF Stalls, StalledBounded, Abandoned
<1> QED BY <1>1, <1>2, NextStalls, AlwaysTyped, PTL DEF Spec
=============================================================================
