------------------------------- MODULE Compare -------------------------------
(***************************************************************************)
(* Comparing the pages of a corpus with a live wiki (compare_page and      *)
(* render_rustoid in rustoid-compare/src/harness.rs, run_corpus in         *)
(* src/bin/rustoid-compare.rs), `Jobs' pages at a time, one run after      *)
(* another.  Meanwhile the wiki's pages are edited, and the renders fetch  *)
(* pages of their own into the same cache.                                 *)
(*                                                                         *)
(* A page's source and its HTML are known by their revision.  The cache is *)
(* the handle all pages of a run share, which keeps what it holds from run *)
(* to run; what a crash does to it is the matter of WikiCache.  That the   *)
(* wiki's HTML of a revision depends on the day, too, is left out.         *)
(***************************************************************************)
EXTENDS Naturals, FiniteSets

CONSTANTS
    NPages,         \* the pages of the corpus are 1..NPages, in its order
    MaxRev,         \* bound: edits of a page
    Jobs,           \* --jobs
    MaxStalled,     \* MAX_LIVE_STALLED_RENDERS
    MaxRuns,        \* bound: runs
    Requests        \* requests a run may make: [offline, refresh, pinned]

Pages == 1..NPages
Revs == 1..MaxRev
NoRev == 0

ASSUME ConstantsAssumption ==
    /\ NPages \in Nat \ {0} /\ MaxRev \in Nat \ {0}
    /\ Jobs \in Nat \ {0} /\ MaxStalled \in Nat \ {0} /\ MaxRuns \in Nat
    /\ Requests \subseteq [offline : BOOLEAN, refresh : BOOLEAN,
                           pinned : [Pages -> Revs \union {NoRev}]]

VARIABLES
    latest,         \* page -> its latest revision on the wiki
    wikitext,       \* page -> the revision of its cached source, or NoRev
    rendered,       \* page -> the revision of its cached HTML, or NoRev
    runs, req,      \* the run and its request
    step,           \* page -> what compare_page is about to do
    rev,            \* page -> revid
    text, oracle,   \* page -> the revisions that are compared
    row,            \* page -> its row on the scoreboard
    worker,         \* page -> its render: none, busy, abandoned
    live            \* LIVE_STALLED_RENDERS

cache == <<wikitext, rendered>>
found == <<rev, text, oracle>>
stalls == <<worker, live>>
vars == <<latest, cache, runs, req, step, found, row, stalls>>

-----------------------------------------------------------------------------
Each(x) == [p \in Pages |-> x]

Init ==
    /\ latest = Each(1)
    /\ wikitext = Each(NoRev) /\ rendered = Each(NoRev)
    /\ runs = 1 /\ req \in Requests
    /\ step = Each("waiting") /\ row = Each("none")
    /\ rev = Each(NoRev) /\ text = Each(NoRev) /\ oracle = Each(NoRev)
    /\ worker = Each("none") /\ live = 0

Edit(p) ==
    /\ latest[p] < MaxRev
    /\ latest' = [latest EXCEPT ![p] = @ + 1]
    /\ UNCHANGED <<cache, runs, req, step, found, row, stalls>>

Goes(p, where) == step' = [step EXCEPT ![p] = where]
\* RowOnly, like AnyRevision, NeverRefuses and NoCap below, varies the operator
\* after it the way a mistake in the code would; no action uses them.
RowOnly(p, what) == UNCHANGED step /\ row' = [row EXCEPT ![p] = what]
Row(p, what) == Goes(p, "done") /\ row' = [row EXCEPT ![p] = what]

At(p, where) == step[p] = where

-----------------------------------------------------------------------------
(* compare_page.                                                           *)

\* `buffered' starts the pages in order and keeps what is done until all before
\* it are.
InFlight(p) == {q \in 1..(p - 1) : \E o \in 1..q : row[o] = "none"}

Begin(p) ==
    /\ At(p, "waiting")
    /\ \A q \in 1..(p - 1) : ~At(q, "waiting")
    /\ Cardinality(InFlight(p)) < Jobs
    /\ IF req.refresh
       THEN /\ wikitext' = [wikitext EXCEPT ![p] = NoRev]
            /\ rendered' = [rendered EXCEPT ![p] = NoRev]
       ELSE UNCHANGED cache
    /\ Goes(p, "revision")
    /\ UNCHANGED <<latest, runs, req, found, row, stalls>>

\* The revision asked for; offline that of what is cached, else the latest.
CachedRev(p) == IF wikitext[p] # NoRev THEN wikitext[p] ELSE rendered[p]
Revision(p) == IF req.pinned[p] # NoRev THEN req.pinned[p]
               ELSE IF req.offline THEN CachedRev(p) ELSE latest[p]

Resolve(p) ==
    /\ At(p, "revision")
    /\ rev' = [rev EXCEPT ![p] = Revision(p)]
    /\ IF Revision(p) = NoRev THEN Row(p, "skipped")
                              ELSE Goes(p, "wikitext") /\ UNCHANGED row
    /\ UNCHANGED <<latest, cache, runs, req, text, oracle, stalls>>

CachedWikitext(p) ==
    /\ At(p, "wikitext")
    /\ wikitext[p] # NoRev
    /\ text' = [text EXCEPT ![p] = wikitext[p]]
    /\ Goes(p, "oracle")
    /\ UNCHANGED <<latest, cache, runs, req, rev, oracle, row, stalls>>

MissWikitext(p) ==
    /\ At(p, "wikitext")
    /\ wikitext[p] = NoRev
    /\ IF req.offline THEN Row(p, "skipped")
                      ELSE Goes(p, "fetch_wikitext") /\ UNCHANGED row
    /\ UNCHANGED <<latest, cache, runs, req, found, stalls>>

FetchWikitext(p) ==
    /\ At(p, "fetch_wikitext")
    /\ wikitext' = [wikitext EXCEPT ![p] = rev[p]]
    /\ text' = [text EXCEPT ![p] = rev[p]]
    /\ Goes(p, "oracle")
    /\ UNCHANGED <<latest, rendered, runs, req, rev, oracle, row,
                   stalls>>

\* The wiki's HTML, of exactly that revision.
AnyRevision(p) == rendered[p] # NoRev
rev_matches(p) == rendered[p] = rev[p]

CachedOracle(p) ==
    /\ At(p, "oracle")
    /\ rev_matches(p) /\ (req.offline \/ ~req.refresh)
    /\ oracle' = [oracle EXCEPT ![p] = rendered[p]]
    /\ Goes(p, "render")
    /\ UNCHANGED <<latest, cache, runs, req, rev, text, row, stalls>>

MissOracle(p) ==
    /\ At(p, "oracle")
    /\ ~(rev_matches(p) /\ (req.offline \/ ~req.refresh))
    /\ IF req.offline THEN Row(p, "skipped")
                      ELSE Goes(p, "fetch_oracle") /\ UNCHANGED row
    /\ UNCHANGED <<latest, cache, runs, req, found, stalls>>

\* The cache keeps a baseline that is pinned to another revision.
FetchOracle(p) ==
    /\ At(p, "fetch_oracle")
    /\ oracle' = [oracle EXCEPT ![p] = rev[p]]
    /\ rendered' = [rendered EXCEPT ![p] = IF @ = NoRev THEN rev[p] ELSE @]
    /\ Goes(p, "render")
    /\ UNCHANGED <<latest, wikitext, runs, req, rev, text, row, stalls>>

\* The wiki does not answer.  A cached oracle that matched when it was looked up
\* would be used again; it was then used in the first place, or the run
\* refreshes and has removed it.
FetchFails(p) ==
    /\ \/ At(p, "revision") /\ req.pinned[p] = NoRev /\ ~req.offline
       \/ At(p, "fetch_wikitext")
       \/ At(p, "fetch_oracle")
    /\ Row(p, "lost")
    /\ UNCHANGED <<latest, cache, runs, req, found, stalls>>

-----------------------------------------------------------------------------
(* render_rustoid.                                                         *)

NeverRefuses == FALSE
TooManyStalled == live >= MaxStalled

Refuse(p) ==
    /\ At(p, "render") /\ TooManyStalled
    /\ Row(p, "refused")
    /\ UNCHANGED <<latest, cache, runs, req, found, stalls>>

Render(p) ==
    /\ At(p, "render") /\ ~TooManyStalled
    /\ worker' = [worker EXCEPT ![p] = "busy"]
    /\ Goes(p, "rendering")
    /\ UNCHANGED <<latest, cache, runs, req, found, row, live>>

\* A render fetches the latest revision of a page it asks for, of the corpus or
\* not; one of the corpus is then cached for its own comparison.
FetchInput(p, q) ==
    /\ worker[p] # "none"
    /\ ~req.offline
    /\ wikitext[q] = NoRev \/ req.refresh
    /\ wikitext' = [wikitext EXCEPT ![q] = latest[q]]
    /\ UNCHANGED <<latest, rendered, runs, req, step, found, row, stalls>>

\* The render ends with HTML, or with an error.
RenderEnds(p) ==
    /\ At(p, "rendering")
    /\ worker' = [worker EXCEPT ![p] = "none"]
    /\ \E what \in {"compared", "lost"} : Row(p, what)
    /\ UNCHANGED <<latest, cache, runs, req, found, live>>

\* The render goes on when its page is given up.
NoCap(p) == FALSE
Timeout(p) ==
    /\ At(p, "rendering")
    /\ worker' = [worker EXCEPT ![p] = "abandoned"]
    /\ live' = live + 1
    /\ Row(p, "stalled")
    /\ UNCHANGED <<latest, cache, runs, req, found>>

AbandonedEnds(p) ==
    /\ worker[p] = "abandoned"
    /\ worker' = [worker EXCEPT ![p] = "none"]
    /\ UNCHANGED <<latest, cache, runs, req, step, found, row, live>>

-----------------------------------------------------------------------------
\* The scoreboard is printed and the process ends, or is ended by its user.
NextRun ==
    /\ \A p \in Pages : row[p] # "none"
    /\ runs < MaxRuns
    /\ runs' = runs + 1 /\ req' \in Requests
    /\ step' = Each("waiting") /\ row' = Each("none")
    /\ rev' = Each(NoRev) /\ text' = Each(NoRev) /\ oracle' = Each(NoRev)
    /\ worker' = Each("none") /\ live' = 0
    /\ UNCHANGED <<latest, cache>>

Comparing(p) ==
    \/ Begin(p) \/ Resolve(p)
    \/ CachedWikitext(p) \/ MissWikitext(p) \/ FetchWikitext(p)
    \/ CachedOracle(p) \/ MissOracle(p) \/ FetchOracle(p)
    \/ FetchFails(p)
    \/ Refuse(p) \/ Render(p) \/ Timeout(p)

Next ==
    \/ \E p \in Pages : Comparing(p) \/ RenderEnds(p) \/ AbandonedEnds(p)
    \/ \E p, q \in Pages : FetchInput(p, q)
    \/ \E p \in Pages : Edit(p)
    \/ NextRun

Spec == Init /\ [][Next]_vars

\* The wiki answers or a request times out, and the timer of a render fires;
\* nothing says that a render ends.
FairSpec == Spec /\ \A p \in Pages : WF_vars(Comparing(p))

-----------------------------------------------------------------------------
(* Properties. *)

\* Every part of the state is of its kind.
TypeOK ==
    /\ latest \in [Pages -> Revs]
    /\ \A f \in {wikitext, rendered, rev, text, oracle} :
          f \in [Pages -> Revs \union {NoRev}]
    /\ runs \in Nat /\ req \in Requests
    /\ step \in [Pages -> {"waiting", "revision", "wikitext", "fetch_wikitext",
                           "oracle", "fetch_oracle", "render", "rendering",
                           "done"}]
    /\ row \in [Pages -> {"none", "compared", "skipped", "lost", "stalled",
                          "refused"}]
    /\ \A p \in Pages : At(p, "done") <=> row[p] # "none"
    /\ worker \in [Pages -> {"none", "busy", "abandoned"}]
    /\ live \in Nat

\* A page is compared with the wiki's HTML of the revision its row names,
\* whatever earlier runs have left in the cache.
OracleIsOfRevision == \A p \in Pages : row[p] = "compared" => oracle[p] = rev[p]

\* The count of stalled renders is looked at before a render starts and raised
\* when it is given up: as many as may run at once pass the limit, and no more.
StalledBounded ==
    /\ Cardinality({p \in Pages : worker[p] = "abandoned"}) <= live
    /\ live <= MaxStalled + Jobs - 1

\* In every run every page gets its row, also when no render ever ends: the
\* scoreboard is printed.
EveryPageGetsARow == []<>(\A p \in Pages : row[p] # "none")

\* The source and the HTML that are compared are of the same revision.
RevisionsAgree == \A p \in Pages : row[p] = "compared" => text[p] = oracle[p]
=============================================================================
