------------------------------ MODULE LuaInvoke ------------------------------
(***************************************************************************)
(* The `#invoke' loop of rustoid-core/src/lua/invoke.rs, together with the *)
(* engine side of the calls it answers (lua/engine.rs) and the key         *)
(* numbering both share (pipeline/lua_deferred.rs).                        *)
(*                                                                         *)
(* A Lua module cannot wait for the parser or for the network.  It is run  *)
(* in a fresh engine; whatever it asks for and does not find is recorded,  *)
(* the host fetches or expands it, and the module is run again from the    *)
(* start.  The module itself is arbitrary: in every run it may make any    *)
(* request, may or may not wrap it in `pcall', and may return or fail at   *)
(* any point.                                                              *)
(***************************************************************************)
EXTENDS Naturals, FiniteSets

CONSTANTS
    Entry,          \* the module named by the call
    Modules,        \* module pages the call may load
    JsonPages,      \* the modules that are loaded with mw.loadJsonData
    Titles,         \* page titles whose facts a module may ask for
    DocSubpages,    \* the titles every preload asks for (/doc, /sandbox, ...)
    Entities,       \* Wikidata entity ids
    PageEntity,     \* the entity of the page being parsed: at most one
    DataPages,      \* tabular-data pages
    Bases,          \* the keys FrameRequest::key gives frame method calls
    CallSlots,      \* unexpanded arguments of the call
    ParentSlots,    \* unexpanded arguments of the calling frame
    Positional,     \* the slots that an ipairs over frame.args visits
    Published,      \* the pages and entities that exist on the wiki
    Unreliable,     \* those whose fetch may fail
    Requires,       \* module -> modules its source names as literals
    TitleLits,      \* module -> titles its source names as literals
    EntityLits,     \* module -> entities its source names as literals
    DataLits,       \* module -> data pages its source names as literals
    MaxModules, MaxTitles, MaxEntities, MaxDataPages,
    MaxRounds,      \* MAX_PRELOAD_ROUNDS + MAX_FRAME_ROUNDS
    MaxOps,         \* model bound: requests a module makes in one run
    MaxInvokes,     \* model bound: calls on one page
    None

Slots == CallSlots \union ParentSlots

ASSUME ConstantsAssumption ==
    /\ Entry \in Modules
    /\ JsonPages \subseteq Modules
    /\ DocSubpages \subseteq Titles
    /\ PageEntity \subseteq Entities
    /\ Positional \subseteq Slots
    /\ Requires \in [Modules -> SUBSET Modules]
    /\ TitleLits \in [Modules -> SUBSET Titles]
    /\ EntityLits \in [Modules -> SUBSET Entities]
    /\ DataLits \in [Modules -> SUBSET DataPages]
    /\ MaxModules \in Nat /\ MaxTitles \in Nat
    /\ MaxEntities \in Nat /\ MaxDataPages \in Nat
    /\ MaxRounds \in Nat \ {0}
    /\ MaxOps \in Nat /\ MaxInvokes \in Nat
    /\ None \notin Bases \union Modules \union Titles

VARIABLES
    phase,          \* where the call is: idle, run, returned, raised, done, error
    verdict,        \* why the call ended
    round,          \* the iteration of the loop in `invoke'
    invokes,        \* calls started on this page
    titleCache,     \* the parser's render-wide title_facts: what the preload of
                    \* some call resolved, but nothing that a run asked for
    \* What the host holds for the call.
    registry, unfetchable, fetched,
    titles, fetchedFacts,
    entities, onDemand, unfetchableEntities,
    data, unfetchableData,
    answers, hostOrd,
    \* What the engine of the current run holds.
    ops, ord, pendingCall, missedKey, pendingSlots,
    missTitle, missModule, missEntities, missData

pageVars == <<invokes, titleCache>>
hostVars == <<registry, unfetchable, fetched, titles, fetchedFacts, entities,
              onDemand, unfetchableEntities, data, unfetchableData, answers,
              hostOrd>>
callVars == <<ord, pendingCall, missedKey, pendingSlots>>
missVars == <<missTitle, missModule, missEntities, missData>>
vars == <<phase, verdict, round, ops, pageVars, hostVars, callVars, missVars>>

-----------------------------------------------------------------------------
(* Keys.  The first call of a request is stored under its key, the n-th    *)
(* repeat under the key followed by `#n'; <<b, n>> is the text of b        *)
(* followed by that suffix.                                                *)
(*                                                                         *)
(* Here and below, an operator that no action uses and that precedes the   *)
(* one it varies is a plausible mistake in it: substituting it must break  *)
(* a property, which shows that the property depends on the code.          *)

UnderflowingKey(b, n) == IF n = 0 THEN b ELSE <<b, n - 2>>
UnnamedRepeatKey(b, n) == IF n = 0 THEN b ELSE n
next_call_key(b, n) == IF n = 0 THEN b ELSE <<b, n>>

\* Every text an answer may be stored under.
Keys == Bases \union (Bases \X Nat) \union Slots

\* No request's own key reads like the key of another request's repeat, and
\* none reads like the key of an argument.
KeysApart ==
    /\ \A k \in Bases \union Slots : k \notin Bases \X Nat
    /\ Bases \intersect Slots = {}

Asked == DOMAIN answers

-----------------------------------------------------------------------------
(* What the data source may answer. *)

\* The part of S a fetch returns: a page that exists may still fail to arrive.
Fetched(S) == {got \in SUBSET (S \intersect Published) :
                  (S \intersect Published) \ Unreliable \subseteq got}

\* At most `limit' of S are asked for.
Capped(S, limit) == IF Cardinality(S) <= limit THEN {S}
                    ELSE {T \in SUBSET S : Cardinality(T) = limit}

Literals(lits, R) == UNION {lits[m] : m \in R}

\* preload: the modules reachable from t by literals through modules that
\* were fetched, until MaxModules of them are held.
preload(t) ==
    {R \in SUBSET (Modules \intersect Published) :
        /\ Cardinality(R) <= MaxModules
        /\ \A S \in SUBSET R :
              (R \intersect {t} \subseteq S
                 /\ Literals(Requires, S) \intersect R \subseteq S) => S = R
        /\ Cardinality(R) < MaxModules =>
              (({t} \union Literals(Requires, R)) \intersect Published) \ Unreliable
                 \subseteq R}

\* preload_titles: facts are recorded for every title asked about, and a
\* title already known is not asked about again.
preload_titles(R, known) ==
    Capped((Literals(TitleLits, R) \union DocSubpages) \ known, MaxTitles)

\* preload_entities: the entity of the page is outside the cap.
preload_entities(R) ==
    UNION {Fetched(S \union PageEntity) :
              S \in Capped(Literals(EntityLits, R), MaxEntities)}

preload_data(R) ==
    UNION {Fetched(S) : S \in Capped(Literals(DataLits, R), MaxDataPages)}

-----------------------------------------------------------------------------
FreshRun ==
    /\ ops' = 0
    /\ ord' = [b \in Bases |-> 0]
    /\ pendingCall' = None /\ missedKey' = None /\ pendingSlots' = {}
    /\ missTitle' = None /\ missModule' = None
    /\ missEntities' = {} /\ missData' = {}

Init ==
    /\ phase = "idle" /\ verdict = "none" /\ round = 0
    /\ invokes = 0 /\ titleCache = {}
    /\ registry = {} /\ unfetchable = {} /\ fetched = {}
    /\ titles = {} /\ fetchedFacts = {}
    /\ entities = {} /\ onDemand = {} /\ unfetchableEntities = {}
    /\ data = {} /\ unfetchableData = {}
    /\ answers = [k \in {} |-> None] /\ hostOrd = [b \in Bases |-> 0]
    /\ ops = 0 /\ ord = [b \in Bases |-> 0]
    /\ pendingCall = None /\ missedKey = None /\ pendingSlots = {}
    /\ missTitle = None /\ missModule = None
    /\ missEntities = {} /\ missData = {}

\* The frame's facts: those of the page, and the newly preloaded ones.
SeededAfresh(T) == T
Seeded(T) == titleCache \union T

\* The part of `invoke' before its loop: everything the preload scans can see
\* is fetched, and the title facts are merged into the page's and published.
Start ==
    /\ phase \in {"idle", "done", "error"}
    /\ invokes < MaxInvokes
    /\ invokes' = invokes + 1
    /\ \E R \in preload(Entry) :
          /\ registry' = R
          /\ \E T \in preload_titles(R, titleCache) :
                titles' = Seeded(T)
          /\ entities' \in preload_entities(R)
          /\ data' \in preload_data(R)
          /\ IF Entry \in R THEN phase' = "run" /\ verdict' = "none"
                            ELSE phase' = "error" /\ verdict' = "absent"
    /\ titleCache' = titleCache \union titles'
    /\ unfetchable' = {} /\ fetched' = {} /\ fetchedFacts' = {}
    /\ onDemand' = {} /\ unfetchableEntities' = {} /\ unfetchableData' = {}
    /\ answers' = [k \in {} |-> None] /\ hostOrd' = [b \in Bases |-> 0]
    /\ round' = 0
    /\ FreshRun

-----------------------------------------------------------------------------
(* The engine: what a module may do in one run. *)

Request ==
    /\ phase = "run"
    /\ ops < MaxOps
    /\ ops' = ops + 1
    /\ UNCHANGED <<verdict, round, pageVars, hostVars>>

NothingPending == pendingCall = None /\ pendingSlots = {}

\* Whether a miss is recorded: only the first one of a run is.
RecordsAnyMiss == TRUE
RecordsMiss == NothingPending

\* An error reaches the host unless the module caught it.
Raise(caught) == phase' = IF caught THEN "run" ELSE "raised"

\* A frame method whose answer is there (frame_method).
CallHit(b) ==
    /\ Request
    /\ next_call_key(b, ord[b]) \in Asked
    /\ ord' = [ord EXCEPT ![b] = @ + 1]
    /\ UNCHANGED <<phase, pendingCall, missedKey, pendingSlots, missVars>>

\* A frame method whose answer is not there: the first miss is recorded.
CallMiss(b, caught) ==
    /\ Request
    /\ next_call_key(b, ord[b]) \notin Asked
    /\ ord' = [ord EXCEPT ![b] = @ + 1]
    /\ IF RecordsMiss
       THEN pendingCall' = b /\ missedKey' = next_call_key(b, ord[b])
       ELSE UNCHANGED <<pendingCall, missedKey>>
    /\ Raise(caught)
    /\ UNCHANGED <<pendingSlots, missVars>>

\* The request for a set of unexpanded arguments.
Expand(slots, caught) ==
    /\ Request
    /\ slots # {}
    /\ pendingSlots' = IF RecordsMiss THEN slots ELSE pendingSlots
    /\ Raise(caught)
    /\ UNCHANGED <<ord, pendingCall, missedKey, missVars>>

\* Reading an unexpanded frame.args[k] asks for every argument of that frame
\* that is still unexpanded.
ReadArg(s, caught) ==
    /\ s \notin Asked
    /\ Expand((IF s \in CallSlots THEN CallSlots ELSE ParentSlots) \ Asked, caught)

\* So does walking frame.args with pairs, or reading a key it does not have.
WalkArgs(frameSlots, caught) == Expand(frameSlots \ Asked, caught)

\* An ipairs step asks for the one positional argument it has reached.
StepArgs(s, caught) == s \in Positional /\ Expand({s} \ Asked, caught)

\* Recording a title a run wanted.  Only the first is ever reported.
NoteTitle(t) == missTitle' = IF missTitle = None THEN t ELSE missTitle
NoteModule(m) == missModule' = IF missModule = None THEN m ELSE missModule

\* `require' or mw.loadData of a module that is not in the registry.
\* A page already proven absent is an ordinary error.
RequireMiss(m, caught) ==
    /\ Request
    /\ m \notin registry
    /\ IF m \in unfetchable THEN UNCHANGED missModule ELSE NoteModule(m)
    /\ Raise(caught)
    /\ UNCHANGED <<callVars, missTitle, missEntities, missData>>

\* mw.loadJsonData of a page that is not in the registry.
LoadJsonMiss(m, caught) ==
    /\ Request
    /\ m \in JsonPages \ registry
    /\ NoteModule(m)
    /\ Raise(caught)
    /\ UNCHANGED <<callVars, missTitle, missEntities, missData>>

\* A fact about a title the host was never asked about: false, for now.
AskTitle(t) ==
    /\ Request
    /\ t \notin titles
    /\ NoteTitle(t)
    /\ UNCHANGED <<phase, callVars, missModule, missEntities, missData>>

\* An entity that was not fetched reads as nil.
AskEntity(e) ==
    /\ Request
    /\ e \notin entities \union unfetchableEntities
    /\ missEntities' = missEntities \union {e}
    /\ UNCHANGED <<phase, callVars, missTitle, missModule, missData>>

\* A data page that was not fetched reads as the hollow table.
GetData(d) ==
    /\ Request
    /\ d \notin data \union unfetchableData
    /\ missData' = missData \union {d}
    /\ UNCHANGED <<phase, callVars, missTitle, missModule, missEntities>>

\* The entry function returns, or fails with an error of its own.
Leave ==
    /\ phase = "run"
    /\ phase' \in {"returned", "raised"}
    /\ UNCHANGED <<verdict, round, ops, pageVars, hostVars, callVars, missVars>>

Engine ==
    \/ \E b \in Bases : CallHit(b)
    \/ \E b \in Bases, caught \in BOOLEAN : CallMiss(b, caught)
    \/ \E s \in Slots, caught \in BOOLEAN : ReadArg(s, caught)
    \/ \E frameSlots \in {CallSlots, ParentSlots}, caught \in BOOLEAN :
          WalkArgs(frameSlots, caught)
    \/ \E s \in Slots, caught \in BOOLEAN : StepArgs(s, caught)
    \/ \E m \in Modules, caught \in BOOLEAN : RequireMiss(m, caught)
    \/ \E m \in Modules, caught \in BOOLEAN : LoadJsonMiss(m, caught)
    \/ \E t \in Titles : AskTitle(t)
    \/ \E e \in Entities : AskEntity(e)
    \/ \E d \in DataPages : GetData(d)
    \/ Leave

-----------------------------------------------------------------------------
(* The host: what run_once reports, most specific first, and what the loop *)
(* does about it.                                                          *)

Ended == phase \in {"returned", "raised"}

Outcome ==
    IF missTitle # None THEN "MissingTitle"
    ELSE IF missModule # None THEN "MissingModule"
    ELSE IF missEntities # {} THEN "MissingEntities"
    ELSE IF missData # {} /\ phase = "returned" THEN "MissingData"
    ELSE IF ~NothingPending THEN "Deferred"
    ELSE IF phase = "returned" THEN "Done" ELSE "Error"

Reports(outcome) == Ended /\ Outcome = outcome

Stop(status, why) ==
    /\ phase' = status /\ verdict' = why
    /\ UNCHANGED <<round, ops, callVars, missVars>>

\* `continue': the next iteration runs the module in a fresh engine.
NextRound ==
    /\ round' = round + 1
    /\ IF round + 1 < MaxRounds
       THEN phase' = "run" /\ UNCHANGED verdict
       ELSE phase' = "error" /\ verdict' = "rounds"
    /\ FreshRun

\* Facts are fetched once; a title still asked for after that is absent.
LearnTitle ==
    /\ Reports("MissingTitle")
    /\ fetchedFacts' = fetchedFacts \union {missTitle}
    /\ IF missTitle \in fetchedFacts
       THEN unfetchable' = unfetchable \union {missTitle} /\ UNCHANGED titles
       ELSE titles' = titles \union {missTitle} /\ UNCHANGED unfetchable
    /\ NextRound
    /\ UNCHANGED <<pageVars, registry, fetched, entities, onDemand,
                   unfetchableEntities, data, unfetchableData, answers, hostOrd>>

\* Whether a module fetch has been tried.  Facts fetched about the title of a
\* module are no module fetch: the same title is routinely both.
AlreadyFetched(m) == m \in registry \union fetched

\* What is left of the entity table after a refresh.
RefreshedWholesale(E) == E
Refreshed(E) == E \union onDemand

\* The module and what it names are fetched, and titles and entities are
\* refreshed from the wider registry; entities found on demand are put back.
LearnModule ==
    /\ Reports("MissingModule")
    /\ ~AlreadyFetched(missModule)
    /\ fetched' = fetched \union {missModule}
    /\ \E R \in preload(missModule) :
          /\ registry' = registry \union R
          /\ unfetchable' = IF missModule \in registry' THEN unfetchable
                            ELSE unfetchable \union {missModule}
    /\ \E T \in preload_titles(registry', titles) : titles' = titles \union T
    /\ \E E \in preload_entities(registry') : entities' = Refreshed(E)
    /\ NextRound
    /\ UNCHANGED <<pageVars, fetchedFacts, onDemand, unfetchableEntities, data,
                   unfetchableData, answers, hostOrd>>

\* A module that was fetched before cannot start to arrive.
GiveUpModule ==
    /\ Reports("MissingModule")
    /\ AlreadyFetched(missModule)
    /\ Stop("error", "preload")
    /\ UNCHANGED <<pageVars, hostVars>>

\* What was asked for and did not arrive is remembered as absent.
AbsentForgotten(asked, got) == {}
Absent(asked, got) == asked \ got

LearnEntities ==
    /\ Reports("MissingEntities")
    /\ \E got \in Fetched(missEntities) :
          /\ entities' = entities \union got
          /\ onDemand' = onDemand \union got
          /\ unfetchableEntities' = unfetchableEntities \union Absent(missEntities, got)
    /\ NextRound
    /\ UNCHANGED <<pageVars, registry, unfetchable, fetched, titles, fetchedFacts,
                   data, unfetchableData, answers, hostOrd>>

LearnData ==
    /\ Reports("MissingData")
    /\ \E got \in Fetched(missData \ (data \union unfetchableData)) :
          /\ data' = data \union got
          /\ unfetchableData' = unfetchableData \union Absent(missData, data \union got)
    /\ NextRound
    /\ UNCHANGED <<pageVars, registry, unfetchable, fetched, titles, fetchedFacts,
                   entities, onDemand, unfetchableEntities, answers, hostOrd>>

\* Storing under each of `keys' what was expanded for it; an answer the module
\* already has would raise the same request forever.
Store(keys, expansion) ==
    IF keys \intersect Asked # {}
    THEN Stop("error", "unsettled") /\ UNCHANGED answers
    ELSE /\ answers' = [k \in Asked \union keys |->
                           IF k \in keys THEN expansion[k] ELSE answers[k]]
         /\ NextRound

\* The key the host stores the answer of a frame call under.
KeyOfRequest(b) == b
KeyOfAnswer(b) == next_call_key(b, hostOrd[b])

\* A frame call is numbered by the host the way the engine numbered it.
AnswerCall ==
    /\ Reports("Deferred")
    /\ pendingCall # None
    /\ Store({KeyOfAnswer(pendingCall)},
             [k \in {KeyOfAnswer(pendingCall)} |-> pendingCall])
    /\ hostOrd' = [hostOrd EXCEPT ![pendingCall] = @ + 1]
    /\ UNCHANGED <<pageVars, registry, unfetchable, fetched, titles, fetchedFacts,
                   entities, onDemand, unfetchableEntities, data, unfetchableData>>

\* An argument's text is kept under the slot itself.
AnswerArgs ==
    /\ Reports("Deferred")
    /\ pendingCall = None
    /\ Store(pendingSlots, [s \in pendingSlots |-> s])
    /\ UNCHANGED <<pageVars, registry, unfetchable, fetched, titles, fetchedFacts,
                   entities, onDemand, unfetchableEntities, data, unfetchableData,
                   hostOrd>>

Finish ==
    /\ \/ Reports("Done") /\ Stop("done", "none")
       \/ Reports("Error") /\ Stop("error", "script")
    /\ UNCHANGED <<pageVars, hostVars>>

Host ==
    \/ LearnTitle \/ LearnModule \/ GiveUpModule \/ LearnEntities \/ LearnData
    \/ AnswerCall \/ AnswerArgs \/ Finish

Next == Start \/ Engine \/ Host

Spec == Init /\ [][Next]_vars

-----------------------------------------------------------------------------
(* Properties. *)

\* Every variable keeps to the values the program's types give it.
TypeOK ==
    /\ phase \in {"idle", "run", "returned", "raised", "done", "error"}
    /\ verdict \in {"none", "absent", "script", "preload", "unsettled", "rounds"}
    /\ round \in Nat /\ invokes \in Nat /\ ops \in Nat
    /\ titleCache \subseteq Titles /\ titles \subseteq Titles
    /\ fetchedFacts \subseteq Titles
    /\ registry \subseteq Modules /\ fetched \subseteq Modules
    /\ unfetchable \subseteq Modules \union Titles
    /\ entities \subseteq Entities /\ onDemand \subseteq Entities
    /\ unfetchableEntities \subseteq Entities
    /\ data \subseteq DataPages /\ unfetchableData \subseteq DataPages
    /\ Asked \subseteq Keys
    /\ answers \in [Asked -> Bases \union Slots]
    /\ hostOrd \in [Bases -> Nat] /\ ord \in [Bases -> Nat]
    /\ pendingCall \in Bases \union {None}
    /\ missedKey \in Keys \union {None}
    /\ pendingSlots \subseteq Slots
    /\ missTitle \in Titles \union {None}
    /\ missModule \in Modules \union {None}
    /\ missEntities \subseteq Entities /\ missData \subseteq DataPages

\* The host numbers an answer the way the engine numbered the call that missed
\* it, whatever the module caught, skipped or did in another order.
OrdinalsAgree ==
    pendingCall # None => missedKey = KeyOfAnswer(pendingCall)

\* The answer a call finds was expanded for a call of the same request: no
\* call is handed the text (or the strip marker) of another.
AnswerIsOwn ==
    \A b \in Bases : \A n \in 0 .. ord[b] :
        next_call_key(b, n) \in Asked => answers[next_call_key(b, n)] = b

\* "deferred frame call did not settle" is never reported: an answer is stored
\* under a key that has none.
Settles == verdict # "unsettled"

\* An entity fetched for an id built at run time is never lost to a refresh.
OnDemandKept == onDemand \subseteq entities

\* What the loop has learned about each kind of thing it may be asked for.
Learned == [module |-> fetched, title |-> fetchedFacts,
            entity |-> onDemand \union unfetchableEntities,
            data |-> data \union unfetchableData, answer |-> Asked]

\* No miss is in vain. Each round of the loop learns something new and forgets
\* nothing, so the bound on rounds is not what ends a call; and a module that
\* caught every miss is not ended by one: a page that does not exist reaches it
\* as an error it can catch. JSON pages are the exception to that, as
\* mw.loadJsonData reports them missing each time.
EachRoundLearns ==
    [][/\ round' > round =>
             /\ Learned' # Learned
             /\ \A kind \in DOMAIN Learned : Learned[kind] \subseteq Learned'[kind]
       /\ phase = "returned" /\ missModule \notin JsonPages => verdict' # "preload"]_vars

\* What the preload of one call has resolved about titles is at hand in every
\* later call of the page, through all its rounds and refreshes: the facts of the
\* page are merged with the newly preloaded ones, never replaced by them. What a
\* run asked for on demand is not among them.
PreloadedFactsKept == phase # "idle" => titleCache \subseteq titles

\* A script error is reported only for a run that had the data it asked for.
ErrorIsNotForWantOfData ==
    [][verdict' = "script" /\ verdict # "script" => missData = {}]_vars
=============================================================================
