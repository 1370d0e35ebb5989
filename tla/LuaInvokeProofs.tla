-------------------------- MODULE LuaInvokeProofs --------------------------
(* What holds of LuaInvoke for every page, every module and every number of *)
(* rounds.                                                                  *)
EXTENDS LuaInvoke, TLAPS

EmptyAnswers == [k \in {} |-> None]

\* A run starts with no answer held.
LEMMA EmptyAnswersType == DOMAIN EmptyAnswers = {} /\ EmptyAnswers \in [{} -> Bases \union Slots]
  BY DEF EmptyAnswers

\* Every ordinal of a base form has a key.
LEMMA KeyType == ASSUME NEW b \in Bases, NEW n \in Nat PROVE next_call_key(b, n) \in Keys
  BY DEF next_call_key, Keys

\* A request brings back only titles that were asked for.
LEMMA FetchedSubset == ASSUME NEW S, NEW got \in Fetched(S) PROVE got \subseteq S
  BY DEF Fetched

\* A capped list holds only what was listed.
LEMMA CappedSubset == ASSUME NEW S, NEW limit, NEW T \in Capped(S, limit) PROVE T \subseteq S
  BY DEF Capped

\* The titles a module names are titles.
LEMMA LiteralsType ==
  ASSUME NEW X, NEW lits \in [Modules -> SUBSET X], NEW R \in SUBSET Modules
  PROVE  Literals(lits, R) \subseteq X
  BY DEF Literals

\* What the preload scans return is of the kind asked for.
LEMMA PreloadTypes ==
  ASSUME NEW R \in SUBSET Modules, NEW known
  PROVE  /\ \A t : preload(t) \subseteq SUBSET Modules
         /\ preload_titles(R, known) \subseteq SUBSET Titles
         /\ preload_entities(R) \subseteq SUBSET Entities
         /\ preload_data(R) \subseteq SUBSET DataPages
<1>1. \A t : preload(t) \subseteq SUBSET Modules
  BY DEF preload
<1>2. Literals(TitleLits, R) \subseteq Titles /\ Literals(EntityLits, R) \subseteq Entities
        /\ Literals(DataLits, R) \subseteq DataPages
  BY LiteralsType, ConstantsAssumption
<1>3. preload_titles(R, known) \subseteq SUBSET Titles
  <2>1. (Literals(TitleLits, R) \union DocSubpages) \ known \subseteq Titles
    BY <1>2, ConstantsAssumption
  <2> QED BY <2>1, CappedSubset DEF preload_titles
<1>4. preload_entities(R) \subseteq SUBSET Entities
  <2> SUFFICES ASSUME NEW E \in preload_entities(R) PROVE E \subseteq Entities
    OBVIOUS
  <2>1. PICK S \in Capped(Literals(EntityLits, R), MaxEntities) :
           E \in Fetched(S \union PageEntity)
    BY DEF preload_entities
  <2>2. S \subseteq Entities
    BY <1>2, CappedSubset
  <2> QED BY <2>1, <2>2, FetchedSubset, ConstantsAssumption
<1>5. preload_data(R) \subseteq SUBSET DataPages
  <2> SUFFICES ASSUME NEW D \in preload_data(R) PROVE D \subseteq DataPages
    OBVIOUS
  <2>1. PICK S \in Capped(Literals(DataLits, R), MaxDataPages) : D \in Fetched(S)
    BY DEF preload_data
  <2>2. S \subseteq DataPages
    BY <1>2, CappedSubset
  <2> QED BY <2>1, <2>2, FetchedSubset
<1> QED BY <1>1, <1>3, <1>4, <1>5

-----------------------------------------------------------------------------
(* Type correctness, by groups of variables. *)

HostType ==
    /\ invokes \in Nat
    /\ titleCache \subseteq Titles /\ titles \subseteq Titles
    /\ fetchedFacts \subseteq Titles
    /\ registry \subseteq Modules /\ fetched \subseteq Modules
    /\ unfetchable \subseteq Modules \union Titles
    /\ entities \subseteq Entities /\ onDemand \subseteq Entities
    /\ unfetchableEntities \subseteq Entities
    /\ data \subseteq DataPages /\ unfetchableData \subseteq DataPages

AnswerType ==
    /\ Asked \subseteq Keys
    /\ answers \in [Asked -> Bases \union Slots]
    /\ hostOrd \in [Bases -> Nat]

RunType ==
    /\ ops \in Nat
    /\ ord \in [Bases -> Nat]
    /\ pendingCall \in Bases \union {None}
    /\ missedKey \in Keys \union {None}
    /\ pendingSlots \subseteq Slots
    /\ missTitle \in Titles \union {None}
    /\ missModule \in Modules \union {None}
    /\ missEntities \subseteq Entities /\ missData \subseteq DataPages

LoopType ==
    /\ phase \in {"idle", "run", "returned", "raised", "done", "error"}
    /\ verdict \in {"none", "absent", "script", "preload", "unsettled", "rounds"}
    /\ round \in Nat

\* The type invariant, by the groups of variables a step changes.
LEMMA TypeParts ==
  /\ TypeOK <=> HostType /\ AnswerType /\ RunType /\ LoopType
  /\ TypeOK' <=> HostType' /\ AnswerType' /\ RunType' /\ LoopType'
  BY DEF TypeOK, HostType, AnswerType, RunType, LoopType

\* A fresh interpreter is of its type.
LEMMA FreshRunType == FreshRun => RunType'
  BY DEF FreshRun, RunType

\* A new round is of its type.
LEMMA NextRoundType == RunType /\ LoopType /\ NextRound => RunType' /\ LoopType'
  BY FreshRunType DEF NextRound, LoopType

\* A verdict leaves the loop in its type.
LEMMA StopType ==
  ASSUME NEW status \in {"done", "error"},
         NEW why \in {"none", "script", "preload", "unsettled"},
         RunType, LoopType, Stop(status, why)
  PROVE  RunType' /\ LoopType'
  BY DEF Stop, RunType, LoopType, callVars, missVars

\* An answer that is stored is of its type.
LEMMA StoreType ==
  ASSUME RunType, LoopType, AnswerType,
         NEW keys \in SUBSET Keys, NEW text \in [keys -> Bases \union Slots],
         Store(keys, text)
  PROVE  /\ Asked' \subseteq Keys /\ answers' \in [Asked' -> Bases \union Slots]
         /\ RunType' /\ LoopType'
<1>1. CASE keys \intersect Asked # {}
  <2>1. Stop("error", "unsettled") /\ UNCHANGED answers
    BY <1>1 DEF Store
  <2> QED BY <2>1, StopType DEF AnswerType, Asked
<1>2. CASE keys \intersect Asked = {}
  <2>1. NextRound /\ answers' = [k \in Asked \union keys |->
                                   IF k \in keys THEN text[k] ELSE answers[k]]
    BY <1>2 DEF Store
  <2> QED BY <2>1, NextRoundType DEF AnswerType, Asked
<1> QED BY <1>1, <1>2

\* What a request can come to.
LEMMA OutcomeFacts ==
  /\ Outcome = "MissingTitle" => missTitle # None
  /\ Outcome = "MissingModule" => missModule # None
  /\ Outcome = "Deferred" /\ pendingCall = None => pendingSlots # {}
  BY DEF Outcome, NothingPending

\* A frame request keeps the type of the run.
LEMMA RequestType ==
  ASSUME TypeOK, Request PROVE HostType' /\ AnswerType' /\ round' = round
                               /\ verdict' = verdict /\ ops' \in Nat /\ phase = "run"
  BY DEF TypeOK, Request, HostType, AnswerType, Asked, pageVars, hostVars

\* Every request of the engine keeps the types.
LEMMA EngineType == ASSUME TypeOK, Engine PROVE TypeOK'
<1> USE DEF callVars, missVars, Raise
<1>1. ASSUME NEW b \in Bases, CallHit(b) PROVE TypeOK'
  BY <1>1, RequestType, TypeParts DEF CallHit, RunType, LoopType
<1>2. ASSUME NEW b \in Bases, NEW caught \in BOOLEAN, CallMiss(b, caught) PROVE TypeOK'
  <2>1. next_call_key(b, ord[b]) \in Keys
    BY KeyType, TypeParts DEF RunType
  <2> QED BY <1>2, <2>1, RequestType, TypeParts DEF CallMiss, RunType, LoopType
<1>3. ASSUME NEW slots \in SUBSET Slots, NEW caught \in BOOLEAN, Expand(slots, caught)
      PROVE  TypeOK'
  BY <1>3, RequestType, TypeParts DEF Expand, RunType, LoopType
<1>4. ASSUME NEW s \in Slots, NEW caught \in BOOLEAN, ReadArg(s, caught) PROVE TypeOK'
  BY <1>3, <1>4 DEF ReadArg, Slots
<1>5. ASSUME NEW frameSlots \in {CallSlots, ParentSlots}, NEW caught \in BOOLEAN,
             WalkArgs(frameSlots, caught) PROVE TypeOK'
  BY <1>3, <1>5 DEF WalkArgs, Slots
<1>6. ASSUME NEW s \in Slots, NEW caught \in BOOLEAN, StepArgs(s, caught) PROVE TypeOK'
  BY <1>3, <1>6 DEF StepArgs
<1>7. ASSUME NEW mod \in Modules, NEW caught \in BOOLEAN, RequireMiss(mod, caught)
      PROVE  TypeOK'
  BY <1>7, RequestType, TypeParts DEF RequireMiss, NoteModule, RunType, LoopType
<1>8. ASSUME NEW mod \in Modules, NEW caught \in BOOLEAN, LoadJsonMiss(mod, caught)
      PROVE  TypeOK'
  BY <1>8, RequestType, TypeParts DEF LoadJsonMiss, NoteModule, RunType, LoopType
<1>9. ASSUME NEW t \in Titles, AskTitle(t) PROVE TypeOK'
  BY <1>9, RequestType, TypeParts DEF AskTitle, NoteTitle, RunType, LoopType
<1>10. ASSUME NEW e \in Entities, AskEntity(e) PROVE TypeOK'
  BY <1>10, RequestType, TypeParts DEF AskEntity, RunType, LoopType
<1>11. ASSUME NEW d \in DataPages, GetData(d) PROVE TypeOK'
  BY <1>11, RequestType, TypeParts DEF GetData, RunType, LoopType
<1>12. ASSUME Leave PROVE TypeOK'
  BY <1>12, TypeParts DEF Leave, HostType, AnswerType, RunType, LoopType, Asked, hostVars, pageVars
<1> QED BY <1>1, <1>2, <1>4, <1>5, <1>6, <1>7, <1>8, <1>9, <1>10, <1>11, <1>12 DEF Engine

\* So does everything the host does.
LEMMA HostStepType == ASSUME TypeOK, Host PROVE TypeOK'
<1> USE TypeParts
<1>1. ASSUME LearnTitle PROVE TypeOK'
  <2>1. missTitle \in Titles
    BY <1>1, OutcomeFacts DEF LearnTitle, Reports, RunType
  <2>2. HostType'
    BY <1>1, <2>1 DEF LearnTitle, HostType, pageVars
  <2> QED BY <1>1, <2>2, NextRoundType DEF LearnTitle, AnswerType, Asked
<1>2. ASSUME LearnModule PROVE TypeOK'
  <2>1. missModule \in Modules
    BY <1>2, OutcomeFacts DEF LearnModule, Reports, RunType
  <2>2. registry' \subseteq Modules /\ unfetchable' \subseteq Modules \union Titles
    BY <1>2, <2>1, PreloadTypes DEF LearnModule, HostType
  <2>3. titles' \subseteq Titles /\ entities' \subseteq Entities
    BY <1>2, <2>2, PreloadTypes DEF LearnModule, HostType, Refreshed
  <2>4. HostType'
    BY <1>2, <2>1, <2>2, <2>3 DEF LearnModule, HostType, pageVars
  <2> QED BY <1>2, <2>4, NextRoundType DEF LearnModule, AnswerType, Asked
<1>3. ASSUME GiveUpModule PROVE TypeOK'
  BY <1>3, StopType DEF GiveUpModule, HostType, AnswerType, Asked, hostVars, pageVars
<1>4. ASSUME LearnEntities PROVE TypeOK'
  <2>1. HostType'
    BY <1>4, FetchedSubset DEF LearnEntities, Absent, HostType, RunType, pageVars
  <2> QED BY <1>4, <2>1, NextRoundType DEF LearnEntities, AnswerType, Asked
<1>5. ASSUME LearnData PROVE TypeOK'
  <2>1. HostType'
    BY <1>5, FetchedSubset DEF LearnData, Absent, HostType, RunType, pageVars
  <2> QED BY <1>5, <2>1, NextRoundType DEF LearnData, AnswerType, Asked
<1>6. ASSUME AnswerCall PROVE TypeOK'
  <2> DEFINE key == KeyOfAnswer(pendingCall)
  <2>1. pendingCall \in Bases
    BY <1>6 DEF AnswerCall, RunType
  <2>2. key \in Keys
    BY <2>1, KeyType DEF KeyOfAnswer, AnswerType
  <2>3. [k \in {key} |-> pendingCall] \in [{key} -> Bases \union Slots]
    BY <2>1
  <2>4. Store({key}, [k \in {key} |-> pendingCall])
    BY <1>6 DEF AnswerCall
  <2> HIDE DEF key
  <2>5. Asked' \subseteq Keys /\ answers' \in [Asked' -> Bases \union Slots]
        /\ RunType' /\ LoopType'
    BY <2>2, <2>3, <2>4, StoreType
  <2>6. HostType' /\ hostOrd' \in [Bases -> Nat]
    BY <1>6, <2>1 DEF AnswerCall, HostType, AnswerType, pageVars
  <2> QED BY <2>5, <2>6 DEF AnswerType
<1>7. ASSUME AnswerArgs PROVE TypeOK'
  <2>1. pendingSlots \in SUBSET Keys
    BY DEF RunType, Keys
  <2>2. [s \in pendingSlots |-> s] \in [pendingSlots -> Bases \union Slots]
    BY DEF RunType
  <2>3. Asked' \subseteq Keys /\ answers' \in [Asked' -> Bases \union Slots]
        /\ RunType' /\ LoopType'
    BY <1>7, <2>1, <2>2, StoreType DEF AnswerArgs
  <2>4. HostType' /\ hostOrd' \in [Bases -> Nat]
    BY <1>7 DEF AnswerArgs, HostType, AnswerType, pageVars
  <2> QED BY <2>3, <2>4 DEF AnswerType
<1>8. ASSUME Finish PROVE TypeOK'
  BY <1>8, StopType DEF Finish, HostType, AnswerType, Asked, hostVars, pageVars
<1> QED BY <1>1, <1>2, <1>3, <1>4, <1>5, <1>6, <1>7, <1>8 DEF Host

\* A call starts in its type.
LEMMA StartType == ASSUME TypeOK, Start PROVE TypeOK'
<1> USE TypeParts
<1>1. PICK R \in preload(Entry) :
         /\ registry' = R
         /\ \E T \in preload_titles(R, titleCache) : titles' = Seeded(T)
         /\ entities' \in preload_entities(R)
         /\ data' \in preload_data(R)
  BY DEF Start
<1>2. R \subseteq Modules
  BY PreloadTypes
<1>3. titles' \subseteq Titles /\ entities' \subseteq Entities /\ data' \subseteq DataPages
  BY <1>1, <1>2, PreloadTypes DEF Seeded, HostType
<1>4. HostType'
  BY <1>1, <1>2, <1>3 DEF Start, HostType
<1>5. RunType'
  BY FreshRunType DEF Start
<1>6. LoopType'
  BY DEF Start, LoopType
<1>7. AnswerType'
  BY DEF Start, AnswerType, Asked
<1> QED BY <1>4, <1>5, <1>6, <1>7

\* A page starts in its type.
LEMMA InitType == Init => TypeOK
  BY DEF Init, TypeOK, Asked

\* Every variable keeps its type, whatever a module asks for.
THEOREM TypeCorrect == Spec => []TypeOK
<1>1. TypeOK /\ [Next]_vars => TypeOK'
  <2>1. TypeOK /\ UNCHANGED vars => TypeOK'
    BY DEF TypeOK, Asked, vars, hostVars, pageVars, callVars, missVars
  <2> QED BY <2>1, StartType, EngineType, HostStepType DEF Next
<1> QED BY InitType, <1>1, PTL DEF Spec
-----------------------------------------------------------------------------
(* The numbering of calls.  Before the first miss of a run, every call of a  *)
(* request has found an answer, and the answers held for a request are those *)
(* of its first hostOrd calls: so the call that misses is the next one the   *)
(* host would number.                                                        *)

AnswersArePrefixes ==
    \A b \in Bases : \A n \in Nat : next_call_key(b, n) \in Asked <=> n < hostOrd[b]

AnswersAreOwn ==
    \A b \in Bases : \A n \in Nat :
        next_call_key(b, n) \in Asked => answers[next_call_key(b, n)] = b

RunWithinAnswers == NothingPending => \A b \in Bases : ord[b] <= hostOrd[b]

ArgsUnanswered == pendingSlots \intersect Asked = {}

NumberingInv ==
    /\ TypeOK
    /\ AnswersArePrefixes /\ AnswersAreOwn
    /\ RunWithinAnswers /\ OrdinalsAgree /\ ArgsUnanswered
    /\ Settles

\* Two requests share no key where the keys are apart.
LEMMA KeysInjective ==
  ASSUME KeysApart, NEW b \in Bases, NEW c \in Bases, NEW n \in Nat, NEW k \in Nat,
         next_call_key(b, n) = next_call_key(c, k)
  PROVE  b = c /\ n = k
  BY DEF KeysApart, next_call_key

\* No key of a request names an argument slot where the keys are apart.
LEMMA KeysNotSlots ==
  ASSUME KeysApart, NEW b \in Bases, NEW n \in Nat
  PROVE  next_call_key(b, n) \notin Slots
  BY DEF KeysApart, next_call_key

\* A fresh run has made no call and recorded nothing.
LEMMA FreshRunNumbering ==
  ASSUME FreshRun, hostOrd' \in [Bases -> Nat]
  PROVE  RunWithinAnswers' /\ OrdinalsAgree' /\ ArgsUnanswered'
<1>1. \A b \in Bases : ord'[b] = 0 /\ hostOrd'[b] \in Nat
  BY DEF FreshRun
<1> QED BY <1>1 DEF FreshRun, RunWithinAnswers, OrdinalsAgree, ArgsUnanswered

\* A step that keeps the answers and leaves the run alone keeps the invariant.
LEMMA SameAnswersNumbering ==
  ASSUME NumberingInv, TypeOK', UNCHANGED <<answers, hostOrd>>,
         \/ FreshRun
         \/ UNCHANGED callVars,
         verdict' # "unsettled"
  PROVE  NumberingInv'
<1>1. AnswersArePrefixes' /\ AnswersAreOwn' /\ Settles'
  BY DEF NumberingInv, AnswersArePrefixes, AnswersAreOwn, Asked, Settles
<1>2. CASE FreshRun
  BY <1>1, <1>2, FreshRunNumbering DEF NumberingInv, TypeOK
<1>3. CASE UNCHANGED callVars
  BY <1>1, <1>3 DEF NumberingInv, RunWithinAnswers, OrdinalsAgree, ArgsUnanswered,
     NothingPending, KeyOfAnswer, callVars, Asked
<1> QED BY <1>2, <1>3

\* A frame request of the module leaves the answers as they are.
LEMMA RequestNumbering ==
  ASSUME NumberingInv, Request, TypeOK'
  PROVE  /\ AnswersArePrefixes' /\ AnswersAreOwn' /\ Settles'
         /\ UNCHANGED <<answers, hostOrd>> /\ Asked' = Asked
         /\ verdict' # "unsettled"
  BY DEF NumberingInv, Request, hostVars, AnswersArePrefixes, AnswersAreOwn, Settles, Asked

\* The interpreter keeps the numbering.
LEMMA EngineNumbering == ASSUME KeysApart, NumberingInv, Engine PROVE NumberingInv'
<1>1. TypeOK /\ TypeOK'
  BY EngineType DEF NumberingInv
<1>2. ASSUME NEW b \in Bases, CallHit(b) PROVE NumberingInv'
  <2>1. ord[b] \in Nat /\ hostOrd[b] \in Nat /\ ord \in [Bases -> Nat]
        /\ hostOrd \in [Bases -> Nat]
    BY <1>1 DEF TypeOK
  <2>2. ord[b] < hostOrd[b]
    BY <1>2, <2>1 DEF CallHit, NumberingInv, AnswersArePrefixes
  <2>3. RunWithinAnswers'
    BY <1>2, <2>1, <2>2, RequestNumbering, <1>1
    DEF CallHit, NumberingInv, RunWithinAnswers, NothingPending
  <2>4. OrdinalsAgree' /\ ArgsUnanswered'
    BY <1>2, RequestNumbering, <1>1
    DEF CallHit, NumberingInv, OrdinalsAgree, ArgsUnanswered, KeyOfAnswer
  <2> QED BY <1>1, <1>2, <2>3, <2>4, RequestNumbering DEF NumberingInv, CallHit
<1>3. ASSUME NEW b \in Bases, NEW caught \in BOOLEAN, CallMiss(b, caught)
      PROVE  NumberingInv'
  <2>1. ord[b] \in Nat /\ hostOrd[b] \in Nat /\ b # None
    BY <1>1, ConstantsAssumption DEF TypeOK
  <2>2. ~(ord[b] < hostOrd[b])
    BY <1>3, <2>1 DEF CallMiss, NumberingInv, AnswersArePrefixes
  <2>3. RunWithinAnswers'
    BY <1>3, <2>1 DEF CallMiss, RunWithinAnswers, NothingPending, RecordsMiss
  <2>4. OrdinalsAgree'
    <3>1. CASE NothingPending
      <4>1. ord[b] = hostOrd[b]
        BY <2>1, <2>2, <3>1 DEF NumberingInv, RunWithinAnswers
      <4> QED BY <1>3, <3>1, <4>1, <1>1, RequestNumbering
              DEF CallMiss, RecordsMiss, OrdinalsAgree, KeyOfAnswer
    <3>2. CASE ~NothingPending
      BY <1>3, <3>2, <1>1, RequestNumbering
      DEF CallMiss, RecordsMiss, OrdinalsAgree, KeyOfAnswer, NumberingInv
    <3> QED BY <3>1, <3>2
  <2>5. ArgsUnanswered'
    BY <1>3, <1>1, RequestNumbering DEF CallMiss, NumberingInv, ArgsUnanswered
  <2> QED BY <1>1, <1>3, <2>3, <2>4, <2>5, RequestNumbering DEF NumberingInv, CallMiss
<1>4. ASSUME NEW slots \in SUBSET (Slots \ Asked), NEW caught \in BOOLEAN,
             Expand(slots, caught)
      PROVE  NumberingInv'
  <2>1. RunWithinAnswers'
    BY <1>4, RequestNumbering, <1>1
    DEF Expand, NumberingInv, RunWithinAnswers, NothingPending, RecordsMiss
  <2>2. OrdinalsAgree'
    BY <1>4, RequestNumbering, <1>1 DEF Expand, NumberingInv, OrdinalsAgree, KeyOfAnswer
  <2>3. ArgsUnanswered'
    BY <1>4, RequestNumbering, <1>1 DEF Expand, NumberingInv, ArgsUnanswered
  <2> QED BY <1>1, <1>4, <2>1, <2>2, <2>3, RequestNumbering DEF NumberingInv, Expand
<1>5. ASSUME NEW s \in Slots, NEW caught \in BOOLEAN, ReadArg(s, caught) PROVE NumberingInv'
  BY <1>4, <1>5 DEF ReadArg, Slots
<1>6. ASSUME NEW frameSlots \in {CallSlots, ParentSlots}, NEW caught \in BOOLEAN,
             WalkArgs(frameSlots, caught) PROVE NumberingInv'
  BY <1>4, <1>6 DEF WalkArgs, Slots
<1>7. ASSUME NEW s \in Slots, NEW caught \in BOOLEAN, StepArgs(s, caught) PROVE NumberingInv'
  BY <1>4, <1>7 DEF StepArgs
<1>8. ASSUME Request, UNCHANGED callVars PROVE NumberingInv'
  BY <1>1, <1>8, RequestNumbering, SameAnswersNumbering
<1>9. ASSUME Leave PROVE NumberingInv'
  <2>1. UNCHANGED <<answers, hostOrd>> /\ UNCHANGED callVars /\ verdict' = verdict
    BY <1>9 DEF Leave, hostVars
  <2> QED BY <1>1, <2>1, SameAnswersNumbering DEF NumberingInv, Settles
<1> QED
  BY <1>2, <1>3, <1>5, <1>6, <1>7, <1>8, <1>9
  DEF Engine, RequireMiss, LoadJsonMiss, AskTitle, AskEntity, GetData

\* The next round is never refused as unsettled.
LEMMA NextRoundVerdict == NumberingInv /\ NextRound => verdict' # "unsettled"
  BY DEF NumberingInv, Settles, NextRound

\* Storing answers that were not held adds them and runs the module afresh.
LEMMA StoreOutcome ==
  ASSUME NumberingInv, NEW keys, NEW expansion, Store(keys, expansion),
         keys \intersect Asked = {}
  PROVE  /\ Asked' = Asked \union keys
         /\ \A k \in Asked' : answers'[k] = IF k \in keys THEN expansion[k] ELSE answers[k]
         /\ FreshRun /\ verdict' # "unsettled"
  BY NextRoundVerdict DEF Store, Asked, NextRound

\* The host keeps the numbering: it answers the first miss and no other.
LEMMA HostNumbering == ASSUME KeysApart, NumberingInv, Host PROVE NumberingInv'
<1>1. TypeOK /\ TypeOK'
  BY HostStepType DEF NumberingInv
<1>2. ASSUME UNCHANGED <<answers, hostOrd>>, NextRound PROVE NumberingInv'
  BY <1>1, <1>2, NextRoundVerdict, SameAnswersNumbering DEF NextRound
<1>3. ASSUME UNCHANGED <<answers, hostOrd>>, NEW status,
             NEW why \in {"none", "script", "preload"}, Stop(status, why)
      PROVE NumberingInv'
  BY <1>1, <1>3, SameAnswersNumbering DEF Stop
<1>4. ASSUME AnswerCall PROVE NumberingInv'
  <2> DEFINE b == pendingCall
             key == KeyOfAnswer(pendingCall)
  <2>1. b \in Bases /\ hostOrd \in [Bases -> Nat] /\ hostOrd[b] \in Nat
    BY <1>1, <1>4 DEF AnswerCall, TypeOK
  <2>2. key = next_call_key(b, hostOrd[b]) /\ key \notin Asked
    BY <2>1 DEF NumberingInv, AnswersArePrefixes, KeyOfAnswer
  <2>3. /\ Asked' = Asked \union {key}
        /\ \A k \in Asked' : answers'[k] = IF k = key THEN b ELSE answers[k]
        /\ FreshRun /\ verdict' # "unsettled"
    BY <1>4, <2>2, StoreOutcome DEF AnswerCall
  <2>4. hostOrd' = [hostOrd EXCEPT ![b] = @ + 1]
    BY <1>4 DEF AnswerCall
  <2> HIDE DEF key, b
  <2>5. ASSUME NEW c \in Bases, NEW n \in Nat
        PROVE  next_call_key(c, n) = key <=> c = b /\ n = hostOrd[b]
    BY <2>1, <2>2, <2>5, KeysInjective
  <2>6. AnswersArePrefixes'
    <3> SUFFICES ASSUME NEW c \in Bases, NEW n \in Nat
                 PROVE  next_call_key(c, n) \in Asked' <=> n < hostOrd'[c]
      BY DEF AnswersArePrefixes, next_call_key
    <3>1. next_call_key(c, n) \in Asked <=> n < hostOrd[c]
      BY DEF NumberingInv, AnswersArePrefixes
    <3>2. hostOrd[c] \in Nat /\ hostOrd'[c] = IF c = b THEN hostOrd[b] + 1 ELSE hostOrd[c]
      BY <2>1, <2>4
    <3> QED BY <2>1, <2>3, <2>5, <3>1, <3>2
  <2>7. AnswersAreOwn'
    <3> SUFFICES ASSUME NEW c \in Bases, NEW n \in Nat, next_call_key(c, n) \in Asked'
                 PROVE  answers'[next_call_key(c, n)] = c
      BY DEF AnswersAreOwn, next_call_key
    <3> QED BY <2>3, <2>5 DEF NumberingInv, AnswersAreOwn
  <2>8. RunWithinAnswers' /\ OrdinalsAgree' /\ ArgsUnanswered'
    BY <1>1, <2>3, FreshRunNumbering DEF TypeOK
  <2> QED BY <1>1, <2>3, <2>6, <2>7, <2>8 DEF NumberingInv, Settles
<1>5. ASSUME AnswerArgs PROVE NumberingInv'
  <2>1. /\ Asked' = Asked \union pendingSlots
        /\ \A k \in Asked' : k \notin pendingSlots => answers'[k] = answers[k]
        /\ FreshRun /\ verdict' # "unsettled" /\ hostOrd' = hostOrd
    BY <1>5, StoreOutcome DEF AnswerArgs, NumberingInv, ArgsUnanswered
  <2>2. \A c \in Bases, n \in Nat : next_call_key(c, n) \notin pendingSlots
    BY <1>1, KeysNotSlots DEF TypeOK
  <2>3. AnswersArePrefixes' /\ AnswersAreOwn'
    BY <2>1, <2>2 DEF NumberingInv, AnswersArePrefixes, AnswersAreOwn, next_call_key
  <2>4. RunWithinAnswers' /\ OrdinalsAgree' /\ ArgsUnanswered'
    BY <1>1, <2>1, FreshRunNumbering DEF TypeOK
  <2> QED BY <1>1, <2>1, <2>3, <2>4 DEF NumberingInv, Settles
<1>6. ASSUME LearnTitle \/ LearnModule \/ LearnEntities \/ LearnData PROVE NumberingInv'
  BY <1>2, <1>6 DEF LearnTitle, LearnModule, LearnEntities, LearnData
<1>7. ASSUME GiveUpModule \/ Finish PROVE NumberingInv'
  BY <1>3, <1>7 DEF GiveUpModule, Finish, hostVars
<1> QED BY <1>4, <1>5, <1>6, <1>7 DEF Host

\* A call starts with its ordinals at zero.
LEMMA StartNumbering == ASSUME NumberingInv, Start PROVE NumberingInv'
<1>1. TypeOK'
  BY StartType DEF NumberingInv
<1>2. Asked' = {} /\ hostOrd' = [b \in Bases |-> 0] /\ verdict' # "unsettled" /\ FreshRun
  BY DEF Start, Asked
<1>3. AnswersArePrefixes' /\ AnswersAreOwn'
  BY <1>2 DEF AnswersArePrefixes, AnswersAreOwn
<1> QED BY <1>1, <1>2, <1>3, FreshRunNumbering DEF NumberingInv, Settles

\* A page starts with its ordinals at zero.
LEMMA InitNumbering == Init => NumberingInv
  BY InitType DEF Init, NumberingInv, AnswersArePrefixes, AnswersAreOwn, Asked,
     RunWithinAnswers, OrdinalsAgree, ArgsUnanswered, Settles

\* The numbering holds in every state.
LEMMA NumberingInductive == KeysApart => (Spec => []NumberingInv)
<1> SUFFICES ASSUME KeysApart PROVE Spec => []NumberingInv
  OBVIOUS
<1>1. NumberingInv /\ [Next]_vars => NumberingInv'
  <2>1. ASSUME NumberingInv, UNCHANGED vars PROVE NumberingInv'
    <3>1. TypeOK'
      BY <2>1 DEF NumberingInv, TypeOK, Asked, vars, hostVars, pageVars, callVars, missVars
    <3>2. UNCHANGED <<answers, hostOrd>> /\ UNCHANGED callVars /\ verdict' = verdict
      BY <2>1 DEF vars, hostVars
    <3> QED BY <2>1, <3>1, <3>2, SameAnswersNumbering DEF NumberingInv, Settles
  <2> QED BY <2>1, StartNumbering, EngineNumbering, HostNumbering DEF Next
<1> QED BY InitNumbering, <1>1, PTL DEF Spec

\* The host stores an answer under the key the engine missed, whatever a module
\* does, as long as no request's key reads like a repeat of another.
THEOREM OrdinalsAlwaysAgree == KeysApart => (Spec => []OrdinalsAgree)
<1>1. NumberingInv => OrdinalsAgree
  BY DEF NumberingInv
<1> QED BY <1>1, NumberingInductive, PTL

\* No call is handed the answer of another request.
THEOREM AnswersAlwaysOwn == KeysApart => (Spec => []AnswerIsOwn)
<1>1. NumberingInv => AnswerIsOwn
  BY DEF NumberingInv, AnswersAreOwn, AnswerIsOwn, TypeOK
<1> QED BY <1>1, NumberingInductive, PTL

\* The error "did not settle" is unreachable.
THEOREM AlwaysSettles == KeysApart => (Spec => []Settles)
<1>1. NumberingInv => Settles
  BY DEF NumberingInv
<1> QED BY <1>1, NumberingInductive, PTL
-----------------------------------------------------------------------------
(* Entities found on demand outlive every refresh of the entity table. *)

\* The interpreter changes nothing of the host.
LEMMA EngineKeepsHost == Engine => UNCHANGED hostVars
<1>1. \A slots : \A caught \in BOOLEAN : Expand(slots, caught) => UNCHANGED hostVars
  BY DEF Expand, Request
<1> QED
  BY <1>1 DEF Engine, Request, CallHit, CallMiss, ReadArg, WalkArgs, StepArgs, RequireMiss,
     LoadJsonMiss, AskTitle, AskEntity, GetData, Leave

\* No preload refresh drops an entity that was fetched for an id built at run
\* time.
THEOREM OnDemandAlwaysKept == Spec => []OnDemandKept
<1>1. Init => OnDemandKept
  BY DEF Init, OnDemandKept
<1>2. OnDemandKept /\ [Next]_vars => OnDemandKept'
  <2> SUFFICES ASSUME OnDemandKept, [Next]_vars PROVE OnDemandKept'
    OBVIOUS
  <2>1. CASE Start
    BY <2>1 DEF Start, OnDemandKept
  <2>2. CASE Engine \/ UNCHANGED vars
    BY <2>2, EngineKeepsHost DEF OnDemandKept, vars, hostVars
  <2>3. CASE LearnModule
    BY <2>3 DEF LearnModule, Refreshed, OnDemandKept
  <2>4. CASE LearnEntities
    BY <2>4 DEF LearnEntities, OnDemandKept
  <2>5. CASE LearnTitle \/ GiveUpModule \/ LearnData \/ AnswerCall \/ AnswerArgs \/ Finish
    BY <2>5 DEF LearnTitle, GiveUpModule, LearnData, AnswerCall, AnswerArgs, Finish,
       OnDemandKept, hostVars
  <2> QED BY <2>1, <2>2, <2>3, <2>4, <2>5 DEF Next, Host
<1> QED BY <1>1, <1>2, PTL DEF Spec
-----------------------------------------------------------------------------
(* What a run may miss.  A run records only what the host has neither        *)
(* fetched nor proved absent, so what it misses is new to the host.          *)

TitlesKnown ==
    /\ titleCache \subseteq titles /\ fetchedFacts \subseteq titles
    /\ missTitle # None => missTitle \notin titles

ModulesKnown ==
    /\ fetched \subseteq registry \union unfetchable
    /\ missModule \notin JsonPages \union {None}
          => missModule \notin registry \union unfetchable

EntitiesKnown ==
    /\ onDemand \subseteq entities
    /\ missEntities \intersect (entities \union unfetchableEntities) = {}

DataKnown == missData \intersect (data \union unfetchableData) = {}

\* A call has no verdict before it ends.
NoVerdictYet == phase \in {"run", "returned", "raised"} => verdict = "none"

MissesAreNew ==
    TitlesKnown /\ ModulesKnown /\ EntitiesKnown /\ DataKnown /\ NoVerdictYet

\* A fresh run has missed nothing.
LEMMA FreshRunMisses ==
  ASSUME FreshRun
  PROVE  /\ missTitle' = None /\ missModule' = None
         /\ missEntities' = {} /\ missData' = {}
  BY DEF FreshRun

\* The next round runs the module in the state that it was learned for.
LEMMA NextRoundMisses ==
  ASSUME NoVerdictYet, Ended, NextRound
  PROVE  NoVerdictYet' /\ FreshRun /\ round' = round + 1
  BY DEF NoVerdictYet, NextRound, Ended

\* A page starts with nothing learned and nothing missed.
LEMMA InitMisses == Init => MissesAreNew
  BY DEF Init, MissesAreNew, TitlesKnown, ModulesKnown, EntitiesKnown, DataKnown,
     NoVerdictYet

\* A call starts with what its page knows, and with no miss.
LEMMA StartMisses == ASSUME Start PROVE MissesAreNew'
<1>1. titleCache' \subseteq titles' /\ fetchedFacts' = {}
  BY DEF Start, Seeded
<1>2. fetched' = {} /\ onDemand' = {} /\ FreshRun
  BY DEF Start
<1>3. NoVerdictYet'
  BY DEF Start, NoVerdictYet
<1> QED
  BY <1>1, <1>2, <1>3, FreshRunMisses
  DEF MissesAreNew, TitlesKnown, ModulesKnown, EntitiesKnown, DataKnown

\* A module misses what the host has not learned, and the first of a kind that
\* is recorded stays recorded.
LEMMA EngineMisses == ASSUME MissesAreNew, Engine PROVE MissesAreNew'
<1> USE DEF missVars
<1>1. UNCHANGED hostVars /\ UNCHANGED pageVars /\ verdict' = verdict /\ phase = "run"
  <2>1. ASSUME NEW slots, NEW caught \in BOOLEAN, Expand(slots, caught)
        PROVE  UNCHANGED pageVars /\ verdict' = verdict /\ phase = "run"
    BY <2>1 DEF Expand, Request
  <2> QED BY <2>1, EngineKeepsHost
          DEF Engine, Request, CallHit, CallMiss, ReadArg, WalkArgs, StepArgs,
              RequireMiss, LoadJsonMiss, AskTitle, AskEntity, GetData, Leave
<1>2. NoVerdictYet'
  BY <1>1 DEF MissesAreNew, NoVerdictYet
<1>3. ASSUME UNCHANGED missVars PROVE MissesAreNew'
  BY <1>1, <1>2, <1>3
  DEF MissesAreNew, TitlesKnown, ModulesKnown, EntitiesKnown, DataKnown, hostVars, pageVars
<1>4. ASSUME NEW slots, NEW caught \in BOOLEAN, Expand(slots, caught) PROVE MissesAreNew'
  BY <1>3, <1>4 DEF Expand
<1>5. ASSUME NEW m \in Modules, NEW caught \in BOOLEAN,
             RequireMiss(m, caught) \/ LoadJsonMiss(m, caught)
      PROVE  MissesAreNew'
  <2>1. ModulesKnown'
    BY <1>1, <1>5 DEF MissesAreNew, ModulesKnown, RequireMiss, LoadJsonMiss, NoteModule, hostVars
  <2>2. UNCHANGED <<missTitle, missEntities, missData>>
    BY <1>5 DEF RequireMiss, LoadJsonMiss
  <2> QED BY <1>1, <1>2, <2>1, <2>2
          DEF MissesAreNew, TitlesKnown, EntitiesKnown, DataKnown, hostVars, pageVars
<1>6. ASSUME NEW t \in Titles, AskTitle(t) PROVE MissesAreNew'
  <2>1. TitlesKnown'
    BY <1>1, <1>6 DEF MissesAreNew, TitlesKnown, AskTitle, NoteTitle, hostVars, pageVars
  <2> QED BY <1>1, <1>2, <1>6, <2>1
          DEF AskTitle, MissesAreNew, ModulesKnown, EntitiesKnown, DataKnown, hostVars
<1>7. ASSUME NEW e \in Entities, AskEntity(e) PROVE MissesAreNew'
  BY <1>1, <1>2, <1>7
  DEF AskEntity, MissesAreNew, TitlesKnown, ModulesKnown, EntitiesKnown, DataKnown,
      hostVars, pageVars
<1>8. ASSUME NEW d \in DataPages, GetData(d) PROVE MissesAreNew'
  BY <1>1, <1>2, <1>8
  DEF GetData, MissesAreNew, TitlesKnown, ModulesKnown, EntitiesKnown, DataKnown,
      hostVars, pageVars
<1> QED
  BY <1>3, <1>4, <1>5, <1>6, <1>7, <1>8
  DEF Engine, CallHit, CallMiss, ReadArg, WalkArgs, StepArgs, Leave

\* What the host learns it learns for a fresh run.
LEMMA HostMisses == ASSUME MissesAreNew, Host PROVE MissesAreNew'
<1> USE DEF MissesAreNew
<1>1. ASSUME NextRound, Ended,
             titleCache' \subseteq titles', fetchedFacts' \subseteq titles',
             fetched' \subseteq registry' \union unfetchable', onDemand' \subseteq entities'
      PROVE  MissesAreNew'
  <2>1. NoVerdictYet' /\ FreshRun
    BY <1>1, NextRoundMisses
  <2> QED BY <1>1, <2>1, FreshRunMisses
          DEF TitlesKnown, ModulesKnown, EntitiesKnown, DataKnown
<1>2. ASSUME UNCHANGED <<pageVars, registry, unfetchable, fetched, titles, fetchedFacts,
                         entities, onDemand, unfetchableEntities, data, unfetchableData>>,
             NEW status \in {"done", "error"}, NEW why, Stop(status, why)
      PROVE  MissesAreNew'
  BY <1>2 DEF Stop, TitlesKnown, ModulesKnown, EntitiesKnown, DataKnown, NoVerdictYet,
              missVars, pageVars
<1>3. CASE LearnTitle
  BY <1>1, <1>3 DEF LearnTitle, TitlesKnown, ModulesKnown, EntitiesKnown, pageVars, Reports
<1>4. CASE LearnModule
  <2>1. onDemand' \subseteq entities'
    BY <1>4 DEF LearnModule, Refreshed
  <2>2. fetched' \subseteq registry' \union unfetchable'
    BY <1>4 DEF LearnModule, ModulesKnown
  <2> QED BY <1>1, <1>4, <2>1, <2>2 DEF LearnModule, TitlesKnown, pageVars, Reports
<1>5. CASE LearnEntities
  BY <1>1, <1>5 DEF LearnEntities, TitlesKnown, ModulesKnown, EntitiesKnown, pageVars, Reports
<1>6. CASE LearnData
  BY <1>1, <1>6 DEF LearnData, TitlesKnown, ModulesKnown, EntitiesKnown, pageVars, Reports
<1>7. CASE GiveUpModule \/ Finish
  BY <1>2, <1>7 DEF GiveUpModule, Finish, hostVars
<1>8. ASSUME NEW keys, NEW text, Store(keys, text), Ended,
             UNCHANGED <<pageVars, registry, unfetchable, fetched, titles, fetchedFacts,
                         entities, onDemand, unfetchableEntities, data, unfetchableData>>
      PROVE  MissesAreNew'
  BY <1>1, <1>2, <1>8 DEF Store, TitlesKnown, ModulesKnown, EntitiesKnown, pageVars
<1>9. CASE AnswerCall \/ AnswerArgs
  BY <1>8, <1>9 DEF AnswerCall, AnswerArgs, Reports
<1> QED BY <1>3, <1>4, <1>5, <1>6, <1>7, <1>9 DEF Host

\* What a run misses is new in every state.
LEMMA MissesAlwaysNew == Spec => []MissesAreNew
<1>1. MissesAreNew /\ [Next]_vars => MissesAreNew'
  <2>1. MissesAreNew /\ UNCHANGED vars => MissesAreNew'
    BY DEF MissesAreNew, TitlesKnown, ModulesKnown, EntitiesKnown, DataKnown, NoVerdictYet,
       vars, hostVars, pageVars, missVars
  <2> QED BY <2>1, StartMisses, EngineMisses, HostMisses DEF Next
<1> QED BY InitMisses, <1>1, PTL DEF Spec

\* What the preload of a call has resolved about titles is in the frame of every
\* later call of the page, in all its rounds (invoke: the facts are merged into
\* the seeded ones, and every refresh adds to them).
THEOREM PreloadedFactsAlwaysKept == Spec => []PreloadedFactsKept
<1>1. MissesAreNew => PreloadedFactsKept
  BY DEF MissesAreNew, TitlesKnown, PreloadedFactsKept
<1> QED BY <1>1, MissesAlwaysNew, PTL

-----------------------------------------------------------------------------
(* Every round learns something. *)

LearnsSomething ==
    /\ Learned' # Learned
    /\ \A kind \in DOMAIN Learned : Learned[kind] \subseteq Learned'[kind]

\* What is learned of one kind is enough.
LEMMA LearnedGrows ==
  ASSUME fetched \subseteq fetched', fetchedFacts \subseteq fetchedFacts',
         onDemand \union unfetchableEntities \subseteq (onDemand \union unfetchableEntities)',
         data \union unfetchableData \subseteq (data \union unfetchableData)',
         Asked \subseteq Asked',
         \/ fetched # fetched'
         \/ fetchedFacts # fetchedFacts'
         \/ onDemand \union unfetchableEntities # (onDemand \union unfetchableEntities)'
         \/ data \union unfetchableData # (data \union unfetchableData)'
         \/ Asked # Asked'
  PROVE  LearnsSomething
  BY DEF LearnsSomething, Learned

\* A round that begins has learned what the last one missed.
LEMMA RoundLearns ==
  ASSUME NumberingInv, MissesAreNew, Host, round' > round
  PROVE  LearnsSomething
<1> USE DEF MissesAreNew
<1>1. round \in Nat /\ TypeOK
  BY DEF NumberingInv, TypeOK
<1>2. ASSUME NEW status, NEW why, Stop(status, why) PROVE FALSE
  BY <1>1, <1>2 DEF Stop
<1>3. CASE LearnTitle
  <2>1. missTitle \notin fetchedFacts
    BY <1>3, OutcomeFacts DEF LearnTitle, Reports, TitlesKnown
  <2>2. fetchedFacts' = fetchedFacts \union {missTitle} /\ Asked' = Asked
    BY <1>3 DEF LearnTitle, Asked
  <2> QED BY <1>3, <2>1, <2>2, LearnedGrows DEF LearnTitle
<1>4. CASE LearnModule
  <2>1. fetched' # fetched /\ fetched \subseteq fetched' /\ Asked' = Asked
    BY <1>4 DEF LearnModule, AlreadyFetched, Asked
  <2> QED BY <1>4, <2>1, LearnedGrows DEF LearnModule
<1>5. CASE LearnEntities
  <2>1. missEntities # {} /\ Asked' = Asked
    BY <1>5 DEF LearnEntities, Reports, Outcome, Asked
  <2>2. PICK got \in Fetched(missEntities) :
           /\ onDemand' = onDemand \union got
           /\ unfetchableEntities' = unfetchableEntities \union Absent(missEntities, got)
    BY <1>5 DEF LearnEntities
  <2>3. (onDemand \union unfetchableEntities)'
           = onDemand \union unfetchableEntities \union missEntities
    BY <2>2, FetchedSubset DEF Absent
  <2>4. missEntities \intersect (onDemand \union unfetchableEntities) = {}
    BY DEF EntitiesKnown
  <2> QED BY <1>5, <2>1, <2>3, <2>4, LearnedGrows DEF LearnEntities
<1>6. CASE LearnData
  <2>1. missData # {} /\ Asked' = Asked
    BY <1>6 DEF LearnData, Reports, Outcome, Asked
  <2>2. PICK got \in Fetched(missData \ (data \union unfetchableData)) :
           /\ data' = data \union got
           /\ unfetchableData' = unfetchableData \union Absent(missData, data \union got)
    BY <1>6 DEF LearnData
  <2>3. (data \union unfetchableData)' = data \union unfetchableData \union missData
    BY <2>2, FetchedSubset DEF Absent
  <2> QED BY <1>6, <2>1, <2>3, LearnedGrows DEF LearnData, DataKnown
<1>7. CASE AnswerCall
  <2> DEFINE key == KeyOfAnswer(pendingCall)
  <2>1. key \notin Asked
    BY <1>1, <1>7 DEF AnswerCall, NumberingInv, AnswersArePrefixes, KeyOfAnswer, TypeOK
  <2>2. Store({key}, [k \in {key} |-> pendingCall])
    BY <1>7 DEF AnswerCall
  <2> HIDE DEF key
  <2>3. Asked' = Asked \union {key}
    BY <2>1, <2>2, StoreOutcome
  <2> QED BY <1>7, <2>1, <2>3, LearnedGrows DEF AnswerCall
<1>8. CASE AnswerArgs
  <2>1. pendingSlots # {} /\ pendingSlots \intersect Asked = {}
    BY <1>8, OutcomeFacts DEF AnswerArgs, Reports, NumberingInv, ArgsUnanswered
  <2>2. Asked' = Asked \union pendingSlots
    BY <1>8, <2>1, StoreOutcome DEF AnswerArgs
  <2> QED BY <1>8, <2>1, <2>2, LearnedGrows DEF AnswerArgs
<1>9. CASE GiveUpModule \/ Finish
  BY <1>2, <1>9 DEF GiveUpModule, Finish
<1> QED BY <1>3, <1>4, <1>5, <1>6, <1>7, <1>8, <1>9 DEF Host

\* A module that caught every miss is not ended for want of a module: what it
\* still misses was never fetched.
LEMMA CaughtIsNotEnded ==
  ASSUME MissesAreNew, Host, phase = "returned", missModule \notin JsonPages
  PROVE  verdict' # "preload"
<1>1. verdict = "none"
  BY DEF MissesAreNew, NoVerdictYet
<1>2. CASE LearnTitle \/ LearnModule \/ LearnEntities \/ LearnData
  BY <1>1, <1>2 DEF LearnTitle, LearnModule, LearnEntities, LearnData, NextRound
<1>3. CASE AnswerCall \/ AnswerArgs
  BY <1>1, <1>3 DEF AnswerCall, AnswerArgs, Store, NextRound, Stop
<1>4. CASE GiveUpModule
  BY <1>4, OutcomeFacts DEF GiveUpModule, Reports, AlreadyFetched, MissesAreNew, ModulesKnown
<1>5. CASE Finish
  BY <1>5 DEF Finish, Stop
<1> QED BY <1>2, <1>3, <1>4, <1>5 DEF Host

\* A step of the loop that begins a round, or ends a call that caught its
\* misses.
RoundStep ==
    /\ round' > round => LearnsSomething
    /\ phase = "returned" /\ missModule \notin JsonPages => verdict' # "preload"

\* No round of the loop is in vain: each one learns a key, a page or an id that
\* the host had neither found nor proved absent, and forgets none. And a module
\* that caught every miss is never ended by one, JSON pages apart.
THEOREM EachRoundAlwaysLearns == KeysApart => (Spec => EachRoundLearns)
<1> SUFFICES ASSUME KeysApart PROVE Spec => EachRoundLearns
  OBVIOUS
<1>1. NumberingInv /\ MissesAreNew /\ [Next]_vars => [RoundStep]_vars
  <2> SUFFICES ASSUME NumberingInv, MissesAreNew, Next PROVE RoundStep
    OBVIOUS
  <2>1. round \in Nat
    BY DEF NumberingInv, TypeOK
  <2>2. CASE Start
    BY <2>1, <2>2 DEF Start, RoundStep
  <2>3. CASE Engine
    <3>1. \A slots : \A caught \in BOOLEAN : Expand(slots, caught)
             => round' = round /\ phase = "run"
      BY DEF Expand, Request
    <3>2. round' = round /\ phase = "run"
      BY <2>3, <3>1 DEF Engine, Request, CallHit, CallMiss, ReadArg, WalkArgs, StepArgs,
         RequireMiss, LoadJsonMiss, AskTitle, AskEntity, GetData, Leave
    <3> QED BY <2>1, <3>2 DEF RoundStep
  <2>4. CASE Host
    BY <2>4, RoundLearns, CaughtIsNotEnded DEF RoundStep
  <2> QED BY <2>2, <2>3, <2>4 DEF Next
<1>2. [RoundStep]_vars
        => [/\ round' > round =>
                 /\ Learned' # Learned
                 /\ \A kind \in DOMAIN Learned : Learned[kind] \subseteq Learned'[kind]
            /\ phase = "returned" /\ missModule \notin JsonPages => verdict' # "preload"]_vars
  BY DEF RoundStep, LearnsSomething
<1> QED BY <1>1, <1>2, NumberingInductive, MissesAlwaysNew, PTL DEF Spec, EachRoundLearns
=============================================================================
