# TLA+ models of rustoid

rustoid is a port of MediaWiki's Parsoid to Rust: wikitext in, annotated HTML
out, and back. This directory holds TLA+ models of the parts of it whose
correctness depends on the *order* of things: which call is answered by which
expansion, which id an element gets, which of two writers wins, what a run that
is killed leaves behind. Each module is translated from the source; the lines
are in `PROJECT.json` under `map`.

## The system

| Crate | What it holds |
|---|---|
| `rustoid-ast` | tokens, `data-mw`, DOM nodes: data without behaviour |
| `rustoid-core` | tokenizer, expansion pipeline, Lua host, HTML5 tree builder, DOM passes, serializer |
| `rustoid-extensions` | Cite, Kartographer, SyntaxHighlight, Wikibase, SecureLinkFixer |
| `rustoid-compare` | runs rustoid over a corpus and compares with the HTML of the live wiki |
| `rustoid-cli` | one call of the library |

A page goes through it like this. The tokenizer turns source into tokens. The
parser (`pipeline/parser.rs`) walks them: a template token becomes the expansion
of the template in a child frame, recursively; `#invoke` hands over to the Lua
host (`lua/invoke.rs`), which runs the module, and whatever the module asks the
parser for comes back to the same walk. The expanded tokens pass the token
handlers (stream patcher, pre, quotes, extensions, lists, paragraphs,
sanitizer), then the HTML5 tree builder, then the DOM passes (encapsulation,
DSR, sections, cleanup, ...). The serializer goes the other way, with the
original source and a DOM diff for selective serialization. The comparison tool
renders the pages of a corpus, a few at a time, against a cache of what the wiki
answered.

### Components, their state and what makes them correct

| Component | State | Operations | Hard part | Correct if |
|---|---|---|---|---|
| Template expansion (`parser.rs`, `frame.rs`) | frame chain; `pp_node_count`, `expansion_depth`, `lua_expansion_depth`, module scope | walk a token, call a template, expand an argument, a target, a branch, a default; follow a redirect; answer a module | recursion through five mutually calling walks; counters raised and lowered by hand around `await`s; several loop checks | counters balance, recursion is bounded, a template is never expanded inside itself, only real loops are refused |
| Numbering (`parser.rs`, `templatestyles.rs`) | `about` counter, `ext_fragments`, `pending_styles`, the gates `arg_expansion` and `style_defer` | number a chunk, gate a walk, splice a value, hand markers to a module and take them back | an id belongs to the place of the output, but tags are met in the order of expansion | every tag of the page is numbered, once per occurrence, and no id is shown twice |
| Lua `#invoke` loop (`lua/invoke.rs`, `lua/engine.rs`, `lua_deferred.rs`) | registry, titles, entities, data pages, answers, ordinals; per run: what was missed | preload, run, record a miss, fetch or expand, run again | the module is re-run from the start and may behave differently; two independent numberings of the calls | a call gets the answer of its own request, every round learns something, nothing learned is lost |
| Cache of the comparison (`cache.rs`) | body files, `index.json`, its temporary file, each handle's manifest | open, get, put, remove, reindex, write_index, flush | several handles on one directory, crashes anywhere | the manifest is whole, no writer drops another's entries, a pinned baseline is never the HTML of another revision |
| Comparison (`harness.rs`, `wire.rs`, the binary) | per page: revision, source, oracle, row; the count of stalled renders | resolve, fetch, render, give up | concurrent pages share the cache; renders that cannot be cancelled | every page gets a row, what is compared is of the revision named, few renders are left running |
| Token handlers (`token_stream_patcher.rs`, `pre_handler.rs`, `quote_transformer_v2.rs`, `list_handler.rs`, `paragraph_wrapper_v2.rs`) | partial line, held tokens, list frames, chunks of a line, pending newlines, open paragraph | one token at a time | tokens are held back, nested into compound tokens and unnested; each handler has its own notion of a line, and flushes at its end or that of the page | no token is lost, doubled or reordered; quotes, lists, pres and paragraphs nest; a template is not split by a paragraph |
| HTML5 tree builder (`html5/`, `tree_builder_html.rs`) | tree, insertion mode, open elements, active formatting elements, text waiting | one token at a time | adoption agency, foster parenting, tags that close others and are looked at again in another mode | stack, tree, mode and list agree; the text is in the tree once and in order |
| DOM passes | the tree | one pass at a time | ranges that overlap, ids across passes | ranges nest, every `about` group is contiguous |
| Serializer | separator state, constrained text | one node at a time | what was not edited must come back byte for byte | unedited nodes are copied, separators are within their bounds |
| Cite (`cite.rs`) | the notes, per group its numbers, names and waiting notes; the ids of uses and the cuts of lists, taken by order | collect a use, collect a definition, cut a list; replace a use, replace a list | two walks over one page that must stop at the same elements; notes in notes; names defined after use | each `<ref>` gets the marker of its own use, each note is in one list with the number its markers show, no text is lost |

The rest (titles, options, data sources, scoreboard, CLI, parser functions,
attribute expansion, links and media) computes values from values; it is listed
in `PROJECT.json` with the reason it is left out.

## Modules

| Module | Models | Checked by |
|---|---|---|
| `LuaInvoke` | the `#invoke` loop, both sides | `MCLuaInvoke`, `LuaInvokeProofs` |
| `Expansion` | the recursion of template expansion | `MCExpansion`, `ExpansionProofs` |
| `Numbering` | ids and fragments of extension tags | `MCNumbering`, `NumberingProofs` |
| `WikiCache` | the cache of one wiki, with crashes | `MCWikiCache`, `WikiCacheProofs` |
| `ManifestStore` | what the cache promises: a store in which each write of the manifest is one step, of what the handle has changed | implemented by `WikiCache` where handles keep apart |
| `Compare` | a corpus run | `MCCompare`, `CompareProofs` |
| `TokenTypes` | tokens, and what the handlers ask of them | extended by the next seven |
| `TokenStreamPatcher`, `PreHandler`, `QuoteTransformer`, `ListHandler`, `ParagraphWrapper` | one token handler each | by way of `TreeBuilderStage` |
| `HtmlTree` | nodes, the stack of open elements, the list of active formatting elements: operators on one record | by way of `Html5TreeBuilder` |
| `Html5TreeBuilder` | insertion modes, adoption agency, and the feed of tokens | by way of `PageTree` |
| `PageTree` | the tree builder of a page, the stream it reads and what is to hold of its tree | by way of `TreeBuilderStage`, `TreeProofs` |
| `TreeBuilderStage` | a page through the five handlers and the tree builder | `MCTreeBuilderStage`, `TreeBuilderStageProofs` |
| `Cite` | the footnotes of a page | `MCCite`, `CiteProofs` |

`Expansion` and `Numbering` model the same walk from two sides. `Expansion`
keeps the limits, frames and refusals and forgets what a walk returns;
`Numbering` keeps the returned tokens and the gates, and forgets the limits.
`LuaInvoke` is what `Expansion` treats as one activation of kind `module`; its
action `AnswerCall` is where `Expansion` pushes an `answer` walk. `Compare`
treats the cache as shared memory that survives the run, `WikiCache` is what that
memory is on disk. `TreeBuilderStage` is one INSTANCE per handler and one of the
tree builder over a shared `stream`; its actions say which of them steps and what
the others keep. It starts where `Expansion` and `Numbering` end: with the tokens
of an expanded page. `Cite` starts where it ends, with the tree, of which it sees the
elements that `Numbering` gave a fragment.

### LuaInvoke

The phases are those of one iteration of the loop of `invoke`: `run` (the
module is executing), `returned` or `raised` (it has ended, `run_once` decides
what to report), then a host action and the next round. `Start` is all of
`invoke` before its loop, and happens again for the next `#invoke` of the page:
`titleCache`, which is the parser's `title_facts`, is the only state that survives, and
it has what `Start` resolves and nothing of what the rounds learn (`invoke.rs:536`,
`invoke.rs:677`). The actions of the engine are what
a module can do that touches host state; a module is *any* sequence of them, and
every action that raises may be caught (`pcall`). `Outcome` is the order in which
`run_once` looks at its signals. `LearnTitle`, `LearnModule`, `GiveUpModule`,
`LearnEntities`, `LearnData`, `AnswerCall`, `AnswerArgs` and `Finish` are the arms
of the loop's `match`. An answer is known by the request it was expanded for.
Fetches may fail for the pages in `Unreliable`, and the same page may arrive at
one time and not at another.

### Expansion

`stack` is the call stack of the recursive functions of `parser.rs`, one record
for each activation that can be interrupted: its kind says which function it is
(`page`, `target`, `args`, `body`, `branch`, `default`, `value`, `answer`,
`output`, `module`), its frame is the chain of scopes of `frame.rs`. One action
is one token of the chunk on top: it opens an activation, ends one, or is
replaced with an error. Wikitext is arbitrary: any token may be next. The kinds
`target` and `branch` stand for all the fields of a call and of a parser
function; the walk of the source of a call that is given up is one of them
(`Function`). `outcome` is what the last token was replaced with. Attribute values
are walked as their chunk's tokens are. The arguments of the frame around a body are
expanded before the body is entered, so that reading one of them opens no call.

The bodies of notes and galleries are parsed by a pipeline of their own, which is
not charged to `expansion_depth` (`parser.rs:7365`, `parser.rs:4165`) and is not
modelled: `NestingBounded` says nothing of a note in a note in a note.

### Numbering

An activation holds the tokens it still has to walk (`rest`), the chunk it walks
and the chunks it has done; a chunk that ends is numbered by
`number_chunk_extensions` unless the walk is gated. Values are spliced by each
use of the parameter; what a module is handed is held as strip markers, which it
may return anywhere, any number of times. `discarded` and `handed` record the ids
spent in text that is flattened to a name or given to a module, `phantom` the
second id a nested `<ref>` takes. The ids of transclusions come from the same
counter and only make gaps. Notes with calls of their own, `#tag`, extensions
built by later passes (galleries and the like) and tags in attributes are left
out; a value is one tag or one marker. The walk that `expand_templates`
makes of a parameter's value is part of the walk around it: on its own it would only
give some ids out in another order.

### WikiCache

Files are numbered, `index` and `tmp` say which file each name is, as directory
entries do: a handle that has opened the temporary file keeps writing to it after
another handle has renamed it. `write_index` is five steps (`Merge`, `Truncate`,
`WriteTmp`, `Rename` or `RenameFails`) because other processes run between them.
A process may die between any two steps (`Stop`) or within a body (`PutCrashes`);
a crash within the manifest's text is `Stop` between `Truncate` and `WriteTmp`.
`regime` is an assumption about the environment, fixed at the start: one handle at
a time (`alone`), handles whose manifest writes do not overlap (`exclusive`), the same
where each handle only adds, and keys of its own (`apart`), or no assumption
(`shared`). A `put` may come without a revision, which is then unknown.
`drop_colliding_bodies` and the file names of earlier layouts are left out, and so
are timestamps.

`ManifestStore` is the same cache without files: its state is what each handle
knows and what the store holds, a write of the manifest merges and replaces in one
step, and a handle that dies just stops. What it writes is what the handle has put,
recovered or removed since it last wrote (`changed`): all else it has in memory it has
only read, and that has nothing to say against what another handle wrote. `WikiCache`
maps to it (`Store`): the store is the manifest that `index` names, and a handle that
has merged and not yet renamed is, in the abstract, one that has not written.

The code does this in the regimes `alone` and `apart`, and not beyond, because it
merges *all* of its memory over what is on disk: `ImplementsStore` is about these two.
Where writes overlap, one of them is lost, which is what `cache_dropped` shows. Where
they do not, a handle writes again what it has only read; the traces are below, under
what the code and its comments say.

### Token handlers

A string is one of six, by what the handlers ask of it: whether it starts with a
blank, is blank, or starts like a list or a table. `at` is the place a token has in
the page, so that the properties can follow it. Each handler reads `stream` one
token at a time and appends to `out`; when all is read `process` hands `out` to the
next one. One action is one arm of `on_newline`, `on_any`, `on_tag` and so on: its
name says which. Compound tokens (lists, pres, empty lines) carry their tokens in
`arg`. `ParagraphWrapper` is one record, because an IndentPre that is undone is read
by the same operators again, within one step.

Left out: inline context, annotation metas, tags written as HTML, strings that begin
with a tab, data-parsoid, tags that do not say where they come from (a stray one is
then made text of its name, and `sol` stays), and the handlers that look at one token
only (extensions, sanitizer, behaviour switches, language variants).

### HtmlTree and Html5TreeBuilder

`builder` is the `TreeBuilder` with its `Dispatcher` and `NodeTreeHandler`: `dom`,
`stack`, `afe`, the modes, the text waiting in a table. `HtmlTree` has an operator
for each method and `Html5TreeBuilder` one for each mode's `start_tag` and
`end_tag`. Where the code looks at a tag again, in the mode that follows, the operator
of the one mode uses that of the other: this ends, since what is closed leads
outwards, and is a loop only for a table in a table (`TableInTable`).
`result` is what these methods return, the element opened or closed: if there is
none, the stage leaves a placeholder. A node's `held` is the places of the text in
it, its `tag` the place of its start tag. `process_chunk` is the one reordering of
tokens: two newlines after a paragraph with formatting go before its end.

Of each group of tags that take the same arms one or two are kept: `td` for `th`,
`tbody` for `thead` and `tfoot`, `div`, `blockquote`, `p`, `pre` and the lists for
the blocks, `a`, `b` and `i` for the formatting. The clause that keeps at most three
equal elements active (Noah's Ark) is left out because it never applies: the key of
an element has all its attributes in it (`element.rs:129`), and each tag has an
attribute with the number of its data (`tree_builder_html.rs`, `stash_data_attribs`).
Headings, column groups, forms, buttons, select, ruby, templates, raw text, foreign
content, and the modes around a body are left out; the only `<style>` is the
fragment of a stylesheet (`mw:DOMFragment`), which is an element like another, where
one written as a tag would be raw text.

### Cite

A page is the sequence of its `<ref>` and `<references>`, which have no children: a
text is a value, and `Bodies` says which elements are in it. `walks` is the
recursion of `collect_in` (`phase = "collect"`) and of `walk_render` (`"render"`), one
record for each sequence of elements that is being walked, and a walk ends
together with the element it is in (`Due`). `Encloses` and `nested_body` are what
each of the two goes into; they differ, and the whole of the correctness of the
markers is that they differ only where nothing is taken. `CollectUse`,
`add_embedded`, `CutList` and `ListInList` are the arms of the first walk,
`RenderRef` and `RenderList` those of the second. `references` is the vector of
notes, `index`, `next_number` and `group_members` are the tables by group, `use_ids`
and `cuts` what the second walk takes from the front. `converted` holds texts whose
refs were replaced, by text as in the code. `collected` is a ghost: for each use, its
place and whether it is within a list.

Labels, classes, back-links, `data-mw`, the error for a name that is not defined and
the comparison of rendered texts are left out.

### Compare

`step` is the position of `compare_page` in its sequence of awaits, one per page;
`Begin` follows `buffered(jobs)`, which starts pages in order and holds finished
ones until those before them are done. `FetchInput` is a render that fetches a
page of the corpus, which is then in the cache that the page's own comparison
reads. `Timeout` is the stall cap: the row is written, the worker stays. `Edit`
is the wiki. The run ends only when all rows are there (`NextRun`); the next one
starts with the cache of the last and without its workers, because they died with
the process.

## Runs

| Run | Instance | What it shows |
|---|---|---|
| `invoke_page` | 2 calls on the page; an entry module, two it may load, a JSON page, a documentation page, an entity and a data page; 2 requests, 2 unexpanded arguments; 3 requests per run, 6 rounds; fetches may fail | `TypeOK`; the two numberings agree (`OrdinalsAgree`), each call gets its own answer (`AnswerIsOwn`), "did not settle" is unreachable (`Settles`), nothing learned is lost (`OnDemandKept`, and of the preload of earlier calls `PreloadedFactsKept`), every round learns, a page that does not arrive being an error the module can catch (`EachRoundLearns`) |
| `expansion_limits` | 2 templates, a redirect, a missing title, all limits reachable | `TypeOK`, `CountersUnwind`, `NestingBounded` (of expansions and of answers to modules), `NoReentry` |
| `numbering_page` | pages of 6 tokens, nesting 4, style, indicator and ref | `TypeOK`, `NumberedBehind`, `IdsDistinct`, `IdsAccounted` |
| `cache_shared` | 2 handles, one baseline, 2 revisions, in the regimes `alone`, `exclusive` and `apart` | `TypeOK`, `PinnedIsItself` (in `alone`), `ManifestWhole`, and in `alone` and `apart` that `WikiCache` implements `ManifestStore` (`ImplementsStore`) |
| `corpus` | 3 pages, 2 at a time, 2 runs of 3 kinds, 2 revisions, stall limit 1 | `TypeOK`, `OracleIsOfRevision`, `StalledBounded`, `EveryPageGetsARow` |
| `page_tree` | thirteen alphabets of tokens through all stages, one from the list handler on, eight from the tree builder on; all pages of up to 4 to 9 tokens | nothing lost (`NothingLost`), quotes, lists, pres, paragraphs nest (`QuotesNest`, `ListsNest`, `ParagraphsNest`), all text of a page without blocks in a paragraph (`TextWrapped`), templates not split (`TemplatesWhole`), list frames never reached off their end nor left with something held (`FramesKept`), stack, mode, formatting and tree agree (`StackMirrorsTree`, `ModeFitsStack`, `ReopenedOnce`, `TreeInOrder`), `TypeOK` |
| `cite_page` | all pages of up to 4 elements of 14 kinds: named, anonymous and empty refs, names and groups with blanks, refs in refs, definitions in lists, lists of templates | `TypeOK`, the tables of a group agree (`InstancesAgree`), each ref gets its own marker (`MarkersOwn`), lists and markers agree (`ListsAgree`), no text is lost (`TextsKept`) |
| `invoke_data_error` | a data page, one module | violates `ErrorIsNotForWantOfData` |
| `expansion_selfcall` | the page is the template | violates `LoopIsReal` |
| `cache_dropped` | `cache_shared` with a page as well, in the regime `shared` | violates `PersistedKept` |
| `stray_p` | pages with an end tag of a paragraph that was not begun, through all stages | violates `ElementBelowFormatting` |
| `corpus_mixed` | 2 pages pinned to a revision | violates `RevisionsAgree` |

`CHECK_DEADLOCK FALSE` is in every configuration: a call, a page and a corpus run
end.

### Bounds

Every bound is a constant. `MaxOps` and `MaxInvokes` bound a module's requests in one
run and the calls of a page; a drift of the two numberings needs two calls of one
request, one of them caught and one skipped, so three requests do. The two requests are
symmetric, as are handles and revisions in the runs of the cache. `MaxRounds`
(`MAX_PRELOAD_ROUNDS + MAX_FRAME_ROUNDS`, 6 + 512 in the code) is smaller than in the
code, and `invoke_page` reaches it: the call ends with an error then, which no property
excuses, and six rounds are room for two requests and pages of several kinds
learned between and after them. Of the
limits of `Expansion` each is reached by some behaviour of the instance, and each hit is
followed by further tokens. Six tokens and four walks are what a value that is used
twice inside a branch inside a template needs. Two handles are enough for every race of
`WikiCache`, since each pair of writers interferes only through the two files; one key
is enough, since a merge is key by key (`Over`): that a handle keeps the entries of
others beside its own shows with a handle that has none. Three pages, two at a time, are one more
than pass the stall check together.

The pages of `page_tree` are all sequences over small alphabets, one alphabet for each
kind of interaction (quotes in lists, lists in tables in lists, paragraphs and
templates, ...). Length 7 is what it takes to have more than three formatting elements
in one that is closed with a block open; a table cut off inside a cell of another takes
5. A list in a table in a table in a list that ends, and a table in the list after it,
take nine tokens (`* {| {| * |} |} * {| |}`): these pages, of three kinds of tokens, begin
with an item and start at the list handler, as the handlers before it pass them on
unchanged. Pages that start at the tree
builder have tags that the handlers pass on unchanged; the text of the others goes
through all six stages. The end tags that close the whole stack (`</p>`, and `</dt>`
where only a `dd` is open) are left out of the alphabets with tables, because everything
open is lost with them and the mode stays: that is the finding of `stray_p`. In a body
they are in.

The pages of `cite_page` are all sequences of up to four elements, those within
texts not counted. A name that is used, listed, used again and listed again takes
four; so does a list that takes a cut meant for another group. Texts are nested two
deep: a definition in a list that has a ref in it.

### Fairness

Only `EveryPageGetsARow` needs any: weak fairness of the steps of `compare_page`
of each page. A request to the wiki has a timeout of 120 s (`wire.rs`), the stall
cap is a timer, and the executor polls what is ready. Nothing is assumed of
renders: they may never end. No liveness is claimed of the `#invoke` loop; that
its rounds are not wasted is the action property `EachRoundLearns`, from which
the bound on what there is to learn gives termination.

## Proofs

| Theorem | Statement |
|---|---|
| `LuaInvokeProofs!TypeCorrect` | `Spec => []TypeOK` |
| `LuaInvokeProofs!OrdinalsAlwaysAgree` | `Spec => []OrdinalsAgree`, if no key reads like the repeat of another (`KeysApart`) |
| `LuaInvokeProofs!AnswersAlwaysOwn` | `Spec => []AnswerIsOwn`, under the same assumption |
| `LuaInvokeProofs!AlwaysSettles` | `Spec => []Settles`, under the same assumption |
| `LuaInvokeProofs!OnDemandAlwaysKept` | `Spec => []OnDemandKept` |
| `LuaInvokeProofs!PreloadedFactsAlwaysKept` | `Spec => []PreloadedFactsKept` |
| `LuaInvokeProofs!EachRoundAlwaysLearns` | `Spec => EachRoundLearns`, under `KeysApart` |
| `ExpansionProofs!TypeCorrect` | `Spec => []TypeOK` |
| `ExpansionProofs!CountersCorrect` | `Spec => []CountersUnwind` |
| `ExpansionProofs!RecursionBounded` | `Spec => []NestingBounded` |
| `ExpansionProofs!DepthErrorUnreachable` | `Spec => []NeverTooDeep` |
| `ExpansionProofs!NeverReentered` | `Spec => []NoReentry` |
| `NumberingProofs!TypeCorrect` | `Spec => []TypeOK` |
| `NumberingProofs!LinesNumbered` | `Spec => []NumberedBehind` |
| `NumberingProofs!IdsAreDistinct` | `Spec => []IdsDistinct` |
| `NumberingProofs!IdsAreAccounted` | `Spec => []IdsAccounted` |
| `WikiCacheProofs!TypeCorrect` | `Spec => []TypeOK` |
| `WikiCacheProofs!ManifestAlwaysWhole` | `Spec => [](regime # "shared" => ManifestWhole)` |
| `WikiCacheProofs!PersistedAlwaysKept` | `Spec => [](regime # "shared" => PersistedKept)` |
| `WikiCacheProofs!CacheImplementsStore` | `Spec => ImplementsStore`, which speaks of the regimes `alone` and `apart` |
| `WikiCacheProofs!PinnedAlwaysItself` | `Spec => []PinnedIsItself`, which speaks of the regime `alone` |
| `CompareProofs!CompareTypeCorrect` | `Spec => []TypeOK` |
| `CompareProofs!OracleAlwaysOfRevision` | `Spec => []OracleIsOfRevision` |
| `CompareProofs!StalledAlwaysBounded` | `Spec => []StalledBounded` |
| `CiteProofs!TypeCorrect` | `Spec => []TypeOK` |
| `CiteProofs!InstancesAlwaysAgree` | `Spec => []InstancesAgree` |
| `CiteProofs!TextsAlwaysKept` | `Spec => []TextsKept` |
| `CiteProofs!MarkersAreOwn` | `Spec => []MarkersOwn` |
| `CiteProofs!ListsAlwaysAgree` | `Spec => []ListsAgree`, if no note that the walks go into has a list in it (`NoListsInNotes`) |
| `TreeBuilderStageProofs!ListFramesAreKept` | `Spec => []FramesKept` |
| `TreeBuilderStageProofs!TreeIsBuilt` | `Spec => []Built(builder)`, what `StackMirrorsTree` rests on |
| `TreeBuilderStageProofs!StackAlwaysMirrorsTree` | `Spec => []StackMirrorsTree` |

They hold for every value of the constants that satisfies `ConstantsAssumption`:
any number of modules, requests, templates, any limits, any page of any texts, any
number of tokens and any nesting.

*LuaInvoke.* `OrdinalsAgree` is not inductive: it says nothing of a state before
the miss. The strengthening, `NumberingInv`, is that the answers held for a
request are those of its calls 0 .. hostOrd - 1 and no others, that each of them
was expanded for that request, and that a recorded miss is the call hostOrd. A
run starts with all ordinals at 0, and a call that misses is the first of its
request to do so, because the ones before it were found. `Settles` follows: the
key an answer is stored under is the first that is free. Without `KeysApart` all
of it is false: the key of `preprocess('a#1')` is that of the second
`preprocess('a')`. `EachRoundLearns` rests on `MissesAreNew`: whatever the run that
has ended reports as missing (a title, a module, an id, a data page, an answer, an
argument) was asked of the host's tables at a time when they were as they are now,
and was not in them. So what the round stores is new, and the tables only grow.

*Expansion.* The invariant relates the counters to the stack: `depth` is the
number of activations that hold a node, `luaDepth` the number of answers, the
module scope the number of modules being answered (`Balanced`); each activation is
of a kind that may stand on the one below it, with the frame the code gives it
(`StackInv`); and each counter was below its limit when the activation was
pushed (`Limited`). The bounds on the recursion follow by counting.
`NoReentry` speaks of the stack and the loop check of one frame. Between them is
`Reentry`: the frame of every activation names each body that is open at it or
below (frames grow with the stack, and lose a scope only where the values of a call
are done and its body is entered), and the title of a call whose arguments are being
expanded is of none of the bodies below, unless a module's output is there too.

*Numbering.* First the chunk: `Progress` says of the pass of
`number_chunk_extensions` over the first k tokens of a chunk that the counters are
right and have only grown, that the tokens numbered have ids and fragments of their
own (or the ids they came with), and that each id taken is shown or is a phantom. It
holds at every k, since there is no least k at which it does not (`NumberOneOK` is the
step, for each way a token can be numbered). Then the walks. `WalkOK` says of each open
walk that the tokens offered to it (to be spliced in, or held as markers), and all of a
gated one, carry no id but one a module was handed; and that in a walk that is not
gated what is done has its ids, no two tokens the same. `Good` relates the walks:
a walk below one that is not gated is not gated, so that the chunks that will be
numbered are below the gates; no id is in two walks that are not gated; a fragment that
is in what the page's own walk has done is nowhere else, so that no later chunk numbers
it again; and every id that was taken is in a walk that is not gated or in one of the
ghosts. `Placed` is the one lemma about the stack, of a walk put at any depth with what
was above it gone; `Entered`, `Grown` and `LineEnded` are its three uses, and each
action one of those. The gates are needed: with the walk of a value not gated, its
tokens have ids when they are spliced in, by each use.

*WikiCache.* Four invariants, each on top of the one before. `TypeInv` is `TypeOK` with,
for each open handle, which file it has open. `WriterInv` says that outside the regime
`shared` at most one handle is between merging and renaming (`OneWriter`) and what it
has merged is its own manifest over the one on disk (`WriterOK`); with it a rename is
one step that replaces the manifest by a merge. `CurrentInv` says what makes of that the
step of the store, in `alone` and `apart`: what a handle has in memory and has not
changed is on disk as it is, and what it once removed and has not changed since is not
there (`Current`), so that merging all of its memory writes just what it has changed.
Where handles only add, what one has changed is in no other's memory and not on disk
(`AddsOnly`), which is why another's rename leaves `Current` as it was. `AloneInv` is
for a cache with one handle at a time: the entry of a pinned baseline in memory
describes the body on disk (`Faithful`), and the manifest on disk lags behind memory
only in ways a restart can live with (`Follows`).

*Compare.* `OracleFound` says of a page that renders what `OracleIsOfRevision` says
of one that is done. `Stalls` is what bounds the stalled renders: the pages begin in
their order (`InOrder`), so that those under way are among those `buffered` counts
and are at most `Jobs`; and the renders given up together with those that still may
be never pass `MaxStalled + Jobs - 1`, because each of them found the count below
the limit when it started.

*Cite.* `CiteInv` is three parts. `StackOK` says that every walk but the innermost
stands on an element with a text, which is what makes the element there when the
walk within it ends. `NotesInv` is `InstancesAgree` with the fact that only names are
looked up (`OnlyNames`): a note without a name is never found again, so a new note
is the last of its group and has the next number. The third, `TextOK`, is what makes
`TextsKept` inductive: a note that has no text yet has no use with one, and an
anonymous note that is used is new (`NamedIfDefined`).

`MarkersOwn` and `ListsAgree` relate the second walk to the first, of which nothing is
left but `use_ids` and `cuts`. The invariant has to say of a state what the walks have
passed and what they have not. A use that no list encloses is a place (`IsUse`), which
has a way down to it through the texts of notes (`Way`); walks follow ways
(`Chained`), and have passed a place (`Before`) just if it precedes the one they have
come to (`InOrder`, the lemma the rest hangs on: the text of a note precedes the
note). `CollectedSoFar` says that the first walk has collected the uses passed, each
once, in that order (`InPlace`); `AllCollected`, of the end of it, that these are all
there are; `TakenSoFar` that `next_use` is past the uses the second walk has passed
and before the others. So the use whose turn it is is the one at hand
(`TheNextUse`), as long as no use in a list came before, which the order of places
does not have. The way to a place takes the part of an induction over the nesting.

`ListsInv` adds the lists, which are numbered in the order of the page (`CutNo`). In
the first walk a use waits for the next list of its group, or is in the cut of the
first that came after it (`UseShown`), and the cuts are apart from each other and
from what waits (`CutsInv`); in the second, `cut_cursor` is the number of lists
passed, and what is out has the cuts of those (`OutLists`). That needs
`NoListsInNotes`. A `<references>` in a note takes what waits, the page's list goes
without it, and `ListsAgree`, which looks at the lists of the page, is false of
such a page (TLC finds one, of two elements); in a note that a list defines, it
is cut by the first walk only, and later lists are off by one. The texts of
`cite_page` have a list in a list, and none in a note.

*Token handlers.* `FramesKept` is about the list handler, but its frames are made from
what the three handlers before it hand over, and a list item with no bullets would
be a frame with none. So `HandlersInv` follows a page from the first handler to the
fourth. Of the one that is reading it says that what is read, held and made are
sequences of tokens (`PatcherTyped`, `PreTyped`, `QuoteTyped`, `ListTyped`), of those
that have not begun that they are as they began. The tokens are those over some set
of arguments that grows as tokens are put into tokens, because compound tokens nest as
deep as they like and there is no set of them all; every list item in it has bullets.
The chunks of a line of quotes are an odd number and those at even places, the quotes,
are not empty, whatever is balanced, converted and joined. The end tags
a frame holds are those of its bullets in order (`FrameOK`): an item keeps those of
the bullets it has in common with the last one and exchanges the others.
`CommonPrefix`, `TermNamed` and `ItemDone` are the lemmas about `do_list_item` that
say so.

*HTML5 tree builder.* That each open element is a child of the one below it, or is before
the table it could not be in, is not inductive, and the adoption agency is why: it takes
elements out of the stack, puts clones of them in and moves nodes, and what is above
them has to be where it was. `Built` has what that needs. `Linked`: the parent of a node
is the one that has it among its children, once, so that to move a node is to leave one
parent and come to another (`Attached`), and what a block holds can be given to the
new element (`ContentGiven`). `ParentBelow`: the parent of an open element is none of
those above it, so that what is moved is the parent of nothing further down.
`Structured`: a row or a body of a table is open only in what may hold it, so that the
block that is moved is never one of them (it stands on a formatting element, `AfeOK`,
or on what is no block), and nothing above the block was fostered from it.
Where a node goes is `PlaceFor`; that it may then be opened, `ElementBuilt`. A round
of the agency is three steps: the clones (`ClonesMade`, one element after the other),
the chain that they are put in with the block (`ChainBuilt`), the content
(`ContentGiven`). `AdoptTree` says what of the tree is left of all that, `AdoptedOpen`
that the stack the agency makes still mirrors it. The rest are one lemma for each
operator of the builder (`InBodyStartBuilt`, `TableStartBuilt`, `RowEndBuilt`, ...),
and `TreeStep` for a token. All of this is about the builder alone, whatever it reads
(`TreeProofs`); of the actions of `TreeBuilderStage` only `build` changes the builder
(`BuilderNext` in `TreeBuilderStageProofs`).

Only model-checked: the other invariants of `page_tree`, which compare what comes out
with the page as a whole, or the mode with the stack; and `EveryPageGetsARow`. Liveness
under fairness is beyond the prover. So are the library's induction theorems, which take
an operator as a parameter; the inductions here are by the least number at which a
property fails (`LeastNumber`, `UpTo`), of recursive functions that are defined over a
range of numbers (`ReopenedInTurn` and its like say that there is such a function).

## Where the code and its comments disagree

The five violation runs each check one statement of a comment that the code does
not keep (`findings` in `PROJECT.json`). Seen while modelling and not checked by a
run of their own:

- The styles of a chunk are distinct within the chunk: `numbered_styles` lives for one
  (`parser.rs:4159`), so two lines, or a line and the value of a parameter, number the
  same stylesheet twice.
- A ref in the text of a definition within `<references>` is collected
  (`cite.rs:1445`), and its id with it, but the second walk does not go into a
  `<references>`: the next `<ref>` of the page takes that id, and all behind it are off
  by one. `<references>{{#tag:ref|with <ref>y</ref>|name=a}}</references><ref name=a/>` is
  such a page; `ONLINE-PARITY.md:17106` says of a nested ref that it keeps its marker.
  `MarkersOwn` holds of all pages up to the first such ref, and excuses what is
  behind it.
- Replaced texts are kept by text, not by note (`cite.rs`): of two notes with the same
  text the lists show the markers of the one that was walked last.
- The group of a `<references>` is not trimmed where that of a `<ref>` is: a list of
  group ` g` shows nothing.
- `</dt>` with only a `dd` open (or the other way round) closes the whole stack as a
  stray `</p>` does (`modes.rs`, `in_body::end_tag`).
- `sol` of the stream patcher outlives the start of the line
  (`token_stream_patcher.rs:249`).
- `nested_table_count` of the list handler outlives its list (`list_handler.rs:491`):
  of the page `* {| {| * |} |} * {| |}`, a token a line, the last list is never taken up
  again when its table ends, and its `ul` and `li` are not closed. `ListsNest` excuses
  just that: a list in a table in a table in an item. Nor does the table count that
  itself ends a list, being on a new line: its end takes up the list around it, if
  there is one, before the table of that list has ended.
- The facts of a title that a run asks for are fetched for its call alone
  (`invoke.rs:677`), and `title_facts` takes what was resolved before the loop only
  (`invoke.rs:536`): each later call of the page that asks for the title fetches it and
  runs its module again, where `parser.rs:2347` speaks of "title facts already fetched
  this render" and `parser.rs:2351` of the re-fetches that the cache is to save.
  `PreloadedFactsKept` holds of what the preload resolved.
- The merge of a handle starts from all it has in memory, also what it only loaded or
  has long written, and its tombstones are its own (`cache.rs:411`). Two handles open on
  one entry, one removes it, the other writes its manifest: the entry is back, without
  a body, and if it is a pinned baseline it refuses every later `put` of another
  revision. `cache.rs:406` says this of "this handle's own fetches" only, and the test
  `a_merge_does_not_resurrect_a_removed_entry` asserts that "a removed entry must not
  come back" (`cache.rs:1062`); it passes because the body is gone. The other way round,
  tombstones last as long as the handle (`cache.rs:416`): a key it once removed is left
  out of every manifest it writes, also when another handle has put it since. In
  the regime `exclusive` both are violations of `StoreStep` without its premise.
- A `put` decides by the handle's memory whether it would replace a pinned baseline
  (`cache.rs:387`): a handle opened before another pinned the page overwrites the body
  under the entry, where `cache.rs:363` says that such an entry "is only replaced when
  the incoming body is for the *same* revision". `PinnedIsItself` is false in the
  regimes with two handles.
- Handles that write at the same time use one `index.json.tmp` (`cache.rs:430`): one
  renames it just after another has emptied it, and if that one dies then `index.json`
  stays truncated, and `open` fails. `cache.rs:429` says "Write-then-rename so a crash
  cannot leave a truncated manifest". `ManifestWhole` is false in the regime `shared`.
- A body is replaced in place before its entry (`cache.rs:349`); a crash in `remove`
  leaves an entry that refuses every later `put` (`cache.rs:336`).
- A stalled render counts for ever, also when it has ended (`harness.rs:2063`); a
  refresh removes the oracle its fallback would use (`harness.rs:1807`), also
  offline (`harness.rs:1651`).

## Not modelled

What is left of the parts that have order in them, in the order in which it would
be worth adding:

1. *DOM passes*: section wrapping, encapsulation ranges, style deduplication.
2. *Serializer*: separators, selective serialization over a diff.
3. *Refinement*: a numbering in document order that `Numbering` implements for pages
   without flattened text.
4. *Proofs*: `ListsAgree` of pages with lists in notes,
   once the property says what such a list shows.

The tokenizer, the Lua libraries, parser functions, attributes, links and media, and
the formatting of dates, numbers and entities compute values from values, most of
them strings; tests over examples say more about them than a model of their control.
