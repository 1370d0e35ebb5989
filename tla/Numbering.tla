------------------------------ MODULE Numbering ------------------------------
(***************************************************************************)
(* How the extension tags of a page get their `about' ids and how the      *)
(* fragments built for them reach the tree (rustoid-core/src/pipeline/     *)
(* parser.rs).  A tag is numbered where it lands in the output and not     *)
(* where it is seen: the walk of a template's argument, of a branch, of a  *)
(* module's argument or of the answer to a module is gated, and the chunk  *)
(* its tokens are spliced into numbers them.  Tokens that are spliced may  *)
(* be spliced any number of times: a value by each use of the parameter,   *)
(* what a module was handed (as strip markers) wherever the module likes.  *)
(*                                                                         *)
(* Wikitext is arbitrary, as in Expansion, whose limits and refusals are   *)
(* left out here.  The ids of transclusions come from the same counter and *)
(* are left out too: they only make gaps.                                  *)
(***************************************************************************)
EXTENDS Integers, Sequences, Functions

CONSTANTS
    Tags,           \* the extensions that occur, of AllTags
    MaxTokens,      \* bound: tokens walked on a page, its templates included
    MaxNesting      \* bound: activations open at a time

\* <templatestyles>, <indicator>, <ref> with a note of plain text, and <pre> for
\* the other extensions numbered as tokens.  A note with calls of its own is
\* parsed as a page is and left out, as are the extensions built in later passes.
AllTags == {"style", "indicator", "ref", "pre"}

ASSUME ConstantsAssumption ==
    /\ Tags \subseteq AllTags
    /\ MaxTokens \in Nat /\ MaxNesting \in Nat

VARIABLES
    stack,          \* the walks that are open, innermost last
    tokens,         \* tokens walked so far
    about,          \* the document's counter, the last id taken
    ext_next_id,    \* the next fragment id
    pending_styles, \* fragment ids of resolved, unnumbered stylesheets
    ext_fragments,  \* fragment id -> the id its node carries, 0 for none
    phantom,        \* ghost: ids a <ref> took and does not show
    page,           \* the tokens the page's walk returned
    discarded,      \* ghost: ids in text that was flattened for a name
    handed          \* ghost: ids in text that was handed to a module

counters == <<about, ext_next_id, pending_styles, ext_fragments, phantom>>
ghosts == <<discarded, handed>>
vars == <<stack, tokens, counters, page, ghosts>>

-----------------------------------------------------------------------------
(* Tokens.  A style or an indicator that is still a tag has no fragment; a *)
(* line break is the only token that is no extension.                      *)

Item(kind, frag, id) == [kind |-> kind, frag |-> frag, about |-> id]
Tag(kind) == Item(kind, 0, 0)
Newline == Tag("nl")

IsPlaceholder(it) == it.kind \in {"style", "indicator"} /\ it.frag # 0

\* The id a token shows: a stylesheet's is on the node in its fragment.
AboutOf(it, fragments) ==
    IF it.kind = "style" /\ it.frag \in DOMAIN fragments
    THEN fragments[it.frag]
    ELSE it.about

IdsIn(items, fragments) ==
    {AboutOf(items[i], fragments) : i \in 1..Len(items)} \ {0}

-----------------------------------------------------------------------------
(* The numbering of one chunk, in source order.                            *)

Numbers(items) == [items |-> items, about |-> about, next |-> ext_next_id,
                   pending |-> pending_styles, fragments |-> ext_fragments,
                   phantom |-> phantom, seen |-> {}]

Keep(n, it) == [n EXCEPT !.items = Append(@, it)]

With(f, x, y) == [z \in DOMAIN f \union {x} |-> IF z = x THEN y ELSE f[z]]

\* A stylesheet that is pending is numbered; one that is not was numbered by
\* the chunk of a nested walk, unless this very pass has met it before: then
\* it is another occurrence, with a fragment and an id of its own.
\*
\* The first two operators are number_style_placeholder without that rule and
\* with the fragment id not taken.  Like them, NumberAgain, GateLeftOpen and
\* number_style_placeholders below vary the definition after them the way a
\* mistake in the code would; no action uses them.
NumberOnlyPending(n, it) ==
    IF it.frag \in n.pending
    THEN [n EXCEPT !.items = Append(@, it), !.about = @ + 1,
                   !.pending = @ \ {it.frag},
                   !.fragments = With(@, it.frag, n.about + 1),
                   !.seen = @ \union {it.frag}]
    ELSE Keep(n, it)
NumberSameFragment(n, it) ==
    IF it.frag \notin n.pending /\ it.frag \in n.seen
    THEN [n EXCEPT !.items = Append(@, [it EXCEPT !.frag = n.next]),
                   !.about = @ + 1,
                   !.fragments = With(@, n.next, n.about + 1)]
    ELSE [NumberOnlyPending(n, it) EXCEPT !.seen = @ \union {it.frag}]
number_style_placeholder(n, it) ==
    IF it.frag \notin n.pending /\ it.frag \in n.seen
    THEN [n EXCEPT !.items = Append(@, [it EXCEPT !.frag = n.next]),
                   !.about = @ + 1, !.next = @ + 1,
                   !.fragments = With(@, n.next, n.about + 1)]
    ELSE IF it.frag \in n.pending
    THEN [n EXCEPT !.items = Append(@, it), !.about = @ + 1,
                   !.pending = @ \ {it.frag},
                   !.fragments = With(@, it.frag, n.about + 1),
                   !.seen = @ \union {it.frag}]
    ELSE [n EXCEPT !.items = Append(@, it), !.seen = @ \union {it.frag}]

\* An indicator, and an extension the tree builder shows, keep the id they
\* have.
NumberAgain(n, it) ==
    [Keep(n, [it EXCEPT !.about = n.about + 1]) EXCEPT !.about = @ + 1]
number_in_place(n, it) ==
    IF it.about # 0 THEN Keep(n, it)
    ELSE [Keep(n, [it EXCEPT !.about = n.about + 1]) EXCEPT !.about = @ + 1]

\* A <ref> below the page's own walk takes a second id that nothing shows.
number_ref(n, it) ==
    IF it.about # 0 \/ Len(stack) = 1 THEN number_in_place(n, it)
    ELSE [number_in_place(n, it) EXCEPT !.about = @ + 1,
                                        !.phantom = @ \union {n.about + 2}]

number_style_placeholders(n, it) ==
    IF it.kind = "style" THEN number_style_placeholder(n, it)
    ELSE Keep(n, it)
NumberOne(n, it) ==
    CASE it.kind = "style" -> number_style_placeholder(n, it)
      [] it.kind \in {"indicator", "pre"} -> number_in_place(n, it)
      [] it.kind = "ref" -> number_ref(n, it)
      [] it.kind = "nl" -> Keep(n, it)

number_chunk_extensions(items) ==
    LET numbered[k \in 0..Len(items)] ==
            IF k = 0 THEN Numbers(<<>>) ELSE NumberOne(numbered[k - 1], items[k])
    IN numbered[Len(items)]

-----------------------------------------------------------------------------
(* Walks.  `rest' is what is left of tokens that were spliced in, `out' the *)
(* chunk being walked, `done' the chunks before it; `value' is what the    *)
(* frame's parameter stands for, `held' what the text may hold as markers. *)

Kinds == {"page", "field", "value", "body", "branch", "module", "argument",
          "answer", "output"}

Walk(kind, gated, value, held) ==
    [kind |-> kind, gated |-> gated, rest |-> <<>>, out |-> <<>>,
     done |-> <<>>, value |-> value, held |-> held]

Top == stack[Len(stack)]
Below == SubSeq(stack, 1, Len(stack) - 1)
In(kind) == stack # <<>> /\ Top.kind = kind
Walking == stack # <<>> /\ Top.kind # "module"

\* Where any token may come next.
Ready == Walking /\ Top.rest = <<>> /\ tokens < MaxTokens
NextToken == tokens' = tokens + 1

Update(field, x) == [stack EXCEPT ![Len(stack)][field] = x]
Deeper == Len(stack) < MaxNesting
Enter(walk) == stack' = Append(stack, walk)

Init ==
    /\ stack = <<Walk("page", FALSE, <<>>, {})>>
    /\ tokens = 0
    /\ about = 0 /\ ext_next_id = 1
    /\ pending_styles = {} /\ ext_fragments = <<>>
    /\ page = <<>>
    /\ phantom = {} /\ discarded = {} /\ handed = {}

\* The chunk that ends here, numbered unless the walk is gated.
Ended == IF Top.gated THEN Numbers(Top.out)
         ELSE number_chunk_extensions(Top.out)

Counters(n) ==
    /\ about' = n.about /\ ext_next_id' = n.next
    /\ pending_styles' = n.pending /\ ext_fragments' = n.fragments
    /\ phantom' = n.phantom

\* What the walk returns when its last chunk ends.
Result == Top.done \o Ended.items

\* The tokens of a nested walk belong to the chunk of the walk below it.
Spliced(stk, items) == [stk EXCEPT ![Len(stk)].out = @ \o items]

-----------------------------------------------------------------------------
(* One token of a chunk. *)

EndOfLine(rest) ==
    /\ stack' = [stack EXCEPT ![Len(stack)] =
                    [Top EXCEPT !.rest = rest, !.out = <<Newline>>,
                                !.done = Result]]
    /\ Counters(Ended)

Emit(rest, it) ==
    stack' = [stack EXCEPT ![Len(stack)] =
                 [Top EXCEPT !.rest = rest, !.out = Append(@, it)]]

\* A tag of a stylesheet or of an indicator is resolved where it is seen.
expand_one_templatestyles(rest) ==
    /\ Emit(rest, Item("style", ext_next_id, 0))
    /\ ext_next_id' = ext_next_id + 1
    /\ pending_styles' = pending_styles \union {ext_next_id}
    /\ UNCHANGED <<about, ext_fragments, phantom>>

expand_one_indicator(rest) ==
    /\ Emit(rest, Item("indicator", ext_next_id, 0))
    /\ ext_next_id' = ext_next_id + 1
    /\ ext_fragments' = With(ext_fragments, ext_next_id, 0)
    /\ UNCHANGED <<about, pending_styles, phantom>>

Token(rest, it) ==
    \/ it.kind = "nl" /\ EndOfLine(rest)
    \/ it = Tag("style") /\ expand_one_templatestyles(rest)
    \/ it = Tag("indicator") /\ expand_one_indicator(rest)
    \/ IsPlaceholder(it) /\ Emit(rest, it) /\ UNCHANGED counters
    \/ it.kind \in {"ref", "pre"} /\ Emit(rest, it) /\ UNCHANGED counters

\* A token of the text itself, a tag or a line break.
Written(it) ==
    /\ Ready /\ NextToken
    /\ Token(<<>>, it)
    /\ UNCHANGED <<page, ghosts>>

\* A token that was spliced in.
Again ==
    /\ Walking /\ Top.rest # <<>>
    /\ Token(Tail(Top.rest), Head(Top.rest))
    /\ UNCHANGED <<tokens, page, ghosts>>

\* A use of the parameter: its value's tokens, as they are, every time. The walk of
\* its own that the code makes for them is part of this one: it only gives some ids
\* out in another order.
Parameter ==
    /\ Ready /\ Top.value # <<>> /\ NextToken
    /\ stack' = Update("rest", Top.value)
    /\ UNCHANGED <<counters, page, ghosts>>

\* A strip marker in a module's text.
Marker ==
    /\ Ready /\ NextToken
    /\ \E it \in Top.held : stack' = Update("rest", <<it>>)
    /\ UNCHANGED <<counters, page, ghosts>>

-----------------------------------------------------------------------------
(* Template calls. *)

\* A value without a call or a reference stays as it is written; its tags are
\* resolved where it is used.
WrittenValues == {<<>>} \union {<<Tag(k)>> : k \in Tags}
                        \union {<<it>> : it \in Top.held}

Call ==
    /\ Ready /\ Deeper /\ NextToken
    /\ \E v \in WrittenValues : Enter(Walk("body", Top.gated, v, {}))
    /\ UNCHANGED <<counters, page, ghosts>>

\* Any other value is expanded first, in the caller's frame.
GateLeftOpen == Top.gated
GateOfValue == TRUE

ExpandValue ==
    /\ Ready /\ Deeper /\ NextToken
    /\ Enter(Walk("value", GateOfValue, Top.value, Top.held))
    /\ UNCHANGED <<counters, page, ghosts>>

EndValue ==
    /\ In("value") /\ Top.rest = <<>>
    /\ stack' = Append(Below,
                       Walk("body", Below[Len(Below)].gated, Result, {}))
    /\ Counters(Ended)
    /\ UNCHANGED <<tokens, page, ghosts>>

\* The branch of a parser function, in the caller's frame.
Branch ==
    /\ Ready /\ Deeper /\ NextToken
    /\ Enter(Walk("branch", TRUE, Top.value, Top.held))
    /\ UNCHANGED <<counters, page, ghosts>>

\* The target of a call, or an argument of a parser function that is read for
\* its text: walked like any other text, then only its characters are kept.
Field ==
    /\ Ready /\ Deeper /\ NextToken
    /\ Enter(Walk("field", Top.gated, Top.value, Top.held))
    /\ UNCHANGED <<counters, page, ghosts>>

EndField ==
    /\ In("field") /\ Top.rest = <<>>
    /\ stack' = Below
    /\ Counters(Ended)
    /\ discarded' = discarded \union IdsIn(Result, Ended.fragments)
    /\ UNCHANGED <<tokens, page, handed>>

EndSplice ==
    /\ In("body") \/ In("branch")
    /\ Top.rest = <<>>
    /\ stack' = Spliced(Below, Result)
    /\ Counters(Ended)
    /\ UNCHANGED <<tokens, page, ghosts>>

-----------------------------------------------------------------------------
(* Modules.  What a module is handed holds a strip marker for every        *)
(* placeholder and every extension tag; its output is text with markers in *)
(* any number and any order.                                               *)

Extensions(items) == {items[i] : i \in 1..Len(items)} \ {Newline}

Invoke ==
    /\ Ready /\ Deeper /\ NextToken
    /\ Enter(Walk("module", Top.gated, Top.value, Top.held))
    /\ UNCHANGED <<counters, page, ghosts>>

InModule == In("module") /\ tokens < MaxTokens /\ Deeper

\* An argument is text of the caller, with the caller's parameter.
ReadArgument ==
    /\ InModule /\ NextToken
    /\ Enter(Walk("argument", TRUE, Top.value, Below[Len(Below)].held))
    /\ UNCHANGED <<counters, page, ghosts>>

\* A request for a parser function is numbered at once, unless it is `#tag'.
GateOfAnswer(deferred) == Top.gated \/ deferred

Request ==
    /\ InModule /\ NextToken
    /\ \E deferred \in BOOLEAN :
          Enter(Walk("answer", GateOfAnswer(deferred), <<>>, Top.held))
    /\ UNCHANGED <<counters, page, ghosts>>

render_markers ==
    /\ In("argument") \/ In("answer")
    /\ Top.rest = <<>>
    /\ stack' = [Below EXCEPT ![Len(Below)].held = @ \union Extensions(Result)]
    /\ Counters(Ended)
    /\ handed' = handed \union IdsIn(Result, Ended.fragments)
    /\ UNCHANGED <<tokens, page, discarded>>

Return ==
    /\ In("module") /\ Deeper
    /\ Enter(Walk("output", Top.gated, <<>>, Top.held))
    /\ UNCHANGED <<tokens, counters, page, ghosts>>

EndOutput ==
    /\ In("output") /\ Top.rest = <<>>
    /\ stack' = Spliced(SubSeq(stack, 1, Len(stack) - 2), Result)
    /\ Counters(Ended)
    /\ UNCHANGED <<tokens, page, ghosts>>

EndPage ==
    /\ In("page")
    /\ stack' = <<>>
    /\ page' = Result
    /\ Counters(Ended)
    /\ UNCHANGED <<tokens, ghosts>>

Next ==
    \/ \E k \in Tags \union {"nl"} : Written(Tag(k))
    \/ Again \/ Parameter \/ Marker
    \/ Call \/ ExpandValue \/ EndValue \/ Branch \/ Field \/ EndField
    \/ EndSplice
    \/ Invoke \/ ReadArgument \/ Request \/ render_markers \/ Return
    \/ EndOutput
    \/ EndPage

Spec == Init /\ [][Next]_vars

-----------------------------------------------------------------------------
(* Properties. *)

Items == [kind : Tags \union {"nl"}, frag : 0..(ext_next_id - 1), about : 0..about]

\* Every part of the state is of its kind: no token names a fragment or an id
\* that was not allocated, and a stylesheet is either pending or built.
TypeOK ==
    /\ tokens \in 0..MaxTokens /\ about \in Nat /\ ext_next_id \in Nat \ {0}
    /\ \A i \in 1..Len(stack) :
          LET w == stack[i] IN
          /\ w.kind \in Kinds /\ w.gated \in BOOLEAN
          /\ \A s \in {w.rest, w.out, w.done, w.value} : Range(s) \subseteq Items
          /\ w.held \subseteq Items
    /\ pending_styles \union DOMAIN ext_fragments = 1..(ext_next_id - 1)
    /\ pending_styles \intersect DOMAIN ext_fragments = {}
    /\ Range(page) \subseteq Items
    /\ phantom \union discarded \union handed \subseteq 1..about

Numbered(it) == it.kind = "nl" \/ AboutOf(it, ext_fragments) # 0

\* Behind a line break of a walk that is not gated nothing waits for its id,
\* whatever was spliced in.
NumberedBehind ==
    \A i \in 1..Len(stack) :
        ~stack[i].gated =>
            \A j \in 1..Len(stack[i].done) : Numbered(stack[i].done[j])

Finished == stack = <<>>
ShownTwice(i, j) == AboutOf(page[i], ext_fragments) = AboutOf(page[j], ext_fragments)

\* Every extension of the finished page has an id, and only an id that was
\* taken before a module was handed the tag can be shown by two of them. No
\* stylesheet lost its fragment to another occurrence of it: the tree builder
\* takes a fragment away with its first placeholder.
IdsDistinct ==
    Finished =>
        \A i, j \in {n \in 1..Len(page) : page[n] # Newline} :
            /\ Numbered(page[i])
            /\ i # j /\ ShownTwice(i, j)
                 => page[i].about \in handed
            /\ i # j /\ page[i].kind = "style" /\ page[j].kind = "style"
                 => page[i].frag # page[j].frag

\* Every id that was taken is shown on the page, or is the second one of a
\* <ref>, or was taken in text of which only the characters were kept, or that
\* a module was handed.
IdsAccounted ==
    Finished => 1..about = IdsIn(page, ext_fragments) \union phantom
                             \union discarded \union handed
=============================================================================
