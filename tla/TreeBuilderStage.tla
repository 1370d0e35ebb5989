-------------------------- MODULE TreeBuilderStage --------------------------
(***************************************************************************)
(* The line-based handlers, one after the other, and then the tree builder *)
(* (tree_builder_stage.rs). Each reads the whole of what the one before    *)
(* has made of the page.                                                   *)
(***************************************************************************)
EXTENDS PageTree, TokenTypes, SequencesExt, FiniteSetsExt

CONSTANTS
    Alphabets       \* the pages: sets [tokens |-> of these, first |-> the first of these,
                    \* length |-> at most so many, from |-> the stage that first
                    \* changes them]

ASSUME AlphabetsAssumption ==
    \A a \in Alphabets :
        /\ a.tokens \subseteq ParsoidTokens
        /\ a.length \in Nat
        /\ a.from \in {"TokenStreamPatcher", "ListHandler", "Html5TreeBuilder"}

VARIABLES
    page,           \* the tokens of the page, for the properties
    stage,
    out,            \* what a handler has made; what it reads is the stream of PageTree
    \* TokenStreamPatcher
    nl_ws_meta_token_buf, wiki_table_nesting, sol, tpl_info_at_start,
    \* PreHandler
    state, tokens, curr_line_pre_toks, ws_tk_index,
    \* QuoteTransformer
    chunks, quote_on_any_enabled,
    \* ListHandler
    list_frame_stack, nested_table_count, in_t2529_mode, have_active_list_frame,
    on_any_enabled,
    \* ParagraphWrapper
    wrapper

patcher_vars == <<nl_ws_meta_token_buf, wiki_table_nesting, sol, tpl_info_at_start>>
pre_vars == <<state, tokens, curr_line_pre_toks, ws_tk_index>>
quote_vars == <<chunks, quote_on_any_enabled>>
list_vars == <<list_frame_stack, nested_table_count, in_t2529_mode,
               have_active_list_frame, on_any_enabled>>
vars == <<page, stage, stream, out, patcher_vars, pre_vars, quote_vars, list_vars, wrapper,
          tree_vars>>

Patcher == INSTANCE TokenStreamPatcher
Pre == INSTANCE PreHandler
Quoting == INSTANCE QuoteTransformer WITH on_any_enabled <- quote_on_any_enabled
Lists == INSTANCE ListHandler
Paragraphs == INSTANCE ParagraphWrapper

Stages == <<"TokenStreamPatcher", "PreHandler", "QuoteTransformer", "ListHandler",
            "ParagraphWrapper", "Html5TreeBuilder", "done">>
Following(s) == Stages[(CHOOSE k \in DOMAIN Stages : Stages[k] = s) + 1]

\* The template handler marks where what a template made begins and ends.
TemplatesEnd(toks) ==
    LET Marks(typeof, n) == Cardinality({k \in 1..n : IsMeta(toks[k], typeof)})
    IN  /\ \A n \in DOMAIN toks : Marks("mw:Transclusion/End", n) <= Marks("mw:Transclusion", n)
        /\ Marks("mw:Transclusion/End", Len(toks)) = Marks("mw:Transclusion", Len(toks))

-----------------------------------------------------------------------------
Init ==
    /\ \E a \in Alphabets : \E n \in 0..a.length :
           /\ page \in [1..n -> a.tokens] /\ stage = a.from
           /\ n > 0 => page[1] \in a.first
    /\ TemplatesEnd(page)
    /\ stream = [k \in DOMAIN page |-> At(page[k], k)] \o <<Eof>>
    /\ out = IF stage = "Html5TreeBuilder" THEN stream ELSE <<>>
    /\ Patcher!Init /\ Pre!Init /\ Quoting!Init /\ Lists!Init /\ Paragraphs!Init
    /\ Tree!Init

patch ==
    /\ stage = "TokenStreamPatcher" /\ Patcher!Next
    /\ UNCHANGED <<page, stage, pre_vars, quote_vars, list_vars, wrapper, tree_vars>>

find_pre ==
    /\ stage = "PreHandler" /\ Pre!Next
    /\ UNCHANGED <<page, stage, patcher_vars, quote_vars, list_vars, wrapper, tree_vars>>

quote ==
    /\ stage = "QuoteTransformer" /\ Quoting!Next
    /\ UNCHANGED <<page, stage, patcher_vars, pre_vars, list_vars, wrapper, tree_vars>>

list ==
    /\ stage = "ListHandler" /\ Lists!Next
    /\ UNCHANGED <<page, stage, patcher_vars, pre_vars, quote_vars, wrapper, tree_vars>>

wrap ==
    /\ stage = "ParagraphWrapper" /\ Paragraphs!Next
    /\ UNCHANGED <<page, stage, patcher_vars, pre_vars, quote_vars, list_vars, tree_vars>>

build ==
    /\ stage = "Html5TreeBuilder" /\ Tree!Next
    /\ UNCHANGED <<page, stage, out, patcher_vars, pre_vars, quote_vars, list_vars, wrapper>>

\* A handler has read all: what it has made goes to the next one. What was given
\* to the tree builder is kept, for the properties.
process ==
    /\ stage # "done" /\ stream = <<>>
    /\ stage' = Following(stage)
    /\ CASE stage' = "done" -> UNCHANGED <<stream, out>>
         [] stage' = "Html5TreeBuilder" -> stream' = out /\ UNCHANGED out
         [] OTHER -> stream' = out /\ out' = <<>>
    /\ UNCHANGED <<page, patcher_vars, pre_vars, quote_vars, list_vars, wrapper, tree_vars>>

Next == patch \/ find_pre \/ quote \/ list \/ wrap \/ build \/ process

Spec == Init /\ [][Next]_vars

-----------------------------------------------------------------------------
(* What the properties look at: the tokens without the compound ones around *)
(* them, and which tags are open before each of them.                       *)

IsCompound(t) == t.type \in {"List", "IndentPre", "EmptyLine"}

\* Tokens are nested as deep as there are tables, each in an item, and a pre.
Flat(toks) ==
    LET Opened(some) ==
            IF \A t \in Range(some) : ~IsCompound(t) THEN some
            ELSE FlattenSeq([k \in DOMAIN some |->
                     IF IsCompound(some[k]) THEN some[k].arg ELSE <<some[k]>>])
        flatter[n \in 0..(Len(page) + 3)] == IF n = 0 THEN toks ELSE Opened(flatter[n - 1])
    IN  flatter[Len(page) + 3]

Result == Flat(out)
Handled == stage = "ParagraphWrapper" /\ stream = <<>>

\* Of the tags with these names, each end tag ends the last one opened: the
\* starts and ends that belong together, and the starts left open.
Match(toks, names) ==
    FoldLeftDomain(
        LAMBDA acc, k :
            LET t == toks[k]
            IN  IF ~acc.nested \/ t.name \notin names \/ t.type \notin {"Tag", "EndTag"} THEN acc
                ELSE IF t.type = "Tag" THEN [acc EXCEPT !.open = Append(@, k)]
                ELSE IF acc.open # <<>> /\ toks[Last(acc.open)].name = t.name
                THEN [acc EXCEPT !.open = Front(@), !.pairs = @ \cup {<<Last(acc.open), k>>}]
                ELSE [acc EXCEPT !.nested = FALSE],
        [nested |-> TRUE, open |-> <<>>, pairs |-> {}], toks)

-----------------------------------------------------------------------------
TypeOK ==
    /\ stage \in Range(Stages)
    /\ wiki_table_nesting \in 0..Len(page) /\ nested_table_count \in 0..Len(page)
    /\ {sol, tpl_info_at_start, in_t2529_mode} \subseteq BOOLEAN
    /\ state \in {"Sol", "Pre", "PreCollect", "SolAfterPre", "MultilinePre", "Ignore"}
    /\ ws_tk_index \in -1..(Len(curr_line_pre_toks) - 1)
    /\ Len(chunks) % 2 = 1
    /\ wrapper.new_line_count \in 0..(2 * Len(page))
    /\ Tree!TypeOK

\* What is neither blank nor a newline is handed through all handlers, once
\* and in its order, however often it was held back, nested and unnested: it
\* is in the result by itself or as the tags made of it (all of `run`).
NothingLost ==
    Handled =>
        LET kept == SelectSeq(Result, LAMBDA t : t.at # 0 /\ ~is_whitespace_string(t))
            Places == FoldLeft(LAMBDA acc, t : IF acc # <<>> /\ Last(acc) = t.at THEN acc
                                               ELSE Append(acc, t.at), <<>>, kept)
            all == [k \in DOMAIN page |-> k]
        IN  Places = SelectSeq(all, LAMBDA k : ~is_whitespace_string(page[k]))

\* However the quotes of a line are mixed, <b> and <i> nest and are closed in
\* it, and a tag is marked as closed by the handler just when its end tag is
\* none the page has (convert_quotes_to_tags, mark_auto_inserted).
QuotesNest ==
    Handled =>
        LET r == Result
            m == Match(r, {"b", "i"})
        IN  /\ m.nested /\ m.open = <<>>
            /\ \A p \in m.pairs : (r[p[1]].arg = <<"autoEnd">>) = (r[p[2]].at = 0)

\* The tables that have begun and not ended when toks[k] comes.
TablesAround(toks, k) ==
    LET Count(type, j, n) == Cardinality({i \in j..n : Is(toks[i], type, "table")})
    IN  {j \in 1..k : /\ Is(toks[j], "Tag", "table")
                      /\ \A n \in j..k : Count("Tag", j, n) > Count("EndTag", j, n)}

\* From whatever bullets to whatever bullets the lines go, each list and item
\* is closed before the ones around it. All are closed, unless a table goes on to
\* the end of the page, or there was a list in a table that is in another table in
\* an item: such a list leaves nested_table_count raised, so that the list after it
\* is never taken up again when a table in it ends, although all tables end
\* (do_list_item, on_any, close_lists, on_end).
ListsNest ==
    Handled =>
        LET r == Result
            items == {"li", "dt", "dd"}
            m == Match(r, {"ul", "ol", "dl"} \cup items)
            Items == {k \in DOMAIN r : r[k].type = "Tag" /\ r[k].name \in items}
        IN  /\ m.nested
            /\ m.open # <<>> =>
                   \/ TablesAround(r, Len(r)) # {}
                   \/ \E i, k \in Items : \E p, q \in TablesAround(r, k) : i < p /\ p < q

\* The tokens of a frame are reached by an index that is never off its end:
\* the handler works on frames just while there are some, and the tags to be
\* closed are those of the bullets (get_list_frame_mut, pop_tags). A frame that
\* is not worked on holds back nothing that its list would lose at the end of
\* the page (on_end).
FramesKept == Lists!FramesKept

NoBlockInPre ==
    stage = "PreHandler" =>
        \A t \in Range(out) : t.type = "IndentPre" =>
            \A k \in 2..(Len(t.arg) - 1) :
                ~is_block_tag(t.arg[k]) /\ ~Is(t.arg[k], "Tag", "listItem")

\* No block tag comes to be in an indent-pre, in whatever line of it and with
\* whatever held before it, and no list item (gen_pre). Paragraphs are not
\* nested, have no block in them either and are closed, except for the one that
\* three newlines at the end of the page begin (open_p_tag, close_open_p_tag,
\* process_pending_nls).
ParagraphsNest ==
    /\ NoBlockInPre
    /\ Handled =>
           LET r == Result
               m == Match(r, {"p"})
           IN  /\ m.nested
               /\ \A p, q \in m.pairs : p[1] < q[1] => p[2] < q[1]
               /\ m.open # <<>> => /\ Len(m.open) = 1
                                   /\ \A k \in DOMAIN r : k > m.open[1] =>
                                         \/ r[k].type \in {"Nl", "Eof"}
                                         \/ Is(r[k], "SelfclosingTag", "br")
                                         \/ is_sol_transparent(r[k])
               /\ \A p \in m.pairs : \A k \in (p[1] + 1)..(p[2] - 1) : ~is_block_tag(r[k])

\* On a page without blocks all text is in a paragraph, wherever templates,
\* links and blank lines are between it.
TextWrapped ==
    Handled =>
        LET r == Result
            m == Match(r, {"p"})
            IsBlock(t) == \/ is_block_tag(t) /\ t.name # "p"
                          \/ Paragraphs!is_block_fragment(t)
        IN  (\A t \in Range(r) : ~IsBlock(t)) =>
                \A k \in DOMAIN r : r[k].type = "Str" /\ ~is_whitespace_string(r[k]) =>
                    \E p \in m.pairs : p[1] < k /\ k < p[2]

\* What a template made of a line, or of a part of it, is in one paragraph or
\* in none: no paragraph begins or ends in it (open_p_tag, close_open_p_tag).
TemplatesWhole ==
    Handled =>
        LET r == Result
        IN  \A i, j \in DOMAIN r :
                /\ i < j
                /\ IsMeta(r[i], "mw:Transclusion") /\ IsMeta(r[j], "mw:Transclusion/End")
                /\ \A k \in (i + 1)..(j - 1) : r[k].type # "Nl" /\ r[k].name # "meta"
                => \A k \in (i + 1)..(j - 1) : r[k].name # "p"

\* All text and all void elements given to the tree builder are in the tree once
\* and in their order, but for what was in a table and not in a cell of it
\* (insert_characters, flush_table_text, adoption_agency, flush_text).
TreeInOrder ==
    stage = "done" => Tree!TreeInOrder(Result)
=============================================================================
