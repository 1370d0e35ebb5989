-------------------------- MODULE Html5TreeBuilder --------------------------
(***************************************************************************)
(* Tokens become a tree (tree_builder_html.rs, with the insertion modes of *)
(* modes.rs and dispatcher.rs). Any tag may come at any time: the modes    *)
(* say what it closes and opens first, and where it goes.                  *)
(***************************************************************************)
EXTENDS TokenTypes, HtmlTree

VARIABLES
    stream,             \* the tokens still to be read
    builder,
    text_buffer,        \* text not given to the builder yet
    in_transclusion, table_depth

tree_vars == <<builder, text_buffer, in_transclusion, table_depth>>

NoText == [held |-> <<>>, nonspace |-> FALSE]

Init ==
    /\ builder = NewBuilder
    /\ text_buffer = NoText
    /\ in_transclusion = FALSE
    /\ table_depth = 0

-----------------------------------------------------------------------------
(* The adoption agency: a formatting element is closed that has a block     *)
(* open in it. The block is moved out, and what it holds gets a formatting  *)
(* element of its own.                                                      *)

special == {"html", "div", "blockquote", "ul", "ol", "dl", "li", "dt", "dd", "p", "pre",
            "table", "tbody", "tr", "td", "caption", "style"}

any_other_end_tag(b, name) ==
    LET k == Highest({j \in DOMAIN b.stack : Name(b, b.stack[j]) \in special \union {name}})
    IN  IF k = 0 \/ Name(b, b.stack[k]) # name THEN NoResult(b)
        ELSE [b EXCEPT !.stack = SubSeq(@, 1, k - 1), !.result = b.stack[k]]

\* The element at the place k of the stack, between the two, from the inmost
\* outwards: it is cloned if it is formatting itself and near enough to the block
\* at fb, and is formatting no longer if it is not. clones are those made so far,
\* the outmost first; acc.bookmark is what the new element is active behind.
CloneBetween(acc, fb, k) ==
    LET b == acc.b
        node == b.stack[k]
        new == NewNode(b, Name(b, node), b.dom[node].tag, <<>>)
        clone == Newest(new)
    IN  IF node \in Range(b.afe) /\ fb - k <= 3
        THEN [b |-> afe_replace(new, node, clone),
              clones |-> <<clone>> \o acc.clones,
              bookmark |-> IF acc.clones = <<>> THEN clone ELSE acc.bookmark]
        ELSE [acc EXCEPT !.b = afe_remove(b, node)]

\* As if the new element were put where the old one was.
InPlaceOfOld(stack, f, fb, clones, adopted) ==
    SubSeq(stack, 1, f - 1) \o <<adopted>> \o clones \o SubSeq(stack, fb, Len(stack))

\* Of the elements between the two only the clones stay open, and the new element
\* comes to be in the block.
AdoptedStack(stack, f, fb, clones, adopted) ==
    SubSeq(stack, 1, f - 1) \o clones \o <<stack[fb], adopted>>
        \o SubSeq(stack, fb + 1, Len(stack))

\* Each of these nodes comes to be in the one before it.
Chained(b, chain) ==
    LET under[k \in DOMAIN chain] ==
            IF k = 1 THEN b ELSE attach_under(under[k - 1], chain[k - 1], chain[k])
    IN  under[Len(chain)]

\* The new element gets all that the block held.
GiveContent(b, block) ==
    reparent_children(attach_under(b, block, Newest(b)), block, Newest(b))

\* It is active where the clones begin, or where the old one was.
AdoptedActive(afe, bookmark, fmt, adopted) ==
    RemoveFirst(InsertAt(afe, CHOOSE k \in 2..(Len(afe) + 1) : afe[k - 1] = bookmark, adopted),
                fmt)

\* f and fb are the places of the formatting element and the block on the stack.
Adopt(b, f, fb) ==
    LET fmt == b.stack[f]
        block == b.stack[fb]
        cloned[k \in (f + 1)..fb] ==
            IF k = fb THEN [b |-> b, clones |-> <<>>, bookmark |-> fmt]
            ELSE CloneBetween(cloned[k + 1], fb, k)
        between == cloned[f + 1]
        chain == Append(between.clones, block)
        \* The outmost goes where the formatting element was.
        place == appropriate_place(between.b, b.stack[f - 1])
        moved == Chained(Attach(between.b, place.parent, place.pos, chain[1]), chain)
        given == GiveContent(NewNode(moved, Name(b, fmt), b.dom[fmt].tag, <<>>), block)
        adopted == Newest(given)
    IN  [given EXCEPT !.afe = AdoptedActive(@, between.bookmark, fmt, adopted),
                      !.stack = AdoptedStack(@, f, fb, between.clones, adopted)]

\* One round: over says that it was the last.
AdoptionRound(acc, subject) ==
    LET b == acc.b
        fmt == find_element_by_name(b, subject)
        f == StackIndex(b, fmt)
        blocks == {k \in (f + 1)..Len(b.stack) : Name(b, b.stack[k]) \in special}
        Over(b1) == [b |-> b1, over |-> TRUE]
    IN  CASE acc.over -> acc
          [] ~acc.over /\ fmt = 0 -> Over(any_other_end_tag(b, subject))
          [] ~acc.over /\ fmt # 0 /\ ~IsOpen(b, fmt) -> Over(NoResult(afe_remove(b, fmt)))
          [] OTHER ->
                IF ~is_uid_in_scope(b, fmt) THEN Over(NoResult(b))
                ELSE IF blocks = {}
                THEN Over([afe_remove(b, fmt) EXCEPT !.stack = SubSeq(@, 1, f - 1), !.result = fmt])
                ELSE IF f = 1 THEN Over(NoResult(afe_remove(b, fmt)))
                ELSE [acc EXCEPT !.b = Adopt(b, f, Min(blocks))]

AdoptionLoop(b, subject) ==
    LET rounds[n \in 0..8] ==
            IF n = 0 THEN [b |-> b, over |-> FALSE] ELSE AdoptionRound(rounds[n - 1], subject)
    IN  IF rounds[8].over THEN rounds[8].b ELSE NoResult(rounds[8].b)

adoption_agency(b, subject) ==
    IF CurrentName(b) = subject /\ Current(b) \notin Range(b.afe) THEN pop(b)
    ELSE AdoptionLoop(b, subject)

-----------------------------------------------------------------------------
(* Modes.                                                                   *)

switch_mode(b, mode) == [b EXCEPT !.mode = mode]
switch_and_save(b, mode) == [b EXCEPT !.original_mode = b.mode, !.mode = mode]
restore_mode(b) ==
    IF b.original_mode = "None" THEN b
    ELSE [b EXCEPT !.mode = b.original_mode, !.original_mode = "None"]

\* What an open element says about the mode; the root stands for a body.
ModeOf(name) ==
    CASE name = "td" -> "InCell"
      [] name = "tr" -> "InRow"
      [] name = "tbody" -> "InTableBody"
      [] name = "caption" -> "InCaption"
      [] name = "table" -> "InTable"
      [] OTHER -> "None"

appropriate_mode(b) ==
    LET k == Highest({j \in 2..Len(b.stack) : ModeOf(Name(b, b.stack[j])) # "None"})
    IN  IF k = 0 THEN "InBody" ELSE ModeOf(Name(b, b.stack[k]))

\* As if a table were never in another.
ResetToBody(b) == switch_mode(b, "InBody")

reset(b) == switch_mode(b, appropriate_mode(b))

\* Text in a table waited for what comes after it; blanks may stay there.
flush_table_text(b) ==
    LET pending == b.pending_table_characters
        fostering == \E k \in DOMAIN pending : pending[k].nonspace
        inserted[k \in 0..Len(pending)] ==
            IF k = 0 THEN [b EXCEPT !.pending_table_characters = <<>>, !.foster_parenting = fostering]
            ELSE insert_characters(inserted[k - 1], pending[k].held)
    IN  IF b.mode # "InTableText" THEN b
        ELSE [inserted[Len(pending)] EXCEPT !.foster_parenting = FALSE]

block_start_tags == {"div", "blockquote", "ul", "ol", "dl", "p", "pre"}
list_item_tags == {"li", "dt", "dd"}
formatting_tags == {"a", "b", "i"}
table_part_tags == {"caption", "tbody", "td", "tr"}
head_tags == {"link", "meta", "style"}
void_tags == {"link", "meta", "br"}

\* The list item that a new one of this name ends.
ClosedByItem(b, name) ==
    LET Ends(item) == item = name \/ (name # "li" /\ item \in {"dd", "dt"})
        k == Highest({j \in DOMAIN b.stack :
                        LET open == Name(b, b.stack[j])
                        IN  Ends(open) \/ open \in special \ {"div", "p"}})
    IN  IF k > 0 /\ Ends(Name(b, b.stack[k])) THEN Name(b, b.stack[k]) ELSE "none"

InBodyStart(b, name, tag) ==
    CASE name \in head_tags \ void_tags -> insert_element(b, name, tag)
      [] name \in head_tags \intersect void_tags -> insert_void(b, name, tag, <<tag>>)
      [] name \in block_start_tags -> insert_element(close_p_in_button_scope(b), name, tag)
      [] name \in list_item_tags ->
            LET item == ClosedByItem(b, name)
                ended == IF item = "none" THEN b ELSE generate_implied_end_tags_and_pop(b, item)
            IN  insert_element(close_p_in_button_scope(ended), name, tag)
      [] name \in formatting_tags ->
            afe_push(insert_element(reconstruct_afe(b), name, tag))
      [] name = "table" ->
            insert_element(switch_mode(close_p_in_button_scope(b), "InTable"), name, tag)
      [] name \in table_part_tags -> NoResult(b)
      [] name = "br" -> insert_void(reconstruct_afe(b), name, tag, <<tag>>)
      [] OTHER -> insert_element(reconstruct_afe(b), name, tag)

\* An end tag that has no paragraph to end makes one.
EndOfParagraph(b) ==
    generate_implied_end_tags_and_pop(
        IF is_in_button_scope(b, "p") THEN b ELSE pop(insert_element(b, "p", 0)), "p")

InBodyEnd(b, name) ==
    CASE name \in block_start_tags \ {"p"} ->
            IF is_in_scope(b, name) THEN generate_implied_end_tags_and_pop(b, name)
            ELSE NoResult(b)
      [] name = "p" -> EndOfParagraph(b)
      [] name \in list_item_tags ->
            IF \/ is_in_list_scope(b, name)
               \/ name = "dd" /\ is_in_scope(b, "dt")
               \/ name = "dt" /\ is_in_scope(b, "dd")
            THEN generate_implied_end_tags_and_pop(b, name)
            ELSE NoResult(b)
      [] name \in formatting_tags -> adoption_agency(b, name)
      [] OTHER -> any_other_end_tag(b, name)

InBodyCharacters(b, text) == insert_characters(reconstruct_afe(b), text.held)

\* As if the cell were left with what was active in it.
LeaveCellOnly(b) == switch_mode(generate_implied_end_tags(b, "none"), "InRow")

close_the_cell(b) ==
    switch_mode(clear_to_marker(generate_implied_end_tags(b, "none")), "InRow")

\* Whatever a table must not hold goes before it.
table_modes == {"InTable", "InTableBody", "InRow"}
Fostering(b) == [b EXCEPT !.foster_parenting = b.mode \in table_modes]
Fostered(b) == [b EXCEPT !.foster_parenting = FALSE]

-----------------------------------------------------------------------------
(* The dispatcher. Many a tag only ends what is open and is then looked at  *)
(* again, in the mode that follows: a cell's in that of a row, and so on    *)
(* outwards, and what had to be opened first leads inwards again.           *)

\* The tags a mode does not leave to that of a body.
OwnStarts(mode) ==
    CASE mode = "InBody" -> {}
      [] mode \in table_modes -> table_part_tags \union {"table", "style"}
      [] OTHER -> table_part_tags
OwnEnds(mode) == IF mode = "InBody" THEN {} ELSE table_part_tags \union {"table"}

ClearedTo(b, name) == clear_stack_back(b, {name, "html"})

BodyRulesStart(b, name, tag) == Fostered(InBodyStart(Fostering(b), name, tag))
BodyRulesEnd(b, name) == Fostered(InBodyEnd(Fostering(b), name))

CellInRow(b, tag) ==
    insert_marker(insert_element(switch_mode(ClearedTo(b, "tr"), "InCell"), "td", tag))

\* A row, or a cell that brings its row.
PartInBody(b, name, tag) ==
    LET InRow(row) == insert_element(switch_mode(ClearedTo(b, "tbody"), "InRow"), "tr", row)
    IN  IF name = "tr" THEN InRow(tag) ELSE CellInRow(InRow(0), tag)

\* A table in the structure of another ends that one, and is looked at again in
\* the mode of what is around it: another table perhaps.
TableInTable(b, tag) ==
    LET Ended(b1) == IF b1.mode \in table_modes /\ is_in_table_scope(b1, "table")
                     THEN reset(pop_all_up_to_names(b1, {"table"}))
                     ELSE b1
        around[n \in 0..Len(b.stack)] == IF n = 0 THEN b ELSE Ended(around[n - 1])
        outside == around[Len(b.stack)]
    IN  IF outside.mode \in table_modes THEN NoResult(outside)
        ELSE BodyRulesStart(outside, "table", tag)

TableStart(b, name, tag) ==
    LET Insert(b1, mode) == insert_element(switch_mode(ClearedTo(b1, "table"), mode), name, tag)
    IN  CASE name = "caption" -> Insert(insert_marker(b), "InCaption")
          [] name = "tbody" -> Insert(b, "InTableBody")
          [] name \in {"td", "tr"} ->
                PartInBody(insert_element(switch_mode(ClearedTo(b, "table"), "InTableBody"),
                                          "tbody", 0),
                           name, tag)
          [] name = "table" -> TableInTable(b, tag)
          [] OTHER -> insert_element(b, name, tag)

CaptionStart(b, name, tag) ==
    IF ~is_in_table_scope(b, "caption") THEN NoResult(b)
    ELSE TableStart(switch_mode(clear_to_marker(pop_all_up_to_names(b, {"caption"})), "InTable"),
                    name, tag)

TableBodyStart(b, name, tag) ==
    CASE name \in {"tr", "td"} -> PartInBody(b, name, tag)
      [] OTHER ->
            IF is_in_table_scope(b, "tbody")
            THEN TableStart(switch_mode(pop(ClearedTo(b, "tbody")), "InTable"), name, tag)
            ELSE NoResult(b)

RowStart(b, name, tag) ==
    CASE name = "td" -> CellInRow(b, tag)
      [] OTHER ->
            IF is_in_table_scope(b, "tr")
            THEN TableBodyStart(switch_mode(pop(ClearedTo(b, "tr")), "InTableBody"), name, tag)
            ELSE NoResult(b)

CellStart(b, name, tag) ==
    IF ~is_in_table_scope(b, "td") THEN NoResult(b) ELSE RowStart(close_the_cell(b), name, tag)

\* Text that waited is dealt with before any tag.
Resumed(b) == IF b.mode = "InTableText" THEN restore_mode(flush_table_text(b)) ELSE b

start_tag(b0, name, tag) ==
    LET b == Resumed(b0)
    IN  IF name \notin OwnStarts(b.mode) THEN BodyRulesStart(b, name, tag)
        ELSE CASE b.mode = "InCaption" -> CaptionStart(b, name, tag)
               [] b.mode = "InCell" -> CellStart(b, name, tag)
               [] b.mode = "InTableBody" /\ name \in table_part_tags ->
                     TableBodyStart(b, name, tag)
               [] b.mode = "InRow" /\ name \in table_part_tags -> RowStart(b, name, tag)
               [] OTHER -> TableStart(b, name, tag)

TableEnd(b, name) ==
    IF name = "table" /\ is_in_table_scope(b, "table")
    THEN reset(pop_all_up_to_names(b, {"table"}))
    ELSE NoResult(b)

CaptionEnd(b, name) ==
    LET ended == switch_mode(
                     clear_to_marker(
                         pop_all_up_to_names(generate_implied_end_tags(b, "none"), {"caption"})),
                     "InTable")
    IN  IF name \notin {"caption", "table"} \/ ~is_in_table_scope(b, "caption") THEN NoResult(b)
        ELSE IF name = "caption" THEN ended ELSE TableEnd(ended, name)

TableBodyEnd(b, name) ==
    CASE name = "tbody" ->
            IF is_in_table_scope(b, name)
            THEN switch_mode(pop(ClearedTo(b, "tbody")), "InTable")
            ELSE NoResult(b)
      [] OTHER -> TableEnd(b, name)

RowEnd(b, name) ==
    LET ended == switch_mode(pop(ClearedTo(b, "tr")), "InTableBody")
    IN  IF /\ name \in {"tr", "table", "tbody"}
           /\ is_in_table_scope(b, "tr")
           /\ name = "tbody" => is_in_table_scope(b, "tbody")
        THEN IF name = "tr" THEN ended ELSE TableBodyEnd(ended, name)
        ELSE NoResult(b)

CellEnd(b, name) ==
    CASE name = "caption" \/ ~is_in_table_scope(b, name) -> NoResult(b)
      [] name = "td" /\ is_in_table_scope(b, name) ->
            switch_mode(
                clear_to_marker(
                    pop_all_up_to_names(generate_implied_end_tags(b, "none"), {name})),
                "InRow")
      [] OTHER -> RowEnd(close_the_cell(b), name)

end_tag(b0, name) ==
    LET b == Resumed(b0)
    IN  IF name \notin OwnEnds(b.mode) THEN BodyRulesEnd(b, name)
        ELSE CASE b.mode = "InCaption" -> CaptionEnd(b, name)
               [] b.mode = "InCell" -> CellEnd(b, name)
               [] b.mode = "InTableBody" -> TableBodyEnd(b, name)
               [] b.mode = "InRow" -> RowEnd(b, name)
               [] OTHER -> TableEnd(b, name)

\* Text in the structure of a table waits for more of it.
characters(b, text) ==
    LET Waits(b1) == [b1 EXCEPT !.pending_table_characters = Append(@, text)]
    IN  CASE b.mode = "InTableText" -> Waits(b)
          [] b.mode \in table_modes /\ CurrentName(b) \in FOSTER_TRIGGERS ->
                Waits(switch_and_save(b, "InTableText"))
          [] OTHER -> Fostered(InBodyCharacters(Fostering(b), text))

\* All is closed, and nothing is left waiting.
end_document(b) == [restore_mode(flush_table_text(b)) EXCEPT !.stack = <<>>]

-----------------------------------------------------------------------------
(* The tokens.                                                              *)

\* A meta that marks a place stays in it, wherever that is.
insert_unfostered_meta(b, held) == insert_void(flush_table_text(b), "meta", 0, held)

\* A tag of the page that was not used leaves a trace, if that would stay in its
\* place; one that a handler made has no source to be traced by.
insert_placeholder_meta(b, token, is_start) ==
    IF \/ CurrentName(b) \in FOSTER_TRIGGERS
       \/ token.name = "pre" /\ ~is_start
       \/ token.at = 0
    THEN b
    ELSE insert_unfostered_meta(b, <<>>)

\* In a table of a transclusion a meta tells where text would have been.
flush_text(b) ==
    LET Traced(given) ==
            IF in_transclusion /\ table_depth > 0 /\ text_buffer.nonspace
            THEN insert_unfostered_meta(given, <<>>)
            ELSE given
    IN  IF text_buffer = NoText THEN b ELSE Traced(characters(b, text_buffer))

Started(b, token) ==
    IF b.result # 0 THEN b
    ELSE IF token.name \in {"td", "tr"}
    THEN characters(b, [held |-> <<token.at>>, nonspace |-> TRUE])
    ELSE insert_placeholder_meta(b, token, TRUE)

OnStartTag(b, token) == Started(start_tag(b, token.name, token.at), token)

Ended(b, token) == IF b.result # 0 THEN b ELSE insert_placeholder_meta(b, token, FALSE)

OnEndTag(b, token) == Ended(end_tag(b, token.name), token)

is_fragment(token) == token.name = "mw:dom-fragment-token"
is_transclusion_meta(token) ==
    \E typeof \in {"mw:Transclusion", "mw:Transclusion/End", "mw:Param", "mw:Param/End"} :
        IsMeta(token, typeof)

OnSelfclosing(b, token) ==
    IF is_fragment(token) \/ is_transclusion_meta(token)
    THEN insert_unfostered_meta(b, <<token.at>>)
    ELSE LET Closed(started) ==
                 IF started.result = 0 THEN insert_placeholder_meta(started, token, TRUE)
                 ELSE IF token.name \in void_tags THEN started
                 ELSE end_tag(started, token.name)
         IN  Closed(start_tag(b, token.name, token.at))

\* Where the tokens of a list or a pre end.
ChunkEnd == Token("ChunkEnd", "", <<>>)

Token0 == Head(stream)
Reads == stream # <<>> /\ stream' = Tail(stream)

is_string(token) == token.type \in {"Str", "Nl"}

\* What was text before is given to the builder first.
Builds(b) == builder' = b /\ text_buffer' = NoText

on_string ==
    /\ Reads
    /\ is_string(Token0)
    /\ text_buffer' = [held |-> Append(text_buffer.held, Token0.at),
                       nonspace |-> \/ text_buffer.nonspace
                                    \/ Token0.type = "Str" /\ ~is_whitespace_string(Token0)]
    /\ UNCHANGED <<builder, in_transclusion, table_depth>>

\* Of two newlines after a paragraph that has formatting, none is outside of it.
ends_paragraph ==
    /\ Is(Token0, "EndTag", "p")
    /\ \E k \in DOMAIN builder.afe : builder.afe[k] # Marker
    /\ LET newlines == CHOOSE n \in 0..(Len(stream) - 1) :
                           /\ \A k \in 2..(n + 1) : stream[k].type = "Nl"
                           /\ n + 2 <= Len(stream) => stream[n + 2].type # "Nl"
       IN  newlines = 2

on_start_tag ==
    /\ Reads
    /\ Token0.type = "Tag"
    /\ Builds(OnStartTag(flush_text(builder), Token0))
    /\ table_depth' = IF Token0.name = "table" THEN table_depth + 1 ELSE table_depth
    /\ UNCHANGED in_transclusion

on_end_tag ==
    /\ Reads
    /\ Token0.type = "EndTag" /\ ~ends_paragraph
    /\ Builds(OnEndTag(flush_text(builder), Token0))
    /\ table_depth' = IF Token0.name = "table" /\ table_depth > 0 THEN table_depth - 1
                      ELSE table_depth
    /\ UNCHANGED in_transclusion

process_chunk ==
    /\ stream # <<>> /\ ends_paragraph
    /\ stream' = <<stream[2], stream[3], stream[1]>> \o SubSeq(stream, 4, Len(stream))
    /\ UNCHANGED tree_vars

on_selfclosing ==
    /\ Reads
    /\ Token0.type = "SelfclosingTag"
    /\ Builds(OnSelfclosing(flush_text(builder), Token0))
    /\ in_transclusion' = \/ IsMeta(Token0, "mw:Transclusion")
                          \/ in_transclusion /\ ~IsMeta(Token0, "mw:Transclusion/End")
    /\ UNCHANGED table_depth

on_comment ==
    /\ Reads
    /\ Token0.type = "Comment"
    /\ Builds(insert_void(flush_table_text(flush_text(builder)), "#comment", 0, <<Token0.at>>))
    /\ UNCHANGED <<in_transclusion, table_depth>>

on_eof ==
    /\ Reads
    /\ Token0.type = "Eof"
    /\ Builds(end_document(flush_text(builder)))
    /\ UNCHANGED <<in_transclusion, table_depth>>

\* A compound token stands for its own; a list or a pre is a chunk by itself.
process_nested ==
    /\ stream # <<>>
    /\ Token0.type \in {"List", "IndentPre", "EmptyLine"}
    /\ stream' = Token0.arg \o (IF Token0.type = "EmptyLine" THEN <<>> ELSE <<ChunkEnd>>)
                     \o Tail(stream)
    /\ Builds(flush_text(builder))
    /\ UNCHANGED <<in_transclusion, table_depth>>

end_of_chunk ==
    /\ Reads
    /\ Token0 = ChunkEnd
    /\ UNCHANGED tree_vars

Next ==
    \/ on_string \/ on_start_tag \/ on_end_tag \/ process_chunk \/ on_selfclosing
    \/ on_comment \/ on_eof \/ process_nested \/ end_of_chunk

-----------------------------------------------------------------------------
(* What the properties look at.                                             *)

\* A node and all below it, in the order of the document; the nodes on the way from
\* it to the document. The length of any way bounds both.
Preorder(b, root) ==
    LET below[n \in 0..Len(b.dom)] ==
            [id \in DOMAIN b.dom |->
                IF n = 0 THEN <<>>
                ELSE <<id>> \o FlattenSeq([k \in DOMAIN b.dom[id].kids |->
                                             below[n - 1][b.dom[id].kids[k]]])]
    IN  below[Len(b.dom)][root]

Ancestors(b, id) ==
    LET ParentOf(node) == IF node = 0 THEN 0 ELSE b.dom[node].parent
        above[n \in 0..Len(b.dom)] == IF n = 0 THEN id ELSE ParentOf(above[n - 1])
    IN  {above[n] : n \in 1..Len(b.dom)} \ {0}

TypeOK ==
    /\ builder.mode = "InTableText" \/ builder.pending_table_characters = <<>>
    /\ ~builder.foster_parenting
    /\ Range(builder.stack) \subseteq DOMAIN builder.dom
    /\ Range(builder.afe) \subseteq DOMAIN builder.dom \union {Marker}
    /\ \A id \in DOMAIN builder.dom : \A kid \in Range(builder.dom[id].kids) :
           builder.dom[kid].parent = id

\* Where goes what a table cannot hold, at the place k of the stack: around the
\* last table open below it, or into the first element if no table is open.
FosterParent(k) ==
    LET tables == {j \in 2..(k - 1) : Name(builder, builder.stack[j]) = "table"}
    IN  IF tables = {} THEN Bottommost(builder)
        ELSE builder.dom[builder.stack[Max(tables)]].parent

\* What is open is open in the tree too: each element of the stack is a child
\* of the one below it, or was put before the table it could not be in.
StackMirrorsTree ==
    \A k \in 2..Len(builder.stack) :
        LET parent == builder.dom[builder.stack[k]].parent
            below == builder.stack[k - 1]
        IN  \/ parent = below
            \/ Name(builder, below) \in FOSTER_TRIGGERS /\ parent = FosterParent(k)

\* The mode is the one that the open elements call for.
ModeFitsStack ==
    LET mode == IF builder.mode = "InTableText" THEN builder.original_mode ELSE builder.mode
    IN  builder.stack # <<>> => mode = appropriate_mode(builder)

\* Formatting is active once for each of its tags, and set apart in each cell.
ReopenedOnce ==
    LET afe == builder.afe
        Tag0(k) == <<Name(builder, afe[k]), builder.dom[afe[k]].tag>>
        cells == {id \in Range(builder.stack) : Name(builder, id) \in {"td", "caption"}}
    IN  /\ \A j, k \in DOMAIN afe :
               j < k /\ afe[j] # Marker /\ afe[k] # Marker => Tag0(j) # Tag0(k)
        /\ builder.stack # <<>> =>
               Cardinality({k \in DOMAIN afe : afe[k] = Marker}) = Cardinality(cells)

\* Whatever is moved, the text of the page is in the tree once and in its order,
\* but for what was in a table and not in a cell of it.
TreeInOrder(tokens) ==
    LET given == SelectSeq(tokens, LAMBDA t : t.at # 0 /\ t.type \notin {"Tag", "EndTag"})
        places == {t.at : t \in Range(given)}
        order == Preorder(builder, Document)
        Holds(id) == [k \in DOMAIN builder.dom[id].held |->
                          [at |-> builder.dom[id].held[k], node |-> id]]
        held == SelectSeq(FlattenSeq([k \in DOMAIN order |-> Holds(order[k])]),
                          LAMBDA h : h.at # 0)
        TablesOf(id) == {a \in Ancestors(builder, id) : Name(builder, a) = "table"}
    IN  /\ Len(SelectSeq(held, LAMBDA h : h.at \in places)) = Len(given)
        /\ places \subseteq {h.at : h \in Range(held)}
        /\ \A j, k \in DOMAIN held :
               j < k /\ held[j].at > held[k].at =>
                   TablesOf(held[k].node) \ TablesOf(held[j].node) # {}

\* No formatting is open with nothing open around it.
ElementBelowFormatting ==
    builder.stack # <<>> => builder.stack[1] \notin Range(builder.afe)
=============================================================================
