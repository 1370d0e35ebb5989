---------------------------- MODULE ListHandler ----------------------------
(***************************************************************************)
(* List items become lists (list_handler.rs). The tokens of a list are     *)
(* held in a frame until it ends; a table in an item suspends the frame,   *)
(* and a list in that table has a frame of its own. Only the last frame is *)
(* worked on, and only while it is active.                                 *)
(***************************************************************************)
EXTENDS TokenTypes, SequencesExt

VARIABLES
    stream,                 \* the tokens still to be read
    out,                    \* the tokens given to the next handler
    list_frame_stack,
    nested_table_count,
    in_t2529_mode,          \* a template has begun, and no text since
    have_active_list_frame,
    on_any_enabled

handler_vars == <<list_frame_stack, nested_table_count, in_t2529_mode,
                  have_active_list_frame, on_any_enabled>>
vars == <<stream, out, handler_vars>>

Init ==
    /\ list_frame_stack = <<>>
    /\ nested_table_count = 0
    /\ in_t2529_mode = FALSE
    /\ have_active_list_frame = FALSE
    /\ on_any_enabled = FALSE

-----------------------------------------------------------------------------
(* Frames. endtags holds two names for each bullet: of the list and of the  *)
(* item that are to be closed.                                              *)

Bullets == {"*", "#", ";", ":"}
Container == [c \in Bullets |-> CASE c = "*" -> "ul" [] c = "#" -> "ol" [] OTHER -> "dl"]
ItemName == [c \in Bullets |-> CASE c = ";" -> "dt" [] c = ":" -> "dd" [] OTHER -> "li"]

NewFrame ==
    [at_eol |-> FALSE, nl_tk |-> <<>>, sol_tokens |-> <<>>, bstack |-> <<>>,
     endtags |-> <<>>, num_open_block_tags |-> 0, num_open_tags |-> 0,
     have_dd |-> FALSE, list_tk |-> <<>>]

add_tokens(frame, tokens) == [frame EXCEPT !.list_tk = @ \o tokens]

\* The end tags of the last n items and lists, inmost first.
pop_tags(frame, n) ==
    [k \in 1..(2 * n) |-> EndTag(frame.endtags[Len(frame.endtags) + 1 - k])]

EndTagNames(bullets) ==
    [k \in 1..(2 * Len(bullets)) |->
        IF k % 2 = 1 THEN Container[bullets[(k + 1) \div 2]] ELSE ItemName[bullets[k \div 2]]]

\* The tags that push_list opens for bullets.
Opened(bullets, at) ==
    [k \in DOMAIN EndTagNames(bullets) |-> At(Tag(EndTagNames(bullets)[k]), at)]

\* The last of the items opened says whether the line has its <dd>.
HaveDD(have_dd, bullets) ==
    LET terms == {k \in DOMAIN bullets : bullets[k] \in {";", ":"}}
    IN  IF terms = {} THEN have_dd
        ELSE bullets[CHOOSE k \in terms : \A j \in terms : j <= k] = ":"

common_prefix_length(x, y) ==
    CHOOSE n \in 0..Len(x) :
        /\ n <= Len(y)
        /\ \A k \in 1..n : x[k] = y[k]
        /\ n < Len(x) /\ n < Len(y) => x[n + 1] # y[n + 1]

is_dt_dd(a, b) == <<a, b>> \in {<<":", ";">>, <<";", ":">>}

\* As if what was held were not let go.
KeepsHeld(frame) == [frame EXCEPT !.at_eol = FALSE]

\* The rest of the line is known: nothing is held for its start any more.
LineStarted(frame) ==
    [frame EXCEPT !.sol_tokens = <<>>, !.nl_tk = <<>>, !.at_eol = FALSE]

-----------------------------------------------------------------------------
(* do_list_item: from the bullets bs of the line before to the bullets bn,  *)
(* which agree on the first n.                                              *)

SameItem(frame, bn, at) ==
    add_tokens(frame,
        <<EndTag(Last(frame.endtags))>> \o frame.sol_tokens \o frame.nl_tk
            \o <<At(Tag(Last(frame.endtags)), at)>>)

TermOrDefinition(frame, bn, n, at) ==
    LET pops == Len(frame.bstack) - n - 1
        left == SubSeq(frame.endtags, 1, Len(frame.endtags) - 2 * pops)
        item == ItemName[bn[n + 1]]
        deeper == SubSeq(bn, n + 2, Len(bn))
    IN  [add_tokens(frame,
             frame.sol_tokens \o pop_tags(frame, pops) \o <<EndTag(Last(left))>>
                 \o frame.nl_tk \o <<At(Tag(item), at)>> \o Opened(deeper, at))
         EXCEPT !.endtags = Front(left) \o <<item>> \o EndTagNames(deeper),
                !.have_dd = HaveDD(@, SubSeq(bn, n + 1, Len(bn)))]

OtherNesting(frame, bn, n, at) ==
    LET pops == Len(frame.bstack) - n
        left == SubSeq(frame.endtags, 1, Len(frame.endtags) - 2 * pops)
        deeper == SubSeq(bn, n + 1, Len(bn))
        next_item == IF n > 0 /\ Len(bn) = n
                     THEN <<EndTag(Last(left)), At(Tag(Last(left)), at)>>
                     ELSE <<>>
    IN  [add_tokens(frame,
             frame.sol_tokens \o pop_tags(frame, pops) \o frame.nl_tk
                 \o next_item \o Opened(deeper, at))
         EXCEPT !.endtags = left \o EndTagNames(deeper),
                !.have_dd = HaveDD(@, deeper)]

do_list_item(frame, bn, at) ==
    LET bs == frame.bstack
        n == common_prefix_length(bs, bn)
        done == IF n = Len(bs) /\ n = Len(bn) THEN SameItem(frame, bn, at)
                ELSE IF n < Len(bs) /\ n < Len(bn) /\ is_dt_dd(bs[n + 1], bn[n + 1])
                THEN TermOrDefinition(frame, bn, n, at)
                ELSE OtherNesting(frame, bn, n, at)
    IN  [LineStarted(done) EXCEPT !.bstack = bn]

-----------------------------------------------------------------------------
Top == list_frame_stack[Len(list_frame_stack)]
SetTop(frame) == list_frame_stack' = [list_frame_stack EXCEPT ![Len(list_frame_stack)] = frame]

\* The last frame is done: its tokens are the parent's, or go on.
pop_list_frame(ret) ==
    LET rest == Front(list_frame_stack)
    IN  /\ list_frame_stack' = IF rest = <<>> THEN rest
                               ELSE [rest EXCEPT ![Len(rest)] = add_tokens(@, ret)]
        /\ out' = IF rest = <<>> THEN out \o ret ELSE out
        /\ on_any_enabled' = (rest # <<>>)

\* As if only the newline had been held.
ClosedBare(frame) ==
    <<List(frame.list_tk \o pop_tags(frame, Len(frame.bstack)))>> \o frame.nl_tk

\* A closed frame: the list with all its end tags, and what was held.
Closed(frame) ==
    <<List(frame.list_tk \o pop_tags(frame, Len(frame.bstack)))>>
        \o frame.sol_tokens \o frame.nl_tk

close_lists(token) ==
    /\ pop_list_frame(Append(Closed(Top), token))
    /\ have_active_list_frame' = FALSE

-----------------------------------------------------------------------------
(* One action for each thing a token may do.                                *)

Token0 == Head(stream)
Reads == stream # <<>> /\ stream' = Tail(stream)

is_list_item == Is(Token0, "Tag", "listItem")
\* What on_any sees: an empty line too, unless it ends the list itself.
ends_list == Token0.type = "EmptyLine" /\ have_active_list_frame /\ ~Top.at_eol
any_token == ~is_list_item /\ Token0.type \notin {"Nl", "Eof"} /\ ~ends_list

PassOn ==
    /\ Reads
    /\ ~on_any_enabled /\ ~is_list_item /\ Token0.type # "Eof"
    /\ out' = Append(out, Token0)
    /\ UNCHANGED handler_vars

\* The template began with a list item: it is on a line of its own.
ItemFrame ==
    IF have_active_list_frame
    THEN [Top EXCEPT !.have_dd = @ /\ ~in_t2529_mode]
    ELSE NewFrame

is_colon_text ==
    /\ have_active_list_frame
    /\ Last(Token0.arg) = ":"
    /\ ItemFrame.have_dd \/ ItemFrame.num_open_tags > 0

on_list_item_colon ==
    /\ Reads
    /\ is_list_item /\ is_colon_text
    /\ SetTop(add_tokens(ItemFrame, <<At(Str("bullet"), Token0.at)>>))
    /\ in_t2529_mode' = FALSE
    /\ on_any_enabled' = TRUE
    /\ UNCHANGED <<out, nested_table_count, have_active_list_frame>>

on_list_item ==
    /\ Reads
    /\ is_list_item /\ ~is_colon_text
    /\ LET frame == do_list_item(ItemFrame, Token0.arg, Token0.at)
       IN  IF have_active_list_frame THEN SetTop(frame)
           ELSE list_frame_stack' = Append(list_frame_stack, frame)
    /\ have_active_list_frame' = TRUE
    /\ in_t2529_mode' = FALSE
    /\ on_any_enabled' = TRUE
    /\ UNCHANGED <<out, nested_table_count>>

\* The first newline is held: the next line may go on with the list.
on_newline ==
    /\ Reads
    /\ Token0.type = "Nl" /\ on_any_enabled
    /\ ~(have_active_list_frame /\ Top.at_eol)
    /\ SetTop(IF have_active_list_frame
              THEN [Top EXCEPT !.at_eol = TRUE, !.nl_tk = <<Token0>>,
                               !.have_dd = FALSE, !.num_open_tags = 0]
              ELSE add_tokens(Top, <<Token0>>))
    /\ UNCHANGED <<out, nested_table_count, in_t2529_mode, have_active_list_frame,
                   on_any_enabled>>

\* The second ends it, and so does an empty line.
on_newline_closes ==
    /\ Reads
    /\ on_any_enabled
    /\ \/ Token0.type = "Nl" /\ have_active_list_frame /\ Top.at_eol
       \/ ends_list
    /\ close_lists(Token0)
    /\ UNCHANGED <<nested_table_count, in_t2529_mode>>

\* Text ends the mode, what is invisible leaves it.
T2529 ==
    in_t2529_mode' = IF IsMeta(Token0, "mw:Transclusion") THEN TRUE
                     ELSE in_t2529_mode /\ is_sol_transparent(Token0)

begins_table == Is(Token0, "Tag", "table")
ends_table == Is(Token0, "EndTag", "table")

\* As if those that end were not counted.
TablesBegun == IF begins_table THEN nested_table_count + 1 ELSE nested_table_count

\* The tables in the one that suspends the frame.
NestedTables ==
    IF begins_table THEN nested_table_count + 1
    ELSE IF ends_table /\ nested_table_count > 0 THEN nested_table_count - 1
    ELSE nested_table_count

\* While the frame is suspended all belongs to it, until its table ends.
on_any_suspended ==
    /\ Reads
    /\ on_any_enabled /\ any_token /\ ~have_active_list_frame
    /\ SetTop(add_tokens(Top, <<Token0>>))
    /\ have_active_list_frame' = (ends_table /\ nested_table_count = 0)
    /\ nested_table_count' = NestedTables
    /\ T2529
    /\ UNCHANGED <<out, on_any_enabled>>

\* The end of the table the list is in: the item around the table goes on.
on_any_table_end ==
    /\ Reads
    /\ on_any_enabled /\ any_token /\ have_active_list_frame
    /\ ends_table
    /\ pop_list_frame(Append(Closed(Top), Token0))
    /\ have_active_list_frame' = (Len(list_frame_stack) > 1)
    /\ T2529
    /\ UNCHANGED nested_table_count

is_block_end == Token0.type = "EndTag" /\ Token0.name \in wikitext_block_elems \ {"table"}

\* The end of a block around the list, or what is no list item on a new line.
on_any_closes ==
    /\ Reads
    /\ on_any_enabled /\ any_token /\ have_active_list_frame
    /\ ~ends_table
    /\ \/ is_block_end /\ (Top.num_open_block_tags = 0 \/ Top.at_eol)
       \/ ~is_block_end /\ Top.at_eol /\ ~is_sol_transparent(Token0)
    /\ close_lists(Token0)
    /\ T2529
    /\ UNCHANGED nested_table_count

\* What is invisible at the start of a line waits for the rest of it.
on_any_held ==
    /\ Reads
    /\ on_any_enabled /\ any_token /\ have_active_list_frame
    /\ Top.at_eol /\ is_sol_transparent(Token0)
    /\ SetTop([Top EXCEPT !.sol_tokens = @ \o Top.nl_tk \o <<Token0>>, !.nl_tk = <<>>])
    /\ T2529
    /\ UNCHANGED <<out, nested_table_count, have_active_list_frame, on_any_enabled>>

OpenTags(n) ==
    CASE Token0.type = "Tag" /\ Token0.name # "table" -> n + 1
      [] Token0.type = "EndTag" /\ n > 0 -> n - 1
      [] OTHER -> n

OpenBlockTags(n) ==
    CASE Token0.type = "Tag" /\ Token0.name \in wikitext_block_elems \ {"table"} -> n + 1
      [] is_block_end -> n - 1
      [] OTHER -> n

on_any ==
    /\ Reads
    /\ on_any_enabled /\ any_token /\ have_active_list_frame
    /\ ~ends_table
    /\ ~Top.at_eol
    /\ is_block_end => Top.num_open_block_tags > 0
    /\ SetTop(add_tokens([Top EXCEPT !.num_open_tags = OpenTags(@),
                                     !.num_open_block_tags = OpenBlockTags(@)], <<Token0>>))
    /\ have_active_list_frame' = ~begins_table
    /\ T2529
    /\ UNCHANGED <<out, nested_table_count, on_any_enabled>>

\* At the end of the page every frame is a list of the one around it.
on_end ==
    /\ Reads
    /\ Token0.type = "Eof"
    /\ LET last == IF have_active_list_frame THEN Closed(Top) ELSE <<List(Top.list_tk)>>
           Within(frame, inner) == <<List(frame.list_tk \o inner)>>
       IN  out' = Append(IF list_frame_stack = <<>> THEN out
                         ELSE out \o FoldRight(Within, Front(list_frame_stack), last),
                         Token0)
    /\ list_frame_stack' = <<>>
    /\ have_active_list_frame' = FALSE
    /\ on_any_enabled' = FALSE
    /\ nested_table_count' = 0
    /\ UNCHANGED in_t2529_mode

Next ==
    \/ PassOn \/ on_list_item_colon \/ on_list_item \/ on_newline \/ on_newline_closes
    \/ on_any_suspended \/ on_any_table_end \/ on_any_closes \/ on_any_held \/ on_any
    \/ on_end

-----------------------------------------------------------------------------
(* What the handler relies on when it indexes frames and pops tags.         *)
FrameOK(frame) == frame.bstack # <<>> /\ frame.endtags = EndTagNames(frame.bstack)

FrameInUse(k) == k = Len(list_frame_stack) /\ have_active_list_frame
HoldsNothing(frame) == ~frame.at_eol /\ frame.nl_tk = <<>> /\ frame.sol_tokens = <<>>

FramesKept ==
    /\ on_any_enabled = (list_frame_stack # <<>>)
    /\ have_active_list_frame => list_frame_stack # <<>>
    /\ \A k \in DOMAIN list_frame_stack :
          LET frame == list_frame_stack[k]
          IN FrameOK(frame) /\ (FrameInUse(k) \/ HoldsNothing(frame))
=============================================================================
