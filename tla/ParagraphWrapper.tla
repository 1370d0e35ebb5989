-------------------------- MODULE ParagraphWrapper --------------------------
(***************************************************************************)
(* Text becomes paragraphs (paragraph_wrapper_v2.rs). A line is held until *)
(* it ends, for a block tag in it keeps it out of a paragraph; newlines    *)
(* are held until the token after them, for their number says whether a    *)
(* paragraph ends. One step of the handler calls several of its helpers,   *)
(* which are operators from a state w of the handler to the next one.      *)
(***************************************************************************)
EXTENDS TokenTypes, SequencesExt

VARIABLES
    stream,     \* the tokens still to be read
    out,        \* the tokens given to the next handler
    wrapper     \* the state of the handler

vars == <<stream, out, wrapper>>

CleanLine == [curr_line_tokens |-> <<>>, wrappable |-> FALSE,
              block_tag_seen |-> FALSE, block_tag_open |-> FALSE]

Initial ==
    [has_open_p_tag |-> FALSE, in_block_elem |-> FALSE, in_blockquote |-> FALSE,
     token_buffer |-> <<>>, nl_ws_tokens |-> <<>>, new_line_count |-> 0,
     line |-> CleanLine, res |-> <<>>]

Init == wrapper = Initial

-----------------------------------------------------------------------------
is_nl(t) == t.type = "Nl"
is_sol_transparent_tag(t) ==
    \/ Is(t, "SelfclosingTag", "meta")
    \/ t.name = "mw:dom-fragment-token"
    \/ is_sol_transparent_link(t)
is_sol_transparent_item(t) == is_sol_transparent(t) \/ is_sol_transparent_tag(t)
starts_template(t) == IsMeta(t, "mw:Transclusion")
ends_template(t) == IsMeta(t, "mw:Transclusion/End")

FirstOr(S, default) == IF S = {} THEN default ELSE CHOOSE x \in S : \A y \in S : x <= y
LastOr(S, default) == IF S = {} THEN default ELSE CHOOSE x \in S : \A y \in S : x >= y

\* As if the template around the first visible token did not matter.
OpenAtVisible(toks) ==
    FirstOr({k \in DOMAIN toks : ~is_sol_transparent_item(toks[k]) /\ ~is_nl(toks[k])}, Len(toks) + 1)

(* The paragraph opens before the first visible token of the line, or before *)
(* the template that token comes from.                                       *)
OpenPlace(toks) ==
    LET visible == FirstOr({k \in DOMAIN toks : ~is_sol_transparent_item(toks[k]) /\ ~is_nl(toks[k])},
                           Len(toks) + 1)
        starts == {k \in 1..(visible - 1) : starts_template(toks[k])}
        ends == {k \in 1..(visible - 1) : ends_template(toks[k])}
        start == LastOr(starts, 0)
    IN  IF start > LastOr(ends, 0) THEN start ELSE visible

\* As if it closed before that token.
CloseAtVisible(toks) ==
    LastOr({k \in DOMAIN toks : ~is_sol_transparent_item(toks[k]) /\ ~is_nl(toks[k])}, Len(toks) + 1)

(* It closes after the last visible token, or after the template that token  *)
(* comes from.                                                               *)
ClosePlace(toks) ==
    LET visible == LastOr({k \in DOMAIN toks : ~is_sol_transparent_item(toks[k]) /\ ~is_nl(toks[k])}, 0)
        starts == {k \in (visible + 1)..Len(toks) : starts_template(toks[k])}
        ends == {k \in (visible + 1)..Len(toks) : ends_template(toks[k])}
        end == FirstOr(ends, Len(toks) + 1)
    IN  IF end < FirstOr(starts, Len(toks) + 1) THEN end + 1
        ELSE IF visible = 0 THEN Len(toks) + 1 ELSE visible + 1

open_p_tag(w, toks) == IF w.has_open_p_tag THEN toks ELSE InsertAt(toks, OpenPlace(toks), Tag("p"))
close_open_p_tag(w, toks) ==
    IF w.has_open_p_tag THEN InsertAt(toks, ClosePlace(toks), EndTag("p")) ELSE toks

-----------------------------------------------------------------------------
reset_buffers(w) == [w EXCEPT !.token_buffer = <<>>, !.nl_ws_tokens = <<>>, !.new_line_count = 0]

reset_curr_line(w) ==
    [w EXCEPT !.in_block_elem = IF w.line.block_tag_seen THEN w.line.block_tag_open ELSE @,
              !.line = CleanLine]

hold(w, token) == [w EXCEPT !.line.curr_line_tokens = Append(@, token)]

emit(w, toks) == [w EXCEPT !.res = @ \o toks]

\* As if an open paragraph were not closed first.
BreakOpensOnly(acc) == IF acc.n > 1 THEN <<Tag("p")>> ELSE <<>>

(* The newlines before a token. Of two or more, the first is a newline, and  *)
(* then paragraphs and line breaks take turns. acc is the state of that: n   *)
(* newlines are left, p says whether a paragraph is open.                    *)
ParagraphBreak(acc) ==
    (IF acc.p THEN <<EndTag("p")>> ELSE <<>>) \o (IF acc.n > 1 THEN <<Tag("p")>> ELSE <<>>)

EmitHeld(acc, token) ==
    CASE ~is_nl(token) ->
            [acc EXCEPT !.toks = Append(@, token)]
      [] is_nl(token) /\ acc.n = acc.count ->
            [acc EXCEPT !.toks = Append(@, token), !.n = @ - 1]
      [] is_nl(token) /\ acc.n # acc.count /\ acc.n % 2 = (acc.count - 1) % 2 ->
            [acc EXCEPT !.toks = @ \o ParagraphBreak(acc) \o <<token>>,
                        !.p = acc.n > 1, !.n = @ - 1]
      [] OTHER ->
            [acc EXCEPT !.toks = @ \o <<Selfclosing("br"), token>>, !.n = @ - 1]

LastNewline(toks) == LastOr({k \in DOMAIN toks : is_nl(toks[k])}, 0)

\* The buffer and the newlines, as far as the last of them, and p after them.
Broken(w) ==
    IF w.new_line_count >= 2 /\ ~w.in_block_elem
    THEN FoldLeft(EmitHeld,
             [p |-> FALSE, toks |-> close_open_p_tag(w, w.token_buffer),
              n |-> w.new_line_count, count |-> w.new_line_count],
             SubSeq(w.nl_ws_tokens, 1, LastNewline(w.nl_ws_tokens)))
    ELSE [p |-> w.has_open_p_tag, toks |-> w.token_buffer,
          n |-> w.new_line_count, count |-> w.new_line_count]

process_pending_nls(w) ==
    LET broken == Broken(w)
        after == [w EXCEPT !.has_open_p_tag = broken.p]
        toks == IF w.line.block_tag_seen THEN close_open_p_tag(after, broken.toks)
                ELSE broken.toks
        left == IF broken.n = 0 /\ w.new_line_count > 0
                THEN SubSeq(w.nl_ws_tokens, LastNewline(w.nl_ws_tokens) + 1, Len(w.nl_ws_tokens))
                ELSE w.nl_ws_tokens
    IN  emit(reset_buffers([after EXCEPT !.has_open_p_tag = @ /\ ~w.line.block_tag_seen]),
             toks \o left)

process_buffers(w, token, flush_current_line) ==
    LET held == hold(process_pending_nls(w), token)
    IN  IF flush_current_line
        THEN reset_curr_line(emit(held, held.line.curr_line_tokens))
        ELSE held

flush_buffers(w, token) ==
    LET held == hold(w, token)
    IN  reset_buffers(emit(held, w.token_buffer \o w.nl_ws_tokens))

-----------------------------------------------------------------------------
(* The end of a line says whether it is a paragraph, or ends one.           *)
line_done(w) ==
    LET toks == w.line.curr_line_tokens
        opens == ~w.in_block_elem /\ ~w.has_open_p_tag /\ w.line.wrappable
        done == IF w.line.block_tag_seen THEN close_open_p_tag(w, toks)
                ELSE IF opens THEN open_p_tag(w, toks)
                ELSE toks
    IN  [w EXCEPT !.has_open_p_tag = IF w.line.block_tag_seen THEN FALSE ELSE @ \/ opens,
                  !.token_buffer = @ \o done,
                  !.line.curr_line_tokens = <<>>]

on_newline(w, token) ==
    [reset_curr_line(line_done(w)) EXCEPT !.new_line_count = @ + 1,
                                          !.nl_ws_tokens = Append(@, token)]

on_eof(w, token) ==
    LET done == line_done(w)
        last == [done EXCEPT !.nl_ws_tokens = Append(@, token),
                             !.token_buffer = close_open_p_tag(done, @),
                             !.has_open_p_tag = FALSE]
    IN  [Initial EXCEPT !.res = process_pending_nls(last).res]

-----------------------------------------------------------------------------
(* Every other token. What is transparent neither makes a paragraph nor ends *)
(* one; of the newline before a link or a template, it takes it in.          *)
is_block_fragment(t) == Is(t, "SelfclosingTag", "mw:dom-fragment-token") /\ t.arg = <<"block">>
is_transparent_tag(t) == is_sol_transparent_tag(t) \/ t.name = "style"

seen_block(w, open) == [w EXCEPT !.line.block_tag_seen = TRUE, !.line.block_tag_open = open]
wrappable(w) == [w EXCEPT !.line.wrappable = TRUE]

on_transparent(w, token) ==
    IF w.new_line_count = 0 THEN flush_buffers(w, token)
    ELSE [w EXCEPT !.nl_ws_tokens = Append(@, token)]

on_transparent_tag(w, token) ==
    CASE w.new_line_count = 0 -> flush_buffers(w, token)
      [] w.new_line_count = 1 ->
            [w EXCEPT !.token_buffer = @ \o w.nl_ws_tokens \o w.line.curr_line_tokens,
                      !.nl_ws_tokens = <<>>,
                      !.new_line_count = 0,
                      !.line = [CleanLine EXCEPT !.curr_line_tokens = <<token>>]]
      [] OTHER -> process_buffers(w, token, FALSE)

on_block_tag(w, token) ==
    LET ends == token.type = "EndTag"
        name == token.name
    IN  seen_block(w, ~(\/ name \in block_elems /\ ends
                        \/ name \in anti_block_elems /\ ~ends
                        \/ name \in never_block_elems))

on_visible(w, token) ==
    LET noted == IF token.name \in wikitext_block_elems THEN on_block_tag(w, token) ELSE w
        quoted == [noted EXCEPT !.in_blockquote =
                      IF token.name = "blockquote" THEN token.type # "EndTag" ELSE @]
    IN  process_buffers(wrappable(quoted), token, FALSE)

on_any(w, token) ==
    CASE is_block_fragment(token) -> process_buffers(wrappable(seen_block(w, FALSE)), token, FALSE)
      [] is_sol_transparent(token) -> on_transparent(w, token)
      [] is_transparent_tag(token) -> on_transparent_tag(w, token)
      [] token.type = "Str" -> process_buffers(wrappable(w), token, FALSE)
      [] token.type \in {"List", "IndentPre"} ->
            process_buffers([w EXCEPT !.line.block_tag_seen = TRUE], token, TRUE)
      [] OTHER -> on_visible(w, token)

(* A <pre> in a block is no <pre>: its tokens are read without its tags.     *)
undo_one(w, token) ==
    CASE IsMeta(token, "mw:IndentPreWS") ->
            [w EXCEPT !.nl_ws_tokens = Append(@, At(Str("blank"), token.at))]
      [] Is(token, "EndTag", "pre") -> w
      [] is_nl(token) -> on_newline(w, token)
      [] OTHER -> on_any(w, token)

undo_indent_pre(w, nested) ==
    FoldLeft(undo_one,
             IF w.new_line_count = 0 THEN flush_buffers(w, Str("empty")) ELSE w,
             Tail(nested))

(* A list of only <dl><dd> in front is no list to the paragraphs in it.      *)
is_dl_dd_list(nested) ==
    LET lists == FirstOr({k \in DOMAIN nested : k % 2 = 1 /\ ~Is(nested[k], "Tag", "dl")},
                         Len(nested) + 1)
    IN  /\ lists > 1
        /\ \A k \in 1..(lists - 1) : k % 2 = 1 =>
              k < Len(nested) /\ Is(nested[k + 1], "Tag", "dd")

-----------------------------------------------------------------------------
Token0 == Head(stream)
Emits(w) == wrapper' = [w EXCEPT !.res = <<>>] /\ out' = out \o w.res

OnNewline ==
    /\ is_nl(Token0)
    /\ Emits(on_newline(wrapper, Token0))
    /\ stream' = Tail(stream)

OnEof ==
    /\ Token0.type = "Eof"
    /\ Emits(on_eof(wrapper, Token0))
    /\ stream' = Tail(stream)

\* The tokens of such a list are read as those of the page are.
on_compound_tk ==
    /\ Token0.type = "List" /\ is_dl_dd_list(Token0.arg)
    /\ stream' = Token0.arg \o Tail(stream)
    /\ UNCHANGED <<out, wrapper>>

undoes_pre == Token0.type = "IndentPre" /\ (wrapper.in_block_elem \/ wrapper.in_blockquote)

UndoIndentPre ==
    /\ undoes_pre
    /\ Emits(undo_indent_pre(wrapper, Token0.arg))
    /\ stream' = Tail(stream)

OnAny ==
    /\ Token0.type \notin {"Nl", "Eof"}
    /\ ~(Token0.type = "List" /\ is_dl_dd_list(Token0.arg))
    /\ ~undoes_pre
    /\ Emits(on_any(wrapper, Token0))
    /\ stream' = Tail(stream)

Next == stream # <<>> /\ (OnNewline \/ OnEof \/ on_compound_tk \/ UndoIndentPre \/ OnAny)
=============================================================================
