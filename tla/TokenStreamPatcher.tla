------------------------- MODULE TokenStreamPatcher -------------------------
(***************************************************************************)
(* The first of the handlers (token_stream_patcher.rs) mends what the      *)
(* tokenizer could not know: a string from a template that would have been *)
(* a list or a table at the start of a line, a cell outside of any table,  *)
(* and the newlines before a category link, which are to count for nothing.*)
(***************************************************************************)
EXTENDS TokenTypes, SequencesExt

VARIABLES
    stream,                 \* the tokens still to be read
    out,                    \* the tokens given to the next handler
    nl_ws_meta_token_buf,
    wiki_table_nesting,
    sol,
    tpl_info_at_start

handler_vars == <<nl_ws_meta_token_buf, wiki_table_nesting, sol, tpl_info_at_start>>
vars == <<stream, out, handler_vars>>

Init ==
    /\ nl_ws_meta_token_buf = <<>>
    /\ wiki_table_nesting = 0
    /\ sol = TRUE
    /\ tpl_info_at_start = FALSE

-----------------------------------------------------------------------------
is_transclusion_start_meta(t) == IsMeta(t, "mw:Transclusion")
starts_table_or_list_syntax(t) == t.type = "Str" /\ t.name \in {"bullet", "table_start"}

\* What the tokenizer makes of such a string at the start of a line.
reprocess_tokens(t) ==
    IF t.name = "bullet"
    THEN <<At(ListItem(<<"*">>), t.at), At(Str("text"), t.at)>>
    ELSE <<At(Tag("table"), t.at)>>

\* The newlines in buf become tokens that no handler takes for an end of line.
AsEmptyLine(buf) ==
    IF buf = <<>> THEN <<>>
    ELSE <<EmptyLine(SelectSeq(buf, LAMBDA t : t.type # "Str"))>>

\* The template that begins among them stays a token of its own.
EmptyLines(buf) ==
    LET metas == {k \in DOMAIN buf : buf[k].type = "SelfclosingTag"}
        first == CHOOSE k \in metas : \A j \in metas : k <= j
    IN  IF metas = {} THEN AsEmptyLine(buf)
        ELSE AsEmptyLine(SubSeq(buf, 1, first - 1)) \o <<buf[first]>>
                 \o AsEmptyLine(SubSeq(buf, first + 1, Len(buf)))

-----------------------------------------------------------------------------
Token0 == Head(stream)
Reads == stream # <<>> /\ stream' = Tail(stream)

Holds(toks) == nl_ws_meta_token_buf' = nl_ws_meta_token_buf \o toks /\ UNCHANGED out
get_result_tokens(ret) ==
    out' = out \o nl_ws_meta_token_buf \o ret /\ nl_ws_meta_token_buf' = <<>>

on_newline ==
    /\ Reads
    /\ Token0.type = "Nl"
    /\ Holds(<<Token0>>)
    /\ sol' = TRUE
    /\ UNCHANGED <<wiki_table_nesting, tpl_info_at_start>>

on_end ==
    /\ Reads
    /\ Token0.type = "Eof"
    /\ get_result_tokens(<<Token0>>)
    /\ wiki_table_nesting' = 0
    /\ sol' = TRUE
    /\ tpl_info_at_start' = FALSE

on_blank_held ==
    /\ Reads
    /\ is_whitespace_string(Token0) /\ nl_ws_meta_token_buf # <<>>
    /\ Holds(<<Token0>>)
    /\ tpl_info_at_start' = FALSE
    /\ UNCHANGED <<wiki_table_nesting, sol>>

t2529hack == tpl_info_at_start /\ starts_table_or_list_syntax(Token0)

on_string_reparsed ==
    /\ Reads
    /\ t2529hack
    /\ out' = out \o nl_ws_meta_token_buf \o (IF sol THEN <<>> ELSE <<Nl>>)
                  \o reprocess_tokens(Token0)
    /\ nl_ws_meta_token_buf' = <<>>
    /\ wiki_table_nesting' =
          IF Token0.name = "table_start" THEN wiki_table_nesting + 1 ELSE wiki_table_nesting
    /\ sol' = FALSE
    /\ tpl_info_at_start' = FALSE

on_string ==
    /\ Reads
    /\ Token0.type = "Str" /\ ~t2529hack
    /\ ~(is_whitespace_string(Token0) /\ nl_ws_meta_token_buf # <<>>)
    /\ get_result_tokens(<<Token0>>)
    /\ sol' = (sol /\ is_whitespace_string(Token0))
    /\ tpl_info_at_start' = FALSE
    /\ UNCHANGED wiki_table_nesting

\* As if the end of a table were not looked at.
is_stray_cell ==
    wiki_table_nesting = 0 /\ Token0.type = "Tag" /\ Token0.name \in {"td", "th", "tr", "caption"}

\* A cell, a row or the end of a table that is in no table is text. A token of the
\* page has its source; the fallback for one without is not modelled.
is_stray ==
    /\ wiki_table_nesting = 0
    /\ \/ Token0.type = "Tag" /\ Token0.name \in {"td", "th", "tr", "caption"}
       \/ Token0.type = "EndTag" /\ Token0.name \in {"table", "caption"}

on_stray_tag ==
    /\ Reads
    /\ is_stray
    /\ get_result_tokens(<<At(Str("text"), Token0.at)>>)
    /\ sol' = FALSE
    /\ tpl_info_at_start' = FALSE
    /\ UNCHANGED wiki_table_nesting

on_tag ==
    /\ Reads
    /\ Token0.type \in {"Tag", "EndTag"} /\ ~is_stray
    /\ get_result_tokens(<<Token0>>)
    /\ wiki_table_nesting' =
          CASE Is(Token0, "Tag", "table") -> wiki_table_nesting + 1
            [] Is(Token0, "EndTag", "table") -> wiki_table_nesting - 1
            [] OTHER -> wiki_table_nesting
    /\ tpl_info_at_start' = FALSE
    /\ UNCHANGED sol

on_link ==
    /\ Reads
    /\ is_sol_transparent_link(Token0)
    /\ out' = out \o EmptyLines(nl_ws_meta_token_buf) \o <<Token0>>
    /\ nl_ws_meta_token_buf' = <<>>
    /\ tpl_info_at_start' = FALSE
    /\ UNCHANGED <<wiki_table_nesting, sol>>

\* A template that may prove empty waits with the newlines before it.
is_held_meta ==
    /\ IsMeta(Token0, "mw:Transclusion") \/ IsMeta(Token0, "mw:Param")
    /\ nl_ws_meta_token_buf # <<>>

on_meta_held ==
    /\ Reads
    /\ is_held_meta
    /\ Holds(<<Token0>>)
    /\ tpl_info_at_start' = is_transclusion_start_meta(Token0)
    /\ UNCHANGED <<wiki_table_nesting, sol>>

on_other ==
    /\ Reads
    /\ Token0.type \in {"Comment", "EmptyLine", "SelfclosingTag"}
    /\ ~is_sol_transparent_link(Token0) /\ ~is_held_meta
    /\ get_result_tokens(<<Token0>>)
    /\ tpl_info_at_start' = is_transclusion_start_meta(Token0)
    /\ UNCHANGED <<wiki_table_nesting, sol>>

Next ==
    \/ on_newline \/ on_end
    \/ on_blank_held \/ on_string_reparsed \/ on_string
    \/ on_stray_tag \/ on_tag
    \/ on_link \/ on_meta_held \/ on_other
=============================================================================
