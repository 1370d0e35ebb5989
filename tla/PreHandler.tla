----------------------------- MODULE PreHandler -----------------------------
(***************************************************************************)
(* Lines that begin with a blank become a <pre> (pre_handler.rs). Its      *)
(* lines are held until one that is none of them; a block tag in a line    *)
(* takes the line out.                                                     *)
(***************************************************************************)
EXTENDS TokenTypes, SequencesExt

VARIABLES
    stream,                 \* the tokens still to be read
    out,                    \* the tokens given to the next handler
    state,
    tokens,                 \* the lines of the <pre> so far
    curr_line_pre_toks,     \* the line that may yet be one
    ws_tk_index             \* the place in it of its first blank, or -1

handler_vars == <<state, tokens, curr_line_pre_toks, ws_tk_index>>
vars == <<stream, out, handler_vars>>

Init ==
    /\ state = "Sol"
    /\ tokens = <<>>
    /\ curr_line_pre_toks = <<>>
    /\ ws_tk_index = -1

-----------------------------------------------------------------------------
new_indent_pre_ws == Meta("mw:IndentPreWS")
is_indent_pre_ws(t) == IsMeta(t, "mw:IndentPreWS")
is_sol_transparent_item(t) == is_sol_transparent(t) \/ Is(t, "SelfclosingTag", "meta")

\* What is left of an indented string behind its first blank.
RestOfString(t) ==
    CASE t.name = "blank" -> <<>>
      [] t.name = "blanks" -> <<At(Str("blank"), t.at)>>
      [] t.name = "indented" -> <<At(Str("text"), t.at)>>

\* A list item cannot be in a <pre>: it is the bullets it was written with.
AsPreText(t) == IF Is(t, "Tag", "listItem") THEN At(Str("bullet"), t.at) ELSE t

\* The last token of the <pre>: what is invisible behind it stays outside.
LastInPre(toks) ==
    LET stops == {k \in 2..Len(toks) :
                    \/ toks[k].type # "Nl" /\ ~is_sol_transparent_item(toks[k])
                    \/ IsMeta(toks[k], "mw:Transclusion/End")}
    IN  IF stops = {} THEN 1 ELSE CHOOSE k \in stops : \A j \in stops : j <= k

gen_pre(toks) ==
    LET last == LastInPre(toks)
        Outside(t) == IF is_indent_pre_ws(t) THEN At(Str("blank"), t.at) ELSE t
    IN  IF toks = <<>> THEN <<>>
        ELSE <<IndentPre(<<Tag("pre")>> \o [k \in 1..last |-> AsPreText(toks[k])]
                             \o <<EndTag("pre")>>)>>
             \o [k \in 1..(Len(toks) - last) |-> Outside(toks[last + k])]

\* The line is none of the <pre>: its first blank is a blank again.
CurrLineAsText ==
    IF ws_tk_index \in 0..(Len(curr_line_pre_toks) - 1)
    THEN [curr_line_pre_toks EXCEPT ![ws_tk_index + 1] = At(Str("blank"), @.at)]
    ELSE curr_line_pre_toks

-----------------------------------------------------------------------------
Token0 == Head(stream)
Reads == stream # <<>> /\ stream' = Tail(stream)
Plain == Token0.type \notin {"Nl", "Eof"}
Emits(toks) == out' = out \o toks

NothingHeld == tokens' = <<>> /\ curr_line_pre_toks' = <<>> /\ ws_tk_index' = -1

purge_buffers == Emits(tokens \o CurrLineAsText \o <<Token0>>) /\ NothingHeld
discard_curr_line_pre == Emits(gen_pre(tokens) \o CurrLineAsText \o <<Token0>>) /\ NothingHeld

on_newline_sol ==
    /\ Reads
    /\ Token0.type = "Nl" /\ state \in {"Sol", "Pre"}
    /\ purge_buffers
    /\ state' = "Sol"

on_newline_pre ==
    /\ Reads
    /\ Token0.type = "Nl" /\ state \in {"PreCollect", "MultilinePre"}
    /\ tokens' = tokens \o curr_line_pre_toks \o <<Token0>>
    /\ curr_line_pre_toks' = <<>>
    /\ ws_tk_index' = -1
    /\ state' = "SolAfterPre"
    /\ UNCHANGED out

on_newline_after_pre ==
    /\ Reads
    /\ Token0.type = "Nl" /\ state = "SolAfterPre"
    /\ discard_curr_line_pre
    /\ state' = "Sol"

on_newline_ignore ==
    /\ Reads
    /\ Token0.type = "Nl" /\ state = "Ignore"
    /\ Emits(<<Token0>>)
    /\ NothingHeld
    /\ state' = "Sol"

on_eof ==
    /\ Reads
    /\ Token0.type = "Eof"
    /\ \/ state \in {"Sol", "Pre"} /\ purge_buffers
       \/ state \in {"SolAfterPre", "MultilinePre"} /\ discard_curr_line_pre
       \/ /\ state = "PreCollect"
          /\ Emits(gen_pre(tokens \o curr_line_pre_toks) \o <<Token0>>)
          /\ NothingHeld
       \/ /\ state = "Ignore"
          /\ Emits(<<Token0>>)
          /\ UNCHANGED <<tokens, curr_line_pre_toks, ws_tk_index>>
    /\ UNCHANGED state

\* The line begins with a blank: it may be one of a <pre>.
IndentedLine(state_of_blank) ==
    /\ StartsWithBlank(Token0)
    /\ ws_tk_index' = Len(curr_line_pre_toks)
    /\ curr_line_pre_toks' =
          curr_line_pre_toks \o <<new_indent_pre_ws>> \o RestOfString(Token0)
    /\ state' = IF Token0.name = "indented" THEN "PreCollect" ELSE state_of_blank

on_any_sol_blank ==
    /\ Reads
    /\ Plain /\ state = "Sol"
    /\ IndentedLine("Pre")
    /\ Emits(tokens)
    /\ tokens' = <<>>

on_any_sol_transparent ==
    /\ Reads
    /\ Plain /\ state = "Sol"
    /\ ~StartsWithBlank(Token0) /\ is_sol_transparent_item(Token0)
    /\ tokens' = Append(tokens, Token0)
    /\ UNCHANGED <<out, state, curr_line_pre_toks, ws_tk_index>>

on_any_sol ==
    /\ Reads
    /\ Plain /\ state = "Sol"
    /\ ~StartsWithBlank(Token0) /\ ~is_sol_transparent_item(Token0)
    /\ purge_buffers
    /\ state' = "Ignore"

on_any_block ==
    /\ Reads
    /\ Plain /\ state \in {"Pre", "PreCollect", "MultilinePre"}
    /\ is_block_tag(Token0)
    /\ IF state = "Pre" THEN purge_buffers ELSE discard_curr_line_pre
    /\ state' = "Ignore"

on_any_pre ==
    /\ Reads
    /\ Plain /\ state \in {"Pre", "PreCollect", "MultilinePre"}
    /\ ~is_block_tag(Token0)
    /\ curr_line_pre_toks' = Append(curr_line_pre_toks, Token0)
    /\ state' = IF is_sol_transparent_item(Token0) THEN state ELSE "PreCollect"
    /\ UNCHANGED <<out, tokens, ws_tk_index>>

on_any_after_pre_blank ==
    /\ Reads
    /\ Plain /\ state = "SolAfterPre"
    /\ IndentedLine("MultilinePre")
    /\ UNCHANGED <<out, tokens>>

on_any_after_pre_transparent ==
    /\ Reads
    /\ Plain /\ state = "SolAfterPre"
    /\ ~StartsWithBlank(Token0) /\ is_sol_transparent_item(Token0)
    /\ curr_line_pre_toks' = Append(curr_line_pre_toks, Token0)
    /\ UNCHANGED <<out, state, tokens, ws_tk_index>>

on_any_after_pre ==
    /\ Reads
    /\ Plain /\ state = "SolAfterPre"
    /\ ~StartsWithBlank(Token0) /\ ~is_sol_transparent_item(Token0)
    /\ discard_curr_line_pre
    /\ state' = "Ignore"

on_any_ignored ==
    /\ Reads
    /\ Plain /\ state = "Ignore"
    /\ Emits(<<Token0>>)
    /\ UNCHANGED handler_vars

Next ==
    \/ on_newline_sol \/ on_newline_pre \/ on_newline_after_pre \/ on_newline_ignore
    \/ on_eof
    \/ on_any_sol_blank \/ on_any_sol_transparent \/ on_any_sol
    \/ on_any_block \/ on_any_pre
    \/ on_any_after_pre_blank \/ on_any_after_pre_transparent \/ on_any_after_pre
    \/ on_any_ignored
=============================================================================
