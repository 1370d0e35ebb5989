----------------------------- MODULE TokenTypes -----------------------------
(***************************************************************************)
(* The tokens of wikitext as the line-based handlers see them. A string is *)
(* known by what the handlers ask of it: "text" is any text that starts    *)
(* with no blank, "indented" a blank and then text, "blank" one blank,     *)
(* "blanks" more than one, "bullet" text that starts with list syntax,     *)
(* "table_start" text that starts with that of a table. `at` is the place  *)
(* in the page the token came from, 0 when a handler made it; `arg` is the *)
(* rest of what it carries: the bullets of a list item, the length of a    *)
(* quote and the word before it, the flags of a tag, or the tokens nested  *)
(* in a compound token.                                                    *)
(***************************************************************************)
EXTENDS Integers, Sequences

Token(type, name, arg) == [type |-> type, name |-> name, at |-> 0, arg |-> arg]

Str(s) == Token("Str", s, <<>>)
Nl == Token("Nl", "", <<>>)
Eof == Token("Eof", "", <<>>)
Tag(name) == Token("Tag", name, <<>>)
EndTag(name) == Token("EndTag", name, <<>>)
Selfclosing(name) == Token("SelfclosingTag", name, <<>>)
Meta(typeof) == Token("SelfclosingTag", "meta", <<typeof>>)
ListItem(bullets) == Token("Tag", "listItem", bullets)
Quote(len, word) == Token("SelfclosingTag", "mw-quote", <<len, word>>)
EmptyLine(tokens) == Token("EmptyLine", "", tokens)
IndentPre(tokens) == Token("IndentPre", "", tokens)
List(tokens) == Token("List", "", tokens)

\* The tokens a page can consist of, besides those that are made of them. A list
\* item has its bullets; the styles are those of a template, which are a fragment:
\* any other has raw text, which is not modelled.
ParsoidTokens ==
    {t \in [type : {"Str", "Nl", "Comment", "Tag", "EndTag", "SelfclosingTag"},
            name : STRING, at : Nat, arg : Seq(STRING)] :
        t.type = "Tag" => /\ t.name = "listItem" => t.arg # <<>>
                          /\ t.name = "style" => t.arg = <<"mw:DOMFragment">>}

At(token, i) == [token EXCEPT !.at = i]

-----------------------------------------------------------------------------

block_elems == {"table", "h2", "pre", "p", "ul", "ol", "dl"}
anti_block_elems == {"td", "th"}
always_block_elems == {"tr", "caption", "dt", "dd", "li"}
never_block_elems == {"center", "blockquote", "div", "hr", "figure"}
wikitext_block_elems ==
    block_elems \cup anti_block_elems \cup always_block_elems \cup never_block_elems

Is(token, type, name) == token.type = type /\ token.name = name
IsMeta(token, typeof) ==
    Is(token, "SelfclosingTag", "meta") /\ token.arg = <<typeof>>

is_whitespace_string(token) == token.type = "Str" /\ token.name \in {"blank", "blanks"}
StartsWithBlank(token) ==
    token.type = "Str" /\ token.name \in {"blank", "blanks", "indented"}
is_block_tag(token) ==
    token.type \in {"Tag", "EndTag"} /\ token.name \in wikitext_block_elems

(* Blanks, comments, empty lines and behaviour switches: what all handlers  *)
(* let pass at the start of a line.                                         *)
is_sol_transparent(token) ==
    \/ is_whitespace_string(token)
    \/ token.type \in {"Comment", "EmptyLine"}
    \/ Is(token, "SelfclosingTag", "behavior-switch")

is_sol_transparent_link(token) == Is(token, "SelfclosingTag", "link")
=============================================================================
