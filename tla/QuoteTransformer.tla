-------------------------- MODULE QuoteTransformer --------------------------
(***************************************************************************)
(* The quotes of a line (quote_transformer_v2.rs): '' and ''' and '''''    *)
(* become <i> and <b>. What a quote means depends on the others of its     *)
(* line, so a line that has one is held back, cut in chunks at its quotes, *)
(* until it ends. Chunks 2, 4, ... are the quotes.                         *)
(***************************************************************************)
EXTENDS TokenTypes, SequencesExt

VARIABLES
    stream,         \* the tokens still to be read
    out,            \* the tokens given to the next handler
    chunks,
    on_any_enabled

vars == <<stream, out, chunks, on_any_enabled>>

Init == chunks = << <<>> >> /\ on_any_enabled = FALSE

-----------------------------------------------------------------------------
(* Where and of which length the quotes of the line are. An odd number of   *)
(* both kinds makes one ''' an apostrophe and a ''.                         *)

Quotes(cs) == {k \in DOMAIN cs : k % 2 = 0}
quote_len(cs, k) == cs[k][1].arg[1]
word(cs, k) == cs[k][1].arg[2]

NumItalics(cs) == Quantify(Quotes(cs), LAMBDA k : quote_len(cs, k) \in {"2", "5"})
NumBold(cs) == Quantify(Quotes(cs), LAMBDA k : quote_len(cs, k) \in {"3", "5"})

FirstBold(cs, w) ==
    LET bolds == {k \in Quotes(cs) : quote_len(cs, k) = "3" /\ word(cs, k) = w}
    IN  IF bolds = {} THEN 0 ELSE Min(bolds)

\* A one-letter word before a '''; else a longer one; else a blank.
BoldToConvert(cs) ==
    LET single == FirstBold(cs, "single")
        multi == FirstBold(cs, "multi")
        space == FirstBold(cs, "space")
    IN  IF single # 0 THEN single ELSE IF multi # 0 THEN multi ELSE space

convert_bold(cs, k) ==
    [cs EXCEPT ![k - 1] = Append(@, Str("apostrophe")),
               ![k] = <<At(Quote("2", ""), cs[k][1].at)>>]

Balance(cs) ==
    IF NumItalics(cs) % 2 = 1 /\ NumBold(cs) % 2 = 1 /\ BoldToConvert(cs) # 0
    THEN convert_bold(cs, BoldToConvert(cs))
    ELSE cs

-----------------------------------------------------------------------------
(* The state machine: which tags are open, and whether the first ''''' has  *)
(* been decided. q is [s, last_both, last, cs]: `last` is the place of the  *)
(* last open tag of each name.                                              *)

NoTag == <<0, 0>>

\* As if a tag never knew that its end is none of the page's.
ForgetsMark(q, name) == q

mark_auto_inserted(q, name) ==
    LET k == q.last[name][1]
        j == q.last[name][2]
    IN  IF q.last[name] = NoTag THEN q
        ELSE [q EXCEPT !.cs[k] = [i \in DOMAIN @ |->
                                     IF i = j THEN [@[i] EXCEPT !.arg = <<"autoEnd">>] ELSE @[i]]]

\* An end tag closes the last open one; a start tag becomes the last.
LastOpen(name, before, k, tags) ==
    LET named == {j \in DOMAIN tags : tags[j].name = name}
    IN  CASE named = {} -> before
          [] named # {} /\ tags[Max(named)].type = "EndTag" -> NoTag
          [] OTHER -> <<k, Max(named)>>

(* Chunk k becomes the tags. With `bogus`, the first of three closes a tag   *)
(* early and the third opens it again: neither is in the source.            *)
quote_to_tag(q, k, tags, bogus) ==
    LET at == q.cs[k][1].at
        marked == IF bogus THEN mark_auto_inserted(q, tags[1].name) ELSE q
    IN  [marked EXCEPT
            !.last = [name \in DOMAIN @ |-> LastOpen(name, @[name], k, tags)],
            !.cs[k] = [j \in DOMAIN tags |->
                          IF bogus /\ j # 2 THEN tags[j] ELSE At(tags[j], at)]]

To(q, s) == [q EXCEPT !.s = s]

OnItalics(q, k) ==
    CASE q.s = "I"     -> To(quote_to_tag(q, k, <<EndTag("i")>>, FALSE), "Empty")
      [] q.s = "Bi"    -> To(quote_to_tag(q, k, <<EndTag("i")>>, FALSE), "B")
      [] q.s = "Ib"    -> To(quote_to_tag(q, k, <<EndTag("b"), EndTag("i"), Tag("b")>>, TRUE), "B")
      [] q.s = "Both"  -> To(quote_to_tag(quote_to_tag(q, q.last_both, <<Tag("b"), Tag("i")>>, FALSE),
                                          k, <<EndTag("i")>>, FALSE), "B")
      [] q.s = "B"     -> To(quote_to_tag(q, k, <<Tag("i")>>, FALSE), "Bi")
      [] q.s = "Empty" -> To(quote_to_tag(q, k, <<Tag("i")>>, FALSE), "I")

OnBold(q, k) ==
    CASE q.s = "B"     -> To(quote_to_tag(q, k, <<EndTag("b")>>, FALSE), "Empty")
      [] q.s = "Ib"    -> To(quote_to_tag(q, k, <<EndTag("b")>>, FALSE), "I")
      [] q.s = "Bi"    -> To(quote_to_tag(q, k, <<EndTag("i"), EndTag("b"), Tag("i")>>, TRUE), "I")
      [] q.s = "Both"  -> To(quote_to_tag(quote_to_tag(q, q.last_both, <<Tag("i"), Tag("b")>>, FALSE),
                                          k, <<EndTag("b")>>, FALSE), "I")
      [] q.s = "I"     -> To(quote_to_tag(q, k, <<Tag("b")>>, FALSE), "Ib")
      [] q.s = "Empty" -> To(quote_to_tag(q, k, <<Tag("b")>>, FALSE), "B")

OnBoth(q, k) ==
    CASE q.s = "B"     -> To(quote_to_tag(q, k, <<EndTag("b"), Tag("i")>>, FALSE), "I")
      [] q.s = "I"     -> To(quote_to_tag(q, k, <<EndTag("i"), Tag("b")>>, FALSE), "B")
      [] q.s = "Bi"    -> To(quote_to_tag(q, k, <<EndTag("i"), EndTag("b")>>, FALSE), "Empty")
      [] q.s = "Ib"    -> To(quote_to_tag(q, k, <<EndTag("b"), EndTag("i")>>, FALSE), "Empty")
      [] q.s = "Both"  -> To(quote_to_tag(quote_to_tag(q, q.last_both, <<Tag("i"), Tag("b")>>, FALSE),
                                          k, <<EndTag("b"), EndTag("i")>>, FALSE), "Empty")
      [] q.s = "Empty" -> [q EXCEPT !.s = "Both", !.last_both = k]

OnQuote(q, k) ==
    CASE quote_len(q.cs, k) = "2" -> OnItalics(q, k)
      [] quote_len(q.cs, k) = "3" -> OnBold(q, k)
      [] quote_len(q.cs, k) = "5" -> OnBoth(q, k)
      [] OTHER -> q

\* A tag that is still open is closed at the end of the line, and marked.
Close(q, name) ==
    LET m == mark_auto_inserted(q, name)
    IN  [m EXCEPT !.cs[Len(m.cs)] = Append(@, EndTag(name))]

CloseAll(q) ==
    CASE q.s = "Both"  -> Close(Close(quote_to_tag(q, q.last_both, <<Tag("b"), Tag("i")>>, FALSE), "i"), "b")
      [] q.s = "B"     -> Close(q, "b")
      [] q.s = "I"     -> Close(q, "i")
      [] q.s = "Ib"    -> Close(Close(q, "b"), "i")
      [] q.s = "Bi"    -> Close(Close(q, "i"), "b")
      [] q.s = "Empty" -> q

convert_quotes_to_tags(cs) ==
    LET start == [s |-> "Empty", last_both |-> 0, last |-> [n \in {"b", "i"} |-> NoTag], cs |-> cs]
        converted[k \in 0..Len(cs)] ==
            IF k = 0 THEN start
            ELSE IF k % 2 = 0 THEN OnQuote(converted[k - 1], k)
            ELSE converted[k - 1]
    IN  CloseAll(converted[Len(cs)]).cs

-----------------------------------------------------------------------------
ends_line(token) ==
    \/ token.type \in {"Nl", "Eof", "EmptyLine"}
    \/ token.type = "Tag" /\ token.name \in {"td", "th"}
is_quote(token) == Is(token, "SelfclosingTag", "mw-quote")

(* The end of a line or of a cell: the held tokens, converted, and the token *)
process_quotes ==
    /\ ends_line(Head(stream))
    /\ out' = IF on_any_enabled
              THEN Append(out \o FlattenSeq(convert_quotes_to_tags(Balance(chunks))), Head(stream))
              ELSE Append(out, Head(stream))
    /\ chunks' = << <<>> >>
    /\ on_any_enabled' = FALSE

on_quote ==
    /\ is_quote(Head(stream))
    /\ chunks' = chunks \o << <<Head(stream)>>, <<>> >>
    /\ on_any_enabled' = TRUE
    /\ UNCHANGED out

on_any ==
    /\ ~ends_line(Head(stream)) /\ ~is_quote(Head(stream))
    /\ IF on_any_enabled
       THEN chunks' = [chunks EXCEPT ![Len(chunks)] = Append(@, Head(stream))] /\ UNCHANGED out
       ELSE out' = Append(out, Head(stream)) /\ UNCHANGED chunks
    /\ UNCHANGED on_any_enabled

Next ==
    /\ stream # <<>> /\ stream' = Tail(stream)
    /\ process_quotes \/ on_quote \/ on_any
=============================================================================
