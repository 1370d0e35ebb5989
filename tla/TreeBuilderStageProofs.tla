----------------------- MODULE TreeBuilderStageProofs -----------------------
(***************************************************************************)
(* What the line-based handlers rely on, for every page, and what comes of *)
(* it in the tree builder.                                                 *)
(***************************************************************************)
EXTENDS TreeBuilderStage, TreeProofs

-----------------------------------------------------------------------------
(* The tokens that come to the list handler.  What they hold themselves     *)
(* (one of Args) is of no matter to it, but for the bullets of an item.     *)

\* The provers do not know that a string is in STRING; these are those the
\* handlers make.
Made ==
    {"Str", "Nl", "Comment", "Tag", "EndTag", "SelfclosingTag", "EmptyLine", "IndentPre", "Eof",
     "", "text", "bullet", "blank", "apostrophe", "table", "listItem", "pre", "meta",
     "b", "i", "mw-quote", "*", "2", "autoEnd", "mw:IndentPreWS"}
Strings == STRING \union Made

Tokens(Args) ==
    {t \in [type : Strings, name : Strings, at : Nat, arg : Args] :
        t.type = "Tag" /\ t.name = "listItem" => t.arg \in Seq(Strings) \ {<<>>}}

LEMMA Literals ==
  /\ "Str" \in Strings /\ "Nl" \in Strings /\ "Comment" \in Strings /\ "Tag" \in Strings /\ "EndTag" \in Strings
  /\ "SelfclosingTag" \in Strings /\ "EmptyLine" \in Strings /\ "IndentPre" \in Strings /\ "Eof" \in Strings
  /\ "" \in Strings /\ "text" \in Strings /\ "bullet" \in Strings /\ "blank" \in Strings
  /\ "apostrophe" \in Strings /\ "table" \in Strings /\ "listItem" \in Strings /\ "pre" \in Strings
  /\ "meta" \in Strings /\ "b" \in Strings /\ "i" \in Strings /\ "mw-quote" \in Strings
  /\ "*" \in Strings /\ "2" \in Strings /\ "autoEnd" \in Strings /\ "mw:IndentPreWS" \in Strings
BY DEF Strings, Made

LEMMA TokensGrow ==
  ASSUME NEW A, NEW B
  PROVE  /\ Tokens(A) \subseteq Tokens(A \union B)
         /\ Seq(Tokens(A)) \subseteq Seq(Tokens(A \union B))
<1>1. Tokens(A) \subseteq Tokens(A \union B)
  BY DEF Tokens
<1> QED BY <1>1, SeqMonotonic

\* A token that only has another place is still one of them.
LEMMA TokenPlaced ==
  ASSUME NEW A, NEW t \in Tokens(A), NEW i \in Nat
  PROVE  /\ [t EXCEPT !.at = i] \in Tokens(A)
         /\ [t EXCEPT !.at = i] = [type |-> t.type, name |-> t.name, at |-> i, arg |-> t.arg]
BY DEF Tokens

LEMMA SeqOne ==
  ASSUME NEW S, NEW x \in S
  PROVE  <<x>> \in Seq(S) /\ <<x>> # <<>>
<1>1. Len(<<x>>) = 1
  OBVIOUS
<1> QED BY <1>1

-----------------------------------------------------------------------------
(* TokenStreamPatcher. *)

PatcherTyped(A) ==
    /\ stream \in Seq(Tokens(A))
    /\ nl_ws_meta_token_buf \in Seq(Tokens(A))
    /\ out \in Seq(Tokens(A))

\* Newlines that become empty lines leave a run of tokens.
LEMMA EmptyLinesTyped ==
  ASSUME NEW A, NEW buf \in Seq(Tokens(A))
  PROVE  \E B : Patcher!EmptyLines(buf) \in Seq(Tokens(A \union B))
<1> DEFINE Line(s) == Patcher!AsEmptyLine(s)
           Kept(s) == Line(s)[1].arg
           metas == {k \in DOMAIN buf : buf[k].type = "SelfclosingTag"}
           first == CHOOSE k \in metas : \A j \in metas : k <= j
           before == SubSeq(buf, 1, first - 1)
           after == SubSeq(buf, first + 1, Len(buf))
           B == {Kept(buf), Kept(before), Kept(after)}
           T == Tokens(A \union B)
<1>1. Tokens(A) \subseteq T
  BY TokensGrow
<1>2. ASSUME NEW s, Kept(s) \in B PROVE Line(s) \in Seq(T)
  <2>1. CASE s = <<>>
    BY <2>1, SeqEmpty DEF Patcher!AsEmptyLine
  <2>2. CASE s # <<>>
    <3>1. PICK x : Line(s) = <<Patcher!EmptyLine(x)>>
      BY <2>2 DEF Patcher!AsEmptyLine
    <3>2. Kept(s) = x
      <4>1. Line(s)[1] = Patcher!EmptyLine(x)
        BY <3>1
      <4>2. Patcher!EmptyLine(x).arg = x
        BY DEF Patcher!EmptyLine, Patcher!Token
      <4> QED BY <4>1, <4>2
    <3>3. Patcher!EmptyLine(x) \in T
      <4>1. x \in A \union B
        BY <1>2, <3>2
      <4> HIDE DEF B
      <4> QED BY <4>1, Literals DEF Patcher!EmptyLine, Patcher!Token, Tokens
    <3> HIDE DEF T
    <3> QED BY <3>1, <3>3, SeqOne
  <2> QED BY <2>1, <2>2
<1>3. CASE metas = {}
  <2>1. Patcher!EmptyLines(buf) = Line(buf)
    BY <1>3 DEF Patcher!EmptyLines
  <2>2. Line(buf) \in Seq(T)
    <3>1. Kept(buf) \in B
      OBVIOUS
    <3> HIDE DEF T, B, Kept, Line
    <3> QED BY <1>2, <3>1
  <2> QED BY <2>1, <2>2
<1>4. CASE metas # {}
  <2>1. Line(before) \in Seq(T) /\ Line(after) \in Seq(T)
    <3>1. Kept(before) \in B /\ Kept(after) \in B
      OBVIOUS
    <3> HIDE DEF T, B, Kept, Line
    <3> QED BY <1>2, <3>1
  <2>2. first \in metas
    <3>1. metas \in SUBSET Nat
      OBVIOUS
    <3> HIDE DEF metas
    <3>2. \E k \in metas : \A j \in metas : ~(j < k)
      BY <1>4, <3>1, LeastNumber
    <3>3. \E k \in metas : \A j \in metas : k <= j
      BY <3>1, <3>2
    <3> QED BY <3>3
  <2>3. <<buf[first]>> \in Seq(T)
    <3>1. buf[first] \in T
      <4>1. first \in 1..Len(buf)
        BY <2>2
      <4>2. buf[first] \in Tokens(A)
        BY <4>1, ElementOfSeq
      <4> HIDE DEF T, first
      <4> QED BY <1>1, <4>2
    <3> HIDE DEF T
    <3> QED BY <3>1, SeqOne
  <2>4. Patcher!EmptyLines(buf) = Line(before) \o <<buf[first]>> \o Line(after)
    BY <1>4 DEF Patcher!EmptyLines
  <2>5. \A p, q, r \in Seq(T) : p \o q \o r \in Seq(T)
    <3> HIDE DEF T
    <3> QED OBVIOUS
  <2> HIDE DEF T, Line, first, before, after
  <2>6. Patcher!EmptyLines(buf) \in Seq(T)
    BY <2>1, <2>3, <2>4, <2>5
  <2> QED BY <2>6 DEF T
<1> QED BY <1>3, <1>4

LEMMA PatcherStep ==
  ASSUME NEW A, Seq(Strings) \subseteq A, PatcherTyped(A), Patcher!Next
  PROVE  \E B : PatcherTyped(A \union B)'
<1> DEFINE T == Tokens(A)
<1> USE DEF PatcherTyped, Patcher!Reads, Patcher!Holds, Patcher!get_result_tokens, Patcher!Token0
<1>0. <<>> \in A
  BY SeqEmpty
<1> HIDE DEF T
<1>a. ASSUME stream # <<>> PROVE Head(stream) \in T /\ Tail(stream) \in Seq(T)
  BY <1>a, HeadTailProperties DEF T
<1>1. ASSUME Patcher!on_string_reparsed PROVE PatcherTyped(A)'
  <2>1. Patcher!Nl \in T
    BY <1>0, Literals DEF Patcher!Nl, Patcher!Token, T, Tokens
  <2>2. Patcher!reprocess_tokens(Head(stream)) \in Seq(T)
    <3> DEFINE t == Head(stream)
    <3>1. t.at \in Nat
      BY <1>a, <1>1 DEF Patcher!on_string_reparsed, T, Tokens
    <3>2. \A x \in T : Patcher!At(x, t.at) \in T
      BY <3>1, TokenPlaced DEF Patcher!At, T
    <3>3. Patcher!Str("text") \in T /\ Patcher!Tag("table") \in T
      BY <1>0, Literals DEF Patcher!Str, Patcher!Tag, Patcher!Token, T, Tokens
    <3>4. Patcher!ListItem(<<"*">>) \in T
      <4>1. <<"*">> \in Seq(Strings) /\ <<"*">> # <<>>
        BY Literals, SeqOne
      <4> QED BY <4>1, Literals DEF Patcher!ListItem, Patcher!Token, T, Tokens
    <3> HIDE DEF t
    <3> QED BY <3>2, <3>3, <3>4 DEF Patcher!reprocess_tokens, t
  <2> QED BY <1>a, <1>1, <2>1, <2>2 DEF Patcher!on_string_reparsed, T
<1>2. ASSUME Patcher!on_stray_tag PROVE PatcherTyped(A)'
  <2>1. Patcher!At(Patcher!Str("text"), Head(stream).at) \in T
    <3>1. Head(stream).at \in Nat
      BY <1>a, <1>2 DEF Patcher!on_stray_tag, T, Tokens
    <3>2. Patcher!Str("text") \in T
      BY <1>0, Literals DEF Patcher!Str, Patcher!Token, T, Tokens
    <3> QED BY <3>1, <3>2, TokenPlaced DEF Patcher!At, T
  <2> QED BY <1>a, <1>2, <2>1 DEF Patcher!on_stray_tag, T
<1>3. ASSUME Patcher!on_link PROVE \E B : PatcherTyped(A \union B)'
  <2>1. PICK B : Patcher!EmptyLines(nl_ws_meta_token_buf) \in Seq(Tokens(A \union B))
    BY EmptyLinesTyped
  <2> DEFINE U == Tokens(A \union B)
  <2>2. T \subseteq U /\ Seq(T) \subseteq Seq(U)
    BY TokensGrow DEF T
  <2> HIDE DEF U
  <2>3. Head(stream) \in U /\ Tail(stream) \in Seq(U) /\ out \in Seq(U)
    BY <1>a, <1>3, <2>2 DEF Patcher!on_link, T
  <2>4. <<Head(stream)>> \in Seq(U)
    BY <2>3, SeqOne
  <2>5. stream' = Tail(stream) /\ nl_ws_meta_token_buf' = <<>>
        /\ out' = out \o Patcher!EmptyLines(nl_ws_meta_token_buf) \o <<Head(stream)>>
    BY <1>3 DEF Patcher!on_link
  <2>6. out' \in Seq(U)
    BY <2>1, <2>3, <2>4, <2>5 DEF U
  <2>7. nl_ws_meta_token_buf' \in Seq(U)
    BY <2>5, SeqEmpty
  <2> QED BY <2>3, <2>5, <2>6, <2>7 DEF U
<1>4. ASSUME Patcher!Next, ~Patcher!on_string_reparsed, ~Patcher!on_stray_tag, ~Patcher!on_link
      PROVE  PatcherTyped(A)'
  <2>1. CASE Patcher!on_newline
    BY <1>a, <2>1 DEF Patcher!on_newline, T
  <2>2. CASE Patcher!on_end
    BY <1>a, <2>2 DEF Patcher!on_end, T
  <2>3. CASE Patcher!on_blank_held
    BY <1>a, <2>3 DEF Patcher!on_blank_held, T
  <2>4. CASE Patcher!on_string
    BY <1>a, <2>4 DEF Patcher!on_string, T
  <2>5. CASE Patcher!on_tag
    BY <1>a, <2>5 DEF Patcher!on_tag, T
  <2>6. CASE Patcher!on_meta_held
    BY <1>a, <2>6 DEF Patcher!on_meta_held, T
  <2>7. CASE Patcher!on_other
    BY <1>a, <2>7 DEF Patcher!on_other, T
  <2> QED BY <1>4, <2>1, <2>2, <2>3, <2>4, <2>5, <2>6, <2>7 DEF Patcher!Next
<1>5. A \union {} = A
  OBVIOUS
<1>6. CASE PatcherTyped(A)'
  <2>1. PatcherTyped(A \union {})'
    BY <1>5, <1>6
  <2> QED BY <2>1
<1> QED BY <1>1, <1>2, <1>3, <1>4, <1>6

-----------------------------------------------------------------------------
(* PreHandler. *)

PreTyped(A) ==
    /\ stream \in Seq(Tokens(A))
    /\ out \in Seq(Tokens(A))
    /\ tokens \in Seq(Tokens(A))
    /\ curr_line_pre_toks \in Seq(Tokens(A))
    /\ ws_tk_index \in Int

\* The last token of a pre is one of its tokens.
LEMMA LastInPreTyped ==
  ASSUME NEW T, NEW toks \in Seq(T), toks # <<>>
  PROVE  Pre!LastInPre(toks) \in 1..Len(toks)
<1> DEFINE stops == {k \in 2..Len(toks) :
                        \/ toks[k].type # "Nl" /\ ~Pre!is_sol_transparent_item(toks[k])
                        \/ Pre!IsMeta(toks[k], "mw:Transclusion/End")}
           last == CHOOSE k \in stops : \A j \in stops : j <= k
<1>0. Len(toks) \in Nat \ {0}
  OBVIOUS
<1>1. CASE stops = {}
  BY <1>0, <1>1 DEF Pre!LastInPre
<1>2. CASE stops # {}
  <2>1. stops \subseteq 2..Len(toks)
    OBVIOUS
  <2>2. Pre!LastInPre(toks) = last
    BY <1>2 DEF Pre!LastInPre
  <2> HIDE DEF stops
  <2> DEFINE n == Len(toks)
             S == {j \in 0..n : n - j \in stops}
  <2>a. n \in Nat /\ stops \subseteq 2..n
    BY <1>0, <2>1
  <2> HIDE DEF n
  <2>b. \A k \in stops : n - k \in S
    BY <2>a
  <2>3. S \in SUBSET Nat /\ S # {}
    <3>1. S # {}
      BY <1>2, <2>b
    <3>2. S \subseteq Nat
      OBVIOUS
    <3> QED BY <3>1, <3>2
  <2>4. PICK x \in S : \A y \in S : ~(y < x)
    <3> HIDE DEF S
    <3> QED BY <2>3, LeastNumber
  <2>5. n - x \in stops
    OBVIOUS
  <2>6. \A j \in stops : j <= n - x
    <3> SUFFICES ASSUME NEW j \in stops PROVE j <= n - x
      OBVIOUS
    <3>1. ~(n - j < x)
      BY <2>4, <2>b
    <3> QED BY <2>a, <3>1
  <2>7. last \in stops
    BY <2>5, <2>6
  <2>8. last \in 1..n
    <3> HIDE DEF last
    <3> QED BY <2>a, <2>7
  <2> QED BY <2>2, <2>8 DEF n
<1> QED BY <1>1, <1>2

\* A pre, and what stays outside of it, are a run of tokens.
LEMMA GenPreTyped ==
  ASSUME NEW A, Seq(Strings) \subseteq A, NEW toks \in Seq(Tokens(A))
  PROVE  \E B : Pre!gen_pre(toks) \in Seq(Tokens(A \union B))
<1> DEFINE last == Pre!LastInPre(toks)
           Outside(t) == IF Pre!is_indent_pre_ws(t) THEN Pre!At(Pre!Str("blank"), t.at) ELSE t
           in == <<Pre!Tag("pre")>> \o [k \in 1..last |-> Pre!AsPreText(toks[k])]
                     \o <<Pre!EndTag("pre")>>
           outside == [k \in 1..(Len(toks) - last) |-> Outside(toks[last + k])]
           T == Tokens(A \union {in})
<1>0. <<>> \in A
  BY SeqEmpty
<1>1. Tokens(A) \subseteq T
  BY TokensGrow
<1>2. CASE toks = <<>>
  <2>1. Pre!gen_pre(toks) \in Seq(T)
    BY <1>2, SeqEmpty DEF Pre!gen_pre
  <2> QED BY <2>1
<1>3. CASE toks # <<>>
  <2>1. last \in 1..Len(toks)
    BY <1>3, LastInPreTyped
  <2>2. ASSUME NEW k \in 1..(Len(toks) - last) PROVE Outside(toks[last + k]) \in T
    <3>1. toks[last + k] \in Tokens(A)
      <4>1. last + k \in 1..Len(toks)
        BY <2>1
      <4> QED BY <4>1, ElementOfSeq
    <3>2. toks[last + k].at \in Nat
      BY <3>1 DEF Tokens
    <3>3. Pre!Str("blank") \in Tokens(A)
      BY <1>0, Literals DEF Pre!Str, Pre!Token, Tokens
    <3>4. Pre!At(Pre!Str("blank"), toks[last + k].at) \in Tokens(A)
      BY <3>2, <3>3, TokenPlaced DEF Pre!At
    <3> HIDE DEF T
    <3> QED BY <1>1, <3>1, <3>4
  <2>3. outside \in Seq(T)
    <3>1. outside \in [1..(Len(toks) - last) -> T]
      <4> HIDE DEF T, Outside, last
      <4> QED BY <2>2
    <3>2. Len(toks) - last \in Nat
      BY <2>1
    <3> HIDE DEF outside, T, last
    <3> QED BY <3>1, <3>2, SeqOfFunction
  <2>4. Pre!IndentPre(in) \in T
    <3>1. in \in A \union {in}
      OBVIOUS
    <3> HIDE DEF in
    <3> QED BY <3>1, Literals DEF Pre!IndentPre, Pre!Token, Tokens
  <2>5. Pre!gen_pre(toks) = <<Pre!IndentPre(in)>> \o outside
    BY <1>3 DEF Pre!gen_pre
  <2>6. <<Pre!IndentPre(in)>> \in Seq(T)
    <3> HIDE DEF T, in
    <3> QED BY <2>4, SeqOne
  <2>7. Pre!gen_pre(toks) \in Seq(T)
    <3> HIDE DEF T, in, outside
    <3> QED BY <2>3, <2>5, <2>6
  <2> QED BY <2>7
<1> QED BY <1>2, <1>3

\* The line that is none of a pre is a run of tokens as it was.
LEMMA CurrLineTyped ==
  ASSUME NEW A, Seq(Strings) \subseteq A, PreTyped(A)
  PROVE  Pre!CurrLineAsText \in Seq(Tokens(A))
<1>1. CASE ws_tk_index \in 0..(Len(curr_line_pre_toks) - 1)
  <2> DEFINE i == ws_tk_index + 1
             blank == Pre!At(Pre!Str("blank"), curr_line_pre_toks[i].at)
  <2>1. i \in 1..Len(curr_line_pre_toks)
    BY <1>1 DEF PreTyped
  <2>2. curr_line_pre_toks[i] \in Tokens(A)
    BY <2>1, ElementOfSeq DEF PreTyped
  <2>3. <<>> \in A
    BY SeqEmpty
  <2>4. Pre!Str("blank") \in Tokens(A)
    BY <2>3, Literals DEF Pre!Str, Pre!Token, Tokens
  <2>5. curr_line_pre_toks[i].at \in Nat
    BY <2>2 DEF Tokens
  <2>6. blank \in Tokens(A)
    BY <2>4, <2>5, TokenPlaced DEF Pre!At
  <2>7. Pre!CurrLineAsText = [curr_line_pre_toks EXCEPT ![i] = blank]
    BY <1>1 DEF Pre!CurrLineAsText
  <2> HIDE DEF blank, i
  <2> QED BY <2>1, <2>6, <2>7, ExceptSeq DEF PreTyped
<1>2. CASE ws_tk_index \notin 0..(Len(curr_line_pre_toks) - 1)
  BY <1>2 DEF Pre!CurrLineAsText, PreTyped
<1> QED BY <1>1, <1>2

LEMMA ReadTyped ==
  ASSUME NEW A, stream \in Seq(Tokens(A)), stream # <<>>
  PROVE  Head(stream) \in Tokens(A) /\ <<Head(stream)>> \in Seq(Tokens(A))
         /\ Tail(stream) \in Seq(Tokens(A))
BY HeadTailProperties, SeqOne

LEMMA NothingHeldTyped ==
  ASSUME NEW A, Pre!NothingHeld
  PROVE  /\ tokens' \in Seq(Tokens(A)) /\ curr_line_pre_toks' \in Seq(Tokens(A))
         /\ ws_tk_index' \in Int
BY SeqEmpty DEF Pre!NothingHeld

LEMMA PurgeTyped ==
  ASSUME NEW A, Seq(Strings) \subseteq A, PreTyped(A), Pre!Reads, Pre!purge_buffers
  PROVE  PreTyped(A)'
<1> DEFINE T == Tokens(A)
<1>1. Pre!CurrLineAsText \in Seq(T)
  BY CurrLineTyped
<1>2. <<Head(stream)>> \in Seq(T) /\ stream' \in Seq(T)
  BY ReadTyped DEF PreTyped, Pre!Reads
<1>3. tokens \in Seq(T) /\ out \in Seq(T)
  BY DEF PreTyped
<1>4. out' = out \o (tokens \o Pre!CurrLineAsText \o <<Head(stream)>>)
  BY DEF Pre!purge_buffers, Pre!Emits, Pre!Token0
<1>5. out' \in Seq(T)
  <2> HIDE DEF T
  <2> QED BY <1>1, <1>2, <1>3, <1>4
<1> QED BY <1>2, <1>5, NothingHeldTyped DEF PreTyped, Pre!purge_buffers

\* What is given out after a pre is a run of tokens.
LEMMA PreGivenTyped ==
  ASSUME NEW A, Seq(Strings) \subseteq A, PreTyped(A), Pre!Reads, Pre!NothingHeld,
         NEW held \in Seq(Tokens(A)), NEW rest \in Seq(Tokens(A)),
         out' = out \o (Pre!gen_pre(held) \o rest \o <<Head(stream)>>)
  PROVE  \E B : PreTyped(A \union B)'
<1>1. PICK B : Pre!gen_pre(held) \in Seq(Tokens(A \union B))
  BY GenPreTyped
<1> DEFINE T == Tokens(A \union B)
<1>2. Tokens(A) \subseteq T /\ Seq(Tokens(A)) \subseteq Seq(T)
  BY TokensGrow
<1>3. <<Head(stream)>> \in Seq(T) /\ stream' \in Seq(T)
  BY <1>2, ReadTyped DEF PreTyped, Pre!Reads
<1>4. out \in Seq(T) /\ rest \in Seq(T)
  BY <1>2 DEF PreTyped
<1>5. out' \in Seq(T)
  <2> HIDE DEF T
  <2> QED BY <1>1, <1>3, <1>4 DEF T
<1>6. PreTyped(A \union B)'
  BY <1>3, <1>5, NothingHeldTyped DEF PreTyped
<1> QED BY <1>6

LEMMA DiscardTyped ==
  ASSUME NEW A, Seq(Strings) \subseteq A, PreTyped(A), Pre!Reads, Pre!discard_curr_line_pre
  PROVE  \E B : PreTyped(A \union B)'
<1>1. Pre!CurrLineAsText \in Seq(Tokens(A)) /\ tokens \in Seq(Tokens(A))
  BY CurrLineTyped DEF PreTyped
<1>2. Pre!NothingHeld
      /\ out' = out \o (Pre!gen_pre(tokens) \o Pre!CurrLineAsText \o <<Head(stream)>>)
  BY DEF Pre!discard_curr_line_pre, Pre!Emits, Pre!Token0
<1> QED BY <1>1, <1>2, PreGivenTyped

LEMMA IndentedTyped ==
  ASSUME NEW A, Seq(Strings) \subseteq A, PreTyped(A), Pre!Reads, NEW s, Pre!IndentedLine(s)
  PROVE  curr_line_pre_toks' \in Seq(Tokens(A)) /\ ws_tk_index' \in Int
<1> DEFINE T == Tokens(A)
           t == Head(stream)
<1>0. <<>> \in A
  BY SeqEmpty
<1>1. t.at \in Nat
  BY ReadTyped DEF PreTyped, Pre!Reads, Tokens
<1>2. Pre!new_indent_pre_ws \in T
  <2>1. <<"mw:IndentPreWS">> \in Seq(Strings)
    BY SeqOne, Literals
  <2> QED BY <2>1, Literals DEF Pre!new_indent_pre_ws, Pre!Meta, Pre!Token, Tokens
<1>3. Pre!Str("blank") \in T /\ Pre!Str("text") \in T
  BY <1>0, Literals DEF Pre!Str, Pre!Token, Tokens
<1>4. Pre!At(Pre!Str("blank"), t.at) \in T /\ Pre!At(Pre!Str("text"), t.at) \in T
  BY <1>1, <1>3, TokenPlaced DEF Pre!At
<1>5. Pre!RestOfString(t) \in Seq(T)
  <2>1. t.name \in {"blank", "blanks", "indented"}
    BY DEF Pre!IndentedLine, Pre!StartsWithBlank, Pre!Token0
  <2> HIDE DEF T, t
  <2> QED BY <1>4, <2>1, SeqOne, SeqEmpty DEF Pre!RestOfString
<1>6. <<Pre!new_indent_pre_ws>> \in Seq(T)
  <2> HIDE DEF T
  <2> QED BY <1>2, SeqOne
<1>7. curr_line_pre_toks \in Seq(T)
  BY DEF PreTyped
<1>8. curr_line_pre_toks' = curr_line_pre_toks \o <<Pre!new_indent_pre_ws>> \o Pre!RestOfString(t)
      /\ ws_tk_index' = Len(curr_line_pre_toks)
  BY DEF Pre!IndentedLine, Pre!Token0
<1> HIDE DEF T, t
<1>9. curr_line_pre_toks' \in Seq(T) /\ ws_tk_index' \in Int
  BY <1>5, <1>6, <1>7, <1>8
<1> QED BY <1>9 DEF T

LEMMA PreStep ==
  ASSUME NEW A, Seq(Strings) \subseteq A, PreTyped(A), Pre!Next
  PROVE  \E B : PreTyped(A \union B)'
<1> DEFINE T == Tokens(A)
<1>0. Pre!Reads
  BY DEF Pre!Next, Pre!on_newline_sol, Pre!on_newline_pre, Pre!on_newline_after_pre,
         Pre!on_newline_ignore, Pre!on_eof, Pre!on_any_sol_blank, Pre!on_any_sol_transparent,
         Pre!on_any_sol, Pre!on_any_block, Pre!on_any_pre, Pre!on_any_after_pre_blank,
         Pre!on_any_after_pre_transparent, Pre!on_any_after_pre, Pre!on_any_ignored
<1>1. ASSUME PreTyped(A)' PROVE \E B : PreTyped(A \union B)'
  <2>1. A \union {} = A
    OBVIOUS
  <2>2. PreTyped(A \union {})'
    BY <1>1, <2>1
  <2> QED BY <2>2
<1>2. Head(stream) \in T /\ <<Head(stream)>> \in Seq(T) /\ stream' \in Seq(T)
  BY <1>0, ReadTyped DEF PreTyped, Pre!Reads
<1>3. stream \in Seq(T) /\ out \in Seq(T) /\ tokens \in Seq(T) /\ curr_line_pre_toks \in Seq(T)
      /\ ws_tk_index \in Int
  BY DEF PreTyped
<1>4. ASSUME out' \in Seq(T), tokens' \in Seq(T), curr_line_pre_toks' \in Seq(T),
             ws_tk_index' \in Int
      PROVE  \E B : PreTyped(A \union B)'
  BY <1>1, <1>2, <1>4 DEF PreTyped
<1>5. \A p, q \in Seq(T) : p \o q \in Seq(T)
  <2> HIDE DEF T
  <2> QED OBVIOUS
<1>6. \A p \in Seq(T) : \A x \in T : Append(p, x) \in Seq(T)
  <2> HIDE DEF T
  <2> QED OBVIOUS
<1>7. Pre!NothingHeld =>
         tokens' \in Seq(T) /\ curr_line_pre_toks' \in Seq(T) /\ ws_tk_index' \in Int
  BY NothingHeldTyped
<1>8. \A s : Pre!IndentedLine(s) => curr_line_pre_toks' \in Seq(T) /\ ws_tk_index' \in Int
  BY <1>0, IndentedTyped
<1>9. Pre!purge_buffers \/ Pre!discard_curr_line_pre => \E B : PreTyped(A \union B)'
  BY <1>0, <1>1, PurgeTyped, DiscardTyped
<1>10. <<>> \in Seq(T) /\ -1 \in Int
  BY SeqEmpty
<1> USE DEF Pre!Token0, Pre!Emits
<1> HIDE DEF T
<1>11. CASE Pre!on_newline_sol
  BY <1>9, <1>11 DEF Pre!on_newline_sol
<1>12. CASE Pre!on_newline_pre
  BY <1>2, <1>3, <1>4, <1>5, <1>10, <1>12 DEF Pre!on_newline_pre
<1>13. CASE Pre!on_newline_after_pre
  BY <1>9, <1>13 DEF Pre!on_newline_after_pre
<1>14. CASE Pre!on_newline_ignore
  BY <1>2, <1>3, <1>4, <1>5, <1>7, <1>14 DEF Pre!on_newline_ignore
<1>15. CASE Pre!on_eof
  <2>1. CASE Pre!purge_buffers \/ Pre!discard_curr_line_pre
    BY <1>9, <2>1
  <2>2. CASE Pre!Emits(<<Pre!Token0>>)
             /\ UNCHANGED <<tokens, curr_line_pre_toks, ws_tk_index>>
    BY <1>2, <1>3, <1>4, <1>5, <2>2
  <2>3. CASE Pre!Emits(Pre!gen_pre(tokens \o curr_line_pre_toks) \o <<Pre!Token0>>)
             /\ Pre!NothingHeld
    <3>1. tokens \o curr_line_pre_toks \in Seq(Tokens(A))
      BY <1>3, <1>5 DEF T
    <3>2. PICK B : Pre!gen_pre(tokens \o curr_line_pre_toks) \in Seq(Tokens(A \union B))
      BY <3>1, GenPreTyped
    <3> DEFINE U == Tokens(A \union B)
    <3>3. Seq(T) \subseteq Seq(U)
      BY TokensGrow DEF T
    <3>4. tokens' \in Seq(U) /\ curr_line_pre_toks' \in Seq(U) /\ ws_tk_index' \in Int
      BY <1>7, <2>3, <3>3
    <3>5. stream' \in Seq(U) /\ out \in Seq(U) /\ <<Head(stream)>> \in Seq(U)
      BY <1>2, <1>3, <3>3
    <3>6. out' \in Seq(U)
      <4> HIDE DEF U
      <4> QED BY <2>3, <3>2, <3>5 DEF U
    <3>7. PreTyped(A \union B)'
      BY <3>4, <3>5, <3>6 DEF PreTyped
    <3> QED BY <3>7
  <2> QED BY <1>15, <2>1, <2>2, <2>3 DEF Pre!on_eof
<1>16. CASE Pre!on_any_sol_blank
  BY <1>3, <1>4, <1>5, <1>8, <1>10, <1>16 DEF Pre!on_any_sol_blank
<1>17. CASE Pre!on_any_sol_transparent
  BY <1>2, <1>3, <1>4, <1>6, <1>17 DEF Pre!on_any_sol_transparent
<1>18. CASE Pre!on_any_sol
  BY <1>9, <1>18 DEF Pre!on_any_sol
<1>19. CASE Pre!on_any_block
  BY <1>9, <1>19 DEF Pre!on_any_block
<1>20. CASE Pre!on_any_pre
  BY <1>2, <1>3, <1>4, <1>6, <1>20 DEF Pre!on_any_pre
<1>21. CASE Pre!on_any_after_pre_blank
  BY <1>3, <1>4, <1>8, <1>21 DEF Pre!on_any_after_pre_blank
<1>22. CASE Pre!on_any_after_pre_transparent
  BY <1>2, <1>3, <1>4, <1>6, <1>22 DEF Pre!on_any_after_pre_transparent
<1>23. CASE Pre!on_any_after_pre
  BY <1>9, <1>23 DEF Pre!on_any_after_pre
<1>24. CASE Pre!on_any_ignored
  BY <1>2, <1>3, <1>4, <1>5, <1>24 DEF Pre!on_any_ignored, Pre!handler_vars
<1> QED BY <1>11, <1>12, <1>13, <1>14, <1>15, <1>16, <1>17, <1>18, <1>19, <1>20, <1>21, <1>22,
           <1>23, <1>24 DEF Pre!Next

-----------------------------------------------------------------------------
(* QuoteTransformer.  Every second chunk is a quote, or the tags made of it: *)
(* it is not empty.                                                         *)

Chunked(cs, T) ==
    /\ cs \in Seq(Seq(T))
    /\ \A k \in 1..Len(cs) : k % 2 = 0 => cs[k] # <<>>

QuoteTyped(A) ==
    /\ stream \in Seq(Tokens(A))
    /\ out \in Seq(Tokens(A))
    /\ Chunked(chunks, Tokens(A))
    /\ Len(chunks) % 2 = 1

\* A line that is being converted, of n chunks.
LineTyped(q, n, T) ==
    /\ q \in [s : {"Empty", "B", "I", "Bi", "Ib", "Both"}, last_both : {q.last_both},
              last : {q.last}, cs : Seq(Seq(T))]
    /\ Chunked(q.cs, T)
    /\ Len(q.cs) = n
    /\ q.s = "Both" => q.last_both \in 1..n /\ q.last_both % 2 = 0

\* Chunks or a line of which chunk k is another one. (Names for the provers,
\* which do not find the terms they abbreviate in a lemma.)
Exchanged(d, cs, k, new) == d = [cs EXCEPT ![k] = new]
Fits(new, k, n) == k \in 1..n /\ k % 2 = 0 => new # <<>>
WithChunk(m, q, k, new) == m = [q EXCEPT !.cs[k] = new]

\* A chunk that is exchanged leaves chunks.
LEMMA ChunkExchanged ==
  ASSUME NEW T, NEW cs, Chunked(cs, T), NEW n, Len(cs) = n,
         NEW k, NEW new \in Seq(T), Fits(new, k, n),
         NEW d, Exchanged(d, cs, k, new)
  PROVE  Chunked(d, T) /\ Len(d) = n
<1>0. cs \in Seq(Seq(T)) /\ DOMAIN cs = 1..Len(cs) /\ Len(cs) \in Nat
  BY LenProperties DEF Chunked
<1>1. CASE k \in 1..Len(cs)
  <2>0. d = [cs EXCEPT ![k] = new]
    BY DEF Exchanged
  <2>1. /\ [cs EXCEPT ![k] = new] \in Seq(Seq(T))
        /\ Len([cs EXCEPT ![k] = new]) = Len(cs)
        /\ \A j \in 1..Len(cs) : [cs EXCEPT ![k] = new][j] = IF j = k THEN new ELSE cs[j]
    BY <1>0, <1>1, ExceptSeq
  <2>2. d \in Seq(Seq(T)) /\ Len(d) = Len(cs) /\ \A j \in 1..Len(cs) : d[j] = IF j = k THEN new ELSE cs[j]
    BY <2>0, <2>1
  <2> QED BY <1>1, <2>2 DEF Chunked, Fits
<1>2. CASE k \notin 1..Len(cs)
  <2>1. [cs EXCEPT ![k] = new] = cs
    BY <1>0, <1>2
  <2> QED BY <2>1 DEF Exchanged
<1> QED BY <1>1, <1>2

LEMMA NotExchanged ==
  ASSUME NEW S, NEW cs \in Seq(S), NEW k, k \notin 1..Len(cs), NEW new
  PROVE  [cs EXCEPT ![k] = new] = cs
BY LenProperties

LEMMA ChunkAt ==
  ASSUME NEW A, NEW cs, Chunked(cs, Tokens(A)), NEW k \in 1..Len(cs), k % 2 = 0
  PROVE  cs[k][1] \in Tokens(A) /\ cs[k][1].at \in Nat
<1>1. cs[k] \in Seq(Tokens(A)) /\ cs[k] # <<>>
  BY DEF Chunked
<1>2. Len(cs[k]) \in Nat \ {0}
  BY <1>1, EmptySeq
<1>3. cs[k][1] \in Tokens(A)
  BY <1>1, <1>2, ElementOfSeq
<1> QED BY <1>3 DEF Tokens

\* A line of which one chunk is exchanged.
LEMMA LineExchanged ==
  ASSUME NEW T, NEW n, NEW q, LineTyped(q, n, T), NEW k, NEW new \in Seq(T),
         Fits(new, k, n),
         NEW m, WithChunk(m, q, k, new)
  PROVE  /\ LineTyped(m, n, T)
         /\ m.s = q.s /\ m.last_both = q.last_both /\ m.last = q.last
<1>1. Chunked(q.cs, T) /\ Len(q.cs) = n
  BY DEF LineTyped
<1> DEFINE cs == q.cs
           d == [cs EXCEPT ![k] = new]
<1>2. Chunked(d, T) /\ Len(d) = n
  <2>1. Chunked(cs, T) /\ Len(cs) = n
    BY <1>1
  <2>2. Exchanged(d, cs, k, new)
    BY DEF Exchanged
  <2> HIDE DEF cs, d
  <2> QED BY <2>1, <2>2, ChunkExchanged
<1>3. m = [q EXCEPT !.cs = d]
  BY DEF WithChunk
<1>4. q = [s |-> q.s, last_both |-> q.last_both, last |-> q.last, cs |-> q.cs]
  BY DEF LineTyped
<1>5. d \in Seq(Seq(T))
  BY <1>2 DEF Chunked
<1> HIDE DEF d
<1>6. m = [s |-> q.s, last_both |-> q.last_both, last |-> q.last, cs |-> d]
  BY <1>3, <1>4
<1>7. LineTyped(m, n, T) /\ m.s = q.s /\ m.last_both = q.last_both /\ m.last = q.last
  BY <1>2, <1>5, <1>6 DEF LineTyped
<1> QED BY <1>7

LEMMA MarkTyped ==
  ASSUME NEW A, Seq(Strings) \subseteq A, NEW n, NEW q, LineTyped(q, n, Tokens(A)), NEW name
  PROVE  /\ LineTyped(Quoting!mark_auto_inserted(q, name), n, Tokens(A))
         /\ Quoting!mark_auto_inserted(q, name).s = q.s
         /\ Quoting!mark_auto_inserted(q, name).last_both = q.last_both
         /\ Quoting!mark_auto_inserted(q, name).last = q.last
<1> DEFINE T == Tokens(A)
           k == q.last[name][1]
           j == q.last[name][2]
           Marked(t) == [t EXCEPT !.arg = <<"autoEnd">>]
           new == [i \in DOMAIN q.cs[k] |-> IF i = j THEN Marked(q.cs[k][i]) ELSE q.cs[k][i]]
           m == Quoting!mark_auto_inserted(q, name)
<1>1. CASE q.last[name] = Quoting!NoTag
  BY <1>1 DEF Quoting!mark_auto_inserted
<1>2. CASE q.last[name] # Quoting!NoTag
  <2>1. m = [q EXCEPT !.cs[k] = new]
    BY <1>2 DEF Quoting!mark_auto_inserted
  <2>2. Chunked(q.cs, T) /\ Len(q.cs) = n /\ n \in Nat
    BY DEF LineTyped, Chunked
  <2>3. CASE k \in 1..n
    <3> DEFINE c == q.cs[k]
    <3>1. c \in Seq(T) /\ Len(c) \in Nat /\ DOMAIN c = 1..Len(c)
      BY <2>2, <2>3, LenProperties DEF Chunked
    <3>2. \A t \in T : Marked(t) \in T
      <4>1. <<"autoEnd">> \in Seq(Strings) \ {<<>>}
        BY Literals, SeqOne
      <4> QED BY <4>1 DEF Tokens
    <3>3. \A i \in 1..Len(c) : c[i] \in T
      BY <3>1, ElementOfSeq
    <3> HIDE DEF T, Marked, c
    <3>4. new = [i \in 1..Len(c) |-> IF i = j THEN Marked(c[i]) ELSE c[i]]
      BY <3>1 DEF c
    <3>5. new \in [1..Len(c) -> T]
      BY <3>2, <3>3, <3>4
    <3>6. new \in Seq(T) /\ Len(new) = Len(c)
      <4> HIDE DEF new
      <4> QED BY <3>1, <3>5, SeqOfFunction
    <3>7. k % 2 = 0 => new # <<>>
      <4>1. k % 2 = 0 => c # <<>>
        BY <2>2, <2>3 DEF Chunked, c
      <4>2. c # <<>> => Len(c) # 0
        BY <3>1
      <4> HIDE DEF new
      <4> QED BY <3>6, <4>1, <4>2
    <3>8. WithChunk(m, q, k, new)
      BY <2>1 DEF WithChunk
    <3>9. LineTyped(q, n, T) /\ Fits(new, k, n)
      BY <3>7 DEF T, Fits
    <3> HIDE DEF new, k, m
    <3>10. /\ LineTyped(m, n, T)
           /\ m.s = q.s /\ m.last_both = q.last_both /\ m.last = q.last
      BY <3>6, <3>8, <3>9, LineExchanged
    <3> QED BY <3>10 DEF T, m
  <2>4. CASE k \notin 1..n
    <3>1. q.cs \in Seq(Seq(T)) /\ k \notin 1..Len(q.cs)
      BY <2>2, <2>4 DEF Chunked
    <3>2. [q.cs EXCEPT ![k] = new] = q.cs
      <4> HIDE DEF new, k, T
      <4> QED BY <3>1, NotExchanged
    <3>3. m = [q EXCEPT !.cs = [q.cs EXCEPT ![k] = new]]
      BY <2>1
    <3>4. m = q
      <4> HIDE DEF new, k, m
      <4> QED BY <3>2, <3>3 DEF LineTyped
    <3> QED BY <3>4
  <2> QED BY <2>3, <2>4
<1> QED BY <1>1, <1>2

\* A quote that becomes tags.
LEMMA ToTagTyped ==
  ASSUME NEW A, Seq(Strings) \subseteq A, NEW n, NEW q, LineTyped(q, n, Tokens(A)),
         NEW k \in 1..n, k % 2 = 0, NEW tags \in Seq(Tokens(A)), tags # <<>>, NEW bogus
  PROVE  /\ LineTyped(Quoting!quote_to_tag(q, k, tags, bogus), n, Tokens(A))
         /\ Quoting!quote_to_tag(q, k, tags, bogus).s = q.s
         /\ Quoting!quote_to_tag(q, k, tags, bogus).last_both = q.last_both
<1> DEFINE T == Tokens(A)
           at == q.cs[k][1].at
           marked == IF bogus THEN Quoting!mark_auto_inserted(q, tags[1].name) ELSE q
           new == [j \in DOMAIN tags |-> IF bogus /\ j # 2 THEN tags[j] ELSE Quoting!At(tags[j], at)]
           last == [name \in DOMAIN marked.last |->
                       Quoting!LastOpen(name, marked.last[name], k, tags)]
           m == [marked EXCEPT !.cs[k] = new]
           r == Quoting!quote_to_tag(q, k, tags, bogus)
<1>1. LineTyped(marked, n, T) /\ marked.s = q.s /\ marked.last_both = q.last_both
  BY MarkTyped
<1>2. at \in Nat
  <2>1. Chunked(q.cs, T) /\ k \in 1..Len(q.cs)
    BY DEF LineTyped
  <2> QED BY <2>1, ChunkAt
<1>3. Len(tags) \in Nat \ {0} /\ DOMAIN tags = 1..Len(tags)
  BY LenProperties, EmptySeq
<1>4. new \in Seq(T) /\ new # <<>>
  <2>1. \A j \in 1..Len(tags) : tags[j] \in T /\ Quoting!At(tags[j], at) \in T
    <3> SUFFICES ASSUME NEW j \in 1..Len(tags)
                 PROVE  tags[j] \in T /\ Quoting!At(tags[j], at) \in T
      OBVIOUS
    <3>1. tags[j] \in T
      BY ElementOfSeq
    <3>2. [tags[j] EXCEPT !.at = at] \in T
      <4> HIDE DEF at
      <4> QED BY <1>2, <3>1, TokenPlaced
    <3> QED BY <3>1, <3>2 DEF Quoting!At
  <2>2. new = [j \in 1..Len(tags) |-> IF bogus /\ j # 2 THEN tags[j] ELSE Quoting!At(tags[j], at)]
    BY <1>3
  <2>3. new \in [1..Len(tags) -> T]
    <3> HIDE DEF T, at
    <3> QED BY <2>1, <2>2
  <2>4. new \in Seq(T) /\ Len(new) = Len(tags)
    <3> HIDE DEF T, new
    <3> QED BY <1>3, <2>3, SeqOfFunction
  <2> HIDE DEF T, new
  <2> QED BY <1>3, <2>4
<1>5. LineTyped(m, n, T) /\ m.s = q.s /\ m.last_both = q.last_both
  <2>1. WithChunk(m, marked, k, new) /\ Fits(new, k, n)
    BY <1>4 DEF WithChunk, Fits
  <2> HIDE DEF m, marked, new, T
  <2> QED BY <1>1, <1>4, <2>1, LineExchanged
<1>6. r = [m EXCEPT !.last = last]
  <2>1. r = [marked EXCEPT !.last = last, !.cs[k] = new]
    BY DEF Quoting!quote_to_tag
  <2>2. marked = [s |-> marked.s, last_both |-> marked.last_both, last |-> marked.last,
                  cs |-> marked.cs]
    BY <1>1 DEF LineTyped
  <2> HIDE DEF r, marked, new, last
  <2> QED BY <2>1, <2>2
<1>7. m = [s |-> m.s, last_both |-> m.last_both, last |-> m.last, cs |-> m.cs]
  <2> HIDE DEF m
  <2> QED BY <1>5 DEF LineTyped
<1>8. LineTyped(r, n, T) /\ r.s = q.s /\ r.last_both = q.last_both
  <2> HIDE DEF r, m, last, T
  <2>1. r = [s |-> m.s, last_both |-> m.last_both, last |-> last, cs |-> m.cs]
    BY <1>6, <1>7
  <2> QED BY <1>5, <2>1 DEF LineTyped
<1> QED BY <1>8

LEMMA SeqTwoThree ==
  ASSUME NEW S, NEW x \in S, NEW y \in S, NEW z \in S
  PROVE  /\ <<x, y>> \in Seq(S) /\ <<x, y>> # <<>>
         /\ <<x, y, z>> \in Seq(S) /\ <<x, y, z>> # <<>>
<1>1. Len(<<x, y>>) = 2 /\ Len(<<x, y, z>>) = 3
  OBVIOUS
<1> QED BY <1>1

\* The tags that a quote becomes.
LEMMA QuoteTags ==
  ASSUME NEW A, Seq(Strings) \subseteq A
  PROVE  /\ Quoting!Tag("b") \in Tokens(A) /\ Quoting!Tag("i") \in Tokens(A)
         /\ Quoting!EndTag("b") \in Tokens(A) /\ Quoting!EndTag("i") \in Tokens(A)
<1>1. <<>> \in A
  BY SeqEmpty
<1> QED BY <1>1, Literals DEF Quoting!Tag, Quoting!EndTag, Quoting!Token, Tokens

\* A quote becomes tags and the machine goes to another state.
LEMMA QuoteDecided ==
  ASSUME NEW A, Seq(Strings) \subseteq A, NEW n, NEW q, LineTyped(q, n, Tokens(A)),
         NEW k \in 1..n, k % 2 = 0
  PROVE  /\ LineTyped(Quoting!OnItalics(q, k), n, Tokens(A))
         /\ LineTyped(Quoting!OnBold(q, k), n, Tokens(A))
         /\ LineTyped(Quoting!OnBoth(q, k), n, Tokens(A))
<1> DEFINE T == Tokens(A)
           Decided == {"Empty", "B", "I", "Bi", "Ib"}
           b == Quoting!Tag("b")
           i == Quoting!Tag("i")
           eb == Quoting!EndTag("b")
           ei == Quoting!EndTag("i")
           tt(p, j, tags, bogus) == Quoting!quote_to_tag(p, j, tags, bogus)
           Go(p, s) == Quoting!To(p, s)
<1>1. b \in T /\ i \in T /\ eb \in T /\ ei \in T
  BY QuoteTags
<1>2. ASSUME NEW p, LineTyped(p, n, T), NEW s \in Decided
      PROVE  LineTyped(Go(p, s), n, T)
  <2>1. p = [s |-> p.s, last_both |-> p.last_both, last |-> p.last, cs |-> p.cs]
    BY <1>2 DEF LineTyped
  <2>2. Go(p, s) = [s |-> s, last_both |-> p.last_both, last |-> p.last, cs |-> p.cs]
    BY <2>1 DEF Quoting!To
  <2> HIDE DEF Go, T
  <2> QED BY <1>2, <2>2 DEF LineTyped
<1>3. ASSUME NEW p, LineTyped(p, n, T), NEW j \in 1..n, j % 2 = 0,
             NEW tags \in Seq(T), tags # <<>>, NEW bogus
      PROVE  LineTyped(tt(p, j, tags, bogus), n, T)
  BY <1>3, ToTagTyped
<1>4. q.s \in Decided \union {"Both"}
  BY DEF LineTyped
<1>5. q.s = "Both" => q.last_both \in 1..n /\ q.last_both % 2 = 0
  BY DEF LineTyped
<1>6. \A x \in T : <<x>> \in Seq(T) /\ <<x>> # <<>>
  BY SeqOne
<1>7. \A x, y \in T : <<x, y>> \in Seq(T) /\ <<x, y>> # <<>>
  BY SeqTwoThree
<1>8. \A x, y, z \in T : <<x, y, z>> \in Seq(T) /\ <<x, y, z>> # <<>>
  BY SeqTwoThree
<1>9. LineTyped(q, n, T)
  OBVIOUS
<1> HIDE DEF T, b, i, eb, ei, tt, Go
<1>10. CASE q.s = "Both"
  <2> DEFINE p == tt(q, q.last_both, <<b, i>>, FALSE)
             r == tt(q, q.last_both, <<i, b>>, FALSE)
  <2>1. LineTyped(p, n, T) /\ LineTyped(r, n, T)
    BY <1>1, <1>3, <1>5, <1>7, <1>9, <1>10
  <2>2. Quoting!OnItalics(q, k) = Go(tt(p, k, <<ei>>, FALSE), "B")
    BY <1>10 DEF Quoting!OnItalics, tt, Go, b, i, ei
  <2>3. Quoting!OnBold(q, k) = Go(tt(r, k, <<eb>>, FALSE), "I")
    BY <1>10 DEF Quoting!OnBold, tt, Go, b, i, eb
  <2>4. Quoting!OnBoth(q, k) = Go(tt(r, k, <<eb, ei>>, FALSE), "Empty")
    BY <1>10 DEF Quoting!OnBoth, tt, Go, b, i, eb, ei
  <2> HIDE DEF p, r
  <2>5. /\ LineTyped(tt(p, k, <<ei>>, FALSE), n, T)
        /\ LineTyped(tt(r, k, <<eb>>, FALSE), n, T)
        /\ LineTyped(tt(r, k, <<eb, ei>>, FALSE), n, T)
    BY <1>1, <1>3, <1>6, <1>7, <2>1
  <2>6. /\ LineTyped(Go(tt(p, k, <<ei>>, FALSE), "B"), n, T)
        /\ LineTyped(Go(tt(r, k, <<eb>>, FALSE), "I"), n, T)
        /\ LineTyped(Go(tt(r, k, <<eb, ei>>, FALSE), "Empty"), n, T)
    BY <1>2, <2>5
  <2> QED BY <2>2, <2>3, <2>4, <2>6 DEF T
<1>11. CASE q.s # "Both"
  <2>1. \A x \in T : \A s \in Decided : LineTyped(Go(tt(q, k, <<x>>, FALSE), s), n, T)
    BY <1>2, <1>3, <1>6, <1>9
  <2>2. \A x, y \in T : \A s \in Decided : LineTyped(Go(tt(q, k, <<x, y>>, FALSE), s), n, T)
    BY <1>2, <1>3, <1>7, <1>9
  <2>3. \A x, y, z \in T : \A s \in Decided : LineTyped(Go(tt(q, k, <<x, y, z>>, TRUE), s), n, T)
    BY <1>2, <1>3, <1>8, <1>9
  <2>4. LineTyped(Quoting!OnItalics(q, k), n, T)
    <3>1. \/ Quoting!OnItalics(q, k) = Go(tt(q, k, <<ei>>, FALSE), "Empty")
          \/ Quoting!OnItalics(q, k) = Go(tt(q, k, <<ei>>, FALSE), "B")
          \/ Quoting!OnItalics(q, k) = Go(tt(q, k, <<eb, ei, b>>, TRUE), "B")
          \/ Quoting!OnItalics(q, k) = Go(tt(q, k, <<i>>, FALSE), "Bi")
          \/ Quoting!OnItalics(q, k) = Go(tt(q, k, <<i>>, FALSE), "I")
      BY <1>4, <1>11 DEF Quoting!OnItalics, tt, Go, b, i, eb, ei
    <3> QED BY <1>1, <2>1, <2>3, <3>1
  <2>5. LineTyped(Quoting!OnBold(q, k), n, T)
    <3>1. \/ Quoting!OnBold(q, k) = Go(tt(q, k, <<eb>>, FALSE), "Empty")
          \/ Quoting!OnBold(q, k) = Go(tt(q, k, <<eb>>, FALSE), "I")
          \/ Quoting!OnBold(q, k) = Go(tt(q, k, <<ei, eb, i>>, TRUE), "I")
          \/ Quoting!OnBold(q, k) = Go(tt(q, k, <<b>>, FALSE), "Ib")
          \/ Quoting!OnBold(q, k) = Go(tt(q, k, <<b>>, FALSE), "B")
      BY <1>4, <1>11 DEF Quoting!OnBold, tt, Go, b, i, eb, ei
    <3> QED BY <1>1, <2>1, <2>3, <3>1
  <2>6. LineTyped(Quoting!OnBoth(q, k), n, T)
    <3>1. CASE q.s = "Empty"
      <4>1. q = [s |-> q.s, last_both |-> q.last_both, last |-> q.last, cs |-> q.cs]
        BY DEF LineTyped
      <4>2. Quoting!OnBoth(q, k) = [s |-> "Both", last_both |-> k, last |-> q.last, cs |-> q.cs]
        BY <3>1, <4>1 DEF Quoting!OnBoth
      <4> QED BY <1>9, <4>2 DEF LineTyped
    <3>2. CASE q.s # "Empty"
      <4>1. \/ Quoting!OnBoth(q, k) = Go(tt(q, k, <<eb, i>>, FALSE), "I")
            \/ Quoting!OnBoth(q, k) = Go(tt(q, k, <<ei, b>>, FALSE), "B")
            \/ Quoting!OnBoth(q, k) = Go(tt(q, k, <<ei, eb>>, FALSE), "Empty")
            \/ Quoting!OnBoth(q, k) = Go(tt(q, k, <<eb, ei>>, FALSE), "Empty")
        BY <1>4, <1>11, <3>2 DEF Quoting!OnBoth, tt, Go, b, i, eb, ei
      <4> QED BY <1>1, <2>2, <4>1
    <3> QED BY <3>1, <3>2
  <2> QED BY <2>4, <2>5, <2>6 DEF T
<1> QED BY <1>10, <1>11

\* What is open at the end of the line is closed there.
LEMMA ClosedTyped ==
  ASSUME NEW A, Seq(Strings) \subseteq A, NEW n, n % 2 = 1, NEW q, LineTyped(q, n, Tokens(A))
  PROVE  Chunked(Quoting!CloseAll(q).cs, Tokens(A)) /\ Len(Quoting!CloseAll(q).cs) = n
<1> DEFINE T == Tokens(A)
<1>1. ASSUME NEW p, LineTyped(p, n, T), NEW name, Quoting!EndTag(name) \in T
      PROVE  LineTyped(Quoting!Close(p, name), n, T)
  <2> DEFINE m == Quoting!mark_auto_inserted(p, name)
             k == Len(m.cs)
             new == Append(m.cs[k], Quoting!EndTag(name))
             c == Quoting!Close(p, name)
  <2>1. LineTyped(m, n, T)
    BY <1>1, MarkTyped
  <2>2. k = n /\ n \in Nat /\ k \in 1..Len(m.cs) /\ m.cs \in Seq(Seq(T))
    BY <2>1 DEF LineTyped, Chunked
  <2>3. m.cs[k] \in Seq(T)
    BY <2>2
  <2>4. new \in Seq(T) /\ new # <<>>
    BY <1>1, <2>3, AppendProperties
  <2>5. c = [m EXCEPT !.cs[k] = new]
    BY DEF Quoting!Close
  <2>6. WithChunk(c, m, k, new) /\ Fits(new, k, n)
    BY <2>4, <2>5 DEF WithChunk, Fits
  <2>7. LineTyped(c, n, T)
    <3> HIDE DEF c, m, k, new, T
    <3> QED BY <2>1, <2>4, <2>6, LineExchanged
  <2> QED BY <2>7
<1>2. Quoting!EndTag("b") \in T /\ Quoting!EndTag("i") \in T
  BY QuoteTags
<1>3. LineTyped(Quoting!CloseAll(q), n, T)
  <2>1. q.s \in {"Empty", "B", "I", "Bi", "Ib", "Both"} /\ LineTyped(q, n, T)
    BY DEF LineTyped
  <2>2. CASE q.s = "Both"
    <3> DEFINE tags == <<Quoting!Tag("b"), Quoting!Tag("i")>>
               p == Quoting!quote_to_tag(q, q.last_both, tags, FALSE)
    <3>1. tags \in Seq(T) /\ tags # <<>>
      BY QuoteTags, SeqTwoThree
    <3>2. q.last_both \in 1..n /\ q.last_both % 2 = 0
      BY <2>2 DEF LineTyped
    <3>3. LineTyped(p, n, T)
      <4> HIDE DEF tags
      <4> QED BY <3>1, <3>2, ToTagTyped
    <3>4. Quoting!CloseAll(q) = Quoting!Close(Quoting!Close(p, "i"), "b")
      BY <2>2 DEF Quoting!CloseAll
    <3> HIDE DEF p
    <3> QED BY <1>1, <1>2, <3>3, <3>4
  <2>3. CASE q.s # "Both"
    <3>1. \/ Quoting!CloseAll(q) = q
          \/ Quoting!CloseAll(q) = Quoting!Close(q, "b")
          \/ Quoting!CloseAll(q) = Quoting!Close(q, "i")
          \/ Quoting!CloseAll(q) = Quoting!Close(Quoting!Close(q, "b"), "i")
          \/ Quoting!CloseAll(q) = Quoting!Close(Quoting!Close(q, "i"), "b")
      BY <2>1, <2>3 DEF Quoting!CloseAll
    <3> QED BY <1>1, <1>2, <2>1, <3>1
  <2> QED BY <2>2, <2>3
<1> QED BY <1>3 DEF LineTyped

IsConverting(f, start, n) ==
    f = [k \in 0..n |-> IF k = 0 THEN start
                        ELSE IF k % 2 = 0 THEN Quoting!OnQuote(f[k - 1], k)
                        ELSE f[k - 1]]

\* A line is converted one quote after the other.
LEMMA QuotesConverted ==
  ASSUME NEW start, NEW n \in Nat
  PROVE  IsConverting(CHOOSE f : IsConverting(f, start, n), start, n)
<1> DEFINE Step(q, k) == IF k % 2 = 0 THEN Quoting!OnQuote(q, k) ELSE q
           Upto(k, g) == g[0] = start /\ \A j \in 1..k : g[j] = Step(g[j - 1], j)
           S == {k \in 0..n : \E g : Upto(k, g)}
<1>0. ASSUME NEW f
      PROVE  IsConverting(f, start, n) <=>
                 f = [k \in 0..n |-> IF k = 0 THEN start ELSE Step(f[k - 1], k)]
  BY Zenon DEF IsConverting
<1> HIDE DEF Step
<1>1. 0 \in S
  <2>1. Upto(0, [k \in {0} |-> start])
    OBVIOUS
  <2> HIDE DEF Upto
  <2> QED BY <2>1
<1>2. ASSUME NEW k \in 0..(n - 1), k \in S PROVE k + 1 \in S
  <2>1. PICK g : Upto(k, g)
    BY <1>2
  <2> DEFINE h == [j \in 0..(k + 1) |-> IF j = k + 1 THEN Step(g[k], k + 1) ELSE g[j]]
  <2>2. \A j \in 0..k : h[j] = g[j]
    OBVIOUS
  <2>3. h[k + 1] = Step(g[k], k + 1)
    OBVIOUS
  <2> HIDE DEF h
  <2>4. Upto(k + 1, h)
    <3>1. h[0] = start
      BY <2>1, <2>2
    <3>2. ASSUME NEW j \in 1..(k + 1) PROVE h[j] = Step(h[j - 1], j)
      <4>1. CASE j = k + 1
        BY <2>2, <2>3, <4>1
      <4>2. CASE j \in 1..k
        <5>1. h[j] = g[j] /\ h[j - 1] = g[j - 1]
          BY <2>2, <4>2
        <5> QED BY <2>1, <4>2, <5>1
      <4> QED BY <4>1, <4>2
    <3> QED BY <3>1, <3>2
  <2> HIDE DEF Upto
  <2> QED BY <2>4
<1>3. n \in S
  <2> HIDE DEF S
  <2>1. 0..n \subseteq S
    BY <1>1, <1>2, UpTo
  <2> QED BY <2>1
<1>4. PICK g : Upto(n, g)
  BY <1>3
<1> DEFINE h == [k \in 0..n |-> IF k = 0 THEN start ELSE Step(g[k - 1], k)]
<1>5. \A k \in 0..n : h[k] = g[k]
  BY <1>4
<1>6. IsConverting(h, start, n)
  <2>1. \A k \in 1..n : h[k - 1] = g[k - 1]
    BY <1>5
  <2>2. h = [k \in 0..n |-> IF k = 0 THEN start ELSE Step(h[k - 1], k)]
    <3> SUFFICES ASSUME NEW k \in 0..n
                 PROVE  (IF k = 0 THEN start ELSE Step(g[k - 1], k))
                          = (IF k = 0 THEN start ELSE Step(h[k - 1], k))
      OBVIOUS
    <3> HIDE DEF h
    <3>1. CASE k = 0
      BY <3>1
    <3>2. CASE k # 0
      BY <2>1, <3>2
    <3> QED BY <3>1, <3>2
  <2> HIDE DEF h
  <2> QED BY <1>0, <2>2
<1> QED BY <1>6

\* What becomes of a line is as many chunks of tokens.
LEMMA ConvertedTyped ==
  ASSUME NEW A, Seq(Strings) \subseteq A, NEW cs, Chunked(cs, Tokens(A)), Len(cs) % 2 = 1
  PROVE  Quoting!convert_quotes_to_tags(cs) \in Seq(Seq(Tokens(A)))
<1> DEFINE T == Tokens(A)
           n == Len(cs)
           start == [s |-> "Empty", last_both |-> 0,
                     last |-> [x \in {"b", "i"} |-> Quoting!NoTag], cs |-> cs]
           f == CHOOSE g : IsConverting(g, start, n)
           S == {k \in 0..n : LineTyped(f[k], n, T)}
<1>0. n \in Nat
  BY DEF Chunked
<1>1. Quoting!convert_quotes_to_tags(cs) = Quoting!CloseAll(f[n]).cs
  BY Zenon DEF Quoting!convert_quotes_to_tags, IsConverting
<1>2. IsConverting(f, start, n)
  <2> HIDE DEF start, n
  <2> QED BY <1>0, QuotesConverted
<1>3. LineTyped(start, n, T)
  BY DEF LineTyped, Chunked
<1> HIDE DEF f, start
<1>4. /\ f[0] = start
      /\ \A k \in 1..n : f[k] = IF k % 2 = 0 THEN Quoting!OnQuote(f[k - 1], k) ELSE f[k - 1]
  BY <1>0, <1>2 DEF IsConverting
<1>5. 0 \in S
  BY <1>0, <1>3, <1>4
<1>6. ASSUME NEW k \in 0..(n - 1), k \in S PROVE k + 1 \in S
  <2> DEFINE q == f[k]
  <2>1. LineTyped(q, n, T) /\ k + 1 \in 1..n
    BY <1>0, <1>6
  <2>2. f[k + 1] = IF (k + 1) % 2 = 0 THEN Quoting!OnQuote(q, k + 1) ELSE q
    <3>1. (k + 1) - 1 = k
      BY <1>0
    <3> HIDE DEF n
    <3> QED BY <1>4, <2>1, <3>1
  <2> HIDE DEF q, n, T
  <2>3. ASSUME NEW j \in 1..n, j % 2 = 0 PROVE LineTyped(Quoting!OnQuote(q, j), n, T)
    <3>1. /\ LineTyped(Quoting!OnItalics(q, j), n, T)
          /\ LineTyped(Quoting!OnBold(q, j), n, T)
          /\ LineTyped(Quoting!OnBoth(q, j), n, T)
      BY <2>1, <2>3, QuoteDecided DEF T
    <3>2. Quoting!OnQuote(q, j) \in {Quoting!OnItalics(q, j), Quoting!OnBold(q, j),
                                     Quoting!OnBoth(q, j), q}
      BY DEF Quoting!OnQuote
    <3> QED BY <2>1, <3>1, <3>2
  <2>4. LineTyped(f[k + 1], n, T)
    BY <2>1, <2>2, <2>3
  <2> QED BY <2>1, <2>4
<1>7. LineTyped(f[n], n, T)
  <2> HIDE DEF S, n
  <2>1. 0..n \subseteq S
    BY <1>0, <1>5, <1>6, UpTo
  <2> QED BY <1>0, <2>1 DEF S
<1>8. Chunked(Quoting!CloseAll(f[n]).cs, T)
  <2> HIDE DEF n
  <2>1. n % 2 = 1
    BY DEF n
  <2> QED BY <1>7, <2>1, ClosedTyped
<1> QED BY <1>1, <1>8 DEF Chunked

\* A ''' that becomes an apostrophe and a '' is exchanged for it.
LEMMA BalanceTyped ==
  ASSUME NEW A, Seq(Strings) \subseteq A, NEW cs, Chunked(cs, Tokens(A))
  PROVE  Chunked(Quoting!Balance(cs), Tokens(A)) /\ Len(Quoting!Balance(cs)) = Len(cs)
<1> DEFINE T == Tokens(A)
           n == Len(cs)
           k == Quoting!BoldToConvert(cs)
           apostrophe == Quoting!Str("apostrophe")
           two == Quoting!At(Quoting!Quote("2", ""), cs[k][1].at)
           c == [cs EXCEPT ![k - 1] = Append(@, apostrophe)]
           d == [c EXCEPT ![k] = <<two>>]
<1>0. n \in Nat /\ cs \in Seq(Seq(T)) /\ DOMAIN cs = 1..n
  BY LenProperties DEF Chunked
<1>1. CASE Quoting!Balance(cs) = cs
  BY <1>1
<1>2. CASE k # 0 /\ Quoting!Balance(cs) = Quoting!convert_bold(cs, k)
  <2>1. \A w : Quoting!FirstBold(cs, w) # 0 => Quoting!FirstBold(cs, w) \in Quoting!Quotes(cs)
    <3> SUFFICES ASSUME NEW w, Quoting!FirstBold(cs, w) # 0
                 PROVE  Quoting!FirstBold(cs, w) \in Quoting!Quotes(cs)
      OBVIOUS
    <3> DEFINE bolds == {j \in Quoting!Quotes(cs) :
                            Quoting!quote_len(cs, j) = "3" /\ Quoting!word(cs, j) = w}
               first == CHOOSE j \in bolds : \A i \in bolds : j <= i
    <3>1. bolds # {} /\ Quoting!FirstBold(cs, w) = first
      BY DEF Quoting!FirstBold, Quoting!Min
    <3>2. bolds \in SUBSET Nat /\ bolds \subseteq Quoting!Quotes(cs)
      BY <1>0 DEF Quoting!Quotes
    <3> HIDE DEF bolds
    <3>3. PICK x \in bolds : \A y \in bolds : ~(y < x)
      BY <3>1, <3>2, LeastNumber
    <3>4. \A y \in bolds : x <= y
      BY <3>2, <3>3
    <3>5. first \in bolds
      BY <3>4
    <3> QED BY <3>1, <3>2, <3>5
  <2>2. k \in Quoting!Quotes(cs)
    BY <1>2, <2>1 DEF Quoting!BoldToConvert
  <2>3. k \in 1..n /\ k % 2 = 0
    BY <1>0, <2>2 DEF Quoting!Quotes
  <2>4. k - 1 \in 1..n /\ (k - 1) % 2 = 1
    <3> HIDE DEF k, n
    <3> QED BY <1>0, <2>3
  <2>5. Quoting!Balance(cs) = d
    <3>1. Quoting!Balance(cs) = [cs EXCEPT ![k - 1] = Append(@, apostrophe), ![k] = <<two>>]
      BY <1>2 DEF Quoting!convert_bold
    <3> QED BY <3>1
  <2>6. apostrophe \in T
    <3>1. <<>> \in A
      BY SeqEmpty
    <3> QED BY <3>1, Literals DEF Quoting!Str, Quoting!Token, Tokens
  <2>7. two \in T
    <3>1. <<"2", "">> \in A
      BY Literals, SeqTwoThree
    <3>2. Quoting!Quote("2", "") \in T
      BY <3>1, Literals DEF Quoting!Quote, Quoting!Token, Tokens
    <3>3. cs[k][1].at \in Nat
      <4> HIDE DEF k
      <4> QED BY <2>3, ChunkAt
    <3> DEFINE at == cs[k][1].at
               t == Quoting!Quote("2", "")
    <3>4. [t EXCEPT !.at = at] \in T
      <4> HIDE DEF at, t
      <4> QED BY <3>2, <3>3, TokenPlaced DEF t, at
    <3> QED BY <3>4 DEF Quoting!At
  <2>8. Chunked(c, T) /\ Len(c) = n
    <3> DEFINE new == Append(cs[k - 1], apostrophe)
    <3>1. cs[k - 1] \in Seq(T)
      <4> HIDE DEF k
      <4> QED BY <1>0, <2>4
    <3>2. new \in Seq(T) /\ new # <<>>
      <4> HIDE DEF apostrophe, k, T
      <4> QED BY <2>6, <3>1, AppendProperties
    <3>3. Exchanged(c, cs, k - 1, new) /\ Fits(new, k - 1, n)
      BY <3>2 DEF Exchanged, Fits
    <3>4. Chunked(cs, T) /\ Len(cs) = n
      OBVIOUS
    <3> HIDE DEF c, new, T, n, k
    <3> QED BY <3>2, <3>3, <3>4, ChunkExchanged
  <2>9. Chunked(d, T) /\ Len(d) = n
    <3> DEFINE new == <<two>>
    <3>1. new \in Seq(T) /\ new # <<>>
      <4> HIDE DEF two, T
      <4> QED BY <2>7, SeqOne
    <3>2. Exchanged(d, c, k, new) /\ Fits(new, k, n)
      BY <3>1 DEF Exchanged, Fits
    <3> HIDE DEF d, c, new, T, n, k
    <3> QED BY <2>8, <3>1, <3>2, ChunkExchanged
  <2> QED BY <2>5, <2>9
<1> QED BY <1>1, <1>2 DEF Quoting!Balance

IsFlattening(f, seqs) ==
    f = [i \in 1..Len(seqs) |-> IF i = 1 THEN seqs[i] ELSE f[i - 1] \o seqs[i]]

\* The chunks make one run of tokens.
LEMMA Flattened ==
  ASSUME NEW T, NEW seqs \in Seq(Seq(T)), seqs # <<>>
  PROVE  IsFlattening(CHOOSE f : IsFlattening(f, seqs), seqs)
<1> DEFINE n == Len(seqs)
           Cat(s, j) == s \o seqs[j]
           Upto(k, g) == g[1] = seqs[1] /\ \A j \in 2..(k + 1) : g[j] = Cat(g[j - 1], j)
           S == {k \in 0..(n - 1) : \E g : Upto(k, g)}
<1>0. n \in Nat \ {0}
  BY EmptySeq
<1>a. ASSUME NEW f
      PROVE  IsFlattening(f, seqs) <=>
                 f = [i \in 1..n |-> IF i = 1 THEN seqs[i] ELSE Cat(f[i - 1], i)]
  BY Zenon DEF IsFlattening
<1> HIDE DEF n, Cat
<1>1. 0 \in S
  <2>1. Upto(0, [k \in {1} |-> seqs[1]])
    OBVIOUS
  <2> HIDE DEF Upto
  <2> QED BY <1>0, <2>1
<1>2. ASSUME NEW k \in 0..(n - 1 - 1), k \in S PROVE k + 1 \in S
  <2>1. PICK g : Upto(k, g)
    BY <1>2
  <2> DEFINE h == [j \in 1..(k + 2) |-> IF j = k + 2 THEN Cat(g[k + 1], k + 2) ELSE g[j]]
  <2>2. \A j \in 1..(k + 1) : h[j] = g[j]
    OBVIOUS
  <2>3. h[k + 2] = Cat(g[k + 1], k + 2)
    OBVIOUS
  <2> HIDE DEF h
  <2>4. Upto(k + 1, h)
    <3>1. h[1] = seqs[1]
      BY <2>1, <2>2
    <3>2. ASSUME NEW j \in 2..((k + 1) + 1) PROVE h[j] = Cat(h[j - 1], j)
      <4>1. CASE j = k + 2
        <5>1. j - 1 = k + 1
          BY <4>1
        <5>2. h[j - 1] = g[k + 1]
          BY <2>2, <5>1
        <5> QED BY <2>3, <4>1, <5>2
      <4>2. CASE j \in 2..(k + 1)
        <5>0. j \in 1..(k + 1) /\ j - 1 \in 1..(k + 1)
          BY <4>2
        <5>1. h[j] = g[j] /\ h[j - 1] = g[j - 1]
          BY <2>2, <5>0
        <5>2. g[j] = Cat(g[j - 1], j)
          BY <2>1, <4>2
        <5> QED BY <5>1, <5>2
      <4> QED BY <4>1, <4>2
    <3> QED BY <3>1, <3>2
  <2> HIDE DEF Upto
  <2>5. k + 1 \in 0..(n - 1)
    BY <1>0
  <2> QED BY <2>4, <2>5
<1>3. n - 1 \in S
  <2> HIDE DEF S
  <2> DEFINE m == n - 1
  <2>0. m \in Nat /\ m \in 0..m
    BY <1>0
  <2>a. \A k \in 0..(m - 1) : k \in S => k + 1 \in S
    BY <1>2
  <2> HIDE DEF m
  <2>1. 0..m \subseteq S
    BY <1>1, <2>0, <2>a, UpTo
  <2> QED BY <2>0, <2>1 DEF m
<1>4. PICK g : Upto(n - 1, g)
  BY <1>3
<1> DEFINE h == [i \in 1..n |-> IF i = 1 THEN seqs[i] ELSE Cat(g[i - 1], i)]
<1>5. \A k \in 1..n : h[k] = g[k]
  BY <1>0, <1>4
<1>6. IsFlattening(h, seqs)
  <2>1. \A k \in 2..n : h[k - 1] = g[k - 1]
    BY <1>0, <1>5
  <2>2. h = [i \in 1..n |-> IF i = 1 THEN seqs[i] ELSE Cat(h[i - 1], i)]
    <3> SUFFICES ASSUME NEW k \in 1..n
                 PROVE  (IF k = 1 THEN seqs[k] ELSE Cat(g[k - 1], k))
                          = (IF k = 1 THEN seqs[k] ELSE Cat(h[k - 1], k))
      OBVIOUS
    <3> HIDE DEF h
    <3>1. CASE k = 1
      BY <3>1
    <3>2. CASE k # 1
      BY <1>0, <2>1, <3>2
    <3> QED BY <3>1, <3>2
  <2> HIDE DEF h
  <2> QED BY <1>a, <2>2
<1> QED BY <1>6

LEMMA FlattenTyped ==
  ASSUME NEW T, NEW seqs \in Seq(Seq(T))
  PROVE  Quoting!FlattenSeq(seqs) \in Seq(T)
<1>1. CASE seqs = <<>>
  <2>1. Quoting!FlattenSeq(seqs) = <<>>
    BY <1>1 DEF Quoting!FlattenSeq
  <2> QED BY <2>1, SeqEmpty
<1>2. CASE seqs # <<>>
  <2> DEFINE n == Len(seqs)
             f == CHOOSE g : IsFlattening(g, seqs)
             S == {k \in 0..(n - 1) : f[k + 1] \in Seq(T)}
             m == n - 1
  <2>0. n \in Nat \ {0}
    BY <1>2, EmptySeq
  <2>1. Quoting!FlattenSeq(seqs) = f[n]
    <3>1. Len(seqs) # 0
      BY <2>0
    <3> QED BY <3>1, Zenon DEF Quoting!FlattenSeq, IsFlattening
  <2>2. IsFlattening(f, seqs)
    BY <1>2, Flattened
  <2> HIDE DEF f
  <2>3. f[1] = seqs[1] /\ \A k \in 2..n : f[k] = f[k - 1] \o seqs[k]
    <3> DEFINE Cat(x, k) == x \o seqs[k]
    <3>1. f = [i \in 1..n |-> IF i = 1 THEN seqs[i] ELSE Cat(f[i - 1], i)]
      BY <2>2, Zenon DEF IsFlattening
    <3> HIDE DEF Cat, n
    <3>2. f[1] = seqs[1] /\ \A k \in 2..n : f[k] = Cat(f[k - 1], k)
      BY <2>0, <3>1
    <3> QED BY <3>2 DEF Cat
  <2>4. \A k \in 1..n : seqs[k] \in Seq(T)
    BY ElementOfSeq
  <2> HIDE DEF n
  <2>5. 0 \in S
    BY <2>0, <2>3, <2>4
  <2>6. ASSUME NEW k \in 0..(m - 1), k \in S PROVE k + 1 \in S
    <3>1. k + 2 \in 2..n /\ (k + 2) - 1 = k + 1 /\ (k + 1) + 1 = k + 2
      BY <2>0
    <3>2. f[k + 2] = f[k + 1] \o seqs[k + 2]
      BY <2>3, <3>1
    <3>3. f[k + 1] \in Seq(T) /\ seqs[k + 2] \in Seq(T)
      BY <2>4, <2>6, <3>1
    <3>4. f[k + 2] \in Seq(T)
      BY <3>2, <3>3
    <3> QED BY <2>0, <3>1, <3>4
  <2>7. m \in Nat /\ m \in 0..m /\ m + 1 = n
    BY <2>0
  <2> HIDE DEF m, S
  <2>8. 0..m \subseteq S
    BY <2>5, <2>6, <2>7, UpTo
  <2> QED BY <2>1, <2>7, <2>8 DEF S
<1> QED BY <1>1, <1>2

\* What a step holds back or gives on are tokens, and the chunks keep their order.
LEMMA QuoteStep ==
  ASSUME NEW A, Seq(Strings) \subseteq A, QuoteTyped(A), Quoting!Next
  PROVE  QuoteTyped(A)'
<1> DEFINE T == Tokens(A)
<1>1. stream \in Seq(T) /\ out \in Seq(T) /\ Chunked(chunks, T) /\ Len(chunks) % 2 = 1
  BY DEF QuoteTyped
<1>2. stream # <<>> /\ stream' \in Seq(T) /\ Head(stream) \in T
  <2> HIDE DEF T
  <2> QED BY <1>1, HeadTailProperties DEF Quoting!Next
<1>3. CASE Quoting!process_quotes
  <2> DEFINE done == Quoting!FlattenSeq(Quoting!convert_quotes_to_tags(Quoting!Balance(chunks)))
  <2>1. done \in Seq(T)
    <3>1. Chunked(Quoting!Balance(chunks), T) /\ Len(Quoting!Balance(chunks)) % 2 = 1
      BY <1>1, BalanceTyped
    <3>2. Quoting!convert_quotes_to_tags(Quoting!Balance(chunks)) \in Seq(Seq(T))
      BY <3>1, ConvertedTyped
    <3> QED BY <3>2, FlattenTyped
  <2>2. out' = Append(out \o done, Head(stream)) \/ out' = Append(out, Head(stream))
    BY <1>3 DEF Quoting!process_quotes
  <2>3. out' \in Seq(T)
    <3> DEFINE u == out \o done
    <3> HIDE DEF done, T
    <3>1. u \in Seq(T)
      BY <1>1, <2>1, ConcatProperties
    <3>2. out' = Append(u, Head(stream)) \/ out' = Append(out, Head(stream))
      BY <2>2
    <3> HIDE DEF u
    <3>3. Append(u, Head(stream)) \in Seq(T) /\ Append(out, Head(stream)) \in Seq(T)
      BY <1>1, <1>2, <3>1, AppendProperties
    <3> QED BY <3>2, <3>3
  <2>4. Chunked(<< <<>> >>, T) /\ Len(<< <<>> >>) = 1
    <3>1. <<>> \in Seq(T)
      BY SeqEmpty
    <3> QED BY <3>1, SeqOne DEF Chunked
  <2>5. chunks' = << <<>> >>
    BY <1>3 DEF Quoting!process_quotes
  <2>6. Chunked(chunks', T) /\ Len(chunks') % 2 = 1
    BY <2>4, <2>5
  <2> QED BY <1>2, <2>3, <2>6 DEF QuoteTyped
<1>4. CASE Quoting!on_quote
  <2> DEFINE x == <<Head(stream)>>
             add == << x, <<>> >>
             n == Len(chunks)
  <2>1. x \in Seq(T) /\ x # <<>> /\ <<>> \in Seq(T)
    <3> HIDE DEF T
    <3> QED BY <1>2, SeqOne, SeqEmpty
  <2>2. chunks \in Seq(Seq(T)) /\ n \in Nat
    <3> HIDE DEF T
    <3> QED BY <1>1, LenProperties DEF Chunked
  <2> HIDE DEF x, T
  <2>3. add \in Seq(Seq(T)) /\ Len(add) = 2 /\ add[1] = x /\ add[2] = <<>>
    BY <2>1, SeqTwoThree
  <2> HIDE DEF add
  <2>4. /\ chunks \o add \in Seq(Seq(T)) /\ Len(chunks \o add) = n + 2
        /\ \A k \in 1..(n + 2) : (chunks \o add)[k] = IF k <= n THEN chunks[k] ELSE add[k - n]
    <3> DEFINE S == Seq(T)
    <3>1. chunks \in Seq(S) /\ add \in Seq(S)
      BY <2>2, <2>3
    <3> HIDE DEF S
    <3>2. /\ chunks \o add \in Seq(S) /\ Len(chunks \o add) = Len(chunks) + Len(add)
          /\ \A k \in 1..(Len(chunks) + Len(add)) :
                (chunks \o add)[k] = IF k <= Len(chunks) THEN chunks[k] ELSE add[k - Len(chunks)]
      BY <3>1, ConcatProperties
    <3> QED BY <2>3, <3>2 DEF S
  <2> DEFINE d == chunks \o add
  <2>5. chunks' = d
    BY <1>4 DEF Quoting!on_quote, add, x
  <2>6. \A k \in 1..n : k % 2 = 0 => chunks[k] # <<>>
    BY <1>1 DEF Chunked
  <2>7. \A k \in 1..(n + 2) : d[k] = IF k <= n THEN chunks[k] ELSE add[k - n]
    BY <2>4
  <2>8. d \in Seq(Seq(T)) /\ Len(d) = n + 2
    BY <2>4
  <2> HIDE DEF d, n
  <2>9. n % 2 = 1
    BY <1>1 DEF n
  <2>10. ASSUME NEW k \in 1..(n + 2), k % 2 = 0 PROVE d[k] # <<>>
    <3>1. CASE k <= n
      <4>1. k \in 1..n
        BY <2>2, <3>1
      <4> QED BY <2>6, <2>7, <2>10, <3>1, <4>1
    <3>2. CASE ~(k <= n)
      <4>1. k = n + 1 /\ k - n = 1
        BY <2>2, <2>9, <2>10, <3>2
      <4>2. d[k] = x
        BY <2>3, <2>7, <3>2, <4>1
      <4> QED BY <2>1, <4>2
    <3> QED BY <3>1, <3>2
  <2>11. Chunked(d, T) /\ Len(d) % 2 = 1
    <3>1. (n + 2) % 2 = 1
      BY <2>2, <2>9
    <3>2. \A k \in 1..Len(d) : k % 2 = 0 => d[k] # <<>>
      BY <2>8, <2>10
    <3> QED BY <2>8, <3>1, <3>2 DEF Chunked
  <2>12. out' = out
    BY <1>4 DEF Quoting!on_quote
  <2> QED BY <1>1, <1>2, <2>5, <2>11, <2>12 DEF QuoteTyped, T
<1>5. CASE Quoting!on_any
  <2> DEFINE k == Len(chunks)
             new == Append(chunks[k], Head(stream))
             d == [chunks EXCEPT ![k] = new]
  <2>1. \/ chunks' = d /\ out' = out
        \/ chunks' = chunks /\ out' = Append(out, Head(stream))
    BY <1>5 DEF Quoting!on_any
  <2>2. Append(out, Head(stream)) \in Seq(T)
    <3> HIDE DEF T
    <3> QED BY <1>1, <1>2, AppendProperties
  <2>3. k \in Nat /\ k % 2 = 1 /\ k \in 1..k
    BY <1>1 DEF Chunked
  <2>4. chunks[k] \in Seq(T)
    BY <1>1, <2>3 DEF Chunked
  <2>5. new \in Seq(T) /\ new # <<>>
    <3> HIDE DEF T, k
    <3> QED BY <1>2, <2>4, AppendProperties
  <2>6. Exchanged(d, chunks, k, new) /\ Fits(new, k, k) /\ Len(chunks) = k
    BY <2>5 DEF Exchanged, Fits
  <2>7. Chunked(d, T) /\ Len(d) = k
    <3> HIDE DEF d, new, k, T
    <3> QED BY <1>1, <2>5, <2>6, ChunkExchanged
  <2>8. Chunked(chunks', T) /\ Len(chunks') % 2 = 1 /\ out' \in Seq(T)
    <3> HIDE DEF d, T
    <3> QED BY <1>1, <2>1, <2>2, <2>3, <2>7
  <2> QED BY <1>2, <2>8 DEF QuoteTyped
<1> QED BY <1>3, <1>4, <1>5 DEF Quoting!Next

-----------------------------------------------------------------------------
(* ListHandler.  The names of the end tags say what lists are open: two for  *)
(* each bullet of the line.                                                 *)

Names(b) == Lists!EndTagNames(b)

\* The first elements of a sequence.
LEMMA FirstOf ==
  ASSUME NEW S, NEW b \in Seq(S), NEW n \in 0..Len(b)
  PROVE  /\ SubSeq(b, 1, n) \in Seq(S) /\ Len(SubSeq(b, 1, n)) = n
         /\ \A k \in 1..n : SubSeq(b, 1, n)[k] = b[k]
<1> DEFINE c == SubSeq(b, 1, n)
<1>0. Len(b) \in Nat
  BY LenProperties
<1>1. \A k \in 1..n : b[k] \in S
  BY <1>0, ElementOfSeq
<1>2. /\ c \in Seq(S) /\ Len(c) = IF 1 <= n THEN n - 1 + 1 ELSE 0
      /\ \A k \in 1..(n - 1 + 1) : c[k] = b[1 + k - 1]
  BY <1>1, SubSeqProperties
<1>3. c \in Seq(S) /\ Len(c) = n /\ \A k \in 1..n : c[k] = b[k]
  <2> HIDE DEF c
  <2> QED BY <1>0, <1>2
<1> QED BY <1>3

\* The names come in pairs.
LEMMA NamesAre ==
  ASSUME NEW S, NEW b \in Seq(S)
  PROVE  /\ \E U : Names(b) \in Seq(U)
         /\ Len(Names(b)) = 2 * Len(b)
         /\ \A k \in 1..(2 * Len(b)) :
               Names(b)[k] = IF k % 2 = 1 THEN Lists!Container[b[(k + 1) \div 2]]
                             ELSE Lists!ItemName[b[k \div 2]]
<1> DEFINE n == Len(b)
           Name(k) == IF k % 2 = 1 THEN Lists!Container[b[(k + 1) \div 2]]
                      ELSE Lists!ItemName[b[k \div 2]]
           U == {Name(k) : k \in 1..(2 * n)}
<1>1. n \in Nat /\ 2 * n \in Nat
  BY LenProperties
<1>2. Names(b) = [k \in 1..(2 * n) |-> Name(k)]
  BY Zenon DEF Names, Lists!EndTagNames
<1> HIDE DEF Name, n
<1>3. Names(b) \in [1..(2 * n) -> U]
  BY <1>2
<1> DEFINE m == 2 * n
<1> HIDE DEF U, m
<1>4. Names(b) \in Seq(U) /\ Len(Names(b)) = m
  BY <1>1, <1>3, SeqOfFunction DEF m
<1>5. \A k \in 1..m : Names(b)[k] = Name(k)
  BY <1>2 DEF m
<1> QED BY <1>4, <1>5 DEF Name, n, m

\* The first n pairs of names are those of the first n bullets.
LEMMA NamesOfFirst ==
  ASSUME NEW S, NEW b \in Seq(S), NEW n \in 0..Len(b)
  PROVE  SubSeq(Names(b), 1, 2 * n) = Names(SubSeq(b, 1, n))
<1> DEFINE c == SubSeq(b, 1, n)
           x == SubSeq(Names(b), 1, 2 * n)
<1>0. Len(b) \in Nat
  BY LenProperties
<1>1. c \in Seq(S) /\ Len(c) = n /\ \A k \in 1..n : c[k] = b[k]
  BY FirstOf
<1>2. PICK U : Names(b) \in Seq(U)
  BY NamesAre
<1>3. /\ Len(Names(b)) = 2 * Len(b)
      /\ \A k \in 1..(2 * Len(b)) :
            Names(b)[k] = IF k % 2 = 1 THEN Lists!Container[b[(k + 1) \div 2]]
                          ELSE Lists!ItemName[b[k \div 2]]
  BY NamesAre
<1>4. x \in Seq(U) /\ Len(x) = 2 * n /\ \A k \in 1..(2 * n) : x[k] = Names(b)[k]
  <2>1. \A k \in 1..(2 * n) : Names(b)[k] \in U
    BY <1>0, <1>2, <1>3, ElementOfSeq
  <2> DEFINE m == 2 * n
  <2>2. m \in Nat
    BY <1>0
  <2>3. \A k \in 1..m : Names(b)[k] \in U
    BY <2>1
  <2> HIDE DEF m
  <2>4. /\ SubSeq(Names(b), 1, m) \in Seq(U)
        /\ Len(SubSeq(Names(b), 1, m)) = IF 1 <= m THEN m - 1 + 1 ELSE 0
        /\ \A k \in 1..(m - 1 + 1) : SubSeq(Names(b), 1, m)[k] = Names(b)[1 + k - 1]
    BY <2>2, <2>3, SubSeqProperties
  <2> DEFINE y == SubSeq(Names(b), 1, m)
  <2>5. x = y
    BY DEF m
  <2> HIDE DEF x
  <2>6. y \in Seq(U) /\ Len(y) = m /\ \A k \in 1..m : y[k] = Names(b)[k]
    <3> HIDE DEF y
    <3> QED BY <2>2, <2>4 DEF y
  <2> QED BY <2>5, <2>6 DEF m
<1> HIDE DEF c, x
<1>5. PICK V : Names(c) \in Seq(V)
  BY <1>1, NamesAre
<1>6. /\ Len(Names(c)) = 2 * n
      /\ \A k \in 1..(2 * n) :
            Names(c)[k] = IF k % 2 = 1 THEN Lists!Container[c[(k + 1) \div 2]]
                          ELSE Lists!ItemName[c[k \div 2]]
  BY <1>1, NamesAre
<1>7. ASSUME NEW k \in 1..(2 * n) PROVE x[k] = Names(c)[k]
  <2>1. k \in 1..(2 * Len(b))
    BY <1>0
  <2>2. k % 2 = 1 => (k + 1) \div 2 \in 1..n
    BY <1>0
  <2>3. k % 2 # 1 => k \div 2 \in 1..n
    BY <1>0
  <2>4. Names(b)[k] = Names(c)[k]
    <3>1. CASE k % 2 = 1
      BY <1>1, <1>3, <1>6, <2>1, <2>2, <3>1
    <3>2. CASE k % 2 # 1
      BY <1>1, <1>3, <1>6, <2>1, <2>3, <3>2
    <3> QED BY <3>1, <3>2
  <2> QED BY <1>4, <2>4
<1>8. x = Names(c)
  <2> DEFINE W == U \union V
  <2>1. x \in Seq(W) /\ Names(c) \in Seq(W)
    BY <1>4, <1>5, SeqMonotonic
  <2> HIDE DEF W
  <2>2. Len(x) = Len(Names(c)) /\ \A k \in 1..Len(x) : x[k] = Names(c)[k]
    BY <1>4, <1>6, <1>7
  <2> QED BY <2>1, <2>2, SeqEqual
<1> QED BY <1>8 DEF c, x

\* Names of bullets and of those deeper are names of all of them.
LEMMA NamesJoined ==
  ASSUME NEW S, NEW b \in Seq(S), NEW n \in 0..Len(b), NEW d, NEW left,
         left = Names(SubSeq(b, 1, n)), d = SubSeq(b, n + 1, Len(b))
  PROVE  left \o Names(d) = Names(b)
<1> DEFINE c == SubSeq(b, 1, n)
           m == Len(b)
<1>0. m \in Nat
  BY LenProperties
<1>1. c \in Seq(S) /\ Len(c) = n /\ \A k \in 1..n : c[k] = b[k]
  BY FirstOf
<1>2. d \in Seq(S) /\ Len(d) = m - n /\ \A k \in 1..(m - n) : d[k] = b[n + k]
  <2>1. \A k \in (n + 1)..m : b[k] \in S
    BY <1>0, ElementOfSeq
  <2>2. n + 1 \in Int /\ m \in Int /\ d = SubSeq(b, n + 1, m)
    BY <1>0
  <2> HIDE DEF m
  <2>3. /\ d \in Seq(S) /\ Len(d) = IF n + 1 <= m THEN m - (n + 1) + 1 ELSE 0
        /\ \A k \in 1..(m - (n + 1) + 1) : d[k] = b[(n + 1) + k - 1]
    BY <2>1, <2>2, SubSeqProperties
  <2>4. n \in 0..m /\ n \in Int /\ m \in Nat
    BY <1>0 DEF m
  <2>5. Len(d) = m - n
    BY <2>3, <2>4
  <2>6. ASSUME NEW k \in 1..(m - n) PROVE d[k] = b[n + k]
    <3>1. k \in 1..(m - (n + 1) + 1) /\ (n + 1) + k - 1 = n + k
      BY <2>4
    <3> QED BY <2>3, <3>1
  <2> QED BY <2>3, <2>5, <2>6
<1>3. left = Names(c)
  OBVIOUS
<1>4. n \in 0..m
  OBVIOUS
<1> HIDE DEF c, m
<1> DEFINE Of(s, k) == IF k % 2 = 1 THEN Lists!Container[s[(k + 1) \div 2]]
                       ELSE Lists!ItemName[s[k \div 2]]
<1>5. PICK U : Names(c) \in Seq(U)
  BY <1>1, NamesAre
<1>6. PICK V : Names(d) \in Seq(V)
  BY <1>2, NamesAre
<1>7. PICK W : Names(b) \in Seq(W)
  BY NamesAre
<1>8. Len(Names(c)) = 2 * n /\ \A k \in 1..(2 * n) : Names(c)[k] = Of(c, k)
  BY <1>1, NamesAre
<1>9. Len(Names(d)) = 2 * (m - n) /\ \A k \in 1..(2 * (m - n)) : Names(d)[k] = Of(d, k)
  BY <1>2, NamesAre
<1>10. Len(Names(b)) = 2 * m /\ \A k \in 1..(2 * m) : Names(b)[k] = Of(b, k)
  BY NamesAre DEF m
<1> DEFINE X == (U \union V) \union W
           x == Names(c)
           y == Names(d)
           z == Names(b)
<1>11. x \in Seq(X) /\ y \in Seq(X) /\ z \in Seq(X)
  BY <1>5, <1>6, <1>7, SeqMonotonic
<1> HIDE DEF X, x, y, z, Of
<1>12. /\ x \o y \in Seq(X) /\ Len(x \o y) = Len(x) + Len(y)
       /\ \A k \in 1..(Len(x) + Len(y)) : (x \o y)[k] = IF k <= Len(x) THEN x[k] ELSE y[k - Len(x)]
  BY <1>11, ConcatProperties
<1>13. Len(x) = 2 * n /\ Len(y) = 2 * (m - n) /\ Len(z) = 2 * m
  BY <1>8, <1>9, <1>10 DEF x, y, z
<1>14. Len(x \o y) = 2 * m
  BY <1>0, <1>4, <1>12, <1>13
<1>15. ASSUME NEW k \in 1..(2 * m) PROVE (x \o y)[k] = z[k]
  <2>1. CASE k <= 2 * n
    <3>0. k \in 1..(2 * n)
      BY <1>0, <1>4, <2>1
    <3>1. (x \o y)[k] = Of(c, k)
      BY <1>0, <1>4, <1>8, <1>12, <1>13, <2>1, <3>0 DEF x
    <3>2. k % 2 = 1 => c[(k + 1) \div 2] = b[(k + 1) \div 2]
      BY <1>0, <1>1, <1>4, <3>0
    <3>3. k % 2 # 1 => c[k \div 2] = b[k \div 2]
      BY <1>0, <1>1, <1>4, <3>0
    <3>4. Of(c, k) = Of(b, k)
      BY <3>2, <3>3 DEF Of
    <3> QED BY <1>10, <3>1, <3>4 DEF z
  <2>2. CASE ~(k <= 2 * n)
    <3> DEFINE j == k - 2 * n
    <3>0. j \in 1..(2 * (m - n)) /\ j \in Int /\ k = 2 * n + j
      BY <1>0, <1>4, <2>2
    <3> HIDE DEF j
    <3>a. k \in 1..(Len(x) + Len(y)) /\ ~(k <= Len(x)) /\ k - Len(x) = j
      BY <1>0, <1>4, <1>13, <2>2, <3>0
    <3>b. (x \o y)[k] = y[j]
      BY <1>12, <3>a
    <3>1. (x \o y)[k] = Of(d, j)
      BY <1>9, <3>0, <3>b DEF y
    <3>2. j % 2 = k % 2
      BY <1>0, <1>4, <3>0
    <3>3. k % 2 = 1 => d[(j + 1) \div 2] = b[(k + 1) \div 2]
      <4> SUFFICES ASSUME k % 2 = 1 PROVE d[(j + 1) \div 2] = b[(k + 1) \div 2]
        OBVIOUS
      <4>1. (j + 1) \div 2 \in 1..(m - n) /\ (k + 1) \div 2 = n + ((j + 1) \div 2)
        BY <1>0, <1>4, <3>0, <3>2
      <4> QED BY <1>2, <4>1
    <3>4. k % 2 # 1 => d[j \div 2] = b[k \div 2]
      <4> SUFFICES ASSUME k % 2 # 1 PROVE d[j \div 2] = b[k \div 2]
        OBVIOUS
      <4>1. j \div 2 \in 1..(m - n) /\ k \div 2 = n + (j \div 2)
        BY <1>0, <1>4, <3>0, <3>2
      <4> QED BY <1>2, <4>1
    <3>5. Of(d, j) = Of(b, k)
      BY <3>2, <3>3, <3>4 DEF Of
    <3> QED BY <1>10, <3>1, <3>5 DEF z
  <2> QED BY <2>1, <2>2
<1>16. x \o y = z
  <2> DEFINE w == x \o y
  <2>1. w \in Seq(X) /\ z \in Seq(X) /\ Len(w) = Len(z) /\ \A k \in 1..Len(w) : w[k] = z[k]
    BY <1>11, <1>12, <1>13, <1>14, <1>15
  <2> HIDE DEF w
  <2>2. w = z
    BY <2>1, SeqEqual
  <2> QED BY <2>2 DEF w
<1> QED BY <1>3, <1>16 DEF x, y, z

\* Bullets that two lines have in common.
LEMMA CommonPrefix ==
  ASSUME NEW S, NEW x \in Seq(S), NEW y \in Seq(S)
  PROVE  /\ Lists!common_prefix_length(x, y) \in 0..Len(x)
         /\ Lists!common_prefix_length(x, y) \in 0..Len(y)
         /\ \A k \in 1..Lists!common_prefix_length(x, y) : x[k] = y[k]
<1> DEFINE l == Len(x)
           m == Len(y)
           Ends(n) == n < l /\ n < m => x[n + 1] # y[n + 1]
           P(n) == n <= m /\ (\A k \in 1..n : x[k] = y[k]) /\ Ends(n)
           Z == {n \in 0..l : n <= m /\ Ends(n)}
           c == CHOOSE n \in 0..l : P(n)
<1>0. l \in Nat /\ m \in Nat
  BY LenProperties
<1>1. Lists!common_prefix_length(x, y) = c
  BY Zenon DEF Lists!common_prefix_length
<1> HIDE DEF l, m
<1>2. Z \in SUBSET Nat /\ Z # {}
  <2>1. l <= m => l \in Z
    BY <1>0
  <2>2. ~(l <= m) => m \in Z
    BY <1>0
  <2>3. Z \subseteq Nat
    BY <1>0
  <2> HIDE DEF Z
  <2> QED BY <2>1, <2>2, <2>3
<1>3. PICK n \in Z : \A j \in Z : ~(j < n)
  <2> HIDE DEF Z
  <2> QED BY <1>2, LeastNumber
<1>4. n \in 0..l /\ n <= m /\ Ends(n)
  BY <1>3
<1>5. ASSUME NEW k \in 1..n PROVE x[k] = y[k]
  <2>1. k - 1 \in 0..l /\ k - 1 < n /\ k - 1 < l /\ k - 1 < m /\ (k - 1) + 1 = k
    BY <1>0, <1>4
  <2>2. k - 1 \notin Z
    BY <1>3, <2>1
  <2>3. ~Ends(k - 1)
    BY <1>0, <2>1, <2>2
  <2> QED BY <2>1, <2>3
<1>6. P(n)
  BY <1>4, <1>5
<1> HIDE DEF P
<1>7. c \in 0..l /\ P(c)
  BY <1>4, <1>6
<1> HIDE DEF c
<1> QED BY <1>0, <1>1, <1>7 DEF P, l, m

\* A term and a definition are items of the same list.
LEMMA TermNamed ==
  ASSUME NEW bs \in Seq(Strings), NEW bn \in Seq(Strings), NEW n,
         n + 1 \in 1..Len(bs), n + 1 \in 1..Len(bn), n \in 0..Len(bs),
         \A k \in 1..n : bs[k] = bn[k], Lists!is_dt_dd(bs[n + 1], bn[n + 1])
  PROVE  Lists!Front(Names(SubSeq(bs, 1, n + 1))) \o <<Lists!ItemName[bn[n + 1]]>>
            = Names(SubSeq(bn, 1, n + 1))
<1> DEFINE j == n + 1
           p == SubSeq(bs, 1, j)
           r == SubSeq(bn, 1, j)
           item == Lists!ItemName[bn[j]]
           x == Names(p)
           z == Names(r)
           Of(s, k) == IF k % 2 = 1 THEN Lists!Container[s[(k + 1) \div 2]]
                       ELSE Lists!ItemName[s[k \div 2]]
<1>0. n \in Nat /\ j \in Nat \ {0} /\ j \in 0..Len(bs) /\ j \in 0..Len(bn) /\ j - 1 = n /\ j \in 1..j
  <2>1. Len(bs) \in Nat
    BY LenProperties
  <2> QED BY <2>1
<1>1. Lists!Container[bs[j]] = Lists!Container[bn[j]]
  BY DEF Lists!is_dt_dd, Lists!Container, Lists!Bullets
<1>2. \A k \in 1..n : bs[k] = bn[k]
  OBVIOUS
<1> HIDE DEF j
<1>3. p \in Seq(Strings) /\ Len(p) = j /\ \A k \in 1..j : p[k] = bs[k]
  BY <1>0, FirstOf
<1>4. r \in Seq(Strings) /\ Len(r) = j /\ \A k \in 1..j : r[k] = bn[k]
  BY <1>0, FirstOf
<1> HIDE DEF p, r
<1>5. PICK U : x \in Seq(U)
  BY <1>3, NamesAre
<1>6. PICK V : z \in Seq(V)
  BY <1>4, NamesAre
<1>7. Len(x) = 2 * j /\ \A k \in 1..(2 * j) : x[k] = Of(p, k)
  BY <1>3, NamesAre
<1>8. Len(z) = 2 * j /\ \A k \in 1..(2 * j) : z[k] = Of(r, k)
  BY <1>4, NamesAre
<1> DEFINE X == (U \union V) \union {item}
           m == 2 * j - 1
           y == Lists!Front(x)
<1>9. x \in Seq(X) /\ z \in Seq(X) /\ <<item>> \in Seq(X)
  <2>1. x \in Seq(X) /\ z \in Seq(X)
    BY <1>5, <1>6, SeqMonotonic
  <2>2. item \in X
    OBVIOUS
  <2> HIDE DEF X, item
  <2> QED BY <2>1, <2>2, SeqOne
<1> HIDE DEF X, item, x, z, Of
<1>10. y \in Seq(X) /\ Len(y) = m /\ \A k \in 1..m : y[k] = x[k]
  <2>1. y = SubSeq(x, 1, m) /\ m \in 0..Len(x)
    BY <1>0, <1>7 DEF Lists!Front
  <2> HIDE DEF y, m
  <2> QED BY <1>9, <2>1, FirstOf
<1> DEFINE w == y \o <<item>>
<1>11. w \in Seq(X) /\ Len(w) = 2 * j /\ \A k \in 1..(2 * j) : w[k] = IF k <= m THEN x[k] ELSE item
  <2> DEFINE i == <<item>>
  <2>0. Len(i) = 1 /\ i[1] = item
    OBVIOUS
  <2> HIDE DEF i, y
  <2>1. /\ y \o i \in Seq(X) /\ Len(y \o i) = Len(y) + Len(i)
        /\ \A k \in 1..(Len(y) + Len(i)) : (y \o i)[k] = IF k <= Len(y) THEN y[k] ELSE i[k - Len(y)]
    BY <1>9, <1>10, ConcatProperties DEF i
  <2> DEFINE v == y \o i
  <2>2. w = v
    BY DEF i
  <2>a. v \in Seq(X) /\ Len(v) = Len(y) + Len(i)
    BY <2>1
  <2>b. \A k \in 1..(Len(y) + Len(i)) : v[k] = IF k <= Len(y) THEN y[k] ELSE i[k - Len(y)]
    BY <2>1
  <2> HIDE DEF w, v
  <2>3. Len(v) = 2 * j
    BY <1>0, <1>10, <2>0, <2>a
  <2>4. ASSUME NEW k \in 1..(2 * j) PROVE v[k] = IF k <= m THEN x[k] ELSE item
    <3>1. CASE k <= m
      BY <1>0, <1>10, <2>0, <2>b, <3>1
    <3>2. CASE ~(k <= m)
      <4>1. k - Len(y) = 1 /\ k \in 1..(Len(y) + Len(i)) /\ ~(k <= Len(y))
        BY <1>0, <1>10, <2>0, <3>2
      <4>2. v[k] = i[1]
        BY <2>b, <4>1
      <4> QED BY <2>0, <3>2, <4>2
    <3> QED BY <3>1, <3>2
  <2> QED BY <2>2, <2>a, <2>3, <2>4
<1> HIDE DEF w
<1>12. ASSUME NEW k \in 1..(2 * j) PROVE w[k] = z[k]
  <2>1. CASE k <= 2 * n
    <3>1. k <= m /\ k \in 1..(2 * n)
      BY <1>0, <2>1
    <3>2. w[k] = Of(p, k)
      BY <1>7, <1>11, <3>1
    <3>3. k % 2 = 1 => p[(k + 1) \div 2] = r[(k + 1) \div 2]
      <4> SUFFICES ASSUME k % 2 = 1 PROVE p[(k + 1) \div 2] = r[(k + 1) \div 2]
        OBVIOUS
      <4>1. (k + 1) \div 2 \in 1..n /\ (k + 1) \div 2 \in 1..j
        BY <1>0, <3>1
      <4> QED BY <1>2, <1>3, <1>4, <4>1
    <3>4. k % 2 # 1 => p[k \div 2] = r[k \div 2]
      <4> SUFFICES ASSUME k % 2 # 1 PROVE p[k \div 2] = r[k \div 2]
        OBVIOUS
      <4>1. k \div 2 \in 1..n /\ k \div 2 \in 1..j
        BY <1>0, <3>1
      <4> QED BY <1>2, <1>3, <1>4, <4>1
    <3>5. Of(p, k) = Of(r, k)
      BY <3>3, <3>4 DEF Of
    <3> QED BY <1>8, <3>2, <3>5
  <2>2. CASE k = m
    <3>1. k % 2 = 1 /\ (k + 1) \div 2 = j /\ k <= m
      BY <1>0, <2>2
    <3>2. w[k] = Of(p, k)
      BY <1>7, <1>11, <3>1
    <3>3. Of(p, k) = Lists!Container[p[j]] /\ Of(r, k) = Lists!Container[r[j]]
      BY <3>1 DEF Of
    <3>4. p[j] = bs[j] /\ r[j] = bn[j]
      BY <1>0, <1>3, <1>4
    <3> QED BY <1>1, <1>8, <3>2, <3>3, <3>4
  <2>3. CASE k = 2 * j
    <3>1. k % 2 # 1 /\ k \div 2 = j /\ ~(k <= m)
      BY <1>0, <2>3
    <3>2. Of(r, k) = Lists!ItemName[r[j]]
      BY <3>1 DEF Of
    <3>3. r[j] = bn[j]
      BY <1>0, <1>4
    <3> QED BY <1>8, <1>11, <3>1, <3>2, <3>3 DEF item
  <2>4. k <= 2 * n \/ k = m \/ k = 2 * j
    BY <1>0
  <2> QED BY <2>1, <2>2, <2>3, <2>4
<1>13. w = z
  BY <1>8, <1>9, <1>11, <1>12, SeqEqual
<1> QED BY <1>13 DEF w, y, x, z, p, r, item, j

\* A frame, with any tokens in it.
FrameShape(f) ==
    f = [at_eol |-> f.at_eol, nl_tk |-> f.nl_tk, sol_tokens |-> f.sol_tokens,
         bstack |-> f.bstack, endtags |-> f.endtags,
         num_open_block_tags |-> f.num_open_block_tags, num_open_tags |-> f.num_open_tags,
         have_dd |-> f.have_dd, list_tk |-> f.list_tk]

\* Its end tags are those of its bullets.
FrameNamed(f) ==
    FrameShape(f) /\ f.bstack \in Seq(Strings) /\ f.endtags = Names(f.bstack)

\* A list item leaves a frame with the end tags of its bullets, and nothing held.
LEMMA ItemDone ==
  ASSUME NEW f, FrameNamed(f), NEW bn \in Seq(Strings), NEW at
  PROVE  LET g == Lists!do_list_item(f, bn, at)
         IN  /\ FrameNamed(g)
             /\ g.bstack = bn
             /\ ~g.at_eol /\ g.nl_tk = <<>> /\ g.sol_tokens = <<>>
<1> DEFINE bs == f.bstack
           n == Lists!common_prefix_length(bs, bn)
           same == Lists!SameItem(f, bn, at)
           term == Lists!TermOrDefinition(f, bn, n, at)
           other == Lists!OtherNesting(f, bn, n, at)
           l == Len(bs)
           m == Len(bn)
           done == IF n = l /\ n = m THEN same
                   ELSE IF n < l /\ n < m /\ Lists!is_dt_dd(bs[n + 1], bn[n + 1]) THEN term
                   ELSE other
           g == [Lists!LineStarted(done) EXCEPT !.bstack = bn]
<1>0. l \in Nat /\ m \in Nat /\ bs \in Seq(Strings) /\ f.endtags = Names(bs)
  BY LenProperties DEF FrameNamed
<1>1. Lists!do_list_item(f, bn, at) = g
  BY Zenon DEF Lists!do_list_item
<1>2. n \in 0..l /\ n \in 0..m /\ \A k \in 1..n : bs[k] = bn[k]
  <2> HIDE DEF bs
  <2> QED BY <1>0, CommonPrefix
<1>3. Len(f.endtags) = 2 * l
  BY <1>0, NamesAre
<1> DEFINE first(b, k) == SubSeq(b, 1, k)
<1>4. first(bs, n) = first(bn, n)
  <2> DEFINE x == first(bs, n)
             y == first(bn, n)
  <2>1. x \in Seq(Strings) /\ Len(x) = n /\ \A k \in 1..n : x[k] = bs[k]
    <3> HIDE DEF n, bs
    <3> QED BY <1>0, <1>2, FirstOf
  <2>2. y \in Seq(Strings) /\ Len(y) = n /\ \A k \in 1..n : y[k] = bn[k]
    <3> HIDE DEF n
    <3> QED BY <1>2, FirstOf
  <2> HIDE DEF x, y, n, bs
  <2>3. x = y
    BY <1>2, <2>1, <2>2, SeqEqual
  <2> QED BY <2>3 DEF x, y
<1> DEFINE Follows(d) == FrameShape(d) /\ d.endtags = Names(bn)
<1>5. ASSUME n = l, n = m PROVE Follows(done)
  <2>1. bs = bn
    <3> HIDE DEF n
    <3> QED BY <1>0, <1>2, <1>5, SeqEqual
  <2>2. Follows(same)
    <3>1. \E x : same = [f EXCEPT !.list_tk = x]
      BY Zenon DEF Lists!SameItem, Lists!add_tokens
    <3>2. FrameShape(f) /\ f.endtags = Names(bn)
      BY <1>0, <2>1 DEF FrameNamed
    <3> HIDE DEF same
    <3> QED BY <3>1, <3>2 DEF FrameShape
  <2>3. done = same
    BY <1>5
  <2> HIDE DEF done, same
  <2> QED BY <2>2, <2>3
<1>6. ASSUME n < l, n < m, Lists!is_dt_dd(bs[n + 1], bn[n + 1]) PROVE Follows(done)
  <2> DEFINE pops == l - n - 1
             left == SubSeq(f.endtags, 1, Len(f.endtags) - 2 * pops)
             item == Lists!ItemName[bn[n + 1]]
             deeper == SubSeq(bn, n + 2, m)
             tags == Lists!Front(left) \o <<item>> \o Names(deeper)
  <2>1. n + 1 \in 0..l /\ n + 1 \in 0..m /\ (n + 1) + 1 = n + 2 /\ 2 * l - 2 * pops = 2 * (n + 1)
    <3> HIDE DEF n, l, m
    <3> QED BY <1>0, <1>2, <1>6
  <2>2. left = Names(first(bs, n + 1))
    <3> DEFINE k == n + 1
    <3>1. left = SubSeq(Names(bs), 1, 2 * k)
      BY <1>0, <1>3, <2>1
    <3>2. k \in 0..Len(bs)
      BY <2>1
    <3> HIDE DEF k, bs, left
    <3>3. left = Names(first(bs, k))
      BY <1>0, <3>1, <3>2, NamesOfFirst
    <3> QED BY <3>3 DEF k
  <2>3. Lists!Front(left) \o <<item>> = Names(first(bn, n + 1))
    <3>1. n + 1 \in 1..l /\ n + 1 \in 1..m
      <4> HIDE DEF n, l, m
      <4> QED BY <1>0, <1>2, <1>6
    <3> HIDE DEF n, bs, left
    <3>2. Lists!Front(Names(SubSeq(bs, 1, n + 1))) \o <<Lists!ItemName[bn[n + 1]]>>
              = Names(SubSeq(bn, 1, n + 1))
      BY <1>0, <1>2, <1>6, <3>1, TermNamed
    <3> QED BY <2>2, <3>2
  <2>4. tags = Names(bn)
    <3> DEFINE k == n + 1
               front == Lists!Front(left) \o <<item>>
    <3>1. front = Names(SubSeq(bn, 1, k))
      BY <2>3
    <3>2. deeper = SubSeq(bn, k + 1, Len(bn)) /\ k \in 0..Len(bn)
      BY <2>1
    <3> HIDE DEF k, front, deeper
    <3>3. front \o Names(deeper) = Names(bn)
      BY <3>1, <3>2, NamesJoined
    <3> QED BY <3>3 DEF front
  <2>5. Follows(term)
    <3>1. tags = Lists!Front(left) \o <<item>> \o Lists!EndTagNames(deeper)
      BY DEF Names
    <3>2. \E x, y :
             term = [Lists!add_tokens(f, x) EXCEPT !.endtags = tags, !.have_dd = y]
      BY <3>1, Zenon DEF Lists!TermOrDefinition
    <3> HIDE DEF term, tags
    <3> QED BY <2>4, <3>2 DEF FrameNamed, FrameShape, Lists!add_tokens
  <2>6. done = term
    <3> HIDE DEF n, l, m
    <3> QED BY <1>0, <1>6
  <2> HIDE DEF done, term
  <2> QED BY <2>5, <2>6
<1>7. ASSUME done = other PROVE Follows(done)
  <2> DEFINE pops == l - n
             left == SubSeq(f.endtags, 1, Len(f.endtags) - 2 * pops)
             deeper == SubSeq(bn, n + 1, m)
             tags == left \o Names(deeper)
  <2>1. 2 * l - 2 * pops = 2 * n
    <3> HIDE DEF n, l, m
    <3> QED BY <1>0, <1>2
  <2>2. left = Names(first(bs, n))
    <3>1. left = SubSeq(Names(bs), 1, 2 * n)
      BY <1>0, <1>3, <2>1
    <3> HIDE DEF bs, left, n
    <3> QED BY <1>0, <1>2, <3>1, NamesOfFirst
  <2>3. left = Names(first(bn, n))
    BY <1>4, <2>2
  <2>4. tags = Names(bn)
    <3> HIDE DEF n, left
    <3> QED BY <1>2, <2>3, NamesJoined
  <2>5. Follows(other)
    <3>1. tags = left \o Lists!EndTagNames(deeper)
      BY DEF Names
    <3>2. \E x, y :
             other = [Lists!add_tokens(f, x) EXCEPT !.endtags = tags, !.have_dd = y]
      BY <3>1, Zenon DEF Lists!OtherNesting
    <3> HIDE DEF other, tags
    <3> QED BY <2>4, <3>2 DEF FrameNamed, FrameShape, Lists!add_tokens
  <2> HIDE DEF done, other
  <2> QED BY <1>7, <2>5
<1>8. Follows(done)
  <2>1. \/ n = l /\ n = m
        \/ n < l /\ n < m /\ Lists!is_dt_dd(bs[n + 1], bn[n + 1])
        \/ done = other
    OBVIOUS
  <2> HIDE DEF done, n, l, m, other
  <2> QED BY <1>5, <1>6, <1>7, <2>1
<1>9. /\ FrameShape(g) /\ g.bstack = bn /\ g.endtags = Names(bn)
      /\ ~g.at_eol /\ g.nl_tk = <<>> /\ g.sol_tokens = <<>>
  <2> HIDE DEF done
  <2> DEFINE s == Lists!LineStarted(done)
  <2>1. s = [at_eol |-> FALSE, nl_tk |-> <<>>, sol_tokens |-> <<>>,
             bstack |-> done.bstack, endtags |-> done.endtags,
             num_open_block_tags |-> done.num_open_block_tags,
             num_open_tags |-> done.num_open_tags,
             have_dd |-> done.have_dd, list_tk |-> done.list_tk]
    <3>1. s = [done EXCEPT !.sol_tokens = <<>>, !.nl_tk = <<>>, !.at_eol = FALSE]
      BY DEF Lists!LineStarted
    <3>2. FrameShape(done)
      BY <1>8
    <3> HIDE DEF s, g
    <3> QED BY <3>1, <3>2 DEF FrameShape
  <2>2. g = [s EXCEPT !.bstack = bn]
    OBVIOUS
  <2> HIDE DEF s, g
  <2>3. g = [at_eol |-> FALSE, nl_tk |-> <<>>, sol_tokens |-> <<>>,
             bstack |-> bn, endtags |-> done.endtags,
             num_open_block_tags |-> done.num_open_block_tags,
             num_open_tags |-> done.num_open_tags,
             have_dd |-> done.have_dd, list_tk |-> done.list_tk]
    BY <2>1, <2>2
  <2> QED BY <1>8, <2>3 DEF FrameShape
<1> HIDE DEF g
<1> QED BY <1>1, <1>9 DEF FrameNamed

\* A frame with bullets and their end tags; only at the end of its line it holds
\* anything back.
Kept(f) ==
    /\ FrameNamed(f) /\ f.bstack # <<>>
    /\ f.at_eol \in BOOLEAN
    /\ ~f.at_eol => f.nl_tk = <<>> /\ f.sol_tokens = <<>>

\* The frames, in a sequence over some S.
ListTyped(S) ==
    /\ list_frame_stack \in Seq(S)
    /\ have_active_list_frame \in BOOLEAN
    /\ on_any_enabled = (list_frame_stack # <<>>)
    /\ have_active_list_frame => list_frame_stack # <<>>
    /\ \A k \in 1..Len(list_frame_stack) :
          /\ Kept(list_frame_stack[k])
          /\ Lists!FrameInUse(k) \/ Lists!HoldsNothing(list_frame_stack[k])

LEMMA ListFrames ==
  ASSUME NEW S, ListTyped(S)
  PROVE  FramesKept
<1>1. list_frame_stack \in Seq(S) /\ DOMAIN list_frame_stack = 1..Len(list_frame_stack)
  BY LenProperties DEF ListTyped
<1>2. \A f : Kept(f) => Lists!FrameOK(f)
  BY DEF Kept, FrameNamed, Names, Lists!FrameOK
<1> QED BY <1>1, <1>2 DEF ListTyped, FramesKept, Lists!FramesKept

\* A frame that keeps its bullets is still kept.
LEMMA FrameRewritten ==
  ASSUME NEW f, Kept(f), NEW g, FrameShape(g), g.bstack = f.bstack, g.endtags = f.endtags,
         g.at_eol \in BOOLEAN, ~g.at_eol => g.nl_tk = <<>> /\ g.sol_tokens = <<>>
  PROVE  Kept(g)
BY DEF Kept, FrameNamed

LEMMA TokensAdded ==
  ASSUME NEW f, Kept(f), NEW x
  PROVE  /\ Kept(Lists!add_tokens(f, x))
         /\ Lists!HoldsNothing(f) => Lists!HoldsNothing(Lists!add_tokens(f, x))
<1> DEFINE g == Lists!add_tokens(f, x)
<1>1. FrameShape(f)
  BY DEF Kept, FrameNamed
<1>2. g = [f EXCEPT !.list_tk = f.list_tk \o x]
  BY DEF Lists!add_tokens
<1> DEFINE y == f.list_tk \o x
<1> HIDE DEF g, y
<1>3. g = [at_eol |-> f.at_eol, nl_tk |-> f.nl_tk, sol_tokens |-> f.sol_tokens,
           bstack |-> f.bstack, endtags |-> f.endtags,
           num_open_block_tags |-> f.num_open_block_tags, num_open_tags |-> f.num_open_tags,
           have_dd |-> f.have_dd, list_tk |-> y]
  BY <1>1, <1>2 DEF FrameShape, y
<1>4. /\ FrameShape(g) /\ g.bstack = f.bstack /\ g.endtags = f.endtags
      /\ g.at_eol = f.at_eol /\ g.nl_tk = f.nl_tk /\ g.sol_tokens = f.sol_tokens
  BY <1>3 DEF FrameShape
<1>5. f.at_eol \in BOOLEAN /\ (~f.at_eol => f.nl_tk = <<>> /\ f.sol_tokens = <<>>)
  BY DEF Kept
<1>6. Kept(g)
  BY <1>4, <1>5, FrameRewritten
<1> QED BY <1>4, <1>6 DEF g, Lists!HoldsNothing

\* The last frame becomes another one.
LEMMA TopSet ==
  ASSUME NEW S, ListTyped(S), list_frame_stack # <<>>, NEW f, Lists!SetTop(f), Kept(f),
         have_active_list_frame' \in BOOLEAN,
         have_active_list_frame' \/ Lists!HoldsNothing(f),
         on_any_enabled' = TRUE
  PROVE  \E U : ListTyped(U)'
<1> DEFINE n == Len(list_frame_stack)
           U == S \union {f}
           after == [list_frame_stack EXCEPT ![n] = f]
<1>1. list_frame_stack \in Seq(U) /\ n \in Nat \ {0} /\ f \in U
  <2>1. list_frame_stack \in Seq(S)
    BY DEF ListTyped
  <2>2. n \in Nat \ {0}
    BY <2>1, EmptySeq
  <2> QED BY <2>1, <2>2, SeqMonotonic
<1>2. list_frame_stack' = after
  BY DEF Lists!SetTop
<1>3. \A k \in 1..n :
         /\ Kept(list_frame_stack[k])
         /\ k # n => Lists!HoldsNothing(list_frame_stack[k])
  BY DEF ListTyped, Lists!FrameInUse
<1> HIDE DEF U, n, after
<1>4. /\ after \in Seq(U) /\ Len(after) = n
      /\ \A k \in 1..n : after[k] = IF k = n THEN f ELSE list_frame_stack[k]
  <2>1. n \in 1..Len(list_frame_stack)
    BY <1>1 DEF n
  <2>2. Len(list_frame_stack) = n
    BY DEF n
  <2> QED BY <1>1, <2>1, <2>2, ExceptSeq DEF after
<1>5. after # <<>>
  BY <1>1, <1>4
<1>6. \A k \in 1..n :
         /\ Kept(after[k])
         /\ (k = n /\ have_active_list_frame') \/ Lists!HoldsNothing(after[k])
  <2> SUFFICES ASSUME NEW k \in 1..n
               PROVE  /\ Kept(after[k])
                      /\ (k = n /\ have_active_list_frame') \/ Lists!HoldsNothing(after[k])
    OBVIOUS
  <2>1. CASE k = n
    <3>1. after[k] = f
      BY <1>4, <2>1
    <3> QED BY <2>1, <3>1
  <2>2. CASE k # n
    <3>1. after[k] = list_frame_stack[k]
      BY <1>4, <2>2
    <3>2. Kept(list_frame_stack[k]) /\ Lists!HoldsNothing(list_frame_stack[k])
      BY <1>3, <2>2
    <3> QED BY <3>1, <3>2
  <2> QED BY <2>1, <2>2
<1>7. ListTyped(U)'
  <2>1. list_frame_stack' \in Seq(U) /\ Len(list_frame_stack') = n /\ list_frame_stack' # <<>>
    BY <1>2, <1>4, <1>5
  <2>2. \A k \in 1..Len(list_frame_stack') :
           /\ Kept(list_frame_stack'[k])
           /\ Lists!FrameInUse(k)' \/ Lists!HoldsNothing(list_frame_stack'[k])
    <3>1. \A k \in 1..Len(after) :
               Kept(after[k]) /\ ((k = Len(after) /\ have_active_list_frame') \/ Lists!HoldsNothing(after[k]))
      BY <1>4, <1>6
    <3> QED BY <1>2, <3>1 DEF Lists!FrameInUse
  <2> QED BY <2>1, <2>2 DEF ListTyped
<1> QED BY <1>7

\* A list begins in the last one.
LEMMA FrameAdded ==
  ASSUME NEW S, ListTyped(S), ~have_active_list_frame, NEW f, Kept(f),
         list_frame_stack' = Append(list_frame_stack, f),
         have_active_list_frame' = TRUE, on_any_enabled' = TRUE
  PROVE  \E U : ListTyped(U)'
<1> DEFINE n == Len(list_frame_stack)
           U == S \union {f}
           after == Append(list_frame_stack, f)
<1>1. list_frame_stack \in Seq(U) /\ n \in Nat /\ f \in U
  <2>1. list_frame_stack \in Seq(S)
    BY DEF ListTyped
  <2> QED BY <2>1, LenProperties, SeqMonotonic
<1>2. \A k \in 1..n : Kept(list_frame_stack[k]) /\ Lists!HoldsNothing(list_frame_stack[k])
  BY DEF ListTyped, Lists!FrameInUse
<1> HIDE DEF U
<1>3. /\ after \in Seq(U) /\ after # <<>> /\ Len(after) = n + 1
      /\ \A k \in 1..n : after[k] = list_frame_stack[k]
      /\ after[n + 1] = f
  BY <1>1, AppendProperties
<1> HIDE DEF n, after
<1>4. \A k \in 1..(n + 1) : Kept(after[k]) /\ (k = n + 1 \/ Lists!HoldsNothing(after[k]))
  <2> SUFFICES ASSUME NEW k \in 1..(n + 1)
               PROVE  Kept(after[k]) /\ (k = n + 1 \/ Lists!HoldsNothing(after[k]))
    OBVIOUS
  <2>1. k \in 1..n \/ k = n + 1
    BY <1>1
  <2> QED BY <1>2, <1>3, <2>1
<1>5. list_frame_stack' = after
  BY DEF after
<1>6. ListTyped(U)'
  BY <1>3, <1>4, <1>5 DEF ListTyped, Lists!FrameInUse
<1> QED BY <1>6

\* The last frame ends; what it made is added to the one around it.
LEMMA FramePopped ==
  ASSUME NEW S, ListTyped(S), list_frame_stack # <<>>, NEW ret, Lists!pop_list_frame(ret),
         have_active_list_frame' \in BOOLEAN,
         have_active_list_frame' => Len(list_frame_stack) > 1
  PROVE  \E U : ListTyped(U)'
<1> DEFINE n == Len(list_frame_stack)
           rest == Lists!Front(list_frame_stack)
           m == n - 1
<1>1. list_frame_stack \in Seq(S) /\ n \in Nat \ {0} /\ m \in Nat /\ m \in 0..n /\ n = m + 1
  <2>1. list_frame_stack \in Seq(S)
    BY DEF ListTyped
  <2>2. n \in Nat \ {0}
    BY <2>1, EmptySeq
  <2> QED BY <2>1, <2>2
<1>2. rest \in Seq(S) /\ Len(rest) = m /\ \A k \in 1..m : rest[k] = list_frame_stack[k]
  <2>1. rest = SubSeq(list_frame_stack, 1, m) /\ m \in 0..Len(list_frame_stack)
    BY <1>1 DEF Lists!Front
  <2> HIDE DEF rest, m
  <2> QED BY <1>1, <2>1, FirstOf
<1>3. \A k \in 1..m : Kept(rest[k]) /\ Lists!HoldsNothing(rest[k])
  <2> SUFFICES ASSUME NEW k \in 1..m PROVE Kept(rest[k]) /\ Lists!HoldsNothing(rest[k])
    OBVIOUS
  <2>1. k \in 1..n /\ k # n /\ rest[k] = list_frame_stack[k]
    <3> HIDE DEF n, m, rest
    <3>1. k \in 1..n /\ k # n
      BY <1>1
    <3> QED BY <1>2, <3>1
  <2> QED BY <2>1 DEF ListTyped, Lists!FrameInUse
<1>4. /\ list_frame_stack' = IF rest = <<>> THEN rest
                             ELSE [rest EXCEPT ![Len(rest)] = Lists!add_tokens(@, ret)]
      /\ on_any_enabled' = (rest # <<>>)
  BY DEF Lists!pop_list_frame
<1>5. have_active_list_frame' => m > 0
  BY <1>1
<1> HIDE DEF rest, n, m
<1>6. CASE rest = <<>>
  <2>1. m = 0
    BY <1>2, <1>6
  <2>2. ListTyped(S)'
    BY <1>2, <1>4, <1>5, <1>6, <2>1 DEF ListTyped
  <2> QED BY <2>2
<1>7. CASE rest # <<>>
  <2> DEFINE f == Lists!add_tokens(rest[m], ret)
  <2>0. PICK U : U = S \union {f}
    OBVIOUS
  <2> DEFINE after == [rest EXCEPT ![m] = f]
  <2>1. m \in 1..m
    BY <1>1, <1>2, <1>7, EmptySeq
  <2>2. Kept(f) /\ Lists!HoldsNothing(f)
    BY <1>3, <2>1, TokensAdded
  <2>3. list_frame_stack' = after
    BY <1>2, <1>4, <1>7
  <2>4. rest \in Seq(U) /\ f \in U
    BY <1>2, <2>0, SeqMonotonic
  <2> HIDE DEF f, after
  <2>5. /\ after \in Seq(U) /\ Len(after) = m
        /\ \A k \in 1..m : after[k] = IF k = m THEN f ELSE rest[k]
    BY <1>2, <2>1, <2>4, ExceptSeq DEF after
  <2>6. after # <<>>
    BY <1>1, <2>1, <2>5
  <2>7. \A k \in 1..m : Kept(after[k]) /\ Lists!HoldsNothing(after[k])
    BY <1>3, <2>2, <2>5
  <2>8. ListTyped(U)'
    <3>1. /\ list_frame_stack' \in Seq(U) /\ Len(list_frame_stack') = m
          /\ list_frame_stack' # <<>> /\ on_any_enabled' = TRUE
      BY <1>4, <1>7, <2>3, <2>5, <2>6
    <3>2. \A k \in 1..Len(list_frame_stack') :
             Kept(list_frame_stack'[k]) /\ Lists!HoldsNothing(list_frame_stack'[k])
      BY <2>3, <2>5, <2>7
    <3> QED BY <3>1, <3>2 DEF ListTyped
  <2> QED BY <2>8
<1> QED BY <1>6, <1>7

\* Every step of the list handler keeps the frames.
LEMMA ListStep ==
  ASSUME NEW A, NEW S, stream \in Seq(Tokens(A)), ListTyped(S), Lists!Next
  PROVE  stream' \in Seq(Tokens(A)) /\ \E U : ListTyped(U)'
<1> DEFINE T == Tokens(A)
           n == Len(list_frame_stack)
           top == Lists!Top
<1>1. stream # <<>> /\ stream' = Tail(stream)
  BY DEF Lists!Next, Lists!Reads, Lists!PassOn, Lists!on_list_item_colon, Lists!on_list_item,
         Lists!on_newline, Lists!on_newline_closes, Lists!on_any_suspended,
         Lists!on_any_table_end, Lists!on_any_closes, Lists!on_any_held, Lists!on_any,
         Lists!on_end
<1>2. stream' \in Seq(T) /\ Head(stream) \in T
  <2>1. stream \in Seq(T)
    OBVIOUS
  <2> HIDE DEF T
  <2> QED BY <1>1, <2>1, HeadTailProperties
<1>3. /\ list_frame_stack \in Seq(S)
      /\ have_active_list_frame \in BOOLEAN
      /\ on_any_enabled = (list_frame_stack # <<>>)
      /\ have_active_list_frame => list_frame_stack # <<>>
  BY DEF ListTyped
<1>4. ASSUME list_frame_stack # <<>>
      PROVE  /\ Kept(top) /\ FrameShape(top) /\ top.at_eol \in BOOLEAN
             /\ have_active_list_frame \/ Lists!HoldsNothing(top)
             /\ ~top.at_eol => top.nl_tk = <<>> /\ top.sol_tokens = <<>>
  <2>1. n \in Nat \ {0}
    BY <1>3, <1>4, EmptySeq
  <2>2. n \in 1..n
    BY <2>1
  <2>3. Kept(list_frame_stack[n]) /\ (Lists!FrameInUse(n) \/ Lists!HoldsNothing(list_frame_stack[n]))
    BY <2>2 DEF ListTyped
  <2>4. Kept(top) /\ (have_active_list_frame \/ Lists!HoldsNothing(top))
    BY <2>3 DEF Lists!Top, Lists!FrameInUse
  <2> HIDE DEF top
  <2> QED BY <2>4 DEF Kept, FrameNamed
<1>5. list_frame_stack # <<>> =>
          \A x : Kept(Lists!add_tokens(top, x))
                 /\ (Lists!HoldsNothing(top) => Lists!HoldsNothing(Lists!add_tokens(top, x)))
  BY <1>4, TokensAdded
<1>6. ASSUME list_frame_stack # <<>>, NEW f, Lists!SetTop(f), Kept(f),
             have_active_list_frame' \in BOOLEAN,
             have_active_list_frame' \/ Lists!HoldsNothing(f), on_any_enabled' = TRUE
      PROVE  \E U : ListTyped(U)'
  BY <1>6, TopSet
<1> HIDE DEF top
<1>7. CASE Lists!PassOn
  <2>1. ListTyped(S)'
    BY <1>7 DEF Lists!PassOn, Lists!handler_vars, ListTyped, Lists!FrameInUse
  <2> QED BY <1>2, <2>1
<1> DEFINE dd == top.have_dd /\ ~in_t2529_mode
           open == [top EXCEPT !.have_dd = @ /\ ~in_t2529_mode]
<1>8. have_active_list_frame =>
          /\ Lists!ItemFrame = open /\ Kept(open) /\ open.bstack = top.bstack
  <2> SUFFICES ASSUME have_active_list_frame
               PROVE  Lists!ItemFrame = open /\ Kept(open) /\ open.bstack = top.bstack
    OBVIOUS
  <2>1. list_frame_stack # <<>>
    BY <1>3
  <2>2. Lists!ItemFrame = open
    BY DEF Lists!ItemFrame, top
  <2>3. open = [top EXCEPT !.have_dd = dd]
    OBVIOUS
  <2> HIDE DEF dd, open
  <2>4. open = [at_eol |-> top.at_eol, nl_tk |-> top.nl_tk, sol_tokens |-> top.sol_tokens,
                bstack |-> top.bstack, endtags |-> top.endtags,
                num_open_block_tags |-> top.num_open_block_tags,
                num_open_tags |-> top.num_open_tags, have_dd |-> dd, list_tk |-> top.list_tk]
    BY <1>4, <2>1, <2>3 DEF FrameShape
  <2>5. Kept(open)
    <3>1. /\ FrameShape(open) /\ open.bstack = top.bstack /\ open.endtags = top.endtags
          /\ open.at_eol = top.at_eol /\ open.nl_tk = top.nl_tk
          /\ open.sol_tokens = top.sol_tokens
      BY <2>4 DEF FrameShape
    <3> QED BY <1>4, <2>1, <3>1, FrameRewritten
  <2> QED BY <2>2, <2>4, <2>5
<1>9. CASE Lists!on_list_item_colon
  <2>1. have_active_list_frame /\ list_frame_stack # <<>>
    BY <1>3, <1>9 DEF Lists!on_list_item_colon, Lists!is_colon_text
  <2> DEFINE f == Lists!add_tokens(open, <<Lists!At(Lists!Str("bullet"), Lists!Token0.at)>>)
  <2>2. Lists!SetTop(f) /\ have_active_list_frame' = have_active_list_frame /\ on_any_enabled' = TRUE
    BY <1>8, <1>9, <2>1 DEF Lists!on_list_item_colon
  <2> HIDE DEF open
  <2>3. Kept(f)
    BY <1>8, <2>1, TokensAdded
  <2> HIDE DEF f
  <2> QED BY <1>2, <1>3, <1>6, <2>1, <2>2, <2>3
<1>10. CASE Lists!on_list_item
  <2> DEFINE bn == Head(stream).arg
             f == Lists!do_list_item(Lists!ItemFrame, bn, Head(stream).at)
  <2>1. bn \in Seq(Strings) /\ bn # <<>>
    BY <1>2, <1>10 DEF Lists!on_list_item, Lists!is_list_item, Lists!Is, Lists!Token0, Tokens
  <2>2. /\ IF have_active_list_frame THEN Lists!SetTop(f)
           ELSE list_frame_stack' = Append(list_frame_stack, f)
        /\ have_active_list_frame' = TRUE /\ on_any_enabled' = TRUE
    BY <1>10 DEF Lists!on_list_item, Lists!Token0
  <2>3. FrameNamed(Lists!ItemFrame)
    <3>1. CASE have_active_list_frame
      <4> HIDE DEF open
      <4> QED BY <1>8, <3>1 DEF Kept
    <3>2. CASE ~have_active_list_frame
      <4>1. Lists!ItemFrame = Lists!NewFrame
        BY <3>2 DEF Lists!ItemFrame
      <4>2. Names(<<>>) = <<>>
        <5>1. PICK e : e = <<>>
          OBVIOUS
        <5>2. e \in Seq(Strings) /\ Len(e) = 0
          BY <5>1, EmptySeq
        <5>3. PICK U : Names(e) \in Seq(U)
          BY <5>2, NamesAre
        <5>a. Len(Names(e)) = 2 * Len(e)
          BY <5>2, NamesAre
        <5>4. Len(Names(e)) = 0
          BY <5>2, <5>a
        <5> QED BY <5>1, <5>3, <5>4, EmptySeq
      <4> QED BY <4>1, <4>2, SeqEmpty DEF FrameNamed, FrameShape, Lists!NewFrame
    <3> QED BY <3>1, <3>2
  <2> HIDE DEF bn
  <2>4. FrameNamed(f) /\ f.bstack = bn /\ ~f.at_eol /\ f.nl_tk = <<>> /\ f.sol_tokens = <<>>
    BY <2>1, <2>3, ItemDone
  <2>5. f.at_eol \in BOOLEAN
    BY DEF Lists!do_list_item, Lists!LineStarted
  <2> HIDE DEF f
  <2>6. Kept(f)
    BY <2>1, <2>4, <2>5 DEF Kept
  <2>7. CASE have_active_list_frame
    BY <1>2, <1>3, <1>6, <2>2, <2>6, <2>7
  <2>8. CASE ~have_active_list_frame
    BY <1>2, <2>2, <2>6, <2>8, FrameAdded
  <2> QED BY <1>3, <2>7, <2>8
<1>11. CASE Lists!on_newline
  <2>1. /\ list_frame_stack # <<>> /\ ~(have_active_list_frame /\ top.at_eol)
        /\ have_active_list_frame' = have_active_list_frame /\ on_any_enabled' = TRUE
    BY <1>3, <1>11 DEF Lists!on_newline, top
  <2>2. CASE have_active_list_frame
    <3> DEFINE nl == <<Head(stream)>>
               f == [top EXCEPT !.at_eol = TRUE, !.nl_tk = nl, !.have_dd = FALSE, !.num_open_tags = 0]
    <3>1. Lists!SetTop(f)
      BY <1>11, <2>2 DEF Lists!on_newline, Lists!Token0, top
    <3> HIDE DEF nl
    <3>a. f = [top EXCEPT !.at_eol = TRUE, !.nl_tk = nl, !.have_dd = FALSE, !.num_open_tags = 0]
      OBVIOUS
    <3> HIDE DEF f
    <3>2. f = [at_eol |-> TRUE, nl_tk |-> nl, sol_tokens |-> top.sol_tokens,
               bstack |-> top.bstack, endtags |-> top.endtags,
               num_open_block_tags |-> top.num_open_block_tags,
               num_open_tags |-> 0, have_dd |-> FALSE, list_tk |-> top.list_tk]
      <4>1. FrameShape(top)
        BY <1>4, <2>1
      <4> QED BY <3>a, <4>1 DEF FrameShape
    <3>3. Kept(f)
      <4>1. /\ FrameShape(f) /\ f.bstack = top.bstack /\ f.endtags = top.endtags
            /\ f.at_eol = TRUE
        BY <3>2 DEF FrameShape
      <4> QED BY <1>4, <2>1, <4>1, FrameRewritten
    <3> QED BY <1>2, <1>3, <1>6, <2>1, <2>2, <3>1, <3>3
  <2>3. CASE ~have_active_list_frame
    <3> DEFINE f == Lists!add_tokens(top, <<Head(stream)>>)
    <3>1. Lists!SetTop(f)
      BY <1>11, <2>3 DEF Lists!on_newline, Lists!Token0, top
    <3>2. Kept(f) /\ Lists!HoldsNothing(f)
      BY <1>4, <1>5, <2>1, <2>3
    <3> HIDE DEF f
    <3> QED BY <1>2, <1>3, <1>6, <2>1, <3>1, <3>2
  <2> QED BY <1>3, <2>2, <2>3
<1>12. ASSUME Lists!close_lists(Head(stream)), list_frame_stack # <<>> PROVE \E U : ListTyped(U)'
  BY <1>12, FramePopped DEF Lists!close_lists
<1>13. CASE Lists!on_newline_closes
  <2>1. list_frame_stack # <<>> /\ Lists!close_lists(Head(stream))
    BY <1>3, <1>13 DEF Lists!on_newline_closes, Lists!Token0
  <2> QED BY <1>2, <1>12, <2>1
<1>14. CASE Lists!on_any_suspended
  <2> DEFINE f == Lists!add_tokens(top, <<Head(stream)>>)
  <2>1. /\ list_frame_stack # <<>> /\ ~have_active_list_frame
        /\ Lists!SetTop(f) /\ on_any_enabled' = TRUE
    BY <1>3, <1>14 DEF Lists!on_any_suspended, Lists!Token0, top
  <2>2. have_active_list_frame' \in BOOLEAN
    BY <1>14 DEF Lists!on_any_suspended, Lists!ends_table, Lists!Is
  <2>3. Kept(f) /\ Lists!HoldsNothing(f)
    BY <1>4, <1>5, <2>1
  <2> HIDE DEF f
  <2> QED BY <1>2, <1>6, <2>1, <2>2, <2>3
<1>15. CASE Lists!on_any_table_end
  <2>1. list_frame_stack # <<>>
    BY <1>3, <1>15 DEF Lists!on_any_table_end
  <2>2. PICK ret : Lists!pop_list_frame(ret)
    BY <1>15 DEF Lists!on_any_table_end
  <2>3. have_active_list_frame' \in BOOLEAN /\ (have_active_list_frame' => Len(list_frame_stack) > 1)
    <3>1. have_active_list_frame' = (Len(list_frame_stack) > 1)
      BY <1>15 DEF Lists!on_any_table_end
    <3>2. Len(list_frame_stack) > 1 => have_active_list_frame' = TRUE
      BY <3>1
    <3>3. ~(Len(list_frame_stack) > 1) => have_active_list_frame' = FALSE
      <4> DEFINE more == Len(list_frame_stack) > 1
      <4>1. have_active_list_frame' = more
        BY <3>1
      <4>2. more \in BOOLEAN
        OBVIOUS
      <4> HIDE DEF more
      <4>3. ~more => have_active_list_frame' = FALSE
        BY <4>1, <4>2
      <4> QED BY <4>3 DEF more
    <3> QED BY <3>2, <3>3
  <2> QED BY <1>2, <2>1, <2>2, <2>3, FramePopped
<1>16. CASE Lists!on_any_closes
  <2>1. list_frame_stack # <<>> /\ Lists!close_lists(Head(stream))
    BY <1>3, <1>16 DEF Lists!on_any_closes, Lists!Token0
  <2> QED BY <1>2, <1>12, <2>1
<1>17. CASE Lists!on_any_held
  <2>1. /\ list_frame_stack # <<>> /\ have_active_list_frame /\ top.at_eol
        /\ have_active_list_frame' = have_active_list_frame /\ on_any_enabled' = TRUE
    BY <1>3, <1>17 DEF Lists!on_any_held, top
  <2> DEFINE held == top.sol_tokens \o top.nl_tk \o <<Head(stream)>>
             f == [top EXCEPT !.sol_tokens = held, !.nl_tk = <<>>]
  <2>2. Lists!SetTop(f)
    BY <1>17 DEF Lists!on_any_held, Lists!Token0, top
  <2> HIDE DEF held
  <2>a. f = [top EXCEPT !.sol_tokens = held, !.nl_tk = <<>>]
    OBVIOUS
  <2> HIDE DEF f
  <2>3. f = [at_eol |-> top.at_eol, nl_tk |-> <<>>, sol_tokens |-> held,
             bstack |-> top.bstack, endtags |-> top.endtags,
             num_open_block_tags |-> top.num_open_block_tags,
             num_open_tags |-> top.num_open_tags, have_dd |-> top.have_dd,
             list_tk |-> top.list_tk]
    <3>1. FrameShape(top)
      BY <1>4, <2>1
    <3> QED BY <2>a, <3>1 DEF FrameShape
  <2>4. Kept(f)
    <3>1. /\ FrameShape(f) /\ f.bstack = top.bstack /\ f.endtags = top.endtags
          /\ f.at_eol = top.at_eol
      BY <2>3 DEF FrameShape
    <3> QED BY <1>4, <2>1, <3>1, FrameRewritten
  <2> QED BY <1>2, <1>3, <1>6, <2>1, <2>2, <2>4
<1>18. CASE Lists!on_any
  <2> DEFINE tags == Lists!OpenTags(top.num_open_tags)
             blocks == Lists!OpenBlockTags(top.num_open_block_tags)
             g == [top EXCEPT !.num_open_tags = tags, !.num_open_block_tags = blocks]
             f == Lists!add_tokens(g, <<Head(stream)>>)
  <2>1. /\ list_frame_stack # <<>> /\ ~top.at_eol
        /\ have_active_list_frame' \in BOOLEAN /\ on_any_enabled' = TRUE
    BY <1>3, <1>18 DEF Lists!on_any, top
  <2>2. Lists!SetTop(f)
    BY <1>18 DEF Lists!on_any, Lists!Token0, top
  <2> HIDE DEF tags, blocks
  <2>a. g = [top EXCEPT !.num_open_tags = tags, !.num_open_block_tags = blocks]
    OBVIOUS
  <2> HIDE DEF g
  <2>3. g = [at_eol |-> top.at_eol, nl_tk |-> top.nl_tk, sol_tokens |-> top.sol_tokens,
             bstack |-> top.bstack, endtags |-> top.endtags,
             num_open_block_tags |-> blocks, num_open_tags |-> tags,
             have_dd |-> top.have_dd, list_tk |-> top.list_tk]
    <3>1. FrameShape(top)
      BY <1>4, <2>1
    <3> QED BY <2>a, <3>1 DEF FrameShape
  <2>4. /\ FrameShape(g) /\ g.bstack = top.bstack /\ g.endtags = top.endtags
        /\ g.at_eol = top.at_eol /\ g.nl_tk = top.nl_tk /\ g.sol_tokens = top.sol_tokens
    BY <2>3 DEF FrameShape
  <2>5. Kept(g) /\ Lists!HoldsNothing(g)
    BY <1>4, <2>1, <2>4, FrameRewritten DEF Lists!HoldsNothing
  <2>6. Kept(f) /\ Lists!HoldsNothing(f)
    BY <2>5, TokensAdded
  <2> HIDE DEF f
  <2> QED BY <1>2, <1>6, <2>1, <2>2, <2>6
<1>19. CASE Lists!on_end
  <2>1. list_frame_stack' = <<>> /\ have_active_list_frame' = FALSE /\ on_any_enabled' = FALSE
    BY <1>19 DEF Lists!on_end
  <2>2. ListTyped(S)'
    <3>1. <<>> \in Seq(S) /\ Len(<<>>) = 0
      BY EmptySeq
    <3>2. /\ list_frame_stack' \in Seq(S) /\ Len(list_frame_stack') = 0
          /\ on_any_enabled' = (list_frame_stack' # <<>>)
      BY <2>1, <3>1
    <3>3. \A k \in 1..Len(list_frame_stack') : FALSE
      BY <3>2
    <3> QED BY <2>1, <3>2, <3>3, Zenon DEF ListTyped
  <2> QED BY <1>2, <2>2
<1> QED BY <1>7, <1>9, <1>10, <1>11, <1>13, <1>14, <1>15, <1>16, <1>17, <1>18, <1>19 DEF Lists!Next

-----------------------------------------------------------------------------
(* The handlers, one after the other. *)

\* The tokens of a page, and the end of it, are tokens for the handlers.
LEMMA PageTyped ==
  ASSUME NEW Q, Q \subseteq Strings, NEW t,
         t \in {u \in [type : {"Str", "Nl", "Comment", "Tag", "EndTag", "SelfclosingTag"},
                       name : Q, at : Nat, arg : Seq(Q)] :
                    u.type = "Tag" /\ u.name = "listItem" => u.arg # <<>>}
  PROVE  t \in Tokens(Seq(Strings))
<1>1. t.arg \in Seq(Strings)
  BY SeqMonotonic
<1>2. t.type \in Strings /\ t.name \in Strings /\ t.at \in Nat
  BY Literals
<1>3. t = [type |-> t.type, name |-> t.name, at |-> t.at, arg |-> t.arg]
  OBVIOUS
<1>4. t \in [type : Strings, name : Strings, at : Nat, arg : Seq(Strings)]
  BY <1>1, <1>2, <1>3
<1> QED BY <1>1, <1>4 DEF Tokens

LEMMA FirstStream ==
  ASSUME AlphabetsAssumption, Init
  PROVE  stream \in Seq(Tokens(Seq(Strings)))
<1> DEFINE A == Seq(Strings)
           T == Tokens(A)
<1>0. PICK a \in Alphabets : \E m \in 0..a.length : page \in [1..m -> a.tokens]
  BY DEF Init
<1>1. PICK n \in 0..a.length : page \in [1..n -> a.tokens]
  BY <1>0
<1>2. a.tokens \subseteq ParsoidTokens /\ n \in Nat
  BY <1>1 DEF AlphabetsAssumption
<1>3. \A t \in ParsoidTokens : t \in T
  <2>1. PICK Q : Q = STRING
    OBVIOUS
  <2>2. Q \subseteq Strings
    BY <2>1 DEF Strings
  <2>3. ParsoidTokens =
           {u \in [type : {"Str", "Nl", "Comment", "Tag", "EndTag", "SelfclosingTag"},
                   name : Q, at : Nat, arg : Seq(Q)] :
               u.type = "Tag" => /\ u.name = "listItem" => u.arg # <<>>
                                 /\ u.name = "style" => u.arg = <<"mw:DOMFragment">>}
    BY <2>1, Zenon DEF ParsoidTokens
  <2> SUFFICES ASSUME NEW t \in ParsoidTokens PROVE t \in T
    OBVIOUS
  <2>4. t \in {u \in [type : {"Str", "Nl", "Comment", "Tag", "EndTag", "SelfclosingTag"},
                      name : Q, at : Nat, arg : Seq(Q)] :
                   u.type = "Tag" /\ u.name = "listItem" => u.arg # <<>>}
    BY <2>3, Zenon
  <2> QED BY <2>2, <2>4, PageTyped
<1> DEFINE placed == [k \in 1..n |-> At(page[k], k)]
<1> HIDE DEF T
<1>4. DOMAIN page = 1..n /\ \A k \in 1..n : page[k] \in T
  BY <1>1, <1>2, <1>3
<1>5. \A k \in 1..n : At(page[k], k) \in T
  <2> SUFFICES ASSUME NEW k \in 1..n PROVE At(page[k], k) \in T
    OBVIOUS
  <2> DEFINE t == page[k]
  <2>1. t \in Tokens(A) /\ k \in Nat
    BY <1>4 DEF T
  <2> HIDE DEF t, A
  <2>2. [t EXCEPT !.at = k] \in Tokens(A)
    BY <2>1, TokenPlaced
  <2> QED BY <2>2 DEF At, T, t
<1>6. placed \in Seq(T)
  <2>1. placed \in [1..n -> T]
    BY <1>5
  <2> HIDE DEF placed
  <2> QED BY <1>2, <2>1, SeqOfFunction
<1>7. Eof \in T
  <2>1. <<>> \in A
    BY SeqEmpty
  <2> HIDE DEF A
  <2> QED BY <2>1, Literals DEF Eof, Token, T, Tokens
<1>8. stream = placed \o <<Eof>>
  BY <1>4 DEF Init
<1> HIDE DEF placed
<1>9. stream \in Seq(T)
  BY <1>6, <1>7, <1>8, SeqOne, ConcatProperties
<1> QED BY <1>9 DEF T

LEMMA Follows ==
  /\ Following("TokenStreamPatcher") = "PreHandler"
  /\ Following("PreHandler") = "QuoteTransformer"
  /\ Following("QuoteTransformer") = "ListHandler"
  /\ Following("ListHandler") = "ParagraphWrapper"
  /\ Following("ParagraphWrapper") = "Html5TreeBuilder"
  /\ Following("Html5TreeBuilder") = "done"
<1>1. ASSUME NEW s, NEW k \in 1..7, Stages[k] = s, \A j \in 1..7 : Stages[j] = s => j = k
      PROVE  Following(s) = Stages[k + 1]
  <2>1. DOMAIN Stages = 1..7
    BY DEF Stages
  <2>2. (CHOOSE j \in DOMAIN Stages : Stages[j] = s) = k
    <3> DEFINE c == CHOOSE j \in DOMAIN Stages : Stages[j] = s
    <3>1. c \in 1..7 /\ Stages[c] = s
      BY <1>1, <2>1
    <3> HIDE DEF c
    <3>2. c = k
      BY <1>1, <3>1
    <3> QED BY <3>2 DEF c
  <2> QED BY <2>2 DEF Following
<1>2. /\ Stages[1] = "TokenStreamPatcher" /\ Stages[2] = "PreHandler"
      /\ Stages[3] = "QuoteTransformer" /\ Stages[4] = "ListHandler"
      /\ Stages[5] = "ParagraphWrapper" /\ Stages[6] = "Html5TreeBuilder" /\ Stages[7] = "done"
  BY DEF Stages
<1>3. \A k, j \in 1..7 : Stages[j] = Stages[k] => j = k
  BY <1>2
<1>4. ASSUME NEW k \in 1..6 PROVE Following(Stages[k]) = Stages[k + 1]
  <2>1. k \in 1..7
    OBVIOUS
  <2> QED BY <1>1, <1>3, <2>1
<1>5. /\ Following(Stages[1]) = Stages[2] /\ Following(Stages[2]) = Stages[3]
      /\ Following(Stages[3]) = Stages[4] /\ Following(Stages[4]) = Stages[5]
      /\ Following(Stages[5]) = Stages[6] /\ Following(Stages[6]) = Stages[7]
  <2>1. \A k \in 1..6 : Following(Stages[k]) = Stages[k + 1]
    BY <1>4
  <2>2. Following(Stages[1]) = Stages[1 + 1] /\ Following(Stages[2]) = Stages[2 + 1]
        /\ Following(Stages[3]) = Stages[3 + 1] /\ Following(Stages[4]) = Stages[4 + 1]
        /\ Following(Stages[5]) = Stages[5 + 1] /\ Following(Stages[6]) = Stages[6 + 1]
    BY <2>1
  <2> QED BY <2>2
<1> QED BY <1>2, <1>5

(* What each handler works on, until it has read all. The handlers after it  *)
(* have not begun.                                                          *)
ListsKept == \E S : ListTyped(S)
HandlersInv ==
    CASE stage = "TokenStreamPatcher" ->
             /\ \E A : Seq(Strings) \subseteq A /\ PatcherTyped(A)
             /\ Pre!Init /\ Quoting!Init /\ Lists!Init
      [] stage = "PreHandler" ->
             /\ \E A : Seq(Strings) \subseteq A /\ PreTyped(A)
             /\ Quoting!Init /\ Lists!Init
      [] stage = "QuoteTransformer" ->
             /\ \E A : Seq(Strings) \subseteq A /\ QuoteTyped(A)
             /\ Lists!Init
      [] stage = "ListHandler" ->
             /\ \E A : stream \in Seq(Tokens(A))
             /\ ListsKept
      [] OTHER ->
             /\ stage \in {"ParagraphWrapper", "Html5TreeBuilder", "done"}
             /\ ListsKept

LEMMA ListsBegin == Lists!Init => ListTyped({})
<1>1. <<>> \in Seq({}) /\ Len(<<>>) = 0
  BY EmptySeq
<1> SUFFICES ASSUME Lists!Init PROVE ListTyped({})
  OBVIOUS
<1>2. /\ list_frame_stack \in Seq({}) /\ Len(list_frame_stack) = 0 /\ list_frame_stack = <<>>
      /\ have_active_list_frame = FALSE /\ on_any_enabled = FALSE
  BY <1>1 DEF Lists!Init
<1>3. \A k \in 1..Len(list_frame_stack) : FALSE
  BY <1>2
<1> QED BY <1>2, <1>3, Zenon DEF ListTyped

LEMMA HandlersInit ==
  ASSUME AlphabetsAssumption, Init
  PROVE  HandlersInv
<1>1. stage \in {"TokenStreamPatcher", "ListHandler", "Html5TreeBuilder"}
  BY DEF Init, AlphabetsAssumption
<1>2. Pre!Init /\ Quoting!Init /\ Lists!Init /\ Patcher!Init
  BY DEF Init
<1>3. ListsKept
  BY <1>2, ListsBegin DEF ListsKept
<1>4. CASE stage = "TokenStreamPatcher"
  <2> DEFINE A == Seq(Strings)
             T == Tokens(A)
  <2>1. stream \in Seq(T) /\ <<>> \in Seq(T)
    BY FirstStream, EmptySeq
  <2>2. out = <<>> /\ nl_ws_meta_token_buf = <<>>
    BY <1>2, <1>4 DEF Init, Patcher!Init
  <2>3. PatcherTyped(A)
    BY <2>1, <2>2 DEF PatcherTyped
  <2>4. \E B : Seq(Strings) \subseteq B /\ PatcherTyped(B)
    BY <2>3
  <2> QED BY <1>2, <1>4, <2>4 DEF HandlersInv
<1>5. CASE stage = "Html5TreeBuilder"
  BY <1>3, <1>5 DEF HandlersInv
<1>6. CASE stage = "ListHandler"
  <2>1. \E A : stream \in Seq(Tokens(A))
    BY FirstStream
  <2> QED BY <1>3, <1>6, <2>1 DEF HandlersInv
<1> QED BY <1>1, <1>4, <1>5, <1>6

\* A handler that reads keeps what it works on; one that has read all begins
\* the next.
LEMMA HandlersNext ==
  ASSUME HandlersInv, [Next]_vars
  PROVE  HandlersInv'
<1>1. CASE UNCHANGED vars
  BY <1>1 DEF vars, patcher_vars, pre_vars, quote_vars, list_vars, HandlersInv, ListsKept,
              PatcherTyped, PreTyped, QuoteTyped, ListTyped, Lists!FrameInUse, Pre!Init,
              Quoting!Init, Lists!Init
<1>2. ASSUME UNCHANGED list_vars, ListsKept PROVE ListsKept'
  <2>1. PICK S : ListTyped(S)
    BY <1>2 DEF ListsKept
  <2>2. ListTyped(S)'
    BY <1>2, <2>1 DEF list_vars, ListTyped, Lists!FrameInUse
  <2> QED BY <2>2 DEF ListsKept
<1>3. UNCHANGED list_vars /\ Lists!Init => Lists!Init'
  BY DEF list_vars, Lists!Init
<1>4. UNCHANGED quote_vars /\ Quoting!Init => Quoting!Init'
  BY DEF quote_vars, Quoting!Init
<1>5. UNCHANGED pre_vars /\ Pre!Init => Pre!Init'
  BY DEF pre_vars, Pre!Init
<1>6. CASE patch
  <2>1. stage = "TokenStreamPatcher" /\ stage' = stage
    BY <1>6 DEF patch
  <2>2. PICK A : Seq(Strings) \subseteq A /\ PatcherTyped(A)
    BY <2>1 DEF HandlersInv
  <2>3. PICK B : PatcherTyped(A \union B)'
    BY <1>6, <2>2, PatcherStep DEF patch
  <2>4. \E C : Seq(Strings) \subseteq C /\ PatcherTyped(C)'
    BY <2>2, <2>3
  <2>5. Pre!Init' /\ Quoting!Init' /\ Lists!Init'
    BY <1>3, <1>4, <1>5, <1>6, <2>1 DEF patch, HandlersInv
  <2> QED BY <2>1, <2>4, <2>5 DEF HandlersInv
<1>7. CASE find_pre
  <2>1. stage = "PreHandler" /\ stage' = stage
    BY <1>7 DEF find_pre
  <2>2. PICK A : Seq(Strings) \subseteq A /\ PreTyped(A)
    BY <2>1 DEF HandlersInv
  <2>3. PICK B : PreTyped(A \union B)'
    BY <1>7, <2>2, PreStep DEF find_pre
  <2>4. \E C : Seq(Strings) \subseteq C /\ PreTyped(C)'
    BY <2>2, <2>3
  <2>5. Quoting!Init' /\ Lists!Init'
    BY <1>3, <1>4, <1>7, <2>1 DEF find_pre, HandlersInv
  <2> QED BY <2>1, <2>4, <2>5 DEF HandlersInv
<1>8. CASE quote
  <2>1. stage = "QuoteTransformer" /\ stage' = stage
    BY <1>8 DEF quote
  <2>2. PICK A : Seq(Strings) \subseteq A /\ QuoteTyped(A)
    BY <2>1 DEF HandlersInv
  <2>3. QuoteTyped(A)'
    BY <1>8, <2>2, QuoteStep DEF quote
  <2>4. \E C : Seq(Strings) \subseteq C /\ QuoteTyped(C)'
    BY <2>2, <2>3
  <2>5. Lists!Init'
    BY <1>3, <1>8, <2>1 DEF quote, HandlersInv
  <2> QED BY <2>1, <2>4, <2>5 DEF HandlersInv
<1>9. CASE list
  <2>1. stage = "ListHandler" /\ stage' = stage
    BY <1>9 DEF list
  <2>2. PICK A : stream \in Seq(Tokens(A))
    BY <2>1 DEF HandlersInv
  <2>3. PICK S : ListTyped(S)
    BY <2>1 DEF HandlersInv, ListsKept
  <2>4. stream' \in Seq(Tokens(A)) /\ \E U : ListTyped(U)'
    BY <1>9, <2>2, <2>3, ListStep DEF list
  <2>5. (\E C : stream' \in Seq(Tokens(C))) /\ ListsKept'
    BY <2>4 DEF ListsKept
  <2> QED BY <2>1, <2>5 DEF HandlersInv
<1>10. CASE wrap \/ build
  <2>1. stage \in {"ParagraphWrapper", "Html5TreeBuilder"} /\ stage' = stage
    BY <1>10 DEF wrap, build
  <2>2. UNCHANGED list_vars /\ ListsKept
    BY <1>10, <2>1 DEF wrap, build, HandlersInv
  <2> QED BY <1>2, <2>1, <2>2 DEF HandlersInv
<1>11. CASE process
  <2>1. /\ stage' = Following(stage)
        /\ UNCHANGED pre_vars /\ UNCHANGED quote_vars /\ UNCHANGED list_vars
    BY <1>11 DEF process
  <2>2. stage' \notin {"done", "Html5TreeBuilder"} => stream' = out /\ out' = <<>>
    BY <1>11 DEF process
  <2>3. CASE stage = "TokenStreamPatcher"
    <3>1. stage' = "PreHandler"
      BY <2>1, <2>3, Follows
    <3>2. PICK A : Seq(Strings) \subseteq A /\ PatcherTyped(A)
      BY <2>3 DEF HandlersInv
    <3>3. Pre!Init' /\ Quoting!Init' /\ Lists!Init'
      BY <1>3, <1>4, <1>5, <2>1, <2>3 DEF HandlersInv
    <3> DEFINE T == Tokens(A)
    <3>4. stream' \in Seq(T) /\ out' \in Seq(T)
      <4>1. out \in Seq(T) /\ <<>> \in Seq(T)
        BY <3>2, EmptySeq DEF PatcherTyped
      <4> HIDE DEF T
      <4> QED BY <2>2, <3>1, <4>1
    <3>5. tokens' \in Seq(T) /\ curr_line_pre_toks' \in Seq(T) /\ ws_tk_index' \in Int
      <4>1. <<>> \in Seq(T)
        BY EmptySeq
      <4> HIDE DEF T
      <4> QED BY <3>3, <4>1 DEF Pre!Init
    <3>6. PreTyped(A)'
      BY <3>4, <3>5 DEF PreTyped
    <3> QED BY <3>1, <3>2, <3>3, <3>6 DEF HandlersInv
  <2>4. CASE stage = "PreHandler"
    <3>1. stage' = "QuoteTransformer"
      BY <2>1, <2>4, Follows
    <3>2. PICK A : Seq(Strings) \subseteq A /\ PreTyped(A)
      BY <2>4 DEF HandlersInv
    <3>3. Quoting!Init' /\ Lists!Init'
      BY <1>3, <1>4, <2>1, <2>4 DEF HandlersInv
    <3>4. stream' \in Seq(Tokens(A)) /\ out' = <<>>
      BY <2>2, <3>1, <3>2 DEF PreTyped
    <3> DEFINE T == Tokens(A)
    <3>5. <<>> \in Seq(T) /\ Chunked(<< <<>> >>, T) /\ Len(<< <<>> >>) = 1
      <4>1. <<>> \in Seq(T)
        BY EmptySeq
      <4> HIDE DEF T
      <4>2. << <<>> >> \in Seq(Seq(T)) /\ Len(<< <<>> >>) = 1
        BY <4>1, SeqOne
      <4> QED BY <4>1, <4>2 DEF Chunked
    <3>6. QuoteTyped(A)'
      <4>1. chunks' = << <<>> >>
        BY <3>3 DEF Quoting!Init
      <4>2. Chunked(chunks', T) /\ Len(chunks') % 2 = 1
        BY <3>5, <4>1
      <4> QED BY <3>4, <3>5, <4>2 DEF QuoteTyped
    <3> QED BY <3>1, <3>2, <3>3, <3>6 DEF HandlersInv
  <2>5. CASE stage = "QuoteTransformer"
    <3>1. stage' = "ListHandler"
      BY <2>1, <2>5, Follows
    <3>2. PICK A : Seq(Strings) \subseteq A /\ QuoteTyped(A)
      BY <2>5 DEF HandlersInv
    <3>3. stream' \in Seq(Tokens(A))
      BY <2>2, <3>1, <3>2 DEF QuoteTyped
    <3>4. ListsKept'
      <4>1. Lists!Init
        BY <2>5 DEF HandlersInv
      <4>2. ListsKept
        BY <4>1, ListsBegin DEF ListsKept
      <4> QED BY <1>2, <2>1, <4>2
    <3> QED BY <3>1, <3>3, <3>4 DEF HandlersInv
  <2>6. CASE stage \notin {"TokenStreamPatcher", "PreHandler", "QuoteTransformer"}
    <3>1. ListsKept /\ stage \in {"ListHandler", "ParagraphWrapper", "Html5TreeBuilder", "done"}
      BY <2>6 DEF HandlersInv
    <3>2. stage # "done"
      BY <1>11 DEF process
    <3>3. stage' \in {"ParagraphWrapper", "Html5TreeBuilder", "done"}
      BY <2>1, <3>1, <3>2, Follows
    <3> QED BY <1>2, <2>1, <3>1, <3>3 DEF HandlersInv
  <2> QED BY <2>3, <2>4, <2>5, <2>6
<1> QED BY <1>1, <1>6, <1>7, <1>8, <1>9, <1>10, <1>11 DEF Next

LEMMA HandlersFrames == HandlersInv => FramesKept
<1>1. Lists!Init => ListsKept
  BY ListsBegin DEF ListsKept
<1>2. HandlersInv => ListsKept
  BY <1>1 DEF HandlersInv
<1>3. ListsKept => FramesKept
  BY ListFrames DEF ListsKept
<1> QED BY <1>2, <1>3

\* The frames of the list handler are never reached by an index off their end
\* and hold the end tags of their bullets; those that wait for a table hold
\* nothing back. For every page, whatever the handlers before it make of it
\* (get_list_frame_mut, pop_tags, do_list_item).
THEOREM ListFramesAreKept == Spec => []FramesKept
<1>1. Init => HandlersInv
  BY AlphabetsAssumption, HandlersInit
<1>2. HandlersInv /\ [Next]_vars => HandlersInv'
  BY HandlersNext
<1> QED BY <1>1, <1>2, HandlersFrames, PTL DEF Spec

-----------------------------------------------------------------------------
(* The tree builder, of what they give it.                                  *)

LEMMA BuilderInit == Init => Built(builder)
BY TreeBegins DEF Init

LEMMA BuilderNext ==
  ASSUME Built(builder), [Next]_vars
  PROVE  Built(builder')
<1>1. CASE build
  BY <1>1, TreeStep DEF build
<1>2. CASE ~build
  BY <1>2 DEF Next, vars, tree_vars, patch, find_pre, quote, list, wrap, process
<1> QED BY <1>1, <1>2

\* Nodes and their parents point at each other, what is open is open where it
\* may be, and only formatting is active: for every page, whatever its tags.
THEOREM TreeIsBuilt == Spec => []Built(builder)
<1>1. Built(builder) /\ [Next]_vars => Built(builder)'
  BY BuilderNext
<1> QED BY <1>1, BuilderInit, PTL DEF Spec

\* Each open element is a child of the one below it, or was put before the table
\* it could not be in, for every page: whatever the adoption agency clones and
\* moves, and whatever tags cut off (appropriate_place, adoption_agency).
THEOREM StackAlwaysMirrorsTree == Spec => []StackMirrorsTree
BY TreeIsBuilt, MirrorOf, PTL
=============================================================================
