------------------------- MODULE MCTreeBuilderStage -------------------------
EXTENDS TreeBuilderStage

LOCAL Pages(toks, start, n, handler) ==
    [tokens |-> toks, first |-> start, length |-> n, from |-> handler]
LOCAL Page(toks, n) == Pages(toks, toks, n, "TokenStreamPatcher")
LOCAL ListPage(toks, n) == Pages(toks, {ListItem(<<"*">>)}, n, "ListHandler")
LOCAL TreePage(toks, n) == Pages(toks, toks, n, "Html5TreeBuilder")
LOCAL text == Str("text")
LOCAL Comment == Token("Comment", "", <<>>)
LOCAL Style == Token("Tag", "style", <<"mw:DOMFragment">>)
LOCAL Begins == Meta("mw:Transclusion")
LOCAL Ends == Meta("mw:Transclusion/End")

MCAlphabets ==
    { \* quotes of all lengths, a list around them
      Page({Quote("2", ""), Quote("3", "multi"), Quote("3", "single"), Quote("5", ""), Nl}, 5),
      Page({Quote("2", ""), Quote("3", "space"), Quote("3", "multi"), ListItem(<<"*">>), Nl}, 4),
      \* lists of all nestings
      Page({ListItem(<<"*">>), ListItem(<<"*", "#">>), ListItem(<<";">>), ListItem(<<":">>),
            ListItem(<<":", ":">>), ListItem(<<":", ";">>), Nl}, 4),
      Page({ListItem(<<";">>), ListItem(<<";", ":", "*">>), Nl, Comment}, 5),
      \* lists in tables in lists, and blocks around them
      Page({ListItem(<<"*">>), Tag("table"), EndTag("table"), Nl}, 5),
      \* lists in tables that are in tables in lists, and lists after them
      ListPage({ListItem(<<"*">>), Tag("table"), EndTag("table")}, 9),
      Page({ListItem(<<":">>), Tag("div"), EndTag("div"), Nl, Str("blank")}, 4),
      \* paragraphs, templates, links
      Page({text, Nl, Begins, Ends}, 6),
      Page({text, Nl, Tag("div"), EndTag("blockquote"), Begins, Ends}, 5),
      Page({text, Nl, Selfclosing("link"), Str("blank"), Begins, Ends}, 5),
      Page({text, Nl, Token("SelfclosingTag", "mw:dom-fragment-token", <<"block">>),
            Token("SelfclosingTag", "mw:dom-fragment-token", <<"inline">>), Style}, 4),
      \* indented lines, in and out of blocks
      Page({Str("indented"), Str("blanks"), Nl, text, Comment}, 5),
      Page({Str("indented"), Nl, Tag("td"), Tag("table"), Tag("blockquote"), ListItem(<<"*">>)}, 4),
      \* templates that begin with a list or a table
      Page({text, Begins, Str("bullet"), Str("table_start"), Nl, Ends}, 5),
      \* formatting that is closed out of order, with more than three in it
      TreePage({Tag("b"), Tag("i"), Tag("div"), EndTag("b"), EndTag("div"), text}, 5),
      TreePage({Tag("b"), Tag("i"), Tag("div"), EndTag("b")}, 7),
      \* formatting across paragraphs and items, ended too often
      TreePage({Tag("b"), Tag("p"), EndTag("p"), Nl, text}, 5),
      TreePage({Tag("b"), EndTag("b"), Tag("li"), Tag("dt"), Tag("dd"), EndTag("dt")}, 5),
      \* tables cut off and in each other, and what does not belong in them
      TreePage({Tag("table"), Tag("tr"), Tag("td"), text, EndTag("table"), Tag("b")}, 5),
      TreePage({Tag("table"), Tag("caption"), Tag("td"), Tag("b"), EndTag("caption"), EndTag("td")}, 5),
      TreePage({Tag("table"), Tag("tbody"), EndTag("tbody"), EndTag("tr"), Comment, text}, 5),
      \* tables in templates
      TreePage({Tag("table"), Tag("td"), text, Nl, Begins, Ends}, 5) }

\* Paragraphs ended that were not begun.
MCStrayEnds == {Page({EndTag("p"), Quote("2", ""), Tag("div"), text, Nl}, 4)}
=============================================================================
