------------------------------- MODULE MCCite -------------------------------
(* Instances of Cite for TLC. *)
EXTENDS Cite

CONSTANT MaxElements    \* bound: elements of a page

MCNames == {"", "a", "a_"}
MCGroups == {"", "g", "g_"}
MCTrim == [x \in MCNames \union MCGroups |->
              CASE x = "a_" -> "a" [] x = "g_" -> "g" [] OTHER -> x]

E(kind, name, group, body, templated) ==
    [kind |-> kind, name |-> name, group |-> group, body |-> body,
     templated |-> templated]
Ref(name, group, body) == E("ref", name, group, body, FALSE)
References_(group, body) == E("references", "", group, body, FALSE)

\* Two plain texts; two texts with a <ref> that were arguments, and one that
\* was not; texts of a <references>, the last with a <ref> in a definition.
MCTexts == {"x", "y", "with_y", "with_a", "literal", "defines_a", "defines_with_y"}
MCBodies == [t \in MCTexts |->
    CASE t \in {"x", "y"} -> <<>>
      [] t \in {"with_y", "literal"} -> <<Ref("", "", "y")>>
      [] t = "with_a" -> <<Ref("a", "", NoBody)>>
      [] t = "defines_a" -> <<Ref("a", "g", "y"), References_("g", NoBody)>>
      [] t = "defines_with_y" -> <<Ref("a", "", "with_y")>>]
MCNested == {"with_y", "with_a"}

PageElements ==
    {Ref("a", "", NoBody), Ref("a_", "", "x"), Ref("a", "", "y"),
     Ref("a", "g", "x"), Ref("a", "g_", BlankBody), Ref("", "", "with_y"),
     Ref("a", "", "with_a"), Ref("", "g", "literal"),
     References_("", NoBody), References_("g", BlankBody), References_("g_", NoBody),
     E("references", "", "", NoBody, TRUE), References_("", "defines_a"),
     References_("", "defines_with_y")}

MCPages == UNION {[1..n -> PageElements] : n \in 0..MaxElements}
=============================================================================
