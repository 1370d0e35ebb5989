---------------------------- MODULE MCLuaInvoke ----------------------------
(* Instances of LuaInvoke for TLC. *)
EXTENDS LuaInvoke, TLC

CONSTANTS main, lib, tpl, json, doc, x, y

\* No module names anything as a literal: everything is asked for at run time.
NoLiterals == [m \in Modules |-> {}]

\* The entry module names lib, which cannot be missed; tpl is built at run time
\* and names q2 once it is loaded.
CONSTANTS q1, q2, d1
RequiresLib == [m \in Modules |-> IF m = main THEN {lib} ELSE {}]
EntityOfTpl == [m \in Modules |-> IF m = tpl THEN {q2} ELSE {}]

\* Two requests differ in nothing.
Symmetry == Permutations({x, y})
=============================================================================
