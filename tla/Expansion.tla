------------------------------ MODULE Expansion ------------------------------
(***************************************************************************)
(* How one parse descends into templates, parser functions and modules     *)
(* (rustoid-core/src/pipeline/parser.rs), in which frames it expands them  *)
(* (pipeline/frame.rs), and which limits bound it (resource_limits.rs).    *)
(*                                                                         *)
(* The page and the templates are arbitrary wikitext: wherever a chunk of  *)
(* tokens is walked, the next token may be any call at all or the chunk    *)
(* may end.  So no behaviour is bounded by the size of the input, only by  *)
(* the limits the code enforces.                                           *)
(***************************************************************************)
EXTENDS Integers, Sequences, FiniteSets

CONSTANTS
    Page,               \* the title of the page being parsed
    Templates,          \* titles a call may name
    Existing,           \* those that have a page
    Redirect,           \* the redirects among them: title -> title
    MaxNodeCount,       \* ExpansionLimits::max_pp_node_count
    MaxExpandDepth,     \* ExpansionLimits::max_pp_expand_depth
    MaxTemplateDepth,   \* MAX_TEMPLATE_DEPTH of expand_one_template
    MaxLuaDepth,        \* MAX_LUA_EXPANSION_DEPTH
    MaxRedirectHops     \* MAX_REDIRECT_HOPS

ASSUME ConstantsAssumption ==
    /\ Existing \subseteq Templates
    /\ DOMAIN Redirect \subseteq Existing
    /\ \A t \in DOMAIN Redirect : Redirect[t] \in Templates
    /\ MaxNodeCount \in Nat /\ MaxExpandDepth \in Nat
    /\ MaxTemplateDepth \in Nat /\ MaxLuaDepth \in Nat /\ MaxRedirectHops \in Nat

VARIABLES
    stack,          \* what is being expanded, innermost last
    nodes,          \* pp_node_count, which saturates one past its limit
    depth,          \* expansion_depth
    luaDepth,       \* lua_expansion_depth
    moduleScope,    \* module_scope
    outcome         \* what the last token was replaced with

vars == <<stack, nodes, depth, luaDepth, moduleScope, outcome>>

-----------------------------------------------------------------------------
(* Frames.  A frame is the sequence of scopes from the page to itself. *)

Titles == Templates \union {Page}

Scope(title, derived) == [title |-> title, derived |-> derived]

FrameDepth(f) == Len(f) - 1

new_child(f, title) == Append(f, Scope(title, FALSE))
new_derived_child(f, title) == Append(f, Scope(title, TRUE))

root_title(f) == f[1].title
title_of(f) == f[Len(f)].title

\* The argument values of a call are expanded in a scope named for the page.
ScopeOfArguments(f, t) == new_derived_child(f, root_title(f))

DepthExceeded(f) == FrameDepth(f) > MaxTemplateDepth

\* Is t open in f?  The first scope is the page itself, which is no expansion.
LoopDetected(f, t) == \E i \in 2..Len(f) : f[i].title = t

\* What loop_and_depth_check answers, if it refuses a call of t from f.
Refusal(f, t, ignoreLoop) ==
    IF DepthExceeded(f) THEN {"too_deep"}
    ELSE IF ~ignoreLoop /\ LoopDetected(f, t) THEN {"loop"}
    ELSE {}

-----------------------------------------------------------------------------
(* Redirects: the title a call of t ends at, unless it goes on for too     *)
(* long, comes back to itself or ends at a page that does not exist.       *)

RedirectFrom(t) ==
    LET after[n \in 0..MaxRedirectHops] ==
            IF n = 0 THEN t
            ELSE LET u == after[n - 1]
                 IN  IF u \in DOMAIN Redirect THEN Redirect[u] ELSE u
    IN  after[MaxRedirectHops]

Resolves(t) == /\ t \in Existing
               /\ RedirectFrom(t) \in Existing \ DOMAIN Redirect

-----------------------------------------------------------------------------
(* The walk.  A chunk of tokens is walked in one of the first seven kinds; *)
(* while a template token is handled it holds one preprocessor node.       *)

Chunks == {"page", "target", "args", "body", "branch", "default", "value",
           "answer", "output"}
Charged == {"target", "args", "body", "branch", "module"}
Kinds == Chunks \union {"module"}

Top == stack[Len(stack)]
Below == SubSeq(stack, 1, Len(stack) - 1)
Walking == stack # <<>> /\ Top.kind \in Chunks
In(kind) == stack # <<>> /\ Top.kind = kind

Doing(kind, frame, title) == [kind |-> kind, frame |-> frame, title |-> title]

Nothing == [what |-> "nothing", title |-> Page]
Replaced(what, t) == outcome' = [what |-> what, title |-> t]

Push(kind, frame) == stack' = Append(stack, Doing(kind, frame, Page))
Become(kind, frame, t) == stack' = Append(Below, Doing(kind, frame, t))

\* enter_pp_node counts the node before it compares, and compares the depth
\* before it counts it.
NodesAfter == IF nodes > MaxNodeCount THEN nodes ELSE nodes + 1
NodeLimit == NodesAfter > MaxNodeCount
DepthLimitAfter == depth > MaxExpandDepth + 1
DepthLimit == depth > MaxExpandDepth

leave_pp_node == depth' = depth - 1

Init ==
    /\ stack = <<Doing("page", <<Scope(Page, FALSE)>>, Page)>>
    /\ nodes = 0 /\ depth = 0 /\ luaDepth = 0 /\ moduleScope = 0
    /\ outcome = Nothing

-----------------------------------------------------------------------------
(* Tokens of a chunk. *)

\* A template token or an argument reference, when a limit has been hit: an
\* error span takes its place and the walk goes on.
TokenOverNodes ==
    /\ Walking /\ NodeLimit
    /\ nodes' = NodesAfter
    /\ Replaced("node_limit", Page)
    /\ UNCHANGED <<stack, depth, luaDepth, moduleScope>>

TokenOverDepthLeaves ==
    /\ Walking /\ ~NodeLimit /\ DepthLimit
    /\ nodes' = NodesAfter
    /\ leave_pp_node
    /\ Replaced("depth_limit", Page)
    /\ UNCHANGED <<stack, luaDepth, moduleScope>>

TokenOverDepth ==
    /\ Walking /\ ~NodeLimit /\ DepthLimit
    /\ nodes' = NodesAfter
    /\ Replaced("depth_limit", Page)
    /\ UNCHANGED <<stack, depth, luaDepth, moduleScope>>

\* A template token: its target is expanded first, in the same frame.
TemplateToken ==
    /\ Walking /\ ~NodeLimit /\ ~DepthLimit
    /\ nodes' = NodesAfter
    /\ depth' = depth + 1
    /\ Push("target", Top.frame)
    /\ outcome' = Nothing
    /\ UNCHANGED <<luaDepth, moduleScope>>

\* An argument reference is left before what it produced, which holds no
\* reference of its own, is walked again.
ArgumentToken ==
    /\ Walking /\ ~NodeLimit /\ ~DepthLimit
    /\ Top.kind # "default"
    /\ nodes' = NodesAfter
    /\ Push("default", Top.frame)
    /\ outcome' = Nothing
    /\ UNCHANGED <<depth, luaDepth, moduleScope>>

EndDefault ==
    /\ In("default")
    /\ stack' = Below
    /\ outcome' = Nothing
    /\ UNCHANGED <<nodes, depth, luaDepth, moduleScope>>

-----------------------------------------------------------------------------
(* What a template token turns out to be once its target is known. *)

\* Both checks of expand_one_template: of the title that is called, and of
\* the title its redirects lead to.
CheckCalledOnly(f, t) == Refusal(f, t, moduleScope > 0)
Checks(f, t) == Refusal(f, t, moduleScope > 0)
                  \union (IF Resolves(t)
                          THEN Refusal(f, RedirectFrom(t), moduleScope > 0)
                          ELSE {})

\* The call is answered with a span or a link in its place.
AnswerInPlace(what, t) ==
    /\ stack' = Below
    /\ leave_pp_node
    /\ Replaced(what, t)
    /\ UNCHANGED <<nodes, luaDepth, moduleScope>>

CallRefused(t) ==
    /\ In("target")
    /\ \E what \in Checks(Top.frame, t) : AnswerInPlace(what, t)

CallMissing(t) ==
    /\ In("target")
    /\ Checks(Top.frame, t) = {} /\ ~Resolves(t)
    /\ AnswerInPlace("link", t)

\* The argument values first, then the body in a frame of its own.
Call(t) ==
    /\ In("target")
    /\ Checks(Top.frame, t) = {} /\ Resolves(t)
    /\ Become("args", ScopeOfArguments(Top.frame, RedirectFrom(t)),
              RedirectFrom(t))
    /\ outcome' = Nothing
    /\ UNCHANGED <<nodes, depth, luaDepth, moduleScope>>

Body ==
    /\ In("args")
    /\ Become("body",
              new_child(SubSeq(Top.frame, 1, Len(Top.frame) - 1), Top.title),
              Top.title)
    /\ outcome' = Nothing
    /\ UNCHANGED <<nodes, depth, luaDepth, moduleScope>>

\* A parser function answers with a branch, which is walked in its frame. If the
\* target names nothing, the source of the call is walked in the same way.
Function ==
    /\ In("target")
    /\ Become("branch", Top.frame, Page)
    /\ outcome' = Nothing
    /\ UNCHANGED <<nodes, depth, luaDepth, moduleScope>>

EndToken ==
    /\ In("body") \/ In("branch")
    /\ stack' = Below
    /\ leave_pp_node
    /\ outcome' = Nothing
    /\ UNCHANGED <<nodes, luaDepth, moduleScope>>

-----------------------------------------------------------------------------
(* Modules.  While the call is in `module' the loop of LuaInvoke runs: it  *)
(* has arguments and frame requests expanded, in any order and number.     *)

Invoke ==
    /\ In("target")
    /\ Become("module", Top.frame, Page)
    /\ outcome' = Nothing
    /\ UNCHANGED <<nodes, depth, luaDepth, moduleScope>>

\* An argument of the call, also the function name. One of the template around it
\* is read in the frame of that template's caller, but was expanded there before the
\* body: no call is left in it, so reading it is no step.
ReadArgument ==
    /\ In("module")
    /\ Push("value", new_child(Top.frame, title_of(Top.frame)))
    /\ outcome' = Nothing
    /\ UNCHANGED <<nodes, depth, luaDepth, moduleScope>>

EndValue ==
    /\ In("value")
    /\ stack' = Below
    /\ outcome' = Nothing
    /\ UNCHANGED <<nodes, depth, luaDepth, moduleScope>>

\* A frame request is answered with nothing when requests nest too deeply.
RequestRefused ==
    /\ In("module") /\ luaDepth >= MaxLuaDepth
    /\ Replaced("empty", Page)
    /\ UNCHANGED <<stack, nodes, depth, luaDepth, moduleScope>>

Request ==
    /\ In("module") /\ luaDepth < MaxLuaDepth
    /\ Push("answer", new_child(Top.frame, title_of(Top.frame)))
    /\ luaDepth' = luaDepth + 1
    /\ outcome' = Nothing
    /\ UNCHANGED <<nodes, depth, moduleScope>>

LuaDepthKept == luaDepth
LuaDepthLeft == luaDepth - 1

EndAnswer ==
    /\ In("answer")
    /\ stack' = Below
    /\ luaDepth' = LuaDepthLeft
    /\ outcome' = Nothing
    /\ UNCHANGED <<nodes, depth, moduleScope>>

\* The module is done: what it returned is walked in a scope without
\* arguments, and until the end of it no loop is looked for.
Return ==
    /\ In("module")
    /\ Push("output", new_derived_child(Top.frame, title_of(Top.frame)))
    /\ moduleScope' = moduleScope + 1
    /\ outcome' = Nothing
    /\ UNCHANGED <<nodes, depth, luaDepth>>

EndOutput ==
    /\ In("output")
    /\ stack' = SubSeq(stack, 1, Len(stack) - 2)
    /\ moduleScope' = moduleScope - 1
    /\ leave_pp_node
    /\ outcome' = Nothing
    /\ UNCHANGED <<nodes, luaDepth>>

EndPage ==
    /\ In("page")
    /\ stack' = <<>>
    /\ outcome' = Nothing
    /\ UNCHANGED <<nodes, depth, luaDepth, moduleScope>>

Next ==
    \/ TokenOverNodes \/ TokenOverDepth \/ TemplateToken
    \/ ArgumentToken \/ EndDefault
    \/ \E t \in Templates : CallRefused(t) \/ CallMissing(t) \/ Call(t)
    \/ Body \/ Function \/ EndToken
    \/ Invoke \/ ReadArgument \/ EndValue \/ RequestRefused \/ Request
    \/ EndAnswer \/ Return \/ EndOutput
    \/ EndPage

Spec == Init /\ [][Next]_vars

-----------------------------------------------------------------------------
(* Properties. *)

Frames == Seq([title : Titles, derived : BOOLEAN]) \ {<<>>}

\* What is being expanded, in which frame, for which title.
Activations == [kind : Kinds, frame : Frames, title : Titles]

Outcomes == [what : {"nothing", "node_limit", "depth_limit", "loop",
                     "too_deep", "link", "empty"},
             title : Titles]

\* Every part of the state is of its kind; in particular no counter is ever
\* decremented below zero (leave_pp_node and the other guards are balanced).
TypeOK ==
    /\ stack \in Seq(Activations)
    /\ nodes \in Nat /\ depth \in Nat /\ luaDepth \in Nat /\ moduleScope \in Nat
    /\ outcome \in Outcomes

\* The positions up to n that hold a preprocessor node.
Charges(n) == {i \in 1..n : stack[i].kind \in Charged}

Open(kind) == {i \in 1..Len(stack) : stack[i].kind = kind}

\* Each counter of the parser is the number of expansions that are open, also
\* where one of them was answered with an error: the depth by which the limit
\* is judged cannot drift over a page, and it is zero when the page is done.
CountersUnwind ==
    /\ depth = Cardinality(Charges(Len(stack)))
    /\ luaDepth = Cardinality(Open("answer"))
    /\ moduleScope = Cardinality(Open("output"))

ExpansionBounded ==
    /\ depth <= MaxExpandDepth + 1
    /\ Len(stack) <= 2 + 3 * depth
AnswersBounded == Cardinality(Open("answer")) <= MaxLuaDepth

\* However the templates call each other, the recursion is bounded by the
\* expansion depth: with a node are open at most the chunk it holds, the text of
\* its module and a default. Among them are at most max_lua_expansion_depth
\* requests of modules, whatever templates and modules lie between them. The bodies
\* of notes and galleries, which are parsed without a charge to the depth, are not
\* among them.
NestingBounded == ExpansionBounded /\ AnswersBounded

\* No template is expanded inside its own body, also not by way of a redirect,
\* unless a module's output lies between.
NoReentry ==
    \A i, j \in Open("body") :
        i < j /\ stack[i].title = stack[j].title
            => \E k \in Open("output") : k < j

\* A call is refused as a loop only if the template it names, or the one that
\* redirects to, really is being expanded.
LoopIsReal ==
    outcome.what = "loop" =>
        \E i \in Open("body") : stack[i].title \in {outcome.title,
                                                   RedirectFrom(outcome.title)}

\* Each scope of a frame was entered for a node of its own, so where the
\* template depth is at least the expansion depth, as it is by default, the
\* expansion depth is what stops a recursion.
NeverTooDeep ==
    MaxExpandDepth <= MaxTemplateDepth => outcome.what # "too_deep"
=============================================================================
