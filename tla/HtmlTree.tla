------------------------------ MODULE HtmlTree ------------------------------
(***************************************************************************)
(* The tree an HTML5 tree builder makes, its stack of open elements and    *)
(* its list of active formatting elements (node_handler.rs, stack.rs,      *)
(* active_formatting_elements.rs and the helpers of tree_builder.rs). They *)
(* are fields of one record, the builder b; its operators return what it   *)
(* becomes. A node is known by its number; node 1 is the document, node 2  *)
(* the root element that is open from the start. What a node holds itself, *)
(* as text or as a meta, is the places in the page that it came from.      *)
(***************************************************************************)
EXTENDS Integers, Sequences, SequencesExt, FiniteSetsExt

Document == 1
Root == 2
Marker == 0

\* tag is the place of the start tag an element was made for, 0 if none was.
Node(name, tag, held) ==
    [name |-> name, tag |-> tag, parent |-> 0, kids |-> <<>>, held |-> held]

NewBuilder ==
    [dom |-> <<[Node("#document", 0, <<>>) EXCEPT !.kids = <<Root>>],
               [Node("html", 0, <<>>) EXCEPT !.parent = Document]>>,
     stack |-> <<Root>>,
     afe |-> <<>>,                      \* elements, and Marker
     foster_parenting |-> FALSE,
     pending_table_characters |-> <<>>,
     mode |-> "InBody",
     original_mode |-> "None",
     result |-> 0]                      \* the element the last tag has opened or closed

NoResult(b) == [b EXCEPT !.result = 0]

-----------------------------------------------------------------------------
(* Nodes.                                                                   *)

Name(b, id) == b.dom[id].name
IsText(b, id) == Name(b, id) = "#text"

NewNode(b, name, tag, held) == [b EXCEPT !.dom = Append(@, Node(name, tag, held))]
Newest(b) == Len(b.dom)

detach(b, id) ==
    IF b.dom[id].parent = 0 THEN b
    ELSE [b EXCEPT !.dom[b.dom[id].parent].kids = RemoveFirst(@, id)]

\* As if a node that is moved were left where it was.
AttachOnly(b, parent, pos, id) ==
    [b EXCEPT !.dom[parent].kids = InsertAt(@, pos, id), !.dom[id].parent = parent]

\* A node goes to the place pos among the children that its parent has before.
Attach(b, parent, pos, id) ==
    LET free == detach(b, id)
    IN  [free EXCEPT !.dom[parent].kids =
                         InsertAt(@, IF pos > Len(@) THEN Len(@) + 1 ELSE pos, id),
                     !.dom[id].parent = parent]

\* A place is a parent and a position among its children.
Under(b, parent) == [parent |-> parent, pos |-> Len(b.dom[parent].kids) + 1]
Before(b, id) ==
    LET parent == b.dom[id].parent
    IN  [parent |-> parent,
         pos |-> CHOOSE k \in DOMAIN b.dom[parent].kids : b.dom[parent].kids[k] = id]

attach_under(b, parent, id) == Attach(b, parent, Under(b, parent).pos, id)

\* Text next to text is one node.
PlaceText(b, place, held) ==
    LET before == IF place.pos = 1 THEN 0 ELSE b.dom[place.parent].kids[place.pos - 1]
        new == NewNode(b, "#text", 0, held)
    IN  IF before # 0 /\ IsText(b, before) THEN [b EXCEPT !.dom[before].held = @ \o held]
        ELSE Attach(new, place.parent, place.pos, Newest(new))

\* The children of a node but the last become those of its last one.
reparent_children(b, from, to) ==
    LET moved == Front(b.dom[from].kids)
        Given(id) == CASE id = from -> [b.dom[id] EXCEPT !.kids = <<to>>]
                       [] id = to -> [b.dom[id] EXCEPT !.kids = moved]
                       [] id \in Range(moved) -> [b.dom[id] EXCEPT !.parent = to]
                       [] OTHER -> b.dom[id]
    IN  [b EXCEPT !.dom = [id \in DOMAIN @ |-> Given(id)]]

-----------------------------------------------------------------------------
(* The stack of open elements.                                              *)

Bottommost(b) == b.stack[1]
Current(b) == IF b.stack = <<>> THEN 0 ELSE Last(b.stack)
CurrentName(b) == IF b.stack = <<>> THEN "none" ELSE Name(b, Current(b))
IsOpen(b, id) == id \in Range(b.stack)
StackIndex(b, id) == CHOOSE k \in DOMAIN b.stack : b.stack[k] = id
Highest(S) == Max(S \union {0})

DefaultScope == {"caption", "html", "table", "td", "th"}
ListScope == DefaultScope \union {"ol", "li"}
TableScope == {"html", "table"}

\* An element is in scope if no boundary is open above it.
is_in_specific_scope(b, names, boundary) ==
    \E k \in DOMAIN b.stack :
        /\ Name(b, b.stack[k]) \in names
        /\ \A j \in (k + 1)..Len(b.stack) : Name(b, b.stack[j]) \notin boundary

is_in_scope(b, name) == is_in_specific_scope(b, {name}, DefaultScope)
is_in_button_scope(b, name) == is_in_scope(b, name)
is_in_list_scope(b, name) == is_in_specific_scope(b, {name}, ListScope)
is_in_table_scope(b, name) == is_in_specific_scope(b, {name}, TableScope)
is_uid_in_scope(b, id) ==
    \A j \in (StackIndex(b, id) + 1)..Len(b.stack) : Name(b, b.stack[j]) \notin DefaultScope

Keep(b, n) == [b EXCEPT !.stack = SubSeq(@, 1, n)]

\* The current node is closed, and is what the tag has closed.
pop(b) ==
    IF b.stack = <<>> THEN NoResult(b)
    ELSE [b EXCEPT !.stack = Front(@), !.result = Last(b.stack)]

\* Closes all up to the last element with one of the names: all, if none has.
pop_all_up_to_names(b, names) ==
    LET k == Highest({j \in DOMAIN b.stack : Name(b, b.stack[j]) \in names})
    IN  IF k = 0 THEN [b EXCEPT !.stack = <<>>, !.result = 0]
        ELSE [b EXCEPT !.stack = SubSeq(@, 1, k - 1), !.result = b.stack[k]]

clear_stack_back(b, names) ==
    Keep(b, Highest({j \in DOMAIN b.stack : Name(b, b.stack[j]) \in names}))

IMPLIED_END_TAGS == {"dd", "dt", "li", "p"}

generate_implied_end_tags(b, except) ==
    Keep(b, Highest({j \in DOMAIN b.stack :
                        Name(b, b.stack[j]) \notin IMPLIED_END_TAGS \ {except}}))

generate_implied_end_tags_and_pop(b, name) ==
    pop_all_up_to_names(generate_implied_end_tags(b, name), {name})

close_p_in_button_scope(b) ==
    IF is_in_button_scope(b, "p") THEN generate_implied_end_tags_and_pop(b, "p") ELSE b

FOSTER_TRIGGERS == {"table", "tbody", "tr"}

\* Where a node goes that is to be under target: in a table, before the table.
appropriate_place(b, target) ==
    LET tables == {j \in DOMAIN b.stack : j > 1 /\ Name(b, b.stack[j]) = "table"}
    IN  CASE target = 0 -> Under(b, Document)
          [] b.foster_parenting /\ IsOpen(b, target) /\ Name(b, target) \in FOSTER_TRIGGERS ->
                IF tables = {} THEN Under(b, Bottommost(b)) ELSE Before(b, b.stack[Max(tables)])
          [] OTHER -> Under(b, target)

insert_characters(b, held) == PlaceText(b, appropriate_place(b, Current(b)), held)

\* What is void is a node, but never open.
Put(b, place) ==
    [Attach(b, place.parent, place.pos, Newest(b)) EXCEPT !.result = Newest(b)]
insert_void(b, name, tag, held) ==
    Put(NewNode(b, name, tag, held), appropriate_place(b, Current(b)))

Opened(b) == [b EXCEPT !.stack = Append(@, b.result)]
insert_element(b, name, tag) == Opened(insert_void(b, name, tag, <<>>))

-----------------------------------------------------------------------------
(* The list of active formatting elements, back to front: elements that are *)
(* to be opened again wherever text comes to be outside of them. Of more    *)
(* than three of one kind the oldest would be dropped; but the attributes   *)
(* of a tag have the id of its data among them, so that no two are.         *)

afe_remove(b, id) == [b EXCEPT !.afe = RemoveFirst(@, id)]
afe_replace(b, old, new) ==
    [b EXCEPT !.afe = [k \in DOMAIN @ |-> IF @[k] = old THEN new ELSE @[k]]]
afe_push(b) == [b EXCEPT !.afe = Append(@, b.result)]
insert_marker(b) == [b EXCEPT !.afe = Append(@, Marker)]

\* Up to the last marker and with it, or all.
clear_to_marker(b) ==
    LET k == Highest({j \in DOMAIN b.afe : b.afe[j] = Marker})
    IN  [b EXCEPT !.afe = SubSeq(@, 1, k - 1)]

\* The last element of this name since the last marker.
find_element_by_name(b, name) ==
    LET m == Highest({j \in DOMAIN b.afe : b.afe[j] = Marker})
        k == Highest({j \in (m + 1)..Len(b.afe) : Name(b, b.afe[j]) = name})
    IN  IF k = 0 THEN 0 ELSE b.afe[k]

\* A new element takes the place of one that was closed, the k-th of the list.
Reopen(b, k) ==
    LET old == b.afe[k]
        new == insert_element(b, Name(b, old), b.dom[old].tag)
    IN  afe_replace(new, old, new.result)

\* Opens again what was closed since the last marker or open element.
reconstruct_afe(b) ==
    LET still == Highest({j \in DOMAIN b.afe : b.afe[j] = Marker \/ IsOpen(b, b.afe[j])})
        reopened[k \in still..Len(b.afe)] ==
            IF k = still THEN b ELSE Reopen(reopened[k - 1], k)
    IN  reopened[Len(b.afe)]
=============================================================================
