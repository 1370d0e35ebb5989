-------------------------------- MODULE Cite --------------------------------
(***************************************************************************)
(* The footnotes of a page (rustoid-extensions/src/cite.rs, called at the  *)
(* end of build_ast in rustoid-core/src/pipeline/parser.rs).  The tree is  *)
(* walked twice: the first walk collects the <ref>s into notes and cuts    *)
(* the notes that each <references> lists, the second one replaces the     *)
(* elements by markers and lists.  Nothing but the order ties them: the    *)
(* second walk takes the ids of uses and the cuts off the front.           *)
(*                                                                         *)
(* A <ref> and a <references> have no children.  What their text holds was *)
(* rendered when they were numbered and is found by that text; a page is   *)
(* the sequence of its elements, as a note is.                             *)
(***************************************************************************)
EXTENDS Integers, Sequences, Functions

CONSTANTS
    Names, Groups,      \* attribute values as they are written
    trim,               \* such a value without the blanks around it
    Texts,              \* what tag pairs enclose, of those that hold something
    Bodies,             \* the stash: the elements in a text, as rendered
    nested_ref_bodies,  \* the texts that were parsed as arguments of `#tag'
    Pages               \* the pages

NoBody == "no_body"       \* a self-closing tag
BlankBody == "blank_body" \* a tag pair with nothing, or blanks, in it
NoGroup == "no_group"     \* outside of a <references>

\* An element may be content of a template.
Elements == [kind : {"ref", "references"}, name : Names, group : Groups,
             body : Texts \union {NoBody, BlankBody}, templated : BOOLEAN]

ASSUME ConstantsAssumption ==
    /\ "" \in Names /\ NoGroup \notin Groups
    /\ Texts \intersect {NoBody, BlankBody} = {}
    /\ trim \in [Names \union Groups -> Names \union Groups]
    /\ \A x \in Groups : trim[x] \in Groups
    /\ \A x \in Names \union Groups : trim[trim[x]] = trim[x]
    /\ Bodies \in [Texts -> Seq(Elements)]
    /\ nested_ref_bodies \subseteq Texts
    /\ Pages \subseteq Seq(Elements)

VARIABLES
    page,           \* the elements of the page
    phase,          \* "collect", "render" or "done"
    walks,          \* the walks that are open, innermost last
    references,     \* the notes, in the order of their first use
    index,          \* group and name -> the note they stand for at present
    next_number,    \* group -> the number of its next note
    next_global,    \* the last global id
    group_members,  \* group -> the notes its next list will show
    use_ids,        \* the ids of the markers, in the order of the uses
    cuts,           \* the notes of each list, in the order of the lists
    next_use,       \* ids of use_ids that were taken
    cut_cursor,     \* cuts that were taken
    converted,      \* text -> what it came to when its refs were replaced
    shown,          \* what the page came to
    collected       \* ghost: for each use, its place and if a list defines it

state == <<references, index, next_number, next_global, group_members>>
first == <<use_ids, cuts, collected>>
second == <<next_use, cut_cursor, converted, shown>>
vars == <<page, phase, walks, state, first, second>>

-----------------------------------------------------------------------------
(* Walks.  The place of an element is the way down to it.                  *)

Walk(nodes, place, embedded, refs_group, templated) ==
    [nodes |-> nodes, place |-> place, next |-> 1, embedded |-> embedded,
     refs_group |-> refs_group, templated |-> templated, out |-> <<>>]

PageWalk == Walk(page, <<>>, FALSE, NoGroup, FALSE)

Top(stk) == stk[Len(stk)]
Below(stk) == SubSeq(stk, 1, Len(stk) - 1)
AtEnd(w) == w.next > Len(w.nodes)
Element(stk) == Top(stk).nodes[Top(stk).next]
Place(stk) == Append(Top(stk).place, Top(stk).next)
Passed(stk, results) ==
    Append(Below(stk), [Top(stk) EXCEPT !.next = @ + 1, !.out = @ \o results])

has_ref(nodes) == \E i \in 1..Len(nodes) : nodes[i].kind = "ref"

\* The text of a <ref> is walked too if the service would have kept a <ref> in
\* it: if it was an argument of `#tag'.
nested_body(e) ==
    /\ e.kind = "ref" /\ e.body \in nested_ref_bodies
    /\ has_ref(Bodies[e.body])

\* The walks whose element is finished here: it has nothing below it, or what
\* is below it has been walked.
Due(entered) ==
    IF AtEnd(Top(walks)) THEN IF Len(walks) > 1 THEN {Below(walks)} ELSE {}
    ELSE IF entered THEN {} ELSE {walks}

-----------------------------------------------------------------------------
(* Notes. *)

\* cite_ref-<name>_<number>-<use>, or cite_ref-<number>: the number alone
\* tells the notes apart, and an anonymous one is used once.
marker_id(name, number, use_index) ==
    [name |-> name, number |-> number, use |-> use_index]

Reference(name, group, number, global_id, self_closing) ==
    [name |-> name, group |-> group, body |-> BlankBody, defined |-> FALSE,
     self_closing |-> self_closing, number |-> number,
     global_id |-> global_id, uses |-> <<>>]

\* As if a tag without a text defined one.
HasSource(e) == e.body # BlankBody
HasText(e) == e.body \notin {NoBody, BlankBody}

With(f, x, y) == [z \in DOMAIN f \union {x} |-> IF z = x THEN y ELSE f[z]]
Without(f, S) == [z \in DOMAIN f \ S |-> f[z]]
Get(f, x, default) == IF x \in DOMAIN f THEN f[x] ELSE default

\* The note an element is about: the one its name stands for, or a new one. A
\* note without a name is never found again.
NoteIndex(e, group) ==
    IF <<group, trim[e.name]>> \in DOMAIN index THEN index[<<group, trim[e.name]>>]
    ELSE Len(references) + 1
Note(e, group) ==
    IF NoteIndex(e, group) \in 1..Len(references) THEN references[NoteIndex(e, group)]
    ELSE Reference(trim[e.name], group, Get(next_number, group, 1),
                   next_global + 1, e.body = NoBody)

\* As if the last definition of a note were the one that counts.
DefinedLast(r, e) ==
    IF HasText(e)
    THEN [r EXCEPT !.body = e.body, !.defined = TRUE, !.self_closing = FALSE]
    ELSE r
\* The first text is the note's.
Defined(r, e) ==
    IF HasText(e) /\ ~r.defined
    THEN [r EXCEPT !.body = e.body, !.defined = TRUE, !.self_closing = FALSE]
    ELSE r

\* The text of a use that is not the text of its note is kept beside it.
conflict_of(r, e) == r.name # "" /\ HasText(e) /\ r.defined /\ r.body # e.body

Used(r, e) ==
    [Defined(r, e) EXCEPT !.uses = Append(@,
        [id |-> marker_id(r.name, r.global_id, Len(r.uses)), body |-> e.body,
         conflict |-> conflict_of(r, e)])]

\* The note of the element is now r.
add_full(e, group, r) ==
    LET i == NoteIndex(e, group)
    IN \/ /\ i \in 1..Len(references)
          /\ references' = [references EXCEPT ![i] = r]
          /\ UNCHANGED <<index, next_number, next_global, group_members>>
       \/ /\ i = Len(references) + 1
          /\ references' = Append(references, r)
          /\ index' = IF r.name = "" THEN index ELSE With(index, <<group, r.name>>, i)
          /\ next_number' = With(next_number, group, r.number + 1)
          /\ next_global' = r.global_id
          /\ group_members' = With(group_members, group,
                                   Append(Get(group_members, group, <<>>), i))

\* As if a list with nothing to show took no part, and as if the names of a
\* group outlived its list.
CutIfAny(group) ==
    /\ cuts' = IF group \in DOMAIN group_members
               THEN Append(cuts, group_members[group]) ELSE cuts
    /\ group_members' = Without(group_members, {group})
    /\ index' = Without(index, {k \in DOMAIN index : k[1] = group})
    /\ next_number' = Without(next_number, {group})
    /\ UNCHANGED <<references, next_global>>
CutKeepingNames(group) ==
    /\ cuts' = Append(cuts, Get(group_members, group, <<>>))
    /\ group_members' = Without(group_members, {group})
    /\ next_number' = Without(next_number, {group})
    /\ UNCHANGED <<references, next_global, index>>
\* The group starts afresh: a name defined before stands for nothing.
cut_group(group) ==
    /\ cuts' = Append(cuts, Get(group_members, group, <<>>))
    /\ group_members' = Without(group_members, {group})
    /\ index' = Without(index, {k \in DOMAIN index : k[1] = group})
    /\ next_number' = Without(next_number, {group})
    /\ UNCHANGED <<references, next_global>>

-----------------------------------------------------------------------------
(* The first walk, collect_in.  What a <references> encloses are definitions *)
(* for its group; a <ref> in a <ref> is out of that context again, and is    *)
(* collected before the one it is in.                                        *)

\* As if only the second walk went into notes.
EnclosesList(e) == e.kind = "references" /\ e.body \in Texts
Encloses(e) == nested_body(e) \/ (e.kind = "references" /\ e.body \in Texts)

Enter ==
    /\ phase = "collect" /\ ~AtEnd(Top(walks)) /\ Encloses(Element(walks))
    /\ LET e == Element(walks)
           list == e.kind = "references"
       IN walks' = Append(walks, Walk(Bodies[e.body], Place(walks), list,
                              IF list THEN e.group ELSE NoGroup, FALSE))
    /\ UNCHANGED <<page, phase, state, first, second>>

Collects(kind, embedded) ==
    {stk \in Due(Encloses(Element(walks))) :
        /\ phase = "collect"
        /\ Element(stk).kind = kind /\ Top(stk).embedded = embedded}

GroupIn(stk) ==
    trim[IF Top(stk).refs_group = NoGroup THEN Element(stk).group
         ELSE Top(stk).refs_group]

CollectUse ==
    \E stk \in Collects("ref", FALSE) :
        LET r == Note(Element(stk), GroupIn(stk))
        IN /\ add_full(Element(stk), GroupIn(stk), Used(r, Element(stk)))
           /\ use_ids' = Append(use_ids, marker_id(r.name, r.global_id, Len(r.uses)))
           /\ collected' = Append(collected,
                  [place |-> Place(stk), note |-> r.global_id,
                   listed |-> \E n \in 1..Len(stk) : stk[n].embedded])
           /\ walks' = Passed(stk, <<>>)
           /\ UNCHANGED <<page, phase, cuts, second>>

add_embedded ==
    \E stk \in Collects("ref", TRUE) :
        /\ add_full(Element(stk), GroupIn(stk),
                    Defined(Note(Element(stk), GroupIn(stk)), Element(stk)))
        /\ walks' = Passed(stk, <<>>)
        /\ UNCHANGED <<page, phase, first, second>>

\* A list in a list lists nothing of its own.
CutList ==
    \E stk \in Collects("references", FALSE) :
        /\ cut_group(Element(stk).group)
        /\ walks' = Passed(stk, <<>>)
        /\ UNCHANGED <<page, phase, use_ids, collected, second>>

ListInList ==
    \E stk \in Collects("references", TRUE) :
        /\ walks' = Passed(stk, <<>>)
        /\ UNCHANGED <<page, phase, state, first, second>>

EndCollect ==
    /\ phase = "collect" /\ Len(walks) = 1 /\ AtEnd(Top(walks))
    /\ phase' = "render" /\ walks' = <<PageWalk>>
    /\ UNCHANGED <<page, state, first, second>>

-----------------------------------------------------------------------------
(* The second walk, walk_render.  It does not go into a <references>.      *)

EnterNote ==
    /\ phase = "render" /\ ~AtEnd(Top(walks)) /\ nested_body(Element(walks))
    /\ LET e == Element(walks)
       IN walks' = Append(walks, Walk(Bodies[e.body], Place(walks), FALSE, NoGroup,
                              Top(walks).templated \/ e.templated))
    /\ UNCHANGED <<page, phase, state, first, second>>

Renders(kind) ==
    {stk \in Due(nested_body(Element(walks))) :
        phase = "render" /\ Element(stk).kind = kind}

\* The note's text, once the refs in it are replaced, is for its list.
Converted(stk) ==
    IF stk = walks THEN converted
    ELSE With(converted, Element(stk).body, Top(walks).out)

Marker(place, i, id) ==
    [kind |-> "marker", place |-> place, note |-> i, id |-> id]
Unreplaced(place) == [kind |-> "extension", place |-> place]
List(place, group, entries) ==
    [kind |-> "list", place |-> place, group |-> group, entries |-> entries]

\* The marker of the use that comes next; there would be none left if the
\* first walk had come to fewer refs than the second.
ref_marker(place) ==
    IF next_use = Len(use_ids) THEN Unreplaced(place)
    ELSE LET id == use_ids[next_use + 1]
             HasUse(i) == \E u \in Range(references[i].uses) : u.id = id
         IN Marker(place, CHOOSE i \in 1..Len(references) : HasUse(i), id)

RenderRef ==
    \E stk \in Renders("ref") :
        /\ converted' = Converted(stk)
        /\ walks' = Passed(stk, <<ref_marker(Place(stk))>>)
        /\ next_use' = IF next_use = Len(use_ids) THEN next_use ELSE next_use + 1
        /\ UNCHANGED <<page, phase, state, first, cut_cursor, shown>>

\* The text of a note, with the refs in it replaced if the walk came by.
body_of(r) ==
    IF ~r.defined THEN <<>>
    ELSE IF r.body \in DOMAIN converted THEN converted[r.body]
    ELSE [n \in 1..Len(Bodies[r.body]) |-> Unreplaced(<<n>>)]

Entry(i) ==
    [note |-> i,
     body |-> IF references[i].self_closing THEN <<>> ELSE body_of(references[i])]

NotesOf(group) ==
    SelectSeq([n \in 1..Len(references) |-> n],
              LAMBDA n : references[n].group = group)

\* The cut of a list; without one, all notes of its group.
Members(group) ==
    IF cut_cursor < Len(cuts) THEN cuts[cut_cursor + 1]
    ELSE NotesOf(group)

\* An empty list that a template made is dropped.
RenderList ==
    \E stk \in Renders("references") :
        LET e == Element(stk)
            members == Members(e.group)
            entries == [n \in 1..Len(members) |-> Entry(members[n])]
            dropped == members = <<>> /\ (Top(stk).templated \/ e.templated)
        IN /\ walks' = Passed(stk, IF dropped THEN <<>>
                                   ELSE <<List(Place(stk), e.group, entries)>>)
           /\ cut_cursor' = cut_cursor + 1
           /\ UNCHANGED <<page, phase, state, first, next_use, converted, shown>>

EndRender ==
    /\ phase = "render" /\ Len(walks) = 1 /\ AtEnd(Top(walks))
    /\ phase' = "done"
    /\ shown' = Top(walks).out
    /\ UNCHANGED <<page, walks, state, first, next_use, cut_cursor, converted>>

-----------------------------------------------------------------------------
Init ==
    /\ page \in Pages
    /\ phase = "collect" /\ walks = <<PageWalk>>
    /\ references = <<>> /\ index = <<>> /\ next_number = <<>>
    /\ next_global = 0 /\ group_members = <<>>
    /\ use_ids = <<>> /\ cuts = <<>> /\ collected = <<>>
    /\ next_use = 0 /\ cut_cursor = 0 /\ converted = <<>> /\ shown = <<>>

Next ==
    \/ Enter \/ CollectUse \/ add_embedded \/ CutList \/ ListInList
    \/ EndCollect
    \/ EnterNote \/ RenderRef \/ RenderList \/ EndRender

Spec == Init /\ [][Next]_vars

-----------------------------------------------------------------------------
(* Properties. *)

Uses == [id : [name : Names \union Groups, number : Nat, use : Nat],
         body : Texts \union {NoBody, BlankBody}, conflict : BOOLEAN]
References == [name : Names \union Groups, group : Groups,
               body : Texts \union {BlankBody}, defined : BOOLEAN,
               self_closing : BOOLEAN, number : Nat, global_id : Nat,
               uses : Seq(Uses)]

Collected == [place : Seq(Nat), note : Nat, listed : BOOLEAN]

WalkOK(w) ==
    /\ w.nodes \in Seq(Elements) /\ w.place \in Seq(Nat)
    /\ w.next \in 1..(Len(w.nodes) + 1)
    /\ w.embedded \in BOOLEAN /\ w.templated \in BOOLEAN
    /\ w.refs_group \in Groups \union {NoGroup}

\* Every part of the state is of its kind, and a walk that is not the page's
\* is of the element that the walk around it has come to.
TypeOK ==
    /\ page \in Seq(Elements)
    /\ phase \in {"collect", "render", "done"}
    /\ walks # <<>>
    /\ \A i \in 1..Len(walks) : WalkOK(walks[i])
    /\ \A i \in 1..(Len(walks) - 1) : ~AtEnd(walks[i])
    /\ references \in Seq(References)
    /\ DOMAIN index \subseteq Groups \X (Names \union Groups)
    /\ \A k \in DOMAIN index : index[k] \in 1..Len(references)
    /\ DOMAIN next_number \subseteq Groups
    /\ \A g \in DOMAIN next_number : next_number[g] \in Nat
    /\ DOMAIN group_members \subseteq Groups
    /\ \A g \in DOMAIN group_members : group_members[g] \in Seq(Nat)
    /\ next_global \in Nat
    /\ cuts \in Seq(Seq(Nat)) /\ cut_cursor \in Nat
    /\ collected \in Seq(Collected) /\ Len(collected) = Len(use_ids)
    /\ next_use \in 0..Len(use_ids)
    /\ DOMAIN converted \subseteq Texts

\* The notes of a group that its next list will show are numbered from 1 on,
\* and a name stands for a note just while that note waits for its list
\* (add_full, cut_group).
InstancesAgree ==
    /\ next_global = Len(references)
    /\ \A i \in 1..Len(references) : references[i].global_id = i
    /\ DOMAIN next_number = DOMAIN group_members
    /\ \A g \in DOMAIN group_members :
          LET waiting == group_members[g] IN
          /\ next_number[g] = Len(waiting) + 1
          /\ \A n \in 1..Len(waiting) :
                LET i == waiting[n] IN
                /\ i \in 1..Len(references)
                /\ references[i].group = g /\ references[i].number = n
                /\ references[i].name # "" =>
                      /\ <<g, references[i].name>> \in DOMAIN index
                      /\ index[<<g, references[i].name>>] = i
    /\ \A k \in DOMAIN index :
          /\ k[1] \in DOMAIN group_members
          /\ index[k] \in Range(group_members[k[1]])
          /\ references[index[k]].name = k[2]

ListedBefore(k) == \E j \in 1..k : collected[j].listed
MarkerOwn(m) ==
    \E k \in 1..Len(use_ids) :
        /\ use_ids[k] = m.id
        /\ \/ collected[k].place = m.place /\ collected[k].note = m.note
           \/ ListedBefore(k)

\* Every <ref> the second walk comes to is replaced, by the marker of the use
\* that the first walk collected for it and no other, however notes are nested
\* and shared. The code does not keep this behind a use in a list-defined note:
\* the second walk does not come to it, and gives its marker to the next <ref>.
MarkersOwn ==
    \A n \in 1..Len(walks) : \A r \in Range(walks[n].out) :
        /\ r.kind # "extension"
        /\ r.kind = "marker" => MarkerOwn(r)

ListsShown == {r \in Range(shown) : r.kind = "list"}
Notes(l) == [n \in 1..Len(l.entries) |-> l.entries[n].note]

\* Whether the list, l, of the page comes after the use.
Follows(l, use) ==
    IF use.listed THEN l.place[1] >= use.place[1] ELSE l.place[1] > use.place[1]

\* The lists of a page agree with its markers: no list is without a cut, a note
\* is in one list at most, a list numbers its notes as their markers do, and the
\* first list of its group that follows a use has its note. This is of pages
\* whose notes have no list in them, for that one may take the note.
ListsAgree ==
    phase = "done" =>
        /\ cut_cursor <= Len(cuts)
        /\ \A l, m \in ListsShown :
              l # m => Range(Notes(l)) \intersect Range(Notes(m)) = {}
        /\ \A l \in ListsShown : \A n \in 1..Len(l.entries) :
              LET r == references[Notes(l)[n]] IN r.number = n /\ r.group = l.group
        /\ \A k \in 1..Len(collected) : \A l \in ListsShown :
              LET use == collected[k] IN
              /\ Follows(l, use) /\ l.group = references[use.note].group
              /\ \A m \in ListsShown : m.group = l.group /\ Follows(m, use)
                                           => m.place[1] >= l.place[1]
              => use.note \in Range(Notes(l))

\* What a use says is what its note says in the list, or is kept beside the
\* use, whatever defined the note first and whenever (Defined, conflict_of).
TextsKept ==
    \A i \in 1..Len(references) : \A u \in Range(references[i].uses) :
        HasText(u) => \/ u.conflict
                      \/ u.body = references[i].body /\ ~references[i].self_closing
=============================================================================
