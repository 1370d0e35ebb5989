----------------------------- MODULE CiteProofs -----------------------------
(***************************************************************************)
(* What holds of Cite for all pages, names, groups and texts: the three    *)
(* tables of a group agree, and no text of a note is lost. And the markers *)
(* and the lists are their own. Both walks come to the uses that no list   *)
(* encloses in one order, that of their places: the first has collected    *)
(* those before the place it has come to, and of those the second has      *)
(* taken a marker for each. Both come to the lists of the page in the      *)
(* order of the page, and the second takes for each the cut that the first *)
(* has made.                                                               *)
(***************************************************************************)
EXTENDS Cite, FiniteSetTheorems, SequenceTheorems, TLAPS

-----------------------------------------------------------------------------
(* Walks.  What a walk has come to (out) is of no set that could be named:  *)
(* a list has texts, and these have lists.                                  *)

AllKeys(w) ==
    w \in [nodes : {w.nodes}, place : {w.place}, next : {w.next},
           embedded : {w.embedded}, refs_group : {w.refs_group},
           templated : {w.templated}, out : {w.out}]

IsSeq(s) == s \in Seq({s[i] : i \in DOMAIN s})

\* A walk whose element has another walk within it.
InText(w) == w.nodes[w.next].body \in Texts

StackOK(stk) ==
    /\ IsSeq(stk) /\ Len(stk) \in Nat \ {0}
    /\ \A i \in 1..Len(stk) : AllKeys(stk[i]) /\ WalkOK(stk[i])
    /\ \A i \in 1..(Len(stk) - 1) : ~AtEnd(stk[i]) /\ InText(stk[i])

\* A stack of walks, at least one of which is not at its end.
AtElement(stk) == StackOK(stk) /\ ~AtEnd(Top(stk))

\* A sequence of any elements is one of its own.
LEMMA OfItsOwn ==
  ASSUME NEW S, NEW s \in Seq(S) PROVE IsSeq(s)
<1> DEFINE T == {s[i] : i \in DOMAIN s}
<1>1. Len(s) \in Nat /\ s \in [1..Len(s) -> S] /\ DOMAIN s = 1..Len(s)
  BY LenProperties
<1>2. s \in [1..Len(s) -> T]
  BY <1>1
<1> QED
  BY <1>1, <1>2 DEF IsSeq

\* One more element on top.
LEMMA Pushed ==
  ASSUME NEW s, IsSeq(s), NEW x
  PROVE  /\ IsSeq(Append(s, x)) /\ Len(s) \in Nat
         /\ Len(Append(s, x)) = Len(s) + 1
         /\ Append(s, x)[Len(s) + 1] = x
         /\ \A i \in 1..Len(s) : Append(s, x)[i] = s[i]
<1> DEFINE T == {s[i] : i \in DOMAIN s} \union {x}
<1>1. s \in Seq(T)
  BY SeqMonotonic DEF IsSeq
<1> HIDE DEF T
<1>2. x \in T
  BY DEF T
<1>3. Append(s, x) \in Seq(T)
  BY <1>1, <1>2
<1>4. IsSeq(Append(s, x))
  BY <1>3, OfItsOwn
<1> QED
  BY <1>1, <1>2, <1>4

\* One less.
LEMMA Popped ==
  ASSUME NEW s, IsSeq(s), Len(s) \in Nat \ {0}
  PROVE  /\ IsSeq(Below(s))
         /\ Len(Below(s)) = Len(s) - 1
         /\ \A i \in 1..(Len(s) - 1) : Below(s)[i] = s[i]
<1> DEFINE T == {s[i] : i \in DOMAIN s}
<1>1. s \in Seq(T)
  BY DEF IsSeq
<1> HIDE DEF T
<1>2. \A i \in 1..(Len(s) - 1) : s[i] \in T
  BY <1>1, ElementOfSeq
<1>3. /\ Below(s) \in Seq(T) /\ Len(Below(s)) = Len(s) - 1
      /\ \A i \in 1..(Len(s) - 1) : Below(s)[i] = s[i]
  <2> DEFINE n == Len(s) - 1
  <2>1. n \in Nat /\ n - 1 + 1 = n /\ \A i \in 1..n : 1 + i - 1 = i
    OBVIOUS
  <2> HIDE DEF n
  <2>2. /\ SubSeq(s, 1, n) \in Seq(T) /\ Len(SubSeq(s, 1, n)) = IF 1 <= n THEN n - 1 + 1 ELSE 0
        /\ \A i \in 1..(n - 1 + 1) : SubSeq(s, 1, n)[i] = s[1 + i - 1]
    <3>1. \A i \in 1..n : s[i] \in T
      BY <1>2 DEF n
    <3>2. 1 \in Int /\ n \in Int
      BY <2>1
    <3> QED
      BY <3>1, <3>2, SubSeqProperties
  <2>3. /\ SubSeq(s, 1, n) \in Seq(T) /\ Len(SubSeq(s, 1, n)) = n
        /\ \A i \in 1..n : SubSeq(s, 1, n)[i] = s[i]
    BY <2>1, <2>2
  <2> QED
    BY <2>3 DEF n, Below
<1>4. IsSeq(Below(s))
  BY <1>3, OfItsOwn
<1> QED
  BY <1>3, <1>4

\* A walk begins at the first of its nodes.
LEMMA WalkType ==
  ASSUME NEW nodes \in Seq(Elements), NEW place \in Seq(Nat),
         NEW embedded \in BOOLEAN, NEW refs_group \in Groups \union {NoGroup},
         NEW templated \in BOOLEAN
  PROVE  LET w == Walk(nodes, place, embedded, refs_group, templated)
         IN AllKeys(w) /\ WalkOK(w)
<1>1. Len(nodes) \in Nat
  BY LenProperties
<1> QED
  BY <1>1 DEF Walk, AllKeys, WalkOK

\* The page's walk is a stack.
LEMMA PageWalkOK ==
  ASSUME page \in Seq(Elements) PROVE StackOK(<<PageWalk>>)
<1>1. <<>> \in Seq(Nat)
  BY EmptySeq
<1>2. AllKeys(PageWalk) /\ WalkOK(PageWalk)
  BY <1>1, WalkType DEF PageWalk
<1>3. <<PageWalk>> \in Seq({PageWalk}) /\ Len(<<PageWalk>>) = 1
  OBVIOUS
<1>4. IsSeq(<<PageWalk>>)
  BY <1>3, OfItsOwn
<1>5. <<PageWalk>>[1] = PageWalk
  OBVIOUS
<1> HIDE DEF PageWalk
<1> QED
  BY <1>2, <1>3, <1>4, <1>5 DEF StackOK

\* The element a walk has come to, and its place.
LEMMA ElementType ==
  ASSUME NEW stk, AtElement(stk)
  PROVE  /\ Element(stk) \in Elements /\ Place(stk) \in Seq(Nat)
         /\ AllKeys(Top(stk)) /\ WalkOK(Top(stk))
<1>1. AllKeys(Top(stk)) /\ WalkOK(Top(stk))
  BY DEF AtElement, StackOK, Top
<1>2. Top(stk).next \in 1..Len(Top(stk).nodes) /\ Len(Top(stk).nodes) \in Nat
  BY <1>1, LenProperties DEF WalkOK, AtElement, AtEnd
<1>3. Element(stk) \in Elements
  BY <1>1, <1>2, ElementOfSeq DEF Element, WalkOK
<1>4. Place(stk) \in Seq(Nat)
  BY <1>1, <1>2 DEF Place, WalkOK
<1> QED
  BY <1>1, <1>3, <1>4

\* To pass an element leaves a stack.
LEMMA PassedOK ==
  ASSUME NEW stk, AtElement(stk), NEW results
  PROVE  StackOK(Passed(stk, results))
<1> DEFINE w == [Top(stk) EXCEPT !.next = @ + 1, !.out = @ \o results]
           below == Below(stk)
<1>1. AllKeys(Top(stk)) /\ WalkOK(Top(stk))
  BY ElementType
<1>2. Top(stk).next \in 1..Len(Top(stk).nodes) /\ Len(Top(stk).nodes) \in Nat
  BY <1>1, LenProperties DEF WalkOK, AtElement, AtEnd
<1>3. AllKeys(w) /\ WalkOK(w)
  <2> DEFINE t == Top(stk)
             y == t.out \o results
             v == [t EXCEPT !.next = t.next + 1, !.out = y]
             N == {t.next, t.next + 1}
             O == {t.out, y}
             Keys(n, o) == [nodes : {t.nodes}, place : {t.place}, next : n,
                            embedded : {t.embedded}, refs_group : {t.refs_group},
                            templated : {t.templated}, out : o]
  <2> HIDE DEF t, y, N, O
  <2>1. AllKeys(t) /\ WalkOK(t) /\ t.next \in 1..Len(t.nodes) /\ Len(t.nodes) \in Nat
    BY <1>1, <1>2 DEF t
  <2>2. t \in Keys(N, O) /\ t.next + 1 \in N /\ y \in O
    BY <2>1 DEF AllKeys, N, O
  <2>3. /\ v.nodes = t.nodes /\ v.place = t.place /\ v.next = t.next + 1
        /\ v.embedded = t.embedded /\ v.refs_group = t.refs_group
        /\ v.templated = t.templated /\ v.out = y
    BY <2>2
  <2>4. v \in Keys(N, O)
    BY <2>2
  <2>5. AllKeys(v)
    BY <2>4 DEF AllKeys
  <2>6. WalkOK(v)
    BY <2>1, <2>3 DEF WalkOK
  <2>7. v = w
    BY DEF t, y
  <2> QED
    BY <2>5, <2>6, <2>7
<1>4. /\ IsSeq(below) /\ Len(below) = Len(stk) - 1 /\ Len(stk) \in Nat \ {0}
      /\ \A i \in 1..(Len(stk) - 1) : below[i] = stk[i]
  BY Popped DEF AtElement, StackOK
<1>5. \A i \in 1..(Len(stk) - 1) : AllKeys(stk[i]) /\ WalkOK(stk[i]) /\ ~AtEnd(stk[i]) /\ InText(stk[i])
  BY <1>4 DEF AtElement, StackOK
<1> HIDE DEF w, below
<1>6. /\ IsSeq(Append(below, w)) /\ Len(Append(below, w)) = Len(stk)
      /\ Append(below, w)[Len(stk)] = w
      /\ \A i \in 1..(Len(stk) - 1) : Append(below, w)[i] = stk[i]
  BY <1>4, Pushed
<1>7. StackOK(Append(below, w))
  BY <1>3, <1>4, <1>5, <1>6 DEF StackOK
<1> QED
  BY <1>7 DEF Passed, w, below

\* So does to go into one.
LEMMA EnteredOK ==
  ASSUME NEW stk, AtElement(stk), InText(Top(stk)), NEW w, AllKeys(w), WalkOK(w)
  PROVE  StackOK(Append(stk, w))
<1>1. /\ IsSeq(Append(stk, w)) /\ Len(Append(stk, w)) = Len(stk) + 1
      /\ Append(stk, w)[Len(stk) + 1] = w
      /\ \A i \in 1..Len(stk) : Append(stk, w)[i] = stk[i]
      /\ Len(stk) \in Nat \ {0}
  BY Pushed DEF AtElement, StackOK
<1>2. \A i \in 1..Len(stk) : AllKeys(stk[i]) /\ WalkOK(stk[i])
  BY DEF AtElement, StackOK
<1>3. \A i \in 1..Len(stk) : ~AtEnd(stk[i]) /\ InText(stk[i])
  BY <1>1 DEF AtElement, StackOK, Top
<1>4. \A i \in 1..(Len(stk) + 1) : i = Len(stk) + 1 \/ i \in 1..Len(stk)
  BY <1>1
<1> QED
  BY <1>1, <1>2, <1>3, <1>4 DEF StackOK

-----------------------------------------------------------------------------
(* Notes.  InstancesAgree with what makes it inductive: only names are      *)
(* looked up; and what each note keeps for TextsKept to hold of it: until   *)
(* it has a text none of its uses had one.                                  *)

NotesType ==
    /\ references \in Seq(References)
    /\ DOMAIN index \subseteq Groups \X (Names \union Groups)
    /\ \A k \in DOMAIN index : index[k] \in 1..Len(references)
    /\ DOMAIN next_number \subseteq Groups
    /\ \A g \in DOMAIN next_number : next_number[g] \in Nat
    /\ DOMAIN group_members \subseteq Groups
    /\ \A g \in DOMAIN group_members : group_members[g] \in Seq(Nat)
    /\ next_global \in Nat

IsName(x) == x # ""
OnlyNames == \A k \in DOMAIN index : IsName(k[2])

TextOK(r) ==
    /\ r.defined => ~r.self_closing
    /\ \A n \in 1..Len(r.uses) :
          HasText(r.uses[n]) =>
              /\ r.defined
              /\ r.uses[n].conflict \/ r.uses[n].body = r.body

NotesInv ==
    /\ NotesType /\ InstancesAgree /\ OnlyNames
    /\ \A i \in 1..Len(references) : TextOK(references[i])

Same(r, n) ==
    /\ r.name = n.name /\ r.group = n.group
    /\ r.number = n.number /\ r.global_id = n.global_id

\* InstancesAgree for one note that waits, and for one name.
WaitsOK(g, n) ==
    LET i == group_members[g][n] IN
    /\ i \in 1..Len(references)
    /\ references[i].group = g /\ references[i].number = n
    /\ IsName(references[i].name) =>
          /\ <<g, references[i].name>> \in DOMAIN index
          /\ index[<<g, references[i].name>>] = i
NameOK(k) ==
    /\ k[1] \in DOMAIN group_members
    /\ index[k] \in Range(group_members[k[1]])
    /\ references[index[k]].name = k[2]

AgreeByParts ==
    /\ next_global = Len(references)
    /\ \A i \in 1..Len(references) : references[i].global_id = i
    /\ DOMAIN next_number = DOMAIN group_members
    /\ \A g \in DOMAIN group_members :
          /\ next_number[g] = Len(group_members[g]) + 1
          /\ \A n \in 1..Len(group_members[g]) : WaitsOK(g, n)
    /\ \A k \in DOMAIN index : NameOK(k)

LEMMA ByParts == InstancesAgree <=> AgreeByParts
  BY DEF InstancesAgree, AgreeByParts, WaitsOK, NameOK, IsName

LEMMA ByPartsNext == InstancesAgree' <=> AgreeByParts'
  BY DEF InstancesAgree, AgreeByParts, WaitsOK, NameOK, IsName

NamedIfDefined(r) == r.defined => IsName(r.name)

\* The note an element is about is a note, and only one with a name is found
\* again.
LEMMA NoteType ==
  ASSUME NotesInv, NEW e \in Elements, NEW g \in Groups
  PROVE  /\ Note(e, g) \in References /\ TextOK(Note(e, g))
         /\ NamedIfDefined(Note(e, g))
         /\ NoteIndex(e, g) \in 1..(Len(references) + 1)
<1> DEFINE k == <<g, trim[e.name]>>
<1>0. e.name \in Names /\ trim[e.name] \in Names \union Groups
  BY ConstantsAssumption DEF Elements
<1>1. Len(references) \in Nat
  BY LenProperties DEF NotesInv, NotesType
<1>2. CASE k \in DOMAIN index
  <2>1. NoteIndex(e, g) = index[k] /\ index[k] \in 1..Len(references)
    BY <1>2 DEF NoteIndex, NotesInv, NotesType
  <2>2. Note(e, g) = references[index[k]]
    BY <2>1 DEF Note
  <2>3. references[index[k]] \in References
    BY <2>1, ElementOfSeq DEF NotesInv, NotesType
  <2>4. references[index[k]].name = k[2] /\ IsName(k[2]) /\ TextOK(references[index[k]])
    BY <1>2, <2>1 DEF NotesInv, InstancesAgree, OnlyNames
  <2>5. NoteIndex(e, g) \in 1..(Len(references) + 1)
    BY <1>1, <2>1
  <2> HIDE DEF k
  <2>6. Note(e, g) \in References /\ TextOK(Note(e, g)) /\ IsName(Note(e, g).name)
    BY <2>2, <2>3, <2>4
  <2> QED
    BY <2>5, <2>6 DEF NamedIfDefined
<1>3. CASE k \notin DOMAIN index
  <2> DEFINE n == Reference(trim[e.name], g, Get(next_number, g, 1),
                            next_global + 1, e.body = NoBody)
  <2>1. NoteIndex(e, g) = Len(references) + 1
    BY <1>3 DEF NoteIndex
  <2>2. Note(e, g) = n
    BY <1>1, <2>1 DEF Note
  <2>3. Get(next_number, g, 1) \in Nat /\ next_global + 1 \in Nat
    BY DEF Get, NotesInv, NotesType
  <2>4. n.uses = <<>> /\ n.defined = FALSE
    BY DEF Reference
  <2>5. n \in References
    <3>1. <<>> \in Seq(Uses)
      BY EmptySeq
    <3>2. (e.body = NoBody) \in BOOLEAN
      OBVIOUS
    <3> QED
      BY <1>0, <2>3, <3>1, <3>2 DEF Reference, References
  <2>6. TextOK(n)
    BY <2>4 DEF TextOK
  <2> HIDE DEF n
  <2>7. NoteIndex(e, g) \in 1..(Len(references) + 1)
    BY <1>1, <2>1
  <2>8. Note(e, g) \in References /\ TextOK(Note(e, g)) /\ ~Note(e, g).defined
    BY <2>2, <2>4, <2>5, <2>6
  <2> QED
    BY <2>7, <2>8 DEF NamedIfDefined
<1> QED
  BY <1>2, <1>3

\* To define a note.
LEMMA DefinedType ==
  ASSUME NEW r \in References, TextOK(r), NEW e \in Elements
  PROVE  /\ Defined(r, e) \in References /\ TextOK(Defined(r, e))
         /\ Same(Defined(r, e), r) /\ Defined(r, e).uses = r.uses
         /\ HasText(e) => Defined(r, e).defined
         /\ r.defined => Defined(r, e) = r
         /\ HasText(e) /\ ~r.defined => Defined(r, e).body = e.body
<1>1. CASE HasText(e) /\ ~r.defined
  <2> DEFINE d == [r EXCEPT !.body = e.body, !.defined = TRUE, !.self_closing = FALSE]
  <2>1. Defined(r, e) = d
    BY <1>1 DEF Defined
  <2>2. e.body \in Texts
    BY <1>1 DEF HasText, Elements
  <2>3. d \in References
    BY <2>2 DEF References
  <2>4. /\ d.name = r.name /\ d.group = r.group /\ d.number = r.number
        /\ d.global_id = r.global_id /\ d.uses = r.uses
        /\ d.defined = TRUE /\ d.self_closing = FALSE /\ d.body = e.body
    BY DEF References
  <2> HIDE DEF d
  <2>5. TextOK(d)
    BY <1>1, <2>4 DEF TextOK
  <2> QED
    BY <1>1, <2>1, <2>3, <2>4, <2>5 DEF Same
<1>2. CASE ~(HasText(e) /\ ~r.defined)
  <2>1. Defined(r, e) = r
    BY <1>2 DEF Defined
  <2> QED
    BY <1>2, <2>1 DEF Same
<1> QED
  BY <1>1, <1>2

\* To use one, which is defined only if it has a name: otherwise it is new.
LEMMA UsedType ==
  ASSUME NEW r \in References, TextOK(r), NEW e \in Elements,
         NamedIfDefined(r)
  PROVE  /\ Used(r, e) \in References /\ TextOK(Used(r, e))
         /\ Same(Used(r, e), r)
<1> DEFINE d == Defined(r, e)
           u == [id |-> marker_id(r.name, r.global_id, Len(r.uses)),
                 body |-> e.body, conflict |-> conflict_of(r, e)]
           s == Append(d.uses, u)
           v == [d EXCEPT !.uses = s]
<1>1. /\ d \in References /\ TextOK(d) /\ Same(d, r) /\ d.uses = r.uses
      /\ HasText(e) => d.defined
      /\ r.defined => d = r
      /\ HasText(e) /\ ~r.defined => d.body = e.body
  BY DefinedType
<1>2. d.uses \in Seq(Uses) /\ Len(d.uses) \in Nat /\ Len(r.uses) \in Nat
  <2>1. d.uses \in Seq(Uses)
    BY <1>1 DEF References
  <2> QED
    BY <1>1, <2>1, LenProperties
<1>3. u \in Uses
  <2>1. conflict_of(r, e) \in BOOLEAN
    BY DEF conflict_of
  <2>2. e.body \in Texts \union {NoBody, BlankBody}
    BY DEF Elements
  <2>3. marker_id(r.name, r.global_id, Len(r.uses)) \in
            [name : Names \union Groups, number : Nat, use : Nat]
    BY <1>2 DEF marker_id, References
  <2> QED
    BY <2>1, <2>2, <2>3 DEF Uses
<1>4. u.body = e.body /\ u.conflict = conflict_of(r, e)
  OBVIOUS
<1> HIDE DEF u, d
<1>5. /\ s \in Seq(Uses) /\ Len(s) = Len(d.uses) + 1 /\ s[Len(d.uses) + 1] = u
      /\ \A n \in 1..Len(d.uses) : s[n] = d.uses[n]
  <2> DEFINE q == d.uses
  <2>1. q \in Seq(Uses) /\ Len(q) \in Nat
    BY <1>2
  <2> HIDE DEF q
  <2>2. /\ Append(q, u) \in Seq(Uses) /\ Len(Append(q, u)) = Len(q) + 1
        /\ Append(q, u)[Len(q) + 1] = u
        /\ \A n \in 1..Len(q) : Append(q, u)[n] = q[n]
    BY <1>3, <2>1, AppendProperties
  <2> QED
    BY <2>2 DEF q
<1> HIDE DEF s
<1>6. v \in References
  BY <1>1, <1>5 DEF References
<1>7. /\ v.name = d.name /\ v.group = d.group /\ v.number = d.number
      /\ v.global_id = d.global_id /\ v.uses = s /\ v.body = d.body
      /\ v.defined = d.defined /\ v.self_closing = d.self_closing
  BY <1>1 DEF References
<1>8. HasText(u) => d.defined /\ (u.conflict \/ u.body = d.body)
  <2> SUFFICES ASSUME HasText(u) PROVE d.defined /\ (u.conflict \/ u.body = d.body)
    OBVIOUS
  <2>1. HasText(e)
    BY <1>4 DEF HasText
  <2>2. CASE r.defined
    BY <1>1, <1>4, <2>1, <2>2 DEF conflict_of, NamedIfDefined, IsName
  <2>3. CASE ~r.defined
    BY <1>1, <1>4, <2>1, <2>3
  <2> QED
    BY <2>2, <2>3
<1> HIDE DEF v
<1>9. TextOK(v)
  <2>1. v.defined => ~v.self_closing
    BY <1>1, <1>7 DEF TextOK
  <2>2. ASSUME NEW n \in 1..Len(v.uses), HasText(v.uses[n])
        PROVE v.defined /\ (v.uses[n].conflict \/ v.uses[n].body = v.body)
    <3>1. CASE n = Len(d.uses) + 1
      BY <1>5, <1>7, <1>8, <2>2, <3>1
    <3>2. CASE n \in 1..Len(d.uses)
      BY <1>1, <1>5, <1>7, <2>2, <3>2 DEF TextOK
    <3>3. Len(v.uses) = Len(d.uses) + 1 /\ Len(d.uses) \in Nat
      BY <1>2, <1>5, <1>7
    <3>4. n = Len(d.uses) + 1 \/ n \in 1..Len(d.uses)
      <4> DEFINE m == Len(d.uses)
                 l == Len(v.uses)
      <4>1. l = m + 1 /\ m \in Nat /\ n \in 1..l
        BY <2>2, <3>3
      <4> HIDE DEF m, l
      <4>2. n = m + 1 \/ n \in 1..m
        BY <4>1
      <4> QED
        BY <4>2 DEF m
    <3> QED
      BY <3>1, <3>2, <3>4
  <2> QED
    BY <2>1, <2>2 DEF TextOK
<1>10. Used(r, e) = v
  BY DEF Used, v, s, d, u
<1> QED
  BY <1>1, <1>6, <1>7, <1>9, <1>10 DEF Same

\* What With and Without leave.
LEMMA WithFacts ==
  ASSUME NEW f, NEW x, NEW y
  PROVE  /\ DOMAIN With(f, x, y) = DOMAIN f \union {x}
         /\ With(f, x, y)[x] = y
         /\ \A z \in DOMAIN f : z # x => With(f, x, y)[z] = f[z]
  BY DEF With

LEMMA WithoutFacts ==
  ASSUME NEW f, NEW S
  PROVE  /\ DOMAIN Without(f, S) = DOMAIN f \ S
         /\ \A z \in DOMAIN f \ S : Without(f, S)[z] = f[z]
  BY DEF Without

\* One more use or definition of a note that is there.
LEMMA AddKnown ==
  ASSUME NotesInv, NEW i \in 1..Len(references),
         NEW r \in References, TextOK(r), Same(r, references[i]),
         references' = [references EXCEPT ![i] = r],
         UNCHANGED <<index, next_number, next_global, group_members>>
  PROVE  NotesInv'
<1>1. /\ references' \in Seq(References) /\ Len(references') = Len(references)
      /\ \A j \in 1..Len(references) :
            references'[j] = IF j = i THEN r ELSE references[j]
  BY ExceptSeq DEF NotesInv, NotesType
<1>2. \A j \in 1..Len(references) : Same(references'[j], references[j])
  BY <1>1 DEF Same
<1>3. NotesType'
  BY <1>1 DEF NotesInv, NotesType
<1>4. InstancesAgree'
  <2>0. AgreeByParts
    BY ByParts DEF NotesInv
  <2>1. ASSUME NEW g \in DOMAIN group_members, NEW n \in 1..Len(group_members[g])
        PROVE WaitsOK(g, n)'
    <3>1. WaitsOK(g, n)
      BY <2>0 DEF AgreeByParts
    <3>2. Same(references'[group_members[g][n]], references[group_members[g][n]])
      BY <1>2, <3>1 DEF WaitsOK
    <3> QED
      BY <1>1, <3>1, <3>2 DEF WaitsOK, Same
  <2>2. ASSUME NEW k \in DOMAIN index PROVE NameOK(k)'
    <3>1. NameOK(k) /\ index[k] \in 1..Len(references)
      BY <2>0 DEF AgreeByParts, NotesInv, NotesType
    <3>2. Same(references'[index[k]], references[index[k]])
      BY <1>2, <3>1
    <3> QED
      BY <3>1, <3>2 DEF NameOK, Same
  <2>3. \A j \in 1..Len(references) : references'[j].global_id = j
    BY <1>2, <2>0 DEF AgreeByParts, Same
  <2> QED
    BY <1>1, <2>0, <2>1, <2>2, <2>3, ByPartsNext DEF AgreeByParts
<1>5. OnlyNames'
  BY DEF NotesInv, OnlyNames
<1>6. \A j \in 1..Len(references) : TextOK(references'[j])
  BY <1>1 DEF NotesInv
<1>7. \A j \in 1..Len(references') : TextOK(references'[j])
  BY <1>1, <1>6
<1>8. (\A j \in 1..Len(references) : TextOK(references[j]))'
  BY <1>7 DEF TextOK, HasText
<1> QED
  BY <1>3, <1>4, <1>5, <1>8 DEF NotesInv

\* What the code does with it.
AddsNew(r, g) ==
    LET i == Len(references) + 1
    IN /\ references' = Append(references, r)
       /\ index' = IF r.name = "" THEN index ELSE With(index, <<g, r.name>>, i)
       /\ next_number' = With(next_number, g, r.number + 1)
       /\ next_global' = r.global_id
       /\ group_members' = With(group_members, g,
                                Append(Get(group_members, g, <<>>), i))

LEMMA AddsNewNote ==
  ASSUME NEW r, NEW g, AddsNew(r, g)
  PROVE  /\ references' = Append(references, r) /\ next_global' = r.global_id
         /\ next_number' = With(next_number, g, r.number + 1)
         /\ group_members' = With(group_members, g,
                Append(Get(group_members, g, <<>>), Len(references) + 1))
  BY Zenon DEF AddsNew

LEMMA AddsNewName ==
  ASSUME NEW r, NEW g, AddsNew(r, g)
  PROVE  /\ ~IsName(r.name) => index' = index
         /\ IsName(r.name) => index' = With(index, <<g, r.name>>, Len(references) + 1)
  BY Zenon DEF AddsNew, IsName

\* A new note is the last of its group.
LEMMA AddNew ==
  ASSUME NotesInv, NEW e \in Elements, NEW g \in Groups,
         NoteIndex(e, g) = Len(references) + 1,
         NEW r \in References, TextOK(r), Same(r, Note(e, g)),
         AddsNew(r, g)
  PROVE  NotesInv'
<1> DEFINE L == Len(references)
           W == Get(group_members, g, <<>>)
           key == <<g, r.name>>
<1>0. L \in Nat /\ next_global = L /\ AgreeByParts
  BY LenProperties, ByParts DEF NotesInv, NotesType, AgreeByParts
<1>1. /\ references' \in Seq(References) /\ Len(references') = L + 1
      /\ references'[L + 1] = r
      /\ \A j \in 1..L : references'[j] = references[j]
  BY AddsNewNote, AppendProperties DEF NotesInv, NotesType
<1>2. W \in Seq(Nat) /\ Len(W) \in Nat
  <2>1. W \in Seq(Nat)
    BY EmptySeq DEF Get, NotesInv, NotesType
  <2> QED
    BY <2>1, LenProperties
<1>a. group_members' = With(group_members, g, Append(W, L + 1))
  BY AddsNewNote
<1>b. next_number' = With(next_number, g, r.number + 1)
  BY AddsNewNote
<1>c. /\ ~IsName(r.name) => index' = index
      /\ IsName(r.name) => index' = With(index, key, L + 1)
  BY AddsNewName
<1> DEFINE X == Append(W, L + 1)
           Y == r.number + 1
           Z == L + 1
<1> HIDE DEF X, Y, Z
<1>d. /\ group_members' = With(group_members, g, X)
      /\ next_number' = With(next_number, g, Y)
      /\ IsName(r.name) => index' = With(index, key, Z)
  BY <1>a, <1>b, <1>c DEF X, Y, Z
<1>e. /\ DOMAIN group_members' = DOMAIN group_members \union {g}
      /\ group_members'[g] = X
      /\ \A h \in DOMAIN group_members : h # g => group_members'[h] = group_members[h]
  BY <1>d DEF With
<1>f. /\ DOMAIN next_number' = DOMAIN next_number \union {g}
      /\ next_number'[g] = Y
      /\ \A h \in DOMAIN next_number : h # g => next_number'[h] = next_number[h]
  BY <1>d DEF With
<1>g. IsName(r.name) => /\ DOMAIN index' = DOMAIN index \union {key}
                  /\ index'[key] = Z
                  /\ \A k \in DOMAIN index : k # key => index'[k] = index[k]
  <2> HIDE DEF key
  <2> QED
    BY <1>d DEF With
<1>3. /\ group_members'[g] \in Seq(Nat) /\ Len(group_members'[g]) = Len(W) + 1
      /\ group_members'[g][Len(W) + 1] = L + 1
      /\ \A n \in 1..Len(W) : group_members'[g][n] = W[n]
  <2>1. group_members'[g] = Append(W, L + 1)
    BY <1>e DEF X
  <2>2. L + 1 \in Nat
    BY <1>0
  <2> HIDE DEF L, W
  <2> QED
    BY <1>2, <2>1, <2>2, AppendProperties
<1>4. /\ DOMAIN group_members' = DOMAIN group_members \union {g}
      /\ \A h \in DOMAIN group_members : h # g => group_members'[h] = group_members[h]
      /\ DOMAIN next_number' = DOMAIN next_number \union {g}
      /\ next_number'[g] = r.number + 1
      /\ \A h \in DOMAIN next_number : h # g => next_number'[h] = next_number[h]
  BY <1>e, <1>f DEF Y
<1>5. /\ ~IsName(r.name) => index' = index
      /\ IsName(r.name) => /\ DOMAIN index' = DOMAIN index \union {key}
                     /\ index'[key] = L + 1
                     /\ \A k \in DOMAIN index : k # key => index'[k] = index[k]
  BY <1>c, <1>g DEF Z
<1>6. /\ r.name = trim[e.name] /\ r.group = g /\ r.global_id = L + 1
      /\ r.number = Get(next_number, g, 1)
      /\ next_global' = L + 1
  <2>1. Note(e, g) = Reference(trim[e.name], g, Get(next_number, g, 1),
                               next_global + 1, e.body = NoBody)
    BY <1>0 DEF Note
  <2> QED
    BY <1>0, <2>1, AddsNewNote DEF Same, Reference
<1>7. r.number = Len(W) + 1
  <2>1. CASE g \in DOMAIN group_members
    BY <1>0, <1>6, <2>1 DEF Get, AgreeByParts
  <2>2. CASE g \notin DOMAIN group_members
    <3>1. Get(next_number, g, 1) = 1 /\ W = <<>>
      BY <1>0, <2>2 DEF Get, AgreeByParts
    <3> QED
      BY <1>6, <3>1, EmptySeq
  <2> QED
    BY <2>1, <2>2
<1>h. IsName(r.name) \in BOOLEAN
  BY DEF IsName
<1>8. key \notin DOMAIN index
  <2>1. key = <<g, trim[e.name]>>
    BY <1>6
  <2>2. ASSUME key \in DOMAIN index PROVE FALSE
    <3>1. NoteIndex(e, g) \in 1..L
      BY <2>1, <2>2 DEF NoteIndex, NotesInv, NotesType
    <3> QED
      BY <1>0, <3>1
  <2> QED
    BY <2>2
<1>9. \A k \in DOMAIN index : k \in DOMAIN index' /\ index'[k] = index[k]
  BY <1>5, <1>8
<1>10. \A k \in DOMAIN index' : k \in DOMAIN index \/ (k = key /\ IsName(r.name) /\ index'[k] = L + 1)
  <2> HIDE DEF key
  <2>1. CASE IsName(r.name)
    <3>1. /\ DOMAIN index' = DOMAIN index \union {key}
          /\ index'[key] = L + 1
      BY <1>5, <2>1, Zenon
    <3> HIDE DEF L
    <3> QED
      BY <2>1, <3>1, Zenon
  <2>2. CASE ~IsName(r.name)
    <3>1. index' = index
      BY <1>5, <2>2, Zenon
    <3> QED
      BY <3>1, Zenon
  <2> QED
    BY <2>1, <2>2
<1>11. IsName(r.name) => key \in DOMAIN index' /\ index'[key] = L + 1
  BY <1>5
<1>12. r.name \in Names \union Groups /\ r.number \in Nat
  BY DEF References
<1> HIDE DEF L, W, key
<1>13. NotesType'
  <2>1. DOMAIN index' \subseteq Groups \X (Names \union Groups)
    BY <1>10, <1>12 DEF key, NotesInv, NotesType
  <2>2. \A k \in DOMAIN index' : index'[k] \in 1..(L + 1)
    <3>1. \A k \in DOMAIN index : index[k] \in 1..L
      BY DEF L, NotesInv, NotesType
    <3> QED
      BY <1>0, <1>9, <1>10, <3>1
  <2>3. \A h \in DOMAIN next_number' : next_number'[h] \in Nat
    BY <1>4, <1>12 DEF NotesInv, NotesType
  <2>4. \A h \in DOMAIN group_members' : group_members'[h] \in Seq(Nat)
    BY <1>3, <1>4 DEF NotesInv, NotesType
  <2>5. DOMAIN next_number' \subseteq Groups /\ DOMAIN group_members' \subseteq Groups
    BY <1>4 DEF NotesInv, NotesType
  <2>6. next_global' \in Nat
    BY <1>0, <1>6
  <2> QED
    BY <1>1, <2>1, <2>2, <2>3, <2>4, <2>5, <2>6 DEF NotesType
<1>14. InstancesAgree'
  <2>1. ASSUME NEW h \in DOMAIN group_members, NEW n \in 1..Len(group_members[h]),
               group_members'[h][n] = group_members[h][n]
        PROVE  WaitsOK(h, n)'
    <3>1. WaitsOK(h, n)
      BY <1>0 DEF AgreeByParts
    <3>2. group_members[h][n] \in 1..L
      BY <3>1 DEF WaitsOK, L
    <3> DEFINE i == group_members[h][n]
    <3>3. /\ i \in 1..(L + 1) /\ references'[i] = references[i]
      BY <1>0, <1>1, <3>2
    <3> QED
      BY <1>1, <1>9, <2>1, <3>1, <3>3 DEF WaitsOK
  <2>2. ASSUME NEW n, n = Len(W) + 1 PROVE WaitsOK(g, n)'
    BY <2>2, <1>0, <1>1, <1>3, <1>6, <1>7, <1>11 DEF WaitsOK, key
  <2>3. ASSUME NEW h \in DOMAIN group_members'
        PROVE  /\ next_number'[h] = Len(group_members'[h]) + 1
               /\ \A n \in 1..Len(group_members'[h]) : WaitsOK(h, n)'
    <3>1. CASE h # g
      <4>1. h \in DOMAIN group_members /\ group_members'[h] = group_members[h]
        BY <1>4, <3>1
      <4>2. next_number'[h] = next_number[h] /\ next_number[h] = Len(group_members[h]) + 1
        BY <1>0, <1>4, <3>1, <4>1 DEF AgreeByParts
      <4> QED
        BY <2>1, <4>1, <4>2
    <3>2. CASE h = g
      <4>1. \A n \in 1..Len(W) : WaitsOK(g, n)'
        <5>1. CASE g \in DOMAIN group_members
          BY <1>3, <2>1, <5>1 DEF W, Get
        <5>2. CASE g \notin DOMAIN group_members
          <6>1. Len(W) = 0
            BY <5>2, EmptySeq DEF W, Get
          <6> QED
            BY <6>1
        <5> QED
          BY <5>1, <5>2
      <4>2. ASSUME NEW n \in 1..(Len(W) + 1) PROVE WaitsOK(g, n)'
        <5>1. n = Len(W) + 1 \/ n \in 1..Len(W)
          BY <1>2
        <5> QED
          BY <2>2, <4>1, <5>1
      <4>3. next_number'[g] = Len(group_members'[g]) + 1
        BY <1>3, <1>4, <1>7
      <4> QED
        BY <1>3, <3>2, <4>2, <4>3
    <3> QED
      BY <3>1, <3>2
  <2>4. ASSUME NEW k \in DOMAIN index' PROVE NameOK(k)'
    <3>1. CASE k \in DOMAIN index
      <4>1. NameOK(k) /\ index'[k] = index[k] /\ index[k] \in 1..L
        BY <1>0, <1>9, <3>1 DEF AgreeByParts, NotesInv, NotesType, L
      <4>2. PICK n \in DOMAIN group_members[k[1]] : index[k] = group_members[k[1]][n]
        BY <4>1 DEF NameOK, Range
      <4>3. k[1] \in DOMAIN group_members /\ group_members[k[1]] \in Seq(Nat)
        BY <4>1 DEF NameOK, NotesInv, NotesType
      <4>4. n \in DOMAIN group_members'[k[1]] /\ group_members'[k[1]][n] = group_members[k[1]][n]
        <5>1. CASE k[1] # g
          BY <1>4, <4>2, <4>3, <5>1
        <5>2. CASE k[1] = g
          <6>1. W = group_members[g] /\ n \in 1..Len(W)
            BY <4>2, <4>3, <5>2, LenProperties DEF W, Get
          <6>2. DOMAIN group_members'[g] = 1..(Len(W) + 1)
            BY <1>3, LenProperties
          <6>3. n \in 1..(Len(W) + 1)
            BY <1>2, <6>1
          <6> QED
            BY <1>3, <5>2, <6>1, <6>2, <6>3
        <5> QED
          BY <5>1, <5>2
      <4>5. index'[k] \in Range(group_members'[k[1]])
        BY <4>1, <4>2, <4>4 DEF Range
      <4>6. references'[index'[k]].name = k[2]
        BY <1>1, <4>1 DEF NameOK
      <4> QED
        BY <1>4, <4>3, <4>5, <4>6 DEF NameOK
    <3>2. CASE k = key /\ IsName(r.name) /\ index'[k] = L + 1
      <4>1. k[1] = g /\ k[2] = r.name
        BY <3>2 DEF key
      <4>2. Len(W) + 1 \in DOMAIN group_members'[g]
        BY <1>2, <1>3, LenProperties
      <4>3. L + 1 \in Range(group_members'[g])
        BY <1>3, <4>2 DEF Range
      <4> QED
        BY <1>1, <1>4, <3>2, <4>1, <4>3 DEF NameOK
    <3> QED
      BY <1>10, <3>1, <3>2
  <2>5. \A j \in 1..(L + 1) : references'[j].global_id = j
    <3>1. \A j \in 1..L : references[j].global_id = j
      BY <1>0 DEF AgreeByParts, L
    <3>2. \A j \in 1..(L + 1) : j = L + 1 \/ j \in 1..L
      BY <1>0
    <3> QED
      BY <1>1, <1>6, <3>1, <3>2
  <2>6. next_global' = Len(references')
    BY <1>1, <1>6
  <2>7. DOMAIN next_number' = DOMAIN group_members'
    BY <1>0, <1>4 DEF AgreeByParts
  <2> QED
    BY <1>1, <2>3, <2>4, <2>5, <2>6, <2>7, ByPartsNext DEF AgreeByParts
<1>15. OnlyNames'
  BY <1>10 DEF OnlyNames, NotesInv, key
<1>16. \A j \in 1..(L + 1) : TextOK(references'[j])
  <2>1. \A j \in 1..(L + 1) : j = L + 1 \/ j \in 1..L
    BY <1>0
  <2>2. \A j \in 1..L : TextOK(references[j])
    BY DEF NotesInv, L
  <2> QED
    BY <1>1, <2>1, <2>2
<1>17. (\A j \in 1..Len(references) : TextOK(references[j]))'
  BY <1>1, <1>16 DEF TextOK, HasText
<1> QED
  BY <1>13, <1>14, <1>15, <1>17 DEF NotesInv

\* Each way to collect a <ref>.
LEMMA AddNote ==
  ASSUME NotesInv, NEW e \in Elements, NEW g \in Groups,
         NEW r \in References, TextOK(r), Same(r, Note(e, g)),
         \/ /\ NoteIndex(e, g) \in 1..Len(references)
            /\ references' = [references EXCEPT ![NoteIndex(e, g)] = r]
            /\ UNCHANGED <<index, next_number, next_global, group_members>>
         \/ NoteIndex(e, g) = Len(references) + 1 /\ AddsNew(r, g)
  PROVE  NotesInv'
<1>1. CASE /\ NoteIndex(e, g) \in 1..Len(references)
           /\ references' = [references EXCEPT ![NoteIndex(e, g)] = r]
           /\ UNCHANGED <<index, next_number, next_global, group_members>>
  <2>1. Note(e, g) = references[NoteIndex(e, g)]
    BY <1>1 DEF Note
  <2> QED
    BY <1>1, <2>1, AddKnown
<1>2. CASE NoteIndex(e, g) = Len(references) + 1 /\ AddsNew(r, g)
  BY <1>2, AddNew
<1> QED
  BY <1>1, <1>2

LEMMA AddUse ==
  ASSUME NotesInv, NEW e \in Elements, NEW g \in Groups, add_full(e, g, Used(Note(e, g), e))
  PROVE  NotesInv'
<1> DEFINE r == Used(Note(e, g), e)
<1>1. r \in References /\ TextOK(r) /\ Same(r, Note(e, g))
  BY NoteType, UsedType
<1>2. \/ /\ NoteIndex(e, g) \in 1..Len(references)
         /\ references' = [references EXCEPT ![NoteIndex(e, g)] = r]
         /\ UNCHANGED <<index, next_number, next_global, group_members>>
      \/ NoteIndex(e, g) = Len(references) + 1 /\ AddsNew(r, g)
  BY Zenon DEF add_full, AddsNew
<1> HIDE DEF r
<1> QED
  BY <1>1, <1>2, AddNote

LEMMA AddDefinition ==
  ASSUME NotesInv, NEW e \in Elements, NEW g \in Groups, add_full(e, g, Defined(Note(e, g), e))
  PROVE  NotesInv'
<1> DEFINE r == Defined(Note(e, g), e)
<1>1. r \in References /\ TextOK(r) /\ Same(r, Note(e, g))
  BY NoteType, DefinedType
<1>2. \/ /\ NoteIndex(e, g) \in 1..Len(references)
         /\ references' = [references EXCEPT ![NoteIndex(e, g)] = r]
         /\ UNCHANGED <<index, next_number, next_global, group_members>>
      \/ NoteIndex(e, g) = Len(references) + 1 /\ AddsNew(r, g)
  BY Zenon DEF add_full, AddsNew
<1> HIDE DEF r
<1> QED
  BY <1>1, <1>2, AddNote

\* A list takes its group with it.
LEMMA CutNotes ==
  ASSUME NotesInv, NEW g \in Groups, cut_group(g)
  PROVE  NotesInv'
<1> DEFINE S == {k \in DOMAIN index : k[1] = g}
<1>0. AgreeByParts
  BY ByParts DEF NotesInv
<1>1. /\ group_members' = Without(group_members, {g})
      /\ index' = Without(index, S)
      /\ next_number' = Without(next_number, {g})
      /\ UNCHANGED <<references, next_global>>
  BY DEF cut_group
<1>2. \A k \in DOMAIN index' : k \in DOMAIN index /\ k[1] # g /\ index'[k] = index[k]
  <2>1. DOMAIN index' = DOMAIN index \ S /\ \A k \in DOMAIN index \ S : index'[k] = index[k]
    BY <1>1 DEF Without
  <2> QED
    BY <2>1
<1>3. \A k \in DOMAIN index : k[1] # g => k \in DOMAIN index' /\ index'[k] = index[k]
  <2>1. DOMAIN index' = DOMAIN index \ S /\ \A k \in DOMAIN index \ S : index'[k] = index[k]
    BY <1>1 DEF Without
  <2> QED
    BY <2>1
<1>4. /\ DOMAIN group_members' = DOMAIN group_members \ {g}
      /\ \A h \in DOMAIN group_members \ {g} : group_members'[h] = group_members[h]
  BY <1>1 DEF Without
<1>5. /\ DOMAIN next_number' = DOMAIN next_number \ {g}
      /\ \A h \in DOMAIN next_number \ {g} : next_number'[h] = next_number[h]
  BY <1>1 DEF Without
<1>6. NotesType'
  BY <1>1, <1>2, <1>4, <1>5 DEF NotesInv, NotesType
<1>7. InstancesAgree'
  <2>1. ASSUME NEW h \in DOMAIN group_members'
        PROVE  /\ next_number'[h] = Len(group_members'[h]) + 1
               /\ \A n \in 1..Len(group_members'[h]) : WaitsOK(h, n)'
    <3>1. h \in DOMAIN group_members /\ h # g /\ group_members'[h] = group_members[h]
      BY <1>4
    <3>2. next_number'[h] = next_number[h]
      BY <1>0, <1>5, <3>1 DEF AgreeByParts
    <3>3. ASSUME NEW n \in 1..Len(group_members[h]) PROVE WaitsOK(h, n)'
      <4>1. WaitsOK(h, n)
        BY <1>0, <3>1 DEF AgreeByParts
      <4> DEFINE i == group_members[h][n]
                 key == <<h, references[i].name>>
      <4>2. key[1] # g
        BY <3>1
      <4>3. IsName(references[i].name) => key \in DOMAIN index' /\ index'[key] = i
        BY <1>3, <4>1, <4>2 DEF WaitsOK
      <4> QED
        BY <1>1, <3>1, <4>1, <4>3 DEF WaitsOK
    <3> QED
      BY <1>0, <3>1, <3>2, <3>3 DEF AgreeByParts
  <2>2. ASSUME NEW k \in DOMAIN index' PROVE NameOK(k)'
    <3>1. k \in DOMAIN index /\ k[1] # g /\ index'[k] = index[k] /\ NameOK(k)
      BY <1>0, <1>2 DEF AgreeByParts
    <3>2. k[1] \in DOMAIN group_members \ {g}
      BY <3>1 DEF NameOK
    <3> QED
      BY <1>1, <1>4, <3>1, <3>2 DEF NameOK
  <2>3. DOMAIN next_number' = DOMAIN group_members'
    BY <1>0, <1>4, <1>5 DEF AgreeByParts
  <2> QED
    BY <1>0, <1>1, <2>1, <2>2, <2>3, ByPartsNext DEF AgreeByParts
<1>8. OnlyNames'
  BY <1>2 DEF OnlyNames, NotesInv
<1>9. (\A j \in 1..Len(references) : TextOK(references[j]))'
  BY <1>1 DEF TextOK, HasText, NotesInv
<1> QED
  BY <1>6, <1>7, <1>8, <1>9 DEF NotesInv

LEMMA SameNotes ==
  ASSUME NotesInv, UNCHANGED state
  PROVE  NotesInv'
<1>1. NotesType' /\ OnlyNames'
  BY DEF NotesInv, NotesType, OnlyNames, state
<1>2. InstancesAgree'
  <2>1. InstancesAgree
    BY DEF NotesInv
  <2>2. /\ references' = references /\ index' = index /\ next_number' = next_number
        /\ next_global' = next_global /\ group_members' = group_members
    BY DEF state
  <2> QED
    BY <2>1, <2>2, ByParts, ByPartsNext DEF AgreeByParts, WaitsOK, NameOK
<1>3. (\A j \in 1..Len(references) : TextOK(references[j]))'
  BY DEF TextOK, HasText, NotesInv, state
<1> QED
  BY <1>1, <1>2, <1>3 DEF NotesInv

-----------------------------------------------------------------------------
(* Steps. *)

RestOK ==
    /\ page \in Seq(Elements) /\ phase \in {"collect", "render", "done"}
    /\ cuts \in Seq(Seq(Nat)) /\ cut_cursor \in Nat
    /\ collected \in Seq(Collected) /\ IsSeq(use_ids)
    /\ Len(collected) = Len(use_ids)
    /\ next_use \in 0..Len(use_ids)
    /\ DOMAIN converted \subseteq Texts

CiteInv == NotesInv /\ StackOK(walks) /\ RestOK

\* A walk that has been gone through leads back to the element it is in.
LEMMA BelowOK ==
  ASSUME NEW stk, StackOK(stk), Len(stk) > 1
  PROVE  AtElement(Below(stk)) /\ InText(Top(Below(stk)))
<1> DEFINE m == Len(stk) - 1
           b == Below(stk)
<1>1. /\ IsSeq(b) /\ Len(b) = m
      /\ \A i \in 1..m : b[i] = stk[i]
  BY Popped DEF StackOK
<1>2. m \in Nat \ {0} /\ m \in 1..m /\ \A i \in 1..m : i \in 1..Len(stk)
  BY DEF StackOK
<1>3. \A i \in 1..m : AllKeys(stk[i]) /\ WalkOK(stk[i]) /\ ~AtEnd(stk[i]) /\ InText(stk[i])
  BY <1>2 DEF StackOK
<1>4. \A i \in 1..(m - 1) : i \in 1..m
  BY <1>2
<1> HIDE DEF m, b
<1>5. StackOK(b)
  BY <1>1, <1>2, <1>3, <1>4 DEF StackOK
<1>6. Top(b) = stk[m]
  BY <1>1, <1>2 DEF Top
<1>7. AtElement(b) /\ InText(Top(b))
  BY <1>2, <1>3, <1>5, <1>6 DEF AtElement
<1> QED
  BY <1>7 DEF b

\* What is due has an element, and what is not on top of the walks is in a
\* text.
LEMMA DueOK ==
  ASSUME StackOK(walks),
         NEW stk, \/ stk \in Due(Encloses(Element(walks)))
                  \/ stk \in Due(nested_body(Element(walks)))
  PROVE  AtElement(stk) /\ (stk = walks \/ Element(stk).body \in Texts)
<1>1. \/ AtEnd(Top(walks)) /\ Len(walks) > 1 /\ stk = Below(walks)
      \/ ~AtEnd(Top(walks)) /\ stk = walks
  BY DEF Due
<1>2. CASE AtEnd(Top(walks)) /\ Len(walks) > 1 /\ stk = Below(walks)
  BY <1>2, BelowOK DEF InText, Element
<1>3. CASE ~AtEnd(Top(walks)) /\ stk = walks
  BY <1>3 DEF AtElement
<1> QED
  BY <1>1, <1>2, <1>3

\* The group of a <ref> is a group.
LEMMA GroupType ==
  ASSUME NEW stk, AtElement(stk) PROVE GroupIn(stk) \in Groups
<1>1. Element(stk) \in Elements /\ WalkOK(Top(stk))
  BY ElementType
<1>2. Element(stk).group \in Groups
  BY <1>1 DEF Elements
<1>3. Top(stk).refs_group \in Groups \/ Top(stk).refs_group = NoGroup
  BY <1>1 DEF WalkOK
<1> QED
  BY <1>2, <1>3, ConstantsAssumption DEF GroupIn

\* To go into the text of an element.
LEMMA IntoText ==
  ASSUME AtElement(walks), NEW e, e = Element(walks), e.body \in Texts,
         NEW embedded \in BOOLEAN, NEW group \in Groups \union {NoGroup},
         NEW templated \in BOOLEAN,
         walks' = Append(walks, Walk(Bodies[e.body], Place(walks), embedded,
                                     group, templated))
  PROVE  StackOK(walks)'
<1> DEFINE w == Walk(Bodies[e.body], Place(walks), embedded, group, templated)
<1>1. Bodies[e.body] \in Seq(Elements) /\ Place(walks) \in Seq(Nat)
  BY ElementType, ConstantsAssumption
<1>2. AllKeys(w) /\ WalkOK(w)
  BY <1>1, WalkType
<1>3. InText(Top(walks))
  BY DEF InText, Element
<1> HIDE DEF w
<1>4. StackOK(Append(walks, w))
  BY <1>2, <1>3, EnteredOK
<1>5. walks' = Append(walks, w)
  BY DEF w
<1>6. StackOK(walks')
  BY <1>4, <1>5
<1> QED
  BY <1>6 DEF StackOK

\* To pass an element.
LEMMA Past ==
  ASSUME NEW stk, AtElement(stk), NEW results, walks' = Passed(stk, results)
  PROVE  StackOK(walks)'
<1>1. StackOK(walks')
  BY PassedOK
<1> QED
  BY <1>1 DEF StackOK

LEMMA InitOK == Init => CiteInv
<1> SUFFICES ASSUME Init PROVE CiteInv
  OBVIOUS
<1>1. page \in Seq(Elements)
  BY ConstantsAssumption DEF Init
<1>2. StackOK(walks)
  BY <1>1, PageWalkOK DEF Init
<1>3. /\ \A S : <<>> \in Seq(S)
      /\ Len(<<>>) = 0 /\ DOMAIN <<>> = {}
  BY EmptySeq
<1>4. RestOK
  <2>1. IsSeq(<<>>)
    BY <1>3, OfItsOwn
  <2> QED
    BY <1>1, <1>3, <2>1 DEF Init, RestOK
<1>5. NotesType
  BY <1>3 DEF Init, NotesType
<1>6. InstancesAgree
  BY <1>3 DEF Init, InstancesAgree
<1>7. OnlyNames /\ \A i \in 1..Len(references) : TextOK(references[i])
  BY <1>3 DEF Init, OnlyNames
<1> QED
  BY <1>2, <1>4, <1>5, <1>6, <1>7 DEF CiteInv, NotesInv

LEMMA EnterOK == CiteInv /\ Enter => CiteInv'
<1> SUFFICES ASSUME CiteInv, Enter PROVE CiteInv'
  OBVIOUS
<1> DEFINE e == Element(walks)
           list == e.kind = "references"
           group == IF list THEN e.group ELSE NoGroup
<1>1. AtElement(walks)
  BY DEF CiteInv, AtElement, Enter
<1>2. e \in Elements
  BY <1>1, ElementType
<1>3. e.body \in Texts
  BY ConstantsAssumption DEF Enter, Encloses, nested_body
<1>4. list \in BOOLEAN /\ group \in Groups \union {NoGroup}
  BY <1>2 DEF Elements
<1>5. walks' = Append(walks, Walk(Bodies[e.body], Place(walks), list, group, FALSE))
  BY Zenon DEF Enter
<1> HIDE DEF e, list, group
<1>6. StackOK(walks)'
  BY <1>1, <1>3, <1>4, <1>5, IntoText DEF e
<1>7. NotesInv'
  BY SameNotes DEF CiteInv, Enter
<1>8. RestOK'
  BY DEF CiteInv, RestOK, Enter, first, second
<1> QED
  BY <1>6, <1>7, <1>8 DEF CiteInv

LEMMA CollectUseOK == CiteInv /\ CollectUse => CiteInv'
<1> SUFFICES ASSUME CiteInv, CollectUse PROVE CiteInv'
  OBVIOUS
<1>1. PICK stk \in Collects("ref", FALSE) :
        LET r == Note(Element(stk), GroupIn(stk))
        IN /\ add_full(Element(stk), GroupIn(stk), Used(r, Element(stk)))
           /\ use_ids' = Append(use_ids, marker_id(r.name, r.global_id, Len(r.uses)))
           /\ collected' = Append(collected,
                  [place |-> Place(stk), note |-> r.global_id,
                   listed |-> \E n \in 1..Len(stk) : stk[n].embedded])
           /\ walks' = Passed(stk, <<>>)
           /\ UNCHANGED <<page, phase, cuts, second>>
  BY Zenon DEF CollectUse
<1> DEFINE r == Note(Element(stk), GroupIn(stk))
           use == marker_id(r.name, r.global_id, Len(r.uses))
           c == [place |-> Place(stk), note |-> r.global_id,
                 listed |-> \E n \in 1..Len(stk) : stk[n].embedded]
<1>2. AtElement(stk)
  BY DueOK DEF Collects, CiteInv
<1>3. Element(stk) \in Elements /\ Place(stk) \in Seq(Nat) /\ GroupIn(stk) \in Groups
  BY <1>2, ElementType, GroupType
<1>4. NotesInv'
  BY <1>1, <1>3, AddUse DEF CiteInv
<1>5. StackOK(walks)'
  BY <1>1, <1>2, Past
<1>6. c \in Collected
  <2>1. r \in References
    BY <1>3, NoteType DEF CiteInv
  <2> HIDE DEF r
  <2>2. r.global_id \in Nat
    BY <2>1 DEF References
  <2>3. (\E n \in 1..Len(stk) : stk[n].embedded) \in BOOLEAN
    OBVIOUS
  <2> QED
    BY <1>3, <2>2, <2>3 DEF Collected
<1>7. use_ids' = Append(use_ids, use) /\ collected' = Append(collected, c)
  BY <1>1
<1> HIDE DEF r, use, c
<1>8. /\ collected \in Seq(Collected) /\ IsSeq(use_ids)
      /\ Len(collected) = Len(use_ids) /\ next_use \in 0..Len(use_ids)
  BY DEF CiteInv, RestOK
<1>9. collected' \in Seq(Collected) /\ Len(collected') = Len(collected) + 1
  BY <1>6, <1>7, <1>8, AppendProperties
<1>10. IsSeq(use_ids') /\ Len(use_ids') = Len(use_ids) + 1 /\ Len(use_ids) \in Nat
  BY <1>7, <1>8, Pushed
<1>11. UNCHANGED <<page, phase, cuts, second>>
  BY <1>1
<1>12. RestOK'
  <2>1. next_use' = next_use /\ next_use' \in 0..Len(use_ids')
    BY <1>8, <1>10, <1>11 DEF second
  <2>2. IsSeq(use_ids)'
    BY <1>10 DEF IsSeq
  <2> QED
    BY <1>8, <1>9, <1>10, <1>11, <2>1, <2>2 DEF CiteInv, RestOK, second
<1> QED
  BY <1>4, <1>5, <1>12 DEF CiteInv

LEMMA AddEmbeddedOK == CiteInv /\ add_embedded => CiteInv'
<1> SUFFICES ASSUME CiteInv, add_embedded PROVE CiteInv'
  OBVIOUS
<1>1. PICK stk \in Collects("ref", TRUE) :
        /\ add_full(Element(stk), GroupIn(stk),
                    Defined(Note(Element(stk), GroupIn(stk)), Element(stk)))
        /\ walks' = Passed(stk, <<>>)
        /\ UNCHANGED <<page, phase, first, second>>
  BY Zenon DEF add_embedded
<1>2. AtElement(stk)
  BY DueOK DEF Collects, CiteInv
<1>3. Element(stk) \in Elements /\ GroupIn(stk) \in Groups
  BY <1>2, ElementType, GroupType
<1>4. NotesInv'
  BY <1>1, <1>3, AddDefinition DEF CiteInv
<1>5. StackOK(walks)'
  BY <1>1, <1>2, Past
<1>6. RestOK'
  BY <1>1 DEF CiteInv, RestOK, first, second
<1> QED
  BY <1>4, <1>5, <1>6 DEF CiteInv

LEMMA CutListOK == CiteInv /\ CutList => CiteInv'
<1> SUFFICES ASSUME CiteInv, CutList PROVE CiteInv'
  OBVIOUS
<1>1. PICK stk \in Collects("references", FALSE) :
        /\ cut_group(Element(stk).group)
        /\ walks' = Passed(stk, <<>>)
        /\ UNCHANGED <<page, phase, use_ids, collected, second>>
  BY Zenon DEF CutList
<1>2. AtElement(stk)
  BY DueOK DEF Collects, CiteInv
<1>3. Element(stk).group \in Groups
  BY <1>2, ElementType DEF Elements
<1>4. NotesInv'
  BY <1>1, <1>3, CutNotes DEF CiteInv
<1>5. StackOK(walks)'
  BY <1>1, <1>2, Past
<1> DEFINE x == Get(group_members, Element(stk).group, <<>>)
<1>6. x \in Seq(Nat)
  BY EmptySeq DEF Get, CiteInv, NotesInv, NotesType
<1>7. cuts' = Append(cuts, x)
  BY <1>1 DEF cut_group
<1> HIDE DEF x
<1>8. cuts' \in Seq(Seq(Nat))
  BY <1>6, <1>7, AppendProperties DEF CiteInv, RestOK
<1>9. RestOK'
  BY <1>1, <1>8 DEF CiteInv, RestOK, second
<1> QED
  BY <1>4, <1>5, <1>9 DEF CiteInv

LEMMA ListInListOK == CiteInv /\ ListInList => CiteInv'
<1> SUFFICES ASSUME CiteInv, ListInList PROVE CiteInv'
  OBVIOUS
<1>1. PICK stk \in Collects("references", TRUE) :
        /\ walks' = Passed(stk, <<>>)
        /\ UNCHANGED <<page, phase, state, first, second>>
  BY Zenon DEF ListInList
<1>2. AtElement(stk)
  BY DueOK DEF Collects, CiteInv
<1>3. StackOK(walks)'
  BY <1>1, <1>2, Past
<1>4. NotesInv'
  BY <1>1, SameNotes DEF CiteInv
<1>5. RestOK'
  BY <1>1 DEF CiteInv, RestOK, first, second
<1> QED
  BY <1>3, <1>4, <1>5 DEF CiteInv

LEMMA EndCollectOK == CiteInv /\ EndCollect => CiteInv'
<1> SUFFICES ASSUME CiteInv, EndCollect PROVE CiteInv'
  OBVIOUS
<1>1. StackOK(<<PageWalk>>)
  BY PageWalkOK DEF CiteInv, RestOK
<1>2. walks' = <<PageWalk>>
  BY DEF EndCollect
<1>3. StackOK(walks')
  BY <1>1, <1>2
<1>4. StackOK(walks)'
  BY <1>3 DEF StackOK
<1>5. NotesInv'
  BY SameNotes DEF CiteInv, EndCollect
<1>6. RestOK'
  BY DEF CiteInv, RestOK, first, second, EndCollect
<1> QED
  BY <1>4, <1>5, <1>6 DEF CiteInv

LEMMA EnterNoteOK == CiteInv /\ EnterNote => CiteInv'
<1> SUFFICES ASSUME CiteInv, EnterNote PROVE CiteInv'
  OBVIOUS
<1> DEFINE e == Element(walks)
           templated == Top(walks).templated \/ e.templated
<1>1. AtElement(walks)
  BY DEF CiteInv, AtElement, EnterNote
<1>2. e.body \in Texts
  BY ConstantsAssumption DEF EnterNote, nested_body
<1>3. templated \in BOOLEAN
  OBVIOUS
<1>4. walks' = Append(walks, Walk(Bodies[e.body], Place(walks), FALSE, NoGroup, templated))
  BY Zenon DEF EnterNote
<1>5. NoGroup \in Groups \union {NoGroup} /\ FALSE \in BOOLEAN
  OBVIOUS
<1> HIDE DEF e, templated
<1>6. StackOK(walks)'
  BY <1>1, <1>2, <1>3, <1>4, <1>5, IntoText DEF e
<1>7. NotesInv'
  BY SameNotes DEF CiteInv, EnterNote
<1>8. RestOK'
  BY DEF CiteInv, RestOK, EnterNote, first, second
<1> QED
  BY <1>6, <1>7, <1>8 DEF CiteInv

LEMMA RenderRefOK == CiteInv /\ RenderRef => CiteInv'
<1> SUFFICES ASSUME CiteInv, RenderRef PROVE CiteInv'
  OBVIOUS
<1>1. PICK stk \in Renders("ref") :
        /\ converted' = Converted(stk)
        /\ walks' = Passed(stk, <<ref_marker(Place(stk))>>)
        /\ next_use' = IF next_use = Len(use_ids) THEN next_use ELSE next_use + 1
        /\ UNCHANGED <<page, phase, state, first, cut_cursor, shown>>
  BY Zenon DEF RenderRef
<1>2. AtElement(stk) /\ (stk = walks \/ Element(stk).body \in Texts)
  BY DueOK DEF Renders, CiteInv
<1>3. StackOK(walks)'
  BY <1>1, <1>2, Past
<1>4. NotesInv'
  BY <1>1, SameNotes DEF CiteInv
<1>5. DOMAIN converted' \subseteq Texts
  BY <1>1, <1>2 DEF Converted, With, CiteInv, RestOK
<1>6. next_use' \in 0..Len(use_ids)
  <2>1. next_use \in 0..Len(use_ids) /\ Len(use_ids) \in Nat
    BY Pushed DEF CiteInv, RestOK
  <2> QED
    BY <1>1, <2>1
<1>7. RestOK'
  BY <1>1, <1>5, <1>6 DEF CiteInv, RestOK, first
<1> QED
  BY <1>3, <1>4, <1>7 DEF CiteInv

LEMMA RenderListOK == CiteInv /\ RenderList => CiteInv'
<1> SUFFICES ASSUME CiteInv, RenderList PROVE CiteInv'
  OBVIOUS
<1>1. PICK stk \in Renders("references") :
        LET e == Element(stk)
            members == Members(e.group)
            entries == [n \in 1..Len(members) |-> Entry(members[n])]
            dropped == members = <<>> /\ (Top(stk).templated \/ e.templated)
        IN /\ walks' = Passed(stk, IF dropped THEN <<>>
                                   ELSE <<List(Place(stk), e.group, entries)>>)
           /\ cut_cursor' = cut_cursor + 1
           /\ UNCHANGED <<page, phase, state, first, next_use, converted, shown>>
  BY Zenon DEF RenderList
<1>2. AtElement(stk)
  BY DueOK DEF Renders, CiteInv
<1>3. StackOK(walks)'
  BY <1>1, <1>2, Past
<1>4. NotesInv'
  BY <1>1, SameNotes DEF CiteInv
<1>5. cut_cursor' \in Nat
  BY <1>1 DEF CiteInv, RestOK
<1>6. RestOK'
  BY <1>1, <1>5 DEF CiteInv, RestOK, first
<1> QED
  BY <1>3, <1>4, <1>6 DEF CiteInv

LEMMA EndRenderOK == CiteInv /\ EndRender => CiteInv'
<1> SUFFICES ASSUME CiteInv, EndRender PROVE CiteInv'
  OBVIOUS
<1>1. StackOK(walks)'
  BY DEF CiteInv, StackOK, EndRender
<1>2. NotesInv'
  BY SameNotes DEF CiteInv, EndRender
<1>3. RestOK'
  BY DEF CiteInv, RestOK, first, EndRender
<1> QED
  BY <1>1, <1>2, <1>3 DEF CiteInv

\* The invariant holds of every page.
LEMMA CiteInvariant == Spec => []CiteInv
<1>1. CiteInv /\ [Next]_vars => CiteInv'
  <2> SUFFICES ASSUME CiteInv, [Next]_vars PROVE CiteInv'
    OBVIOUS
  <2>1. CASE Next
    BY <2>1, EnterOK, CollectUseOK, AddEmbeddedOK, CutListOK, ListInListOK,
       EndCollectOK, EnterNoteOK, RenderRefOK, RenderListOK, EndRenderOK DEF Next
  <2>2. CASE UNCHANGED vars
    <3>1. NotesInv'
      BY <2>2, SameNotes DEF CiteInv, vars
    <3>2. StackOK(walks)' /\ RestOK'
      BY <2>2 DEF CiteInv, StackOK, RestOK, vars, first, second
    <3> QED
      BY <3>1, <3>2 DEF CiteInv
  <2> QED
    BY <2>1, <2>2
<1> QED
  BY <1>1, InitOK, PTL DEF Spec

-----------------------------------------------------------------------------
(* The theorems. *)

\* Every part of the state of the two walks is of its kind, for all pages.
THEOREM TypeCorrect == Spec => []TypeOK
<1>1. CiteInv => TypeOK
  <2> SUFFICES ASSUME CiteInv PROVE TypeOK
    OBVIOUS
  <2>1. walks # <<>>
    BY DEF CiteInv, StackOK
  <2>2. /\ \A i \in 1..Len(walks) : WalkOK(walks[i])
        /\ \A i \in 1..(Len(walks) - 1) : ~AtEnd(walks[i])
    BY DEF CiteInv, StackOK
  <2> QED
    BY <2>1, <2>2 DEF CiteInv, NotesInv, NotesType, RestOK, TypeOK
<1> QED
  BY <1>1, CiteInvariant, PTL

\* The numbers of a group, the notes its next list will show and the names that
\* stand for them agree at every step (add_full, cut_group), for all pages.
THEOREM InstancesAlwaysAgree == Spec => []InstancesAgree
<1>1. CiteInv => InstancesAgree
  BY DEF CiteInv, NotesInv
<1> QED
  BY <1>1, CiteInvariant, PTL

\* The text of a use is the text of its note or is kept beside the use (Defined,
\* conflict_of), for all pages.
THEOREM TextsAlwaysKept == Spec => []TextsKept
<1>1. CiteInv => TextsKept
  <2> SUFFICES ASSUME CiteInv, NEW i \in 1..Len(references),
                      NEW u \in Range(references[i].uses), HasText(u)
               PROVE  \/ u.conflict
                      \/ u.body = references[i].body /\ ~references[i].self_closing
    BY DEF TextsKept
  <2>1. references[i] \in References /\ TextOK(references[i])
    BY ElementOfSeq DEF CiteInv, NotesInv, NotesType
  <2>2. references[i].uses \in Seq(Uses)
    BY <2>1 DEF References
  <2>3. PICK n \in 1..Len(references[i].uses) : u = references[i].uses[n]
    BY <2>2, LenProperties DEF Range
  <2> QED
    BY <2>1, <2>3 DEF TextOK
<1> QED
  BY <1>1, CiteInvariant, PTL

-----------------------------------------------------------------------------
(* Places.  A use is in the page, or in the text of a note that is on the   *)
(* way down to it.                                                          *)

IsRef(e) == e.kind = "ref"

\* The nodes among which each number of the place p counts.
Way(p, N) ==
    /\ p \in Seq(Nat) /\ Len(p) \in Nat \ {0}
    /\ N[1] = page
    /\ \A i \in 1..Len(p) : N[i] \in Seq(Elements) /\ p[i] \in 1..Len(N[i])
    /\ \A i \in 1..(Len(p) - 1) :
          nested_body(N[i][p[i]]) /\ N[i + 1] = Bodies[N[i][p[i]].body]
    /\ IsRef(N[Len(p)][p[Len(p)]])

IsUse(p) == \E N \in Seq(Seq(Elements)) : Way(p, N)

\* The walks are on the way of p up to its i-th number.
OnWay(p, stk, i) == \A j \in 1..(i - 1) : p[j] = stk[j].next

\* The walks have passed the use at p.
Before(p, stk) ==
    \E i \in 1..Len(p) : i \in 1..Len(stk) /\ OnWay(p, stk, i) /\ p[i] < stk[i].next

\* The use at q comes before the one at p: in its text, or before what is above
\* both.
Precedes(q, p) ==
    \E i \in 1..Len(q) :
        /\ \A j \in 1..(i - 1) : j \in 1..Len(p) /\ q[j] = p[j]
        /\ i \in 1..Len(p) => q[i] < p[i]

\* Every walk but the page's is of the text of the element that the walk around
\* it has come to, and is embedded just if that is no note.
Within(stk, i) ==
    LET e == stk[i].nodes[stk[i].next]
    IN stk[i + 1].nodes = Bodies[e.body] /\ (stk[i + 1].embedded <=> ~nested_body(e))

Chained(stk) ==
    /\ stk[1].nodes = page /\ ~stk[1].embedded
    /\ \A i \in 1..Len(stk) :
          Len(stk[i].place) = i - 1 /\ OnWay(stk[i].place, stk, i)
    /\ \A i \in 1..(Len(stk) - 1) : Within(stk, i)
    /\ \A p, N : Way(p, N) =>
          \A i \in 1..Len(p) : i \in 1..Len(stk) /\ OnWay(p, stk, i)
                                  => N[i] = stk[i].nodes

\* Passed leaves the walks below as they are, and the top one a step further.
LEMMA PassedFacts ==
  ASSUME NEW stk, AtElement(stk), NEW results, NEW s, s = Passed(stk, results)
  PROVE  /\ StackOK(s) /\ Len(s) = Len(stk) /\ Len(stk) \in Nat \ {0}
         /\ \A i \in 1..(Len(stk) - 1) : s[i] = stk[i]
         /\ s[Len(stk)].next = Top(stk).next + 1
         /\ s[Len(stk)].nodes = Top(stk).nodes /\ s[Len(stk)].place = Top(stk).place
         /\ s[Len(stk)].embedded = Top(stk).embedded
         /\ s[Len(stk)].out = Top(stk).out \o results
<1> DEFINE t == Top(stk)
           y == t.out \o results
           N == {t.next, t.next + 1}
           O == {t.out, y}
           v == [t EXCEPT !.next = t.next + 1, !.out = y]
           Keys(n, o) == [nodes : {t.nodes}, place : {t.place}, next : n,
                          embedded : {t.embedded}, refs_group : {t.refs_group},
                          templated : {t.templated}, out : o]
<1>1. AllKeys(t) /\ t.next \in Nat
  <2>1. AllKeys(t) /\ WalkOK(t) /\ Len(t.nodes) \in Nat
    BY ElementType, LenProperties DEF WalkOK
  <2> QED
    BY <2>1 DEF WalkOK
<1>2. Passed(stk, results) = Append(Below(stk), v)
  BY DEF Passed
<1> HIDE DEF t, y, N, O
<1>3. t \in Keys(N, O) /\ t.next + 1 \in N /\ y \in O
  BY <1>1 DEF AllKeys, N, O
<1>4. /\ v.nodes = t.nodes /\ v.place = t.place /\ v.next = t.next + 1
      /\ v.embedded = t.embedded /\ v.out = y
  BY <1>3
<1>5. /\ IsSeq(Below(stk)) /\ Len(Below(stk)) = Len(stk) - 1 /\ Len(stk) \in Nat \ {0}
      /\ \A i \in 1..(Len(stk) - 1) : Below(stk)[i] = stk[i]
  BY Popped DEF AtElement, StackOK
<1> HIDE DEF v
<1>6. /\ Len(Append(Below(stk), v)) = Len(stk)
      /\ Append(Below(stk), v)[Len(stk)] = v
      /\ \A i \in 1..(Len(stk) - 1) : Append(Below(stk), v)[i] = stk[i]
  BY <1>5, Pushed
<1>7. StackOK(s)
  BY PassedOK
<1> QED
  BY <1>2, <1>4, <1>5, <1>6, <1>7 DEF t, y

\* The numbers of the place that walks have come to are where each of them is.
LEMMA PlaceFacts ==
  ASSUME NEW stk, AtElement(stk), Chained(stk)
  PROVE  /\ Place(stk) \in Seq(Nat) /\ Len(Place(stk)) = Len(stk)
         /\ Len(stk) \in Nat \ {0}
         /\ \A j \in 1..Len(stk) : Place(stk)[j] = stk[j].next /\ stk[j].next \in Nat
<1> DEFINE m == Len(stk)
           w == stk[m]
<1>1. m \in Nat \ {0} /\ m \in 1..m
  BY DEF AtElement, StackOK
<1>2. w.place \in Seq(Nat)
  BY <1>1 DEF AtElement, StackOK, WalkOK
<1>3. \A j \in 1..m : stk[j].next \in Nat
  <2> SUFFICES ASSUME NEW j \in 1..m PROVE stk[j].next \in Nat
    OBVIOUS
  <2>1. WalkOK(stk[j])
    BY DEF AtElement, StackOK
  <2>2. Len(stk[j].nodes) \in Nat
    BY <2>1, LenProperties DEF WalkOK
  <2> QED
    BY <2>1, <2>2 DEF WalkOK
<1>4. Len(w.place) = m - 1 /\ \A j \in 1..(m - 1) : w.place[j] = stk[j].next
  BY <1>1 DEF Chained, OnWay
<1>5. Place(stk) = Append(w.place, w.next)
  BY DEF Place, Top
<1>6. w.next \in Nat
  BY <1>1, <1>3
<1> HIDE DEF w
<1>7. /\ Append(w.place, w.next) \in Seq(Nat)
      /\ Len(Append(w.place, w.next)) = m
      /\ Append(w.place, w.next)[m] = w.next
      /\ \A j \in 1..(m - 1) : Append(w.place, w.next)[j] = stk[j].next
  <2> DEFINE p == w.place
             n == w.next
  <2>1. p \in Seq(Nat) /\ n \in Nat /\ Len(p) = m - 1 /\ \A j \in 1..(m - 1) : p[j] = stk[j].next
    BY <1>2, <1>4, <1>6
  <2> HIDE DEF p, n, m
  <2>2. /\ Append(p, n) \in Seq(Nat) /\ Len(Append(p, n)) = Len(p) + 1
        /\ Append(p, n)[Len(p) + 1] = n
        /\ \A j \in 1..Len(p) : Append(p, n)[j] = p[j]
    BY <2>1, AppendProperties
  <2>3. Len(p) + 1 = m /\ m - 1 = Len(p)
    BY <1>1, <2>1
  <2> QED
    BY <2>1, <2>2, <2>3 DEF p, n
<1>8. \A j \in 1..m : j = m \/ j \in 1..(m - 1)
  BY <1>1
<1> QED
  BY <1>1, <1>3, <1>5, <1>7, <1>8 DEF w

\* What is due was passed by the walk in its text, or has no text to go into.
Through(stk) ==
    \/ stk = walks /\ ~AtEnd(Top(walks)) /\ ~nested_body(Element(walks))
    \/ stk = Below(walks) /\ Len(walks) > 1 /\ AtEnd(Top(walks))

LEMMA DueThrough ==
  ASSUME NEW stk, \/ stk \in Due(Encloses(Element(walks)))
                  \/ stk \in Due(nested_body(Element(walks)))
  PROVE  Through(stk)
  BY DEF Due, Encloses, Through

\* Walks around chained walks are chained.
LEMMA ChainedBelow ==
  ASSUME NEW stk, StackOK(stk), Len(stk) > 1, Chained(stk), NEW b, b = Below(stk)
  PROVE  /\ AtElement(b) /\ Chained(b) /\ Len(stk) = Len(b) + 1
         /\ Len(b) \in Nat \ {0} /\ \A i \in 1..Len(b) : b[i] = stk[i]
<1> DEFINE m == Len(b)
<1>1. AtElement(b)
  BY BelowOK
<1>2. /\ m \in Nat \ {0} /\ Len(stk) = m + 1
      /\ \A i \in 1..m : b[i] = stk[i]
  BY Popped, SMTT(30) DEF StackOK
<1> HIDE DEF m
<1>3. /\ \A i \in 1..m : i \in 1..Len(stk) /\ \A j \in 1..(i - 1) : j \in 1..m
      /\ \A i \in 1..(m - 1) : i \in 1..m /\ i + 1 \in 1..m /\ i \in 1..(Len(stk) - 1)
      /\ 1 \in 1..m
  BY <1>2
<1>4. b[1].nodes = page /\ ~b[1].embedded
  BY <1>2, <1>3 DEF Chained
<1>5. \A i \in 1..m : Len(b[i].place) = i - 1 /\ OnWay(b[i].place, b, i)
  BY <1>2, <1>3 DEF Chained, OnWay
<1>6. \A i \in 1..(m - 1) : Within(b, i)
  BY <1>2, <1>3 DEF Chained, Within
<1>7. ASSUME NEW p, NEW N, Way(p, N), NEW i \in 1..Len(p), i \in 1..m, OnWay(p, b, i)
      PROVE  N[i] = b[i].nodes
  <2>1. OnWay(p, stk, i)
    BY <1>2, <1>3, <1>7 DEF OnWay
  <2> QED
    BY <1>2, <1>3, <1>7, <2>1 DEF Chained
<1> QED
  BY <1>1, <1>2, <1>4, <1>5, <1>6, <1>7 DEF Chained, m

\* To pass an element leaves the walks chained.
LEMMA ChainedPassed ==
  ASSUME NEW stk, AtElement(stk), Chained(stk), NEW results, NEW s, s = Passed(stk, results)
  PROVE  Chained(s)
<1> DEFINE m == Len(stk)
<1>1. /\ Len(s) = m /\ m \in Nat \ {0}
      /\ \A i \in 1..(m - 1) : s[i] = stk[i]
      /\ s[m].nodes = stk[m].nodes /\ s[m].place = stk[m].place
      /\ s[m].embedded = stk[m].embedded
  BY PassedFacts DEF Top
<1> HIDE DEF m
<1>2. /\ \A i \in 1..m : i = m \/ i \in 1..(m - 1)
      /\ \A i \in 1..m : \A j \in 1..(i - 1) : j \in 1..(m - 1)
      /\ \A i \in 1..(m - 1) : i \in 1..m /\ i + 1 \in 1..m
      /\ 1 \in 1..m
  BY <1>1
<1>3. \A i \in 1..m : /\ s[i].nodes = stk[i].nodes /\ s[i].place = stk[i].place
                      /\ s[i].embedded = stk[i].embedded
  BY <1>1, <1>2
<1>4. \A p : \A i \in 1..m : OnWay(p, s, i) <=> OnWay(p, stk, i)
  BY <1>1, <1>2 DEF OnWay
<1>5. s[1].nodes = page /\ ~s[1].embedded
  BY <1>2, <1>3 DEF Chained
<1>6. \A i \in 1..m : Len(s[i].place) = i - 1 /\ OnWay(s[i].place, s, i)
  <2> SUFFICES ASSUME NEW i \in 1..m PROVE Len(s[i].place) = i - 1 /\ OnWay(s[i].place, s, i)
    OBVIOUS
  <2>1. Len(stk[i].place) = i - 1 /\ OnWay(stk[i].place, stk, i)
    BY DEF Chained, m
  <2> QED
    BY <1>3, <1>4, <2>1
<1>7. \A i \in 1..(m - 1) : Within(s, i)
  <2> SUFFICES ASSUME NEW i \in 1..(m - 1) PROVE Within(s, i)
    OBVIOUS
  <2>1. Within(stk, i) /\ i + 1 \in 1..m
    BY <1>2 DEF Chained, m
  <2> QED
    BY <1>1, <1>3, <2>1 DEF Within
<1>8. ASSUME NEW p, NEW N, Way(p, N), NEW i \in 1..Len(p), i \in 1..m, OnWay(p, s, i)
      PROVE  N[i] = s[i].nodes
  BY <1>3, <1>4, <1>8 DEF Chained, m
<1> QED
  BY <1>1, <1>5, <1>6, <1>7, <1>8 DEF Chained

\* So does to go into the text of an element, with a walk that is embedded just
\* if the element is no note.
LEMMA ChainedPush ==
  ASSUME NEW stk, AtElement(stk), Chained(stk), NEW w, NEW s, s = Append(stk, w),
         w.nodes = Bodies[Element(stk).body], w.place = Place(stk),
         w.embedded <=> ~nested_body(Element(stk))
  PROVE  Chained(s)
<1> DEFINE m == Len(stk)
<1>1. /\ Len(s) = m + 1 /\ m \in Nat \ {0} /\ s[m + 1] = w
      /\ \A i \in 1..m : s[i] = stk[i]
  BY Pushed DEF AtElement, StackOK
<1>2. /\ Len(Place(stk)) = m
      /\ \A j \in 1..m : Place(stk)[j] = stk[j].next
  BY PlaceFacts
<1>3. Element(stk) = stk[m].nodes[stk[m].next]
  BY DEF Element, Top
<1> HIDE DEF m
<1>4. /\ \A i \in 1..(m + 1) : i = m + 1 \/ i \in 1..m
      /\ \A i \in 1..(m + 1) : \A j \in 1..(i - 1) : j \in 1..m
      /\ \A i \in 1..m : i = m \/ i \in 1..(m - 1)
      /\ \A i \in 1..(m - 1) : i \in 1..m /\ i + 1 \in 1..m
      /\ 1 \in 1..m /\ m \in 1..m /\ m + 1 - 1 = m
  BY <1>1
<1>5. \A p : \A i \in 1..(m + 1) : OnWay(p, s, i) <=> OnWay(p, stk, i)
  BY <1>1, <1>4 DEF OnWay
<1>6. s[1].nodes = page /\ ~s[1].embedded
  BY <1>1, <1>4 DEF Chained
<1>7. \A i \in 1..(m + 1) : Len(s[i].place) = i - 1 /\ OnWay(s[i].place, s, i)
  <2> SUFFICES ASSUME NEW i \in 1..(m + 1) PROVE Len(s[i].place) = i - 1 /\ OnWay(s[i].place, s, i)
    OBVIOUS
  <2>1. CASE i \in 1..m
    <3>1. Len(stk[i].place) = i - 1 /\ OnWay(stk[i].place, stk, i)
      BY <2>1 DEF Chained, m
    <3> QED
      BY <1>1, <1>5, <2>1, <3>1
  <2>2. CASE i = m + 1
    <3>1. OnWay(Place(stk), stk, m + 1)
      BY <1>2, <1>4 DEF OnWay
    <3>2. m + 1 \in 1..(m + 1)
      BY <1>1
    <3> QED
      BY <1>1, <1>2, <1>4, <1>5, <2>2, <3>1, <3>2
  <2> QED
    BY <1>4, <2>1, <2>2
<1>8. \A i \in 1..m : Within(s, i)
  <2> SUFFICES ASSUME NEW i \in 1..m PROVE Within(s, i)
    OBVIOUS
  <2>1. CASE i \in 1..(m - 1)
    <3>1. Within(stk, i) /\ i + 1 \in 1..m
      BY <1>4, <2>1 DEF Chained, m
    <3> QED
      BY <1>1, <3>1, SMTT(30) DEF Within
  <2>2. CASE i = m
    BY <1>1, <1>3, <2>2 DEF Within
  <2> QED
    BY <1>4, <2>1, <2>2
<1>9. ASSUME NEW p, NEW N, Way(p, N), NEW i \in 1..Len(p), i \in 1..(m + 1), OnWay(p, s, i)
      PROVE  N[i] = s[i].nodes
  <2>1. CASE i \in 1..m
    <3>1. OnWay(p, stk, i)
      BY <1>5, <1>9
    <3>2. N[i] = stk[i].nodes
      BY <1>9, <2>1, <3>1 DEF Chained, m
    <3> QED
      BY <1>1, <2>1, <3>2
  <2>2. CASE i = m + 1
    <3>1. m \in 1..Len(p) /\ m \in 1..(Len(p) - 1) /\ Len(p) \in Nat
      BY <1>1, <1>9, <2>2 DEF Way
    <3>2. OnWay(p, stk, m) /\ p[m] = stk[m].next
      BY <1>1, <1>4, <1>9, <2>2 DEF OnWay
    <3>3. N[m] = stk[m].nodes
      <4>1. \A j \in 1..Len(p) : j \in 1..m /\ OnWay(p, stk, j) => N[j] = stk[j].nodes
        BY <1>9 DEF Chained, m
      <4>2. m \in 1..m
        BY <1>4
      <4> QED
        BY <3>1, <3>2, <4>1, <4>2
    <3>4. N[m + 1] = Bodies[N[m][p[m]].body]
      BY <1>9, <3>1 DEF Way
    <3> QED
      BY <1>1, <1>3, <2>2, <3>2, <3>3, <3>4
  <2> QED
    BY <1>4, <1>9, <2>1, <2>2
<1>10. Len(s) = m + 1 /\ Len(s) - 1 = m
  BY <1>1
<1> QED
  BY <1>6, <1>7, <1>8, <1>9, <1>10 DEF Chained

\* The page's walk is chained.
LEMMA ChainedFirst == Chained(<<PageWalk>>)
<1> DEFINE w == PageWalk
<1>1. w.nodes = page /\ w.place = <<>> /\ w.embedded = FALSE
  BY DEF PageWalk, Walk
<1> HIDE DEF w
<1>2. /\ <<w>>[1] = w /\ Len(<<w>>) = 1 /\ 1..1 = {1}
      /\ 1..(1 - 1) = {} /\ Len(<<>>) = 1 - 1
  BY EmptySeq
<1>3. \A p, N : Way(p, N) => N[1] = page
  BY DEF Way
<1>4. Chained(<<w>>)
  <2>1. \A p : OnWay(p, <<w>>, 1)
    BY <1>2 DEF OnWay
  <2> QED
    BY <1>1, <1>2, <1>3, <2>1 DEF Chained
<1> QED
  BY <1>4 DEF w

\* What the walks have come to is a use just if it is a <ref> that no list
\* encloses.
LEMMA PlaceIsUse ==
  ASSUME NEW stk, AtElement(stk), Chained(stk)
  PROVE  IsUse(Place(stk)) <=> /\ IsRef(Element(stk))
                               /\ \A i \in 1..Len(stk) : ~stk[i].embedded
<1> DEFINE m == Len(stk)
           p == Place(stk)
           e == Element(stk)
           nodes == [i \in 1..m |-> stk[i].nodes]
<1>1. /\ p \in Seq(Nat) /\ Len(p) = m /\ m \in Nat \ {0}
      /\ \A j \in 1..m : p[j] = stk[j].next
  BY PlaceFacts
<1>2. \A i \in 1..m : stk[i].nodes \in Seq(Elements) /\ stk[i].next \in 1..Len(stk[i].nodes)
  <2> SUFFICES ASSUME NEW i \in 1..m
               PROVE stk[i].nodes \in Seq(Elements) /\ stk[i].next \in 1..Len(stk[i].nodes)
    OBVIOUS
  <2>1. WalkOK(stk[i])
    BY DEF AtElement, StackOK
  <2>2. ~AtEnd(stk[i])
    <3>1. i = m \/ i \in 1..(m - 1)
      BY <1>1
    <3> QED
      BY <3>1 DEF AtElement, StackOK, Top
  <2>3. Len(stk[i].nodes) \in Nat
    BY <2>1, LenProperties DEF WalkOK
  <2> QED
    BY <2>1, <2>2, <2>3 DEF WalkOK, AtEnd
<1>3. e = stk[m].nodes[stk[m].next]
  BY DEF Element, Top
<1> HIDE DEF m, p, e
<1>4. /\ \A i \in 1..m : i = 1 \/ (i - 1 \in 1..(m - 1) /\ i - 1 + 1 = i)
      /\ 1 \in 1..m /\ m \in 1..m
      /\ \A i \in 1..(m - 1) : i \in 1..m /\ i + 1 \in 1..m
  BY <1>1
<1>5. ASSUME NEW N, Way(p, N) PROVE IsRef(e) /\ \A i \in 1..m : ~stk[i].embedded
  <2>1. \A i \in 1..m : OnWay(p, stk, i)
    BY <1>1 DEF OnWay
  <2>2. \A i \in 1..m : N[i] = stk[i].nodes
    <3>1. \A i \in 1..Len(p) : i \in 1..m /\ OnWay(p, stk, i) => N[i] = stk[i].nodes
      BY <1>5 DEF Chained, m
    <3> QED
      BY <1>1, <2>1, <3>1
  <2>3. IsRef(e)
    BY <1>1, <1>3, <1>4, <1>5, <2>2 DEF Way
  <2>4. ~stk[1].embedded
    BY DEF Chained
  <2>5. ASSUME NEW i \in 1..(m - 1) PROVE ~stk[i + 1].embedded
    <3>1. nested_body(stk[i].nodes[stk[i].next])
      BY <1>1, <1>4, <1>5, <2>2 DEF Way
    <3>2. Within(stk, i)
      BY DEF Chained, m
    <3> QED
      BY <3>1, <3>2 DEF Within
  <2> QED
    BY <1>4, <2>3, <2>4, <2>5
<1>6. ASSUME IsRef(e), \A i \in 1..m : ~stk[i].embedded PROVE IsUse(p)
  <2>1. nodes \in Seq(Seq(Elements))
    BY <1>1, <1>2
  <2>2. \A i \in 1..m : nodes[i] = stk[i].nodes
    OBVIOUS
  <2> HIDE DEF nodes
  <2>3. nodes[1] = page
    BY <1>4, <2>2 DEF Chained
  <2>4. \A i \in 1..m : nodes[i] \in Seq(Elements) /\ p[i] \in 1..Len(nodes[i])
    BY <1>1, <1>2, <2>2
  <2>5. ASSUME NEW i \in 1..(m - 1)
        PROVE nested_body(nodes[i][p[i]]) /\ nodes[i + 1] = Bodies[nodes[i][p[i]].body]
    <3>1. Within(stk, i) /\ ~stk[i + 1].embedded
      BY <1>4, <1>6 DEF Chained, m
    <3>2. nodes[i] = stk[i].nodes /\ nodes[i + 1] = stk[i + 1].nodes /\ p[i] = stk[i].next
      BY <1>1, <1>4, <2>2
    <3> QED
      BY <3>1, <3>2 DEF Within
  <2>6. IsRef(nodes[m][p[m]])
    BY <1>1, <1>3, <1>4, <1>6, <2>2
  <2>7. Way(p, nodes)
    BY <1>1, <2>3, <2>4, <2>5, <2>6 DEF Way
  <2> QED
    BY <2>1, <2>7 DEF IsUse
<1> QED
  BY <1>5, <1>6 DEF IsUse, m, p, e

\* Walks are inside what is due or at its place, and have passed what its text
\* holds.
LEMMA ThroughFacts ==
  ASSUME StackOK(walks), Chained(walks), NEW stk, Through(stk)
  PROVE  /\ AtElement(stk) /\ Chained(stk)
         /\ Len(walks) = Len(stk) \/ Len(walks) = Len(stk) + 1
         /\ \A j \in 1..Len(stk) : walks[j] = stk[j]
         /\ \A q : IsUse(q) /\ OnWay(q, stk, Len(stk) + 1) /\ Len(q) > Len(stk)
                      => /\ Len(walks) = Len(stk) + 1
                         /\ q[Len(stk) + 1] < walks[Len(stk) + 1].next
<1> DEFINE m == Len(stk)
<1>1. CASE stk = walks /\ ~AtEnd(Top(walks)) /\ ~nested_body(Element(walks))
  <2>1. AtElement(stk) /\ Chained(stk)
    BY <1>1 DEF AtElement
  <2>2. m \in Nat \ {0} /\ m + 1 - 1 = m
    BY <2>1 DEF AtElement, StackOK
  <2>3. ASSUME NEW q, NEW N, Way(q, N), OnWay(q, stk, m + 1), Len(q) > m PROVE FALSE
    <3>1. m \in 1..Len(q) /\ m \in 1..(Len(q) - 1)
      BY <2>2, <2>3 DEF Way
    <3>2. OnWay(q, stk, m) /\ q[m] = stk[m].next
      BY <2>2, <2>3 DEF OnWay
    <3>3. N[m] = stk[m].nodes
      <4>1. \A i \in 1..Len(q) : i \in 1..m /\ OnWay(q, stk, i) => N[i] = stk[i].nodes
        BY <2>1, <2>3 DEF Chained
      <4>2. m \in 1..m
        BY <2>2
      <4> QED
        BY <3>1, <3>2, <4>1, <4>2
    <3>4. nested_body(N[m][q[m]])
      BY <2>3, <3>1 DEF Way
    <3> QED
      BY <1>1, <3>2, <3>3, <3>4 DEF Element, Top
  <2> QED
    BY <1>1, <2>1, <2>3 DEF IsUse
<1>2. CASE stk = Below(walks) /\ Len(walks) > 1 /\ AtEnd(Top(walks))
  <2>1. /\ AtElement(stk) /\ Chained(stk) /\ Len(walks) = m + 1
        /\ m \in Nat \ {0} /\ \A i \in 1..m : stk[i] = walks[i]
    BY <1>2, ChainedBelow
  <2>2. ASSUME NEW q, NEW N, Way(q, N), OnWay(q, stk, m + 1), Len(q) > m
        PROVE q[m + 1] < walks[m + 1].next
    <3>1. m + 1 \in 1..Len(q) /\ m + 1 \in 1..(m + 1)
      BY <2>1, <2>2 DEF Way
    <3>2. OnWay(q, walks, m + 1)
      BY <2>1, <2>2 DEF OnWay
    <3>3. N[m + 1] = walks[m + 1].nodes
      <4>1. \A i \in 1..Len(q) : i \in 1..Len(walks) /\ OnWay(q, walks, i) => N[i] = walks[i].nodes
        BY <2>2 DEF Chained
      <4> QED
        BY <2>1, <3>1, <3>2, <4>1
    <3>4. q[m + 1] \in 1..Len(N[m + 1])
      BY <2>2, <3>1 DEF Way
    <3>5. walks[m + 1].next > Len(walks[m + 1].nodes)
      BY <1>2, <2>1 DEF AtEnd, Top
    <3>6. walks[m + 1].next \in Nat /\ Len(walks[m + 1].nodes) \in Nat
      <4>1. WalkOK(walks[m + 1])
        BY <2>1, <3>1 DEF StackOK
      <4>2. Len(walks[m + 1].nodes) \in Nat
        BY <4>1, LenProperties DEF WalkOK
      <4> QED
        BY <4>1, <4>2 DEF WalkOK
    <3> DEFINE l == Len(walks[m + 1].nodes)
               n == walks[m + 1].next
               x == q[m + 1]
    <3>7. x \in 1..l /\ n > l /\ n \in Nat /\ l \in Nat
      BY <3>3, <3>4, <3>5, <3>6
    <3> HIDE DEF l, n, x
    <3>8. x < n
      BY <3>7
    <3> QED
      BY <3>8 DEF x, n
  <2> QED
    BY <2>1, <2>2 DEF IsUse
<1> QED
  BY <1>1, <1>2 DEF Through

\* A use has a place.
LEMMA UsePlace ==
  ASSUME NEW q, IsUse(q)
  PROVE  Len(q) \in Nat \ {0} /\ \A i \in 1..Len(q) : q[i] \in Nat \ {0}
<1>1. PICK N \in Seq(Seq(Elements)) : Way(q, N)
  BY DEF IsUse
<1>2. q \in Seq(Nat) /\ Len(q) \in Nat \ {0}
  BY <1>1 DEF Way
<1>3. \A i \in 1..Len(q) : q[i] \in 1..Len(N[i])
  BY <1>1 DEF Way
<1>4. \A i \in 1..Len(q) : N[i] \in Seq(Elements) /\ Len(N[i]) \in Nat
  BY <1>1, LenProperties DEF Way
<1> QED
  BY <1>2, <1>3, <1>4

\* The uses that the walks have passed are those before the place of what is
\* due: to pass it adds its own.
LEMMA InOrder ==
  ASSUME StackOK(walks), Chained(walks), NEW stk, Through(stk),
         NEW results, NEW s, s = Passed(stk, results), NEW q, IsUse(q)
  PROVE  /\ Before(q, s) <=> Before(q, walks) \/ q = Place(stk)
         /\ Before(q, walks) <=> Precedes(q, Place(stk))
<1> DEFINE m == Len(stk)
           p == Place(stk)
<1>1. /\ AtElement(stk) /\ Chained(stk)
      /\ Len(walks) = m \/ Len(walks) = m + 1
      /\ \A j \in 1..m : walks[j] = stk[j]
      /\ OnWay(q, stk, m + 1) /\ Len(q) > m
                => Len(walks) = m + 1 /\ q[m + 1] < walks[m + 1].next
  BY ThroughFacts
<1>2. /\ p \in Seq(Nat) /\ Len(p) = m /\ m \in Nat \ {0}
      /\ \A j \in 1..m : p[j] = stk[j].next /\ p[j] \in Nat
  BY <1>1, PlaceFacts
<1>3. /\ Len(s) = m /\ \A j \in 1..(m - 1) : s[j].next = p[j]
      /\ s[m].next = p[m] + 1
  <2>1. /\ Len(s) = m /\ \A j \in 1..(m - 1) : s[j] = stk[j]
        /\ s[m].next = stk[m].next + 1
    BY <1>1, PassedFacts DEF Top
  <2> HIDE DEF p, m
  <2> QED
    BY <1>2, <2>1, SMTT(30)
<1>4. Len(q) \in Nat \ {0} /\ \A i \in 1..Len(q) : q[i] \in Nat
  BY UsePlace
<1> DEFINE Agree(i) == \A j \in 1..(i - 1) : q[j] = p[j]
<1> HIDE DEF p, m
<1>5. \A i \in 1..(m + 1) : OnWay(q, walks, i) <=> Agree(i)
  BY <1>1, <1>2, SMTT(30) DEF OnWay
<1>6. \A i \in 1..(m + 1) : OnWay(q, stk, i) <=> Agree(i)
  BY <1>2 DEF OnWay
<1>7. \A i \in 1..m : OnWay(q, s, i) <=> Agree(i)
  BY <1>2, <1>3 DEF OnWay
<1>8. Agree(m + 1) /\ Len(q) > m => Len(walks) = m + 1 /\ q[m + 1] < walks[m + 1].next
  BY <1>1, <1>2, <1>6
<1>9. Before(q, walks) <=>
          \/ \E i \in 1..Len(q) : i \in 1..m /\ Agree(i) /\ q[i] < p[i]
          \/ Agree(m + 1) /\ Len(q) > m
  <2>1. ASSUME NEW i \in 1..Len(q), i \in 1..Len(walks), OnWay(q, walks, i), q[i] < walks[i].next
        PROVE \/ i \in 1..m /\ Agree(i) /\ q[i] < p[i]
              \/ Agree(m + 1) /\ Len(q) > m
    <3>1. i \in 1..m \/ i = m + 1
      BY <1>1, <1>2, <2>1
    <3> HIDE DEF Agree
    <3>2. i \in 1..(m + 1) /\ Agree(i)
      BY <1>2, <1>5, <2>1, <3>1
    <3>3. CASE i \in 1..m
      <4>1. walks[i].next = p[i]
        BY <1>1, <1>2, <3>3
      <4> QED
        BY <2>1, <3>2, <3>3, <4>1
    <3>4. CASE i = m + 1
      <4>1. Len(q) > m
        BY <1>2, <1>4, <2>1, <3>4
      <4> QED
        BY <3>2, <3>4, <4>1
    <3> QED
      BY <3>1, <3>3, <3>4
  <2>2. ASSUME NEW i \in 1..Len(q), i \in 1..m, Agree(i), q[i] < p[i]
        PROVE i \in 1..Len(walks) /\ OnWay(q, walks, i) /\ q[i] < walks[i].next
    <3>1. i \in 1..Len(walks) /\ i \in 1..(m + 1)
      BY <1>1, <1>2, <2>2
    <3> HIDE DEF Agree
    <3> QED
      BY <1>1, <1>2, <1>5, <2>2, <3>1
  <2>3. ASSUME Agree(m + 1), Len(q) > m
        PROVE /\ m + 1 \in 1..Len(q) /\ m + 1 \in 1..Len(walks) /\ OnWay(q, walks, m + 1)
              /\ q[m + 1] < walks[m + 1].next
    <3>1. m + 1 \in 1..Len(q) /\ m + 1 \in 1..(m + 1)
      BY <1>2, <1>4, <2>3
    <3> HIDE DEF Agree
    <3> QED
      BY <1>5, <1>8, <2>3, <3>1
  <2> HIDE DEF Agree
  <2> QED
    BY <2>1, <2>2, <2>3 DEF Before
<1>10. Before(q, s) <=> \E i \in 1..Len(q) : i \in 1..m /\ Agree(i) /\ q[i] < s[i].next
  <2> HIDE DEF Agree
  <2> QED
    BY <1>3, <1>7 DEF Before
<1>11. Precedes(q, p) <=>
          \/ \E i \in 1..Len(q) : i \in 1..m /\ Agree(i) /\ q[i] < p[i]
          \/ Agree(m + 1) /\ Len(q) > m
  <2>1. ASSUME NEW i \in 1..Len(q), \A j \in 1..(i - 1) : j \in 1..Len(p) /\ q[j] = p[j],
               i \in 1..Len(p) => q[i] < p[i]
        PROVE \/ i \in 1..m /\ Agree(i) /\ q[i] < p[i]
              \/ Agree(m + 1) /\ Len(q) > m
    <3>1. CASE i \in 1..m
      BY <1>2, <2>1, <3>1
    <3>2. CASE i \notin 1..m
      <4>1. i > m
        BY <1>2, <1>4, <3>2
      <4> QED
        BY <1>2, <1>4, <2>1, <4>1
    <3> QED
      BY <3>1, <3>2
  <2>2. ASSUME NEW i \in 1..Len(q), i \in 1..m, Agree(i), q[i] < p[i]
        PROVE Precedes(q, p)
    BY <1>2, <2>2 DEF Precedes
  <2>3. ASSUME Agree(m + 1), Len(q) > m
        PROVE Precedes(q, p)
    <3>1. m + 1 \in 1..Len(q) /\ m + 1 \notin 1..Len(p)
      BY <1>2, <1>4, <2>3
    <3>2. \A j \in 1..(m + 1 - 1) : j \in 1..Len(p) /\ q[j] = p[j]
      BY <1>2, <2>3
    <3> DEFINE i == m + 1
    <3>3. /\ i \in 1..Len(q) /\ i \notin 1..Len(p)
          /\ \A j \in 1..(i - 1) : j \in 1..Len(p) /\ q[j] = p[j]
      BY <1>2, <3>1, <3>2
    <3> HIDE DEF i
    <3>4. i \in 1..Len(p) => q[i] < p[i]
      BY <3>3
    <3> QED
      BY <3>3, <3>4, Zenon DEF Precedes
  <2> HIDE DEF Agree
  <2> QED
    BY <2>1, <2>2, <2>3 DEF Precedes
<1>12. q = p <=> Len(q) = m /\ Agree(m + 1)
  <2>1. q \in Seq(Nat)
    BY DEF IsUse, Way
  <2>2. p \in Seq(Nat) /\ Len(p) = m /\ m + 1 - 1 = m
    BY <1>2
  <2> HIDE DEF p, m
  <2>3. ASSUME q = p PROVE Len(q) = m /\ Agree(m + 1)
    BY <2>2, <2>3
  <2>4. ASSUME Len(q) = m, Agree(m + 1) PROVE q = p
    <3>1. \A j \in 1..m : q[j] = p[j]
      BY <2>2, <2>4
    <3> QED
      BY <2>1, <2>2, <2>4, <3>1, SeqEqual
  <2> QED
    BY <2>3, <2>4
<1>13. (\E i \in 1..Len(q) : i \in 1..m /\ Agree(i) /\ q[i] < s[i].next) <=>
          \/ \E i \in 1..Len(q) : i \in 1..m /\ Agree(i) /\ q[i] < p[i]
          \/ Agree(m + 1) /\ Len(q) > m
          \/ Len(q) = m /\ Agree(m + 1)
  <2>1. ASSUME NEW i \in 1..Len(q), i \in 1..m, Agree(i), q[i] < s[i].next
        PROVE \/ q[i] < p[i]
              \/ Agree(m + 1) /\ Len(q) > m
              \/ Len(q) = m /\ Agree(m + 1)
    <3>1. CASE i \in 1..(m - 1)
      BY <1>3, <2>1, <3>1
    <3>2. CASE i = m
      <4>1. q[m] < p[m] \/ q[m] = p[m]
        BY <1>2, <1>3, <1>4, <2>1, <3>2
      <4>2. Agree(m) /\ q[m] = p[m] => Agree(m + 1)
        BY <1>2
      <4>3. Len(q) > m \/ Len(q) = m
        BY <1>2, <1>4, <2>1, <3>2
      <4> HIDE DEF Agree
      <4> QED
        BY <2>1, <3>2, <4>1, <4>2, <4>3
    <3>3. i \in 1..(m - 1) \/ i = m
      BY <1>2, <2>1
    <3> QED
      BY <3>1, <3>2, <3>3
  <2>2. ASSUME NEW i \in 1..Len(q), i \in 1..m, q[i] < p[i]
        PROVE q[i] < s[i].next
    <3>1. i \in 1..(m - 1) \/ i = m
      BY <1>2, <2>2
    <3> QED
      BY <1>2, <1>3, <1>4, <2>2, <3>1
  <2>3. ASSUME Agree(m + 1), Len(q) > m \/ Len(q) = m
        PROVE m \in 1..Len(q) /\ m \in 1..m /\ Agree(m) /\ q[m] < s[m].next
    BY <1>2, <1>3, <1>4, <2>3
  <2> HIDE DEF Agree
  <2> QED
    BY <2>1, <2>2, <2>3
<1> HIDE DEF Agree
<1>14. /\ Before(q, s) <=> Before(q, walks) \/ q = p
       /\ Before(q, walks) <=> Precedes(q, p)
  BY <1>9, <1>10, <1>11, <1>12, <1>13
<1> QED
  BY <1>14 DEF p

\* No use comes before itself.
LEMMA NotItself == ASSUME NEW p, IsUse(p) PROVE ~Precedes(p, p)
<1>1. Len(p) \in Nat \ {0} /\ \A i \in 1..Len(p) : p[i] \in Nat
  BY UsePlace
<1> QED
  BY <1>1 DEF Precedes

\* To go into a text passes nothing.
LEMMA NothingPassed ==
  ASSUME AtElement(walks), NEW w, w.next = 1, NEW s, s = Append(walks, w), NEW q, IsUse(q)
  PROVE  Before(q, s) <=> Before(q, walks)
<1> DEFINE m == Len(walks)
<1>1. /\ Len(s) = m + 1 /\ m \in Nat \ {0} /\ s[m + 1] = w
      /\ \A i \in 1..m : s[i] = walks[i]
  BY Pushed DEF AtElement, StackOK
<1>2. Len(q) \in Nat \ {0} /\ \A i \in 1..Len(q) : q[i] \in Nat \ {0}
  BY UsePlace
<1> HIDE DEF m
<1>3. \A i \in 1..m : OnWay(q, s, i) <=> OnWay(q, walks, i)
  BY <1>1 DEF OnWay
<1>4. ASSUME NEW i \in 1..Len(q), i \in 1..(m + 1), q[i] < s[i].next PROVE i \in 1..m
  <2>1. ASSUME i = m + 1 PROVE FALSE
    <3>1. q[i] < 1
      BY <1>1, <1>4, <2>1
    <3> QED
      BY <1>2, <3>1
  <2> QED
    BY <1>1, <1>4, <2>1
<1>5. \A i \in 1..m : i \in 1..(m + 1) /\ s[i].next = walks[i].next
  BY <1>1
<1> QED
  BY <1>1, <1>3, <1>4, <1>5 DEF Before, m

\* A walk that begins has passed no use, one that is through all of them.
LEMMA FirstBefore == ASSUME NEW q, IsUse(q) PROVE ~Before(q, <<PageWalk>>)
<1> DEFINE w == PageWalk
<1>1. w.next = 1
  BY DEF PageWalk, Walk
<1>2. Len(q) \in Nat \ {0} /\ \A i \in 1..Len(q) : q[i] \in Nat \ {0}
  BY UsePlace
<1> HIDE DEF w
<1>3. Len(<<w>>) = 1 /\ <<w>>[1] = w /\ 1..1 = {1}
  OBVIOUS
<1>4. ~Before(q, <<w>>)
  BY <1>1, <1>2, <1>3 DEF Before
<1> QED
  BY <1>4 DEF w

LEMMA LastBefore ==
  ASSUME StackOK(walks), Chained(walks), Len(walks) = 1, AtEnd(Top(walks)),
         NEW q, IsUse(q)
  PROVE  Before(q, walks)
<1>1. PICK N \in Seq(Seq(Elements)) : Way(q, N)
  BY DEF IsUse
<1>2. 1 \in 1..Len(q) /\ N[1] = page /\ q[1] \in 1..Len(N[1])
  BY <1>1 DEF Way
<1>3. walks[1].nodes = page /\ walks[1].next > Len(walks[1].nodes)
  BY DEF Chained, AtEnd, Top
<1>4. walks[1].next \in Nat /\ Len(page) \in Nat
  <2>1. WalkOK(walks[1])
    BY DEF StackOK
  <2>2. Len(walks[1].nodes) \in Nat
    BY <2>1, LenProperties DEF WalkOK
  <2> QED
    BY <1>3, <2>1, <2>2 DEF WalkOK
<1>5. q[1] < walks[1].next
  <2> DEFINE x == q[1]
             n == walks[1].next
             l == Len(page)
  <2>1. x \in 1..l /\ n > l /\ n \in Nat /\ l \in Nat
    BY <1>2, <1>3, <1>4
  <2> HIDE DEF x, n, l
  <2>2. x < n
    BY <2>1
  <2> QED
    BY <2>2 DEF x, n
<1>6. OnWay(q, walks, 1)
  BY DEF OnWay
<1> QED
  BY <1>2, <1>5, <1>6 DEF Before

-----------------------------------------------------------------------------
(* Uses of notes.                                                           *)

\* Each use is kept with the note whose number its id has.
UsesInv ==
    /\ \A i \in 1..Len(references) :
          \A n \in 1..Len(references[i].uses) : references[i].uses[n].id.number = i
    /\ \A k \in 1..Len(collected) :
          /\ collected[k].note \in 1..Len(references)
          /\ \E n \in 1..Len(references[collected[k].note].uses) :
                references[collected[k].note].uses[n].id = use_ids[k]

\* What is used keeps its uses, and has one more.
LEMMA UsedUses ==
  ASSUME NEW r \in References, NEW e \in Elements
  PROVE  /\ r.uses \in Seq(Uses)
         /\ Len(Used(r, e).uses) = Len(r.uses) + 1 /\ Len(r.uses) \in Nat
         /\ \A n \in 1..Len(r.uses) : Used(r, e).uses[n] = r.uses[n]
         /\ Used(r, e).uses[Len(r.uses) + 1].id = marker_id(r.name, r.global_id, Len(r.uses))
<1> DEFINE d == Defined(r, e)
           u == [id |-> marker_id(r.name, r.global_id, Len(r.uses)),
                 body |-> e.body, conflict |-> conflict_of(r, e)]
           s == Append(d.uses, u)
           v == [d EXCEPT !.uses = s]
<1>1. d.uses = r.uses /\ v.uses = s
  <2>1. CASE HasText(e) /\ ~r.defined
    <3> DEFINE x == [r EXCEPT !.body = e.body, !.defined = TRUE, !.self_closing = FALSE]
    <3>1. d = x
      BY <2>1 DEF Defined
    <3>2. e.body \in Texts
      BY <2>1 DEF HasText, Elements
    <3>3. x \in References /\ x.uses = r.uses
      BY <3>2 DEF References
    <3> HIDE DEF d, s, x
    <3>4. d \in References
      BY <3>1, <3>3
    <3>5. v.uses = s
      BY <3>4 DEF References
    <3> QED
      BY <3>1, <3>3, <3>5
  <2>2. CASE ~(HasText(e) /\ ~r.defined)
    <3>1. d = r
      BY <2>2 DEF Defined
    <3> HIDE DEF s, d
    <3>2. v.uses = s
      BY <3>1 DEF References
    <3> QED
      BY <3>1, <3>2
  <2> QED
    BY <2>1, <2>2
<1>2. r.uses \in Seq(Uses) /\ Len(r.uses) \in Nat
  <2>1. r.uses \in Seq(Uses)
    BY DEF References
  <2> QED
    BY <2>1, LenProperties
<1>3. u.id = marker_id(r.name, r.global_id, Len(r.uses))
  OBVIOUS
<1>4. Used(r, e) = v
  BY DEF Used
<1> HIDE DEF u, d, v
<1>5. s = Append(r.uses, u)
  BY <1>1
<1> HIDE DEF s
<1> DEFINE z == r.uses
<1>6. IsSeq(z)
  BY <1>2, OfItsOwn
<1>7. s = Append(z, u) /\ Len(z) \in Nat
  BY <1>2, <1>5
<1> HIDE DEF z
<1>8. /\ Len(s) = Len(z) + 1 /\ s[Len(z) + 1] = u
      /\ \A n \in 1..Len(z) : s[n] = z[n]
  BY <1>6, <1>7, Pushed
<1>9. Used(r, e).uses = s
  BY <1>1, <1>4
<1> QED
  BY <1>2, <1>3, <1>8, <1>9 DEF z

\* The number of the note an element is about, and what it had of uses.
LEMMA NoteNumber ==
  ASSUME NotesInv, UsesInv, NEW e \in Elements, NEW g \in Groups
  PROVE  /\ Note(e, g).global_id = NoteIndex(e, g)
         /\ \A n \in 1..Len(Note(e, g).uses) : Note(e, g).uses[n].id.number = NoteIndex(e, g)
<1> DEFINE i == NoteIndex(e, g)
           L == Len(references)
<1>1. L \in Nat /\ next_global = L /\ \A j \in 1..L : references[j].global_id = j
  BY LenProperties DEF NotesInv, NotesType, InstancesAgree
<1>2. i \in 1..(L + 1)
  BY NoteType
<1>3. CASE i \in 1..L
  <2>1. Note(e, g) = references[i]
    BY <1>3 DEF Note
  <2> HIDE DEF i
  <2> QED
    BY <1>1, <1>3, <2>1 DEF UsesInv, i
<1>4. CASE i = L + 1
  <2>1. Note(e, g) = Reference(trim[e.name], g, Get(next_number, g, 1),
                               next_global + 1, e.body = NoBody)
    BY <1>1, <1>4 DEF Note
  <2>2. Note(e, g).global_id = next_global + 1 /\ Note(e, g).uses = <<>>
    BY <2>1 DEF Reference
  <2>3. Len(<<>>) = 0
    BY EmptySeq
  <2> HIDE DEF i
  <2> QED
    BY <1>1, <1>4, <2>2, <2>3 DEF i
<1>5. i \in 1..L \/ i = L + 1
  BY <1>1, <1>2
<1> QED
  BY <1>3, <1>4, <1>5

\* What add_full does to the notes.
LEMMA AddFacts ==
  ASSUME NotesInv, NEW e \in Elements, NEW g \in Groups, NEW r \in References,
         add_full(e, g, r)
  PROVE  LET i == NoteIndex(e, g) IN
         /\ i \in 1..Len(references')
         /\ Len(references') = Len(references) \/ Len(references') = Len(references) + 1
         /\ i \in 1..Len(references) \/ i = Len(references) + 1
         /\ i \in 1..Len(references) => Len(references') = Len(references)
         /\ references'[i] = r
         /\ \A j \in 1..Len(references') : j # i => /\ j \in 1..Len(references)
                                                   /\ references'[j] = references[j]
<1> DEFINE i == NoteIndex(e, g)
           L == Len(references)
<1>1. L \in Nat /\ references \in Seq(References)
  BY LenProperties DEF NotesInv, NotesType
<1>2. \/ i \in 1..L /\ references' = [references EXCEPT ![i] = r]
      \/ i = L + 1 /\ references' = Append(references, r)
  BY ZenonT(40) DEF add_full
<1> HIDE DEF i
<1>3. CASE i \in 1..L /\ references' = [references EXCEPT ![i] = r]
  <2>1. /\ Len(references') = L
        /\ \A j \in 1..L : references'[j] = IF j = i THEN r ELSE references[j]
    BY <1>1, <1>3, ExceptSeq
  <2> QED
    BY <1>3, <2>1 DEF i
<1>4. CASE i = L + 1 /\ references' = Append(references, r)
  <2>1. /\ Len(references') = L + 1 /\ references'[L + 1] = r
        /\ \A j \in 1..L : references'[j] = references[j]
    BY <1>1, <1>4, AppendProperties
  <2>2. \A j \in 1..(L + 1) : j # i => j \in 1..L
    BY <1>1, <1>4
  <2>3. i \in 1..(L + 1) /\ i \notin 1..L
    BY <1>1, <1>4
  <2> HIDE DEF L
  <2>4. /\ i \in 1..Len(references') /\ references'[i] = r
        /\ \A j \in 1..Len(references') : j # i => j \in 1..L /\ references'[j] = references[j]
    BY <1>4, <2>1, <2>2, <2>3, SMTT(30)
  <2> QED
    BY <1>4, <2>1, <2>3, <2>4 DEF i, L
<1> QED
  BY <1>2, <1>3, <1>4

\* A use that is collected is kept with its note.
LEMMA UsesAfterUse ==
  ASSUME CiteInv, UsesInv, NEW e \in Elements, NEW g \in Groups,
         add_full(e, g, Used(Note(e, g), e)), NEW c, c.note = Note(e, g).global_id,
         collected' = Append(collected, c),
         use_ids' = Append(use_ids, marker_id(Note(e, g).name, Note(e, g).global_id,
                                              Len(Note(e, g).uses)))
  PROVE  UsesInv'
<1> DEFINE i == NoteIndex(e, g)
           old == Note(e, g)
           new == Used(old, e)
           id == marker_id(old.name, old.global_id, Len(old.uses))
           m == Len(old.uses)
           K == Len(collected)
<1>1. old \in References /\ new \in References
  BY NoteType, UsedType DEF CiteInv
<1>2. old.global_id = i /\ \A n \in 1..m : old.uses[n].id.number = i
  BY NoteNumber DEF CiteInv
<1>3. /\ Len(new.uses) = m + 1 /\ m \in Nat
      /\ \A n \in 1..m : new.uses[n] = old.uses[n]
      /\ new.uses[m + 1].id = id
  BY <1>1, UsedUses
<1>4. /\ i \in 1..Len(references')
      /\ Len(references') = Len(references) \/ Len(references') = Len(references) + 1
      /\ references'[i] = new
      /\ \A j \in 1..Len(references') : j # i => /\ j \in 1..Len(references)
                                                /\ references'[j] = references[j]
  BY <1>1, AddFacts DEF CiteInv
<1>5. i \in 1..Len(references) => references[i] = old
  BY DEF Note
<1>6. id.number = i
  BY <1>2 DEF marker_id
<1>7. collected \in Seq(Collected) /\ IsSeq(use_ids) /\ K = Len(use_ids) /\ K \in Nat
  <2>1. collected \in Seq(Collected) /\ Len(collected) \in Nat
    BY LenProperties DEF CiteInv, RestOK
  <2> QED
    BY <2>1 DEF CiteInv, RestOK
<1>8. /\ Len(collected') = K + 1 /\ collected'[K + 1] = c
      /\ \A k \in 1..K : collected'[k] = collected[k]
  <2>1. IsSeq(collected)
    BY <1>7, OfItsOwn
  <2> QED
    BY <2>1, Pushed
<1>9. /\ use_ids'[K + 1] = id
      /\ \A k \in 1..K : use_ids'[k] = use_ids[k]
  BY <1>7, Pushed
<1>10. c.note = i
  BY <1>2
<1>11. Len(references) \in Nat
  BY LenProperties DEF CiteInv, NotesInv, NotesType
<1> HIDE DEF i, old, new, id, m, K
<1>12. ASSUME NEW j \in 1..Len(references'), NEW n \in 1..Len(references'[j].uses)
       PROVE references'[j].uses[n].id.number = j
  <2>1. CASE j # i
    <3>1. j \in 1..Len(references) /\ references'[j] = references[j]
      BY <1>4, <2>1
    <3> QED
      BY <3>1, <1>12 DEF UsesInv
  <2>2. CASE j = i
    <3>1. n \in 1..(m + 1) /\ references'[j] = new
      BY <1>3, <1>4, <1>12, <2>2
    <3>2. n \in 1..m \/ n = m + 1
      BY <1>3, <3>1
    <3>3. new.uses[n].id.number = i
      BY <1>2, <1>3, <1>6, <3>2 DEF m
    <3> QED
      BY <2>2, <3>1, <3>3
  <2> QED
    BY <2>1, <2>2
<1>13. ASSUME NEW k \in 1..Len(collected')
       PROVE /\ collected'[k].note \in 1..Len(references')
             /\ \E n \in 1..Len(references'[collected'[k].note].uses) :
                    references'[collected'[k].note].uses[n].id = use_ids'[k]
  <2>1. CASE k = K + 1
    <3>1. collected'[k].note = i /\ use_ids'[k] = id
      BY <1>8, <1>9, <1>10, <2>1
    <3>2. m + 1 \in 1..Len(new.uses)
      BY <1>3, SMTT(30)
    <3> QED
      BY <1>3, <1>4, <3>1, <3>2
  <2>2. CASE k \in 1..K
    <3> DEFINE x == collected[k].note
    <3>1. collected'[k].note = x /\ use_ids'[k] = use_ids[k]
      BY <1>8, <1>9, <2>2
    <3>2. /\ x \in 1..Len(references)
          /\ \E n \in 1..Len(references[x].uses) : references[x].uses[n].id = use_ids[k]
      BY <2>2 DEF UsesInv, K
    <3> HIDE DEF x
    <3>3. x \in 1..Len(references')
      BY <1>4, <1>11, <3>2
    <3>4. CASE x # i
      BY <1>4, <3>1, <3>2, <3>3, <3>4
    <3>5. CASE x = i
      <4>1. references[x] = old
        BY <1>5, <3>2, <3>5
      <4>2. PICK n \in 1..m : old.uses[n].id = use_ids[k]
        BY <3>2, <4>1 DEF m
      <4>3. n \in 1..Len(new.uses) /\ new.uses[n] = old.uses[n]
        BY <1>3
      <4> QED
        BY <1>4, <3>1, <3>5, <4>2, <4>3
    <3> QED
      BY <3>4, <3>5
  <2>3. k = K + 1 \/ k \in 1..K
    BY <1>7, <1>8
  <2> QED
    BY <2>1, <2>2, <2>3
<1> QED
  BY <1>12, <1>13 DEF UsesInv

\* A definition changes no use.
LEMMA UsesAfterDefinition ==
  ASSUME CiteInv, UsesInv, NEW e \in Elements, NEW g \in Groups,
         add_full(e, g, Defined(Note(e, g), e)), UNCHANGED <<collected, use_ids>>
  PROVE  UsesInv'
<1> DEFINE i == NoteIndex(e, g)
           old == Note(e, g)
           new == Defined(old, e)
<1>1. old \in References /\ new \in References /\ new.uses = old.uses
  BY NoteType, DefinedType DEF CiteInv
<1>2. \A n \in 1..Len(old.uses) : old.uses[n].id.number = i
  BY NoteNumber DEF CiteInv
<1>4. /\ i \in 1..Len(references')
      /\ Len(references') = Len(references) \/ Len(references') = Len(references) + 1
      /\ references'[i] = new
      /\ \A j \in 1..Len(references') : j # i => /\ j \in 1..Len(references)
                                                /\ references'[j] = references[j]
  BY <1>1, AddFacts DEF CiteInv
<1>5. i \in 1..Len(references) => references[i] = old
  BY DEF Note
<1>6. Len(references) \in Nat
  BY LenProperties DEF CiteInv, NotesInv, NotesType
<1> HIDE DEF i, old, new
<1>7. \A j \in 1..Len(references) : j \in 1..Len(references') /\ references'[j].uses = references[j].uses
  BY <1>1, <1>4, <1>5, <1>6
<1>8. ASSUME NEW j \in 1..Len(references'), NEW n \in 1..Len(references'[j].uses)
      PROVE references'[j].uses[n].id.number = j
  <2>1. CASE j # i
    BY <1>4, <1>8, <2>1 DEF UsesInv
  <2>2. CASE j = i
    BY <1>1, <1>2, <1>4, <1>8, <2>2
  <2> QED
    BY <2>1, <2>2
<1>9. ASSUME NEW k \in 1..Len(collected')
      PROVE /\ collected'[k].note \in 1..Len(references')
            /\ \E n \in 1..Len(references'[collected'[k].note].uses) :
                   references'[collected'[k].note].uses[n].id = use_ids'[k]
  BY <1>7, SMTT(30) DEF UsesInv
<1> QED
  BY <1>8, <1>9 DEF UsesInv
-----------------------------------------------------------------------------
(* The invariant.  Uses that no list encloses are collected in the order of *)
(* their places, all of them; and of those the second walk has not come to, *)
(* none has its turn yet, while of those it has, none waits for it, unless  *)
(* one in a list came before.                                               *)

Plain(k) == k \in 1..Len(collected) /\ ~collected[k].listed
At(k) == collected[k].place

InPlace ==
    /\ \A k : Plain(k) => IsUse(At(k))
    /\ \A j, k : Plain(j) /\ Plain(k) /\ j < k => Precedes(At(j), At(k))

CollectedSoFar ==
    /\ \A k : Plain(k) => Before(At(k), walks)
    /\ \A p : IsUse(p) /\ Before(p, walks) => \E k : Plain(k) /\ At(k) = p
    /\ \A n \in 1..Len(walks) : walks[n].out = <<>>
    /\ next_use = 0

AllCollected == \A p : IsUse(p) => \E k : Plain(k) /\ At(k) = p

TakenSoFar ==
    /\ \A n \in 1..Len(walks) : ~walks[n].embedded
    /\ \A k : Plain(k) /\ ~Before(At(k), walks) => next_use < k
    /\ \A k : Plain(k) /\ Before(At(k), walks) /\ ~ListedBefore(k) => k <= next_use

ResultOK(r) == r.kind # "extension" /\ (r.kind = "marker" => MarkerOwn(r))
OutOK(w) == IsSeq(w.out) /\ \A r \in Range(w.out) : ResultOK(r)

MarkersInv ==
    /\ CiteInv /\ UsesInv /\ Chained(walks) /\ InPlace
    /\ phase = "collect" => CollectedSoFar
    /\ phase # "collect" => AllCollected
    /\ phase = "render" => TakenSoFar
    /\ \A n \in 1..Len(walks) : OutOK(walks[n])

LEMMA NothingOut == ASSUME NEW w, w.out = <<>> PROVE OutOK(w)
<1>1. IsSeq(<<>>)
  BY EmptySeq, OfItsOwn
<1>2. Range(<<>>) = {}
  <2>1. DOMAIN <<>> = {}
    BY EmptySeq
  <2> QED
    BY <2>1 DEF Range
<1> QED
  BY <1>1, <1>2 DEF OutOK

\* One more result.
LEMMA OneMoreOut ==
  ASSUME NEW w, NEW v, OutOK(w), NEW r, ResultOK(r), v.out = w.out \o <<r>>
  PROVE  OutOK(v)
<1> DEFINE o == w.out
           T == {o[i] : i \in DOMAIN o} \union {r}
<1>1. o \in Seq(T)
  BY SeqMonotonic DEF OutOK, IsSeq
<1>2. <<r>> \in Seq(T) /\ Len(<<r>>) = 1 /\ <<r>>[1] = r
  OBVIOUS
<1>3. v.out = o \o <<r>>
  OBVIOUS
<1> HIDE DEF o, T
<1> DEFINE s == o \o <<r>>
<1>4. /\ s \in Seq(T) /\ Len(s) = Len(o) + 1 /\ Len(o) \in Nat
      /\ \A i \in 1..(Len(o) + 1) : s[i] = IF i <= Len(o) THEN o[i] ELSE r
  BY <1>1, <1>2, ConcatProperties, LenProperties
<1> HIDE DEF s
<1>5. DOMAIN s = 1..(Len(o) + 1) /\ DOMAIN o = 1..Len(o)
  BY <1>1, <1>4, LenProperties
<1>6. \A x \in Range(s) : x = r \/ x \in Range(o)
  BY <1>4, <1>5 DEF Range
<1>7. IsSeq(s)
  BY <1>4, OfItsOwn
<1> QED
  BY <1>3, <1>6, <1>7 DEF OutOK, o, s

\* The page is the same page.
LEMMA SameUses == ASSUME UNCHANGED page PROVE \A p : IsUse(p)' <=> IsUse(p)
  BY DEF IsUse, Way

LEMMA ChainedNext ==
  ASSUME UNCHANGED page, NEW s, walks' = s, Chained(s) PROVE Chained(walks)'
  BY DEF Chained, Within, OnWay, Way

\* Where nothing is collected, all stays in its place.
LEMMA InPlaceNext ==
  ASSUME UNCHANGED <<page, collected>>, InPlace PROVE InPlace'
  BY DEF InPlace, IsUse, Way, Precedes, Plain, At

LEMMA AllCollectedNext ==
  ASSUME UNCHANGED <<page, collected>>, AllCollected PROVE AllCollected'
  BY DEF AllCollected, IsUse, Way, Plain, At

LEMMA BeforeNext == \A p : Before(p, walks)' <=> Before(p, walks')
  BY DEF Before, OnWay

LEMMA MarkersInit == Init => MarkersInv
<1> SUFFICES ASSUME Init PROVE MarkersInv
  OBVIOUS
<1>1. CiteInv
  BY InitOK
<1>2. /\ Len(references) = 0 /\ Len(collected) = 0 /\ phase = "collect" /\ walks = <<PageWalk>>
      /\ next_use = 0
  BY EmptySeq DEF Init
<1>3. UsesInv /\ InPlace
  BY <1>2 DEF UsesInv, InPlace, Plain
<1>4. Chained(walks)
  BY <1>2, ChainedFirst
<1> DEFINE w == PageWalk
<1>5. w.out = <<>> /\ Len(<<w>>) = 1 /\ <<w>>[1] = w
  BY DEF PageWalk, Walk
<1> HIDE DEF w
<1>6. \A n \in 1..Len(walks) : walks[n].out = <<>>
  BY <1>2, <1>5 DEF w
<1>7. CollectedSoFar
  BY <1>2, <1>6, FirstBefore DEF CollectedSoFar, Plain
<1> QED
  BY <1>1, <1>2, <1>3, <1>4, <1>6, <1>7, NothingOut DEF MarkersInv

LEMMA NothingOutNext ==
  ASSUME \A n \in 1..Len(walks') : walks'[n].out = <<>>
  PROVE  (\A n \in 1..Len(walks) : OutOK(walks[n]))'
<1>1. IsSeq(<<>>)
  BY EmptySeq, OfItsOwn
<1>2. Range(<<>>) = {}
  <2>1. DOMAIN <<>> = {}
    BY EmptySeq
  <2> QED
    BY <2>1 DEF Range
<1> SUFFICES ASSUME NEW n \in 1..Len(walks') PROVE OutOK(walks[n])'
  OBVIOUS
<1>3. walks'[n].out = <<>>
  OBVIOUS
<1>4. IsSeq(walks'[n].out) /\ Range(walks'[n].out) = {}
  BY <1>1, <1>2, <1>3
<1> QED
  BY <1>4 DEF OutOK, IsSeq, Range

\* What the first phase has by its invariant.
LEMMA InCollect ==
  ASSUME MarkersInv, phase = "collect"
  PROVE  CiteInv /\ UsesInv /\ StackOK(walks) /\ Chained(walks) /\ InPlace /\ CollectedSoFar
  BY DEF MarkersInv, CiteInv

\* To pass an element in the first phase.
LEMMA PassCollect ==
  ASSUME MarkersInv, phase = "collect", NEW stk, Through(stk),
         UNCHANGED page, walks' = Passed(stk, <<>>)
  PROVE  /\ Chained(walks)'
         /\ \A n \in 1..Len(walks') : walks'[n].out = <<>>
         /\ \A q : IsUse(q) => (Before(q, walks)' <=> Before(q, walks) \/ q = Place(stk))
<1> DEFINE s == Passed(stk, <<>>)
           m == Len(stk)
<1>0. StackOK(walks) /\ Chained(walks) /\ CollectedSoFar
  BY InCollect
<1>1. AtElement(stk) /\ Chained(stk) /\ \A j \in 1..m : walks[j] = stk[j]
  BY <1>0, ThroughFacts
<1>2. Chained(s)
  BY <1>1, ChainedPassed
<1>3. /\ Len(s) = m /\ m \in Nat \ {0} /\ \A i \in 1..(m - 1) : s[i] = stk[i]
      /\ s[m].out = stk[m].out \o <<>>
  <2> DEFINE none == <<>>
  <2>1. s = Passed(stk, none)
    OBVIOUS
  <2> HIDE DEF none, s
  <2>2. /\ Len(s) = m /\ m \in Nat \ {0} /\ \A i \in 1..(m - 1) : s[i] = stk[i]
        /\ s[m].out = Top(stk).out \o none
    BY <1>1, <2>1, PassedFacts
  <2> QED
    BY <2>2 DEF none, Top
<1> HIDE DEF s, m
<1>4. walks' = s
  BY DEF s
<1>5. Chained(walks)'
  BY <1>2, <1>4, ChainedNext
<1>6. ASSUME NEW n \in 1..m PROVE s[n].out = <<>>
  <2>1. Len(walks) = m \/ Len(walks) = m + 1
    BY <1>0, ThroughFacts DEF m
  <2>2. \A j \in 1..m : stk[j].out = <<>>
    BY <1>0, <1>1, <1>3, <2>1 DEF CollectedSoFar
  <2>3. n = m \/ n \in 1..(m - 1)
    BY <1>3
  <2>4. <<>> \o <<>> = <<>>
    OBVIOUS
  <2>5. m \in 1..m
    BY <1>3
  <2> QED
    BY <1>3, <2>2, <2>3, <2>4, <2>5
<1>7. ASSUME NEW q, IsUse(q) PROVE Before(q, walks)' <=> Before(q, walks) \/ q = Place(stk)
  <2>1. Before(q, s) <=> Before(q, walks) \/ q = Place(stk)
    BY <1>0, <1>7, InOrder DEF s
  <2>2. Before(q, walks)' <=> Before(q, s)
    BY <1>4, BeforeNext
  <2> QED
    BY <2>1, <2>2
<1> QED
  BY <1>3, <1>4, <1>5, <1>6, <1>7

\* A walk in the first phase that passes what is no use.
LEMMA PassNoUse ==
  ASSUME MarkersInv, phase = "collect", NEW stk, Through(stk),
         ~IsUse(Place(stk)), walks' = Passed(stk, <<>>),
         UNCHANGED <<page, phase, collected, next_use>>, CiteInv', UsesInv'
  PROVE  MarkersInv'
<1>1. /\ Chained(walks)'
      /\ \A n \in 1..Len(walks') : walks'[n].out = <<>>
      /\ \A q : IsUse(q) => (Before(q, walks)' <=> Before(q, walks) \/ q = Place(stk))
  BY PassCollect
<1>2. InPlace /\ CollectedSoFar
  BY InCollect
<1>3. InPlace'
  BY <1>2, InPlaceNext
<1>4. \A k : (Plain(k)' <=> Plain(k)) /\ At(k)' = At(k)
  BY DEF Plain, At
<1>5. \A q : IsUse(q) => (Before(q, walks)' <=> Before(q, walks))
  BY <1>1
<1>6. \A k : Plain(k) => Before(At(k), walks')
  BY <1>2, <1>5, BeforeNext DEF CollectedSoFar, InPlace
<1>7. \A p : IsUse(p)' /\ Before(p, walks') => \E k : Plain(k)' /\ At(k)' = p
  BY <1>2, <1>4, <1>5, BeforeNext, SameUses DEF CollectedSoFar
<1>8. CollectedSoFar'
  <2>1. \A k : Plain(k)' => Before(At(k), walks)'
    BY <1>4, <1>6 DEF At, Before, OnWay
  <2>2. \A p : IsUse(p)' /\ Before(p, walks)' => \E k : Plain(k)' /\ At(k)' = p
    BY <1>7, BeforeNext
  <2>3. next_use' = 0
    BY <1>2 DEF CollectedSoFar
  <2> QED
    BY <1>1, <2>1, <2>2, <2>3 DEF CollectedSoFar
<1>9. (\A n \in 1..Len(walks) : OutOK(walks[n]))'
  BY <1>1, NothingOutNext
<1> QED
  BY <1>1, <1>3, <1>8, <1>9 DEF MarkersInv

\* What the first phase passes is due.
LEMMA CollectsThrough ==
  ASSUME NEW kind, NEW embedded, NEW stk \in Collects(kind, embedded)
  PROVE  /\ phase = "collect" /\ Through(stk)
         /\ Element(stk).kind = kind /\ Top(stk).embedded = embedded
  BY DueThrough DEF Collects

\* What encloses the place that walks have come to.
LEMMA TopIn ==
  ASSUME NEW stk, AtElement(stk)
  PROVE  Len(stk) \in 1..Len(stk) /\ Top(stk) = stk[Len(stk)]
  BY DEF AtElement, StackOK, Top

LEMMA MarkersEnter == MarkersInv /\ Enter => MarkersInv'
<1> SUFFICES ASSUME MarkersInv, Enter PROVE MarkersInv'
  OBVIOUS
<1> DEFINE e == Element(walks)
           list == e.kind = "references"
           group == IF list THEN e.group ELSE NoGroup
           w == Walk(Bodies[e.body], Place(walks), list, group, FALSE)
<1>0. phase = "collect" /\ UNCHANGED <<page, phase, collected, references, use_ids, next_use>>
  BY DEF Enter, state, first, second
<1>1. CiteInv /\ UsesInv /\ StackOK(walks) /\ Chained(walks) /\ InPlace /\ CollectedSoFar
  BY <1>0, InCollect
<1>2. CiteInv'
  BY <1>1, EnterOK
<1>3. UsesInv'
  BY <1>0, <1>1 DEF UsesInv
<1>4. AtElement(walks)
  BY <1>1 DEF AtElement, Enter
<1>5. walks' = Append(walks, w)
  BY Zenon DEF Enter
<1>6. /\ w.nodes = Bodies[e.body] /\ w.place = Place(walks) /\ w.embedded = list
      /\ w.next = 1 /\ w.out = <<>>
  BY DEF Walk
<1>7. list <=> ~nested_body(e)
  BY DEF Enter, Encloses, nested_body
<1> HIDE DEF w, list
<1> DEFINE s == Append(walks, w)
<1>8. Chained(s)
  BY <1>1, <1>4, <1>6, <1>7, ChainedPush
<1>9. \A q : IsUse(q) => (Before(q, s) <=> Before(q, walks))
  BY <1>4, <1>6, NothingPassed
<1>10. \A n \in 1..Len(s) : s[n].out = <<>>
  <2>1. /\ Len(s) = Len(walks) + 1 /\ Len(walks) \in Nat /\ s[Len(walks) + 1] = w
        /\ \A i \in 1..Len(walks) : s[i] = walks[i]
    BY <1>1, Pushed DEF StackOK
  <2>2. \A n \in 1..Len(s) : n = Len(walks) + 1 \/ n \in 1..Len(walks)
    BY <2>1
  <2> HIDE DEF s
  <2> QED
    BY <1>1, <1>6, <2>1, <2>2 DEF CollectedSoFar
<1> HIDE DEF s
<1>11. walks' = s
  BY <1>5 DEF s
<1>12. Chained(walks)'
  BY <1>0, <1>8, <1>11, ChainedNext
<1>13. InPlace'
  BY <1>0, <1>1, InPlaceNext
<1>14. \A k : (Plain(k)' <=> Plain(k)) /\ At(k)' = At(k)
  BY <1>0 DEF Plain, At
<1>15. \A q : IsUse(q) => (Before(q, walks)' <=> Before(q, walks))
  BY <1>9, <1>11, BeforeNext
<1>16. CollectedSoFar'
  <2>1. \A k : Plain(k) => Before(At(k), walks')
    BY <1>1, <1>15, BeforeNext DEF CollectedSoFar, InPlace
  <2>2. \A k : Plain(k)' => Before(At(k), walks)'
    BY <1>14, <2>1 DEF At, Before, OnWay
  <2>3. \A p : IsUse(p)' /\ Before(p, walks)' => \E k : Plain(k)' /\ At(k)' = p
    BY <1>0, <1>1, <1>14, <1>15, SameUses DEF CollectedSoFar
  <2>4. next_use' = 0
    BY <1>0, <1>1 DEF CollectedSoFar
  <2> QED
    BY <1>10, <1>11, <2>2, <2>3, <2>4 DEF CollectedSoFar
<1>17. (\A n \in 1..Len(walks) : OutOK(walks[n]))'
  BY <1>10, <1>11, NothingOutNext
<1> QED
  BY <1>0, <1>2, <1>3, <1>12, <1>13, <1>16, <1>17 DEF MarkersInv

LEMMA MarkersAddEmbedded == MarkersInv /\ add_embedded => MarkersInv'
<1> SUFFICES ASSUME MarkersInv, add_embedded PROVE MarkersInv'
  OBVIOUS
<1>1. PICK stk \in Collects("ref", TRUE) :
        /\ add_full(Element(stk), GroupIn(stk),
                    Defined(Note(Element(stk), GroupIn(stk)), Element(stk)))
        /\ walks' = Passed(stk, <<>>)
        /\ UNCHANGED <<page, phase, first, second>>
  BY Zenon DEF add_embedded
<1>2. phase = "collect" /\ Through(stk) /\ Top(stk).embedded
  BY CollectsThrough
<1>3. CiteInv /\ UsesInv /\ StackOK(walks) /\ Chained(walks)
  BY <1>2, InCollect
<1>4. CiteInv'
  BY <1>3, AddEmbeddedOK
<1>5. AtElement(stk) /\ Chained(stk)
  BY <1>2, <1>3, ThroughFacts
<1>6. Element(stk) \in Elements /\ GroupIn(stk) \in Groups
  BY <1>5, ElementType, GroupType
<1>7. UsesInv'
  BY <1>1, <1>3, <1>6, UsesAfterDefinition DEF first
<1>8. ~IsUse(Place(stk))
  BY <1>2, <1>5, PlaceIsUse, TopIn
<1>9. UNCHANGED <<page, phase, collected, next_use>>
  BY <1>1 DEF first, second
<1> QED
  BY <1>1, <1>2, <1>4, <1>7, <1>8, <1>9, PassNoUse

LEMMA MarkersCutList == MarkersInv /\ CutList => MarkersInv'
<1> SUFFICES ASSUME MarkersInv, CutList PROVE MarkersInv'
  OBVIOUS
<1>1. PICK stk \in Collects("references", FALSE) :
        /\ cut_group(Element(stk).group)
        /\ walks' = Passed(stk, <<>>)
        /\ UNCHANGED <<page, phase, use_ids, collected, second>>
  BY Zenon DEF CutList
<1>2. phase = "collect" /\ Through(stk) /\ ~IsRef(Element(stk))
  BY CollectsThrough DEF IsRef
<1>3. CiteInv /\ UsesInv /\ StackOK(walks) /\ Chained(walks)
  BY <1>2, InCollect
<1>4. CiteInv'
  BY <1>3, CutListOK
<1>5. ~IsUse(Place(stk))
  BY <1>2, <1>3, ThroughFacts, PlaceIsUse
<1>6. UsesInv' /\ UNCHANGED next_use
  BY <1>1, <1>3 DEF UsesInv, cut_group, second
<1> QED
  BY <1>1, <1>2, <1>4, <1>5, <1>6, PassNoUse

LEMMA MarkersListInList == MarkersInv /\ ListInList => MarkersInv'
<1> SUFFICES ASSUME MarkersInv, ListInList PROVE MarkersInv'
  OBVIOUS
<1>1. PICK stk \in Collects("references", TRUE) :
        /\ walks' = Passed(stk, <<>>)
        /\ UNCHANGED <<page, phase, state, first, second>>
  BY Zenon DEF ListInList
<1>2. phase = "collect" /\ Through(stk) /\ ~IsRef(Element(stk))
  BY CollectsThrough DEF IsRef
<1>3. CiteInv /\ UsesInv /\ StackOK(walks) /\ Chained(walks)
  BY <1>2, InCollect
<1>4. CiteInv'
  BY <1>3, ListInListOK
<1>5. ~IsUse(Place(stk))
  BY <1>2, <1>3, ThroughFacts, PlaceIsUse
<1>6. UsesInv' /\ UNCHANGED <<page, phase, collected, next_use>>
  BY <1>1, <1>3 DEF UsesInv, state, first, second
<1> QED
  BY <1>1, <1>2, <1>4, <1>5, <1>6, PassNoUse

LEMMA MarkersCollectUse == MarkersInv /\ CollectUse => MarkersInv'
<1> SUFFICES ASSUME MarkersInv, CollectUse PROVE MarkersInv'
  OBVIOUS
<1>1. PICK stk \in Collects("ref", FALSE) :
        LET r == Note(Element(stk), GroupIn(stk))
        IN /\ add_full(Element(stk), GroupIn(stk), Used(r, Element(stk)))
           /\ use_ids' = Append(use_ids, marker_id(r.name, r.global_id, Len(r.uses)))
           /\ collected' = Append(collected,
                  [place |-> Place(stk), note |-> r.global_id,
                   listed |-> \E n \in 1..Len(stk) : stk[n].embedded])
           /\ walks' = Passed(stk, <<>>)
           /\ UNCHANGED <<page, phase, cuts, second>>
  BY Zenon DEF CollectUse
<1> DEFINE p == Place(stk)
           e == Element(stk)
           g == GroupIn(stk)
           listed == \E n \in 1..Len(stk) : stk[n].embedded
           c == [place |-> p, note |-> Note(e, g).global_id, listed |-> listed]
<1>2. phase = "collect" /\ Through(stk) /\ IsRef(e)
  BY CollectsThrough DEF IsRef
<1>3. CiteInv /\ UsesInv /\ StackOK(walks) /\ Chained(walks) /\ InPlace /\ CollectedSoFar
  BY <1>2, InCollect
<1>4. CiteInv'
  BY <1>3, CollectUseOK
<1>5. AtElement(stk) /\ Chained(stk)
  BY <1>2, <1>3, ThroughFacts
<1>6. e \in Elements /\ g \in Groups
  BY <1>5, ElementType, GroupType
<1>7. collected' = Append(collected, c)
  BY <1>1
<1>8. c.place = p /\ c.note = Note(e, g).global_id /\ c.listed = listed
  OBVIOUS
<1> HIDE DEF c
<1>9. UsesInv'
  BY <1>1, <1>3, <1>6, <1>7, <1>8, UsesAfterUse
<1>10. IsUse(p) <=> ~c.listed
  BY <1>2, <1>5, <1>8, PlaceIsUse
<1>11. PICK K \in Nat :
          /\ K = Len(collected) /\ Len(collected') = K + 1 /\ collected'[K + 1] = c
          /\ \A k \in 1..K : collected'[k] = collected[k]
  <2>1. IsSeq(collected)
    BY <1>3, OfItsOwn DEF CiteInv, RestOK
  <2> QED
    BY <1>7, <2>1, Pushed
<1>12. /\ Chained(walks)'
       /\ \A n \in 1..Len(walks') : walks'[n].out = <<>>
       /\ \A q : IsUse(q) => (Before(q, walks)' <=> Before(q, walks) \/ q = p)
  BY <1>1, <1>2, PassCollect
<1>13. \A q : IsUse(q) /\ Before(q, walks) => Precedes(q, p)
  <2> SUFFICES ASSUME NEW q, IsUse(q), Before(q, walks) PROVE Precedes(q, p)
    OBVIOUS
  <2> DEFINE none == <<>>
             s == Passed(stk, none)
  <2> HIDE DEF none, p
  <2>1. Before(q, walks) <=> Precedes(q, Place(stk))
    BY <1>2, <1>3, InOrder
  <2> QED
    BY <2>1 DEF p
<1>14. \A q : IsUse(q)' <=> IsUse(q)
  BY <1>1, SameUses
<1> HIDE DEF p, listed, e, g
<1>15. \A k : Plain(k)' <=> Plain(k) \/ (k = K + 1 /\ IsUse(p))
  BY <1>10, <1>11 DEF Plain
<1>16. /\ \A k : Plain(k) => k \in 1..K /\ At(k)' = At(k)
       /\ At(K + 1)' = p
  BY <1>8, <1>11 DEF Plain, At
<1>17. InPlace'
  <2>1. ASSUME NEW k, Plain(k)' PROVE IsUse(At(k)')
    BY <1>3, <1>15, <1>16, <2>1 DEF InPlace
  <2>2. ASSUME NEW j, NEW k, Plain(j)', Plain(k)', j < k PROVE Precedes(At(j)', At(k)')
    <3>1. CASE Plain(j) /\ Plain(k)
      BY <1>3, <1>16, <2>2, <3>1 DEF InPlace
    <3>2. CASE Plain(j) /\ k = K + 1
      <4>1. IsUse(At(j)) /\ Before(At(j), walks)
        BY <1>3, <3>2 DEF InPlace, CollectedSoFar
      <4> QED
        BY <1>13, <1>16, <3>2, <4>1
    <3>3. CASE j = K + 1
      <4>1. k = K + 1 \/ k \in 1..K
        BY <1>15, <1>16, <2>2
      <4> QED
        BY <1>11, <2>2, <3>3, <4>1
    <3> QED
      BY <1>15, <2>2, <3>1, <3>2, <3>3
  <2>3. \A k : Plain(k)' => IsUse(At(k))'
    <3>1. \A k, q : Plain(k)' /\ collected'[k].place = q => IsUse(q)'
      BY <1>14, <2>1 DEF At
    <3> QED
      BY <3>1 DEF IsUse, Way, At
  <2>4. \A j, k : Plain(j)' /\ Plain(k)' /\ j < k => Precedes(At(j), At(k))'
    BY <2>2 DEF Precedes, At
  <2> QED
    BY <2>3, <2>4 DEF InPlace
<1>18. CollectedSoFar'
  <2>1. ASSUME NEW k, Plain(k)' PROVE Before(At(k)', walks')
    BY <1>3, <1>12, <1>15, <1>16, <2>1, BeforeNext DEF InPlace, CollectedSoFar
  <2>2. \A k : Plain(k)' => Before(At(k), walks)'
    BY <2>1 DEF Before, OnWay, At
  <2>3. ASSUME NEW q, IsUse(q), Before(q, walks)' PROVE \E k : Plain(k)' /\ At(k)' = q
    <3>1. CASE q = p
      BY <1>15, <1>16, <2>3, <3>1
    <3>2. CASE q # p
      <4>1. Before(q, walks)
        BY <1>12, <2>3, <3>2
      <4>2. PICK k : Plain(k) /\ At(k) = q
        BY <1>3, <2>3, <4>1 DEF CollectedSoFar
      <4> QED
        BY <1>15, <1>16, <4>2
    <3> QED
      BY <3>1, <3>2
  <2>4. \A q : IsUse(q)' /\ Before(q, walks)' => \E k : Plain(k)' /\ At(k)' = q
    BY <1>14, <2>3
  <2>5. next_use' = 0
    BY <1>1, <1>3 DEF second, CollectedSoFar
  <2> QED
    BY <1>12, <2>2, <2>4, <2>5 DEF CollectedSoFar
<1>19. (\A n \in 1..Len(walks) : OutOK(walks[n]))'
  BY <1>12, NothingOutNext
<1>20. phase' = "collect"
  BY <1>1, <1>2
<1> QED
  BY <1>4, <1>9, <1>12, <1>17, <1>18, <1>19, <1>20 DEF MarkersInv

\* What came out before stays what it was.
LEMMA OutsNext ==
  ASSUME UNCHANGED <<collected, use_ids>>, \A n \in 1..Len(walks') : OutOK(walks'[n])
  PROVE  (\A n \in 1..Len(walks) : OutOK(walks[n]))'
  BY DEF OutOK, ResultOK, MarkerOwn, ListedBefore, IsSeq, Range

LEMMA MarkersEndCollect == MarkersInv /\ EndCollect => MarkersInv'
<1> SUFFICES ASSUME MarkersInv, EndCollect PROVE MarkersInv'
  OBVIOUS
<1>1. /\ phase = "collect" /\ phase' = "render" /\ walks' = <<PageWalk>>
      /\ UNCHANGED <<page, references, collected, use_ids, next_use>>
  BY DEF EndCollect, state, first, second
<1>2. CiteInv /\ UsesInv /\ StackOK(walks) /\ Chained(walks) /\ InPlace /\ CollectedSoFar
  BY <1>1, InCollect
<1>3. CiteInv'
  BY <1>2, EndCollectOK
<1>4. UsesInv' /\ InPlace'
  <2>1. UsesInv'
    BY <1>1, <1>2 DEF UsesInv
  <2> QED
    BY <1>1, <1>2, <2>1, InPlaceNext
<1>5. Chained(walks)'
  BY <1>1, ChainedFirst, ChainedNext
<1>6. AllCollected
  BY <1>2, LastBefore DEF AllCollected, CollectedSoFar, EndCollect
<1>7. AllCollected'
  BY <1>1, <1>6, AllCollectedNext
<1>8. next_use = 0
  BY <1>2 DEF CollectedSoFar
<1> DEFINE w == PageWalk
<1>9. w.out = <<>> /\ w.embedded = FALSE /\ Len(<<w>>) = 1 /\ <<w>>[1] = w
  BY DEF PageWalk, Walk
<1>10. \A q : IsUse(q) => ~Before(q, walks)'
  BY <1>1, FirstBefore, BeforeNext
<1> HIDE DEF w
<1>11. \A n \in 1..Len(walks') : walks'[n].out = <<>> /\ ~walks'[n].embedded
  BY <1>1, <1>9 DEF w
<1>12. TakenSoFar'
  <2>1. \A k : Plain(k)' => k \in Nat \ {0}
    BY DEF Plain
  <2>2. \A k : Plain(k)' => ~Before(At(k), walks)'
    <3>1. \A k : Plain(k)' => ~Before(At(k), walks')
      BY <1>1, <1>2, <1>10, BeforeNext DEF InPlace, Plain, At
    <3> QED
      BY <1>1, <3>1 DEF At, Before, OnWay
  <2> QED
    BY <1>1, <1>8, <1>11, <2>1, <2>2 DEF TakenSoFar
<1>13. (\A n \in 1..Len(walks) : OutOK(walks[n]))'
  BY <1>11, NothingOutNext
<1> QED
  BY <1>1, <1>3, <1>4, <1>5, <1>7, <1>12, <1>13 DEF MarkersInv

\* What the second phase has by its invariant.
LEMMA InRender ==
  ASSUME MarkersInv, phase = "render"
  PROVE  /\ CiteInv /\ UsesInv /\ StackOK(walks) /\ Chained(walks) /\ InPlace
         /\ AllCollected /\ TakenSoFar /\ \A n \in 1..Len(walks) : OutOK(walks[n])
  BY DEF MarkersInv, CiteInv

\* What the second phase passes is due.
LEMMA RendersThrough ==
  ASSUME NEW kind, NEW stk \in Renders(kind)
  PROVE  phase = "render" /\ Through(stk) /\ Element(stk).kind = kind
  BY DueThrough DEF Renders

\* To pass an element in the second phase, with at most one result.
LEMMA PassRender ==
  ASSUME MarkersInv, phase = "render", NEW stk, Through(stk), NEW results,
         results = <<>> \/ \E r : ResultOK(r) /\ results = <<r>>,
         UNCHANGED <<page, collected, use_ids>>, walks' = Passed(stk, results)
  PROVE  /\ Chained(walks)' /\ InPlace' /\ AllCollected'
         /\ \A n \in 1..Len(walks') : ~walks'[n].embedded
         /\ (\A n \in 1..Len(walks) : OutOK(walks[n]))'
         /\ \A q : IsUse(q) => (Before(q, walks)' <=> Before(q, walks) \/ q = Place(stk))
<1> DEFINE s == Passed(stk, results)
           m == Len(stk)
<1>0. /\ StackOK(walks) /\ Chained(walks) /\ InPlace /\ AllCollected /\ TakenSoFar
      /\ \A n \in 1..Len(walks) : OutOK(walks[n])
  BY InRender
<1>1. AtElement(stk) /\ Chained(stk) /\ \A j \in 1..m : walks[j] = stk[j]
  BY <1>0, ThroughFacts
<1>2. Chained(s)
  BY <1>1, ChainedPassed
<1>3. /\ Len(s) = m /\ m \in Nat \ {0} /\ \A i \in 1..(m - 1) : s[i] = stk[i]
      /\ s[m].out = stk[m].out \o results /\ s[m].embedded = stk[m].embedded
  <2>1. s = Passed(stk, results)
    OBVIOUS
  <2> HIDE DEF s
  <2>2. /\ Len(s) = m /\ m \in Nat \ {0} /\ \A i \in 1..(m - 1) : s[i] = stk[i]
        /\ s[m].out = Top(stk).out \o results /\ s[m].embedded = Top(stk).embedded
    BY <1>1, <2>1, PassedFacts, SMTT(30)
  <2> QED
    BY <2>2 DEF Top
<1>4. Len(walks) = m \/ Len(walks) = m + 1
  BY <1>0, ThroughFacts
<1> HIDE DEF s, m
<1>5. walks' = s
  BY DEF s
<1>6. Chained(walks)' /\ InPlace' /\ AllCollected'
  BY <1>0, <1>2, <1>5, ChainedNext, InPlaceNext, AllCollectedNext
<1>7. m \in 1..m /\ \A n \in 1..m : n = m \/ n \in 1..(m - 1)
  BY <1>3
<1>8. \A j \in 1..m : OutOK(stk[j]) /\ ~stk[j].embedded
  <2>1. \A j \in 1..m : j \in 1..Len(walks)
    BY <1>3, <1>4
  <2> QED
    BY <1>0, <1>1, <2>1 DEF TakenSoFar, m
<1>9. OutOK(s[m])
  <2> DEFINE o == stk[m].out
  <2>1. OutOK(stk[m])
    BY <1>7, <1>8
  <2>2. CASE results = <<>>
    <3>1. IsSeq(o)
      BY <2>1 DEF OutOK
    <3>2. o \o <<>> = o
      BY <3>1 DEF IsSeq
    <3>3. s[m].out = o
      BY <1>3, <2>2, <3>2
    <3> QED
      BY <2>1, <3>3 DEF OutOK
  <2>3. CASE \E r : ResultOK(r) /\ results = <<r>>
    <3>1. PICK r : ResultOK(r) /\ results = <<r>>
      BY <2>3
    <3> QED
      BY <1>3, <2>1, <3>1, OneMoreOut
  <2> QED
    BY <2>2, <2>3
<1>10. \A n \in 1..Len(walks') : OutOK(walks'[n]) /\ ~walks'[n].embedded
  BY <1>3, <1>5, <1>7, <1>8, <1>9
<1>11. (\A n \in 1..Len(walks) : OutOK(walks[n]))'
  BY <1>10, OutsNext
<1>12. ASSUME NEW q, IsUse(q) PROVE Before(q, walks)' <=> Before(q, walks) \/ q = Place(stk)
  <2>1. Before(q, s) <=> Before(q, walks) \/ q = Place(stk)
    BY <1>0, <1>12, InOrder DEF s
  <2>2. Before(q, walks)' <=> Before(q, s)
    BY <1>5, BeforeNext
  <2> QED
    BY <2>1, <2>2
<1> QED
  BY <1>6, <1>10, <1>11, <1>12

\* Where the second phase takes no marker.
LEMMA TakenNext ==
  ASSUME TakenSoFar, InPlace, UNCHANGED <<collected, next_use>>,
         \A n \in 1..Len(walks') : ~walks'[n].embedded,
         \A q : IsUse(q) => (Before(q, walks)' <=> Before(q, walks))
  PROVE  TakenSoFar'
<1>1. \A k : Plain(k) => (Before(At(k), walks') <=> Before(At(k), walks))
  BY BeforeNext DEF InPlace
<1>2. \A k : /\ Plain(k)' <=> Plain(k)
             /\ Before(At(k), walks)' <=> Before(At(k), walks')
             /\ ListedBefore(k)' <=> ListedBefore(k)
  BY DEF Plain, At, Before, OnWay, ListedBefore
<1> QED
  BY <1>1, <1>2 DEF TakenSoFar

LEMMA MarkersEnterNote == MarkersInv /\ EnterNote => MarkersInv'
<1> SUFFICES ASSUME MarkersInv, EnterNote PROVE MarkersInv'
  OBVIOUS
<1> DEFINE e == Element(walks)
           templated == Top(walks).templated \/ e.templated
           w == Walk(Bodies[e.body], Place(walks), FALSE, NoGroup, templated)
           s == Append(walks, w)
<1>0. phase = "render" /\ UNCHANGED <<page, phase, collected, references, use_ids, next_use>>
  BY DEF EnterNote, state, first, second
<1>1. /\ CiteInv /\ UsesInv /\ StackOK(walks) /\ Chained(walks) /\ InPlace
      /\ AllCollected /\ TakenSoFar /\ \A n \in 1..Len(walks) : OutOK(walks[n])
  BY <1>0, InRender
<1>2. CiteInv'
  BY <1>1, EnterNoteOK
<1>3. UsesInv'
  BY <1>0, <1>1 DEF UsesInv
<1>4. AtElement(walks) /\ nested_body(e)
  BY <1>1 DEF AtElement, EnterNote
<1>5. walks' = Append(walks, w)
  BY Zenon DEF EnterNote
<1>6. /\ w.nodes = Bodies[e.body] /\ w.place = Place(walks) /\ w.embedded = FALSE
      /\ w.next = 1 /\ w.out = <<>>
  BY DEF Walk
<1> HIDE DEF w, e
<1>7. Chained(s)
  BY <1>1, <1>4, <1>6, ChainedPush DEF e
<1>8. \A q : IsUse(q) => (Before(q, s) <=> Before(q, walks))
  BY <1>4, <1>6, NothingPassed
<1>9. \A n \in 1..Len(s) : OutOK(s[n]) /\ ~s[n].embedded
  <2>1. /\ Len(s) = Len(walks) + 1 /\ Len(walks) \in Nat /\ s[Len(walks) + 1] = w
        /\ \A i \in 1..Len(walks) : s[i] = walks[i]
    BY <1>1, Pushed DEF StackOK
  <2>2. \A n \in 1..Len(s) : n = Len(walks) + 1 \/ n \in 1..Len(walks)
    BY <2>1
  <2>3. OutOK(w) /\ ~w.embedded
    BY <1>6, NothingOut
  <2> HIDE DEF s
  <2> QED
    BY <1>1, <2>1, <2>2, <2>3 DEF TakenSoFar
<1> HIDE DEF s
<1>10. walks' = s
  BY <1>5 DEF s
<1>11. Chained(walks)' /\ InPlace' /\ AllCollected'
  BY <1>0, <1>1, <1>7, <1>10, ChainedNext, InPlaceNext, AllCollectedNext
<1>12. \A q : IsUse(q) => (Before(q, walks)' <=> Before(q, walks))
  BY <1>8, <1>10, BeforeNext
<1>13. TakenSoFar'
  BY <1>0, <1>1, <1>9, <1>10, <1>12, TakenNext
<1>14. (\A n \in 1..Len(walks) : OutOK(walks[n]))'
  BY <1>0, <1>9, <1>10, OutsNext
<1> QED
  BY <1>0, <1>2, <1>3, <1>11, <1>13, <1>14 DEF MarkersInv

\* The marker of a use that is in its place, or comes after one in a list.
LEMMA OwnMarker ==
  ASSUME CiteInv, UsesInv, NEW place, NEW k \in 1..Len(use_ids),
         At(k) = place \/ ListedBefore(k),
         NEW r, r = Marker(place, CHOOSE i \in 1..Len(references) :
                              \E u \in Range(references[i].uses) : u.id = use_ids[k],
                           use_ids[k])
  PROVE  ResultOK(r)
<1> DEFINE HasUse(i) == \E u \in Range(references[i].uses) : u.id = use_ids[k]
           i0 == CHOOSE i \in 1..Len(references) : HasUse(i)
           note == collected[k].note
<1>1. Len(collected) = Len(use_ids) /\ references \in Seq(References)
  BY DEF CiteInv, RestOK, NotesInv, NotesType
<1>2. \A i \in 1..Len(references) :
         /\ references[i].uses \in Seq(Uses)
         /\ DOMAIN references[i].uses = 1..Len(references[i].uses)
  <2> SUFFICES ASSUME NEW i \in 1..Len(references)
               PROVE /\ references[i].uses \in Seq(Uses)
                     /\ DOMAIN references[i].uses = 1..Len(references[i].uses)
    OBVIOUS
  <2>1. references[i] \in References
    BY <1>1, ElementOfSeq
  <2>2. references[i].uses \in Seq(Uses)
    BY <2>1 DEF References
  <2> QED
    BY <2>2, LenProperties
<1>3. note \in 1..Len(references) /\ HasUse(note)
  <2>1. /\ note \in 1..Len(references)
        /\ \E n \in 1..Len(references[note].uses) : references[note].uses[n].id = use_ids[k]
    BY <1>1 DEF UsesInv
  <2> HIDE DEF note
  <2> QED
    BY <1>2, <2>1 DEF Range
<1>4. \A i \in 1..Len(references) : HasUse(i) => use_ids[k].number = i
  BY <1>2 DEF UsesInv, Range
<1> HIDE DEF HasUse, note
<1>5. i0 \in 1..Len(references) /\ HasUse(i0)
  BY <1>3
<1> HIDE DEF i0
<1>6. i0 = note
  BY <1>3, <1>4, <1>5
<1>7. r = Marker(place, i0, use_ids[k])
  BY DEF i0, HasUse
<1>8. r.kind = "marker" /\ r.place = place /\ r.note = note /\ r.id = use_ids[k]
  BY <1>6, <1>7 DEF Marker
<1>9. MarkerOwn(r)
  BY <1>8 DEF MarkerOwn, At, note
<1>10. r.kind # "extension"
  BY <1>8
<1> QED
  BY <1>9, <1>10 DEF ResultOK

\* The use that comes next is collected, at the place or after one in a list.
LEMMA TheNextUse ==
  ASSUME CiteInv, StackOK(walks), Chained(walks), InPlace, AllCollected, TakenSoFar,
         NEW stk, Through(stk), IsRef(Element(stk))
  PROVE  /\ IsUse(Place(stk))
         /\ \E k : /\ Plain(k) /\ At(k) = Place(stk) /\ next_use < k
                   /\ ~ListedBefore(next_use + 1) => k = next_use + 1
                   /\ ~ListedBefore(k) => k = next_use + 1
<1> DEFINE p == Place(stk)
<1>1. AtElement(stk) /\ Chained(stk)
  BY ThroughFacts
<1>2. \A j \in 1..Len(stk) : ~stk[j].embedded
  <2>1. /\ \A j \in 1..Len(stk) : walks[j] = stk[j]
        /\ Len(walks) = Len(stk) \/ Len(walks) = Len(stk) + 1
    BY ThroughFacts
  <2>2. Len(stk) \in Nat
    BY <1>1 DEF AtElement, StackOK
  <2>3. \A j \in 1..Len(stk) : j \in 1..Len(walks)
    BY <2>1, <2>2
  <2> QED
    BY <2>1, <2>3 DEF TakenSoFar
<1>3. IsUse(p)
  BY <1>1, <1>2, PlaceIsUse
<1>4. PICK k : Plain(k) /\ At(k) = p
  BY <1>3 DEF AllCollected
<1>5. \A q : IsUse(q) => (Before(q, walks) <=> Precedes(q, p))
  <2> SUFFICES ASSUME NEW q, IsUse(q) PROVE Before(q, walks) <=> Precedes(q, p)
    OBVIOUS
  <2> DEFINE none == <<>>
             s == Passed(stk, none)
  <2> HIDE DEF none, p
  <2>1. Before(q, walks) <=> Precedes(q, Place(stk))
    BY InOrder
  <2> QED
    BY <2>1 DEF p
<1> HIDE DEF p
<1>6. ~Before(p, walks)
  BY <1>3, <1>5, NotItself
<1>7. next_use < k
  BY <1>4, <1>6 DEF TakenSoFar
<1>8. next_use \in Nat /\ Len(collected) \in Nat /\ k \in 1..Len(collected)
  <2>1. Len(collected) \in Nat /\ next_use \in Nat
    BY LenProperties DEF CiteInv, RestOK
  <2> QED
    BY <1>4, <2>1 DEF Plain
<1>9. ASSUME k # next_use + 1, ~ListedBefore(next_use + 1) PROVE FALSE
  <2> DEFINE j == next_use + 1
  <2>1. j \in 1..j /\ j \in 1..Len(collected) /\ j < k /\ j > next_use
    BY <1>7, <1>8, <1>9
  <2>2. Plain(j)
    BY <1>9, <2>1 DEF Plain, ListedBefore
  <2>3. ~ListedBefore(j)
    BY <1>9
  <2> HIDE DEF j
  <2>4. Precedes(At(j), p) /\ IsUse(At(j))
    BY <1>4, <2>1, <2>2 DEF InPlace
  <2>5. Before(At(j), walks)
    BY <1>5, <2>4
  <2>6. j <= next_use
    BY <2>2, <2>3, <2>5 DEF TakenSoFar
  <2> QED
    BY <1>8, <2>1, <2>6
<1>10. ~ListedBefore(k) => ~ListedBefore(next_use + 1)
  BY <1>7, <1>8 DEF ListedBefore
<1>11. /\ Plain(k) /\ At(k) = p /\ next_use < k
       /\ ~ListedBefore(next_use + 1) => k = next_use + 1
       /\ ~ListedBefore(k) => k = next_use + 1
  BY <1>4, <1>7, <1>9, <1>10
<1> QED
  BY <1>3, <1>11 DEF p

LEMMA MarkersRenderRef == MarkersInv /\ RenderRef => MarkersInv'
<1> SUFFICES ASSUME MarkersInv, RenderRef PROVE MarkersInv'
  OBVIOUS
<1>1. PICK stk \in Renders("ref") :
        /\ converted' = Converted(stk)
        /\ walks' = Passed(stk, <<ref_marker(Place(stk))>>)
        /\ next_use' = IF next_use = Len(use_ids) THEN next_use ELSE next_use + 1
        /\ UNCHANGED <<page, phase, state, first, cut_cursor, shown>>
  BY Zenon DEF RenderRef
<1> DEFINE p == Place(stk)
           r == ref_marker(p)
           results == <<r>>
<1>2. phase = "render" /\ Through(stk) /\ IsRef(Element(stk))
  BY RendersThrough DEF IsRef
<1>3. /\ CiteInv /\ UsesInv /\ StackOK(walks) /\ Chained(walks) /\ InPlace
      /\ AllCollected /\ TakenSoFar /\ \A n \in 1..Len(walks) : OutOK(walks[n])
  BY <1>2, InRender
<1>4. CiteInv'
  BY <1>3, RenderRefOK
<1>5. UNCHANGED <<page, phase, references, collected, use_ids>>
  BY <1>1 DEF state, first
<1>6. UsesInv'
  BY <1>3, <1>5 DEF UsesInv
<1>7. /\ IsUse(p)
      /\ \E k : /\ Plain(k) /\ At(k) = p /\ next_use < k
                /\ ~ListedBefore(next_use + 1) => k = next_use + 1
                /\ ~ListedBefore(k) => k = next_use + 1
  BY <1>2, <1>3, TheNextUse
<1>8. PICK k : /\ Plain(k) /\ At(k) = p /\ next_use < k
               /\ ~ListedBefore(next_use + 1) => k = next_use + 1
               /\ ~ListedBefore(k) => k = next_use + 1
  BY <1>7
<1>9. /\ next_use \in Nat /\ Len(collected) = Len(use_ids) /\ Len(use_ids) \in Nat
      /\ k \in 1..Len(use_ids)
  <2>1. Len(collected) \in Nat /\ next_use \in Nat /\ Len(collected) = Len(use_ids)
    BY <1>3, LenProperties DEF CiteInv, RestOK
  <2> QED
    BY <1>8, <2>1 DEF Plain
<1>10. next_use # Len(use_ids) /\ next_use' = next_use + 1
  BY <1>1, <1>8, <1>9
<1>11. ResultOK(r)
  <2> DEFINE n == next_use + 1
  <2>1. n \in 1..Len(use_ids)
    BY <1>8, <1>9
  <2>2. At(n) = p \/ ListedBefore(n)
    BY <1>8
  <2>3. r = Marker(p, CHOOSE i \in 1..Len(references) :
                          \E u \in Range(references[i].uses) : u.id = use_ids[n],
                   use_ids[n])
    BY <1>10 DEF ref_marker
  <2> HIDE DEF n, r, p
  <2> QED
    BY <1>3, <2>1, <2>2, <2>3, OwnMarker
<1> HIDE DEF r
<1>12. results = <<>> \/ \E x : ResultOK(x) /\ results = <<x>>
  BY <1>11
<1>13. walks' = Passed(stk, results)
  BY <1>1 DEF r
<1> HIDE DEF results
<1>14. /\ Chained(walks)' /\ InPlace' /\ AllCollected'
       /\ \A n \in 1..Len(walks') : ~walks'[n].embedded
       /\ (\A n \in 1..Len(walks) : OutOK(walks[n]))'
       /\ \A q : IsUse(q) => (Before(q, walks)' <=> Before(q, walks) \/ q = Place(stk))
  BY <1>2, <1>5, <1>12, <1>13, PassRender
<1>15. \A q : IsUse(q) => (Before(q, walks') <=> Before(q, walks) \/ q = p)
  BY <1>14, BeforeNext
<1>16. \A q : IsUse(q) /\ Precedes(q, p) => Before(q, walks)
  <2> SUFFICES ASSUME NEW q, IsUse(q), Precedes(q, p) PROVE Before(q, walks)
    OBVIOUS
  <2> DEFINE s == Passed(stk, results)
  <2> HIDE DEF p
  <2>1. Before(q, walks) <=> Precedes(q, Place(stk))
    BY <1>2, <1>3, InOrder
  <2> QED
    BY <2>1 DEF p
<1> HIDE DEF p
<1>17. ASSUME NEW j, Plain(j), ~Before(At(j), walks') PROVE next_use + 1 < j
  <2>1. IsUse(At(j)) /\ ~Before(At(j), walks) /\ At(j) # p
    BY <1>3, <1>15, <1>17 DEF InPlace
  <2>2. ~Precedes(At(j), p)
    BY <1>16, <2>1
  <2>3. ~(j < k) /\ j # k
    BY <1>3, <1>8, <1>17, <2>1, <2>2 DEF InPlace
  <2>4. j \in Nat
    BY <1>17 DEF Plain
  <2> QED
    BY <1>8, <1>9, <2>3, <2>4
<1>18. ASSUME NEW j, Plain(j), Before(At(j), walks'), ~ListedBefore(j) PROVE j <= next_use + 1
  <2>0. IsUse(At(j)) /\ j \in Nat
    BY <1>3, <1>18 DEF InPlace, Plain
  <2>1. CASE Before(At(j), walks)
    <3>1. j <= next_use
      BY <1>3, <1>18, <2>1 DEF TakenSoFar
    <3> QED
      BY <1>9, <2>0, <3>1
  <2>2. CASE At(j) = p
    <3>1. ~(k < j)
      <4>1. ASSUME k < j PROVE FALSE
        <5>1. Precedes(p, p)
          BY <1>3, <1>8, <1>18, <2>2, <4>1 DEF InPlace
        <5> QED
          BY <1>7, <5>1, NotItself
      <4> QED
        BY <4>1
    <3>2. ~(j < k)
      <4>1. ASSUME j < k PROVE FALSE
        <5>1. Precedes(p, p)
          BY <1>3, <1>8, <1>18, <2>2, <4>1 DEF InPlace
        <5> QED
          BY <1>7, <5>1, NotItself
      <4> QED
        BY <4>1
    <3>3. j = k
      BY <1>9, <2>0, <3>1, <3>2
    <3> QED
      BY <1>8, <1>9, <1>18, <3>3
  <2> QED
    BY <1>15, <1>18, <2>0, <2>1, <2>2
<1>19. TakenSoFar'
  <2>1. \A j : /\ Plain(j)' <=> Plain(j)
               /\ Before(At(j), walks)' <=> Before(At(j), walks')
               /\ ListedBefore(j)' <=> ListedBefore(j)
    BY <1>5 DEF Plain, At, Before, OnWay, ListedBefore
  <2> QED
    BY <1>10, <1>14, <1>17, <1>18, <2>1 DEF TakenSoFar
<1> QED
  BY <1>2, <1>4, <1>5, <1>6, <1>14, <1>19 DEF MarkersInv

LEMMA MarkersRenderList == MarkersInv /\ RenderList => MarkersInv'
<1> SUFFICES ASSUME MarkersInv, RenderList PROVE MarkersInv'
  OBVIOUS
<1>1. PICK stk \in Renders("references") :
        LET e == Element(stk)
            members == Members(e.group)
            entries == [n \in 1..Len(members) |-> Entry(members[n])]
            dropped == members = <<>> /\ (Top(stk).templated \/ e.templated)
        IN /\ walks' = Passed(stk, IF dropped THEN <<>>
                                   ELSE <<List(Place(stk), e.group, entries)>>)
           /\ cut_cursor' = cut_cursor + 1
           /\ UNCHANGED <<page, phase, state, first, next_use, converted, shown>>
  BY Zenon DEF RenderList
<1> DEFINE e == Element(stk)
           members == Members(e.group)
           entries == [n \in 1..Len(members) |-> Entry(members[n])]
           dropped == members = <<>> /\ (Top(stk).templated \/ e.templated)
           list == List(Place(stk), e.group, entries)
           results == IF dropped THEN <<>> ELSE <<list>>
<1>2. phase = "render" /\ Through(stk) /\ ~IsRef(e)
  BY RendersThrough DEF IsRef
<1>3. /\ CiteInv /\ UsesInv /\ StackOK(walks) /\ Chained(walks) /\ InPlace
      /\ AllCollected /\ TakenSoFar /\ \A n \in 1..Len(walks) : OutOK(walks[n])
  BY <1>2, InRender
<1>4. CiteInv'
  BY <1>3, RenderListOK
<1>5. UNCHANGED <<page, phase, references, collected, use_ids, next_use>>
  BY <1>1 DEF state, first
<1>6. UsesInv'
  BY <1>3, <1>5 DEF UsesInv
<1>7. walks' = Passed(stk, results)
  BY <1>1
<1>8. ResultOK(list)
  <2>1. list.kind = "list"
    BY DEF List
  <2> HIDE DEF list
  <2> QED
    BY <2>1 DEF ResultOK
<1> HIDE DEF list, dropped
<1>9. results = <<>> \/ \E x : ResultOK(x) /\ results = <<x>>
  BY <1>8
<1> HIDE DEF results
<1>10. ~IsUse(Place(stk))
  BY <1>2, <1>3, ThroughFacts, PlaceIsUse
<1>11. /\ Chained(walks)' /\ InPlace' /\ AllCollected'
       /\ \A n \in 1..Len(walks') : ~walks'[n].embedded
       /\ (\A n \in 1..Len(walks) : OutOK(walks[n]))'
       /\ \A q : IsUse(q) => (Before(q, walks)' <=> Before(q, walks) \/ q = Place(stk))
  BY <1>2, <1>5, <1>7, <1>9, PassRender
<1>12. \A q : IsUse(q) => (Before(q, walks)' <=> Before(q, walks))
  BY <1>10, <1>11
<1>13. TakenSoFar'
  BY <1>3, <1>5, <1>11, <1>12, TakenNext
<1> QED
  BY <1>2, <1>4, <1>5, <1>6, <1>11, <1>13 DEF MarkersInv

LEMMA MarkersEndRender == MarkersInv /\ EndRender => MarkersInv'
<1> SUFFICES ASSUME MarkersInv, EndRender PROVE MarkersInv'
  OBVIOUS
<1>1. /\ phase = "render" /\ phase' = "done"
      /\ UNCHANGED <<page, walks, references, collected, use_ids>>
  BY DEF EndRender, state, first
<1>2. /\ CiteInv /\ UsesInv /\ StackOK(walks) /\ Chained(walks) /\ InPlace
      /\ AllCollected /\ \A n \in 1..Len(walks) : OutOK(walks[n])
  BY <1>1, InRender
<1>3. CiteInv'
  BY <1>2, EndRenderOK
<1>4. UsesInv'
  BY <1>1, <1>2 DEF UsesInv
<1>5. Chained(walks)' /\ InPlace' /\ AllCollected'
  BY <1>1, <1>2, ChainedNext, InPlaceNext, AllCollectedNext
<1>6. (\A n \in 1..Len(walks) : OutOK(walks[n]))'
  BY <1>1, <1>2, OutsNext
<1> QED
  BY <1>1, <1>3, <1>4, <1>5, <1>6 DEF MarkersInv

\* The invariant holds of every page.
LEMMA MarkersInvariant == Spec => []MarkersInv
<1>1. MarkersInv /\ [Next]_vars => MarkersInv'
  <2> SUFFICES ASSUME MarkersInv, [Next]_vars PROVE MarkersInv'
    OBVIOUS
  <2>1. CASE Next
    BY <2>1, MarkersEnter, MarkersCollectUse, MarkersAddEmbedded, MarkersCutList,
       MarkersListInList, MarkersEndCollect, MarkersEnterNote, MarkersRenderRef,
       MarkersRenderList, MarkersEndRender DEF Next
  <2>2. CASE UNCHANGED vars
    <3>1. UNCHANGED <<page, phase, walks, references, collected, use_ids, next_use>>
      BY <2>2 DEF vars, state, first, second
    <3>2. CiteInv'
      <4>1. NotesInv'
        BY <2>2, SameNotes DEF MarkersInv, CiteInv, vars
      <4>2. StackOK(walks)' /\ RestOK'
        BY <2>2 DEF MarkersInv, CiteInv, StackOK, RestOK, vars, first, second
      <4> QED
        BY <4>1, <4>2 DEF CiteInv
    <3>3. UsesInv'
      BY <3>1 DEF MarkersInv, UsesInv
    <3>4. Chained(walks)' /\ InPlace' /\ (phase # "collect" => AllCollected)'
      BY <3>1, ChainedNext, InPlaceNext, AllCollectedNext DEF MarkersInv
    <3>5. (\A n \in 1..Len(walks) : OutOK(walks[n]))'
      BY <3>1, OutsNext DEF MarkersInv
    <3>6. (phase = "render" => TakenSoFar)'
      BY <3>1 DEF MarkersInv, TakenSoFar, Plain, At, Before, OnWay, ListedBefore
    <3>7. (phase = "collect" => CollectedSoFar)'
      BY <3>1 DEF MarkersInv, CollectedSoFar, Plain, At, Before, OnWay, IsUse, Way
    <3> QED
      BY <3>2, <3>3, <3>4, <3>5, <3>6, <3>7 DEF MarkersInv
  <2> QED
    BY <2>1, <2>2
<1> QED
  BY <1>1, MarkersInit, PTL DEF Spec

\* Every <ref> that the second walk comes to is replaced, by the marker of the
\* use that the first walk collected for it, unless a use in a list-defined note
\* came before (walk_render, collect_in), for all pages.
THEOREM MarkersAreOwn == Spec => []MarkersOwn
<1>1. MarkersInv => MarkersOwn
  BY DEF MarkersInv, OutOK, ResultOK, MarkersOwn
<1> QED
  BY <1>1, MarkersInvariant, PTL

-----------------------------------------------------------------------------
(* Lists.  A list of the page has the cut of its number, if no note of the  *)
(* kind that the walks go into has a list in it.  With one, the note it is  *)
(* in may be shown there and not in the page.                               *)

IsList(e) == e.kind = "references"

NoListsInNotes ==
    \A t \in nested_ref_bodies : \A i \in 1..Len(Bodies[t]) : ~IsList(Bodies[t][i])

ListAt(i) == i \in 1..Len(page) /\ IsList(page[i])
CutNo(i) == Cardinality({j \in 1..i : ListAt(j)})
Cut(i) == ListAt(i) /\ CutNo(i) <= Len(cuts)

\* Where the page's walk is.
Here == walks[1].next

\* One list more or none.
LEMMA NextCutNo ==
  ASSUME NEW i \in Nat \ {0}
  PROVE  /\ CutNo(i) \in Nat /\ CutNo(i - 1) \in Nat /\ CutNo(0) = 0
         /\ ListAt(i) => CutNo(i) = CutNo(i - 1) + 1
         /\ ~ListAt(i) => CutNo(i) = CutNo(i - 1)
<1> DEFINE S(n) == {j \in 1..n : ListAt(j)}
<1>1. S(0) = {} /\ Cardinality(S(0)) = 0
  BY FS_EmptySet
<1>2. \A n \in Nat : IsFiniteSet(S(n)) /\ Cardinality(S(n)) \in Nat
  <2> SUFFICES ASSUME NEW n \in Nat PROVE IsFiniteSet(S(n)) /\ Cardinality(S(n)) \in Nat
    OBVIOUS
  <2>1. IsFiniteSet(1..n)
    BY FS_Interval
  <2>2. S(n) \subseteq 1..n
    OBVIOUS
  <2> HIDE DEF S
  <2>3. IsFiniteSet(S(n))
    BY <2>1, <2>2, FS_Subset
  <2> QED
    BY <2>3, FS_CardinalityType
<1>3. i - 1 \in Nat
  OBVIOUS
<1>4. CASE ListAt(i)
  <2>1. S(i) = S(i - 1) \union {i} /\ i \notin S(i - 1)
    BY <1>4
  <2> HIDE DEF S
  <2>2. Cardinality(S(i)) = Cardinality(S(i - 1)) + 1
    BY <1>2, <1>3, <2>1, FS_AddElement
  <2> QED
    BY <1>1, <1>2, <1>3, <1>4, <2>2 DEF CutNo, S
<1>5. CASE ~ListAt(i)
  <2>1. S(i) = S(i - 1)
    BY <1>5
  <2> HIDE DEF S
  <2> QED
    BY <1>1, <1>2, <1>3, <1>5, <2>1 DEF CutNo, S
<1> QED
  BY <1>4, <1>5

\* Lists are numbered in their order.
LEMMA CutNoOrder ==
  ASSUME NEW i \in Nat, NEW j \in Nat, i <= j
  PROVE  /\ CutNo(i) \in Nat /\ CutNo(j) \in Nat /\ CutNo(i) <= CutNo(j)
         /\ i < j /\ ListAt(j) => CutNo(i) < CutNo(j)
<1> DEFINE S(n) == {k \in 1..n : ListAt(k)}
<1>1. ASSUME NEW m \in Nat, NEW n \in Nat, m <= n
      PROVE  CutNo(m) \in Nat /\ CutNo(n) \in Nat /\ CutNo(m) <= CutNo(n)
  <2>1. S(m) \subseteq S(n) /\ S(m) \subseteq 1..m /\ S(n) \subseteq 1..n
    BY <1>1
  <2>2. IsFiniteSet(1..m) /\ IsFiniteSet(1..n)
    BY FS_Interval
  <2> HIDE DEF S
  <2>3. IsFiniteSet(S(m)) /\ IsFiniteSet(S(n))
    BY <2>1, <2>2, FS_Subset
  <2>4. Cardinality(S(m)) <= Cardinality(S(n))
    BY <2>1, <2>3, FS_Subset
  <2>5. Cardinality(S(m)) \in Nat /\ Cardinality(S(n)) \in Nat
    BY <2>3, FS_CardinalityType
  <2> QED
    BY <2>4, <2>5 DEF CutNo, S
<1>2. ASSUME i < j, ListAt(j) PROVE CutNo(i) < CutNo(j)
  <2>1. j - 1 \in Nat /\ i <= j - 1 /\ j \in Nat \ {0}
    BY <1>2
  <2>2. CutNo(i) <= CutNo(j - 1) /\ CutNo(i) \in Nat
    BY <1>1, <2>1
  <2>3. CutNo(j) = CutNo(j - 1) + 1 /\ CutNo(j - 1) \in Nat
    BY <1>2, <2>1, NextCutNo
  <2> QED
    BY <2>2, <2>3
<1> QED
  BY <1>1, <1>2

\* The walks come to a list that is not in a list in the page alone.
LEMMA ListOfPage ==
  ASSUME NoListsInNotes, NEW stk, AtElement(stk), Chained(stk),
         IsList(Element(stk)), ~Top(stk).embedded
  PROVE  /\ Len(stk) = 1 /\ Top(stk) = stk[1]
         /\ ListAt(stk[1].next) /\ Element(stk) = page[stk[1].next]
<1> DEFINE m == Len(stk)
<1>1. m \in Nat \ {0} /\ m \in 1..m /\ Top(stk) = stk[m]
  BY TopIn DEF AtElement, StackOK
<1>2. stk[m].nodes \in Seq(Elements) /\ stk[m].next \in 1..Len(stk[m].nodes)
  <2>1. WalkOK(stk[m]) /\ ~AtEnd(stk[m])
    BY <1>1, ElementType DEF AtElement
  <2>2. Len(stk[m].nodes) \in Nat
    BY <2>1, LenProperties DEF WalkOK
  <2> QED
    BY <2>1, <2>2 DEF WalkOK, AtEnd
<1>3. Element(stk) = stk[m].nodes[stk[m].next]
  BY <1>1 DEF Element
<1>4. ASSUME m # 1 PROVE FALSE
  <2> DEFINE e == stk[m - 1].nodes[stk[m - 1].next]
  <2>1. m - 1 \in 1..(m - 1) /\ m - 1 + 1 = m
    BY <1>1, <1>4, SMTT(30)
  <2>2. Within(stk, m - 1)
    BY <2>1 DEF Chained
  <2>3. stk[m].nodes = Bodies[e.body] /\ nested_body(e)
    BY <1>1, <2>1, <2>2 DEF Within
  <2> HIDE DEF e
  <2>4. e.body \in nested_ref_bodies
    BY <2>3 DEF nested_body
  <2> QED
    BY <1>2, <1>3, <2>3, <2>4 DEF NoListsInNotes
<1>5. stk[1].nodes = page
  BY DEF Chained
<1> HIDE DEF m
<1>6. m = 1
  BY <1>4
<1> QED
  BY <1>1, <1>2, <1>3, <1>5, <1>6 DEF ListAt, m

-----------------------------------------------------------------------------
(* Cuts.                                                                    *)

InSeq(x, s) == \E n \in 1..Len(s) : s[n] = x
Apart(s, t) == \A m \in 1..Len(s) : \A n \in 1..Len(t) : s[m] # t[n]
Waiting(g) == group_members[g]

\* A cut has notes of the group of its list, by their numbers; and no note is in
\* two of them, or waits for another list.
CutsInv ==
    /\ \A k \in 1..Len(cuts) : \A n \in 1..Len(cuts[k]) :
          cuts[k][n] \in 1..Len(references) /\ references[cuts[k][n]].number = n
    /\ \A i : Cut(i) => \A n \in 1..Len(cuts[CutNo(i)]) :
          references[cuts[CutNo(i)][n]].group = page[i].group
    /\ \A k \in 1..Len(cuts) : \A g \in DOMAIN group_members : Apart(cuts[k], Waiting(g))
    /\ \A j, k \in 1..Len(cuts) : j # k => Apart(cuts[j], cuts[k])

\* The list at i of the page comes after the use.
After(i, use) == IF use.listed THEN i >= use.place[1] ELSE i > use.place[1]

\* A list of the group of the use that was cut after it.
Takes(i, use) ==
    Cut(i) /\ page[i].group = references[use.note].group /\ After(i, use)

\* The note of a use waits for the next list of its group, or is in the cut of
\* the first that came.
UseShown(use) ==
    \/ /\ references[use.note].group \in DOMAIN group_members
       /\ InSeq(use.note, Waiting(references[use.note].group))
       /\ \A i : ~Takes(i, use)
    \/ \E i : /\ Takes(i, use) /\ InSeq(use.note, cuts[CutNo(i)])
              /\ \A j : Takes(j, use) => i <= j

\* The parts of the state that the cuts are about after a note was added or
\* used: notes keep their groups and numbers, and only a new one waits that did
\* not before.
NotesGrow ==
    /\ Len(references) \in Nat /\ Len(references') \in Nat
    /\ Len(references) <= Len(references')
    /\ \A j \in 1..Len(references) : Same(references'[j], references[j])
    /\ \A h \in DOMAIN group_members' : \A n \in 1..Len(group_members'[h]) :
          \/ group_members'[h][n] = Len(references) + 1
          \/ /\ h \in DOMAIN group_members /\ n \in 1..Len(group_members[h])
             /\ group_members'[h][n] = group_members[h][n]
    /\ \A h \in DOMAIN group_members :
          /\ h \in DOMAIN group_members'
          /\ \A x : InSeq(x, group_members[h]) => InSeq(x, group_members'[h])

LEMMA AddGrows ==
  ASSUME NotesInv, NEW e \in Elements, NEW g \in Groups, NEW r \in References,
         Same(r, Note(e, g)), add_full(e, g, r)
  PROVE  /\ NotesGrow
         /\ references'[NoteIndex(e, g)].group = g
         /\ g \in DOMAIN group_members' /\ InSeq(NoteIndex(e, g), group_members'[g])
<1> DEFINE i == NoteIndex(e, g)
           L == Len(references)
           W == Get(group_members, g, <<>>)
           k == <<g, trim[e.name]>>
<1>1. /\ L \in Nat /\ references \in Seq(References)
      /\ \A h \in DOMAIN group_members : group_members[h] \in Seq(Nat)
      /\ DOMAIN index \subseteq Groups \X (Names \union Groups)
      /\ \A x \in DOMAIN index : index[x] \in 1..L
  BY LenProperties DEF NotesInv, NotesType
<1>2. \/ /\ i \in 1..L /\ references' = [references EXCEPT ![i] = r]
         /\ group_members' = group_members
      \/ /\ i = L + 1 /\ references' = Append(references, r)
         /\ group_members' = With(group_members, g, Append(W, i))
  BY ZenonT(40) DEF add_full
<1>3. CASE /\ i \in 1..L /\ references' = [references EXCEPT ![i] = r]
           /\ group_members' = group_members
  <2>1. /\ Len(references') = L
        /\ \A j \in 1..L : references'[j] = IF j = i THEN r ELSE references[j]
    BY <1>1, <1>3, ExceptSeq
  <2>2. Note(e, g) = references[i]
    BY <1>3 DEF Note
  <2>3. \A j \in 1..L : Same(references'[j], references[j])
    BY <2>1, <2>2 DEF Same
  <2>4. NotesGrow
    BY <1>1, <1>3, <2>1, <2>3 DEF NotesGrow
  <2>5. k \in DOMAIN index /\ i = index[k]
    <3>1. k \notin DOMAIN index => i = L + 1
      BY DEF NoteIndex
    <3>2. i # L + 1
      BY <1>1, <1>3
    <3> QED
      BY <3>1, <3>2 DEF NoteIndex
  <2>6. k[1] = g
    OBVIOUS
  <2> HIDE DEF k, i
  <2>7. NameOK(k) /\ AgreeByParts
    BY <2>5, ByParts DEF NotesInv, AgreeByParts
  <2>8. g \in DOMAIN group_members /\ i \in Range(group_members[g])
    BY <2>5, <2>6, <2>7 DEF NameOK
  <2>9. PICK n \in 1..Len(group_members[g]) : group_members[g][n] = i
    <3>1. DOMAIN group_members[g] = 1..Len(group_members[g])
      BY <1>1, <2>8, LenProperties
    <3> QED
      BY <2>8, <3>1 DEF Range
  <2>10. references[i].group = g
    BY <2>7, <2>8, <2>9 DEF AgreeByParts, WaitsOK
  <2>11. references'[i].group = g
    BY <1>3, <2>3, <2>10 DEF Same
  <2>12. InSeq(i, group_members'[g])
    BY <1>3, <2>9 DEF InSeq
  <2> QED
    BY <1>3, <2>4, <2>8, <2>11, <2>12 DEF i
<1>4. CASE /\ i = L + 1 /\ references' = Append(references, r)
           /\ group_members' = With(group_members, g, Append(W, i))
  <2>1. /\ Len(references') = L + 1 /\ references'[L + 1] = r
        /\ \A j \in 1..L : references'[j] = references[j]
    BY <1>1, <1>4, AppendProperties
  <2>2. W \in Seq(Nat)
    BY <1>1, EmptySeq DEF Get
  <2> DEFINE X == Append(W, i)
  <2>3. /\ X \in Seq(Nat) /\ Len(X) = Len(W) + 1 /\ X[Len(W) + 1] = i /\ Len(W) \in Nat
        /\ \A n \in 1..Len(W) : X[n] = W[n]
    <3>1. i \in Nat
      BY <1>1, <1>4
    <3> HIDE DEF i, W
    <3> QED
      BY <2>2, <3>1, AppendProperties, LenProperties
  <2> HIDE DEF X
  <2>4. /\ DOMAIN group_members' = DOMAIN group_members \union {g}
        /\ group_members'[g] = X
        /\ \A h \in DOMAIN group_members : h # g => group_members'[h] = group_members[h]
    <3>1. group_members' = With(group_members, g, X)
      BY <1>4 DEF X
    <3> QED
      BY <3>1 DEF With
  <2>5. g \in DOMAIN group_members => W = group_members[g]
    BY DEF Get
  <2>6. g \notin DOMAIN group_members => Len(W) = 0
    BY EmptySeq DEF Get
  <2> HIDE DEF W, i
  <2>7. ASSUME NEW h \in DOMAIN group_members', NEW n \in 1..Len(group_members'[h])
        PROVE \/ group_members'[h][n] = L + 1
              \/ /\ h \in DOMAIN group_members /\ n \in 1..Len(group_members[h])
                 /\ group_members'[h][n] = group_members[h][n]
    <3>1. CASE h # g
      BY <2>4, <3>1
    <3>2. CASE h = g
      <4>1. n = Len(W) + 1 \/ n \in 1..Len(W)
        BY <2>3, <2>4, <3>2
      <4>2. n \in 1..Len(W) => g \in DOMAIN group_members
        BY <2>6
      <4> QED
        BY <1>4, <2>3, <2>4, <2>5, <3>2, <4>1, <4>2
    <3> QED
      BY <3>1, <3>2
  <2>8. ASSUME NEW h \in DOMAIN group_members, NEW x, InSeq(x, group_members[h])
        PROVE InSeq(x, group_members'[h])
    <3>1. CASE h # g
      BY <2>4, <2>8, <3>1
    <3>2. CASE h = g
      <4>1. PICK n \in 1..Len(W) : W[n] = x
        BY <2>5, <2>8, <3>2 DEF InSeq
      <4>2. n \in 1..Len(X) /\ X[n] = x
        BY <2>3, <4>1
      <4> QED
        BY <2>4, <3>2, <4>2 DEF InSeq
    <3> QED
      BY <3>1, <3>2
  <2>9. NotesGrow
    <3>1. Len(references') \in Nat /\ L <= Len(references')
      BY <1>1, <2>1
    <3>2. \A j \in 1..L : Same(references'[j], references[j])
      BY <2>1 DEF Same
    <3>3. DOMAIN group_members \subseteq DOMAIN group_members'
      BY <2>4
    <3> QED
      BY <1>1, <2>7, <2>8, <3>1, <3>2, <3>3 DEF NotesGrow
  <2>10. InSeq(i, group_members'[g])
    <3>1. Len(W) + 1 \in 1..Len(X)
      BY <2>3
    <3> QED
      BY <2>3, <2>4, <3>1 DEF InSeq
  <2>11. references'[i].group = g
    <3>1. Note(e, g) = Reference(trim[e.name], g, Get(next_number, g, 1),
                                 next_global + 1, e.body = NoBody)
      <4>1. i \notin 1..L
        BY <1>1, <1>4
      <4> QED
        BY <4>1 DEF Note, i
    <3>2. Note(e, g).group = g
      BY <3>1 DEF Reference
    <3> QED
      BY <1>4, <2>1, <3>2 DEF Same
  <2> QED
    BY <2>4, <2>9, <2>10, <2>11 DEF i
<1> QED
  BY <1>2, <1>3, <1>4

\* While no list is cut, cuts stay what they were, and notes that are shown are.
LEMMA CutsStay ==
  ASSUME CutsInv, NotesGrow, UNCHANGED <<page, cuts>> PROVE CutsInv'
<1>1. \A i : (ListAt(i)' <=> ListAt(i)) /\ CutNo(i)' = CutNo(i) /\ (Cut(i)' <=> Cut(i))
  BY DEF ListAt, CutNo, Cut
<1>2. \A k \in 1..Len(cuts) : \A n \in 1..Len(cuts[k]) :
         /\ cuts[k][n] \in 1..Len(references) /\ references[cuts[k][n]].number = n
         /\ Same(references'[cuts[k][n]], references[cuts[k][n]])
  BY DEF CutsInv, NotesGrow
<1>3. ASSUME NEW k \in 1..Len(cuts), NEW n \in 1..Len(cuts[k])
      PROVE cuts[k][n] \in 1..Len(references') /\ references'[cuts[k][n]].number = n
  <2>1. /\ cuts[k][n] \in 1..Len(references) /\ references[cuts[k][n]].number = n
        /\ Same(references'[cuts[k][n]], references[cuts[k][n]])
    BY <1>2
  <2>2. Len(references) \in Nat /\ Len(references') \in Nat /\ Len(references) <= Len(references')
    BY DEF NotesGrow
  <2> QED
    BY <2>1, <2>2 DEF Same
<1>4. ASSUME NEW i, Cut(i), NEW n \in 1..Len(cuts[CutNo(i)])
      PROVE references'[cuts[CutNo(i)][n]].group = page[i].group
  <2>1. CutNo(i) \in 1..Len(cuts)
    <3>1. i \in Nat \ {0} /\ ListAt(i)
      BY <1>4 DEF Cut, ListAt
    <3>2. CutNo(i) \in Nat /\ CutNo(i - 1) \in Nat /\ CutNo(i) = CutNo(i - 1) + 1
      BY <3>1, NextCutNo
    <3> QED
      BY <1>4, <3>2 DEF Cut
  <2> DEFINE k == CutNo(i)
  <2> HIDE DEF k
  <2>2. Same(references'[cuts[k][n]], references[cuts[k][n]])
    BY <1>2, <1>4, <2>1 DEF k
  <2>3. references[cuts[k][n]].group = page[i].group
    BY <1>4 DEF CutsInv, k
  <2> QED
    BY <2>2, <2>3 DEF Same, k
<1>5. ASSUME NEW k \in 1..Len(cuts), NEW g \in DOMAIN group_members'
      PROVE Apart(cuts[k], group_members'[g])
  <2> SUFFICES ASSUME NEW m \in 1..Len(cuts[k]), NEW n \in 1..Len(group_members'[g])
               PROVE cuts[k][m] # group_members'[g][n]
    BY DEF Apart
  <2>1. CASE group_members'[g][n] = Len(references) + 1
    BY <1>2, <2>1 DEF NotesGrow
  <2>2. CASE /\ g \in DOMAIN group_members /\ n \in 1..Len(group_members[g])
             /\ group_members'[g][n] = group_members[g][n]
    BY <2>2 DEF CutsInv, Apart, Waiting
  <2> QED
    BY <2>1, <2>2 DEF NotesGrow
<1>6. \A j, k \in 1..Len(cuts) : j # k => Apart(cuts[j], cuts[k])
  BY DEF CutsInv
<1> QED
  BY <1>1, <1>3, <1>4, <1>5, <1>6, SMTT(30) DEF CutsInv, Apart, Waiting

LEMMA ShownStays ==
  ASSUME NotesGrow, UNCHANGED <<page, cuts>>, NEW use, use.note \in 1..Len(references),
         UseShown(use)
  PROVE  UseShown(use)'
<1>1. \A i : Cut(i)' <=> Cut(i)
  BY DEF ListAt, CutNo, Cut
<1>2. references'[use.note].group = references[use.note].group
  BY DEF NotesGrow, Same
<1>3. \A i : Takes(i, use)' <=> Takes(i, use)
  BY <1>1, <1>2 DEF Takes, After
<1>4. \A i : CutNo(i)' = CutNo(i)
  BY DEF ListAt, CutNo
<1> DEFINE g == references[use.note].group
<1>5. g \in DOMAIN group_members /\ InSeq(use.note, group_members[g])
         => g \in DOMAIN group_members' /\ InSeq(use.note, group_members'[g])
  BY DEF NotesGrow
<1> HIDE DEF g
<1>6. CASE /\ g \in DOMAIN group_members /\ InSeq(use.note, group_members[g])
           /\ \A i : ~Takes(i, use)
  BY <1>2, <1>3, <1>5, <1>6 DEF UseShown, Waiting, InSeq, g
<1>7. CASE \E i : /\ Takes(i, use) /\ InSeq(use.note, cuts[CutNo(i)])
                  /\ \A j : Takes(j, use) => i <= j
  <2>1. PICK i : /\ Takes(i, use) /\ InSeq(use.note, cuts[CutNo(i)])
                 /\ \A j : Takes(j, use) => i <= j
    BY <1>7
  <2>2. InSeq(use.note, cuts[CutNo(i)])'
    BY <1>4, <2>1 DEF InSeq
  <2> QED
    BY <1>3, <2>1, <2>2 DEF UseShown
<1> QED
  BY <1>6, <1>7 DEF UseShown, Waiting, g

-----------------------------------------------------------------------------
(* The invariant.  The first walk has cut the lists of the page that it has *)
(* passed, the second one has shown their cuts.                             *)

IsShownList(r) == r.kind = "list"

ListShown(r, h) ==
    /\ ListAt(r.place[1]) /\ r.place[1] < h /\ r.group = page[r.place[1]].group
    /\ Len(r.entries) = Len(cuts[CutNo(r.place[1])])
    /\ Notes(r) = cuts[CutNo(r.place[1])]

\* Of the lists before h of the page, those with something in their cuts are in
\* the results, once, with their cuts, and no other is.
OutLists(o, h) ==
    /\ \A r \in Range(o) : IsShownList(r) => ListShown(r, h)
    /\ \A r, s \in Range(o) :
          IsShownList(r) /\ IsShownList(s) /\ r.place[1] = s.place[1] => r = s
    /\ \A i : ListAt(i) /\ i < h /\ cuts[CutNo(i)] # <<>> =>
          \E r \in Range(o) : IsShownList(r) /\ r.place[1] = i

CutSoFar ==
    /\ Len(cuts) = CutNo(Here - 1) /\ cut_cursor = 0
    /\ \A k \in 1..Len(collected) : collected[k].place[1] \in Nat /\ collected[k].place[1] <= Here

ShownSoFar ==
    /\ Len(cuts) = CutNo(Len(page)) /\ cut_cursor = CutNo(Here - 1)
    /\ OutLists(walks[1].out, Here)

ListsInv ==
    /\ MarkersInv /\ CutsInv
    /\ \A k \in 1..Len(collected) : UseShown(collected[k])
    /\ phase = "collect" => CutSoFar
    /\ phase # "collect" => ShownSoFar
    /\ phase = "done" => shown = walks[1].out /\ Here = Len(page) + 1

\* Where the page's walk is, and what it leaves when something is passed.
LEMMA HereType ==
  ASSUME StackOK(walks), Chained(walks), RestOK
  PROVE  /\ Len(page) \in Nat /\ Here \in 1..(Len(page) + 1) /\ Here \in Nat
         /\ Len(walks) \in Nat \ {0} /\ walks[1].nodes = page
<1>1. Len(page) \in Nat /\ walks[1].nodes = page /\ Len(walks) \in Nat \ {0}
  BY LenProperties DEF RestOK, Chained, StackOK
<1>2. WalkOK(walks[1])
  BY <1>1 DEF StackOK
<1> QED
  BY <1>1, <1>2 DEF WalkOK, Here

LEMMA HerePassed ==
  ASSUME StackOK(walks), Chained(walks), RestOK, NEW stk, Through(stk), NEW results,
         walks' = Passed(stk, results)
  PROVE  /\ AtElement(stk) /\ Chained(stk) /\ stk[1].next = Here
         /\ Len(stk) = 1 => /\ walks'[1].next = Here + 1
                            /\ walks'[1].out = walks[1].out \o results
                            /\ Element(stk) = page[Here] /\ Here \in 1..Len(page)
         /\ Len(stk) # 1 => walks'[1].next = Here /\ walks'[1].out = walks[1].out
         /\ Here = walks'[1].next \/ Here + 1 = walks'[1].next
<1> DEFINE m == Len(stk)
<1>1. AtElement(stk) /\ Chained(stk) /\ \A j \in 1..m : walks[j] = stk[j]
  BY ThroughFacts
<1>2. /\ m \in Nat \ {0} /\ \A i \in 1..(m - 1) : walks'[i] = stk[i]
      /\ walks'[m].next = stk[m].next + 1 /\ walks'[m].out = stk[m].out \o results
  BY <1>1, PassedFacts DEF Top
<1> HIDE DEF m
<1>3. m # 1 => 1 \in 1..(m - 1)
  BY <1>2
<1>4. 1 \in 1..m
  BY <1>2
<1> USE DEF m
<1>5. stk[1] = walks[1]
  BY <1>1, <1>4
<1>6. m # 1 => walks'[1] = walks[1]
  BY <1>2, <1>3, <1>4, <1>5
<1>7. ASSUME m = 1 PROVE Element(stk) = page[Here] /\ Here \in 1..Len(page)
  <2>1. Top(stk) = stk[1] /\ stk[1].nodes = page /\ ~AtEnd(stk[1])
    BY <1>1, <1>7 DEF Top, Chained, AtElement
  <2>2. Element(stk) = page[Here]
    BY <1>5, <2>1 DEF Element, Here
  <2> QED
    BY <1>5, <2>1, <2>2, HereType DEF AtEnd, Here
<1>8. m = 1 => walks'[1].next = Here + 1 /\ walks'[1].out = walks[1].out \o results
  BY <1>2, <1>5 DEF Here
<1> HIDE DEF m
<1> QED
  BY <1>1, <1>5, <1>6, <1>7, <1>8 DEF Here, m

\* The lists of the page are the same.
LEMMA SameLists ==
  ASSUME UNCHANGED page
  PROVE  \A i : (ListAt(i)' <=> ListAt(i)) /\ CutNo(i)' = CutNo(i)
  BY DEF ListAt, CutNo

\* What passes no list of the page leaves the cuts.
LEMMA PassNoList ==
  ASSUME StackOK(walks), Chained(walks), RestOK, NEW stk, Through(stk), NEW results,
         walks' = Passed(stk, results), UNCHANGED page,
         Len(stk) = 1 => ~IsList(Element(stk))
  PROVE  CutNo(Here - 1)' = CutNo(Here - 1)
<1>1. PICK h : h = Here'
  OBVIOUS
<1>2. h = walks'[1].next
  BY <1>1 DEF Here
<1>3. h = Here \/ (h = Here + 1 /\ ~ListAt(Here))
  <2>1. CASE Len(stk) = 1
    BY <1>2, <2>1, HerePassed DEF ListAt
  <2>2. CASE Len(stk) # 1
    BY <1>2, <2>2, HerePassed
  <2> QED
    BY <2>1, <2>2
<1>4. Here \in Nat \ {0}
  BY HereType
<1>5. CutNo(h - 1) = CutNo(Here - 1)
  <2>1. ~ListAt(Here) => CutNo(Here) = CutNo(Here - 1)
    BY <1>4, NextCutNo
  <2>2. h = Here + 1 => h - 1 = Here
    BY <1>4
  <2> QED
    BY <1>3, <2>1, <2>2
<1>6. CutNo(h - 1)' = CutNo(h - 1)
  BY SameLists
<1>7. CutNo(Here - 1)' = CutNo(h - 1)'
  BY <1>2 DEF CutNo, Here
<1> QED
  BY <1>5, <1>6, <1>7

LEMMA HereStays ==
  ASSUME UNCHANGED page, walks'[1].next = walks[1].next
  PROVE  CutNo(Here - 1)' = CutNo(Here - 1)
  BY DEF CutNo, ListAt, Here

LEMMA NothingGrows ==
  ASSUME NotesInv, UNCHANGED <<references, group_members>> PROVE NotesGrow
<1>1. Len(references) \in Nat
  BY LenProperties DEF NotesInv, NotesType
<1>2. \A x : Same(x, x)
  BY SMTT(30) DEF Same
<1> QED
  BY <1>1, <1>2 DEF NotesGrow, InSeq

LEMMA ShownAt ==
  ASSUME NEW k, NEW u, u = collected'[k], UseShown(u)' PROVE UseShown(collected[k])'
  BY DEF UseShown, Takes, After, Waiting, InSeq

\* While nothing is collected or cut, what was shown is.
LEMMA SameShown ==
  ASSUME CutsInv, UsesInv, \A k \in 1..Len(collected) : UseShown(collected[k]),
         NotesGrow, UNCHANGED <<page, cuts, collected>>
  PROVE  CutsInv' /\ (\A k \in 1..Len(collected) : UseShown(collected[k]))'
<1>1. CutsInv'
  BY CutsStay
<1> SUFFICES ASSUME NEW k \in 1..Len(collected) PROVE UseShown(collected[k])'
  BY <1>1
<1>2. PICK u : u = collected[k]
  OBVIOUS
<1>3. u.note \in 1..Len(references) /\ UseShown(u)
  <2>1. \A c : c = collected[k] => UseShown(c)
    OBVIOUS
  <2> QED
    BY <1>2, <2>1 DEF UsesInv
<1>4. UseShown(u)'
  BY <1>3, ShownStays
<1> QED
  BY <1>2, <1>4, ShownAt

\* A step of the first walk that neither collects nor cuts.
LEMMA ListsCollect ==
  ASSUME ListsInv, phase = "collect", MarkersInv', NotesGrow,
         UNCHANGED <<page, phase, cuts, cut_cursor, collected>>,
         CutNo(Here - 1)' = CutNo(Here - 1),
         Here = walks'[1].next \/ Here + 1 = walks'[1].next
  PROVE  ListsInv'
<1>1. MarkersInv /\ CutsInv /\ CutSoFar /\ \A k \in 1..Len(collected) : UseShown(collected[k])
  BY DEF ListsInv
<1>2. UsesInv /\ CiteInv /\ Chained(walks)
  BY <1>1 DEF MarkersInv
<1>3. CutsInv' /\ (\A k \in 1..Len(collected) : UseShown(collected[k]))'
  BY <1>1, <1>2, SameShown
<1>4. Here \in Nat
  BY <1>2, HereType DEF CiteInv
<1>5. ASSUME NEW k \in 1..Len(collected)
      PROVE collected[k].place[1] \in Nat /\ collected[k].place[1] <= walks'[1].next
  <2>1. collected[k].place[1] \in Nat /\ collected[k].place[1] <= Here
    BY <1>1 DEF CutSoFar
  <2> QED
    BY <1>4, <2>1
<1>6. CutSoFar'
  <2>1. Len(cuts) = CutNo(Here - 1) /\ cut_cursor = 0
    BY <1>1 DEF CutSoFar
  <2>2. Len(cuts') = CutNo(Here - 1)' /\ cut_cursor' = 0
    BY <2>1
  <2>3. \A k \in 1..Len(collected') :
           collected'[k].place[1] \in Nat /\ collected'[k].place[1] <= Here'
    BY <1>5 DEF Here
  <2> QED
    BY <2>2, <2>3 DEF CutSoFar
<1> QED
  BY <1>3, <1>6 DEF ListsInv

LEMMA ListsEnter == ListsInv /\ Enter => ListsInv'
<1> SUFFICES ASSUME ListsInv, Enter PROVE ListsInv'
  OBVIOUS
<1>1. MarkersInv /\ phase = "collect" /\ CiteInv /\ MarkersInv'
  BY MarkersEnter DEF ListsInv, Enter, MarkersInv
<1>2. UNCHANGED <<page, phase, cuts, cut_cursor, collected, references, group_members>>
  BY DEF Enter, state, first, second
<1>3. PICK w : walks' = Append(walks, w)
  BY Zenon DEF Enter
<1>4. walks'[1] = walks[1]
  <2>1. IsSeq(walks) /\ Len(walks) \in Nat \ {0}
    BY <1>1 DEF CiteInv, StackOK
  <2>2. 1 \in 1..Len(walks)
    BY <2>1
  <2> QED
    BY <1>3, <2>1, <2>2, Pushed
<1>5. NotesGrow
  BY <1>1, <1>2, NothingGrows DEF CiteInv
<1> QED
  BY <1>1, <1>2, <1>4, <1>5, HereStays, ListsCollect DEF Here

LEMMA ListsAddEmbedded == ListsInv /\ add_embedded => ListsInv'
<1> SUFFICES ASSUME ListsInv, add_embedded PROVE ListsInv'
  OBVIOUS
<1>1. PICK stk \in Collects("ref", TRUE) :
        /\ add_full(Element(stk), GroupIn(stk),
                    Defined(Note(Element(stk), GroupIn(stk)), Element(stk)))
        /\ walks' = Passed(stk, <<>>)
        /\ UNCHANGED <<page, phase, first, second>>
  BY Zenon DEF add_embedded
<1>2. phase = "collect" /\ Through(stk) /\ ~IsList(Element(stk))
  BY CollectsThrough DEF IsList
<1>3. MarkersInv /\ CiteInv /\ UsesInv /\ StackOK(walks) /\ Chained(walks) /\ RestOK /\ NotesInv
  BY <1>2, InCollect DEF ListsInv, CiteInv
<1>4. MarkersInv'
  BY <1>3, MarkersAddEmbedded
<1> DEFINE e == Element(stk)
           g == GroupIn(stk)
           r == Defined(Note(e, g), e)
<1>5. e \in Elements /\ g \in Groups
  BY <1>2, <1>3, ThroughFacts, ElementType, GroupType
<1>6. r \in References /\ Same(r, Note(e, g))
  BY <1>3, <1>5, NoteType, DefinedType
<1>7. add_full(e, g, r)
  BY <1>1
<1> HIDE DEF e, g, r
<1>8. NotesGrow
  BY <1>3, <1>5, <1>6, <1>7, AddGrows
<1>9. UNCHANGED <<page, phase, cuts, cut_cursor, collected>>
  BY <1>1 DEF first, second
<1>10. CutNo(Here - 1)' = CutNo(Here - 1)
  BY <1>1, <1>2, <1>3, <1>9, PassNoList
<1>11. Here = walks'[1].next \/ Here + 1 = walks'[1].next
  BY <1>1, <1>2, <1>3, HerePassed
<1> QED
  BY <1>2, <1>4, <1>8, <1>9, <1>10, <1>11, ListsCollect

LEMMA ListsListInList == ListsInv /\ ListInList => ListsInv'
<1> SUFFICES ASSUME ListsInv, ListInList PROVE ListsInv'
  OBVIOUS
<1>1. PICK stk \in Collects("references", TRUE) :
        /\ walks' = Passed(stk, <<>>)
        /\ UNCHANGED <<page, phase, state, first, second>>
  BY Zenon DEF ListInList
<1>2. phase = "collect" /\ Through(stk) /\ Top(stk).embedded
  BY CollectsThrough
<1>3. MarkersInv /\ CiteInv /\ StackOK(walks) /\ Chained(walks) /\ RestOK /\ NotesInv
  BY <1>2, InCollect DEF ListsInv, CiteInv
<1>4. MarkersInv'
  BY <1>3, MarkersListInList
<1>5. UNCHANGED <<page, phase, cuts, cut_cursor, collected, references, group_members>>
  BY <1>1 DEF state, first, second
<1>6. NotesGrow
  BY <1>3, <1>5, NothingGrows
<1>7. Len(stk) # 1
  BY <1>2, <1>3, ThroughFacts DEF Chained, Top
<1>8. CutNo(Here - 1)' = CutNo(Here - 1)
  BY <1>1, <1>2, <1>3, <1>5, <1>7, PassNoList
<1>9. Here = walks'[1].next \/ Here + 1 = walks'[1].next
  BY <1>1, <1>2, <1>3, HerePassed
<1> QED
  BY <1>2, <1>4, <1>5, <1>6, <1>8, <1>9, ListsCollect

\* A list that was cut is behind the page's walk.
LEMMA CutBehind ==
  ASSUME StackOK(walks), Chained(walks), RestOK, CutSoFar, NEW i, Cut(i)
  PROVE  i \in Nat \ {0} /\ i < Here /\ CutNo(i) \in 1..Len(cuts)
<1>1. Here \in Nat \ {0} /\ Len(page) \in Nat
  BY HereType
<1>2. i \in Nat \ {0} /\ ListAt(i) /\ CutNo(i) <= Len(cuts) /\ Len(cuts) = CutNo(Here - 1)
  BY <1>1 DEF Cut, ListAt, CutSoFar
<1>3. Here - 1 \in Nat
  BY <1>1
<1>4. CutNo(i) \in Nat /\ CutNo(i - 1) \in Nat /\ CutNo(i) = CutNo(i - 1) + 1
  BY <1>2, NextCutNo
<1>5. ~(Here - 1 < i)
  <2>1. Here - 1 < i => CutNo(Here - 1) < CutNo(i) /\ CutNo(Here - 1) \in Nat
    BY <1>2, <1>3, CutNoOrder
  <2> QED
    BY <1>2, <1>4, <2>1
<1>6. CutNo(Here - 1) \in Nat
  BY <1>3, CutNoOrder
<1>7. i < Here
  BY <1>1, <1>2, <1>5
<1> QED
  BY <1>2, <1>4, <1>6, <1>7

LEMMA ListsCollectUse == ListsInv /\ CollectUse => ListsInv'
<1> SUFFICES ASSUME ListsInv, CollectUse PROVE ListsInv'
  OBVIOUS
<1>1. PICK stk \in Collects("ref", FALSE) :
        LET r == Note(Element(stk), GroupIn(stk))
        IN /\ add_full(Element(stk), GroupIn(stk), Used(r, Element(stk)))
           /\ use_ids' = Append(use_ids, marker_id(r.name, r.global_id, Len(r.uses)))
           /\ collected' = Append(collected,
                  [place |-> Place(stk), note |-> r.global_id,
                   listed |-> \E n \in 1..Len(stk) : stk[n].embedded])
           /\ walks' = Passed(stk, <<>>)
           /\ UNCHANGED <<page, phase, cuts, second>>
  BY Zenon DEF CollectUse
<1> DEFINE p == Place(stk)
           e == Element(stk)
           g == GroupIn(stk)
           listed == \E n \in 1..Len(stk) : stk[n].embedded
           c == [place |-> p, note |-> Note(e, g).global_id, listed |-> listed]
           r == Used(Note(e, g), e)
           i == NoteIndex(e, g)
<1>2. phase = "collect" /\ Through(stk) /\ ~IsList(Element(stk))
  BY CollectsThrough DEF IsList
<1>3. /\ MarkersInv /\ CiteInv /\ UsesInv /\ StackOK(walks) /\ Chained(walks) /\ RestOK /\ NotesInv
      /\ CutsInv /\ CutSoFar /\ \A k \in 1..Len(collected) : UseShown(collected[k])
  BY <1>2, InCollect DEF ListsInv, CiteInv
<1>4. MarkersInv'
  BY <1>3, MarkersCollectUse
<1>5. AtElement(stk) /\ Chained(stk)
  BY <1>2, <1>3, ThroughFacts
<1>6. e \in Elements /\ g \in Groups
  BY <1>5, ElementType, GroupType
<1>7. r \in References /\ Same(r, Note(e, g))
  BY <1>3, <1>6, NoteType, UsedType
<1>8. c.place = p /\ c.note = i
  BY <1>3, <1>6, NoteNumber
<1>9. add_full(e, g, r) /\ collected' = Append(collected, c)
  BY <1>1
<1> HIDE DEF e, g, r, c
<1>10. /\ NotesGrow /\ references'[i].group = g
       /\ g \in DOMAIN group_members' /\ InSeq(i, group_members'[g])
  BY <1>3, <1>6, <1>7, <1>9, AddGrows DEF i
<1>11. UNCHANGED <<page, phase, cuts, cut_cursor>>
  BY <1>1 DEF second
<1>12. CutNo(Here - 1)' = CutNo(Here - 1)
  BY <1>1, <1>2, <1>3, <1>11, PassNoList
<1>13. /\ Here = walks'[1].next \/ Here + 1 = walks'[1].next
       /\ stk[1].next = Here
  BY <1>1, <1>2, <1>3, HerePassed
<1>14. Here \in Nat
  BY <1>3, HereType
<1>15. p[1] = Here
  <2>1. \A j \in 1..Len(stk) : p[j] = stk[j].next
    BY <1>5, PlaceFacts
  <2>2. 1 \in 1..Len(stk)
    BY <1>5, PlaceFacts
  <2> QED
    BY <1>13, <2>1, <2>2
<1>16. PICK K \in Nat :
          /\ K = Len(collected) /\ Len(collected') = K + 1 /\ collected'[K + 1] = c
          /\ \A k \in 1..K : collected'[k] = collected[k]
  <2>1. IsSeq(collected)
    BY <1>3, OfItsOwn DEF RestOK
  <2> QED
    BY <1>9, <2>1, Pushed
<1> HIDE DEF p, i
<1>17. PICK u : u = c
  OBVIOUS
<1>18. u.place[1] = Here /\ u.note = i
  BY <1>8, <1>15, <1>17
<1>19. ASSUME NEW j, Takes(j, u)' PROVE FALSE
  <2>1. Cut(j) /\ After(j, u)
    BY <1>11, <1>19 DEF Takes, Cut, ListAt, CutNo, After
  <2>2. j \in Nat /\ j < Here
    BY <1>3, <2>1, CutBehind
  <2> QED
    BY <1>14, <1>18, <2>1, <2>2 DEF After
<1>20. UseShown(u)'
  <2>1. /\ references'[u.note].group \in DOMAIN group_members'
        /\ InSeq(u.note, group_members'[references'[u.note].group])
    BY <1>10, <1>18
  <2> QED
    BY <1>19, <2>1 DEF UseShown, InSeq, Waiting
<1>21. ASSUME NEW k \in 1..(K + 1) PROVE UseShown(collected[k])'
  <2>1. CASE k = K + 1
    BY <1>16, <1>17, <1>20, <2>1, ShownAt
  <2>2. CASE k \in 1..K
    <3>1. PICK v : v = collected[k]
      OBVIOUS
    <3>2. v.note \in 1..Len(references) /\ UseShown(v)
      <4>1. \A d : d = collected[k] => UseShown(d)
        BY <1>3, <1>16, <2>2
      <4> QED
        BY <1>3, <1>16, <2>2, <3>1, <4>1 DEF UsesInv
    <3>3. UseShown(v)'
      BY <1>10, <1>11, <3>2, ShownStays
    <3> QED
      BY <1>16, <2>2, <3>1, <3>3, ShownAt
  <2> QED
    BY <1>16, <2>1, <2>2
<1>22. CutsInv'
  BY <1>3, <1>10, <1>11, CutsStay
<1>23. CutSoFar'
  <2>1. Len(cuts') = CutNo(Here - 1)' /\ cut_cursor' = 0
    BY <1>3, <1>11, <1>12 DEF CutSoFar
  <2>2. ASSUME NEW k \in 1..(K + 1)
        PROVE collected'[k].place[1] \in Nat /\ collected'[k].place[1] <= walks'[1].next
    <3>1. CASE k = K + 1
      BY <1>8, <1>13, <1>14, <1>15, <1>16, <3>1
    <3>2. CASE k \in 1..K
      <4>1. collected[k].place[1] \in Nat /\ collected[k].place[1] <= Here
        BY <1>3, <1>16, <3>2 DEF CutSoFar
      <4> QED
        BY <1>13, <1>14, <1>16, <3>2, <4>1
    <3> QED
      BY <1>16, <3>1, <3>2
  <2> QED
    BY <1>16, <2>1, <2>2 DEF CutSoFar, Here
<1>24. phase' = "collect"
  BY <1>2, <1>11
<1> QED
  BY <1>4, <1>16, <1>21, <1>22, <1>23, <1>24 DEF ListsInv

\* The list at h of the page takes W, what waits for its group, g.
ListCut(h, g, W) ==
    /\ h \in Nat \ {0} /\ ListAt(h) /\ g = page[h].group /\ Len(cuts) \in Nat
    /\ Len(cuts') = Len(cuts) + 1 /\ CutNo(h) = Len(cuts) + 1
    /\ cuts'[Len(cuts) + 1] = W
    /\ \A k \in 1..Len(cuts) : cuts'[k] = cuts[k]
    /\ \A i : (ListAt(i)' <=> ListAt(i)) /\ CutNo(i)' = CutNo(i)
    /\ \A i : Cut(i)' <=> Cut(i) \/ i = h
    /\ \A i : Cut(i) => i \in Nat /\ i < h /\ CutNo(i) \in 1..Len(cuts)
    /\ (g \in DOMAIN group_members /\ W = group_members[g]) \/ Len(W) = 0
    /\ g \in DOMAIN group_members => W = group_members[g]
    /\ DOMAIN group_members' = DOMAIN group_members \ {g}
    /\ \A f \in DOMAIN group_members' : group_members'[f] = group_members[f]

LEMMA CutFacts ==
  ASSUME CiteInv, Chained(walks), CutSoFar, NEW h, h = Here, ListAt(h),
         NEW g, g = page[h].group, NEW W, W = Get(group_members, g, <<>>),
         cuts' = Append(cuts, W), group_members' = Without(group_members, {g}),
         UNCHANGED page
  PROVE  ListCut(h, g, W)
<1>1. StackOK(walks) /\ RestOK /\ NotesInv
  BY DEF CiteInv
<1>2. h \in Nat \ {0} /\ Len(cuts) = CutNo(h - 1)
  BY <1>1, HereType DEF CutSoFar
<1>3. W \in Seq(Nat)
  BY <1>1, EmptySeq DEF Get, NotesInv, NotesType
<1>4. /\ Len(cuts) \in Nat /\ Len(cuts') = Len(cuts) + 1 /\ cuts'[Len(cuts) + 1] = W
      /\ \A k \in 1..Len(cuts) : cuts'[k] = cuts[k]
  BY <1>1, <1>3, AppendProperties, LenProperties DEF RestOK
<1>5. CutNo(h) = Len(cuts) + 1
  BY <1>2, NextCutNo
<1>6. \A i : (ListAt(i)' <=> ListAt(i)) /\ CutNo(i)' = CutNo(i)
  BY SameLists
<1>7. \A i : Cut(i) => i \in Nat /\ i < h /\ CutNo(i) \in 1..Len(cuts)
  BY <1>1, CutBehind
<1>8. ASSUME NEW i PROVE Cut(i)' <=> Cut(i) \/ i = h
  <2>1. Cut(i)' <=> ListAt(i) /\ CutNo(i) <= Len(cuts) + 1
    BY <1>4, <1>6 DEF Cut
  <2>2. i = h => Cut(i)'
    BY <1>4, <1>5, <2>1
  <2>3. ASSUME ListAt(i), CutNo(i) <= Len(cuts) + 1, i # h PROVE CutNo(i) <= Len(cuts)
    <3>1. i \in Nat /\ Len(page) \in Nat
      BY <1>1, <2>3, HereType DEF ListAt
    <3>2. ASSUME i < h PROVE CutNo(i) < CutNo(h) /\ CutNo(i) \in Nat
      <4>1. i <= h /\ h \in Nat
        BY <1>2, <3>1, <3>2
      <4> QED
        BY <3>1, <3>2, <4>1, CutNoOrder
    <3>3. h < i => CutNo(h) < CutNo(i) /\ CutNo(i) \in Nat
      BY <1>2, <2>3, <3>1, CutNoOrder
    <3>4. i < h \/ h < i
      BY <1>2, <2>3, <3>1
    <3> QED
      BY <1>4, <1>5, <2>3, <3>2, <3>3, <3>4
  <2>4. Cut(i) => Cut(i)'
    <3>1. Cut(i) => CutNo(i) \in Nat /\ CutNo(i) <= Len(cuts) /\ ListAt(i)
      BY <1>7 DEF Cut
    <3> QED
      BY <1>4, <2>1, <3>1
  <2> QED
    BY <2>1, <2>2, <2>3, <2>4 DEF Cut
<1>9. (g \in DOMAIN group_members /\ W = group_members[g]) \/ Len(W) = 0
  BY EmptySeq DEF Get
<1>10. /\ DOMAIN group_members' = DOMAIN group_members \ {g}
       /\ \A f \in DOMAIN group_members' : group_members'[f] = group_members[f]
  BY DEF Without
<1>11. g \in DOMAIN group_members => W = group_members[g]
  BY DEF Get
<1> QED
  BY <1>2, <1>4, <1>5, <1>6, <1>7, <1>8, <1>9, <1>10, <1>11 DEF ListCut

\* What waits has its group and its number.
LEMMA WaitingFacts ==
  ASSUME NotesInv, NEW g \in DOMAIN group_members
  PROVE  \A n \in 1..Len(group_members[g]) :
            LET i == group_members[g][n] IN
            i \in 1..Len(references) /\ references[i].group = g /\ references[i].number = n
<1> SUFFICES ASSUME NEW n \in 1..Len(group_members[g])
             PROVE  LET i == group_members[g][n] IN
                    /\ i \in 1..Len(references)
                    /\ references[i].group = g /\ references[i].number = n
  OBVIOUS
<1>1. AgreeByParts
  BY ByParts DEF NotesInv
<1>2. WaitsOK(g, n)
  BY <1>1 DEF AgreeByParts
<1> QED
  BY <1>2 DEF WaitsOK

LEMMA CutsAfterList ==
  ASSUME CutsInv, NotesInv, NEW h, NEW g, NEW W, ListCut(h, g, W),
         UNCHANGED <<page, references>>
  PROVE  CutsInv'
<1> DEFINE C == Len(cuts)
<1>1. /\ C \in Nat /\ Len(cuts') = C + 1 /\ cuts'[C + 1] = W
      /\ \A k \in 1..C : cuts'[k] = cuts[k]
      /\ \A k \in 1..(C + 1) : k \in 1..C \/ k = C + 1
      /\ CutNo(h) = C + 1
  BY DEF ListCut
<1>2. \A n \in 1..Len(W) :
         /\ g \in DOMAIN group_members /\ W = group_members[g]
         /\ W[n] \in 1..Len(references) /\ references[W[n]].number = n
         /\ references[W[n]].group = g
  <2>1. (g \in DOMAIN group_members /\ W = group_members[g]) \/ Len(W) = 0
    BY DEF ListCut
  <2> QED
    BY <2>1, WaitingFacts
<1>3. \A f \in DOMAIN group_members' :
         f \in DOMAIN group_members /\ f # g /\ group_members'[f] = group_members[f]
  BY DEF ListCut
<1>4. ASSUME NEW k \in 1..(C + 1), NEW n \in 1..Len(cuts'[k])
      PROVE cuts'[k][n] \in 1..Len(references) /\ references[cuts'[k][n]].number = n
  BY <1>1, <1>2 DEF CutsInv
<1>5. ASSUME NEW i, Cut(i)', NEW n \in 1..Len(cuts'[CutNo(i)])
      PROVE references[cuts'[CutNo(i)][n]].group = page[i].group
  <2>1. CASE i = h
    BY <1>1, <1>2, <1>5, <2>1 DEF ListCut
  <2>2. CASE Cut(i)
    <3>1. CutNo(i) \in 1..C
      BY <2>2 DEF ListCut
    <3>2. cuts'[CutNo(i)] = cuts[CutNo(i)]
      BY <1>1, <3>1
    <3> QED
      BY <1>5, <2>2, <3>2 DEF CutsInv
  <2> QED
    BY <1>5, <2>1, <2>2 DEF ListCut
<1>6. ASSUME NEW k \in 1..(C + 1), NEW f \in DOMAIN group_members'
      PROVE Apart(cuts'[k], group_members'[f])
  <2>1. f \in DOMAIN group_members /\ f # g /\ group_members'[f] = group_members[f]
    BY <1>3
  <2>2. CASE k \in 1..C
    BY <1>1, <2>1, <2>2 DEF CutsInv, Waiting
  <2>3. CASE k = C + 1
    <3>1. \A n \in 1..Len(group_members[f]) : references[group_members[f][n]].group = f
      BY <2>1, WaitingFacts
    <3> QED
      BY <1>1, <1>2, <2>1, <2>3, <3>1 DEF Apart
  <2> QED
    BY <1>1, <2>2, <2>3
<1>7. ASSUME NEW j \in 1..C PROVE Apart(cuts[j], W) /\ Apart(W, cuts[j])
  BY <1>2, SMTT(30) DEF CutsInv, Apart, Waiting
<1>8. ASSUME NEW j \in 1..(C + 1), NEW k \in 1..(C + 1), j # k
      PROVE Apart(cuts'[j], cuts'[k])
  <2>1. CASE j \in 1..C /\ k \in 1..C
    BY <1>1, <1>8, <2>1 DEF CutsInv
  <2>2. CASE j = C + 1 \/ k = C + 1
    BY <1>1, <1>7, <1>8, <2>2
  <2> QED
    BY <1>1, <2>1, <2>2
<1>9. \A i : CutNo(i)' = CutNo(i)
  BY DEF ListCut
<1>10. \A i : Cut(i)' => \A n \in 1..Len(cuts'[CutNo(i)']) :
          references'[cuts'[CutNo(i)'][n]].group = page'[i].group
  BY <1>5, <1>9
<1> HIDE DEF C
<1>11. \A k \in 1..Len(cuts') : \A n \in 1..Len(cuts'[k]) :
          cuts'[k][n] \in 1..Len(references') /\ references'[cuts'[k][n]].number = n
  BY <1>1, <1>4
<1> QED
  BY <1>1, <1>6, <1>8, <1>10, <1>11 DEF CutsInv, Apart, Waiting

\* A use that the first walk has come to before a list is before the list.
LEMMA UseBefore ==
  ASSUME CiteInv, Chained(walks), InPlace, CollectedSoFar, CutSoFar, ListAt(Here),
         NEW k \in 1..Len(collected), NEW u, u = collected[k]
  PROVE  After(Here, u)
<1>1. Here \in Nat \ {0} /\ Len(walks) \in Nat \ {0} /\ u.place[1] \in Nat /\ u.place[1] <= Here
  BY HereType DEF CutSoFar, CiteInv
<1>2. CASE u.listed
  BY <1>1, <1>2 DEF After
<1>3. CASE ~u.listed
  <2> DEFINE p == u.place
  <2>1. Plain(k) /\ At(k) = p
    BY <1>3 DEF Plain, At
  <2>2. IsUse(p) /\ Before(p, walks)
    BY <2>1 DEF InPlace, CollectedSoFar
  <2>3. PICK i \in 1..Len(p) : i \in 1..Len(walks) /\ OnWay(p, walks, i) /\ p[i] < walks[i].next
    BY <2>2 DEF Before
  <2>4. PICK N \in Seq(Seq(Elements)) : Way(p, N)
    BY <2>2 DEF IsUse
  <2>5. ASSUME i # 1 PROVE FALSE
    <3>1. 1 \in 1..(i - 1) /\ 1 \in 1..(Len(p) - 1)
      <4>1. Len(p) \in Nat
        BY <2>4, SMTT(30) DEF Way
      <4> QED
        BY <2>3, <2>5, <4>1, SMTT(30)
    <3>2. p[1] = Here
      BY <2>3, <3>1 DEF OnWay, Here
    <3>3. nested_body(N[1][p[1]]) /\ N[1] = page
      BY <2>4, <3>1 DEF Way
    <3>4. IsRef(page[Here])
      BY <3>2, <3>3 DEF nested_body, IsRef
    <3> QED
      BY <3>4 DEF ListAt, IsList, IsRef
  <2>6. u.place[1] < Here
    BY <2>3, <2>5 DEF Here
  <2> QED
    BY <1>1, <1>3, <2>6 DEF After
<1> QED
  BY <1>2, <1>3

LEMMA ShownAfterList ==
  ASSUME NEW h, NEW g, NEW W, ListCut(h, g, W), UNCHANGED <<page, references>>,
         NEW u, After(h, u), UseShown(u)
  PROVE  UseShown(u)'
<1>1. /\ \A i : Cut(i)' <=> Cut(i) \/ i = h
      /\ \A i : CutNo(i)' = CutNo(i)
      /\ \A i : Cut(i) => i \in Nat /\ i < h /\ CutNo(i) \in 1..Len(cuts)
      /\ \A k \in 1..Len(cuts) : cuts'[k] = cuts[k]
      /\ h \in Nat /\ g = page[h].group /\ cuts'[CutNo(h)] = W
  BY DEF ListCut
<1> DEFINE G == references[u.note].group
<1>2. \A i : Takes(i, u)' <=> Takes(i, u) \/ (i = h /\ G = g)
  BY <1>1 DEF Takes, After
<1>3. CASE /\ G \in DOMAIN group_members /\ InSeq(u.note, group_members[G])
           /\ \A i : ~Takes(i, u)
  <2>1. CASE G = g
    <3>1. Takes(h, u)' /\ \A j : Takes(j, u)' => j = h
      BY <1>2, <1>3, <2>1
    <3>2. InSeq(u.note, W)
      BY <1>3, <2>1 DEF ListCut
    <3>3. InSeq(u.note, cuts'[CutNo(h)'])
      BY <1>1, <3>2
    <3>4. \A j : Takes(j, u)' => h <= j
      BY <1>1, <3>1
    <3> QED
      BY <3>1, <3>3, <3>4 DEF UseShown, InSeq
  <2>2. CASE G # g
    <3>1. G \in DOMAIN group_members' /\ InSeq(u.note, group_members'[G])
      BY <1>3, <2>2 DEF ListCut
    <3>2. \A i : ~Takes(i, u)'
      BY <1>2, <1>3, <2>2
    <3> QED
      BY <3>1, <3>2 DEF UseShown, InSeq, Waiting
  <2> QED
    BY <2>1, <2>2
<1>4. CASE \E i : /\ Takes(i, u) /\ InSeq(u.note, cuts[CutNo(i)])
                  /\ \A j : Takes(j, u) => i <= j
  <2>1. PICK i : /\ Takes(i, u) /\ InSeq(u.note, cuts[CutNo(i)])
                 /\ \A j : Takes(j, u) => i <= j
    BY <1>4
  <2>2. i \in Nat /\ i < h /\ CutNo(i) \in 1..Len(cuts)
    BY <1>1, <2>1 DEF Takes
  <2>3. cuts'[CutNo(i)'] = cuts[CutNo(i)]
    BY <1>1, <2>2
  <2>4. InSeq(u.note, cuts'[CutNo(i)'])
    BY <2>1, <2>3
  <2>5. \A j : Takes(j, u)' => i <= j
    BY <1>1, <1>2, <2>1, <2>2
  <2> QED
    BY <1>2, <2>1, <2>4, <2>5 DEF UseShown, InSeq
<1> QED
  BY <1>3, <1>4 DEF UseShown, Waiting

LEMMA ListsCutList == NoListsInNotes /\ ListsInv /\ CutList => ListsInv'
<1> SUFFICES ASSUME NoListsInNotes, ListsInv, CutList PROVE ListsInv'
  OBVIOUS
<1>1. PICK stk \in Collects("references", FALSE) :
        /\ cut_group(Element(stk).group)
        /\ walks' = Passed(stk, <<>>)
        /\ UNCHANGED <<page, phase, use_ids, collected, second>>
  BY Zenon DEF CutList
<1>2. phase = "collect" /\ Through(stk) /\ IsList(Element(stk)) /\ ~Top(stk).embedded
  BY CollectsThrough DEF IsList
<1>3. /\ MarkersInv /\ CiteInv /\ UsesInv /\ StackOK(walks) /\ Chained(walks) /\ RestOK /\ NotesInv
      /\ InPlace /\ CollectedSoFar /\ CutsInv /\ CutSoFar
      /\ \A k \in 1..Len(collected) : UseShown(collected[k])
  BY <1>2, InCollect DEF ListsInv, CiteInv
<1>4. MarkersInv'
  BY <1>3, MarkersCutList
<1>5. AtElement(stk) /\ Chained(stk) /\ stk[1].next = Here
  BY <1>1, <1>2, <1>3, HerePassed
<1>6. Len(stk) = 1 /\ ListAt(Here) /\ Element(stk) = page[Here]
  BY <1>2, <1>5, ListOfPage
<1>7. PICK h : h = Here
  OBVIOUS
<1>8. PICK g : g = page[h].group
  OBVIOUS
<1>9. PICK W : W = Get(group_members, g, <<>>)
  OBVIOUS
<1>10. /\ cuts' = Append(cuts, W) /\ group_members' = Without(group_members, {g})
       /\ UNCHANGED <<page, references, collected, phase, cut_cursor>>
  BY <1>1, <1>6, <1>7, <1>8, <1>9 DEF cut_group, second
<1>11. ListCut(h, g, W)
  BY <1>3, <1>6, <1>7, <1>8, <1>9, <1>10, CutFacts
<1>12. CutsInv'
  BY <1>3, <1>10, <1>11, CutsAfterList
<1>13. ASSUME NEW k \in 1..Len(collected) PROVE UseShown(collected[k])'
  <2>1. PICK u : u = collected[k]
    OBVIOUS
  <2>2. UseShown(u)
    <3>1. \A d : d = collected[k] => UseShown(d)
      BY <1>3
    <3> QED
      BY <2>1, <3>1
  <2>3. After(h, u)
    BY <1>3, <1>6, <1>7, <2>1, UseBefore
  <2>4. UseShown(u)'
    BY <1>10, <1>11, <2>2, <2>3, ShownAfterList
  <2> QED
    BY <1>10, <2>1, <2>4, ShownAt
<1>14. CutSoFar'
  <2>1. walks'[1].next = h + 1 /\ h \in Nat
    BY <1>1, <1>2, <1>3, <1>6, <1>7, HerePassed, HereType
  <2>2. CutNo(h)' = CutNo(h) /\ CutNo(h) = Len(cuts) + 1 /\ Len(cuts') = Len(cuts) + 1
    BY <1>11 DEF ListCut
  <2>3. CutNo(Here - 1)' = CutNo(h)'
    <3>1. h + 1 - 1 = h
      BY <2>1
    <3> QED
      BY <2>1, <3>1 DEF CutNo, Here
  <2>4. cut_cursor' = 0
    BY <1>3, <1>10 DEF CutSoFar
  <2>5. ASSUME NEW k \in 1..Len(collected)
        PROVE collected[k].place[1] \in Nat /\ collected[k].place[1] <= h + 1
    <3>1. collected[k].place[1] \in Nat /\ collected[k].place[1] <= h
      BY <1>3, <1>7 DEF CutSoFar
    <3> QED
      BY <2>1, <3>1
  <2>6. \A k \in 1..Len(collected') :
           collected'[k].place[1] \in Nat /\ collected'[k].place[1] <= Here'
    BY <1>10, <2>1, <2>5 DEF Here
  <2> QED
    BY <2>2, <2>3, <2>4, <2>6 DEF CutSoFar
<1>15. phase' = "collect"
  BY <1>2, <1>10
<1> QED
  BY <1>4, <1>10, <1>12, <1>13, <1>14, <1>15 DEF ListsInv

\* The second walk starts with all lists cut and none shown.
LEMMA ListsEndCollect == ListsInv /\ EndCollect => ListsInv'
<1> SUFFICES ASSUME ListsInv, EndCollect PROVE ListsInv'
  OBVIOUS
<1>1. /\ phase = "collect" /\ phase' = "render" /\ walks' = <<PageWalk>>
      /\ Len(walks) = 1 /\ AtEnd(Top(walks))
      /\ UNCHANGED <<page, references, group_members, collected, cuts, cut_cursor>>
  BY DEF EndCollect, state, first, second
<1>2. /\ MarkersInv /\ CiteInv /\ UsesInv /\ StackOK(walks) /\ Chained(walks) /\ RestOK /\ NotesInv
      /\ CutsInv /\ CutSoFar
      /\ \A k \in 1..Len(collected) : UseShown(collected[k])
  BY <1>1, InCollect DEF ListsInv, CiteInv
<1>3. MarkersInv'
  BY <1>2, MarkersEndCollect
<1>4. NotesGrow
  BY <1>1, <1>2, NothingGrows
<1>5. CutsInv' /\ (\A k \in 1..Len(collected) : UseShown(collected[k]))'
  BY <1>1, <1>2, <1>4, SameShown
<1>6. Here - 1 = Len(page) /\ Len(page) \in Nat
  <2>1. walks[1].nodes = page /\ Here \in 1..(Len(page) + 1) /\ Len(page) \in Nat
    BY <1>2, HereType
  <2>2. Here > Len(page)
    BY <1>1, <2>1 DEF AtEnd, Top, Here
  <2> QED
    BY <2>1, <2>2
<1>7. Len(cuts) = CutNo(Len(page)) /\ cut_cursor = 0
  BY <1>2, <1>6 DEF CutSoFar
<1> DEFINE w == PageWalk
<1>8. w.next = 1 /\ w.out = <<>> /\ <<w>>[1] = w
  BY DEF PageWalk, Walk
<1> HIDE DEF w
<1>9. walks'[1].next = 1 /\ walks'[1].out = <<>>
  BY <1>1, <1>8 DEF w
<1>10. Range(walks'[1].out) = {}
  <2>1. DOMAIN <<>> = {}
    BY EmptySeq
  <2> QED
    BY <1>9, <2>1 DEF Range
<1>11. OutLists(walks[1].out, Here)'
  BY <1>9, <1>10 DEF OutLists, ListAt, Here, Range
<1>12. CutNo(Len(page))' = CutNo(Len(page))
  BY <1>1 DEF CutNo, ListAt
<1>13. CutNo(Here - 1)' = 0
  <2>1. CutNo(0) = 0
    BY NextCutNo
  <2>2. CutNo(0)' = CutNo(0)
    BY <1>1, SameLists
  <2>3. CutNo(Here - 1)' = CutNo(0)'
    BY <1>9 DEF CutNo, Here
  <2> QED
    BY <2>1, <2>2, <2>3
<1>14. ShownSoFar'
  BY <1>1, <1>7, <1>11, <1>12, <1>13 DEF ShownSoFar
<1> QED
  BY <1>1, <1>3, <1>5, <1>14 DEF ListsInv

-----------------------------------------------------------------------------
(* What the second walk shows.                                              *)

LEMMA RangeMore ==
  ASSUME NEW o, IsSeq(o), NEW r
  PROVE  \A x : x \in Range(o \o <<r>>) <=> x \in Range(o) \/ x = r
<1> DEFINE T == {o[i] : i \in DOMAIN o} \union {r}
           s == o \o <<r>>
<1>1. o \in Seq(T)
  BY SeqMonotonic DEF IsSeq
<1>2. <<r>> \in Seq(T) /\ Len(<<r>>) = 1 /\ <<r>>[1] = r
  OBVIOUS
<1> HIDE DEF T
<1>3. /\ s \in Seq(T) /\ Len(s) = Len(o) + 1 /\ Len(o) \in Nat
      /\ \A i \in 1..(Len(o) + 1) : s[i] = IF i <= Len(o) THEN o[i] ELSE r
  BY <1>1, <1>2, ConcatProperties, LenProperties
<1> HIDE DEF s
<1>4. DOMAIN s = 1..(Len(o) + 1) /\ DOMAIN o = 1..Len(o)
  BY <1>1, <1>3, LenProperties
<1>5. \A x \in Range(s) : x = r \/ x \in Range(o)
  BY <1>3, <1>4 DEF Range
<1>6. \A x \in Range(o) : x \in Range(s)
  <2>1. \A i \in 1..Len(o) : i \in 1..(Len(o) + 1) /\ s[i] = o[i]
    BY <1>3
  <2> QED
    BY <1>4, <2>1 DEF Range
<1>7. r \in Range(s)
  <2>1. s[Len(o) + 1] = r /\ Len(o) + 1 \in 1..(Len(o) + 1)
    BY <1>3
  <2> QED
    BY <1>4, <2>1 DEF Range
<1> QED
  BY <1>5, <1>6, <1>7 DEF s

\* One more result that is no list, where the page has none.
LEMMA OutMore ==
  ASSUME NEW o, IsSeq(o), NEW h \in Nat, Len(page) \in Nat, OutLists(o, h), ~ListAt(h),
         NEW r, ~IsShownList(r)
  PROVE  OutLists(o \o <<r>>, h + 1)
<1>1. \A x : x \in Range(o \o <<r>>) <=> x \in Range(o) \/ x = r
  BY RangeMore
<1>2. \A i : ListAt(i) => i \in Nat
  BY DEF ListAt
<1>3. \A i : ListAt(i) => (i < h + 1 <=> i < h)
  BY <1>2
<1>4. \A x : ListShown(x, h) => ListShown(x, h + 1)
  BY <1>3 DEF ListShown
<1> DEFINE s == o \o <<r>>
<1> HIDE DEF s
<1>5. \A x : x \in Range(s) /\ IsShownList(x) => x \in Range(o)
  BY <1>1 DEF s
<1>6. \A x : x \in Range(o) => x \in Range(s)
  BY <1>1 DEF s
<1>7. OutLists(s, h + 1)
  BY <1>3, <1>4, <1>5, <1>6 DEF OutLists
<1> QED
  BY <1>7 DEF s

\* A list of the page that is dropped.
LEMMA OutDropped ==
  ASSUME NEW o, NEW h \in Nat, Len(page) \in Nat, OutLists(o, h), cuts[CutNo(h)] = <<>>
  PROVE  OutLists(o, h + 1)
<1>1. \A i : ListAt(i) => i \in Nat
  BY DEF ListAt
<1>2. \A i : ListAt(i) => (i < h + 1 <=> i < h \/ i = h)
  BY <1>1
<1>3. \A x : ListShown(x, h) => ListShown(x, h + 1)
  BY <1>2 DEF ListShown
<1> QED
  BY <1>2, <1>3 DEF OutLists

\* A list of the page that is shown.
LEMMA OutOneMore ==
  ASSUME NEW o, IsSeq(o), NEW h \in Nat, Len(page) \in Nat, OutLists(o, h),
         NEW r, IsShownList(r), r.place[1] = h, ListShown(r, h + 1)
  PROVE  OutLists(o \o <<r>>, h + 1)
<1>1. \A x : x \in Range(o \o <<r>>) <=> x \in Range(o) \/ x = r
  BY RangeMore
<1>2. \A i : ListAt(i) => i \in Nat
  BY DEF ListAt
<1>3. \A i : ListAt(i) => (i < h + 1 <=> i < h \/ i = h)
  BY <1>2
<1>4. \A x : ListShown(x, h) => ListShown(x, h + 1) /\ x.place[1] # h
  <2>1. \A x : ListShown(x, h) => ListAt(x.place[1]) /\ x.place[1] < h
    BY DEF ListShown
  <2> QED
    BY <1>2, <1>3, <2>1 DEF ListShown
<1> DEFINE s == o \o <<r>>
<1> HIDE DEF s
<1>5. \A x : x \in Range(s) <=> x \in Range(o) \/ x = r
  BY <1>1 DEF s
<1>6. \A x \in Range(s) : IsShownList(x) => ListShown(x, h + 1)
  BY <1>4, <1>5 DEF OutLists
<1>7. \A x, y \in Range(s) :
         IsShownList(x) /\ IsShownList(y) /\ x.place[1] = y.place[1] => x = y
  BY <1>4, <1>5 DEF OutLists
<1>8. \A i : ListAt(i) /\ i < h + 1 /\ cuts[CutNo(i)] # <<>> =>
         \E x \in Range(s) : IsShownList(x) /\ x.place[1] = i
  BY <1>3, <1>5 DEF OutLists
<1>9. OutLists(s, h + 1)
  BY <1>6, <1>7, <1>8 DEF OutLists
<1> QED
  BY <1>9 DEF s

LEMMA OutNext ==
  ASSUME UNCHANGED <<page, cuts>>, NEW o, NEW h, OutLists(o, h),
         walks'[1].out = o, walks'[1].next = h
  PROVE  OutLists(walks[1].out, Here)'
<1>1. \A i : (ListAt(i)' <=> ListAt(i)) /\ CutNo(i)' = CutNo(i)
  BY SameLists
<1>2. OutLists(o, h)'
  BY <1>1 DEF OutLists, ListShown, ListAt, CutNo
<1>3. walks'[1].out = o /\ Here' = h
  BY DEF Here
<1> QED
  BY <1>2, <1>3 DEF OutLists, ListShown, Here

\* A step of the second walk but its last.
LEMMA ListsRender ==
  ASSUME ListsInv, phase = "render", phase' = "render", MarkersInv',
         UNCHANGED <<page, cuts, collected, references, group_members>>,
         cut_cursor' = CutNo(Here - 1)', OutLists(walks[1].out, Here)'
  PROVE  ListsInv'
<1>1. /\ MarkersInv /\ CutsInv /\ ShownSoFar /\ \A k \in 1..Len(collected) : UseShown(collected[k])
      /\ UsesInv /\ NotesInv
  BY DEF ListsInv, MarkersInv, CiteInv
<1>2. CutsInv' /\ (\A k \in 1..Len(collected) : UseShown(collected[k]))'
  BY <1>1, NothingGrows, SameShown
<1>3. CutNo(Len(page))' = CutNo(Len(page))
  BY DEF CutNo, ListAt
<1>4. ShownSoFar'
  BY <1>1, <1>3 DEF ShownSoFar
<1> QED
  BY <1>2, <1>4 DEF ListsInv

LEMMA ListsEnterNote == ListsInv /\ EnterNote => ListsInv'
<1> SUFFICES ASSUME ListsInv, EnterNote PROVE ListsInv'
  OBVIOUS
<1>1. /\ phase = "render" /\ phase' = "render"
      /\ UNCHANGED <<page, cuts, collected, references, group_members, cut_cursor>>
  BY DEF EnterNote, state, first, second
<1>2. MarkersInv /\ CiteInv /\ MarkersInv' /\ ShownSoFar
  BY <1>1, MarkersEnterNote DEF ListsInv, MarkersInv
<1>3. PICK w : walks' = Append(walks, w)
  BY Zenon DEF EnterNote
<1>4. walks'[1] = walks[1]
  <2>1. IsSeq(walks) /\ Len(walks) \in Nat \ {0}
    BY <1>2 DEF CiteInv, StackOK
  <2>2. 1 \in 1..Len(walks)
    BY <2>1
  <2> QED
    BY <1>3, <2>1, <2>2, Pushed
<1>5. PICK o : o = walks[1].out
  OBVIOUS
<1>6. PICK h : h = Here
  OBVIOUS
<1>7. OutLists(o, h)
  BY <1>2, <1>5, <1>6 DEF ShownSoFar
<1>8. OutLists(walks[1].out, Here)'
  BY <1>1, <1>4, <1>5, <1>6, <1>7, OutNext DEF Here
<1>9. cut_cursor' = CutNo(Here - 1)'
  BY <1>1, <1>2, <1>4, HereStays DEF ShownSoFar
<1> QED
  BY <1>1, <1>2, <1>8, <1>9, ListsRender

LEMMA ListsRenderRef == ListsInv /\ RenderRef => ListsInv'
<1> SUFFICES ASSUME ListsInv, RenderRef PROVE ListsInv'
  OBVIOUS
<1>1. PICK stk \in Renders("ref") :
        /\ converted' = Converted(stk)
        /\ walks' = Passed(stk, <<ref_marker(Place(stk))>>)
        /\ next_use' = IF next_use = Len(use_ids) THEN next_use ELSE next_use + 1
        /\ UNCHANGED <<page, phase, state, first, cut_cursor, shown>>
  BY Zenon DEF RenderRef
<1>2. phase = "render" /\ Through(stk) /\ ~IsList(Element(stk))
  BY RendersThrough DEF IsList
<1>3. /\ phase' = "render"
      /\ UNCHANGED <<page, cuts, collected, references, group_members, cut_cursor>>
  BY <1>1, <1>2 DEF state, first
<1>4. /\ MarkersInv /\ CiteInv /\ StackOK(walks) /\ Chained(walks) /\ RestOK
      /\ ShownSoFar /\ \A n \in 1..Len(walks) : OutOK(walks[n])
  BY <1>2, InRender DEF ListsInv, CiteInv
<1>5. MarkersInv'
  BY <1>4, MarkersRenderRef
<1>6. PICK r : r = ref_marker(Place(stk))
  OBVIOUS
<1>7. ~IsShownList(r)
  <2>1. \A p, i, id : ~IsShownList(Marker(p, i, id)) /\ ~IsShownList(Unreplaced(p))
    BY DEF Marker, Unreplaced, IsShownList
  <2> QED
    BY <1>6, <2>1 DEF ref_marker
<1>8. walks' = Passed(stk, <<r>>)
  BY <1>1, <1>6
<1>9. PICK o : o = walks[1].out
  OBVIOUS
<1>10. PICK h : h = Here
  OBVIOUS
<1>11. OutLists(o, h) /\ IsSeq(o) /\ h \in Nat /\ Len(page) \in Nat
  <2>1. 1 \in 1..Len(walks) /\ h \in Nat /\ Len(page) \in Nat
    BY <1>4, <1>10, HereType
  <2> QED
    BY <1>4, <1>9, <1>10, <2>1 DEF ShownSoFar, OutOK
<1>12. OutLists(walks[1].out, Here)'
  <2>1. CASE Len(stk) = 1
    <3>1. walks'[1].next = h + 1 /\ walks'[1].out = o \o <<r>> /\ ~ListAt(h)
      BY <1>2, <1>4, <1>8, <1>9, <1>10, <2>1, HerePassed DEF ListAt
    <3>2. OutLists(o \o <<r>>, h + 1)
      BY <1>7, <1>11, <3>1, OutMore
    <3> QED
      BY <1>3, <3>1, <3>2, OutNext
  <2>2. CASE Len(stk) # 1
    <3>1. walks'[1].next = h /\ walks'[1].out = o
      BY <1>2, <1>4, <1>8, <1>9, <1>10, <2>2, HerePassed
    <3> QED
      BY <1>3, <1>11, <3>1, OutNext
  <2> QED
    BY <2>1, <2>2
<1>13. cut_cursor' = CutNo(Here - 1)'
  <2>1. CutNo(Here - 1)' = CutNo(Here - 1)
    BY <1>2, <1>3, <1>4, <1>8, PassNoList
  <2> QED
    BY <1>3, <1>4, <2>1 DEF ShownSoFar
<1> QED
  BY <1>2, <1>3, <1>5, <1>12, <1>13, ListsRender

\* What a list shows of notes: them.
LEMMA NotesShown ==
  ASSUME NEW members \in Seq(Nat), NEW place, NEW group, NEW entries,
         entries = [n \in 1..Len(members) |-> Entry(members[n])],
         NEW r, r = List(place, group, entries)
  PROVE  /\ IsShownList(r) /\ r.place = place /\ r.group = group
         /\ Len(r.entries) = Len(members) /\ Notes(r) = members
<1>1. Len(members) \in Nat /\ members = [n \in 1..Len(members) |-> members[n]]
  BY LenProperties
<1>2. Len(entries) = Len(members) /\ \A n \in 1..Len(members) : entries[n] = Entry(members[n])
  BY <1>1
<1>3. \A i : Entry(i).note = i
  BY DEF Entry
<1>4. IsShownList(r) /\ r.place = place /\ r.group = group /\ r.entries = entries
  BY DEF List, IsShownList
<1> HIDE DEF IsShownList
<1>5. \A n \in 1..Len(members) : r.entries[n].note = members[n]
  BY <1>2, <1>3, <1>4
<1>6. Notes(r) = [n \in 1..Len(members) |-> members[n]]
  BY <1>2, <1>4, <1>5 DEF Notes
<1> QED
  BY <1>1, <1>2, <1>4, <1>6

LEMMA ListsRenderList == NoListsInNotes /\ ListsInv /\ RenderList => ListsInv'
<1> SUFFICES ASSUME NoListsInNotes, ListsInv, RenderList PROVE ListsInv'
  OBVIOUS
<1>1. PICK stk \in Renders("references") :
        LET e == Element(stk)
            members == Members(e.group)
            entries == [n \in 1..Len(members) |-> Entry(members[n])]
            dropped == members = <<>> /\ (Top(stk).templated \/ e.templated)
        IN /\ walks' = Passed(stk, IF dropped THEN <<>>
                                   ELSE <<List(Place(stk), e.group, entries)>>)
           /\ cut_cursor' = cut_cursor + 1
           /\ UNCHANGED <<page, phase, state, first, next_use, converted, shown>>
  BY Zenon DEF RenderList
<1>2. phase = "render" /\ Through(stk) /\ IsList(Element(stk))
  BY RendersThrough DEF IsList
<1>3. /\ phase' = "render" /\ cut_cursor' = cut_cursor + 1
      /\ UNCHANGED <<page, cuts, collected, references, group_members>>
  BY <1>1, <1>2 DEF state, first
<1>4. /\ MarkersInv /\ CiteInv /\ StackOK(walks) /\ Chained(walks) /\ RestOK
      /\ ShownSoFar /\ TakenSoFar /\ \A n \in 1..Len(walks) : OutOK(walks[n])
  BY <1>2, InRender DEF ListsInv, CiteInv
<1>5. MarkersInv'
  BY <1>4, MarkersRenderList
<1>6. AtElement(stk) /\ Chained(stk) /\ ~Top(stk).embedded
  <2>1. /\ AtElement(stk) /\ Chained(stk) /\ \A j \in 1..Len(stk) : walks[j] = stk[j]
        /\ Len(walks) = Len(stk) \/ Len(walks) = Len(stk) + 1
    BY <1>2, <1>4, ThroughFacts
  <2>2. Len(stk) \in 1..Len(stk) /\ Top(stk) = stk[Len(stk)] /\ Len(stk) \in 1..Len(walks)
    BY <2>1, TopIn DEF AtElement, StackOK
  <2> QED
    BY <1>4, <2>1, <2>2 DEF TakenSoFar
<1>7. Len(stk) = 1 /\ ListAt(stk[1].next) /\ Element(stk) = page[stk[1].next]
  BY <1>2, <1>6, ListOfPage
<1>8. PICK h : h = Here
  OBVIOUS
<1>9. PICK o : o = walks[1].out
  OBVIOUS
<1>10. PICK results :
         results = LET e == Element(stk)
                       members == Members(e.group)
                       entries == [n \in 1..Len(members) |-> Entry(members[n])]
                       dropped == members = <<>> /\ (Top(stk).templated \/ e.templated)
                   IN IF dropped THEN <<>> ELSE <<List(Place(stk), e.group, entries)>>
  OBVIOUS
<1>11. walks' = Passed(stk, results)
  BY <1>1, <1>10
<1>12. /\ stk[1].next = h /\ walks'[1].next = h + 1 /\ walks'[1].out = o \o results
       /\ h \in Nat \ {0} /\ Len(page) \in Nat
  BY <1>2, <1>4, <1>7, <1>8, <1>9, <1>11, HerePassed, HereType
<1>13. ListAt(h) /\ Element(stk) = page[h] /\ Place(stk)[1] = h
  <2>1. 1 \in 1..Len(stk)
    BY <1>7
  <2> QED
    BY <1>6, <1>7, <1>12, <2>1, PlaceFacts
<1>14. /\ cut_cursor = CutNo(h - 1) /\ cut_cursor \in Nat
       /\ cut_cursor < Len(cuts) /\ CutNo(h) = cut_cursor + 1 /\ Len(cuts) \in Nat
  <2>1. Len(cuts) = CutNo(Len(page)) /\ cut_cursor = CutNo(h - 1)
    BY <1>4, <1>8 DEF ShownSoFar
  <2>2. CutNo(h) = CutNo(h - 1) + 1 /\ CutNo(h - 1) \in Nat
    BY <1>12, <1>13, NextCutNo
  <2>3. h <= Len(page) /\ h \in Nat
    BY <1>12, <1>13 DEF ListAt
  <2>4. CutNo(h) <= CutNo(Len(page)) /\ CutNo(Len(page)) \in Nat
    BY <1>12, <2>3, CutNoOrder
  <2> QED
    BY <2>1, <2>2, <2>4
<1>15. OutLists(o, h) /\ IsSeq(o)
  <2>1. 1 \in 1..Len(walks)
    BY <1>4, HereType
  <2> QED
    BY <1>4, <1>8, <1>9, <2>1 DEF ShownSoFar, OutOK
<1>16. PICK members : members = cuts[CutNo(h)]
  OBVIOUS
<1>17. Members(Element(stk).group) = members /\ members \in Seq(Nat)
  <2>1. CutNo(h) \in 1..Len(cuts)
    BY <1>14
  <2> QED
    BY <1>4, <1>14, <1>16, <2>1 DEF Members, RestOK
<1>18. \/ members = <<>> /\ results = <<>>
       \/ results = <<List(Place(stk), page[h].group,
                           [n \in 1..Len(members) |-> Entry(members[n])])>>
  BY <1>10, <1>13, <1>17
<1>19. OutLists(o \o results, h + 1)
  <2>1. CASE members = <<>> /\ results = <<>>
    <3>1. o \o <<>> = o
      BY <1>15 DEF IsSeq
    <3>2. OutLists(o, h + 1)
      BY <1>12, <1>15, <1>16, <2>1, OutDropped
    <3> QED
      BY <2>1, <3>1, <3>2
  <2>2. CASE results = <<List(Place(stk), page[h].group,
                              [n \in 1..Len(members) |-> Entry(members[n])])>>
    <3>1. PICK r : r = List(Place(stk), page[h].group,
                            [n \in 1..Len(members) |-> Entry(members[n])])
      OBVIOUS
    <3>2. /\ IsShownList(r) /\ r.place = Place(stk) /\ r.group = page[h].group
          /\ Len(r.entries) = Len(members) /\ Notes(r) = members
      BY <1>17, <3>1, NotesShown
    <3>3. r.place[1] = h
      BY <1>13, <3>2
    <3>4. h < h + 1
      BY <1>12
    <3>5. ListShown(r, h + 1)
      BY <1>13, <1>16, <3>2, <3>3, <3>4 DEF ListShown
    <3>6. OutLists(o \o <<r>>, h + 1)
      BY <1>12, <1>15, <3>2, <3>3, <3>5, OutOneMore
    <3> QED
      BY <2>2, <3>1, <3>6
  <2> QED
    BY <1>18, <2>1, <2>2
<1>20. OutLists(walks[1].out, Here)'
  <2>1. PICK s : s = o \o results
    OBVIOUS
  <2> QED
    BY <1>3, <1>12, <1>19, <2>1, OutNext
<1>21. cut_cursor' = CutNo(Here - 1)'
  <2>1. CutNo(h)' = CutNo(h)
    BY <1>3, SameLists
  <2>2. CutNo(Here - 1)' = CutNo(h)'
    <3>1. h + 1 - 1 = h
      BY <1>12
    <3> QED
      BY <1>12, <3>1 DEF CutNo, Here
  <2> QED
    BY <1>3, <1>14, <2>1, <2>2
<1> QED
  BY <1>2, <1>3, <1>5, <1>20, <1>21, ListsRender

LEMMA ListsEndRender == ListsInv /\ EndRender => ListsInv'
<1> SUFFICES ASSUME ListsInv, EndRender PROVE ListsInv'
  OBVIOUS
<1>1. /\ phase = "render" /\ phase' = "done" /\ shown' = Top(walks).out
      /\ Len(walks) = 1 /\ AtEnd(Top(walks))
      /\ UNCHANGED <<page, walks, cuts, collected, references, group_members, cut_cursor>>
  BY DEF EndRender, state, first
<1>2. /\ MarkersInv /\ CiteInv /\ StackOK(walks) /\ Chained(walks) /\ RestOK /\ CutsInv
      /\ UsesInv /\ NotesInv /\ ShownSoFar /\ \A k \in 1..Len(collected) : UseShown(collected[k])
  BY <1>1, InRender DEF ListsInv, CiteInv
<1>3. MarkersInv'
  BY <1>2, MarkersEndRender
<1>4. CutsInv' /\ (\A k \in 1..Len(collected) : UseShown(collected[k]))'
  BY <1>1, <1>2, NothingGrows, SameShown
<1>5. ShownSoFar'
  <2>1. OutLists(walks[1].out, Here)'
    <3>1. PICK o : o = walks[1].out
      OBVIOUS
    <3>2. PICK h : h = Here
      OBVIOUS
    <3>3. OutLists(o, h)
      BY <1>2, <3>1, <3>2 DEF ShownSoFar
    <3> QED
      BY <1>1, <3>1, <3>2, <3>3, OutNext DEF Here
  <2>2. CutNo(Here - 1)' = CutNo(Here - 1)
    BY <1>1, HereStays
  <2>3. CutNo(Len(page))' = CutNo(Len(page))
    BY <1>1 DEF CutNo, ListAt
  <2> QED
    BY <1>1, <1>2, <2>1, <2>2, <2>3 DEF ShownSoFar
<1>6. shown' = walks'[1].out /\ walks'[1].next = Len(page') + 1
  <2>1. walks[1].nodes = page /\ Here \in 1..(Len(page) + 1) /\ Len(page) \in Nat
    BY <1>2, HereType
  <2>2. Here > Len(page) /\ shown' = walks[1].out
    BY <1>1, <2>1 DEF AtEnd, Top, Here
  <2>3. Here = Len(page) + 1
    BY <2>1, <2>2
  <2> QED
    BY <1>1, <2>2, <2>3 DEF Here
<1> QED
  BY <1>1, <1>3, <1>4, <1>5, <1>6 DEF ListsInv, Here

LEMMA ListsInit == Init => ListsInv
<1> SUFFICES ASSUME Init PROVE ListsInv
  OBVIOUS
<1>1. MarkersInv
  BY MarkersInit
<1>2. /\ Len(cuts) = 0 /\ Len(collected) = 0 /\ DOMAIN group_members = {}
      /\ phase = "collect" /\ cut_cursor = 0 /\ walks = <<PageWalk>>
  BY EmptySeq DEF Init
<1> DEFINE w == PageWalk
<1>3. w.next = 1 /\ <<w>>[1] = w
  BY DEF PageWalk, Walk
<1> HIDE DEF w
<1>4. Here = 1
  BY <1>2, <1>3 DEF Here, w
<1>5. CutNo(Here - 1) = 0
  BY <1>4, NextCutNo
<1>6. \A i : ~Cut(i)
  <2>1. ASSUME NEW i, Cut(i) PROVE FALSE
    <3>1. ListAt(i) /\ i \in Nat \ {0} /\ CutNo(i) <= 0
      BY <1>2, <2>1 DEF Cut, ListAt
    <3> QED
      BY <3>1, NextCutNo
  <2> QED
    BY <2>1
<1>7. CutsInv
  BY <1>2, <1>6 DEF CutsInv
<1>8. CutSoFar
  BY <1>2, <1>5 DEF CutSoFar
<1> QED
  BY <1>1, <1>2, <1>7, <1>8 DEF ListsInv

LEMMA ListsStutter == ListsInv /\ MarkersInv' /\ UNCHANGED vars => ListsInv'
<1> SUFFICES ASSUME ListsInv, MarkersInv', UNCHANGED vars PROVE ListsInv'
  OBVIOUS
<1>1. UNCHANGED <<page, phase, walks, cuts, collected, references, group_members,
                  cut_cursor, shown>>
  BY DEF vars, state, first, second
<1>2. /\ MarkersInv /\ CutsInv /\ UsesInv /\ NotesInv
      /\ \A k \in 1..Len(collected) : UseShown(collected[k])
  BY DEF ListsInv, MarkersInv, CiteInv
<1>3. CutsInv' /\ (\A k \in 1..Len(collected) : UseShown(collected[k]))'
  BY <1>1, <1>2, NothingGrows, SameShown
<1>4. CutNo(Here - 1)' = CutNo(Here - 1)
  BY <1>1, HereStays
<1>5. CutNo(Len(page))' = CutNo(Len(page))
  BY <1>1 DEF CutNo, ListAt
<1>6. phase' = "collect" => CutSoFar'
  BY <1>1, <1>4 DEF ListsInv, CutSoFar, Here
<1>7. ASSUME phase' # "collect" PROVE ShownSoFar'
  <2>1. ShownSoFar
    BY <1>1, <1>7 DEF ListsInv
  <2>2. PICK o : o = walks[1].out
    OBVIOUS
  <2>3. PICK h : h = Here
    OBVIOUS
  <2>4. OutLists(o, h)
    BY <2>1, <2>2, <2>3 DEF ShownSoFar
  <2>5. OutLists(walks[1].out, Here)'
    BY <1>1, <2>2, <2>3, <2>4, OutNext DEF Here
  <2> QED
    BY <1>1, <1>4, <1>5, <2>1, <2>5 DEF ShownSoFar
<1>8. phase' = "done" => shown' = walks'[1].out /\ Here' = Len(page') + 1
  BY <1>1 DEF ListsInv, Here
<1> QED
  BY <1>3, <1>6, <1>7, <1>8 DEF ListsInv

LEMMA ListsStep == NoListsInNotes /\ ListsInv /\ [Next]_vars /\ MarkersInv' => ListsInv'
<1> SUFFICES ASSUME NoListsInNotes, ListsInv, [Next]_vars, MarkersInv' PROVE ListsInv'
  OBVIOUS
<1>1. CASE Next
  BY <1>1, ListsEnter, ListsCollectUse, ListsAddEmbedded, ListsCutList,
     ListsListInList, ListsEndCollect, ListsEnterNote, ListsRenderRef,
     ListsRenderList, ListsEndRender DEF Next
<1>2. CASE UNCHANGED vars
  BY <1>2, ListsStutter
<1> QED
  BY <1>1, <1>2

\* When the page is done, each list shows the cut of its number.
LEMMA ListsShownAgree == ListsInv => ListsAgree
<1> SUFFICES ASSUME ListsInv, phase = "done" PROVE ListsAgree
  BY DEF ListsAgree
<1> DEFINE h == Len(page) + 1
<1>1. /\ MarkersInv /\ CiteInv /\ CutsInv /\ ShownSoFar /\ RestOK /\ UsesInv
      /\ \A k \in 1..Len(collected) : UseShown(collected[k])
      /\ shown = walks[1].out /\ Here = h
  BY DEF ListsInv, MarkersInv, CiteInv
<1>2. Len(page) \in Nat /\ h \in Nat /\ h - 1 = Len(page)
  BY <1>1, LenProperties DEF RestOK
<1>3. cut_cursor = CutNo(Len(page)) /\ Len(cuts) = CutNo(Len(page)) /\ OutLists(shown, h)
  BY <1>1, <1>2 DEF ShownSoFar
<1>4. CutNo(Len(page)) \in Nat /\ cut_cursor <= Len(cuts)
  BY <1>2, <1>3, CutNoOrder
<1>5. ASSUME NEW i, ListAt(i) PROVE i \in Nat /\ i < h /\ Cut(i) /\ CutNo(i) \in 1..Len(cuts)
  <2>1. i \in Nat \ {0} /\ i <= Len(page)
    BY <1>2, <1>5 DEF ListAt
  <2>2. CutNo(i) <= CutNo(Len(page)) /\ CutNo(i) \in Nat
    BY <1>2, <2>1, CutNoOrder
  <2>3. CutNo(i) = CutNo(i - 1) + 1 /\ CutNo(i - 1) \in Nat
    BY <1>5, <2>1, NextCutNo
  <2> QED
    BY <1>2, <1>3, <1>4, <1>5, <2>1, <2>2, <2>3 DEF Cut
<1>6. \A l : l \in ListsShown <=> l \in Range(shown) /\ IsShownList(l)
  BY DEF ListsShown, IsShownList
<1>7. ASSUME NEW l \in ListsShown
      PROVE  /\ ListAt(l.place[1]) /\ l.group = page[l.place[1]].group
             /\ Len(l.entries) = Len(cuts[CutNo(l.place[1])])
             /\ Notes(l) = cuts[CutNo(l.place[1])]
             /\ \A x : x \in Range(Notes(l)) <=> InSeq(x, Notes(l))
  <2>1. ListShown(l, h)
    BY <1>3, <1>6 DEF OutLists
  <2>2. ListAt(l.place[1]) /\ Notes(l) = cuts[CutNo(l.place[1])]
    BY <2>1 DEF ListShown
  <2>3. cuts[CutNo(l.place[1])] \in Seq(Nat)
    BY <1>1, <1>5, <2>2 DEF RestOK
  <2>4. Notes(l) \in Seq(Nat) /\ DOMAIN Notes(l) = 1..Len(Notes(l))
    BY <2>2, <2>3, LenProperties
  <2>5. \A x : x \in Range(Notes(l)) <=> InSeq(x, Notes(l))
    BY <2>4 DEF Range, InSeq
  <2> QED
    BY <2>1, <2>5 DEF ListShown
<1> HIDE DEF h
<1>8. ASSUME NEW l \in ListsShown, NEW m \in ListsShown, l # m
      PROVE  Range(Notes(l)) \intersect Range(Notes(m)) = {}
  <2> DEFINE i == l.place[1]
             j == m.place[1]
  <2>1. ListAt(i) /\ ListAt(j) /\ Notes(l) = cuts[CutNo(i)] /\ Notes(m) = cuts[CutNo(j)]
    BY <1>7
  <2>2. i # j
    BY <1>3, <1>6, <1>8 DEF OutLists
  <2> HIDE DEF i, j
  <2>3. i \in Nat /\ j \in Nat /\ CutNo(i) \in 1..Len(cuts) /\ CutNo(j) \in 1..Len(cuts)
    BY <1>5, <2>1
  <2>4. CutNo(i) # CutNo(j)
    <3>1. CASE i < j
      BY <2>1, <2>3, <3>1, CutNoOrder
    <3>2. CASE j < i
      BY <2>1, <2>3, <3>2, CutNoOrder
    <3> QED
      BY <2>2, <2>3, <3>1, <3>2
  <2>5. Apart(Notes(l), Notes(m))
    BY <1>1, <2>1, <2>3, <2>4 DEF CutsInv
  <2>6. \A x : ~(x \in Range(Notes(l)) /\ x \in Range(Notes(m)))
    BY <1>7, <2>5 DEF Apart, InSeq
  <2> QED
    BY <2>6
<1>9. ASSUME NEW l \in ListsShown, NEW n \in 1..Len(l.entries)
      PROVE  references[Notes(l)[n]].number = n /\ references[Notes(l)[n]].group = l.group
  <2> DEFINE i == l.place[1]
  <2>1. /\ ListAt(i) /\ l.group = page[i].group /\ Notes(l) = cuts[CutNo(i)]
        /\ n \in 1..Len(cuts[CutNo(i)])
    BY <1>7
  <2> HIDE DEF i
  <2>2. CutNo(i) \in 1..Len(cuts) /\ Cut(i)
    BY <1>5, <2>1
  <2> QED
    BY <1>1, <2>1, <2>2, SMTT(30) DEF CutsInv
<1>10. ASSUME NEW k \in 1..Len(collected), NEW l \in ListsShown,
              NEW use, use = collected[k],
              Follows(l, use), l.group = references[use.note].group,
              \A m \in ListsShown : m.group = l.group /\ Follows(m, use)
                                       => m.place[1] >= l.place[1]
       PROVE  use.note \in Range(Notes(l))
  <2> DEFINE i == l.place[1]
  <2>1. ListAt(i) /\ l.group = page[i].group /\ Notes(l) = cuts[CutNo(i)]
    BY <1>7
  <2>2. After(i, use)
    BY <1>10 DEF Follows, After
  <2>3. \A m : m.place[1] >= i <=> m.place[1] >= l.place[1]
    OBVIOUS
  <2> HIDE DEF i
  <2>4. i \in Nat /\ Takes(i, use)
    BY <1>5, <1>10, <2>1, <2>2 DEF Takes
  <2>5. UseShown(use)
    BY <1>1, <1>10
  <2>6. PICK j : /\ Takes(j, use) /\ InSeq(use.note, cuts[CutNo(j)])
                 /\ \A x : Takes(x, use) => j <= x
    BY <2>4, <2>5 DEF UseShown
  <2>7. j <= i
    BY <2>4, <2>6
  <2>8. ListAt(j) /\ page[j].group = l.group /\ After(j, use)
    BY <1>10, <2>6 DEF Takes, Cut
  <2>9. j \in Nat /\ j < h /\ cuts[CutNo(j)] # <<>>
    <3>1. cuts[CutNo(j)] # <<>>
      BY <2>6, EmptySeq DEF InSeq
    <3> QED
      BY <1>5, <2>8, <3>1
  <2>10. PICK m \in Range(shown) : IsShownList(m) /\ m.place[1] = j
    BY <1>3, <2>8, <2>9 DEF OutLists
  <2>11. m \in ListsShown /\ m.group = l.group /\ Follows(m, use)
    <3>1. m \in ListsShown
      BY <1>6, <2>10
    <3>2. m.group = page[m.place[1]].group
      BY <1>7, <3>1
    <3> QED
      BY <2>8, <2>10, <3>1, <3>2 DEF Follows, After
  <2>12. j >= i
    BY <1>10, <2>3, <2>10, <2>11
  <2>13. j = i
    BY <2>4, <2>7, <2>9, <2>12
  <2> QED
    BY <1>7, <2>1, <2>6, <2>13
<1> QED
  BY <1>4, <1>8, <1>9, <1>10 DEF ListsAgree

\* The lists of a page agree with its markers: each takes what waits for its
\* group and no other takes it (cut_group), and the second walk gives each list
\* the cut of its own (walk_render), for all pages where no note of the kind the
\* walks go into has a list in it.
THEOREM ListsAlwaysAgree == NoListsInNotes => (Spec => []ListsAgree)
<1> SUFFICES ASSUME NoListsInNotes PROVE Spec => []ListsAgree
  OBVIOUS
<1>1. ListsInv /\ [Next]_vars /\ MarkersInv' => ListsInv'
  BY ListsStep
<1> QED
  BY <1>1, ListsInit, ListsShownAgree, MarkersInvariant, PTL DEF Spec
=============================================================================
