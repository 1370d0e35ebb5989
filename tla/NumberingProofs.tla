--------------------------- MODULE NumberingProofs ---------------------------
(***************************************************************************)
(* What holds of Numbering for every page, any number of tokens and any    *)
(* depth of nesting.                                                       *)
(***************************************************************************)
EXTENDS Numbering, SequenceTheorems, WellFoundedInduction, TLAPS

-----------------------------------------------------------------------------
(* Induction over a set of numbers. *)

\* A set of numbers that is not empty has a least element.
LEMMA LeastNumber ==
  ASSUME NEW S \in SUBSET Nat, S # {}
  PROVE  \E x \in S : \A y \in S : ~(y < x)
<1> DEFINE R == {p \in Nat \X Nat : p[1] < p[2]}
<1>1. IsWellFoundedOn(R, Nat)
  BY NatLessThanWellFounded DEF OpToRel
<1>2. PICK x \in S : \A y \in S : <<y, x>> \notin R
  <2> HIDE DEF R
  <2> QED BY <1>1, WFMin
<1> QED BY <1>2

\* A set that holds 0 and, with a number below n, the next one, holds all
\* numbers up to n.
LEMMA UpTo ==
  ASSUME NEW n \in Nat, NEW S, 0 \in S, \A k \in 0..(n - 1) : k \in S => k + 1 \in S
  PROVE  0..n \subseteq S
<1> SUFFICES ASSUME 0..n \ S # {} PROVE FALSE
  OBVIOUS
<1> DEFINE T == 0..n \ S
<1>1. T \in SUBSET Nat /\ T # {}
  OBVIOUS
<1>2. PICK x \in T : \A y \in T : ~(y < x)
  <2> HIDE DEF T
  <2> QED BY <1>1, LeastNumber
<1>3. x - 1 \in 0..(n - 1) /\ x - 1 < x
  BY <1>2
<1> QED BY <1>2, <1>3

-----------------------------------------------------------------------------
(* The numbering of a chunk is a number of steps. *)

IsNumbering(f, items) ==
    f = [k \in 0..Len(items) |->
            IF k = 0 THEN Numbers(<<>>) ELSE NumberOne(f[k - 1], items[k])]

\* Every chunk is numbered, one token after the other.
LEMMA ChunkNumbered ==
  ASSUME NEW items, Len(items) \in Nat
  PROVE  \E f : IsNumbering(f, items) /\ number_chunk_extensions(items) = f[Len(items)]
<1> DEFINE n == Len(items)
           Upto(k, g) ==
               /\ g[0] = Numbers(<<>>)
               /\ \A j \in 1..k : g[j] = NumberOne(g[j - 1], items[j])
           S == {k \in 0..n : \E g : Upto(k, g)}
<1>1. 0 \in S
  <2>1. Upto(0, [k \in {0} |-> Numbers(<<>>)])
    OBVIOUS
  <2> HIDE DEF Upto
  <2> QED BY <2>1
<1>2. ASSUME NEW k \in 0..(n - 1), k \in S PROVE k + 1 \in S
  <2>1. PICK g : Upto(k, g)
    BY <1>2
  <2> DEFINE h == [j \in 0..(k + 1) |-> IF j = k + 1 THEN NumberOne(g[k], items[k + 1]) ELSE g[j]]
  <2>2. \A j \in 0..k : h[j] = g[j]
    OBVIOUS
  <2>3. h[k + 1] = NumberOne(g[k], items[k + 1])
    OBVIOUS
  <2> HIDE DEF h
  <2>4. Upto(k + 1, h)
    <3>1. h[0] = Numbers(<<>>)
      BY <2>1, <2>2
    <3>2. ASSUME NEW j \in 1..(k + 1) PROVE h[j] = NumberOne(h[j - 1], items[j])
      <4>1. CASE j = k + 1
        BY <2>2, <2>3, <4>1
      <4>2. CASE j \in 1..k
        <5>1. h[j] = g[j] /\ h[j - 1] = g[j - 1]
          BY <2>2, <4>2
        <5> QED BY <2>1, <4>2, <5>1
      <4> QED BY <4>1, <4>2
    <3> QED BY <3>1, <3>2
  <2> HIDE DEF Upto
  <2> QED BY <2>4
<1>3. n \in S
  <2> HIDE DEF S
  <2>1. 0..n \subseteq S
    BY <1>1, <1>2, UpTo
  <2> QED BY <2>1
<1>4. PICK g : Upto(n, g)
  BY <1>3
<1> DEFINE h == [k \in 0..n |-> IF k = 0 THEN Numbers(<<>>) ELSE NumberOne(g[k - 1], items[k])]
<1>5. \A k \in 0..n : h[k] = g[k]
  BY <1>4
<1>6. IsNumbering(h, items)
  <2>1. \A k \in 1..n : h[k - 1] = g[k - 1]
    BY <1>5
  <2>2. h = [k \in 0..n |-> IF k = 0 THEN Numbers(<<>>) ELSE NumberOne(h[k - 1], items[k])]
    <3> SUFFICES ASSUME NEW k \in 0..n
                 PROVE  (IF k = 0 THEN Numbers(<<>>) ELSE NumberOne(g[k - 1], items[k]))
                          = (IF k = 0 THEN Numbers(<<>>) ELSE NumberOne(h[k - 1], items[k]))
      OBVIOUS
    <3> HIDE DEF h
    <3>1. CASE k = 0
      BY <3>1
    <3>2. CASE k # 0
      BY <2>1, <3>2
    <3> QED BY <3>1, <3>2
  <2> HIDE DEF h
  <2> QED BY <2>2 DEF IsNumbering
<1> HIDE DEF h
<1> DEFINE c == CHOOSE f : IsNumbering(f, items)
<1>7. IsNumbering(c, items)
  BY <1>6
<1>8. number_chunk_extensions(items) = c[Len(items)]
  BY DEF number_chunk_extensions, IsNumbering
<1> QED BY <1>7, <1>8
-----------------------------------------------------------------------------
(* Types. *)

AnyItem == [kind : Tags \union {"nl"}, frag : Nat, about : Nat]
Fragments == UNION {[D -> Nat] : D \in SUBSET Nat}

Numberings == [items : Seq(AnyItem), about : Nat, next : Nat, pending : SUBSET Nat,
               fragments : Fragments, phantom : SUBSET Nat, seen : SUBSET Nat]

IsStyle(it) == it.kind = "style"
IsNewline(it) == it.kind = "nl"
IsRef(it) == it.kind = "ref"
IsOther(it) == it.kind \in {"indicator", "pre"}

\* A table with one more entry.
LEMMA WithType ==
  ASSUME NEW f \in Fragments, NEW x \in Nat, NEW y \in Nat
  PROVE  /\ With(f, x, y) \in Fragments
         /\ DOMAIN With(f, x, y) = DOMAIN f \union {x}
         /\ With(f, x, y)[x] = y
         /\ \A z \in DOMAIN f : z # x => With(f, x, y)[z] = f[z]
<1>1. PICK D \in SUBSET Nat : f \in [D -> Nat]
  BY DEF Fragments
<1>2. With(f, x, y) \in [D \union {x} -> Nat]
  BY <1>1 DEF With
<1>3. D \union {x} \in SUBSET Nat
  OBVIOUS
<1>4. With(f, x, y) \in Fragments
  BY <1>2, <1>3 DEF Fragments
<1> QED BY <1>4 DEF With

\* The kinds of tokens.
LEMMA KindOf ==
  ASSUME NEW it \in AnyItem
  PROVE  IsStyle(it) \/ IsNewline(it) \/ IsRef(it) \/ IsOther(it)
  BY ConstantsAssumption DEF AnyItem, AllTags, IsStyle, IsNewline, IsRef, IsOther

\* They are apart.
LEMMA KindsApart ==
  ASSUME NEW it
  PROVE  /\ IsStyle(it) => ~IsNewline(it) /\ ~IsRef(it) /\ ~IsOther(it)
         /\ IsNewline(it) => ~IsRef(it) /\ ~IsOther(it)
         /\ IsRef(it) => ~IsOther(it)
         /\ IsStyle(it) \in BOOLEAN
  BY DEF IsStyle, IsNewline, IsRef, IsOther

\* What becomes of a token with another id, or in another fragment.
Retagged(it, id) == [it EXCEPT !.about = id]
Moved(it, f) == [it EXCEPT !.frag = f]

\* A token with another id.
LEMMA RetaggedItem ==
  ASSUME NEW it \in AnyItem, NEW id \in Nat PROVE Retagged(it, id) \in AnyItem
  BY DEF Retagged, AnyItem
LEMMA RetaggedType ==
  ASSUME NEW it \in AnyItem, NEW id \in Nat
  PROVE  /\ Retagged(it, id).kind = it.kind /\ Retagged(it, id).frag = it.frag
         /\ Retagged(it, id).about = id
  BY DEF Retagged, AnyItem

\* A token with another fragment.
LEMMA MovedItem ==
  ASSUME NEW it \in AnyItem, NEW f \in Nat PROVE Moved(it, f) \in AnyItem
  BY DEF Moved, AnyItem
LEMMA MovedType ==
  ASSUME NEW it \in AnyItem, NEW f \in Nat
  PROVE  /\ Moved(it, f).kind = it.kind /\ Moved(it, f).frag = f
         /\ Moved(it, f).about = it.about
  BY DEF Moved, AnyItem

\* The token x is the next of m, which is otherwise n but for the counters
\* given.
Added(n, m, x, about_, next_, pending_, fragments_, phantom_, seen_) ==
    /\ m \in Numberings
    /\ m.items = Append(n.items, x)
    /\ m.about = about_ /\ m.next = next_ /\ m.pending = pending_
    /\ m.fragments = fragments_ /\ m.phantom = phantom_ /\ m.seen = seen_

\* What numbering one token comes to.
StyleAgain(n, it, m) ==
    /\ IsStyle(it) /\ it.frag \notin n.pending /\ it.frag \in n.seen
    /\ Added(n, m, Moved(it, n.next), n.about + 1, n.next + 1, n.pending,
             With(n.fragments, n.next, n.about + 1), n.phantom, n.seen)
StylePending(n, it, m) ==
    /\ IsStyle(it) /\ it.frag \in n.pending
    /\ Added(n, m, it, n.about + 1, n.next, n.pending \ {it.frag},
             With(n.fragments, it.frag, n.about + 1), n.phantom, n.seen \union {it.frag})
StyleKept(n, it, m) ==
    /\ IsStyle(it) /\ it.frag \notin n.pending /\ it.frag \notin n.seen
    /\ Added(n, m, it, n.about, n.next, n.pending, n.fragments, n.phantom,
             n.seen \union {it.frag})
OtherKept(n, it, m) ==
    /\ ~IsStyle(it) /\ (IsNewline(it) \/ it.about # 0)
    /\ Added(n, m, it, n.about, n.next, n.pending, n.fragments, n.phantom, n.seen)
OtherNumbered(n, it, m) ==
    /\ ~IsStyle(it) /\ ~IsNewline(it) /\ it.about = 0
    /\ Added(n, m, Retagged(it, n.about + 1), n.about + 1, n.next, n.pending,
             n.fragments, n.phantom, n.seen)
RefNumbered(n, it, m) ==
    /\ ~IsStyle(it) /\ ~IsNewline(it) /\ it.about = 0
    /\ Added(n, m, Retagged(it, n.about + 1), n.about + 2, n.next, n.pending,
             n.fragments, n.phantom \union {n.about + 2}, n.seen)

\* The step is one of these.
LEMMA NumberOneCases ==
  ASSUME NEW n \in Numberings, NEW it \in AnyItem
  PROVE  LET m == NumberOne(n, it) IN
         \/ StyleAgain(n, it, m) \/ StylePending(n, it, m) \/ StyleKept(n, it, m)
         \/ OtherKept(n, it, m) \/ OtherNumbered(n, it, m) \/ RefNumbered(n, it, m)
<1> DEFINE m == NumberOne(n, it)
<1>1. /\ n.items \in Seq(AnyItem) /\ n.about \in Nat /\ n.next \in Nat
      /\ n.fragments \in Fragments /\ it.frag \in Nat
      /\ n.pending \in SUBSET Nat /\ n.phantom \in SUBSET Nat /\ n.seen \in SUBSET Nat
  BY DEF Numberings, AnyItem
<1>0. \A x \in AnyItem : Append(n.items, x) \in Seq(AnyItem)
  <2> DEFINE q == n.items
  <2>1. q \in Seq(AnyItem)
    BY <1>1
  <2> HIDE DEF q
  <2>2. \A x \in AnyItem : Append(q, x) \in Seq(AnyItem)
    BY <2>1, AppendProperties
  <2> QED BY <2>2 DEF q
<1>2. CASE IsStyle(it)
  <2>1. m = number_style_placeholder(n, it)
    BY <1>2, Zenon DEF NumberOne, IsStyle
  <2>2. CASE it.frag \notin n.pending /\ it.frag \in n.seen
    <3> DEFINE x == Moved(it, n.next)
               s == Append(n.items, x)
               w == With(n.fragments, n.next, n.about + 1)
               a == n.about + 1
               b == n.next + 1
    <3>1. m = [n EXCEPT !.items = s, !.about = a, !.next = b, !.fragments = w]
      BY <2>1, <2>2, Zenon DEF number_style_placeholder, Moved
    <3>2. s \in Seq(AnyItem) /\ w \in Fragments
      <4>1. x \in AnyItem /\ n.about + 1 \in Nat
        BY <1>1, MovedItem
      <4> HIDE DEF x
      <4> QED BY <1>0, <1>1, <4>1, WithType
    <3>4. a \in Nat /\ b \in Nat
      BY <1>1
    <3> HIDE DEF s, w, a, b, m
    <3>3. /\ m \in Numberings /\ m.items = s /\ m.about = a
          /\ m.next = b /\ m.pending = n.pending /\ m.fragments = w
          /\ m.phantom = n.phantom /\ m.seen = n.seen
      BY <3>1, <3>2, <3>4 DEF Numberings
    <3> QED BY <1>2, <2>2, <3>3 DEF StyleAgain, Added, s, w, a, b, m
  <2>3. CASE it.frag \in n.pending
    <3> DEFINE s == Append(n.items, it)
               w == With(n.fragments, it.frag, n.about + 1)
               a == n.about + 1
               p == n.pending \ {it.frag}
               e == n.seen \union {it.frag}
    <3>1. m = [n EXCEPT !.items = s, !.about = a, !.pending = p,
                        !.fragments = w, !.seen = e]
      BY <2>1, <2>3, Zenon DEF number_style_placeholder
    <3>2. s \in Seq(AnyItem) /\ w \in Fragments
      <4>1. n.about + 1 \in Nat
        BY <1>1
      <4> QED BY <1>0, <1>1, <4>1, WithType
    <3>4. a \in Nat /\ p \in SUBSET Nat /\ e \in SUBSET Nat
      BY <1>1
    <3> HIDE DEF s, w, a, p, e, m
    <3>3. /\ m \in Numberings /\ m.items = s /\ m.about = a
          /\ m.next = n.next /\ m.pending = p /\ m.fragments = w
          /\ m.phantom = n.phantom /\ m.seen = e
      BY <3>1, <3>2, <3>4 DEF Numberings
    <3> QED BY <1>2, <2>3, <3>3 DEF StylePending, Added, s, w, a, p, e, m
  <2>4. CASE it.frag \notin n.pending /\ it.frag \notin n.seen
    <3> DEFINE s == Append(n.items, it)
    <3>1. m = [n EXCEPT !.items = s, !.seen = @ \union {it.frag}]
      BY <2>1, <2>4, Zenon DEF number_style_placeholder
    <3>2. s \in Seq(AnyItem)
      BY <1>0
    <3> HIDE DEF s
    <3>3. /\ m \in Numberings /\ m.items = s /\ m.about = n.about
          /\ m.next = n.next /\ m.pending = n.pending /\ m.fragments = n.fragments
          /\ m.phantom = n.phantom /\ m.seen = n.seen \union {it.frag}
      BY <1>1, <3>1, <3>2 DEF Numberings
    <3> QED BY <1>2, <2>4, <3>3 DEF StyleKept, Added, s
  <2> QED BY <2>2, <2>3, <2>4
<1>3. CASE ~IsStyle(it)
  <2>1. \/ IsNewline(it) /\ m = Keep(n, it)
        \/ IsRef(it) /\ m = number_ref(n, it)
        \/ IsOther(it) /\ m = number_in_place(n, it)
    BY <1>3, KindOf, KindsApart, Zenon DEF NumberOne, IsStyle, IsNewline, IsRef, IsOther
  <2> DEFINE s == Append(n.items, it)
             t == Append(n.items, Retagged(it, n.about + 1))
  <2>2. s \in Seq(AnyItem) /\ t \in Seq(AnyItem)
    <3>1. Retagged(it, n.about + 1) \in AnyItem
      BY <1>1, RetaggedItem
    <3> QED BY <1>0, <3>1
  <2>3. Keep(n, it) = [n EXCEPT !.items = s]
    BY DEF Keep
  <2> DEFINE a == n.about + 1
             a2 == a + 1
             h == n.phantom \union {n.about + 2}
             k == [n EXCEPT !.items = t, !.about = a]
  <2>4. a \in Nat /\ a2 \in Nat /\ h \in SUBSET Nat /\ a2 = n.about + 2
    BY <1>1
  <2>5. [Keep(n, [it EXCEPT !.about = n.about + 1]) EXCEPT !.about = @ + 1]
           = [[n EXCEPT !.items = t] EXCEPT !.about = [n EXCEPT !.items = t].about + 1]
    BY DEF Keep, Retagged
  <2> HIDE DEF s, t, a, a2, h, k, m
  <2>6. [n EXCEPT !.items = t].about + 1 = a
    <3>1. [n EXCEPT !.items = t].about = n.about
      BY <2>2 DEF Numberings
    <3> QED BY <3>1 DEF a
  <2>7. [[n EXCEPT !.items = t] EXCEPT !.about = a] = k
    BY DEF k, Numberings
  <2>8. it.about = 0 => number_in_place(n, it) = k
    BY <2>5, <2>6, <2>7 DEF number_in_place
  <2>9. it.about # 0 => number_in_place(n, it) = Keep(n, it)
    BY DEF number_in_place
  <2>10. CASE m = Keep(n, it) /\ (IsNewline(it) \/ it.about # 0)
    <3>1. /\ m \in Numberings /\ m.items = s /\ m.about = n.about
          /\ m.next = n.next /\ m.pending = n.pending /\ m.fragments = n.fragments
          /\ m.phantom = n.phantom /\ m.seen = n.seen
      BY <2>2, <2>3, <2>10 DEF Numberings
    <3> QED BY <1>3, <2>10, <3>1 DEF OtherKept, Added, s, m
  <2>11. /\ k \in Numberings /\ k.items = t /\ k.about = a
         /\ k.next = n.next /\ k.pending = n.pending /\ k.fragments = n.fragments
         /\ k.phantom = n.phantom /\ k.seen = n.seen
    BY <2>2, <2>4 DEF k, Numberings
  <2>0. IsRef(it) \/ IsOther(it) => ~IsNewline(it)
    BY KindsApart
  <2>12. CASE m = number_in_place(n, it) /\ it.about = 0 /\ ~IsNewline(it)
    BY <1>3, <2>8, <2>11, <2>12 DEF OtherNumbered, Added, t, a, m
  <2>13. CASE m = number_ref(n, it) /\ it.about = 0 /\ Len(stack) # 1 /\ ~IsNewline(it)
    <3>1. m = [k EXCEPT !.about = a2, !.phantom = h]
      <4>1. number_ref(n, it) = [k EXCEPT !.about = @ + 1,
                                          !.phantom = @ \union {n.about + 2}]
        BY <2>8, <2>13 DEF number_ref
      <4> QED BY <2>11, <2>13, <4>1 DEF a2, h
    <3>2. /\ m \in Numberings /\ m.items = t /\ m.about = a2
          /\ m.next = n.next /\ m.pending = n.pending /\ m.fragments = n.fragments
          /\ m.phantom = h /\ m.seen = n.seen
      BY <2>4, <2>11, <3>1 DEF Numberings
    <3> QED BY <1>3, <2>4, <2>13, <3>2 DEF RefNumbered, Added, t, h, a, m
  <2>14. number_ref(n, it) = number_in_place(n, it) \/ (it.about = 0 /\ Len(stack) # 1)
    BY DEF number_ref
  <2> QED BY <2>0, <2>1, <2>9, <2>10, <2>12, <2>13, <2>14
<1> QED BY <1>2, <1>3
-----------------------------------------------------------------------------
(* The counters, and what a token is to them.  The counters are those of a  *)
(* numbering; Numbers(<<>>) has those of the state.                         *)

CountersOK(c) ==
    /\ c.next # 0
    /\ c.pending \union DOMAIN c.fragments = 1..(c.next - 1)
    /\ c.pending \intersect DOMAIN c.fragments = {}
    /\ \A f \in DOMAIN c.fragments : c.fragments[f] \in 0..c.about
    /\ \A f, g \in DOMAIN c.fragments :
          c.fragments[f] = c.fragments[g] /\ c.fragments[f] # 0 => f = g
    /\ c.phantom \subseteq 1..c.about

\* Ids and fragments are only ever taken, and a fragment keeps its id.
Grows(c, d) ==
    /\ c.about <= d.about /\ c.next <= d.next /\ c.phantom \subseteq d.phantom
    /\ \A f \in DOMAIN c.fragments :
          f \in DOMAIN d.fragments /\ d.fragments[f] = c.fragments[f]
    /\ \A f \in DOMAIN d.fragments \ DOMAIN c.fragments :
          d.fragments[f] = 0 \/ d.fragments[f] > c.about
    /\ \A f \in c.pending \ d.pending : f \in DOMAIN d.fragments /\ d.fragments[f] # 0

\* A token names nothing that was not allocated; a stylesheet that is built has
\* an id, and no other token shows it.
StyleOK(it, c) ==
    /\ it.about = 0
    /\ it.frag \in DOMAIN c.fragments => c.fragments[it.frag] # 0
OtherOK(it, c) ==
    /\ it.about # 0 => \A f \in DOMAIN c.fragments : c.fragments[f] # it.about
    /\ IsNewline(it) => it = Newline
ItemOK(it, c) ==
    /\ it \in AnyItem /\ it.frag < c.next /\ it.about <= c.about
    /\ IF IsStyle(it) THEN StyleOK(it, c) ELSE OtherOK(it, c)

Resolved(it) == IsStyle(it) => it.frag # 0
NumberedIn(it, c) == IsNewline(it) \/ AboutOf(it, c.fragments) # 0

\* The id a token shows.
LEMMA AboutFacts ==
  ASSUME NEW it, NEW F
  PROVE  /\ IsStyle(it) /\ it.frag \in DOMAIN F => AboutOf(it, F) = F[it.frag]
         /\ IsStyle(it) /\ it.frag \notin DOMAIN F => AboutOf(it, F) = it.about
         /\ ~IsStyle(it) => AboutOf(it, F) = it.about
  BY DEF AboutOf, IsStyle

\* The types of the counters.
LEMMA CountersType ==
  ASSUME NEW c \in Numberings
  PROVE  /\ c.about \in Nat /\ c.next \in Nat /\ c.pending \in SUBSET Nat
         /\ c.phantom \in SUBSET Nat /\ c.seen \in SUBSET Nat /\ c.items \in Seq(AnyItem)
         /\ c.fragments \in Fragments
         /\ DOMAIN c.fragments \subseteq Nat
         /\ \A f \in DOMAIN c.fragments : c.fragments[f] \in Nat
<1>1. c.fragments \in Fragments
  BY DEF Numberings
<1>2. PICK D \in SUBSET Nat : c.fragments \in [D -> Nat]
  BY <1>1 DEF Fragments
<1> QED BY <1>1, <1>2 DEF Numberings

\* Counters only grow, from step to step.
LEMMA GrowsReflexive == ASSUME NEW c \in Numberings PROVE Grows(c, c)
  BY CountersType DEF Grows

\* So they do over two steps.
LEMMA GrowsTransitive ==
  ASSUME NEW c \in Numberings, NEW d \in Numberings, NEW e \in Numberings,
         Grows(c, d), Grows(d, e)
  PROVE  Grows(c, e)
<1>1. c.about \in Nat /\ d.about \in Nat /\ e.about \in Nat
      /\ c.next \in Nat /\ d.next \in Nat /\ e.next \in Nat
  BY CountersType
<1>2. \A f \in DOMAIN c.fragments :
          f \in DOMAIN e.fragments /\ e.fragments[f] = c.fragments[f]
  BY DEF Grows
<1>3. ASSUME NEW f \in DOMAIN e.fragments \ DOMAIN c.fragments
      PROVE  e.fragments[f] = 0 \/ e.fragments[f] > c.about
  <2>1. e.fragments[f] \in Nat
    BY CountersType
  <2> QED BY <1>1, <2>1 DEF Grows
<1>4. \A f \in c.pending \ e.pending : f \in DOMAIN e.fragments /\ e.fragments[f] # 0
  BY DEF Grows
<1> QED BY <1>1, <1>2, <1>3, <1>4 DEF Grows

\* What is true of a token stays true.
LEMMA ItemStays ==
  ASSUME NEW c \in Numberings, NEW d \in Numberings, CountersOK(c), CountersOK(d), Grows(c, d),
         NEW it, ItemOK(it, c)
  PROVE  /\ ItemOK(it, d)
         /\ AboutOf(it, c.fragments) # 0 => AboutOf(it, d.fragments) = AboutOf(it, c.fragments)
         /\ NumberedIn(it, c) => NumberedIn(it, d)
<1>1. /\ c.about \in Nat /\ d.about \in Nat /\ c.next \in Nat /\ d.next \in Nat
      /\ it \in AnyItem /\ it.frag \in Nat /\ it.about \in Nat
      /\ it.frag < c.next /\ it.about <= c.about
  BY CountersType DEF ItemOK, AnyItem
<1>2. c.about <= d.about /\ c.next <= d.next
  BY DEF Grows
<1>3. it.frag < d.next /\ it.about <= d.about
  BY <1>1, <1>2
<1>4. CASE IsStyle(it)
  <2>1. StyleOK(it, c)
    BY <1>4 DEF ItemOK
  <2>2. it.frag \in DOMAIN d.fragments => d.fragments[it.frag] # 0
    <3>1. CASE it.frag \in DOMAIN c.fragments
      BY <2>1, <3>1 DEF Grows, StyleOK
    <3>2. CASE it.frag \in c.pending
      BY <3>2 DEF Grows, CountersOK
    <3>3. CASE it.frag = 0
      BY <1>1, <3>3 DEF CountersOK
    <3>4. it.frag # 0 => it.frag \in 1..(c.next - 1)
      BY <1>1
    <3> QED BY <3>1, <3>2, <3>3, <3>4 DEF CountersOK
  <2>3. ItemOK(it, d)
    BY <1>1, <1>3, <1>4, <2>1, <2>2 DEF ItemOK, StyleOK
  <2>4. AboutOf(it, c.fragments) # 0 => AboutOf(it, d.fragments) = AboutOf(it, c.fragments)
    <3>1. CASE it.frag \in DOMAIN c.fragments
      <4>1. it.frag \in DOMAIN d.fragments /\ d.fragments[it.frag] = c.fragments[it.frag]
        BY <3>1 DEF Grows
      <4> QED BY <1>4, <3>1, <4>1, AboutFacts
    <3>2. CASE it.frag \notin DOMAIN c.fragments
      BY <1>4, <2>1, <3>2, AboutFacts DEF StyleOK
    <3> QED BY <3>1, <3>2
  <2> QED BY <2>3, <2>4 DEF NumberedIn
<1>5. CASE ~IsStyle(it)
  <2>1. OtherOK(it, c)
    BY <1>5 DEF ItemOK
  <2>2. OtherOK(it, d)
    <3> SUFFICES ASSUME it.about # 0, NEW f \in DOMAIN d.fragments
                 PROVE  d.fragments[f] # it.about
      BY <2>1 DEF OtherOK
    <3>1. CASE f \in DOMAIN c.fragments
      BY <2>1, <3>1 DEF Grows, OtherOK
    <3>2. CASE f \notin DOMAIN c.fragments
      <4>1. d.fragments[f] = 0 \/ d.fragments[f] > c.about
        BY <3>2 DEF Grows
      <4>2. d.fragments[f] \in Nat
        BY CountersType
      <4> QED BY <1>1, <4>1, <4>2
    <3> QED BY <3>1, <3>2
  <2>3. ItemOK(it, d)
    BY <1>1, <1>3, <1>5, <2>2 DEF ItemOK
  <2>4. AboutOf(it, d.fragments) = AboutOf(it, c.fragments)
    BY <1>5, AboutFacts
  <2> QED BY <2>3, <2>4 DEF NumberedIn
<1> QED BY <1>4, <1>5
-----------------------------------------------------------------------------
(* One step of a numbering. *)

\* The token x in the place of `it'.
Replaces(n, it, m, x) ==
    /\ x.kind = it.kind
    /\ it.about # 0 => x.about = it.about
    /\ it.about = 0 => x.about = 0 \/ x.about > n.about
    /\ x.frag = it.frag \/ x.frag >= n.next

\* No other occurrence in the chunk has its fragment.
OnlyOne(n, it, m, x) ==
    /\ IsStyle(it) => x.frag \notin n.seen /\ (x.frag \in m.seen \/ x.frag >= n.next)
    /\ n.seen \subseteq m.seen /\ m.seen \subseteq n.seen \union {it.frag}
    /\ m.seen \intersect m.pending = {}
    /\ \A f \in m.seen \ n.seen : IsStyle(x) /\ x.frag = f

\* Every id that was taken is shown, and what was shown still is, maybe by an
\* earlier occurrence.
Shows(n, it, m, x) ==
    /\ \A id \in (n.about + 1)..m.about :
          id \in m.phantom \/ AboutOf(x, m.fragments) = id
    /\ AboutOf(it, n.fragments) # 0 =>
          \/ AboutOf(x, m.fragments) = AboutOf(it, n.fragments)
          \/ IsStyle(it) /\ it.frag \in n.seen

StepOK(n, it, m, x) ==
    /\ m \in Numberings /\ m.items = Append(n.items, x)
    /\ CountersOK(m) /\ Grows(n, m)
    /\ ItemOK(x, m) /\ Resolved(x) /\ NumberedIn(x, m)
    /\ Replaces(n, it, m, x) /\ OnlyOne(n, it, m, x) /\ Shows(n, it, m, x)

\* A token that stays as it is.
LEMMA KeptStep ==
  ASSUME NEW n \in Numberings, NEW it, NEW m, CountersOK(n),
         ItemOK(it, n), Resolved(it), n.seen \intersect n.pending = {},
         StyleKept(n, it, m) \/ OtherKept(n, it, m)
  PROVE  StepOK(n, it, m, it)
<1>1. /\ n.about \in Nat /\ n.next \in Nat /\ it.frag \in Nat /\ it.about \in Nat
      /\ it \in AnyItem /\ it.frag < n.next
  BY CountersType DEF ItemOK, AnyItem
<1>2. /\ m \in Numberings /\ m.items = Append(n.items, it)
      /\ m.about = n.about /\ m.next = n.next /\ m.pending = n.pending
      /\ m.fragments = n.fragments /\ m.phantom = n.phantom
      /\ m.seen = n.seen \/ m.seen = n.seen \union {it.frag}
  BY DEF StyleKept, OtherKept, Added
<1>3. CountersOK(m) /\ Grows(n, m)
  <2>1. CountersOK(m)
    BY <1>2 DEF CountersOK
  <2>2. Grows(n, n)
    BY GrowsReflexive
  <2> QED BY <1>2, <2>1, <2>2 DEF Grows
<1>4. ItemOK(it, m)
  BY <1>2, <1>3, ItemStays
<1>5. NumberedIn(it, m)
  <2>1. CASE IsStyle(it)
    <3>1. it.frag \in 1..(n.next - 1) /\ it.frag \notin n.pending
      BY <1>1, <2>1, KindsApart DEF Resolved, StyleKept, OtherKept
    <3>2. it.frag \in DOMAIN m.fragments
      BY <1>2, <3>1 DEF CountersOK
    <3> QED BY <1>4, <2>1, <3>2, AboutFacts DEF NumberedIn, ItemOK, StyleOK
  <2>2. CASE ~IsStyle(it)
    <3>1. IsNewline(it) \/ it.about # 0
      BY <2>2 DEF StyleKept, OtherKept
    <3> QED BY <2>2, <3>1, AboutFacts DEF NumberedIn
  <2> QED BY <2>1, <2>2
<1>6. Replaces(n, it, m, it)
  BY <1>1 DEF Replaces
<1>7. OnlyOne(n, it, m, it)
  <2>1. CASE StyleKept(n, it, m)
    BY <1>2, <2>1 DEF OnlyOne, StyleKept, Added
  <2>2. CASE OtherKept(n, it, m)
    <3>1. ~IsStyle(it) /\ m.seen = n.seen
      BY <2>2, KindsApart DEF OtherKept, Added
    <3> QED BY <1>2, <3>1 DEF OnlyOne
  <2> QED BY <2>1, <2>2
<1>8. Shows(n, it, m, it)
  BY <1>1, <1>2 DEF Shows
<1> QED BY <1>2, <1>3, <1>4, <1>5, <1>6, <1>7, <1>8 DEF StepOK

\* A token that is no stylesheet gets an id.
LEMMA OtherStep ==
  ASSUME NEW n \in Numberings, NEW it, NEW m, CountersOK(n),
         ItemOK(it, n), n.seen \intersect n.pending = {},
         OtherNumbered(n, it, m) \/ RefNumbered(n, it, m)
  PROVE  StepOK(n, it, m, Retagged(it, n.about + 1))
<1> DEFINE x == Retagged(it, n.about + 1)
<1>1. /\ n.about \in Nat /\ n.next \in Nat /\ it.frag \in Nat /\ it.about \in Nat
      /\ it \in AnyItem /\ it.frag < n.next /\ n.about + 1 \in Nat
      /\ n.phantom \subseteq 1..n.about
  BY CountersType DEF ItemOK, AnyItem, CountersOK
<1>2. /\ m \in Numberings /\ m.items = Append(n.items, x)
      /\ m.about \in {n.about + 1, n.about + 2}
      /\ m.next = n.next /\ m.pending = n.pending
      /\ m.fragments = n.fragments /\ m.seen = n.seen
      /\ m.about = n.about + 1 => m.phantom = n.phantom
      /\ m.about = n.about + 2 => m.phantom = n.phantom \union {n.about + 2}
      /\ ~IsStyle(it) /\ ~IsNewline(it) /\ it.about = 0
  BY <1>1 DEF OtherNumbered, RefNumbered, Added
<1>3. x \in AnyItem /\ x.kind = it.kind /\ x.frag = it.frag /\ x.about = n.about + 1
  BY <1>1, RetaggedItem, RetaggedType
<1>4. ~IsStyle(x) /\ ~IsNewline(x)
  BY <1>2, <1>3, Zenon DEF IsStyle, IsNewline
<1> HIDE DEF x
<1>5. CountersOK(m)
  <2>1. m.phantom \subseteq 1..m.about
    BY <1>1, <1>2
  <2>2. \A f \in DOMAIN m.fragments : m.fragments[f] \in 0..m.about
    <3>1. \A f \in DOMAIN n.fragments : n.fragments[f] \in 0..n.about
      BY DEF CountersOK
    <3> QED BY <1>1, <1>2, <3>1
  <2> QED BY <1>2, <2>1, <2>2 DEF CountersOK
<1>6. Grows(n, m)
  BY <1>1, <1>2 DEF Grows
<1>7. ItemOK(x, m)
  <2>1. OtherOK(x, m)
    <3> SUFFICES ASSUME NEW f \in DOMAIN m.fragments PROVE m.fragments[f] # x.about
      BY <1>4 DEF OtherOK
    <3>1. m.fragments[f] \in 0..n.about
      BY <1>2 DEF CountersOK
    <3> QED BY <1>1, <1>3, <3>1
  <2>2. x.frag < m.next /\ x.about <= m.about
    BY <1>1, <1>2, <1>3
  <2> QED BY <1>3, <1>4, <2>1, <2>2 DEF ItemOK
<1>8. AboutOf(x, m.fragments) = n.about + 1 /\ AboutOf(it, n.fragments) = 0
  BY <1>2, <1>3, <1>4, AboutFacts
<1>9. Resolved(x) /\ NumberedIn(x, m)
  BY <1>1, <1>4, <1>8 DEF Resolved, NumberedIn
<1>10. Replaces(n, it, m, x)
  BY <1>1, <1>2, <1>3 DEF Replaces
<1>11. OnlyOne(n, it, m, x)
  BY <1>2 DEF OnlyOne
<1>12. Shows(n, it, m, x)
  BY <1>1, <1>2, <1>8 DEF Shows
<1>13. StepOK(n, it, m, x)
  BY <1>2, <1>5, <1>6, <1>7, <1>9, <1>10, <1>11, <1>12 DEF StepOK
<1> QED BY <1>13 DEF x

\* A stylesheet that is pending gets an id, and another occurrence of one a
\* fragment of its own as well.
LEMMA StyleStep ==
  ASSUME NEW n \in Numberings, NEW it, NEW m, CountersOK(n),
         ItemOK(it, n), Resolved(it), n.seen \intersect n.pending = {},
         n.seen \subseteq 0..(n.next - 1),
         NEW x, NEW f,
         \/ StylePending(n, it, m) /\ x = it /\ f = it.frag
         \/ StyleAgain(n, it, m) /\ x = Moved(it, n.next) /\ f = n.next
  PROVE  StepOK(n, it, m, x)
<1>1. /\ n.about \in Nat /\ n.next \in Nat /\ it.frag \in Nat /\ it.about \in Nat
      /\ it \in AnyItem /\ it.frag < n.next /\ n.about + 1 \in Nat
      /\ n.phantom \subseteq 1..n.about /\ n.next # 0
      /\ n.fragments \in Fragments /\ n.pending \in SUBSET Nat /\ n.seen \in SUBSET Nat
  BY CountersType DEF ItemOK, AnyItem, CountersOK
<1>2. IsStyle(it) /\ it.about = 0
  BY DEF StylePending, StyleAgain, ItemOK, StyleOK
<1>3. /\ x \in AnyItem /\ IsStyle(x) /\ x.kind = it.kind /\ x.frag = f /\ x.about = 0
      /\ f \in Nat
  <2>1. CASE x = it /\ f = it.frag
    BY <1>1, <1>2, <2>1
  <2>2. CASE x = Moved(it, n.next) /\ f = n.next
    <3>1. x \in AnyItem /\ x.kind = it.kind /\ x.frag = f /\ x.about = it.about
      BY <1>1, <2>2, MovedItem, MovedType
    <3>2. IsStyle(x)
      BY <1>2, <3>1, Zenon DEF IsStyle
    <3> QED BY <1>1, <1>2, <2>2, <3>1, <3>2
  <2> QED BY <2>1, <2>2
<1>4. /\ m \in Numberings /\ m.items = Append(n.items, x) /\ m.about = n.about + 1
      /\ m.phantom = n.phantom
      /\ m.fragments = With(n.fragments, f, n.about + 1)
      /\ \/ /\ f = it.frag /\ f \in n.pending /\ m.next = n.next
            /\ m.pending = n.pending \ {f} /\ m.seen = n.seen \union {f}
         \/ /\ f = n.next /\ m.next = n.next + 1 /\ m.pending = n.pending
            /\ m.seen = n.seen /\ it.frag \in n.seen
  BY DEF StylePending, StyleAgain, Added
<1>5. /\ DOMAIN m.fragments = DOMAIN n.fragments \union {f}
      /\ m.fragments[f] = n.about + 1
      /\ \A g \in DOMAIN n.fragments : g # f => m.fragments[g] = n.fragments[g]
  <2> DEFINE a == n.about + 1
             F == n.fragments
  <2>1. a \in Nat /\ F \in Fragments /\ f \in Nat
    BY <1>1, <1>3
  <2>2. m.fragments = With(F, f, a)
    BY <1>4
  <2> HIDE DEF a, F
  <2>3. /\ DOMAIN With(F, f, a) = DOMAIN F \union {f}
        /\ With(F, f, a)[f] = a
        /\ \A g \in DOMAIN F : g # f => With(F, f, a)[g] = F[g]
    BY ONLY <2>1, WithType
  <2> QED BY <2>2, <2>3 DEF a, F
<1>6. f \notin DOMAIN n.fragments /\ f # 0
  BY <1>1, <1>3, <1>4, <1>2 DEF CountersOK, Resolved
<1>7. \A g \in DOMAIN n.fragments : n.fragments[g] \in 0..n.about
  BY DEF CountersOK
<1>8. CountersOK(m)
  <2>1. m.pending \union DOMAIN m.fragments = 1..(m.next - 1)
    <3>1. n.pending \union DOMAIN n.fragments = 1..(n.next - 1)
      BY DEF CountersOK
    <3> QED BY <1>1, <1>3, <1>4, <1>5, <1>6, <3>1
  <2>2. m.pending \intersect DOMAIN m.fragments = {}
    <3>1. n.pending \subseteq 1..(n.next - 1) /\ n.pending \intersect DOMAIN n.fragments = {}
      BY DEF CountersOK
    <3>2. f \notin m.pending
      BY <1>1, <1>4, <3>1
    <3> QED BY <1>4, <1>5, <3>1, <3>2
  <2>3. \A g \in DOMAIN m.fragments : m.fragments[g] \in 0..m.about
    BY <1>1, <1>4, <1>5, <1>6, <1>7, SMTT(30)
  <2>4. \A g, h \in DOMAIN m.fragments :
            m.fragments[g] = m.fragments[h] /\ m.fragments[g] # 0 => g = h
    <3> SUFFICES ASSUME NEW g \in DOMAIN m.fragments, NEW h \in DOMAIN m.fragments,
                        m.fragments[g] = m.fragments[h], m.fragments[g] # 0
                 PROVE  g = h
      OBVIOUS
    <3>1. CASE g \in DOMAIN n.fragments /\ h \in DOMAIN n.fragments
      BY <1>5, <1>6, <3>1 DEF CountersOK
    <3>2. CASE g = f \/ h = f
      BY <1>1, <1>5, <1>6, <1>7, <3>2
    <3> QED BY <1>5, <3>1, <3>2
  <2>5. m.next # 0 /\ m.phantom \subseteq 1..m.about
    BY <1>1, <1>4
  <2> QED BY <2>1, <2>2, <2>3, <2>4, <2>5 DEF CountersOK
<1>9. Grows(n, m)
  <2>1. n.about <= m.about /\ n.next <= m.next /\ n.phantom \subseteq m.phantom
    BY <1>1, <1>4
  <2>2. \A g \in DOMAIN m.fragments \ DOMAIN n.fragments : m.fragments[g] > n.about
    BY <1>1, <1>5
  <2>3. \A g \in n.pending \ m.pending : g \in DOMAIN m.fragments /\ m.fragments[g] # 0
    BY <1>1, <1>4, <1>5
  <2> QED BY <1>5, <1>6, <2>1, <2>2, <2>3 DEF Grows
<1>10. ItemOK(x, m)
  BY <1>1, <1>3, <1>4, <1>5 DEF ItemOK, StyleOK
<1>11. AboutOf(x, m.fragments) = n.about + 1
  BY <1>3, <1>5, AboutFacts
<1>12. Resolved(x) /\ NumberedIn(x, m)
  BY <1>1, <1>3, <1>6, <1>11 DEF Resolved, NumberedIn
<1>13. Replaces(n, it, m, x)
  BY <1>1, <1>2, <1>3, <1>4 DEF Replaces
<1>14. OnlyOne(n, it, m, x)
  BY <1>1, <1>3, <1>4 DEF OnlyOne
<1>15. Shows(n, it, m, x)
  <2>1. \A id \in (n.about + 1)..m.about : AboutOf(x, m.fragments) = id
    BY <1>1, <1>4, <1>11
  <2>2. CASE it.frag \in n.seen
    BY <1>2, <2>1, <2>2 DEF Shows
  <2>3. CASE it.frag \notin n.seen
    <3>1. AboutOf(it, n.fragments) = 0
      BY <1>2, <1>4, <1>6, <2>3, AboutFacts
    <3> QED BY <2>1, <3>1 DEF Shows
  <2> QED BY <2>2, <2>3
<1> QED
  BY <1>4, <1>8, <1>9, <1>10, <1>12, <1>13, <1>14, <1>15 DEF StepOK

\* So every step is right.
LEMMA NumberOneOK ==
  ASSUME NEW n \in Numberings, NEW it, CountersOK(n), ItemOK(it, n), Resolved(it),
         n.seen \intersect n.pending = {}, n.seen \subseteq 0..(n.next - 1)
  PROVE  \E x : StepOK(n, it, NumberOne(n, it), x)
<1> DEFINE m == NumberOne(n, it)
<1>1. it \in AnyItem
  BY DEF ItemOK
<1>2. \/ StyleAgain(n, it, m) \/ StylePending(n, it, m) \/ StyleKept(n, it, m)
      \/ OtherKept(n, it, m) \/ OtherNumbered(n, it, m) \/ RefNumbered(n, it, m)
  BY <1>1, NumberOneCases
<1> HIDE DEF m
<1>3. \E x : StepOK(n, it, m, x)
  <2>1. CASE StyleAgain(n, it, m)
    BY <2>1, StyleStep
  <2>2. CASE StylePending(n, it, m)
    BY <2>2, StyleStep
  <2>3. CASE StyleKept(n, it, m) \/ OtherKept(n, it, m)
    BY <2>3, KeptStep
  <2>4. CASE OtherNumbered(n, it, m) \/ RefNumbered(n, it, m)
    BY <2>4, OtherStep
  <2> QED BY <1>2, <2>1, <2>2, <2>3, <2>4
<1> QED BY <1>3 DEF m
-----------------------------------------------------------------------------
(* A chunk.  Where s is a chunk whose tokens are right for the counters c,  *)
(* t is what is left of it when m has been reached.                         *)

ChunkOK(s, c) ==
    /\ s \in Seq(AnyItem)
    /\ \A j \in 1..Len(s) : ItemOK(s[j], c) /\ Resolved(s[j])

Same(it, x, c) ==
    /\ x.kind = it.kind
    /\ it.about # 0 => x.about = it.about
    /\ it.about = 0 => x.about = 0 \/ x.about > c.about
    /\ x.frag = it.frag \/ x.frag >= c.next

\* No two tokens of t show a new id, and no two stylesheets have a fragment.
AreApart(it, x, y) ==
    /\ x.about = y.about /\ x.about # 0 => it.about = x.about
    /\ IsStyle(x) /\ IsStyle(y) => x.frag # y.frag

IsShown(id, t, k, m) == \E j \in 1..k : AboutOf(t[j], m.fragments) = id

Progress(s, c, k, m) ==
    /\ m \in Numberings /\ CountersOK(m) /\ Grows(c, m)
    /\ Len(m.items) = k
    /\ m.seen \subseteq 0..(c.next - 1) /\ m.seen \intersect m.pending = {}
    /\ \A j \in 1..k :
          LET x == m.items[j] IN
          /\ ItemOK(x, m) /\ Resolved(x) /\ NumberedIn(x, m) /\ Same(s[j], x, c)
          /\ IsStyle(x) => x.frag \in m.seen \/ x.frag >= c.next
    /\ \A i, j \in 1..k : i # j => AreApart(s[i], m.items[i], m.items[j])
    /\ \A f \in m.seen : \E j \in 1..k : IsStyle(m.items[j]) /\ m.items[j].frag = f
    /\ \A id \in (c.about + 1)..m.about : id \in m.phantom \/ IsShown(id, m.items, k, m)
    /\ \A i \in 1..k :
          LET id == AboutOf(s[i], c.fragments) IN id # 0 => IsShown(id, m.items, k, m)

\* The next token.
LEMMA ProgressStep ==
  ASSUME NEW s, NEW c \in Numberings, NEW k \in Nat, NEW m, NEW m2, NEW x,
         CountersOK(c), k + 1 <= Len(s), ChunkOK(s, c), Progress(s, c, k, m),
         StepOK(m, s[k + 1], m2, x)
  PROVE  Progress(s, c, k + 1, m2)
<1> DEFINE it == s[k + 1]
           t == m.items
           t2 == m2.items
<1>1. /\ m \in Numberings /\ m2 \in Numberings /\ CountersOK(m) /\ CountersOK(m2)
      /\ Grows(c, m) /\ Grows(m, m2)
  BY DEF Progress, StepOK
<1>2. Grows(c, m2)
  BY <1>1, GrowsTransitive
<1>3. /\ c.about \in Nat /\ m.about \in Nat /\ m2.about \in Nat
      /\ c.next \in Nat /\ m.next \in Nat /\ m2.next \in Nat
      /\ c.about <= m.about /\ m.about <= m2.about
      /\ c.next <= m.next /\ m.next <= m2.next
      /\ t \in Seq(AnyItem) /\ m.phantom \subseteq m2.phantom
  BY <1>1, CountersType DEF Grows
<1>4. x \in AnyItem /\ t2 = Append(t, x) /\ Len(t) = k
  BY DEF StepOK, ItemOK, Progress
<1>5. /\ Len(t2) = k + 1 /\ t2[k + 1] = x
      /\ \A j \in 1..k : t2[j] = t[j]
  <2> HIDE DEF t, t2
  <2> QED BY ONLY <1>3, <1>4, AppendProperties
<1>6. ItemOK(it, c) /\ Resolved(it) /\ it \in AnyItem
  BY DEF ChunkOK, ItemOK
<1>7. it.frag \in Nat /\ it.frag < c.next /\ it.about \in Nat /\ it.about <= c.about
  BY <1>6 DEF ItemOK, AnyItem
<1>8. \A j \in 1..(k + 1) : j = k + 1 \/ j \in 1..k
  OBVIOUS
<1>9. ASSUME NEW j \in 1..k
      PROVE  /\ ItemOK(t[j], m) /\ ItemOK(t[j], m2) /\ Resolved(t[j])
             /\ NumberedIn(t[j], m) /\ NumberedIn(t[j], m2)
             /\ Same(s[j], t[j], c)
             /\ IsStyle(t[j]) => t[j].frag \in m.seen \/ t[j].frag >= c.next
             /\ AboutOf(t[j], m.fragments) # 0
                   => AboutOf(t[j], m2.fragments) = AboutOf(t[j], m.fragments)
  <2>1. /\ ItemOK(t[j], m) /\ Resolved(t[j]) /\ NumberedIn(t[j], m) /\ Same(s[j], t[j], c)
        /\ IsStyle(t[j]) => t[j].frag \in m.seen \/ t[j].frag >= c.next
    BY DEF Progress
  <2> QED BY <1>1, <2>1, ItemStays
<1>10. m2.seen \subseteq 0..(c.next - 1) /\ m2.seen \intersect m2.pending = {}
       /\ m.seen \subseteq m2.seen
  BY <1>7, <1>3, SMTT(30) DEF Progress, StepOK, OnlyOne
<1>11. Same(it, x, c)
  <2>1. x.about \in Nat /\ x.frag \in Nat
    BY <1>4 DEF AnyItem
  <2>2. Replaces(m, it, m2, x)
    BY DEF StepOK
  <2> HIDE DEF it
  <2> QED BY ONLY <1>3, <2>1, <2>2 DEF Replaces, Same
<1>12. IsStyle(x) => IsStyle(it)
  BY Zenon DEF StepOK, Replaces, IsStyle
<1>13. IsStyle(x) => x.frag \notin m.seen /\ (x.frag \in m2.seen \/ x.frag >= c.next)
  BY <1>3, <1>4, <1>12 DEF StepOK, OnlyOne, AnyItem
<1>14. ASSUME NEW j \in 1..(k + 1)
       PROVE  /\ ItemOK(t2[j], m2) /\ Resolved(t2[j]) /\ NumberedIn(t2[j], m2)
              /\ Same(s[j], t2[j], c)
              /\ IsStyle(t2[j]) => t2[j].frag \in m2.seen \/ t2[j].frag >= c.next
  <2>1. CASE j = k + 1
    BY <1>5, <1>11, <1>13, <2>1 DEF StepOK
  <2>2. CASE j \in 1..k
    <3>1. t2[j] = t[j]
      BY <1>5, <2>2
    <3>2. /\ ItemOK(t[j], m2) /\ Resolved(t[j]) /\ NumberedIn(t[j], m2)
          /\ Same(s[j], t[j], c)
          /\ IsStyle(t[j]) => t[j].frag \in m2.seen \/ t[j].frag >= c.next
      BY <1>9, <1>10, <2>2
    <3> QED BY <3>1, <3>2
  <2> QED BY <1>8, <2>1, <2>2
<1>15. ASSUME NEW j \in 1..k PROVE AreApart(it, x, t[j]) /\ AreApart(s[j], t[j], x)
  <2>1. /\ t[j] \in AnyItem /\ t[j].about <= m.about /\ t[j].frag < m.next
        /\ t[j].about \in Nat /\ t[j].frag \in Nat /\ x.about \in Nat /\ x.frag \in Nat
    BY <1>4, <1>9 DEF ItemOK, AnyItem
  <2>2. s[j].about = 0 => t[j].about = 0 \/ t[j].about > c.about
    BY <1>9 DEF Same
  <2>3. s[j].about # 0 => t[j].about = s[j].about
    BY <1>9 DEF Same
  <2>4. it.about # 0 => x.about = it.about
    BY DEF StepOK, Replaces
  <2>5. it.about = 0 => x.about = 0 \/ x.about > m.about
    BY DEF StepOK, Replaces
  <2>6. x.frag = it.frag \/ x.frag >= m.next
    BY DEF StepOK, Replaces
  <2>7. x.about = t[j].about /\ x.about # 0 => it.about = x.about /\ s[j].about = t[j].about
    BY <1>3, <1>7, <2>1, <2>2, <2>3, <2>4, <2>5, SMTT(30)
  <2>8. IsStyle(x) /\ IsStyle(t[j]) => x.frag # t[j].frag
    <3> SUFFICES ASSUME IsStyle(x), IsStyle(t[j]), x.frag = t[j].frag PROVE FALSE
      OBVIOUS
    <3>1. t[j].frag >= c.next /\ x.frag = t[j].frag
      BY <1>9, <1>13
    <3> DEFINE a == x.frag
               b == t[j].frag
               d == it.frag
    <3>2. a >= c.next /\ a < m.next /\ (a = d \/ a >= m.next) /\ d < c.next
          /\ a \in Nat /\ d \in Nat
      BY <1>7, <2>1, <2>6, <3>1, Zenon
    <3> HIDE DEF a, d
    <3> QED BY ONLY <1>3, <3>2
  <2> QED BY <2>7, <2>8 DEF AreApart
<1>16. ASSUME NEW i \in 1..(k + 1), NEW j \in 1..(k + 1), i # j
       PROVE  AreApart(s[i], t2[i], t2[j])
  <2>1. CASE i \in 1..k /\ j \in 1..k
    <3>1. AreApart(s[i], t[i], t[j])
      BY <1>16, <2>1 DEF Progress
    <3> QED BY <1>5, <2>1, <3>1
  <2>2. CASE i = k + 1 /\ j \in 1..k
    BY <1>5, <1>15, <2>2
  <2>3. CASE i \in 1..k /\ j = k + 1
    BY <1>5, <1>15, <2>3
  <2> QED BY <1>8, <1>16, <2>1, <2>2, <2>3
<1>17. ASSUME NEW f \in m2.seen
       PROVE  \E j \in 1..(k + 1) : IsStyle(t2[j]) /\ t2[j].frag = f
  <2>1. CASE f \in m.seen
    <3>1. PICK j \in 1..k : IsStyle(t[j]) /\ t[j].frag = f
      BY <2>1 DEF Progress
    <3>2. t2[j] = t[j] /\ j \in 1..(k + 1)
      BY <1>5
    <3> QED BY <3>1, <3>2
  <2>2. CASE f \notin m.seen
    <3>1. IsStyle(x) /\ x.frag = f
      BY <2>2 DEF StepOK, OnlyOne
    <3>2. k + 1 \in 1..(k + 1)
      OBVIOUS
    <3> QED BY <1>5, <3>1, <3>2
  <2> QED BY <2>1, <2>2
<1>18. ASSUME NEW id, id # 0, IsShown(id, t, k, m) PROVE IsShown(id, t2, k + 1, m2)
  <2>1. PICK j \in 1..k : AboutOf(t[j], m.fragments) = id
    BY <1>18 DEF IsShown
  <2>2. AboutOf(t2[j], m2.fragments) = id /\ j \in 1..(k + 1)
    BY <1>5, <1>9, <1>18, <2>1
  <2> QED BY <2>2 DEF IsShown
<1>19. ASSUME NEW id, AboutOf(x, m2.fragments) = id PROVE IsShown(id, t2, k + 1, m2)
  <2>1. k + 1 \in 1..(k + 1)
    OBVIOUS
  <2> QED BY <1>5, <1>19, <2>1 DEF IsShown
<1>20. ASSUME NEW id \in (c.about + 1)..m2.about
       PROVE  id \in m2.phantom \/ IsShown(id, t2, k + 1, m2)
  <2>1. CASE id \in (c.about + 1)..m.about
    <3>1. id \in m.phantom \/ IsShown(id, t, k, m)
      BY <2>1 DEF Progress
    <3>2. id # 0
      BY <1>3
    <3> QED BY <1>3, <1>18, <3>1, <3>2
  <2>2. CASE id \in (m.about + 1)..m2.about
    <3>1. id \in m2.phantom \/ AboutOf(x, m2.fragments) = id
      BY <2>2 DEF StepOK, Shows
    <3> QED BY <1>19, <3>1
  <2> QED BY <1>3, <2>1, <2>2
<1>21. ASSUME NEW i \in 1..(k + 1), AboutOf(s[i], c.fragments) # 0
       PROVE  IsShown(AboutOf(s[i], c.fragments), t2, k + 1, m2)
  <2> DEFINE id == AboutOf(s[i], c.fragments)
  <2>1. CASE i \in 1..k
    <3>1. IsShown(id, t, k, m)
      BY <1>21, <2>1 DEF Progress
    <3> QED BY <1>18, <1>21, <3>1
  <2>2. CASE i = k + 1
    <3>1. AboutOf(it, m.fragments) = id
      BY <1>1, <1>6, <1>21, <2>2, ItemStays
    <3>2. \/ AboutOf(x, m2.fragments) = id
          \/ IsStyle(it) /\ it.frag \in m.seen
      BY <1>21, <2>2, <3>1 DEF StepOK, Shows
    <3>3. CASE IsStyle(it) /\ it.frag \in m.seen
      <4>1. PICK j \in 1..k : IsStyle(t[j]) /\ t[j].frag = it.frag
        BY <3>3 DEF Progress
      <4>2. it.about = 0 /\ t[j].about = 0
        BY <1>6, <1>9, <3>3, <4>1 DEF ItemOK, StyleOK
      <4>3. AboutOf(t[j], m.fragments) = AboutOf(it, m.fragments)
        BY <3>3, <4>1, <4>2, AboutFacts
      <4>4. IsShown(id, t, k, m)
        BY <3>1, <4>3 DEF IsShown
      <4> QED BY <1>18, <1>21, <4>4
    <3> QED BY <1>19, <3>2, <3>3
  <2> QED BY <1>8, <2>1, <2>2
<1> QED
  BY <1>1, <1>2, <1>5, <1>10, <1>14, <1>16, <1>17, <1>20, <1>21 DEF Progress

\* The counters of the state, with nothing numbered.
LEMMA ProgressStart ==
  ASSUME NEW s, Numbers(<<>>) \in Numberings, CountersOK(Numbers(<<>>))
  PROVE  Progress(s, Numbers(<<>>), 0, Numbers(<<>>))
<1> DEFINE c == Numbers(<<>>)
<1>1. c.items = <<>> /\ c.seen = {}
  BY DEF Numbers
<1>2. Len(<<>>) = 0
  OBVIOUS
<1>3. c.about \in Nat
  BY CountersType
<1> HIDE DEF c
<1>4. Grows(c, c) /\ CountersOK(c) /\ c \in Numberings
  BY GrowsReflexive DEF c
<1>5. Progress(s, c, 0, c)
  BY <1>1, <1>2, <1>3, <1>4 DEF Progress
<1> QED BY <1>5 DEF c

\* A chunk is numbered as it should be.
LEMMA ChunkProgress ==
  ASSUME NEW s, Numbers(<<>>) \in Numberings, CountersOK(Numbers(<<>>)),
         ChunkOK(s, Numbers(<<>>))
  PROVE  Progress(s, Numbers(<<>>), Len(s), number_chunk_extensions(s))
<1> DEFINE c == Numbers(<<>>)
<1>0. Len(s) \in Nat
  BY LenProperties DEF ChunkOK
<1>1. PICK f : IsNumbering(f, s) /\ number_chunk_extensions(s) = f[Len(s)]
  BY <1>0, ChunkNumbered
<1> DEFINE S == {k \in 0..Len(s) : Progress(s, c, k, f[k])}
<1>2. f[0] = c
  BY <1>0, <1>1 DEF IsNumbering
<1>3. \A k \in 0..(Len(s) - 1) : f[k + 1] = NumberOne(f[k], s[k + 1])
  BY <1>0, <1>1 DEF IsNumbering
<1>4. 0 \in S
  BY <1>0, <1>2, ProgressStart
<1> HIDE DEF c
<1>5. ASSUME NEW k \in 0..(Len(s) - 1), k \in S PROVE k + 1 \in S
  <2> DEFINE m == f[k]
             it == s[k + 1]
  <2>1. k \in Nat /\ k + 1 <= Len(s) /\ k + 1 \in 1..Len(s) /\ k + 1 \in 0..Len(s)
    BY <1>0
  <2>2. Progress(s, c, k, m)
    BY <1>5
  <2>3. c \in Numberings /\ CountersOK(c) /\ ChunkOK(s, c)
    BY DEF c
  <2>4. ItemOK(it, c) /\ Resolved(it)
    BY <2>1, <2>3 DEF ChunkOK
  <2>5. m \in Numberings /\ CountersOK(m) /\ Grows(c, m)
    BY <2>2 DEF Progress
  <2>6. ItemOK(it, m)
    BY <2>3, <2>4, <2>5, ItemStays
  <2>7. m.seen \intersect m.pending = {} /\ m.seen \subseteq 0..(m.next - 1)
    <3>1. c.next \in Nat /\ m.next \in Nat /\ c.next <= m.next
      BY <2>3, <2>5, CountersType DEF Grows
    <3> QED BY <2>2, <3>1 DEF Progress
  <2>8. PICK x : StepOK(m, it, NumberOne(m, it), x)
    BY <2>4, <2>5, <2>6, <2>7, NumberOneOK
  <2>9. Progress(s, c, k + 1, NumberOne(m, it))
    <3> HIDE DEF m
    <3> QED BY <2>1, <2>2, <2>3, <2>8, ProgressStep
  <2> QED BY <1>3, <2>1, <2>9
<1>6. Len(s) \in S
  <2> HIDE DEF S
  <2>1. 0..Len(s) \subseteq S
    BY <1>0, <1>4, <1>5, UpTo
  <2> QED BY <1>0, <2>1
<1> QED BY <1>1, <1>6 DEF c
-----------------------------------------------------------------------------
(* Sequences and the sets of tokens, ids and fragments that are in them.    *)

Line(w) == w.done \o w.out
Offered(w) == Range(w.rest) \union Range(w.value) \union w.held
Ids(S) == {it.about : it \in S} \ {0}
Frags(S) == {it.frag : it \in {x \in S : IsStyle(x)}}

\* Only an id that is in H is on two tokens.
Apart(s, H) ==
    \A i, j \in 1..Len(s) :
        i # j /\ s[i].about = s[j].about /\ s[i].about # 0 => s[i].about \in H

\* No two stylesheets have a fragment.
OneEach(s) ==
    \A i, j \in 1..Len(s) :
        i # j /\ IsStyle(s[i]) /\ IsStyle(s[j]) => s[i].frag # s[j].frag

\* What is in a sequence.
LEMMA InRange ==
  ASSUME NEW S, NEW s \in Seq(S)
  PROVE  /\ Len(s) \in Nat /\ Range(s) \subseteq S
         /\ \A j \in 1..Len(s) : s[j] \in Range(s) /\ s[j] \in S
         /\ \A x \in Range(s) : \E j \in 1..Len(s) : s[j] = x
  BY LenProperties, RangeEquality, RangeOfSeq

\* Concatenation is associative.
LEMMA Joined ==
  ASSUME NEW a \in Seq(AnyItem), NEW b \in Seq(AnyItem), NEW s \in Seq(AnyItem)
  PROVE  (a \o b) \o s = a \o (b \o s)
  BY ConcatAssociative

\* The ids and the fragments in a set of tokens.
LEMMA InIds ==
  ASSUME NEW S, NEW it \in S
  PROVE  /\ it.about # 0 => it.about \in Ids(S)
         /\ IsStyle(it) => it.frag \in Frags(S)
  BY DEF Ids, Frags
LEMMA FromIds ==
  ASSUME NEW S, NEW id \in Ids(S) PROVE \E it \in S : it.about = id /\ id # 0
  BY DEF Ids
LEMMA FromFrags ==
  ASSUME NEW S, NEW f \in Frags(S) PROVE \E it \in S : IsStyle(it) /\ it.frag = f
  BY DEF Frags
LEMMA IdsOfUnion ==
  ASSUME NEW S, NEW T
  PROVE  Ids(S \union T) = Ids(S) \union Ids(T) /\ Frags(S \union T) = Frags(S) \union Frags(T)
  BY DEF Ids, Frags

\* The ids the tokens of a chunk show.
LEMMA InIdsIn ==
  ASSUME NEW s, NEW F, NEW j \in 1..Len(s), AboutOf(s[j], F) # 0
  PROVE  AboutOf(s[j], F) \in IdsIn(s, F)
  BY DEF IdsIn
LEMMA FromIdsIn ==
  ASSUME NEW s, NEW F, NEW id \in IdsIn(s, F)
  PROVE  \E j \in 1..Len(s) : AboutOf(s[j], F) = id /\ id # 0
  BY DEF IdsIn

\* Where the tokens of two sequences are in their concatenation.
LEMMA InConcat ==
  ASSUME NEW S, NEW s \in Seq(S), NEW t \in Seq(S)
  PROVE  /\ Len(s) \in Nat /\ Len(t) \in Nat
         /\ \A i \in 1..Len(s) : i \in 1..Len(s \o t) /\ (s \o t)[i] = s[i]
         /\ \A j \in 1..Len(t) : Len(s) + j \in 1..Len(s \o t) /\ (s \o t)[Len(s) + j] = t[j]
         /\ \A i \in 1..Len(s \o t) :
               i \in 1..Len(s) \/ \E j \in 1..Len(t) : i = Len(s) + j
<1>1. Len(s) \in Nat /\ Len(t) \in Nat
  BY LenProperties
<1>2. /\ Len(s \o t) = Len(s) + Len(t)
      /\ \A i \in 1 .. Len(s) + Len(t) : (s \o t)[i] =
                     IF i <= Len(s) THEN s[i] ELSE t[i - Len(s)]
  BY ConcatProperties
<1>3. \A i \in 1..Len(s) : i \in 1..Len(s \o t) /\ (s \o t)[i] = s[i]
  BY <1>1, <1>2
<1>4. ASSUME NEW j \in 1..Len(t)
      PROVE  Len(s) + j \in 1..Len(s \o t) /\ (s \o t)[Len(s) + j] = t[j]
  <2>1. Len(s) + j \in 1..(Len(s) + Len(t)) /\ ~(Len(s) + j <= Len(s))
        /\ (Len(s) + j) - Len(s) = j
    BY <1>1
  <2> QED BY <1>2, <2>1
<1>5. ASSUME NEW i \in 1..Len(s \o t)
      PROVE  i \in 1..Len(s) \/ \E j \in 1..Len(t) : i = Len(s) + j
  <2>1. CASE i > Len(s)
    <3>1. i - Len(s) \in 1..Len(t) /\ i = Len(s) + (i - Len(s))
      BY <1>1, <1>2, <2>1
    <3> QED BY <3>1
  <2> QED BY <1>1, <1>2, <2>1
<1> QED BY <1>1, <1>3, <1>4, <1>5

\* The ids that two sequences show, one behind the other.
LEMMA IdsInConcat ==
  ASSUME NEW S, NEW s \in Seq(S), NEW t \in Seq(S), NEW F
  PROVE  IdsIn(s \o t, F) = IdsIn(s, F) \union IdsIn(t, F)
<1>1. ASSUME NEW id \in IdsIn(s \o t, F) PROVE id \in IdsIn(s, F) \union IdsIn(t, F)
  <2>1. PICK i \in 1..Len(s \o t) : AboutOf((s \o t)[i], F) = id /\ id # 0
    BY FromIdsIn
  <2>2. CASE i \in 1..Len(s)
    <3>1. (s \o t)[i] = s[i]
      BY <2>2, InConcat
    <3> QED BY <2>1, <2>2, <3>1, InIdsIn
  <2>3. CASE \E j \in 1..Len(t) : i = Len(s) + j
    <3>1. PICK j \in 1..Len(t) : i = Len(s) + j
      BY <2>3
    <3>2. (s \o t)[i] = t[j]
      BY <3>1, InConcat
    <3> QED BY <2>1, <3>2, InIdsIn
  <2> QED BY <2>2, <2>3, InConcat
<1>2. ASSUME NEW id \in IdsIn(s, F) PROVE id \in IdsIn(s \o t, F)
  <2>1. PICK i \in 1..Len(s) : AboutOf(s[i], F) = id /\ id # 0
    BY FromIdsIn
  <2>2. i \in 1..Len(s \o t) /\ (s \o t)[i] = s[i]
    BY InConcat
  <2> QED BY <2>1, <2>2, InIdsIn
<1>3. ASSUME NEW id \in IdsIn(t, F) PROVE id \in IdsIn(s \o t, F)
  <2>1. PICK j \in 1..Len(t) : AboutOf(t[j], F) = id /\ id # 0
    BY FromIdsIn
  <2>2. Len(s) + j \in 1..Len(s \o t) /\ (s \o t)[Len(s) + j] = t[j]
    BY InConcat
  <2> QED BY <2>1, <2>2, InIdsIn
<1> QED BY <1>1, <1>2, <1>3

\* The ids of two sequences are apart if they are, each and from each other.
LEMMA ConcatApart ==
  ASSUME NEW S, NEW s \in Seq(S), NEW t \in Seq(S), NEW H,
         Apart(s, H), Apart(t, H), Ids(Range(s)) \intersect Ids(Range(t)) \subseteq H
  PROVE  Apart(s \o t, H)
<1> SUFFICES ASSUME NEW i \in 1..Len(s \o t), NEW j \in 1..Len(s \o t), i # j,
                    (s \o t)[i].about = (s \o t)[j].about, (s \o t)[i].about # 0
             PROVE  (s \o t)[i].about \in H
  BY DEF Apart
<1>1. ASSUME NEW a \in 1..Len(s), NEW b \in 1..Len(t), s[a].about = t[b].about, s[a].about # 0
      PROVE  s[a].about \in H
  <2>1. s[a].about \in Ids(Range(s)) /\ t[b].about \in Ids(Range(t))
    <3>1. s[a] \in Range(s) /\ t[b] \in Range(t)
      BY InRange
    <3> QED BY <1>1, <3>1, InIds
  <2> QED BY <1>1, <2>1
<1>2. CASE i \in 1..Len(s) /\ j \in 1..Len(s)
  <2>1. (s \o t)[i] = s[i] /\ (s \o t)[j] = s[j]
    BY <1>2, InConcat
  <2> QED BY <1>2, <2>1 DEF Apart
<1>3. CASE i \in 1..Len(s) /\ \E b \in 1..Len(t) : j = Len(s) + b
  <2>1. PICK b \in 1..Len(t) : j = Len(s) + b
    BY <1>3
  <2>2. (s \o t)[i] = s[i] /\ (s \o t)[j] = t[b]
    BY <1>3, <2>1, InConcat
  <2> QED BY <1>1, <1>3, <2>2
<1>4. CASE j \in 1..Len(s) /\ \E b \in 1..Len(t) : i = Len(s) + b
  <2>1. PICK b \in 1..Len(t) : i = Len(s) + b
    BY <1>4
  <2>2. (s \o t)[j] = s[j] /\ (s \o t)[i] = t[b]
    BY <1>4, <2>1, InConcat
  <2> QED BY <1>1, <1>4, <2>2
<1>5. CASE (\E a \in 1..Len(t) : i = Len(s) + a) /\ (\E b \in 1..Len(t) : j = Len(s) + b)
  <2>1. PICK a \in 1..Len(t), b \in 1..Len(t) : i = Len(s) + a /\ j = Len(s) + b
    BY <1>5
  <2>2. (s \o t)[i] = t[a] /\ (s \o t)[j] = t[b]
    BY <2>1, InConcat
  <2>3. a # b
    BY <2>1
  <2> QED BY <2>2, <2>3 DEF Apart
<1> QED BY <1>2, <1>3, <1>4, <1>5, InConcat

\* And then only.
LEMMA ApartConcat ==
  ASSUME NEW S, NEW s \in Seq(S), NEW t \in Seq(S), NEW H, Apart(s \o t, H)
  PROVE  /\ Apart(s, H) /\ Apart(t, H)
         /\ Ids(Range(s)) \intersect Ids(Range(t)) \subseteq H
<1> DEFINE u == s \o t
<1>0. /\ Len(s) \in Nat /\ Len(t) \in Nat
      /\ \A i \in 1..Len(s) : i \in 1..Len(u) /\ u[i] = s[i]
      /\ \A j \in 1..Len(t) : Len(s) + j \in 1..Len(u) /\ u[Len(s) + j] = t[j]
  BY InConcat
<1>a. Apart(u, H)
  OBVIOUS
<1> HIDE DEF u
<1>1. Apart(s, H)
  BY <1>0, <1>a DEF Apart
<1>2. Apart(t, H)
  <2> SUFFICES ASSUME NEW i \in 1..Len(t), NEW j \in 1..Len(t), i # j,
                      t[i].about = t[j].about, t[i].about # 0
               PROVE  t[i].about \in H
    BY DEF Apart
  <2>1. Len(s) + i # Len(s) + j
    BY <1>0
  <2> QED BY <1>0, <1>a, <2>1 DEF Apart
<1>3. ASSUME NEW id \in Ids(Range(s)), id \in Ids(Range(t)) PROVE id \in H
  <2>1. PICK x \in Range(s) : x.about = id /\ id # 0
    BY FromIds
  <2>2. PICK y \in Range(t) : y.about = id
    BY <1>3, FromIds
  <2>3. PICK i \in 1..Len(s) : s[i] = x
    BY InRange
  <2>4. PICK j \in 1..Len(t) : t[j] = y
    BY InRange
  <2>5. i # Len(s) + j
    BY <1>0
  <2>6. u[i].about = id /\ u[Len(s) + j].about = id /\ i \in 1..Len(u) /\ Len(s) + j \in 1..Len(u)
    BY <1>0, <2>1, <2>2, <2>3, <2>4
  <2> QED BY <1>a, <2>1, <2>5, <2>6 DEF Apart
<1> QED BY <1>1, <1>2, <1>3

\* Likewise of fragments.
LEMMA ConcatOneEach ==
  ASSUME NEW S, NEW s \in Seq(S), NEW t \in Seq(S), OneEach(s), OneEach(t),
         Frags(Range(s)) \intersect Frags(Range(t)) = {}
  PROVE  OneEach(s \o t)
<1> SUFFICES ASSUME NEW i \in 1..Len(s \o t), NEW j \in 1..Len(s \o t), i # j,
                    IsStyle((s \o t)[i]), IsStyle((s \o t)[j]),
                    (s \o t)[i].frag = (s \o t)[j].frag
             PROVE  FALSE
  BY DEF OneEach
<1>1. ASSUME NEW a \in 1..Len(s), NEW b \in 1..Len(t), s[a].frag = t[b].frag,
             IsStyle(s[a]), IsStyle(t[b])
      PROVE  FALSE
  <2>1. s[a] \in Range(s) /\ t[b] \in Range(t)
    BY InRange
  <2>2. s[a].frag \in Frags(Range(s)) /\ t[b].frag \in Frags(Range(t))
    BY <1>1, <2>1, InIds
  <2> QED BY <1>1, <2>2
<1>2. CASE i \in 1..Len(s) /\ j \in 1..Len(s)
  <2>1. (s \o t)[i] = s[i] /\ (s \o t)[j] = s[j]
    BY <1>2, InConcat
  <2> QED BY <1>2, <2>1 DEF OneEach
<1>3. CASE i \in 1..Len(s) /\ \E b \in 1..Len(t) : j = Len(s) + b
  <2>1. PICK b \in 1..Len(t) : j = Len(s) + b
    BY <1>3
  <2>2. (s \o t)[i] = s[i] /\ (s \o t)[j] = t[b]
    BY <1>3, <2>1, InConcat
  <2> QED BY <1>1, <1>3, <2>2
<1>4. CASE j \in 1..Len(s) /\ \E b \in 1..Len(t) : i = Len(s) + b
  <2>1. PICK b \in 1..Len(t) : i = Len(s) + b
    BY <1>4
  <2>2. (s \o t)[j] = s[j] /\ (s \o t)[i] = t[b]
    BY <1>4, <2>1, InConcat
  <2> QED BY <1>1, <1>4, <2>2
<1>5. CASE (\E a \in 1..Len(t) : i = Len(s) + a) /\ (\E b \in 1..Len(t) : j = Len(s) + b)
  <2>1. PICK a \in 1..Len(t), b \in 1..Len(t) : i = Len(s) + a /\ j = Len(s) + b
    BY <1>5
  <2>2. (s \o t)[i] = t[a] /\ (s \o t)[j] = t[b]
    BY <2>1, InConcat
  <2>3. a # b
    BY <2>1
  <2> QED BY <2>2, <2>3 DEF OneEach
<1> QED BY <1>2, <1>3, <1>4, <1>5, InConcat
-----------------------------------------------------------------------------
(* What a walk returns. *)

Walks == [kind : Kinds, gated : BOOLEAN, rest : Seq(AnyItem), out : Seq(AnyItem),
          done : Seq(AnyItem), value : Seq(AnyItem), held : SUBSET AnyItem]

\* The counters of a numbering, with nothing numbered.
Reset(e) == [items |-> <<>>, about |-> e.about, next |-> e.next,
             pending |-> e.pending, fragments |-> e.fragments,
             phantom |-> e.phantom, seen |-> {}]

\* What is on offer to a walk, and all that is in a gated one, has no id but
\* one a module was handed.  In a walk that is not gated, what is done has one,
\* and the ids are apart.
WalkOK(w, c, H) ==
    /\ w \in Walks
    /\ \A it \in Offered(w) \union Range(Line(w)) : ItemOK(it, c)
    /\ \A it \in Range(Line(w)) : Resolved(it)
    /\ Ids(Offered(w)) \subseteq H
    /\ w.gated => Ids(Range(Line(w))) \subseteq H
    /\ ~w.gated => \A it \in Range(w.done) : NumberedIn(it, c)
    /\ ~w.gated => Apart(Line(w), H)

\* R is what a walk w that is right returns, n the counters then.
Returned(w, c, H, R, n) ==
    /\ n \in Numberings /\ CountersOK(n) /\ Grows(c, n)
    /\ R \in Seq(AnyItem)
    /\ \A it \in Range(R) : ItemOK(it, n) /\ Resolved(it)
    /\ \A id \in Ids(Range(R)) : id \in Ids(Range(Line(w))) \/ id > c.about
    /\ \A f \in Frags(Range(R)) : f \in Frags(Range(Line(w))) \/ f >= c.next
    /\ w.gated => Ids(Range(R)) \subseteq H /\ n.about = c.about
    /\ ~w.gated =>
          /\ \A it \in Range(R) : NumberedIn(it, n)
          /\ Apart(R, H)
          /\ IdsIn(Line(w), c.fragments) \subseteq IdsIn(R, n.fragments)
          /\ \A id \in (c.about + 1)..n.about : id \in n.phantom \/ id \in IdsIn(R, n.fragments)
          /\ OneEach(w.done) /\ Frags(Range(w.done)) \intersect Frags(Range(w.out)) = {}
                => OneEach(R)

\* The types of a walk.
LEMMA WalkType ==
  ASSUME NEW w \in Walks
  PROVE  /\ w.rest \in Seq(AnyItem) /\ w.out \in Seq(AnyItem) /\ w.done \in Seq(AnyItem)
         /\ w.value \in Seq(AnyItem) /\ w.held \in SUBSET AnyItem
         /\ w.gated \in BOOLEAN /\ w.kind \in Kinds
         /\ Line(w) \in Seq(AnyItem)
         /\ Range(Line(w)) = Range(w.done) \union Range(w.out)
<1>1. /\ w.rest \in Seq(AnyItem) /\ w.out \in Seq(AnyItem) /\ w.done \in Seq(AnyItem)
      /\ w.value \in Seq(AnyItem) /\ w.held \in SUBSET AnyItem
      /\ w.gated \in BOOLEAN /\ w.kind \in Kinds
  BY DEF Walks
<1> DEFINE s == w.done
           t == w.out
<1>2. s \in Seq(AnyItem) /\ t \in Seq(AnyItem)
  BY <1>1
<1> HIDE DEF s, t
<1>3. s \o t \in Seq(AnyItem)
  BY <1>2, ConcatProperties
<1>4. Range(s \o t) = Range(s) \union Range(t)
  BY <1>2, RangeConcatenation
<1> QED BY <1>1, <1>3, <1>4 DEF Line, s, t

\* Counters that are the same have the same to say.
LEMMA ResetOK ==
  ASSUME NEW e \in Numberings, CountersOK(e)
  PROVE  /\ Reset(e) \in Numberings /\ CountersOK(Reset(e))
         /\ Reset(e).about = e.about /\ Reset(e).next = e.next
         /\ Reset(e).pending = e.pending
         /\ Reset(e).phantom = e.phantom /\ Reset(e).fragments = e.fragments
         /\ \A c : Grows(c, e) => Grows(c, Reset(e))
         /\ \A it : (ItemOK(it, e) => ItemOK(it, Reset(e)))
                    /\ (NumberedIn(it, e) => NumberedIn(it, Reset(e)))
<1> DEFINE d == Reset(e)
<1>1. /\ d.about = e.about /\ d.next = e.next /\ d.pending = e.pending
      /\ d.fragments = e.fragments /\ d.phantom = e.phantom
  BY DEF Reset
<1>2. d \in Numberings
  <2>1. <<>> \in Seq(AnyItem)
    BY EmptySeq
  <2> QED BY <2>1, CountersType DEF Reset, Numberings
<1> HIDE DEF d
<1>3. CountersOK(d)
  BY <1>1 DEF CountersOK
<1>4. ASSUME NEW c, Grows(c, e) PROVE Grows(c, d)
  BY <1>1, <1>4 DEF Grows
<1>5. ASSUME NEW it
      PROVE  (ItemOK(it, e) => ItemOK(it, d)) /\ (NumberedIn(it, e) => NumberedIn(it, d))
  BY <1>1 DEF ItemOK, StyleOK, OtherOK, NumberedIn
<1> QED BY <1>1, <1>2, <1>3, <1>4, <1>5 DEF d

\* A gated walk returns what it has.
LEMMA GatedReturned ==
  ASSUME NEW c \in Numberings, CountersOK(c), NEW H, NEW w, WalkOK(w, c, H), w.gated
  PROVE  Returned(w, c, H, Line(w), Reset(c))
<1> DEFINE n == Reset(c)
<1>1. n \in Numberings /\ CountersOK(n) /\ Grows(c, n) /\ n.about = c.about
  BY ResetOK, GrowsReflexive
<1>2. Line(w) \in Seq(AnyItem) /\ Ids(Range(Line(w))) \subseteq H
  BY WalkType DEF WalkOK
<1>3. \A it \in Range(Line(w)) : ItemOK(it, n) /\ Resolved(it)
  BY ResetOK DEF WalkOK
<1> HIDE DEF n
<1>4. Returned(w, c, H, Line(w), n)
  BY <1>1, <1>2, <1>3 DEF Returned
<1> QED BY <1>4 DEF n

\* A walk that is not gated returns its last chunk numbered.
LEMMA ChunkReturned ==
  ASSUME NEW c \in Numberings, CountersOK(c), NEW H, NEW w, WalkOK(w, c, H), ~w.gated,
         NEW e, Progress(w.out, c, Len(w.out), e)
  PROVE  Returned(w, c, H, w.done \o e.items, Reset(e))
<1> DEFINE D == w.done
           s == w.out
           t == e.items
           R == D \o t
           n == Reset(e)
<1>1. /\ e \in Numberings /\ CountersOK(e) /\ Grows(c, e) /\ t \in Seq(AnyItem)
      /\ D \in Seq(AnyItem) /\ s \in Seq(AnyItem) /\ Len(t) = Len(s) /\ Len(s) \in Nat
      /\ Line(w) = D \o s /\ Range(Line(w)) = Range(D) \union Range(s)
      /\ c.about \in Nat /\ e.about \in Nat
  <2>1. e \in Numberings /\ CountersOK(e) /\ Grows(c, e) /\ Len(t) = Len(s)
    BY DEF Progress
  <2>2. w \in Walks
    BY DEF WalkOK
  <2>3. D \in Seq(AnyItem) /\ s \in Seq(AnyItem) /\ Range(Line(w)) = Range(D) \union Range(s)
    BY <2>2, WalkType
  <2>4. Len(s) \in Nat
    BY <2>3, LenProperties
  <2>5. c.about \in Nat /\ e.about \in Nat /\ t \in Seq(AnyItem)
    BY <2>1, CountersType
  <2> QED BY <2>1, <2>3, <2>4, <2>5 DEF Line
<1>2. /\ n \in Numberings /\ CountersOK(n) /\ Grows(c, n) /\ n.about = e.about
      /\ n.fragments = e.fragments /\ n.phantom = e.phantom
      /\ \A it : (ItemOK(it, e) => ItemOK(it, n)) /\ (NumberedIn(it, e) => NumberedIn(it, n))
  BY <1>1, ResetOK
<1>3. \A j \in 1..Len(t) :
        /\ ItemOK(t[j], e) /\ Resolved(t[j]) /\ NumberedIn(t[j], e) /\ Same(s[j], t[j], c)
  BY <1>1 DEF Progress
<1>4. \A i, j \in 1..Len(t) : i # j => AreApart(s[i], t[i], t[j])
  BY <1>1 DEF Progress
<1>5. \A id \in (c.about + 1)..e.about : id \in e.phantom \/ IsShown(id, t, Len(t), e)
  BY <1>1 DEF Progress
<1>6. \A i \in 1..Len(s) : AboutOf(s[i], c.fragments) # 0
                             => IsShown(AboutOf(s[i], c.fragments), t, Len(t), e)
  BY <1>1 DEF Progress
<1>7. /\ \A it \in Range(D) \union Range(s) : ItemOK(it, c) /\ Resolved(it)
      /\ \A it \in Range(D) : NumberedIn(it, c)
      /\ Apart(D \o s, H)
  BY <1>1 DEF WalkOK
<1> HIDE DEF D, s, t, n
<1>8. R \in Seq(AnyItem) /\ Range(R) = Range(D) \union Range(t)
  BY <1>1, ConcatProperties, RangeConcatenation
<1>9. \A it \in Range(D) : ItemOK(it, e) /\ NumberedIn(it, e)
          /\ (AboutOf(it, c.fragments) # 0
                => AboutOf(it, e.fragments) = AboutOf(it, c.fragments))
  BY <1>1, <1>7, ItemStays
<1>10. \A it \in Range(t) : \E j \in 1..Len(t) : t[j] = it
  BY <1>1, InRange
<1>11. \A j \in 1..Len(t) : s[j] \in Range(s)
  BY <1>1, InRange
<1>12. \A it \in Range(R) : ItemOK(it, n) /\ Resolved(it) /\ NumberedIn(it, n)
  BY <1>2, <1>3, <1>7, <1>8, <1>9, <1>10
<1>13. ASSUME NEW id \in Ids(Range(t)) PROVE id \in Ids(Range(s)) \/ id > c.about
  <2>1. PICK x \in Range(t) : x.about = id /\ id # 0
    BY FromIds
  <2>2. PICK j \in 1..Len(t) : t[j] = x
    BY <1>10
  <2>3. Same(s[j], x, c) /\ s[j] \in Range(s)
    BY <1>3, <1>11, <2>2
  <2>4. s[j].about # 0 => s[j].about \in Ids(Range(s))
    BY <2>3, InIds
  <2> QED BY <2>1, <2>3, <2>4 DEF Same
<1>14. ASSUME NEW f \in Frags(Range(t)) PROVE f \in Frags(Range(s)) \/ f >= c.next
  <2>1. PICK x \in Range(t) : IsStyle(x) /\ x.frag = f
    BY FromFrags
  <2>2. PICK j \in 1..Len(t) : t[j] = x
    BY <1>10
  <2>3. Same(s[j], x, c) /\ s[j] \in Range(s)
    BY <1>3, <1>11, <2>2
  <2>4. IsStyle(s[j])
    BY <2>1, <2>3, Zenon DEF Same, IsStyle
  <2>5. s[j].frag \in Frags(Range(s))
    BY <2>3, <2>4, InIds
  <2> QED BY <2>1, <2>3, <2>5 DEF Same
<1>15. /\ Ids(Range(R)) = Ids(Range(D)) \union Ids(Range(t))
       /\ Frags(Range(R)) = Frags(Range(D)) \union Frags(Range(t))
       /\ Ids(Range(Line(w))) = Ids(Range(D)) \union Ids(Range(s))
       /\ Frags(Range(Line(w))) = Frags(Range(D)) \union Frags(Range(s))
  <2>1. /\ Ids(Range(D) \union Range(t)) = Ids(Range(D)) \union Ids(Range(t))
        /\ Frags(Range(D) \union Range(t)) = Frags(Range(D)) \union Frags(Range(t))
        /\ Ids(Range(D) \union Range(s)) = Ids(Range(D)) \union Ids(Range(s))
        /\ Frags(Range(D) \union Range(s)) = Frags(Range(D)) \union Frags(Range(s))
    BY IdsOfUnion
  <2> QED BY <1>1, <1>8, <2>1, Zenon
<1>16. Apart(R, H)
  <2>1. /\ Apart(D, H) /\ Apart(s, H)
        /\ Ids(Range(D)) \intersect Ids(Range(s)) \subseteq H
    BY <1>1, <1>7, ApartConcat
  <2>2. Apart(t, H)
    <3> SUFFICES ASSUME NEW i \in 1..Len(t), NEW j \in 1..Len(t), i # j,
                        t[i].about = t[j].about, t[i].about # 0
                 PROVE  t[i].about \in H
      BY DEF Apart
    <3>1. s[i].about = t[i].about /\ s[j].about = t[j].about
      BY <1>4 DEF AreApart
    <3>2. i \in 1..Len(s) /\ j \in 1..Len(s)
      BY <1>1
    <3> QED BY <2>1, <3>1, <3>2 DEF Apart
  <2>3. ASSUME NEW id \in Ids(Range(D)), id \in Ids(Range(t)) PROVE id \in H
    <3>1. id <= c.about /\ id \in Nat
      <4>1. PICK x \in Range(D) : x.about = id
        BY FromIds
      <4> QED BY <1>7, <4>1 DEF ItemOK, AnyItem
    <3>2. id \in Ids(Range(s))
      BY <1>1, <1>13, <2>3, <3>1
    <3> QED BY <2>1, <3>2
  <2> QED BY <1>1, <2>1, <2>2, <2>3, ConcatApart
<1>17. ASSUME NEW id, id # 0, IsShown(id, t, Len(t), e) PROVE id \in IdsIn(R, n.fragments)
  <2>1. PICK j \in 1..Len(t) : AboutOf(t[j], e.fragments) = id
    BY <1>17 DEF IsShown
  <2>2. id \in IdsIn(t, n.fragments)
    BY <1>2, <1>17, <2>1, InIdsIn
  <2> QED BY <1>1, <2>2, IdsInConcat
<1>18. IdsIn(Line(w), c.fragments) \subseteq IdsIn(R, n.fragments)
  <2> SUFFICES ASSUME NEW id \in IdsIn(Line(w), c.fragments)
               PROVE  id \in IdsIn(R, n.fragments)
    OBVIOUS
  <2>1. id \in IdsIn(D, c.fragments) \union IdsIn(s, c.fragments)
    BY <1>1, IdsInConcat
  <2>2. CASE id \in IdsIn(D, c.fragments)
    <3>1. PICK j \in 1..Len(D) : AboutOf(D[j], c.fragments) = id /\ id # 0
      BY <2>2, FromIdsIn
    <3>2. D[j] \in Range(D)
      BY <1>1, InRange
    <3>3. id \in IdsIn(D, n.fragments)
      BY <1>2, <1>9, <3>1, <3>2, InIdsIn
    <3> QED BY <1>1, <3>3, IdsInConcat
  <2>3. CASE id \in IdsIn(s, c.fragments)
    <3>1. PICK j \in 1..Len(s) : AboutOf(s[j], c.fragments) = id /\ id # 0
      BY <2>3, FromIdsIn
    <3> QED BY <1>6, <1>17, <3>1
  <2> QED BY <2>1, <2>2, <2>3
<1>19. \A id \in (c.about + 1)..n.about : id \in n.phantom \/ id \in IdsIn(R, n.fragments)
  <2> SUFFICES ASSUME NEW id \in (c.about + 1)..n.about, id \notin n.phantom
               PROVE  id \in IdsIn(R, n.fragments)
    OBVIOUS
  <2>1. id # 0
    BY <1>1, <1>2
  <2> QED BY <1>2, <1>5, <1>17, <2>1
<1>20. ASSUME OneEach(D), Frags(Range(D)) \intersect Frags(Range(s)) = {} PROVE OneEach(R)
  <2>1. OneEach(t)
    <3> SUFFICES ASSUME NEW i \in 1..Len(t), NEW j \in 1..Len(t), i # j,
                        IsStyle(t[i]), IsStyle(t[j])
                 PROVE  t[i].frag # t[j].frag
      BY DEF OneEach
    <3> QED BY <1>4 DEF AreApart
  <2>2. ASSUME NEW f \in Frags(Range(D)), f \in Frags(Range(t)) PROVE FALSE
    <3>1. f < c.next /\ f \in Nat /\ c.next \in Nat
      <4>1. PICK x \in Range(D) : x.frag = f
        BY FromFrags
      <4> QED BY <1>7, <4>1, CountersType DEF ItemOK, AnyItem
    <3> QED BY <1>14, <1>20, <2>2, <3>1
  <2> QED BY <1>1, <1>20, <2>1, <2>2, ConcatOneEach
<1>21. Returned(w, c, H, R, n)
  <2>1. OneEach(w.done) /\ Frags(Range(w.done)) \intersect Frags(Range(w.out)) = {} => OneEach(R)
    BY <1>20 DEF D, s
  <2> HIDE DEF R
  <2> QED BY <1>2, <1>8, <1>12, <1>13, <1>14, <1>15, <1>16, <1>18, <1>19, <2>1 DEF Returned
<1> QED BY <1>21 DEF R, n, D, t
-----------------------------------------------------------------------------
(* The stack. *)

IsPage(w) == w.kind = "page"
IsModule(w) == w.kind = "module"
IsValue(w) == w.kind = "value"
OfModule(w) == w.kind \in {"argument", "answer", "output"}

\* A fragment that is in what the page's walk has done is nowhere else.
PageOK(w) ==
    /\ ~w.gated /\ Offered(w) = {}
    /\ OneEach(w.done) /\ Frags(Range(w.done)) \intersect Frags(Range(w.out)) = {}

KindOK(w) ==
    /\ IsValue(w) => w.gated
    /\ IsModule(w) => w.done = <<>> /\ w.out = <<>>

\* A walk below one that is not gated is not, and only a module has walks that
\* are a module's above it.
OnTop(w, below) ==
    /\ ~w.gated => ~below.gated
    /\ OfModule(w) <=> IsModule(below)

PageFrags(stk) == Frags(Range(stk[1].done))
WalkFrags(w) == Frags(Offered(w) \union Range(Line(w)))

\* The ids that are in walks from the k-th on that are not gated, as they are
\* on tokens and as they show.
LineIds(stk, k) ==
    UNION {Ids(Range(Line(stk[i]))) : i \in {j \in k..Len(stk) : ~stk[j].gated}}
ShownIds(stk, k, F) ==
    UNION {IdsIn(Line(stk[i]), F) : i \in {j \in k..Len(stk) : ~stk[j].gated}}

Good(stk, c, H, D) ==
    /\ stk \in Seq(Walks) /\ c \in Numberings /\ CountersOK(c)
    /\ H \subseteq 1..c.about /\ D \subseteq 1..c.about
    /\ \A i \in 1..Len(stk) : WalkOK(stk[i], c, H) /\ KindOK(stk[i])
    /\ \A i \in 1..Len(stk) : IsPage(stk[i]) <=> i = 1
    /\ stk # <<>> => PageOK(stk[1])
    /\ \A i \in 2..Len(stk) : /\ OnTop(stk[i], stk[i - 1])
                              /\ WalkFrags(stk[i]) \intersect PageFrags(stk) = {}
    /\ \A i, j \in 1..Len(stk) :
          i # j /\ ~stk[i].gated /\ ~stk[j].gated =>
             Ids(Range(Line(stk[i]))) \intersect Ids(Range(Line(stk[j]))) \subseteq H
    /\ stk # <<>> =>
          1..c.about \subseteq ShownIds(stk, 1, c.fragments) \union c.phantom \union D \union H

\* The walk w is the k-th and the last of stk2; below it nothing changed.
Tops(stk, stk2, k, w) ==
    /\ stk2 \in Seq(Walks) /\ k \in 1..(Len(stk) + 1) /\ Len(stk2) = k
    /\ stk2[k] = w /\ \A i \in 1..(k - 1) : stk2[i] = stk[i]

Fits(stk, k, w) ==
    /\ KindOK(w) /\ (IsPage(w) <=> k = 1)
    /\ k = 1 => PageOK(w)
    /\ k >= 2 => OnTop(w, stk[k - 1]) /\ WalkFrags(w) \intersect PageFrags(stk) = {}

\* What is right of a walk stays right.
LEMMA WalkStays ==
  ASSUME NEW c \in Numberings, NEW d \in Numberings, CountersOK(c), CountersOK(d), Grows(c, d),
         NEW H, NEW H2, H \subseteq H2, NEW w, WalkOK(w, c, H)
  PROVE  /\ WalkOK(w, d, H2)
         /\ ~w.gated => IdsIn(Line(w), c.fragments) \subseteq IdsIn(Line(w), d.fragments)
<1>1. w \in Walks
  BY DEF WalkOK
<1>2. \A it \in Offered(w) \union Range(Line(w)) : ItemOK(it, c)
  BY DEF WalkOK
<1>3. \A it \in Offered(w) \union Range(Line(w)) :
        /\ ItemOK(it, d)
        /\ AboutOf(it, c.fragments) # 0 => AboutOf(it, d.fragments) = AboutOf(it, c.fragments)
        /\ NumberedIn(it, c) => NumberedIn(it, d)
  BY <1>2, ItemStays
<1>4. Range(w.done) \subseteq Range(Line(w)) /\ Line(w) \in Seq(AnyItem)
  BY <1>1, WalkType
<1>5. Apart(Line(w), H) => Apart(Line(w), H2)
  BY DEF Apart
<1>6. WalkOK(w, d, H2)
  BY <1>3, <1>4, <1>5 DEF WalkOK
<1>7. ASSUME NEW id \in IdsIn(Line(w), c.fragments) PROVE id \in IdsIn(Line(w), d.fragments)
  <2>1. PICK j \in 1..Len(Line(w)) : AboutOf(Line(w)[j], c.fragments) = id /\ id # 0
    BY FromIdsIn
  <2>2. Line(w)[j] \in Range(Line(w))
    BY <1>4, InRange
  <2>3. AboutOf(Line(w)[j], d.fragments) = id
    BY <1>3, <2>1, <2>2
  <2> QED BY <2>1, <2>3, InIdsIn
<1> QED BY <1>6, <1>7

\* The ids in a walk were taken.
LEMMA WalkIds ==
  ASSUME NEW c \in Numberings, NEW H, NEW w, WalkOK(w, c, H), NEW id \in Ids(Range(Line(w)))
  PROVE  id \in Nat /\ id <= c.about /\ id # 0
<1>1. PICK x \in Range(Line(w)) : x.about = id /\ id # 0
  BY FromIds
<1> QED BY <1>1 DEF WalkOK, ItemOK, AnyItem

\* So is all that is on a stack with another walk at its top, if the walk is
\* right, fits there, has no id that is below it and keeps those that were above.
LEMMA Placed ==
  ASSUME NEW stk, NEW c, NEW H, NEW D, Good(stk, c, H, D), stk # <<>>,
         NEW d \in Numberings, CountersOK(d), Grows(c, d),
         NEW H2, H \subseteq H2, H2 \subseteq 1..d.about,
         NEW D2, D \subseteq D2, D2 \subseteq 1..d.about,
         NEW k, NEW w, NEW stk2, Tops(stk, stk2, k, w),
         WalkOK(w, d, H2), Fits(stk, k, w),
         ~w.gated => \A id \in Ids(Range(Line(w))) :
                        id \in H2 \/ id > c.about \/ id \in LineIds(stk, k),
         \A id \in ShownIds(stk, k, c.fragments) \union ((c.about + 1)..d.about) :
            \/ id \in d.phantom \union D2 \union H2
            \/ ~w.gated /\ id \in IdsIn(Line(w), d.fragments)
  PROVE  Good(stk2, d, H2, D2)
<1>1. /\ stk \in Seq(Walks) /\ c \in Numberings /\ CountersOK(c) /\ Len(stk) \in Nat
      /\ k \in Nat /\ k # 0 /\ Len(stk2) = k /\ k <= Len(stk) + 1 /\ stk2 \in Seq(Walks)
      /\ stk2[k] = w /\ \A i \in 1..(k - 1) : stk2[i] = stk[i] /\ i \in 1..Len(stk)
      /\ c.about \in Nat /\ d.about \in Nat /\ c.about <= d.about
      /\ c.phantom \subseteq d.phantom
  <2>1. stk \in Seq(Walks) /\ c \in Numberings /\ CountersOK(c)
    BY DEF Good
  <2>2. Len(stk) \in Nat
    BY <2>1, LenProperties
  <2>3. c.about \in Nat /\ d.about \in Nat /\ c.about <= d.about /\ c.phantom \subseteq d.phantom
    BY <2>1, CountersType DEF Grows
  <2> QED BY <2>1, <2>2, <2>3 DEF Tops
<1>2. \A i \in 1..k : i = k \/ i \in 1..(k - 1)
  BY <1>1
<1>3. \A i \in 1..Len(stk) :
        /\ WalkOK(stk[i], c, H) /\ KindOK(stk[i]) /\ WalkOK(stk[i], d, H2)
        /\ ~stk[i].gated => IdsIn(Line(stk[i]), c.fragments) \subseteq IdsIn(Line(stk[i]), d.fragments)
  <2>1. \A i \in 1..Len(stk) : WalkOK(stk[i], c, H) /\ KindOK(stk[i])
    BY DEF Good
  <2> QED BY <1>1, <2>1, WalkStays
<1>4. \A i \in 1..k : WalkOK(stk2[i], d, H2) /\ KindOK(stk2[i])
  BY <1>1, <1>2, <1>3 DEF Fits
<1>5. \A i \in 1..k : IsPage(stk2[i]) <=> i = 1
  BY <1>1, <1>2 DEF Good, Fits
<1>6. stk2 # <<>> /\ PageOK(stk2[1])
  <2>1. stk2 # <<>>
    BY <1>1, EmptySeq
  <2>2. CASE k = 1
    BY <1>1, <2>1, <2>2 DEF Fits
  <2>3. CASE k # 1
    <3>1. stk2[1] = stk[1]
      BY <1>1, <2>3
    <3> QED BY <2>1, <3>1 DEF Good
  <2> QED BY <2>2, <2>3
<1>7. ASSUME NEW i \in 2..k
      PROVE  OnTop(stk2[i], stk2[i - 1]) /\ WalkFrags(stk2[i]) \intersect PageFrags(stk2) = {}
  <2>1. stk2[1] = stk[1] /\ stk2[i - 1] = stk[i - 1]
    BY <1>1
  <2>2. PageFrags(stk2) = PageFrags(stk)
    BY <2>1 DEF PageFrags
  <2>3. CASE i = k
    BY <1>1, <2>1, <2>2, <2>3 DEF Fits
  <2>4. CASE i \in 2..(k - 1)
    <3>1. stk2[i] = stk[i] /\ i \in 2..Len(stk)
      BY <1>1, <2>4
    <3> QED BY <2>1, <2>2, <3>1 DEF Good
  <2> QED BY <1>1, <2>3, <2>4
<1>8. ASSUME NEW i \in 1..(k - 1), ~stk[i].gated, ~w.gated, NEW id \in Ids(Range(Line(stk[i]))),
             id \in Ids(Range(Line(w)))
      PROVE  id \in H2
  <2>1. id <= c.about /\ id \in Nat
    BY <1>1, <1>3, WalkIds
  <2>2. CASE id \in LineIds(stk, k)
    <3>1. PICK j \in k..Len(stk) : ~stk[j].gated /\ id \in Ids(Range(Line(stk[j])))
      BY <2>2 DEF LineIds
    <3>2. i \in 1..Len(stk) /\ j \in 1..Len(stk) /\ i # j
      BY <1>1
    <3>3. Ids(Range(Line(stk[i]))) \intersect Ids(Range(Line(stk[j]))) \subseteq H
      BY <1>8, <3>1, <3>2 DEF Good
    <3> QED BY <1>8, <3>1, <3>3
  <2> QED BY <1>1, <1>8, <2>1, <2>2
<1>9. ASSUME NEW i \in 1..k, NEW j \in 1..k, i # j, ~stk2[i].gated, ~stk2[j].gated
      PROVE  Ids(Range(Line(stk2[i]))) \intersect Ids(Range(Line(stk2[j]))) \subseteq H2
  <2>1. CASE i \in 1..(k - 1) /\ j \in 1..(k - 1)
    <3>1. /\ stk2[i] = stk[i] /\ stk2[j] = stk[j]
          /\ i \in 1..Len(stk) /\ j \in 1..Len(stk)
      BY <1>1, <2>1
    <3>2. Ids(Range(Line(stk[i]))) \intersect Ids(Range(Line(stk[j]))) \subseteq H
      BY <1>9, <3>1 DEF Good
    <3> QED BY <3>1, <3>2
  <2>2. CASE i = k /\ j \in 1..(k - 1)
    BY <1>1, <1>8, <1>9, <2>2
  <2>3. CASE j = k /\ i \in 1..(k - 1)
    BY <1>1, <1>8, <1>9, <2>3
  <2> QED BY <1>2, <1>9, <2>1, <2>2, <2>3
<1>10. ASSUME NEW id \in 1..d.about
       PROVE  id \in ShownIds(stk2, 1, d.fragments) \union d.phantom \union D2 \union H2
  <2>1. CASE ~w.gated /\ id \in IdsIn(Line(w), d.fragments)
    <3>1. k \in {j \in 1..Len(stk2) : ~stk2[j].gated}
      BY <1>1, <2>1
    <3> QED BY <1>1, <2>1, <3>1 DEF ShownIds
  <2>2. CASE id \in (c.about + 1)..d.about
    BY <2>1, <2>2
  <2>3. CASE id \in 1..c.about
    <3>1. id \in ShownIds(stk, 1, c.fragments) \union c.phantom \union D \union H
      BY <2>3 DEF Good
    <3>2. CASE id \in ShownIds(stk, 1, c.fragments)
      <4>1. PICK j \in 1..Len(stk) : ~stk[j].gated /\ id \in IdsIn(Line(stk[j]), c.fragments)
        BY <3>2 DEF ShownIds
      <4>2. CASE j \in k..Len(stk)
        <5>1. id \in ShownIds(stk, k, c.fragments)
          BY <4>1, <4>2 DEF ShownIds
        <5> QED BY <2>1, <5>1
      <4>3. CASE j \in 1..(k - 1)
        <5>1. stk2[j] = stk[j] /\ j \in {a \in 1..Len(stk2) : ~stk2[a].gated}
          BY <1>1, <4>1, <4>3
        <5>2. id \in IdsIn(Line(stk2[j]), d.fragments)
          BY <1>3, <4>1, <5>1
        <5> QED BY <5>1, <5>2 DEF ShownIds
      <4> QED BY <1>1, <4>2, <4>3
    <3> QED BY <1>1, <3>1, <3>2
  <2> QED BY <1>1, <2>2, <2>3
<1> QED
  BY <1>1, <1>4, <1>5, <1>6, <1>7, <1>9, <1>10 DEF Good
-----------------------------------------------------------------------------
(* Changes of the stack that are right. *)

\* A token that may come into a walk; one that may be offered to a walk.
Loose(it, d, stk) == ItemOK(it, d) /\ (IsStyle(it) => it.frag \notin PageFrags(stk))
Offer(it, d, H, stk) == Loose(it, d, stk) /\ (it.about # 0 => it.about \in H)

\* Walks of a kind.
LEMMA SameKind ==
  ASSUME NEW v, NEW w, v.kind = w.kind
  PROVE  /\ IsPage(v) <=> IsPage(w)
         /\ IsModule(v) <=> IsModule(w)
         /\ IsValue(v) <=> IsValue(w)
         /\ OfModule(v) <=> OfModule(w)
  BY Zenon DEF IsPage, IsModule, IsValue, OfModule

\* The last walk and those above it.
LEMMA FromThere ==
  ASSUME NEW stk \in Seq(Walks), NEW k \in 1..Len(stk), NEW F
  PROVE  /\ ~stk[k].gated => Ids(Range(Line(stk[k]))) \subseteq LineIds(stk, k)
         /\ LineIds(stk, k + 1) \subseteq LineIds(stk, k)
         /\ \A id \in ShownIds(stk, k, F) :
               \/ ~stk[k].gated /\ id \in IdsIn(Line(stk[k]), F)
               \/ id \in ShownIds(stk, k + 1, F)
<1>1. Len(stk) \in Nat
  BY LenProperties
<1>2. k \in k..Len(stk) /\ (k + 1)..Len(stk) \subseteq k..Len(stk)
      /\ \A j \in k..Len(stk) : j = k \/ j \in (k + 1)..Len(stk)
  BY <1>1
<1>3. ~stk[k].gated => Ids(Range(Line(stk[k]))) \subseteq LineIds(stk, k)
  BY <1>2 DEF LineIds
<1>4. LineIds(stk, k + 1) \subseteq LineIds(stk, k)
  BY <1>2 DEF LineIds
<1>5. ASSUME NEW id \in ShownIds(stk, k, F), id \notin ShownIds(stk, k + 1, F)
      PROVE  ~stk[k].gated /\ id \in IdsIn(Line(stk[k]), F)
  <2>1. PICK j \in k..Len(stk) : ~stk[j].gated /\ id \in IdsIn(Line(stk[j]), F)
    BY <1>5 DEF ShownIds
  <2>2. j \notin (k + 1)..Len(stk)
    BY <1>5, <2>1 DEF ShownIds
  <2> QED BY <1>2, <2>1, <2>2
<1> QED BY <1>3, <1>4, <1>5

\* The k-th walk w takes the tokens of s, is offered more, and is the last.
Growth(stk, c, H, D, d, H2, D2, k, w, w2, stk2, s) ==
    /\ Good(stk, c, H, D)
    /\ d \in Numberings /\ CountersOK(d) /\ Grows(c, d)
    /\ H \subseteq H2 /\ H2 \subseteq 1..d.about
    /\ D \subseteq D2 /\ D2 \subseteq 1..d.about
    /\ k \in 1..Len(stk) /\ w = stk[k] /\ w2 \in Walks
    /\ Tops(stk, stk2, k, w2) /\ s \in Seq(AnyItem)
    /\ w2.kind = w.kind /\ w2.gated = w.gated /\ w2.done = w.done /\ w2.out = w.out \o s
    /\ \A it \in Offered(w2) : it \in Offered(w) \/ (k # 1 /\ Offer(it, d, H2, stk))
    /\ \A it \in Range(s) : Loose(it, d, stk) /\ Resolved(it)
    /\ w.gated => Ids(Range(s)) \subseteq H2
    /\ ~w.gated => /\ Apart(s, H2)
                   /\ \A id \in Ids(Range(s)) :
                         id \in H2 \/ id > c.about \/ id \in LineIds(stk, k + 1)
    /\ IsModule(w) => s = <<>>
    /\ \A id \in ShownIds(stk, k + 1, c.fragments) \union ((c.about + 1)..d.about) :
          \/ id \in d.phantom \union D2 \union H2
          \/ ~w.gated /\ id \in IdsIn(s, d.fragments)

\* A walk that grows so leaves the state good.
LEMMA Grown ==
  ASSUME NEW stk, NEW c, NEW H, NEW D, NEW d, NEW H2, NEW D2, NEW k, NEW w, NEW w2, NEW stk2,
         NEW s, Growth(stk, c, H, D, d, H2, D2, k, w, w2, stk2, s)
  PROVE  Good(stk2, d, H2, D2)
<1> USE DEF Growth
<1>1. /\ stk \in Seq(Walks) /\ c \in Numberings /\ CountersOK(c) /\ stk # <<>>
      /\ WalkOK(w, c, H) /\ KindOK(w) /\ w \in Walks /\ w.gated \in BOOLEAN
      /\ c.about \in Nat /\ Len(stk) \in Nat
  <2>1. stk \in Seq(Walks) /\ c \in Numberings /\ CountersOK(c) /\ WalkOK(w, c, H) /\ KindOK(w)
    BY DEF Good
  <2>2. w \in Walks /\ c.about \in Nat /\ Len(stk) \in Nat
    BY <2>1, CountersType, LenProperties DEF WalkOK
  <2>3. stk # <<>>
    BY EmptySeq
  <2> QED BY <2>1, <2>2, <2>3, WalkType
<1>2. /\ WalkOK(w, d, H2)
      /\ ~w.gated => IdsIn(Line(w), c.fragments) \subseteq IdsIn(Line(w), d.fragments)
  BY <1>1, WalkStays
<1>3. /\ Line(w) \in Seq(AnyItem) /\ Line(w2) = Line(w) \o s
      /\ Range(Line(w2)) = Range(Line(w)) \union Range(s)
  <2> DEFINE a == w.done
             b == w.out
  <2>1. /\ a \in Seq(AnyItem) /\ b \in Seq(AnyItem) /\ s \in Seq(AnyItem)
        /\ Line(w) \in Seq(AnyItem)
    BY <1>1, WalkType
  <2>2. Line(w) = a \o b /\ Line(w2) = a \o (b \o s)
    BY DEF Line
  <2> HIDE DEF a, b
  <2>3. Line(w2) = Line(w) \o s
    <3>1. (a \o b) \o s = a \o (b \o s)
      BY ONLY <2>1, Joined
    <3> QED BY <2>2, <3>1
  <2> QED BY <2>1, <2>3, RangeConcatenation
<1>11. /\ Ids(Range(Line(w2))) = Ids(Range(Line(w))) \union Ids(Range(s))
       /\ Frags(Range(Line(w2))) = Frags(Range(Line(w))) \union Frags(Range(s))
  <2>1. /\ Ids(Range(Line(w)) \union Range(s)) = Ids(Range(Line(w))) \union Ids(Range(s))
        /\ Frags(Range(Line(w)) \union Range(s)) = Frags(Range(Line(w))) \union Frags(Range(s))
    BY IdsOfUnion
  <2> QED BY <1>3, <2>1, Zenon
<1>4. ASSUME NEW it \in Offered(w2)
      PROVE  ItemOK(it, d) /\ (it.about # 0 => it.about \in H2)
  <2>1. CASE it \in Offered(w)
    BY <1>2, <2>1, InIds DEF WalkOK
  <2>2. CASE Offer(it, d, H2, stk)
    BY <2>2 DEF Offer, Loose
  <2> QED BY <2>1, <2>2
<1>5. ~w.gated => Apart(Line(w2), H2)
  <2> SUFFICES ASSUME ~w.gated PROVE Apart(Line(w2), H2)
    OBVIOUS
  <2>1. ASSUME NEW id \in Ids(Range(Line(w))), id \in Ids(Range(s)) PROVE id \in H2
    <3>1. id \in Nat /\ id <= c.about
      BY <1>1, WalkIds
    <3>2. CASE id \in LineIds(stk, k + 1)
      <4>1. PICK j \in (k + 1)..Len(stk) : ~stk[j].gated /\ id \in Ids(Range(Line(stk[j])))
        BY <3>2 DEF LineIds
      <4>2. j \in 1..Len(stk) /\ j # k
        BY <1>1
      <4>3. Ids(Range(Line(stk[k]))) \intersect Ids(Range(Line(stk[j]))) \subseteq H
        BY <4>1, <4>2 DEF Good
      <4> QED BY <2>1, <4>1, <4>3
    <3> QED BY <1>1, <2>1, <3>1, <3>2
  <2>2. Apart(Line(w), H2) /\ Apart(s, H2)
    BY <1>2 DEF WalkOK
  <2> QED BY <1>3, <2>1, <2>2, ConcatApart
<1>6. WalkOK(w2, d, H2)
  <2>1. \A it \in Offered(w2) \union Range(Line(w2)) : ItemOK(it, d)
    BY <1>2, <1>3, <1>4 DEF WalkOK, Loose
  <2>2. \A it \in Range(Line(w2)) : Resolved(it)
    BY <1>2, <1>3 DEF WalkOK
  <2>3. Ids(Offered(w2)) \subseteq H2
    BY <1>4, FromIds
  <2>4. w2.gated => Ids(Range(Line(w2))) \subseteq H2
    BY <1>2, <1>11 DEF WalkOK
  <2>5. ~w2.gated => \A it \in Range(w2.done) : NumberedIn(it, d)
    BY <1>2 DEF WalkOK
  <2> QED BY <1>5, <2>1, <2>2, <2>3, <2>4, <2>5 DEF WalkOK
<1>7. ASSUME NEW f \in Frags(Range(s)) PROVE f \notin PageFrags(stk)
  <2>1. PICK it \in Range(s) : IsStyle(it) /\ it.frag = f
    BY FromFrags
  <2> QED BY <2>1 DEF Loose
<1>8. Fits(stk, k, w2)
  <2>1. /\ IsPage(w2) <=> IsPage(w)
        /\ IsModule(w2) <=> IsModule(w)
        /\ IsValue(w2) <=> IsValue(w)
        /\ OfModule(w2) <=> OfModule(w)
    BY SameKind
  <2>2. KindOK(w2)
    <3>1. IsModule(w) => w.out \o s = <<>>
      <4>1. <<>> \o <<>> = <<>>
        BY EmptySeq, ConcatEmptySeq
      <4> QED BY <1>1, <4>1 DEF KindOK
    <3> QED BY <1>1, <2>1, <3>1 DEF KindOK
  <2>3. IsPage(w2) <=> k = 1
    BY <2>1 DEF Good
  <2>4. ASSUME k = 1 PROVE PageOK(w2)
    <3>1. PageOK(w) /\ PageFrags(stk) = Frags(Range(w.done))
      BY <1>1, <2>4 DEF Good, PageFrags
    <3>2. Offered(w2) = {}
      BY <2>4, <3>1 DEF PageOK
    <3>3. Frags(Range(w2.out)) = Frags(Range(w.out)) \union Frags(Range(s))
      <4> DEFINE b == w.out
      <4>1. b \in Seq(AnyItem)
        BY <1>1, WalkType
      <4> HIDE DEF b
      <4>2. Range(b \o s) = Range(b) \union Range(s)
        BY <4>1, RangeConcatenation
      <4>3. Frags(Range(b) \union Range(s)) = Frags(Range(b)) \union Frags(Range(s))
        BY IdsOfUnion
      <4> QED BY <4>2, <4>3, Zenon DEF b
    <3> QED BY <1>7, <3>1, <3>2, <3>3 DEF PageOK
  <2>5. ASSUME k >= 2 PROVE OnTop(w2, stk[k - 1]) /\ WalkFrags(w2) \intersect PageFrags(stk) = {}
    <3>1. k \in 2..Len(stk)
      BY <1>1, <2>5
    <3>2. OnTop(w, stk[k - 1]) /\ WalkFrags(w) \intersect PageFrags(stk) = {}
      BY <3>1 DEF Good
    <3>3. OnTop(w2, stk[k - 1])
      BY <2>1, <3>2 DEF OnTop
    <3>4. ASSUME NEW f \in WalkFrags(w2) PROVE f \notin PageFrags(stk)
      <4>1. PICK it \in Offered(w2) \union Range(Line(w2)) : IsStyle(it) /\ it.frag = f
        BY FromFrags DEF WalkFrags
      <4>2. CASE it \in Offered(w) \union Range(Line(w))
        BY <3>2, <4>1, <4>2, InIds DEF WalkFrags
      <4>3. CASE it \in Range(s) \/ Offer(it, d, H2, stk)
        BY <4>1, <4>3 DEF Loose, Offer
      <4> QED BY <1>3, <4>1, <4>2, <4>3
    <3> QED BY <3>3, <3>4
  <2> QED BY <2>2, <2>3, <2>4, <2>5 DEF Fits
<1>9. ~w2.gated => \A id \in Ids(Range(Line(w2))) :
                        id \in H2 \/ id > c.about \/ id \in LineIds(stk, k)
  <2>2. /\ ~stk[k].gated => Ids(Range(Line(stk[k]))) \subseteq LineIds(stk, k)
        /\ LineIds(stk, k + 1) \subseteq LineIds(stk, k)
    BY <1>1, FromThere
  <2> QED BY <1>11, <2>2
<1>10. ASSUME NEW id \in ShownIds(stk, k, c.fragments) \union ((c.about + 1)..d.about)
       PROVE  \/ id \in d.phantom \union D2 \union H2
              \/ ~w2.gated /\ id \in IdsIn(Line(w2), d.fragments)
  <2>1. IdsIn(Line(w2), d.fragments) = IdsIn(Line(w), d.fragments) \union IdsIn(s, d.fragments)
    BY <1>3, IdsInConcat
  <2>2. \/ ~w.gated /\ id \in IdsIn(Line(w), c.fragments)
        \/ id \in ShownIds(stk, k + 1, c.fragments) \union ((c.about + 1)..d.about)
    BY <1>1, FromThere
  <2> QED BY <1>2, <2>1, <2>2
<1> QED BY <1>1, <1>6, <1>8, <1>9, <1>10, Placed

\* Nothing is in an empty sequence, and one token in a sequence of one.
LEMMA NoTokens ==
         /\ <<>> \in Seq(AnyItem) /\ Len(<<>>) = 0 /\ Range(<<>>) = {}
         /\ Ids({}) = {} /\ Frags({}) = {} /\ \A H : Apart(<<>>, H)
         /\ <<>> \o <<>> = <<>>
<1>1. <<>> \in Seq(AnyItem) /\ Len(<<>>) = 0
  BY EmptySeq
<1>2. Range(<<>>) = {}
  BY DEF Range
<1>3. Ids({}) = {} /\ Frags({}) = {}
  BY DEF Ids, Frags
<1>4. \A H : Apart(<<>>, H)
  BY <1>1 DEF Apart
<1>5. <<>> \o <<>> = <<>>
  BY <1>1, ConcatEmptySeq
<1> QED BY <1>1, <1>2, <1>3, <1>4, <1>5

\* A sequence of one token.
LEMMA OneToken ==
  ASSUME NEW it \in AnyItem
  PROVE  /\ <<it>> \in Seq(AnyItem) /\ Range(<<it>>) = {it} /\ \A H : Apart(<<it>>, H)
<1>1. <<it>> \in Seq(AnyItem) /\ Len(<<it>>) = 1 /\ <<it>>[1] = it
  OBVIOUS
<1>2. Range(<<it>>) = {it}
  <2>1. DOMAIN <<it>> = {1}
    BY <1>1
  <2> QED BY <1>1, <2>1 DEF Range
<1>3. \A H : Apart(<<it>>, H)
  BY <1>1 DEF Apart
<1> QED BY <1>1, <1>2, <1>3

\* Ids that are all in H are apart.
LEMMA AllApart ==
  ASSUME NEW s \in Seq(AnyItem), NEW H, Ids(Range(s)) \subseteq H PROVE Apart(s, H)
<1>1. \A j \in 1..Len(s) : s[j] \in Range(s)
  BY InRange
<1>2. \A j \in 1..Len(s) : s[j].about # 0 => s[j].about \in H
  BY <1>1, InIds
<1> QED BY <1>2 DEF Apart

\* A walk takes no token, and is offered more.
LEMMA Kept ==
  ASSUME NEW stk, NEW c, NEW H, NEW D, Good(stk, c, H, D),
         NEW d \in Numberings, CountersOK(d), Grows(c, d),
         NEW H2, H \subseteq H2, H2 \subseteq 1..d.about,
         NEW D2, D \subseteq D2, D2 \subseteq 1..d.about,
         NEW k \in 1..Len(stk), NEW w, w = stk[k], NEW w2 \in Walks, NEW stk2,
         Tops(stk, stk2, k, w2), w2.kind = w.kind, w2.gated = w.gated, w2.done = w.done,
         w2.out = w.out,
         \A it \in Offered(w2) : it \in Offered(w) \/ (k # 1 /\ Offer(it, d, H2, stk)),
         \A id \in ShownIds(stk, k + 1, c.fragments) \union ((c.about + 1)..d.about) :
            id \in d.phantom \union D2 \union H2
  PROVE  Good(stk2, d, H2, D2)
<1> DEFINE e == <<>>
           o == w.out
<1>1. o \in Seq(AnyItem)
  <2>1. w2.out \in Seq(AnyItem)
    BY WalkType
  <2> QED BY <2>1
<1>2. /\ e \in Seq(AnyItem) /\ Range(e) = {} /\ Ids(Range(e)) = {}
      /\ Apart(e, H2) /\ (IsModule(w) => e = <<>>)
  BY NoTokens
<1>3. o = o \o e
  <2> HIDE DEF o
  <2> QED BY <1>1, ConcatEmptySeq
<1> HIDE DEF e
<1>4. w2.out = w.out \o e
  BY <1>3
<1>5. \A it \in Range(e) : Loose(it, d, stk) /\ Resolved(it)
  BY <1>2
<1>6. /\ w.gated => Ids(Range(e)) \subseteq H2
      /\ ~w.gated => /\ Apart(e, H2)
                     /\ \A id \in Ids(Range(e)) :
                           id \in H2 \/ id > c.about \/ id \in LineIds(stk, k + 1)
  BY <1>2
<1>7. \A id \in ShownIds(stk, k + 1, c.fragments) \union ((c.about + 1)..d.about) :
         \/ id \in d.phantom \union D2 \union H2
         \/ ~w.gated /\ id \in IdsIn(e, d.fragments)
  OBVIOUS
<1> HIDE DEF o
<1>8. /\ Good(stk, c, H, D)
      /\ d \in Numberings /\ CountersOK(d) /\ Grows(c, d)
      /\ H \subseteq H2 /\ H2 \subseteq 1..d.about
      /\ D \subseteq D2 /\ D2 \subseteq 1..d.about
  OBVIOUS
<1>9. /\ k \in 1..Len(stk) /\ w = stk[k] /\ w2 \in Walks
      /\ Tops(stk, stk2, k, w2) /\ w2.kind = w.kind /\ w2.gated = w.gated /\ w2.done = w.done
      /\ \A it \in Offered(w2) : it \in Offered(w) \/ (k # 1 /\ Offer(it, d, H2, stk))
  OBVIOUS
<1>10. Growth(stk, c, H, D, d, H2, D2, k, w, w2, stk2, e)
  BY ONLY <1>2, <1>4, <1>5, <1>6, <1>7, <1>8, <1>9 DEF Growth
<1> QED BY ONLY <1>10, Grown

\* A line break is right at any time.
LEMMA NewlineOK ==
  ASSUME NEW d \in Numberings, CountersOK(d)
  PROVE  /\ Newline \in AnyItem /\ ItemOK(Newline, d) /\ Resolved(Newline)
         /\ ~IsStyle(Newline) /\ Newline.about = 0
<1>1. Newline \in AnyItem /\ ~IsStyle(Newline) /\ Newline.about = 0 /\ Newline.frag = 0
  BY DEF Newline, Tag, Item, AnyItem, IsStyle
<1>2. d.next \in Nat /\ d.next # 0 /\ d.about \in Nat
  BY CountersType DEF CountersOK
<1>3. 0 < d.next /\ 0 <= d.about
  BY <1>2
<1> QED BY <1>1, <1>3 DEF ItemOK, OtherOK, Resolved

\* The fragments of what the page's walk has done were given.
LEMMA PageFragsOld ==
  ASSUME NEW stk, NEW c, NEW H, NEW D, Good(stk, c, H, D), stk # <<>>, NEW f \in PageFrags(stk)
  PROVE  f \in Nat /\ c.next \in Nat /\ f < c.next /\ f # 0
<1> DEFINE w == stk[1]
<1>1. 1 \in 1..Len(stk)
  BY EmptySeq, LenProperties DEF Good
<1>2. WalkOK(w, c, H) /\ w \in Walks /\ c \in Numberings
  BY <1>1 DEF Good, WalkOK
<1>3. PICK it \in Range(w.done) : IsStyle(it) /\ it.frag = f
  BY FromFrags DEF PageFrags
<1>4. it \in Range(Line(w))
  BY <1>2, <1>3, WalkType
<1>5. ItemOK(it, c) /\ Resolved(it)
  BY <1>2, <1>4 DEF WalkOK
<1>6. it \in AnyItem /\ it.frag < c.next
  BY <1>5 DEF ItemOK
<1>7. c.next \in Nat
  BY <1>2, CountersType
<1> QED BY <1>3, <1>5, <1>6, <1>7 DEF Resolved, AnyItem

\* A walk is entered.
LEMMA Entered ==
  ASSUME NEW stk, NEW c, NEW H, NEW D, Good(stk, c, H, D), stk # <<>>,
         NEW d \in Numberings, CountersOK(d), Grows(c, d),
         NEW H2, H \subseteq H2, H2 \subseteq 1..d.about,
         NEW D2, D \subseteq D2, D2 \subseteq 1..d.about,
         NEW k, k >= 2, NEW w \in Walks, w.done = <<>>, w.out = <<>>,
         NEW stk2, Tops(stk, stk2, k, w),
         ~IsPage(w), IsValue(w) => w.gated, OnTop(w, stk[k - 1]),
         \A it \in Offered(w) : Offer(it, d, H2, stk),
         \A id \in ShownIds(stk, k, c.fragments) \union ((c.about + 1)..d.about) :
            id \in d.phantom \union D2 \union H2
  PROVE  Good(stk2, d, H2, D2)
<1>1. Line(w) = <<>> /\ Range(Line(w)) = {} /\ Range(w.done) = {}
  BY NoTokens DEF Line
<1>2. WalkOK(w, d, H2)
  <2>1. \A it \in Offered(w) : ItemOK(it, d)
    BY DEF Offer, Loose
  <2>2. Ids(Offered(w)) \subseteq H2
    BY FromIds DEF Offer
  <2>3. Ids(Range(Line(w))) = {} /\ Apart(Line(w), H2)
    BY <1>1, NoTokens
  <2> QED BY <1>1, <2>1, <2>2, <2>3 DEF WalkOK
<1>3. ASSUME NEW f \in WalkFrags(w) PROVE f \notin PageFrags(stk)
  <2>1. PICK it \in Offered(w) : IsStyle(it) /\ it.frag = f
    BY <1>1, FromFrags DEF WalkFrags
  <2> QED BY <2>1 DEF Offer, Loose
<1>4. k \in Nat /\ k # 1
  BY DEF Tops
<1>5. Fits(stk, k, w)
  BY <1>3, <1>4 DEF Fits, KindOK
<1>6. Ids(Range(Line(w))) = {}
  BY <1>1, NoTokens
<1> QED BY <1>2, <1>5, <1>6, Placed

\* A line of a walk ends.
LEMMA LineEnded ==
  ASSUME NEW stk, NEW c, NEW H, NEW D, Good(stk, c, H, D), stk # <<>>,
         NEW w, w = stk[Len(stk)], ~IsModule(w), NEW R, NEW d, Returned(w, c, H, R, d),
         NEW w2 \in Walks, w2.kind = w.kind, w2.gated = w.gated,
         w2.done = R, w2.out = <<Newline>>, Offered(w2) \subseteq Offered(w),
         NEW stk2, Tops(stk, stk2, Len(stk), w2)
  PROVE  Good(stk2, d, H, D)
<1> DEFINE k == Len(stk)
<1>1. /\ stk \in Seq(Walks) /\ c \in Numberings /\ CountersOK(c)
      /\ k \in 1..Len(stk) /\ k \in Nat
      /\ WalkOK(w, c, H) /\ KindOK(w) /\ w \in Walks /\ w.gated \in BOOLEAN
      /\ c.about \in Nat /\ H \subseteq 1..c.about /\ D \subseteq 1..c.about
  <2>1. stk \in Seq(Walks) /\ c \in Numberings /\ CountersOK(c)
        /\ H \subseteq 1..c.about /\ D \subseteq 1..c.about
    BY DEF Good
  <2>2. k \in 1..Len(stk) /\ k \in Nat
    BY <2>1, EmptySeq, LenProperties
  <2>3. WalkOK(w, c, H) /\ KindOK(w)
    BY <2>2 DEF Good
  <2>4. w \in Walks /\ c.about \in Nat
    BY <2>1, <2>3, CountersType DEF WalkOK
  <2> QED BY <2>1, <2>2, <2>3, <2>4, WalkType
<1>2. /\ d \in Numberings /\ CountersOK(d) /\ Grows(c, d) /\ R \in Seq(AnyItem)
      /\ d.about \in Nat /\ c.about <= d.about
  <2>1. d \in Numberings /\ CountersOK(d) /\ Grows(c, d) /\ R \in Seq(AnyItem)
    BY DEF Returned
  <2> QED BY <2>1, CountersType DEF Grows
<1>3. H \subseteq 1..d.about /\ D \subseteq 1..d.about
  BY <1>1, <1>2
<1> DEFINE nl == <<Newline>>
<1>4. /\ nl \in Seq(AnyItem) /\ Range(nl) = {Newline} /\ Apart(nl, H)
      /\ Newline \in AnyItem /\ ItemOK(Newline, d) /\ Resolved(Newline)
      /\ ~IsStyle(Newline) /\ Newline.about = 0
  BY <1>2, NewlineOK, OneToken
<1>5. Ids({Newline}) = {} /\ Frags({Newline}) = {}
  BY <1>4 DEF Ids, Frags
<1>6. Line(w2) = R \o nl
  BY DEF Line
<1> HIDE DEF nl, k
<1>7. Range(Line(w2)) = Range(R) \union {Newline}
  BY <1>2, <1>4, <1>6, RangeConcatenation
<1>8. Ids(Range(Line(w2))) = Ids(Range(R)) /\ Frags(Range(Line(w2))) = Frags(Range(R))
  <2>1. /\ Ids(Range(R) \union {Newline}) = Ids(Range(R)) \union Ids({Newline})
        /\ Frags(Range(R) \union {Newline}) = Frags(Range(R)) \union Frags({Newline})
    BY IdsOfUnion
  <2> QED BY <1>5, <1>7, <2>1
<1>9. \A it \in Offered(w) : ItemOK(it, d)
  <2>1. H \subseteq H
    OBVIOUS
  <2>2. WalkOK(w, d, H)
    BY <1>1, <1>2, <2>1, WalkStays
  <2> QED BY <2>2 DEF WalkOK
<1>10. WalkOK(w2, d, H)
  <2>1. \A it \in Offered(w2) \union Range(Line(w2)) : ItemOK(it, d)
    BY <1>4, <1>7, <1>9 DEF Returned
  <2>2. \A it \in Range(Line(w2)) : Resolved(it)
    BY <1>4, <1>7 DEF Returned
  <2>3. Ids(Offered(w2)) \subseteq H
    <3>1. Ids(Offered(w)) \subseteq H
      BY <1>1 DEF WalkOK
    <3>2. Ids(Offered(w2)) \subseteq Ids(Offered(w))
      BY DEF Ids
    <3> QED BY <3>1, <3>2
  <2>4. w2.gated => Ids(Range(Line(w2))) \subseteq H
    BY <1>8 DEF Returned
  <2>5. ~w2.gated => \A it \in Range(w2.done) : NumberedIn(it, d)
    BY DEF Returned
  <2>6. ~w2.gated => Apart(Line(w2), H)
    <3> SUFFICES ASSUME ~w2.gated PROVE Apart(R \o nl, H)
      BY <1>6
    <3>1. Apart(R, H)
      BY DEF Returned
    <3>2. Ids(Range(nl)) = {}
      BY <1>4, <1>5
    <3> QED BY <1>2, <1>4, <3>1, <3>2, ConcatApart
  <2> QED BY <2>1, <2>2, <2>3, <2>4, <2>5, <2>6 DEF WalkOK
<1>11. Fits(stk, k, w2)
  <2>1. /\ IsPage(w2) <=> IsPage(w)
        /\ IsModule(w2) <=> IsModule(w)
        /\ IsValue(w2) <=> IsValue(w)
        /\ OfModule(w2) <=> OfModule(w)
    BY SameKind
  <2>2. KindOK(w2)
    BY <1>1, <2>1 DEF KindOK
  <2>3. IsPage(w2) <=> k = 1
    BY <1>1, <2>1 DEF Good, k
  <2>4. ASSUME k = 1 PROVE PageOK(w2)
    <3>1. PageOK(w)
      BY <1>1, <2>4 DEF Good, k
    <3>2. OneEach(R)
      BY <3>1 DEF PageOK, Returned
    <3>3. Frags(Range(w2.out)) = {}
      BY <1>4, <1>5 DEF nl
    <3> QED BY <3>1, <3>2, <3>3 DEF PageOK
  <2>5. ASSUME k >= 2 PROVE OnTop(w2, stk[k - 1]) /\ WalkFrags(w2) \intersect PageFrags(stk) = {}
    <3>1. k \in 2..Len(stk)
      BY <1>1, <2>5
    <3>2. OnTop(w, stk[k - 1]) /\ WalkFrags(w) \intersect PageFrags(stk) = {}
      BY <3>1 DEF Good, k
    <3>3. OnTop(w2, stk[k - 1])
      BY <2>1, <3>2 DEF OnTop
    <3>4. ASSUME NEW f \in WalkFrags(w2) PROVE f \notin PageFrags(stk)
      <4>1. PICK it \in Offered(w2) \union Range(Line(w2)) : IsStyle(it) /\ it.frag = f
        BY FromFrags DEF WalkFrags
      <4>2. CASE it \in Offered(w)
        BY <3>2, <4>1, <4>2, InIds DEF WalkFrags
      <4>3. CASE it \in Range(Line(w2))
        <5>1. f \in Frags(Range(R))
          BY <1>8, <4>1, <4>3, InIds
        <5>2. f \in Frags(Range(Line(w))) => f \in WalkFrags(w)
          <6>1. WalkFrags(w) = Frags(Offered(w)) \union Frags(Range(Line(w)))
            BY IdsOfUnion DEF WalkFrags
          <6> QED BY <6>1
        <5>3. f \in Frags(Range(Line(w))) \/ f >= c.next
          BY <5>1 DEF Returned
        <5>4. f \in PageFrags(stk) => f \in Nat /\ c.next \in Nat /\ f < c.next
          BY PageFragsOld
        <5>5. ~(f \in Nat /\ c.next \in Nat /\ f < c.next /\ f >= c.next)
          OBVIOUS
        <5> QED BY <3>2, <5>2, <5>3, <5>4, <5>5
      <4> QED BY <4>1, <4>2, <4>3
    <3> QED BY <3>3, <3>4
  <2> QED BY <2>2, <2>3, <2>4, <2>5 DEF Fits
<1>12. ~w2.gated => \A id \in Ids(Range(Line(w2))) :
                        id \in H \/ id > c.about \/ id \in LineIds(stk, k)
  <2>1. ~stk[k].gated => Ids(Range(Line(stk[k]))) \subseteq LineIds(stk, k)
    BY <1>1, FromThere DEF k
  <2> QED BY <1>8, <2>1 DEF Returned, k
<1>13. ASSUME NEW id \in ShownIds(stk, k, c.fragments) \union ((c.about + 1)..d.about)
       PROVE  \/ id \in d.phantom \union D \union H
              \/ ~w2.gated /\ id \in IdsIn(Line(w2), d.fragments)
  <2>1. IdsIn(Line(w2), d.fragments) = IdsIn(R, d.fragments) \union IdsIn(nl, d.fragments)
    BY <1>2, <1>4, <1>6, IdsInConcat
  <2>2. ShownIds(stk, k + 1, c.fragments) = {}
    BY <1>1 DEF ShownIds, k
  <2>3. \/ ~w.gated /\ id \in IdsIn(Line(w), c.fragments)
        \/ id \in (c.about + 1)..d.about
    BY <1>1, <2>2, FromThere DEF k
  <2>4. CASE w.gated
    <3>1. d.about = c.about
      BY <2>4 DEF Returned
    <3> QED BY <1>1, <2>3, <2>4, <3>1
  <2>5. CASE ~w.gated
    BY <2>1, <2>3, <2>5 DEF Returned
  <2> QED BY <2>4, <2>5
<1>14. Tops(stk, stk2, k, w2)
  BY DEF k
<1> QED BY <1>1, <1>2, <1>3, <1>10, <1>11, <1>12, <1>13, <1>14, Placed
-----------------------------------------------------------------------------
(* The inductive invariant.  The page is done when the stack is empty.      *)

Now == Numbers(<<>>)

PageDone(pg, c, H, D) ==
    /\ pg \in Seq(AnyItem)
    /\ \A it \in Range(pg) : ItemOK(it, c) /\ Resolved(it) /\ NumberedIn(it, c)
    /\ Apart(pg, H) /\ OneEach(pg)
    /\ 1..c.about \subseteq IdsIn(pg, c.fragments) \union c.phantom \union D \union H

IInv ==
    /\ tokens \in 0..MaxTokens
    /\ Good(stack, Now, handed, discarded)
    /\ stack # <<>> => page = <<>>
    /\ stack = <<>> => PageDone(page, Now, handed, discarded)

\* The counters after a step.
LEMMA NowNext ==
  ASSUME NEW e, Counters(e) PROVE Now' = Reset(e)
  BY DEF Counters, Now, Numbers, Reset
LEMMA NowStays == ASSUME UNCHANGED counters PROVE Now' = Now
  BY DEF counters, Now, Numbers

\* Stacks made from another one.
LEMMA Cut ==
  ASSUME NEW stk \in Seq(Walks), NEW n \in 1..Len(stk)
  PROVE  /\ SubSeq(stk, 1, n) \in Seq(Walks) /\ Len(SubSeq(stk, 1, n)) = n
         /\ SubSeq(stk, 1, n)[n] = stk[n]
         /\ \A i \in 1..n : SubSeq(stk, 1, n)[i] = stk[i]
         /\ Tops(stk, SubSeq(stk, 1, n), n, stk[n])
         /\ SubSeq(stk, 1, Len(stk)) = stk
<1>1. Len(stk) \in Nat /\ n \in Nat /\ n >= 1 /\ n <= Len(stk)
  BY LenProperties
<1>2. \A i \in 1..n : stk[i] \in Walks
  BY <1>1, ElementOfSeq
<1> DEFINE m == SubSeq(stk, 1, n)
<1>3. /\ m \in Seq(Walks) /\ Len(m) = n - 1 + 1
      /\ \A i \in 1..(n - 1 + 1) : m[i] = stk[1 + i - 1]
  BY <1>1, <1>2, SubSeqProperties
<1> HIDE DEF m
<1>4. Len(m) = n /\ \A i \in 1..n : m[i] = stk[i]
  BY <1>1, <1>3
<1>5. Tops(stk, m, n, stk[n])
  BY <1>1, <1>3, <1>4 DEF Tops
<1>6. SubSeq(stk, 1, Len(stk)) = stk
  BY SubSeqFull
<1> QED BY <1>1, <1>3, <1>4, <1>5, <1>6 DEF m

\* A stack cut at n, with another walk there.
LEMMA CutUpdate ==
  ASSUME NEW stk \in Seq(Walks), NEW n \in 1..Len(stk), NEW w \in Walks
  PROVE  Tops(stk, [SubSeq(stk, 1, n) EXCEPT ![n] = w], n, w)
<1> DEFINE m == SubSeq(stk, 1, n)
<1>1. m \in Seq(Walks) /\ Len(m) = n /\ \A i \in 1..n : m[i] = stk[i]
  BY Cut
<1>2. Len(stk) \in Nat
  BY LenProperties
<1> HIDE DEF m
<1>3. /\ [m EXCEPT ![n] = w] \in Seq(Walks) /\ Len([m EXCEPT ![n] = w]) = n
      /\ \A j \in 1..n : [m EXCEPT ![n] = w][j] = IF j = n THEN w ELSE m[j]
  BY <1>1, <1>2, ExceptSeq
<1> QED BY <1>1, <1>2, <1>3 DEF Tops, m

\* A stack cut at n, with a walk on top.
LEMMA CutAppend ==
  ASSUME NEW stk \in Seq(Walks), NEW n \in 1..Len(stk), NEW w \in Walks
  PROVE  Tops(stk, Append(SubSeq(stk, 1, n), w), n + 1, w)
<1> DEFINE m == SubSeq(stk, 1, n)
<1>1. m \in Seq(Walks) /\ Len(m) = n /\ \A i \in 1..n : m[i] = stk[i]
  BY Cut
<1>2. Len(stk) \in Nat /\ n \in Nat /\ n <= Len(stk)
  BY LenProperties
<1> HIDE DEF m
<1>3. /\ Append(m, w) \in Seq(Walks) /\ Len(Append(m, w)) = n + 1
      /\ \A i \in 1..n : Append(m, w)[i] = m[i]
      /\ Append(m, w)[n + 1] = w
  BY <1>1, AppendProperties
<1>4. \A i \in 1..((n + 1) - 1) : i \in 1..n
  BY <1>2
<1> QED BY <1>1, <1>2, <1>3, <1>4 DEF Tops, m

\* The walk on top.
LEMMA TopOK ==
  ASSUME IInv, stack # <<>>
  PROVE  /\ stack \in Seq(Walks) /\ Len(stack) \in 1..Len(stack) /\ Len(stack) \in Nat
         /\ Now \in Numberings /\ CountersOK(Now) /\ Grows(Now, Now)
         /\ Top \in Walks /\ WalkOK(Top, Now, handed) /\ KindOK(Top)
         /\ handed \subseteq 1..Now.about /\ discarded \subseteq 1..Now.about
<1>1. /\ stack \in Seq(Walks) /\ Now \in Numberings /\ CountersOK(Now)
      /\ handed \subseteq 1..Now.about /\ discarded \subseteq 1..Now.about
  BY DEF IInv, Good
<1>2. Len(stack) \in 1..Len(stack) /\ Len(stack) \in Nat
  BY <1>1, EmptySeq, LenProperties
<1>3. WalkOK(Top, Now, handed) /\ KindOK(Top)
  BY <1>2 DEF IInv, Good, Top
<1> QED BY <1>1, <1>2, <1>3, GrowsReflexive DEF WalkOK

\* What a walk is offered may be offered again.
LEMMA OfferedOK ==
  ASSUME NEW stk, NEW c, NEW H, NEW D, Good(stk, c, H, D),
         NEW i \in 1..Len(stk), NEW it \in Offered(stk[i])
  PROVE  i # 1 /\ Offer(it, c, H, stk)
<1>1. WalkOK(stk[i], c, H) /\ Len(stk) \in Nat /\ stk # <<>>
  BY LenProperties, EmptySeq DEF Good
<1>2. ItemOK(it, c) /\ (it.about # 0 => it.about \in H)
  BY <1>1, InIds DEF WalkOK
<1>3. i # 1
  BY <1>1 DEF Good, PageOK
<1>4. WalkFrags(stk[i]) \intersect PageFrags(stk) = {}
  <2>1. i \in 2..Len(stk)
    BY <1>1, <1>3
  <2> QED BY <2>1 DEF Good
<1>5. IsStyle(it) => it.frag \in WalkFrags(stk[i])
  BY InIds DEF WalkFrags
<1> QED BY <1>2, <1>3, <1>4, <1>5 DEF Offer, Loose

\* So may a tag that is not resolved.
LEMMA TagOK ==
  ASSUME NEW stk, NEW c, NEW H, NEW D, Good(stk, c, H, D), stk # <<>>,
         NEW k \in Tags \union {"nl"}
  PROVE  Offer(Tag(k), c, H, stk) /\ Tag(k) \in AnyItem
<1> DEFINE it == Tag(k)
<1>1. it \in AnyItem /\ it.frag = 0 /\ it.about = 0
  BY DEF Tag, Item, AnyItem
<1>2. IsNewline(it) => it = Newline
  BY DEF IsNewline, Tag, Item, Newline
<1>3. c \in Numberings /\ CountersOK(c)
  BY DEF Good
<1>4. c.next \in Nat /\ c.next # 0 /\ c.about \in Nat
  BY <1>3, CountersType DEF CountersOK
<1> HIDE DEF it
<1>5. it.frag \notin DOMAIN c.fragments
  BY <1>1, <1>3, <1>4 DEF CountersOK
<1>6. it.frag < c.next /\ it.about <= c.about
  BY <1>1, <1>4
<1>7. ItemOK(it, c)
  BY <1>1, <1>2, <1>5, <1>6 DEF ItemOK, StyleOK, OtherOK
<1>8. it.frag \notin PageFrags(stk)
  BY <1>1, PageFragsOld
<1> QED BY <1>1, <1>7, <1>8 DEF Offer, Loose, it

\* A walk that ends returns what it should.
LEMMA EndedReturned ==
  ASSUME IInv, stack # <<>>
  PROVE  Returned(Top, Now, handed, Result, Reset(Ended))
<1>1. /\ Now \in Numberings /\ CountersOK(Now) /\ Top \in Walks /\ WalkOK(Top, Now, handed)
  BY TopOK
<1>2. CASE Top.gated
  <2>1. Ended = Numbers(Top.out)
    BY <1>2 DEF Ended
  <2>2. Result = Line(Top)
    BY <2>1 DEF Result, Line, Numbers
  <2>3. Reset(Ended) = Reset(Now)
    BY <2>1 DEF Reset, Numbers, Now
  <2> QED BY <1>1, <1>2, <2>2, <2>3, GatedReturned
<1>3. CASE ~Top.gated
  <2> DEFINE s == Top.out
  <2>1. Ended = number_chunk_extensions(s)
    BY <1>3 DEF Ended
  <2>2. ChunkOK(s, Now)
    <3>1. s \in Seq(AnyItem) /\ Range(s) \subseteq Range(Line(Top))
      BY <1>1, WalkType
    <3>2. \A j \in 1..Len(s) : s[j] \in Range(s)
      BY <3>1, InRange
    <3> QED BY <1>1, <3>1, <3>2 DEF ChunkOK, WalkOK
  <2>3. Progress(s, Now, Len(s), Ended)
    BY <1>1, <2>1, <2>2, ChunkProgress DEF Now
  <2> QED BY <1>1, <1>3, <2>3, ChunkReturned DEF Result
<1> QED BY <1>2, <1>3
-----------------------------------------------------------------------------
(* The token actions.  *)

\* Nothing is above the walk on top.
LEMMA NothingAbove ==
  ASSUME NEW stk \in Seq(Walks), NEW k, k > Len(stk), k \in Nat, NEW F
  PROVE  ShownIds(stk, k, F) = {} /\ LineIds(stk, k) = {}
<1>1. k..Len(stk) = {}
  BY LenProperties
<1> QED BY <1>1 DEF ShownIds, LineIds

\* The walk on top takes a token.
LEMMA EmitOK ==
  ASSUME IInv, stack # <<>>, ~IsModule(Top),
         NEW d \in Numberings, CountersOK(d), Grows(Now, d), d.about = Now.about,
         NEW rest \in Seq(AnyItem), Range(rest) \subseteq Offered(Top),
         NEW it, Offer(it, d, handed, stack), Resolved(it),
         NEW stk2, stk2 = [stack EXCEPT ![Len(stack)] =
                              [Top EXCEPT !.rest = rest, !.out = Append(@, it)]]
  PROVE  Good(stk2, d, handed, discarded)
<1> DEFINE L == Len(stack)
           w == stack[L]
           o == w.out
           w2 == [w EXCEPT !.rest = rest, !.out = Append(o, it)]
           s == <<it>>
<1>1. /\ stack \in Seq(Walks) /\ L \in 1..L /\ L \in Nat /\ Now \in Numberings
      /\ w \in Walks /\ handed \subseteq 1..Now.about /\ discarded \subseteq 1..Now.about
      /\ w = Top /\ Now.about \in Nat
  BY TopOK, CountersType DEF Top
<1>2. it \in AnyItem
  BY DEF Offer, Loose, ItemOK
<1>3. s \in Seq(AnyItem) /\ Range(s) = {it} /\ Apart(s, handed)
  BY <1>2, OneToken
<1>4. o \in Seq(AnyItem)
  BY <1>1, WalkType
<1> HIDE DEF o, s
<1>5. Append(o, it) \in Seq(AnyItem) /\ Append(o, it) = o \o s
  BY <1>2, <1>4, AppendProperties, AppendIsConcat DEF s
<1>6. /\ w2 \in Walks /\ w2.kind = w.kind /\ w2.gated = w.gated /\ w2.done = w.done
      /\ w2.rest = rest /\ w2.value = w.value /\ w2.held = w.held /\ w2.out = Append(o, it)
  <2> HIDE DEF w
  <2> QED BY <1>1, <1>5 DEF Walks
<1>7. stk2 = [SubSeq(stack, 1, L) EXCEPT ![L] = w2]
  <2>1. SubSeq(stack, 1, L) = stack
    BY <1>1, Cut
  <2>2. stk2 = [stack EXCEPT ![L] = w2]
    BY DEF o, Top
  <2> HIDE DEF w2, L
  <2> QED BY <2>1, <2>2, Zenon
<1> HIDE DEF w2
<1>18. L \in 1..Len(stack)
  BY <1>1
<1> HIDE DEF w, L
<1>8. Tops(stack, stk2, L, w2)
  BY ONLY <1>1, <1>6, <1>7, <1>18, CutUpdate
<1>9. w2.out = w.out \o s
  BY <1>5, <1>6 DEF o
<1>10. Offered(w2) \subseteq Offered(w)
  BY <1>1, <1>6 DEF Offered
<1>11. Ids(Range(s)) \subseteq handed
  <2>1. it.about # 0 => it.about \in handed
    BY DEF Offer
  <2> QED BY <1>3, <2>1 DEF Ids
<1>12. /\ ShownIds(stack, L + 1, Now.fragments) = {}
       /\ LineIds(stack, L + 1) = {}
  <2>1. L + 1 > Len(stack) /\ L + 1 \in Nat
    BY <1>1 DEF L
  <2> QED BY <1>1, <2>1, NothingAbove
<1>13. \A x \in Range(s) : Loose(x, d, stack) /\ Resolved(x)
  BY <1>3 DEF Offer
<1>14. (Now.about + 1)..d.about = {}
  BY <1>1
<1>15. handed \subseteq handed /\ discarded \subseteq discarded
       /\ handed \subseteq 1..d.about /\ discarded \subseteq 1..d.about
  BY <1>1
<1>16. Good(stack, Now, handed, discarded)
  BY DEF IInv
<1>17. w = stack[L]
  BY DEF w
<1>19. IsModule(w) => s = <<>>
  BY <1>1
<1>20. \A x \in Offered(w2) : x \in Offered(w) \/ (L # 1 /\ Offer(x, d, handed, stack))
  BY <1>10
<1>21. \A id \in Ids(Range(s)) :
          id \in handed \/ id > Now.about \/ id \in LineIds(stack, L + 1)
  BY <1>11
<1>22. \A id \in ShownIds(stack, L + 1, Now.fragments) \union ((Now.about + 1)..d.about) :
          \/ id \in d.phantom \union discarded \union handed
          \/ ~w.gated /\ id \in IdsIn(s, d.fragments)
  BY <1>12, <1>14
<1>23. d \in Numberings /\ CountersOK(d) /\ Grows(Now, d)
  OBVIOUS
<1>24. Growth(stack, Now, handed, discarded, d, handed, discarded, L, w, w2, stk2, s)
  BY ONLY <1>3, <1>6, <1>8, <1>9, <1>11, <1>13, <1>15, <1>16, <1>17, <1>18, <1>19, <1>20,
          <1>21, <1>22, <1>23 DEF Growth
<1> QED BY ONLY <1>24, Grown

\* A fragment is taken, for a stylesheet or for an indicator.
LEMMA TakeFragment ==
  ASSUME IInv, stack # <<>>, NEW d, NEW it, NEW kind, it = Item(kind, ext_next_id, 0),
         kind \in Tags, kind # "nl",
         d.about = Now.about, d.next = Now.next + 1, d.phantom = Now.phantom, d \in Numberings,
         \/ IsStyle(it) /\ d.pending = Now.pending \union {Now.next} /\ d.fragments = Now.fragments
         \/ ~IsStyle(it) /\ d.pending = Now.pending /\ d.fragments = With(Now.fragments, Now.next, 0)
  PROVE  CountersOK(d) /\ Grows(Now, d) /\ Offer(it, d, handed, stack) /\ Resolved(it)
<1> DEFINE c == Now
           f == c.next
<1>1. /\ c \in Numberings /\ CountersOK(c) /\ c.about \in Nat /\ f \in Nat /\ f # 0
      /\ c.fragments \in Fragments /\ c.pending \in SUBSET Nat
      /\ c.pending \union DOMAIN c.fragments = 1..(f - 1)
      /\ c.pending \intersect DOMAIN c.fragments = {}
      /\ \A g \in DOMAIN c.fragments : c.fragments[g] \in 0..c.about
      /\ \A g, h \in DOMAIN c.fragments :
           c.fragments[g] = c.fragments[h] /\ c.fragments[g] # 0 => g = h
      /\ c.phantom \subseteq 1..c.about
  <2>1. c \in Numberings /\ CountersOK(c)
    BY TopOK
  <2> HIDE DEF c
  <2> QED BY <2>1, CountersType DEF CountersOK
<1>2. it.frag = f /\ it.about = 0 /\ it \in AnyItem /\ ~IsNewline(it)
  <2>1. ext_next_id = f
    BY DEF Now, Numbers
  <2> HIDE DEF f, c
  <2> QED BY <1>1, <2>1 DEF Item, AnyItem, IsNewline
<1> HIDE DEF c
<1>3. f \notin c.pending /\ f \notin DOMAIN c.fragments
  <2>1. f \notin 1..(f - 1)
    BY <1>1
  <2> QED BY <1>1, <2>1
<1>4. 1..(f + 1 - 1) = 1..(f - 1) \union {f}
  BY <1>1
<1>5. f \notin PageFrags(stack)
  <2>1. \A g \in PageFrags(stack) : g \in Nat /\ g < f
    BY PageFragsOld DEF IInv, c
  <2> QED BY <1>1, <2>1
<1>6. CASE IsStyle(it) /\ d.pending = c.pending \union {f} /\ d.fragments = c.fragments
  <2>1. CountersOK(d)
    BY <1>1, <1>3, <1>4, <1>6 DEF CountersOK, c
  <2>2. Grows(c, d)
    BY <1>1, <1>6 DEF Grows, c
  <2>3. ItemOK(it, d)
    BY <1>1, <1>2, <1>3, <1>6 DEF ItemOK, StyleOK, c
  <2> QED BY <1>1, <1>2, <1>5, <2>1, <2>2, <2>3 DEF Offer, Loose, Resolved, c
<1>7. CASE ~IsStyle(it) /\ d.pending = c.pending /\ d.fragments = With(c.fragments, f, 0)
  <2>1. /\ DOMAIN d.fragments = DOMAIN c.fragments \union {f}
        /\ d.fragments[f] = 0
        /\ \A z \in DOMAIN c.fragments : z # f => d.fragments[z] = c.fragments[z]
    <3> DEFINE F == c.fragments
    <3>1. 0 \in Nat /\ F \in Fragments /\ f \in Nat
      BY <1>1
    <3> HIDE DEF f, F
    <3>2. /\ DOMAIN With(F, f, 0) = DOMAIN F \union {f}
          /\ With(F, f, 0)[f] = 0
          /\ \A z \in DOMAIN F : z # f => With(F, f, 0)[z] = F[z]
      BY ONLY <3>1, WithType
    <3>3. d.fragments = With(F, f, 0)
      BY <1>7 DEF F
    <3> QED BY <3>2, <3>3 DEF F
  <2>2. \A z \in DOMAIN c.fragments : d.fragments[z] = c.fragments[z]
    BY <1>3, <2>1
  <2> HIDE DEF f
  <2>6. d.next = f + 1 /\ d.about = c.about /\ d.phantom = c.phantom
    BY DEF f, c
  <2>3. CountersOK(d)
    <3>1. d.pending \union DOMAIN d.fragments = 1..(d.next - 1) /\ d.next # 0
      BY <1>1, <1>4, <1>7, <2>1, <2>6
    <3>2. d.pending \intersect DOMAIN d.fragments = {}
      BY <1>1, <1>3, <1>7, <2>1
    <3>3. \A g \in DOMAIN d.fragments : d.fragments[g] \in 0..d.about
      BY <1>1, <2>1, <2>2, <2>6
    <3>4. \A g, h \in DOMAIN d.fragments :
            d.fragments[g] = d.fragments[h] /\ d.fragments[g] # 0 => g = h
      BY <1>1, <2>1, <2>2
    <3> QED BY <1>1, <2>6, <3>1, <3>2, <3>3, <3>4 DEF CountersOK
  <2>4. Grows(c, d)
    <3>1. c.about <= d.about /\ c.next <= d.next /\ c.phantom \subseteq d.phantom
      BY <1>1, <2>6 DEF f
    <3>2. \A z \in DOMAIN d.fragments \ DOMAIN c.fragments : d.fragments[z] = 0
      BY <2>1
    <3>3. c.pending \ d.pending = {}
      BY <1>7
    <3> QED BY <2>1, <2>2, <3>1, <3>2, <3>3 DEF Grows
  <2>5. ItemOK(it, d)
    <3>1. \A g \in DOMAIN d.fragments : it.about # 0 => d.fragments[g] # it.about
      BY <1>2
    <3>2. it.frag < d.next /\ it.about <= d.about
      BY <1>1, <1>2, <2>6 DEF f
    <3> QED BY <1>2, <1>7, <3>1, <3>2 DEF ItemOK, OtherOK
  <2> QED BY <1>2, <1>5, <1>7, <2>3, <2>4, <2>5 DEF Offer, Loose, Resolved, c
<1> QED BY <1>6, <1>7 DEF c

\* The end of a line.
LEMMA EndOfLineOK ==
  ASSUME IInv, stack # <<>>, ~IsModule(Top), NEW rest \in Seq(AnyItem),
         Range(rest) \subseteq Offered(Top), EndOfLine(rest)
  PROVE  Good(stack', Now', handed, discarded)
<1> DEFINE L == Len(stack)
           w == stack[L]
           R == Result
           nl == <<Newline>>
           w2 == [w EXCEPT !.rest = rest, !.out = nl, !.done = R]
           d == Reset(Ended)
<1>1. /\ stack \in Seq(Walks) /\ L \in 1..Len(stack) /\ L \in Nat /\ Now \in Numberings
      /\ w \in Walks /\ w = Top /\ Good(stack, Now, handed, discarded)
  BY TopOK DEF Top, IInv
<1>2. Returned(Top, Now, handed, R, d)
  BY EndedReturned
<1>3. Now' = d
  BY NowNext DEF EndOfLine
<1>4. stack' = [SubSeq(stack, 1, L) EXCEPT ![L] = w2]
  <2>1. SubSeq(stack, 1, L) = stack
    BY <1>1, Cut
  <2>2. stack' = [stack EXCEPT ![L] = w2]
    BY DEF EndOfLine, Top
  <2> HIDE DEF w2, L
  <2> QED BY <2>1, <2>2, Zenon
<1>5. R \in Seq(AnyItem) /\ d \in Numberings /\ CountersOK(d)
  <2> HIDE DEF R, d
  <2> QED BY <1>2 DEF Returned
<1> HIDE DEF R, d, nl
<1>6. nl \in Seq(AnyItem)
  <2>1. Newline \in AnyItem
    BY <1>5, NewlineOK
  <2> QED BY <2>1, OneToken DEF nl
<1>7. /\ w2 \in Walks /\ w2.kind = w.kind /\ w2.gated = w.gated /\ w2.done = R
      /\ w2.rest = rest /\ w2.value = w.value /\ w2.held = w.held /\ w2.out = nl
  <2> HIDE DEF w
  <2> QED BY <1>1, <1>5, <1>6 DEF Walks
<1> HIDE DEF w2
<1> HIDE DEF w, L
<1>8. Tops(stack, stack', L, w2)
  BY ONLY <1>1, <1>4, <1>7, CutUpdate
<1>9. Offered(w2) \subseteq Offered(w)
  BY <1>1, <1>7 DEF Offered
<1>10. Good(stack', d, handed, discarded)
  <2>1. w = stack[Len(stack)] /\ L = Len(stack) /\ w2.out = <<Newline>>
    BY <1>7 DEF w, L, nl
  <2>2. Returned(w, Now, handed, R, d) /\ ~IsModule(w) /\ stack # <<>>
    BY <1>1, <1>2
  <2>3. Tops(stack, stack', Len(stack), w2)
    BY <1>8, <2>1
  <2> QED BY ONLY <1>1, <1>7, <1>9, <2>1, <2>2, <2>3, LineEnded
<1> QED BY <1>3, <1>10

\* A token, written or offered.
LEMMA TokenOK ==
  ASSUME IInv, Walking, NEW rest \in Seq(AnyItem), Range(rest) \subseteq Offered(Top),
         NEW it \in AnyItem, Offer(it, Now, handed, stack), Token(rest, it)
  PROVE  Good(stack', Now', handed, discarded)
<1>1. stack # <<>> /\ ~IsModule(Top)
  BY Zenon DEF Walking, IsModule
<1>2. Now \in Numberings /\ CountersOK(Now) /\ Grows(Now, Now)
  BY <1>1, TopOK
<1> DEFINE d == Now'
<1>3. CASE EndOfLine(rest)
  BY <1>1, <1>3, EndOfLineOK
<1>4. ASSUME NEW x, Emit(rest, x), d \in Numberings, CountersOK(d), Grows(Now, d),
             d.about = Now.about, Offer(x, d, handed, stack), Resolved(x)
      PROVE  Good(stack', d, handed, discarded)
  <2>1. stack' = [stack EXCEPT ![Len(stack)] =
                     [Top EXCEPT !.rest = rest, !.out = Append(@, x)]]
    BY <1>4 DEF Emit
  <2> HIDE DEF d
  <2> QED BY <1>1, <1>4, <2>1, EmitOK
<1>5. CASE Emit(rest, it) /\ UNCHANGED counters /\ Resolved(it)
  <2>1. d = Now
    BY <1>5, NowStays
  <2> QED BY <1>2, <1>4, <1>5, <2>1
<1>6. CASE it = Tag("style") /\ expand_one_templatestyles(rest)
  <2> DEFINE x == Item("style", ext_next_id, 0)
  <2>1. "style" \in Tags /\ IsStyle(x)
    BY <1>6 DEF Tag, Item, AnyItem, IsStyle
  <2>2. /\ d.about = Now.about /\ d.next = Now.next + 1 /\ d.phantom = Now.phantom
        /\ d.pending = Now.pending \union {Now.next} /\ d.fragments = Now.fragments
        /\ d.items = <<>> /\ d.seen = {}
    BY <1>6 DEF expand_one_templatestyles, Now, Numbers
  <2>3. d \in Numberings
    <3>1. /\ Now.about \in Nat /\ Now.next \in Nat /\ Now.next + 1 \in Nat
          /\ Now.phantom \in SUBSET Nat /\ Now.pending \in SUBSET Nat /\ Now.fragments \in Fragments
      BY <1>2, CountersType
    <3>2. <<>> \in Seq(AnyItem)
      BY NoTokens
    <3>3. d = [items |-> <<>>, about |-> Now.about, next |-> Now.next + 1,
               pending |-> Now.pending \union {Now.next}, fragments |-> Now.fragments,
               phantom |-> Now.phantom, seen |-> {}]
      BY <1>6 DEF expand_one_templatestyles, Now, Numbers
    <3> HIDE DEF d
    <3> QED BY <3>1, <3>2, <3>3 DEF Numberings
  <2>4. Emit(rest, x)
    BY <1>6 DEF expand_one_templatestyles
  <2>6. "style" # "nl"
    OBVIOUS
  <2> HIDE DEF d
  <2>5. CountersOK(d) /\ Grows(Now, d) /\ Offer(x, d, handed, stack) /\ Resolved(x)
    BY <1>1, <2>1, <2>2, <2>3, <2>6, TakeFragment
  <2> QED BY <1>4, <2>2, <2>3, <2>4, <2>5 DEF d
<1>7. CASE it = Tag("indicator") /\ expand_one_indicator(rest)
  <2> DEFINE x == Item("indicator", ext_next_id, 0)
  <2>1. "indicator" \in Tags /\ ~IsStyle(x)
    BY <1>7 DEF Tag, Item, AnyItem, IsStyle
  <2>2. /\ d.about = Now.about /\ d.next = Now.next + 1 /\ d.phantom = Now.phantom
        /\ d.pending = Now.pending /\ d.fragments = With(Now.fragments, Now.next, 0)
        /\ d.items = <<>> /\ d.seen = {}
    BY <1>7 DEF expand_one_indicator, Now, Numbers
  <2>3. d \in Numberings
    <3>1. /\ Now.about \in Nat /\ Now.next \in Nat /\ Now.next + 1 \in Nat /\ 0 \in Nat
          /\ Now.phantom \in SUBSET Nat /\ Now.pending \in SUBSET Nat /\ Now.fragments \in Fragments
      BY <1>2, CountersType
    <3>2. <<>> \in Seq(AnyItem)
      BY NoTokens
    <3>4. With(Now.fragments, Now.next, 0) \in Fragments
      BY <3>1, WithType
    <3>3. d = [items |-> <<>>, about |-> Now.about, next |-> Now.next + 1,
               pending |-> Now.pending, fragments |-> With(Now.fragments, Now.next, 0),
               phantom |-> Now.phantom, seen |-> {}]
      BY <1>7 DEF expand_one_indicator, Now, Numbers
    <3> HIDE DEF d
    <3> QED BY <3>1, <3>2, <3>3, <3>4 DEF Numberings
  <2>4. Emit(rest, x)
    BY <1>7 DEF expand_one_indicator
  <2>6. "indicator" # "nl"
    OBVIOUS
  <2> HIDE DEF d
  <2>5. CountersOK(d) /\ Grows(Now, d) /\ Offer(x, d, handed, stack) /\ Resolved(x)
    BY <1>1, <2>1, <2>2, <2>3, <2>6, TakeFragment
  <2> QED BY <1>4, <2>2, <2>3, <2>4, <2>5 DEF d
<1>8. IsPlaceholder(it) \/ it.kind \in {"ref", "pre"} => Resolved(it)
  BY DEF IsPlaceholder, Resolved, IsStyle
<1> QED BY <1>3, <1>5, <1>6, <1>7, <1>8 DEF Token

Ghosts == handed' = handed /\ discarded' = discarded

\* A token of the text, or one that was spliced in.
LEMMA WrittenOK ==
  ASSUME IInv, NEW k \in Tags \union {"nl"}, Written(Tag(k))
  PROVE  Good(stack', Now', handed, discarded) /\ Ghosts
<1>1. Walking /\ Token(<<>>, Tag(k)) /\ Ghosts /\ stack # <<>>
  BY DEF Written, Ready, Walking, ghosts, Ghosts
<1>2. Tag(k) \in AnyItem /\ Offer(Tag(k), Now, handed, stack)
  BY <1>1, TagOK DEF IInv
<1>3. <<>> \in Seq(AnyItem) /\ Range(<<>>) \subseteq Offered(Top)
  BY NoTokens
<1> QED BY <1>1, <1>2, <1>3, TokenOK

\* A token that was spliced in is read.
LEMMA AgainOK ==
  ASSUME IInv, Again PROVE Good(stack', Now', handed, discarded) /\ Ghosts
<1> DEFINE r == Top.rest
<1>1. /\ Walking /\ r # <<>> /\ Token(Tail(r), Head(r)) /\ Ghosts /\ stack # <<>>
  BY DEF Again, Walking, ghosts, Ghosts
<1>2. /\ Top \in Walks /\ Len(stack) \in 1..Len(stack) /\ r \in Seq(AnyItem)
      /\ Range(r) \subseteq Offered(Top)
  BY <1>1, TopOK, WalkType DEF Offered
<1> HIDE DEF r
<1>3. /\ Len(r) \in Nat /\ Len(r) # 0
      /\ Tail(r) \in Seq(AnyItem) /\ Len(Tail(r)) = Len(r) - 1
      /\ \A i \in 1 .. Len(Tail(r)) : Tail(r)[i] = r[i + 1]
      /\ Head(r) = r[1]
  BY <1>1, <1>2, HeadTailProperties, EmptySeq, LenProperties
<1>4. \A j \in 1..Len(r) : r[j] \in Range(r) /\ r[j] \in AnyItem
  BY <1>2, InRange
<1>5. Head(r) \in Range(r) /\ Head(r) \in AnyItem
  BY <1>3, <1>4
<1>6. Range(Tail(r)) \subseteq Range(r)
  <2>1. \A x \in Range(Tail(r)) : \E j \in 1..Len(Tail(r)) : Tail(r)[j] = x
    BY <1>3, InRange
  <2>2. \A j \in 1..Len(Tail(r)) : j + 1 \in 1..Len(r)
    BY <1>3
  <2> QED BY <1>3, <1>4, <2>1, <2>2
<1>7. Offer(Head(r), Now, handed, stack)
  BY <1>2, <1>5, OfferedOK DEF IInv, Top
<1> QED BY <1>1, <1>2, <1>3, <1>5, <1>6, <1>7, TokenOK

\* What is left to read changes.
LEMMA RestOK ==
  ASSUME IInv, stack # <<>>, NEW rest \in Seq(AnyItem), Range(rest) \subseteq Offered(Top),
         stack' = Update("rest", rest)
  PROVE  Good(stack', Now, handed, discarded)
<1> DEFINE L == Len(stack)
           w == stack[L]
           w2 == [w EXCEPT !.rest = rest]
<1>1. /\ stack \in Seq(Walks) /\ L \in 1..Len(stack) /\ L \in Nat
      /\ w \in Walks /\ w = Top /\ Now.about \in Nat
      /\ Now \in Numberings /\ CountersOK(Now) /\ Grows(Now, Now)
      /\ handed \subseteq 1..Now.about /\ discarded \subseteq 1..Now.about
  BY TopOK, CountersType DEF Top
<1>2. stack' = [SubSeq(stack, 1, L) EXCEPT ![L] = w2]
  <2>1. SubSeq(stack, 1, L) = stack
    BY <1>1, Cut
  <2>2. stack' = [stack EXCEPT ![L] = w2]
    BY Zenon DEF Update
  <2> HIDE DEF w2, L
  <2> QED BY <2>1, <2>2, Zenon
<1>3. /\ w2 \in Walks /\ w2.kind = w.kind /\ w2.gated = w.gated /\ w2.done = w.done
      /\ w2.rest = rest /\ w2.value = w.value /\ w2.held = w.held /\ w2.out = w.out
  <2> HIDE DEF w
  <2> QED BY <1>1 DEF Walks
<1> HIDE DEF w2
<1>5. w = stack[L] /\ Len(stack) = L
  OBVIOUS
<1>6. Offered(w2) \subseteq Offered(w)
  BY <1>1, <1>3 DEF Offered
<1>7. /\ ShownIds(stack, L + 1, Now.fragments) = {}
      /\ LineIds(stack, L + 1) = {}
  <2>1. L + 1 > Len(stack) /\ L + 1 \in Nat
    BY <1>1
  <2> QED BY <1>1, <2>1, NothingAbove
<1> HIDE DEF w, L
<1>8. Tops(stack, stack', L, w2)
  BY ONLY <1>1, <1>2, <1>3, CutUpdate
<1>9. \A x \in Offered(w2) : x \in Offered(w) \/ (L # 1 /\ Offer(x, Now, handed, stack))
  BY <1>6
<1>11. (Now.about + 1)..Now.about = {}
  BY <1>1
<1>12. Good(stack, Now, handed, discarded)
       /\ handed \subseteq handed /\ discarded \subseteq discarded
  BY DEF IInv
<1>13. \A id \in ShownIds(stack, L + 1, Now.fragments) \union ((Now.about + 1)..Now.about) :
         id \in Now.phantom \union discarded \union handed
  BY <1>7, <1>11
<1>14. /\ Now \in Numberings /\ CountersOK(Now) /\ Grows(Now, Now)
       /\ handed \subseteq 1..Now.about /\ discarded \subseteq 1..Now.about
       /\ L \in 1..Len(stack) /\ w = stack[L]
       /\ w2 \in Walks /\ w2.kind = w.kind /\ w2.gated = w.gated /\ w2.done = w.done
       /\ w2.out = w.out
  BY ONLY <1>1, <1>3, <1>5
<1> QED BY ONLY <1>8, <1>9, <1>12, <1>13, <1>14, Kept

\* The parameter is used.
LEMMA ParameterOK ==
  ASSUME IInv, Parameter PROVE Good(stack', Now', handed, discarded) /\ Ghosts
<1>1. /\ stack # <<>> /\ stack' = Update("rest", Top.value) /\ Now' = Now /\ Ghosts
  BY NowStays DEF Parameter, Ready, Walking, ghosts, Ghosts
<1>2. Top.value \in Seq(AnyItem) /\ Range(Top.value) \subseteq Offered(Top)
  BY <1>1, TopOK, WalkType DEF Offered
<1> QED BY <1>1, <1>2, RestOK

\* A strip marker is read.
LEMMA MarkerOK ==
  ASSUME IInv, Marker PROVE Good(stack', Now', handed, discarded) /\ Ghosts
<1>1. PICK it \in Top.held : stack' = Update("rest", <<it>>)
  BY DEF Marker
<1>2. stack # <<>> /\ Now' = Now /\ Ghosts
  BY NowStays DEF Marker, Ready, Walking, ghosts, Ghosts
<1>3. it \in AnyItem
  BY <1>2, TopOK, WalkType
<1>4. <<it>> \in Seq(AnyItem) /\ Range(<<it>>) = {it}
  BY <1>3, OneToken
<1>5. Range(<<it>>) \subseteq Offered(Top)
  BY <1>4 DEF Offered
<1> QED BY <1>1, <1>2, <1>4, <1>5, RestOK
-----------------------------------------------------------------------------
(* The actions that enter a walk. *)

\* A walk that is entered has nothing yet.
LEMMA NewWalk ==
  ASSUME NEW kind \in Kinds, NEW gated \in BOOLEAN, NEW v \in Seq(AnyItem),
         NEW h \in SUBSET AnyItem
  PROVE  LET w == Walk(kind, gated, v, h) IN
         /\ w \in Walks /\ w.kind = kind /\ w.gated = gated
         /\ w.done = <<>> /\ w.out = <<>> /\ Offered(w) = Range(v) \union h
<1> DEFINE e == <<>>
           w == [kind |-> kind, gated |-> gated, rest |-> e, out |-> e,
                 done |-> e, value |-> v, held |-> h]
<1>1. e \in Seq(AnyItem) /\ Range(e) = {}
  BY NoTokens
<1>2. w = Walk(kind, gated, v, h)
  BY DEF Walk
<1>3. /\ w.kind = kind /\ w.gated = gated /\ w.done = e /\ w.out = e
      /\ w.rest = e /\ w.value = v /\ w.held = h
  OBVIOUS
<1> HIDE DEF e
<1>4. w \in Walks
  BY <1>1 DEF Walks
<1> HIDE DEF w
<1>5. Offered(w) = Range(v) \union h
  BY <1>1, <1>3 DEF Offered
<1> QED BY <1>2, <1>3, <1>4, <1>5 DEF e

\* A walk is entered in the course of the one on top.
LEMMA EnterOK ==
  ASSUME IInv, stack # <<>>, NEW kind \in Kinds, NEW gated \in BOOLEAN,
         NEW v \in Seq(AnyItem), NEW h \in SUBSET AnyItem,
         NEW w, w = Walk(kind, gated, v, h), Enter(w),
         \A it \in Range(v) \union h : Offer(it, Now, handed, stack),
         ~IsPage(w), IsValue(w) => w.gated, OnTop(w, Top)
  PROVE  Good(stack', Now, handed, discarded)
<1> DEFINE L == Len(stack)
           k == L + 1
<1>1. /\ stack \in Seq(Walks) /\ L \in 1..Len(stack) /\ L \in Nat /\ Now.about \in Nat
      /\ Now \in Numberings /\ CountersOK(Now) /\ Grows(Now, Now)
      /\ handed \subseteq 1..Now.about /\ discarded \subseteq 1..Now.about
  BY TopOK, CountersType
<1>2. /\ w \in Walks /\ w.done = <<>> /\ w.out = <<>> /\ Offered(w) = Range(v) \union h
  BY NewWalk
<1>3. stack' = Append(SubSeq(stack, 1, L), w)
  <2>1. SubSeq(stack, 1, L) = stack
    BY <1>1, Cut
  <2> QED BY <2>1 DEF Enter
<1>4. k >= 2 /\ k \in Nat /\ k - 1 = L /\ k > Len(stack) /\ stack[L] = Top
  BY <1>1 DEF Top
<1>5. ShownIds(stack, k, Now.fragments) = {}
  BY <1>1, <1>4, NothingAbove
<1>6. (Now.about + 1)..Now.about = {}
  BY <1>1
<1>7. Good(stack, Now, handed, discarded)
      /\ handed \subseteq handed /\ discarded \subseteq discarded
  BY DEF IInv
<1>8. \A it \in Offered(w) : Offer(it, Now, handed, stack)
  BY <1>2
<1>9. OnTop(w, stack[k - 1])
  BY <1>4
<1> HIDE DEF L
<1>10. Tops(stack, stack', k, w)
  BY ONLY <1>1, <1>2, <1>3, CutAppend
<1>11. \A id \in ShownIds(stack, k, Now.fragments) \union ((Now.about + 1)..Now.about) :
          id \in Now.phantom \union discarded \union handed
  BY <1>5, <1>6
<1> HIDE DEF k
<1>12. stack # <<>> /\ ~IsPage(w) /\ (IsValue(w) => w.gated)
  OBVIOUS
<1> QED
  BY ONLY <1>1, <1>2, <1>4, <1>7, <1>8, <1>9, <1>10, <1>11, <1>12, Entered

\* What the walk on top is offered, and the walk below it.
LEMMA TopOffers ==
  ASSUME IInv, stack # <<>>
  PROVE  /\ Top.value \in Seq(AnyItem) /\ Top.held \in SUBSET AnyItem /\ Top.gated \in BOOLEAN
         /\ \A it \in Range(Top.value) \union Top.held : Offer(it, Now, handed, stack)
<1>1. Top \in Walks /\ Len(stack) \in 1..Len(stack)
  BY TopOK
<1>2. \A it \in Offered(Top) : Offer(it, Now, handed, stack)
  BY <1>1, OfferedOK DEF IInv, Top
<1> QED BY <1>1, <1>2, WalkType DEF Offered

\* The walk below the one on top, and what it is offered.
LEMMA BelowOffers ==
  ASSUME IInv, stack # <<>>, ~IsPage(Top)
  PROVE  LET B == Below[Len(Below)] IN
         /\ Len(stack) >= 2 /\ Len(Below) = Len(stack) - 1 /\ Len(stack) - 1 \in 1..Len(stack)
         /\ B = stack[Len(stack) - 1] /\ B \in Walks /\ WalkOK(B, Now, handed)
         /\ OnTop(Top, B)
         /\ \A it \in Offered(B) : Offer(it, Now, handed, stack)
         /\ B.gated \in BOOLEAN /\ B.held \in SUBSET AnyItem
<1> DEFINE L == Len(stack)
           B == Below[Len(Below)]
           n == L - 1
<1>1. stack \in Seq(Walks) /\ L \in 1..Len(stack) /\ L \in Nat
  BY TopOK
<1>2. L # 1
  BY <1>1 DEF IInv, Good, Top
<1>3. L >= 2 /\ n \in 1..Len(stack) /\ L \in 2..Len(stack)
  BY <1>1, <1>2
<1>4. Len(Below) = n /\ B = stack[n]
  <2>1. Below = SubSeq(stack, 1, n)
    BY DEF Below
  <2> HIDE DEF n
  <2> QED BY <1>1, <1>3, <2>1, Cut
<1>5. WalkOK(stack[n], Now, handed) /\ OnTop(Top, stack[n])
  BY <1>3 DEF IInv, Good, Top
<1>6. \A it \in Offered(stack[n]) : Offer(it, Now, handed, stack)
  BY <1>3, OfferedOK DEF IInv
<1>7. stack[n] \in Walks
  BY <1>5 DEF WalkOK
<1> HIDE DEF n
<1>8. stack[n].gated \in BOOLEAN /\ stack[n].held \in SUBSET AnyItem
  BY <1>7, WalkType
<1> HIDE DEF B
<1>9. /\ L >= 2 /\ Len(Below) = n /\ n \in 1..Len(stack)
      /\ B = stack[n] /\ B \in Walks /\ WalkOK(B, Now, handed)
      /\ OnTop(Top, B)
      /\ \A it \in Offered(B) : Offer(it, Now, handed, stack)
      /\ B.gated \in BOOLEAN /\ B.held \in SUBSET AnyItem
  BY <1>3, <1>4, <1>5, <1>6, <1>7, <1>8
<1> QED BY <1>9 DEF n, B

\* A walk of the text, and one of what is a module's.
LEMMA KindFits ==
  ASSUME NEW w, NEW t
  PROVE  /\ w.kind \in {"body", "branch", "field", "module"} =>
               ~IsPage(w) /\ ~IsValue(w) /\ ~OfModule(w)
         /\ w.kind = "value" => ~IsPage(w) /\ IsValue(w) /\ ~OfModule(w)
         /\ w.kind \in {"argument", "answer", "output"} =>
               ~IsPage(w) /\ ~IsValue(w) /\ OfModule(w)
         /\ ~IsModule(t) /\ ~OfModule(w) /\ (~w.gated => ~t.gated) => OnTop(w, t)
         /\ IsModule(t) /\ OfModule(w) /\ (~w.gated => ~t.gated) => OnTop(w, t)
<1>1. w.kind \in {"body", "branch", "field", "module"} =>
               ~IsPage(w) /\ ~IsValue(w) /\ ~OfModule(w)
  BY DEF IsPage, IsValue, OfModule
<1>2. w.kind = "value" => ~IsPage(w) /\ IsValue(w) /\ ~OfModule(w)
  BY DEF IsPage, IsValue, OfModule
<1>3. w.kind \in {"argument", "answer", "output"} =>
               ~IsPage(w) /\ ~IsValue(w) /\ OfModule(w)
  BY DEF IsPage, IsValue, OfModule
<1> QED BY <1>1, <1>2, <1>3 DEF OnTop

\* Of two kinds of walks, ones of the text and a module's own.
LEMMA EnterText ==
  ASSUME IInv, Walking, NEW kind \in {"body", "branch", "field", "module", "value"},
         NEW gated \in BOOLEAN, NEW v \in Seq(AnyItem), NEW h \in SUBSET AnyItem,
         Enter(Walk(kind, gated, v, h)),
         \A it \in Range(v) \union h : Offer(it, Now, handed, stack),
         kind = "value" => gated, ~gated => ~Top.gated
  PROVE  Good(stack', Now, handed, discarded)
<1>1. stack # <<>> /\ ~IsModule(Top)
  BY Zenon DEF Walking, IsModule
<1>2. kind \in Kinds
  BY DEF Kinds
<1> DEFINE w == Walk(kind, gated, v, h)
<1>3. w.kind = kind /\ w.gated = gated
  BY DEF Walk
<1> HIDE DEF w
<1>4. ~IsPage(w) /\ (IsValue(w) => w.gated) /\ ~OfModule(w)
  BY <1>3, KindFits
<1>5. OnTop(w, Top)
  BY <1>1, <1>3, <1>4, KindFits
<1> QED BY <1>1, <1>2, <1>4, <1>5, EnterOK DEF w

\* A module's walk: an argument of its, an answer to it or its text.
LEMMA EnterModules ==
  ASSUME IInv, In("module"), NEW kind \in {"argument", "answer", "output"},
         NEW gated \in BOOLEAN, NEW v \in Seq(AnyItem), NEW h \in SUBSET AnyItem,
         Enter(Walk(kind, gated, v, h)),
         \A it \in Range(v) \union h : Offer(it, Now, handed, stack),
         ~gated => ~Top.gated
  PROVE  Good(stack', Now, handed, discarded)
<1>1. stack # <<>> /\ IsModule(Top)
  BY Zenon DEF In, IsModule
<1>2. kind \in Kinds
  BY DEF Kinds
<1> DEFINE w == Walk(kind, gated, v, h)
<1>3. w.kind = kind /\ w.gated = gated
  BY DEF Walk
<1> HIDE DEF w
<1>4. ~IsPage(w) /\ ~IsValue(w) /\ OfModule(w)
  BY <1>3, KindFits
<1>5. OnTop(w, Top)
  BY <1>1, <1>3, <1>4, KindFits
<1> QED BY <1>1, <1>2, <1>4, <1>5, EnterOK DEF w

\* A template is called with a value that is written out.
LEMMA CallOK ==
  ASSUME IInv, Call PROVE Good(stack', Now', handed, discarded) /\ Ghosts
<1>1. /\ Walking /\ stack # <<>> /\ Now' = Now /\ Ghosts
  BY NowStays DEF Call, Ready, Walking, ghosts, Ghosts
<1>2. PICK v \in WrittenValues : Enter(Walk("body", Top.gated, v, {}))
  BY DEF Call
<1>3. v \in Seq(AnyItem) /\ \A it \in Range(v) : Offer(it, Now, handed, stack)
  <2>1. CASE v = <<>>
    BY <2>1, NoTokens
  <2>2. CASE \E k \in Tags : v = <<Tag(k)>>
    <3>1. PICK k \in Tags : v = <<Tag(k)>>
      BY <2>2
    <3>2. Tag(k) \in AnyItem /\ Offer(Tag(k), Now, handed, stack)
      BY <1>1, TagOK DEF IInv
    <3>3. <<Tag(k)>> \in Seq(AnyItem) /\ Range(<<Tag(k)>>) = {Tag(k)}
      BY <3>2, OneToken
    <3> QED BY <3>1, <3>2, <3>3
  <2>3. CASE \E it \in Top.held : v = <<it>>
    <3>1. PICK it \in Top.held : v = <<it>>
      BY <2>3
    <3>2. it \in AnyItem /\ Offer(it, Now, handed, stack)
      BY <1>1, TopOffers
    <3>3. <<it>> \in Seq(AnyItem) /\ Range(<<it>>) = {it}
      BY <3>2, OneToken
    <3> QED BY <3>1, <3>2, <3>3
  <2> QED BY <2>1, <2>2, <2>3 DEF WrittenValues
<1>4. Top.gated \in BOOLEAN
  BY <1>1, TopOffers
<1> QED BY <1>1, <1>2, <1>3, <1>4, EnterText

\* A value, a branch, a field or a module is entered.
LEMMA NestedOK ==
  ASSUME IInv, ExpandValue \/ Branch \/ Field \/ Invoke
  PROVE  Good(stack', Now', handed, discarded) /\ Ghosts
<1>1. /\ Walking /\ stack # <<>> /\ Now' = Now /\ Ghosts
  BY NowStays DEF ExpandValue, Branch, Field, Invoke, Ready, Walking, ghosts, Ghosts
<1>2. PICK kind \in {"branch", "field", "module", "value"}, gated \in BOOLEAN :
         /\ Enter(Walk(kind, gated, Top.value, Top.held))
         /\ gated = TRUE \/ (kind # "value" /\ gated = Top.gated)
  BY <1>1, TopOffers DEF ExpandValue, Branch, Field, Invoke, GateOfValue
<1> QED BY <1>1, <1>2, TopOffers, EnterText

\* A module reads an argument, makes a request or returns.
LEMMA ModuleOK ==
  ASSUME IInv, ReadArgument \/ Request \/ Return
  PROVE  Good(stack', Now', handed, discarded) /\ Ghosts
<1>1. /\ In("module") /\ stack # <<>> /\ Now' = Now /\ Ghosts
  BY NowStays DEF ReadArgument, Request, Return, InModule, In, ghosts, Ghosts
<1>2. <<>> \in Seq(AnyItem) /\ Range(<<>>) = {}
  BY NoTokens
<1>3. CASE ReadArgument
  <2> DEFINE B == Below[Len(Below)]
  <2>1. Enter(Walk("argument", TRUE, Top.value, B.held))
    BY <1>3 DEF ReadArgument
  <2>2. ~IsPage(Top)
    BY <1>1 DEF In, IsPage
  <2>3. B.held \in SUBSET AnyItem /\ \A it \in B.held : Offer(it, Now, handed, stack)
    BY <1>1, <2>2, BelowOffers DEF Offered
  <2> HIDE DEF B
  <2> QED BY <1>1, <2>1, <2>3, TopOffers, EnterModules
<1>4. CASE Request
  <2>1. PICK deferred \in BOOLEAN : Enter(Walk("answer", GateOfAnswer(deferred), <<>>, Top.held))
    BY <1>4 DEF Request
  <2>2. GateOfAnswer(deferred) \in BOOLEAN /\ (~GateOfAnswer(deferred) => ~Top.gated)
    BY DEF GateOfAnswer
  <2> QED BY <1>1, <1>2, <2>1, <2>2, TopOffers, EnterModules
<1>5. CASE Return
  <2>1. Enter(Walk("output", Top.gated, <<>>, Top.held))
    BY <1>5 DEF Return
  <2> QED BY <1>1, <1>2, <2>1, TopOffers, EnterModules
<1> QED BY <1>3, <1>4, <1>5
-----------------------------------------------------------------------------
(* The actions that end a walk. *)

\* The ids that show were taken.
LEMMA ShownTaken ==
  ASSUME NEW n \in Numberings, CountersOK(n), NEW R \in Seq(AnyItem),
         \A it \in Range(R) : ItemOK(it, n)
  PROVE  IdsIn(R, n.fragments) \subseteq 1..n.about
<1> SUFFICES ASSUME NEW id \in IdsIn(R, n.fragments) PROVE id \in 1..n.about
  OBVIOUS
<1>1. PICK j \in 1..Len(R) : AboutOf(R[j], n.fragments) = id /\ id # 0
  BY FromIdsIn
<1> DEFINE it == R[j]
<1>2. ItemOK(it, n)
  BY InRange
<1> HIDE DEF it
<1>3. it.about \in Nat /\ it.about <= n.about /\ n.about \in Nat
  BY <1>2, CountersType DEF ItemOK, AnyItem
<1>4. \A f \in DOMAIN n.fragments : n.fragments[f] \in 0..n.about
  BY DEF CountersOK
<1>5. AboutOf(it, n.fragments) = it.about
      \/ \E f \in DOMAIN n.fragments : AboutOf(it, n.fragments) = n.fragments[f]
  BY AboutFacts
<1>6. AboutOf(it, n.fragments) = id
  BY <1>1 DEF it
<1> QED BY <1>1, <1>3, <1>4, <1>5, <1>6

\* What the walk on top returns may go into the walk below.
LEMMA EndOK ==
  ASSUME IInv, stack # <<>>, NEW R, R = Result, NEW d, d = Reset(Ended), NEW L, L = Len(stack)
  PROVE  /\ d \in Numberings /\ CountersOK(d) /\ Grows(Now, d)
         /\ handed \subseteq 1..d.about /\ discarded \subseteq 1..d.about
         /\ R \in Seq(AnyItem) /\ IdsIn(R, d.fragments) \subseteq 1..d.about
         /\ L # 1 => \A it \in Range(R) : Loose(it, d, stack) /\ Resolved(it)
         /\ Top.gated => Ids(Range(R)) \subseteq handed
         /\ Apart(R, handed)
         /\ \A id \in Ids(Range(R)) :
               id \in handed \/ id > Now.about \/ id \in LineIds(stack, L)
         /\ \A id \in ShownIds(stack, L, Now.fragments) \union ((Now.about + 1)..d.about) :
               id \in d.phantom \/ (~Top.gated /\ id \in IdsIn(R, d.fragments))
<1>1. /\ stack \in Seq(Walks) /\ L \in 1..Len(stack) /\ L \in Nat /\ stack[L] = Top
      /\ Now \in Numberings /\ Now.about \in Nat
      /\ Top \in Walks /\ Top.gated \in BOOLEAN
      /\ handed \subseteq 1..Now.about /\ discarded \subseteq 1..Now.about
  BY TopOK, CountersType, WalkType DEF Top
<1>2. Returned(Top, Now, handed, R, d)
  BY EndedReturned
<1>3. /\ d \in Numberings /\ CountersOK(d) /\ Grows(Now, d) /\ R \in Seq(AnyItem)
      /\ \A it \in Range(R) : ItemOK(it, d) /\ Resolved(it)
      /\ \A id \in Ids(Range(R)) : id \in Ids(Range(Line(Top))) \/ id > Now.about
      /\ \A f \in Frags(Range(R)) : f \in Frags(Range(Line(Top))) \/ f >= Now.next
      /\ Top.gated => Ids(Range(R)) \subseteq handed /\ d.about = Now.about
      /\ ~Top.gated =>
          /\ Apart(R, handed)
          /\ IdsIn(Line(Top), Now.fragments) \subseteq IdsIn(R, d.fragments)
          /\ \A id \in (Now.about + 1)..d.about : id \in d.phantom \/ id \in IdsIn(R, d.fragments)
  BY <1>2 DEF Returned
<1>4. d.about \in Nat /\ Now.about <= d.about
  BY <1>3, CountersType DEF Grows
<1>5. handed \subseteq 1..d.about /\ discarded \subseteq 1..d.about
  BY <1>1, <1>4
<1>6. IdsIn(R, d.fragments) \subseteq 1..d.about
  BY <1>3, ShownTaken
<1>7. ASSUME L # 1, NEW it \in Range(R) PROVE Loose(it, d, stack)
  <2>1. ASSUME IsStyle(it), it.frag \in PageFrags(stack) PROVE FALSE
    <3>1. it.frag \in Frags(Range(R))
      BY <1>7, <2>1, InIds
    <3>2. L \in 2..Len(stack)
      BY <1>1, <1>7
    <3>3. WalkFrags(Top) \intersect PageFrags(stack) = {}
      BY <1>1, <3>2 DEF IInv, Good
    <3>4. WalkFrags(Top) = Frags(Offered(Top)) \union Frags(Range(Line(Top)))
      BY IdsOfUnion DEF WalkFrags
    <3>5. it.frag >= Now.next
      BY <1>3, <2>1, <3>1, <3>3, <3>4
    <3>6. it.frag \in Nat /\ Now.next \in Nat /\ it.frag < Now.next
      BY <2>1, PageFragsOld DEF IInv
    <3> QED BY ONLY <3>5, <3>6
  <2> QED BY <1>3, <1>7, <2>1 DEF Loose
<1>8. Apart(R, handed)
  <2>1. CASE Top.gated
    BY <1>3, <2>1, AllApart
  <2> QED BY <1>1, <1>3, <2>1
<1>9. ASSUME NEW id \in Ids(Range(R))
      PROVE  id \in handed \/ id > Now.about \/ id \in LineIds(stack, L)
  <2>1. CASE Top.gated
    BY <1>3, <1>9, <2>1
  <2>2. CASE ~Top.gated
    <3>1. Ids(Range(Line(Top))) \subseteq LineIds(stack, L)
      BY <1>1, <2>2, FromThere
    <3> QED BY <1>3, <1>9, <3>1
  <2> QED BY <2>1, <2>2
<1>10. ASSUME NEW id \in ShownIds(stack, L, Now.fragments) \union ((Now.about + 1)..d.about)
       PROVE  id \in d.phantom \/ (~Top.gated /\ id \in IdsIn(R, d.fragments))
  <2>1. ShownIds(stack, L + 1, Now.fragments) = {}
    <3>1. L + 1 > Len(stack) /\ L + 1 \in Nat
      BY <1>1
    <3> QED BY <1>1, <3>1, NothingAbove
  <2>2. \/ ~Top.gated /\ id \in IdsIn(Line(Top), Now.fragments)
        \/ id \in (Now.about + 1)..d.about
    BY <1>1, <2>1, FromThere
  <2>3. CASE Top.gated
    <3>1. d.about = Now.about
      BY <1>3, <2>3
    <3> QED BY <1>1, <2>2, <2>3, <3>1
  <2>4. CASE ~Top.gated
    BY <1>3, <2>2, <2>4
  <2> QED BY <2>3, <2>4
<1> QED BY ONLY <1>3, <1>5, <1>6, <1>7, <1>8, <1>9, <1>10

\* The value of an argument is what the parameter of the body stands for.
LEMMA EndValueOK ==
  ASSUME IInv, EndValue PROVE Good(stack', Now', handed, discarded) /\ Ghosts
<1> DEFINE L == Len(stack)
           n == L - 1
           B == Below[Len(Below)]
           R == Result
           d == Reset(Ended)
           e == {}
           w == Walk("body", B.gated, R, e)
<1>1. /\ stack # <<>> /\ stack' = Append(Below, w) /\ Ghosts /\ Now' = d
      /\ Good(stack, Now, handed, discarded)
  BY NowNext DEF EndValue, In, ghosts, Ghosts, IInv
<1>2. IsValue(Top) /\ ~IsPage(Top) /\ ~OfModule(Top)
  <2>1. Top.kind = "value"
    BY DEF EndValue, In
  <2> QED BY <2>1, KindFits
<1>3. Top.gated /\ L \in Nat /\ stack \in Seq(Walks)
  BY <1>1, <1>2, TopOK DEF KindOK
<1>4. /\ L >= 2 /\ n \in 1..Len(stack) /\ B = stack[n] /\ OnTop(Top, B) /\ B.gated \in BOOLEAN
  BY <1>1, <1>2, BelowOffers
<1>5. ~IsModule(B)
  BY <1>2, <1>4 DEF OnTop
<1> HIDE DEF B, R, d, L
<1>6. IInv /\ stack # <<>> /\ R = Result /\ d = Reset(Ended) /\ L = Len(stack)
  BY <1>1 DEF R, d, L
<1>7. /\ d \in Numberings /\ CountersOK(d) /\ Grows(Now, d)
      /\ handed \subseteq 1..d.about /\ discarded \subseteq 1..d.about
      /\ R \in Seq(AnyItem)
      /\ L # 1 => \A it \in Range(R) : Loose(it, d, stack) /\ Resolved(it)
      /\ Top.gated => Ids(Range(R)) \subseteq handed
      /\ \A id \in ShownIds(stack, L, Now.fragments) \union ((Now.about + 1)..d.about) :
            id \in d.phantom \/ (~Top.gated /\ id \in IdsIn(R, d.fragments))
  BY ONLY <1>6, EndOK
<1>8. "body" \in Kinds /\ e \in SUBSET AnyItem
  BY DEF Kinds
<1> HIDE DEF e
<1>9. /\ w \in Walks /\ w.kind = "body" /\ w.gated = B.gated /\ w.done = <<>> /\ w.out = <<>>
      /\ Offered(w) = Range(R) \union e
  BY ONLY <1>4, <1>7, <1>8, NewWalk
<1> HIDE DEF w
<1>10. /\ ~IsPage(w) /\ ~IsValue(w) /\ OnTop(w, B)
  BY <1>5, <1>9, KindFits
<1>11. ASSUME NEW it \in Offered(w) PROVE Offer(it, d, handed, stack)
  <2>1. it \in Range(R)
    BY <1>9, <1>11 DEF e
  <2>2. L # 1
    BY ONLY <1>3, <1>4
  <2>3. Loose(it, d, stack) /\ Ids(Range(R)) \subseteq handed
    BY ONLY <1>3, <1>7, <2>1, <2>2
  <2> QED BY <2>1, <2>3, InIds DEF Offer
<1>12. Tops(stack, stack', n + 1, w)
  <2>1. stack' = Append(SubSeq(stack, 1, n), w)
    BY <1>1 DEF Below, L
  <2> HIDE DEF n
  <2> QED BY <1>3, <1>4, <1>9, <2>1, CutAppend
<1>13. Tops(stack, stack', L, w) /\ OnTop(w, stack[L - 1]) /\ L >= 2
  <2>1. n + 1 = L /\ n = L - 1
    BY <1>3
  <2> HIDE DEF n
  <2> QED BY <1>4, <1>10, <1>12, <2>1
<1>14. handed \subseteq handed /\ discarded \subseteq discarded
  OBVIOUS
<1>15. \A id \in ShownIds(stack, L, Now.fragments) \union ((Now.about + 1)..d.about) :
          id \in d.phantom \union discarded \union handed
  BY <1>3, <1>7
<1>16. Good(stack', d, handed, discarded)
  BY ONLY <1>1, <1>7, <1>9, <1>10, <1>11, <1>13, <1>14, <1>15, Entered
<1> QED BY <1>1, <1>16

\* The text of a field is gone.
LEMMA EndFieldOK ==
  ASSUME IInv, EndField PROVE Good(stack', Now', handed, discarded') /\ handed' = handed
<1> DEFINE L == Len(stack)
           n == L - 1
           w == stack[n]
           w2 == w
           R == Result
           d == Reset(Ended)
           D2 == discarded'
<1>1. /\ stack # <<>> /\ stack' = Below /\ handed' = handed /\ Now' = d
      /\ Good(stack, Now, handed, discarded)
      /\ D2 = discarded \union IdsIn(R, d.fragments)
  BY NowNext DEF EndField, In, IInv, Reset
<1>2. ~IsPage(Top)
  <2>1. Top.kind = "field"
    BY DEF EndField, In
  <2> QED BY <2>1, KindFits
<1>3. L \in Nat /\ stack \in Seq(Walks)
  BY <1>1, TopOK
<1>4. /\ L >= 2 /\ n \in 1..Len(stack) /\ w \in Walks
  BY <1>1, <1>2, BelowOffers
<1> HIDE DEF R, d, D2
<1>6. R = Result /\ d = Reset(Ended) /\ L = Len(stack)
  BY DEF R, d
<1>7. /\ d \in Numberings /\ CountersOK(d) /\ Grows(Now, d)
      /\ handed \subseteq 1..d.about /\ discarded \subseteq 1..d.about
      /\ IdsIn(R, d.fragments) \subseteq 1..d.about
      /\ \A id \in ShownIds(stack, L, Now.fragments) \union ((Now.about + 1)..d.about) :
            id \in d.phantom \/ (~Top.gated /\ id \in IdsIn(R, d.fragments))
  BY <1>1, <1>6, EndOK
<1>8. handed \subseteq handed /\ discarded \subseteq D2 /\ D2 \subseteq 1..d.about
  BY <1>1, <1>7
<1>9. n + 1 = L
  BY <1>3
<1>10. stack' = SubSeq(stack, 1, n)
  BY <1>1 DEF Below
<1>5. w = stack[n] /\ w2 = stack[n]
  OBVIOUS
<1>14. /\ w2 \in Walks /\ w2.kind = w.kind /\ w2.gated = w.gated /\ w2.done = w.done
       /\ w2.out = w.out /\ Good(stack, Now, handed, discarded)
       /\ \A it \in Offered(w2) : it \in Offered(w) \/ (n # 1 /\ Offer(it, d, handed, stack))
  BY <1>1, <1>4
<1> HIDE DEF n, w, w2, L
<1>13. Tops(stack, stack', n, w2)
  BY ONLY <1>3, <1>4, <1>5, <1>10, Cut
<1>15. \A id \in ShownIds(stack, n + 1, Now.fragments) \union ((Now.about + 1)..d.about) :
         id \in d.phantom \union D2 \union handed
  BY <1>1, <1>7, <1>9
<1>16. n \in 1..Len(stack)
  BY <1>4
<1>17. d \in Numberings /\ CountersOK(d) /\ Grows(Now, d) /\ handed \subseteq 1..d.about
  BY <1>7
<1>18. Good(stack', d, handed, D2)
  BY ONLY <1>5, <1>8, <1>13, <1>14, <1>15, <1>16, <1>17, Kept
<1> QED BY <1>1, <1>18 DEF D2

\* What the walk on top returns is spliced into the n-th, which is not a
\* module's; there is nothing in the walks between the two.
LEMMA SplicedOK ==
  ASSUME IInv, stack # <<>>, NEW R, R = Result, NEW d, d = Reset(Ended), NEW L, L = Len(stack),
         NEW n \in 1..Len(stack), n + 1 <= L, NEW w, w = stack[n], ~IsModule(w),
         ~Top.gated => ~w.gated,
         ShownIds(stack, n + 1, Now.fragments) \subseteq ShownIds(stack, L, Now.fragments),
         LineIds(stack, L) \subseteq LineIds(stack, n + 1),
         NEW stk2, stk2 = Spliced(SubSeq(stack, 1, n), R)
  PROVE  Good(stk2, d, handed, discarded)
<1> DEFINE w2 == [w EXCEPT !.out = w.out \o R]
<1>1. /\ stack \in Seq(Walks) /\ L \in Nat /\ n \in Nat
      /\ Good(stack, Now, handed, discarded)
      /\ w \in Walks /\ w.gated \in BOOLEAN
  <2>1. stack \in Seq(Walks) /\ L \in Nat /\ Good(stack, Now, handed, discarded)
    BY TopOK DEF IInv
  <2>2. WalkOK(w, Now, handed)
    BY <2>1 DEF Good
  <2>3. w \in Walks
    BY <2>2 DEF WalkOK
  <2> QED BY <2>1, <2>3, WalkType
<1>2. /\ d \in Numberings /\ CountersOK(d) /\ Grows(Now, d)
      /\ handed \subseteq 1..d.about /\ discarded \subseteq 1..d.about
  BY EndOK
<1>3. /\ R \in Seq(AnyItem)
      /\ \A it \in Range(R) : Loose(it, d, stack) /\ Resolved(it)
  <2>1. L # 1
    BY ONLY <1>1, n \in 1..Len(stack), n + 1 <= L
  <2> QED BY <2>1, EndOK
<1>4. /\ Top.gated => Ids(Range(R)) \subseteq handed
      /\ Apart(R, handed)
      /\ \A id \in Ids(Range(R)) :
            id \in handed \/ id > Now.about \/ id \in LineIds(stack, L)
  BY EndOK
<1>5. \A id \in ShownIds(stack, L, Now.fragments) \union ((Now.about + 1)..d.about) :
         id \in d.phantom \/ (~Top.gated /\ id \in IdsIn(R, d.fragments))
  BY EndOK
<1>6. /\ w.gated => Ids(Range(R)) \subseteq handed
      /\ ~w.gated => /\ Apart(R, handed)
                     /\ \A id \in Ids(Range(R)) :
                           id \in handed \/ id > Now.about \/ id \in LineIds(stack, n + 1)
  BY <1>4
<1>7. \A id \in ShownIds(stack, n + 1, Now.fragments) \union ((Now.about + 1)..d.about) :
         \/ id \in d.phantom \union discarded \union handed
         \/ ~w.gated /\ id \in IdsIn(R, d.fragments)
  BY <1>5
<1>8. w.out \in Seq(AnyItem) /\ w.out \o R \in Seq(AnyItem)
  <2> DEFINE o == w.out
  <2>1. o \in Seq(AnyItem)
    BY <1>1, WalkType
  <2> HIDE DEF o
  <2>2. o \o R \in Seq(AnyItem)
    BY <1>3, <2>1, ConcatProperties
  <2> QED BY <2>1, <2>2 DEF o
<1>9. /\ w2 \in Walks /\ w2.kind = w.kind /\ w2.gated = w.gated /\ w2.done = w.done
      /\ w2.rest = w.rest /\ w2.value = w.value /\ w2.held = w.held /\ w2.out = w.out \o R
  BY <1>1, <1>8 DEF Walks
<1>10. stk2 = [SubSeq(stack, 1, n) EXCEPT ![n] = w2]
  <2> DEFINE m == SubSeq(stack, 1, n)
  <2>1. Len(m) = n /\ m[n] = w
    BY <1>1, Cut
  <2>2. stk2 = [m EXCEPT ![Len(m)] = [m[Len(m)] EXCEPT !.out = m[Len(m)].out \o R]]
    BY Zenon DEF Spliced
  <2> HIDE DEF m
  <2> QED BY <2>1, <2>2, Zenon DEF m
<1> HIDE DEF w2
<1>11. Tops(stack, stk2, n, w2)
  BY <1>1, <1>9, <1>10, CutUpdate
<1>12. \A it \in Offered(w2) : it \in Offered(w) \/ (n # 1 /\ Offer(it, d, handed, stack))
  BY <1>9 DEF Offered
<1>13. n \in 1..Len(stack) /\ w = stack[n] /\ (IsModule(w) => R = <<>>)
       /\ handed \subseteq handed /\ discarded \subseteq discarded
  OBVIOUS
<1>14. Growth(stack, Now, handed, discarded, d, handed, discarded, n, w, w2, stk2, R)
  BY ONLY <1>1, <1>2, <1>3, <1>6, <1>7, <1>9, <1>11, <1>12, <1>13 DEF Growth
<1> QED BY ONLY <1>14, Grown

\* A template's text, or a branch.
LEMMA EndSpliceOK ==
  ASSUME IInv, EndSplice PROVE Good(stack', Now', handed, discarded) /\ Ghosts
<1> DEFINE L == Len(stack)
           n == L - 1
           w == stack[n]
           R == Result
           d == Reset(Ended)
<1>1. /\ stack # <<>> /\ stack' = Spliced(Below, R) /\ Ghosts /\ Now' = d
  BY NowNext DEF EndSplice, In, ghosts, Ghosts
<1>2. ~IsPage(Top) /\ ~OfModule(Top)
  <2>1. Top.kind \in {"body", "branch"}
    BY DEF EndSplice, In
  <2> QED BY <2>1, KindFits
<1>3. L \in Nat /\ stack \in Seq(Walks)
  BY <1>1, TopOK
<1>4. n \in 1..Len(stack) /\ OnTop(Top, w)
  BY <1>1, <1>2, BelowOffers
<1>5. ~IsModule(w) /\ (~Top.gated => ~w.gated)
  BY <1>2, <1>4 DEF OnTop
<1>6. stack' = Spliced(SubSeq(stack, 1, n), R)
  BY <1>1 DEF Below
<1>7. n + 1 = L /\ n + 1 <= L
  BY <1>3
<1> HIDE DEF R, d
<1>8. IInv /\ stack # <<>> /\ R = Result /\ d = Reset(Ended) /\ L = Len(stack) /\ w = stack[n]
  BY <1>1 DEF R, d
<1> HIDE DEF L, n, w
<1>9. Good(stack', d, handed, discarded)
  BY ONLY <1>4, <1>5, <1>6, <1>7, <1>8, SplicedOK
<1> QED BY <1>1, <1>9

\* Below the text of a module are the module and a walk of the text.
LEMMA OutputDeep ==
  ASSUME IInv, stack # <<>>, In("output")
  PROVE  LET m == Len(stack) - 1
             n == Len(stack) - 2
         IN /\ m \in 2..Len(stack) /\ n \in 1..Len(stack) /\ n = m - 1 /\ n + 1 = m
            /\ m + 1 = Len(stack) /\ n + 1 <= Len(stack)
            /\ IsModule(stack[m]) /\ KindOK(stack[m])
            /\ ~IsModule(stack[n]) /\ (~Top.gated => ~stack[n].gated)
<1> DEFINE L == Len(stack)
           m == L - 1
           n == L - 2
           w == stack[n]
<1>1. Good(stack, Now, handed, discarded)
  BY DEF IInv
<1>2. ~IsPage(Top) /\ OfModule(Top)
  <2>1. Top.kind = "output"
    BY DEF In
  <2> QED BY <2>1, KindFits
<1>3. L \in Nat /\ stack \in Seq(Walks)
  BY TopOK
<1>4. m \in 1..Len(stack) /\ OnTop(Top, stack[m])
  BY <1>1, <1>2, BelowOffers
<1>5. IsModule(stack[m]) /\ (~Top.gated => ~stack[m].gated)
  BY <1>2, <1>4 DEF OnTop
<1>6. ~IsPage(stack[m]) /\ ~OfModule(stack[m])
  BY <1>5, Zenon DEF IsModule, IsPage, OfModule
<1>7. m # 1
  BY <1>1, <1>4, <1>6 DEF Good
<1>8. /\ m \in 2..Len(stack) /\ n \in 1..Len(stack) /\ n = m - 1 /\ n + 1 = m
      /\ m + 1 = Len(stack) /\ n + 1 <= Len(stack)
  <2>1. m = L - 1 /\ n = L - 2 /\ L = Len(stack)
    OBVIOUS
  <2> HIDE DEF m, n, L
  <2> QED BY ONLY <1>3, <1>4, <1>7, <2>1
<1>9. OnTop(stack[m], w)
  <2>1. OnTop(stack[m], stack[m - 1])
    BY <1>1, <1>8 DEF Good
  <2> QED BY <1>8, <2>1
<1>10. ~IsModule(w) /\ (~Top.gated => ~w.gated)
  BY <1>5, <1>6, <1>9 DEF OnTop
<1>11. KindOK(stack[m])
  BY <1>1, <1>4 DEF Good
<1> QED BY <1>5, <1>8, <1>10, <1>11

\* A module's text.
LEMMA EndOutputOK ==
  ASSUME IInv, EndOutput PROVE Good(stack', Now', handed, discarded) /\ Ghosts
<1> DEFINE L == Len(stack)
           m == L - 1
           n == L - 2
           w == stack[n]
           R == Result
           d == Reset(Ended)
<1>1. /\ stack # <<>> /\ stack' = Spliced(SubSeq(stack, 1, n), R) /\ Ghosts /\ Now' = d
      /\ Good(stack, Now, handed, discarded)
  BY NowNext DEF EndOutput, In, ghosts, Ghosts, IInv
<1>3. L \in Nat /\ stack \in Seq(Walks) /\ In("output")
  BY <1>1, TopOK DEF EndOutput
<1>8. /\ m \in 1..Len(stack) /\ n \in 1..Len(stack) /\ n + 1 = m /\ m + 1 = L /\ n + 1 <= L
      /\ IsModule(stack[m]) /\ KindOK(stack[m])
      /\ ~IsModule(w) /\ (~Top.gated => ~w.gated)
  BY <1>1, <1>3, OutputDeep
<1>12. Line(stack[m]) = <<>>
  BY <1>8, NoTokens DEF KindOK, Line
<1>13. ASSUME NEW F PROVE ShownIds(stack, m, F) \subseteq ShownIds(stack, L, F)
  <2>1. IdsIn(Line(stack[m]), F) = {}
    BY <1>12, FromIdsIn, NoTokens
  <2> HIDE DEF m
  <2> QED BY <1>3, <1>8, <2>1, FromThere
<1>14. LineIds(stack, L) \subseteq LineIds(stack, m)
  <2> HIDE DEF m
  <2> QED BY <1>3, <1>8, FromThere
<1>15. /\ ShownIds(stack, n + 1, Now.fragments) \subseteq ShownIds(stack, L, Now.fragments)
       /\ LineIds(stack, L) \subseteq LineIds(stack, n + 1)
  BY <1>8, <1>13, <1>14
<1> HIDE DEF R, d
<1>16. IInv /\ stack # <<>> /\ R = Result /\ d = Reset(Ended) /\ L = Len(stack) /\ w = stack[n]
  BY <1>1 DEF R, d
<1> HIDE DEF L, n, w, m
<1>17. Good(stack', d, handed, discarded)
  BY ONLY <1>1, <1>8, <1>15, <1>16, SplicedOK
<1> QED BY <1>1, <1>17

\* A module is handed what its argument, or an answer, holds.
LEMMA HandedOK ==
  ASSUME IInv, render_markers
  PROVE  Good(stack', Now', handed', discarded) /\ discarded' = discarded
<1> DEFINE L == Len(stack)
           n == L - 1
           w == stack[n]
           R == Result
           d == Reset(Ended)
           X == Extensions(R)
           H2 == handed'
           w2 == [w EXCEPT !.held = w.held \union X]
<1>1. /\ stack # <<>> /\ discarded' = discarded /\ Now' = d
      /\ stack' = [Below EXCEPT ![Len(Below)].held = @ \union X]
      /\ Good(stack, Now, handed, discarded)
      /\ H2 = handed \union IdsIn(R, d.fragments)
  BY NowNext DEF render_markers, In, IInv, Reset
<1>2. ~IsPage(Top) /\ OfModule(Top)
  <2>1. Top.kind \in {"argument", "answer"}
    BY DEF render_markers, In
  <2> QED BY <2>1, KindFits
<1>3. L \in Nat /\ stack \in Seq(Walks)
  BY <1>1, TopOK
<1>4. /\ L >= 2 /\ n \in 1..Len(stack) /\ w \in Walks /\ OnTop(Top, w) /\ Len(Below) = n
  BY <1>1, <1>2, BelowOffers
<1>5. n # 1
  <2>1. IsModule(w)
    BY <1>2, <1>4 DEF OnTop
  <2>2. ~IsPage(w)
    BY <2>1, Zenon DEF IsModule, IsPage
  <2> QED BY <1>1, <1>4, <2>2 DEF Good
<1>6. n + 1 = L /\ L # 1
  BY <1>3, <1>4
<1> HIDE DEF R, d, H2, L
<1>7. IInv /\ stack # <<>> /\ R = Result /\ d = Reset(Ended) /\ L = Len(stack)
  BY <1>1 DEF R, d, L
<1>8. /\ d \in Numberings /\ CountersOK(d) /\ Grows(Now, d)
      /\ handed \subseteq 1..d.about /\ discarded \subseteq 1..d.about
      /\ R \in Seq(AnyItem)
      /\ L # 1 => \A it \in Range(R) : Loose(it, d, stack) /\ Resolved(it)
      /\ IdsIn(R, d.fragments) \subseteq 1..d.about
      /\ \A id \in ShownIds(stack, L, Now.fragments) \union ((Now.about + 1)..d.about) :
            id \in d.phantom \/ (~Top.gated /\ id \in IdsIn(R, d.fragments))
  BY ONLY <1>7, EndOK
<1>9. ASSUME NEW it \in X PROVE it \in AnyItem /\ Offer(it, d, H2, stack)
  <2>1. PICK i \in 1..Len(R) : R[i] = it
    BY DEF Extensions
  <2>2. it \in Range(R) /\ it \in AnyItem
    BY <1>8, <2>1, InRange
  <2>3. Loose(it, d, stack)
    BY <1>6, <1>8, <2>2
  <2>4. ASSUME it.about # 0 PROVE it.about \in IdsIn(R, d.fragments)
    <3>1. ~IsStyle(it)
      BY <2>3, <2>4 DEF Loose, ItemOK, StyleOK
    <3>2. AboutOf(it, d.fragments) = it.about
      BY <3>1, AboutFacts
    <3> HIDE DEF X
    <3> QED BY <2>1, <2>4, <3>2, InIdsIn
  <2> QED BY <1>1, <2>2, <2>3, <2>4 DEF Offer
<1> HIDE DEF X
<1>10. /\ w2 \in Walks /\ w2.kind = w.kind /\ w2.gated = w.gated /\ w2.done = w.done
       /\ w2.rest = w.rest /\ w2.value = w.value /\ w2.held = w.held \union X /\ w2.out = w.out
  <2> HIDE DEF w
  <2>1. w.held \union X \in SUBSET AnyItem
    BY <1>4, <1>9, WalkType
  <2> QED BY <1>4, <2>1 DEF Walks
<1>11. stack' = [SubSeq(stack, 1, n) EXCEPT ![n] = w2]
  <2> DEFINE m == SubSeq(stack, 1, n)
  <2>1. Len(m) = n /\ m[n] = w
    BY <1>3, <1>4, Cut
  <2>2. Below = m
    BY DEF Below, L
  <2>3. stack' = [m EXCEPT ![n] = [m[n] EXCEPT !.held = m[n].held \union X]]
    BY <1>1, <1>4, <2>2, Zenon
  <2> HIDE DEF m, n
  <2> QED BY <2>1, <2>3, Zenon DEF m
<1> HIDE DEF w2
<1>14. w = stack[n] /\ n \in 1..Len(stack)
  BY <1>4
<1>15. \A it \in Offered(w2) : it \in Offered(w) \/ (n # 1 /\ Offer(it, d, H2, stack))
  BY <1>5, <1>9, <1>10 DEF Offered
<1> HIDE DEF n, w
<1>16. Tops(stack, stack', n, w2)
  BY ONLY <1>3, <1>4, <1>10, <1>11, CutUpdate
<1>17. \A id \in ShownIds(stack, n + 1, Now.fragments) \union ((Now.about + 1)..d.about) :
         id \in d.phantom \union discarded \union H2
  BY <1>1, <1>6, <1>8
<1>18. /\ d \in Numberings /\ CountersOK(d) /\ Grows(Now, d)
       /\ handed \subseteq H2 /\ H2 \subseteq 1..d.about
       /\ discarded \subseteq discarded /\ discarded \subseteq 1..d.about
       /\ Good(stack, Now, handed, discarded)
  BY <1>1, <1>8
<1>19. Good(stack', d, H2, discarded)
  BY ONLY <1>10, <1>14, <1>15, <1>16, <1>17, <1>18, Kept
<1> QED BY <1>1, <1>19 DEF H2

\* The page ends.
LEMMA EndPageOK ==
  ASSUME IInv, EndPage
  PROVE  /\ Good(stack', Now', handed, discarded) /\ Ghosts /\ stack' = <<>>
         /\ PageDone(page', Now', handed, discarded)
<1> DEFINE L == Len(stack)
           R == Result
           d == Reset(Ended)
           e == <<>>
<1>1. /\ stack # <<>> /\ stack' = e /\ page' = R /\ Ghosts /\ Now' = d
      /\ Good(stack, Now, handed, discarded)
  BY NowNext DEF EndPage, In, IInv, ghosts, Ghosts
<1>2. IsPage(Top)
  BY DEF EndPage, In, IsPage
<1>3. /\ L \in 1..Len(stack) /\ L \in Nat /\ Top = stack[L] /\ Now.about \in Nat
  BY <1>1, TopOK, CountersType DEF Top
<1>4. L = 1
  BY <1>1, <1>2, <1>3 DEF Good
<1>5. PageOK(Top)
  BY <1>1, <1>3, <1>4 DEF Good
<1>6. ~Top.gated /\ OneEach(Top.done) /\ Frags(Range(Top.done)) \intersect Frags(Range(Top.out)) = {}
  BY <1>5 DEF PageOK
<1>7. Returned(Top, Now, handed, R, d)
  BY <1>1, EndedReturned
<1> HIDE DEF R, d, L
<1>8. IInv /\ stack # <<>> /\ R = Result /\ d = Reset(Ended) /\ L = Len(stack)
  BY <1>1 DEF R, d, L
<1>9. /\ d \in Numberings /\ CountersOK(d)
      /\ handed \subseteq 1..d.about /\ discarded \subseteq 1..d.about
      /\ R \in Seq(AnyItem) /\ Apart(R, handed)
      /\ \A id \in ShownIds(stack, L, Now.fragments) \union ((Now.about + 1)..d.about) :
            id \in d.phantom \/ (~Top.gated /\ id \in IdsIn(R, d.fragments))
  BY ONLY <1>8, EndOK
<1>10. /\ \A it \in Range(R) : ItemOK(it, d) /\ Resolved(it) /\ NumberedIn(it, d)
       /\ OneEach(R) /\ Now.phantom \subseteq d.phantom
  BY <1>6, <1>7 DEF Returned, Grows
<1>11. 1..d.about \subseteq IdsIn(R, d.fragments) \union d.phantom \union discarded \union handed
  <2> SUFFICES ASSUME NEW id \in 1..d.about
               PROVE  id \in IdsIn(R, d.fragments) \union d.phantom \union discarded \union handed
    OBVIOUS
  <2>1. CASE id \in (Now.about + 1)..d.about
    BY <1>9, <2>1
  <2>2. CASE id \in 1..Now.about
    <3>1. 1..Now.about \subseteq ShownIds(stack, 1, Now.fragments) \union Now.phantom
                                  \union discarded \union handed
      BY <1>1 DEF Good
    <3>2. id \in ShownIds(stack, L, Now.fragments) \union Now.phantom \union discarded \union handed
      BY <1>4, <2>2, <3>1
    <3> QED BY <1>9, <1>10, <3>2
  <2>3. d.about \in Nat
    BY <1>9, CountersType
  <2> QED BY <1>3, <2>1, <2>2, <2>3
<1>12. PageDone(R, d, handed, discarded)
  BY <1>9, <1>10, <1>11 DEF PageDone
<1>13. e \in Seq(Walks) /\ Len(e) = 0
  BY EmptySeq
<1>14. 1..0 = {} /\ 2..0 = {}
  OBVIOUS
<1>15. Good(e, d, handed, discarded)
  BY <1>9, <1>13, <1>14 DEF Good
<1> QED BY <1>1, <1>12, <1>15
-----------------------------------------------------------------------------
(* The invariant holds at first and stays.  *)

\* What every action but the end of the page does.
Goes ==
    /\ Good(stack', Now', handed', discarded')
    /\ stack # <<>> /\ stack' # <<>> /\ page' = page

\* A stack with a walk changed, or one more, is not empty.
LEMMA NotEmptied ==
  ASSUME NEW s \in Seq(Walks), s # <<>>
  PROVE  /\ \A i, x : [s EXCEPT ![i] = x] # <<>>
         /\ \A x : Append(s, x) # <<>>
<1>1. Len(s) \in Nat /\ DOMAIN s = 1..Len(s) /\ Len(s) # 0
  BY LenProperties, EmptySeq
<1>2. 1 \in DOMAIN s
  BY <1>1
<1>3. DOMAIN <<>> = {}
  OBVIOUS
<1>4. ASSUME NEW i, NEW x PROVE [s EXCEPT ![i] = x] # <<>>
  <2>1. DOMAIN [s EXCEPT ![i] = x] = DOMAIN s
    OBVIOUS
  <2> QED BY <1>2, <1>3, <2>1
<1>5. ASSUME NEW x PROVE Append(s, x) # <<>>
  <2> DEFINE S == Walks \union {x}
  <2>1. s \in Seq(S) /\ x \in S
    BY SeqMonotonic
  <2> HIDE DEF S
  <2>2. Append(s, x) # <<>>
    BY <2>1, AppendProperties
  <2> QED BY <2>2
<1> QED BY <1>4, <1>5

\* Only the end of the page empties the stack, and makes the page.
LEMMA StaysOpen ==
  ASSUME IInv, Next, ~EndPage
  PROVE  stack # <<>> /\ stack' # <<>> /\ page' = page
<1>1. stack # <<>>
  BY DEF Next, Written, Again, Parameter, Marker, Call, ExpandValue, EndValue, Branch, Field,
         EndField, EndSplice, Invoke, ReadArgument, Request, render_markers, Return, EndOutput,
         Ready, InModule, Walking, In
<1>2. page' = page
  BY DEF Next, Written, Again, Parameter, Marker, Call, ExpandValue, EndValue, Branch, Field,
         EndField, EndSplice, Invoke, ReadArgument, Request, render_markers, Return, EndOutput,
         ghosts
<1>3. stack \in Seq(Walks)
  BY <1>1, TopOK
<1>4. /\ \A i, x : [stack EXCEPT ![i] = x] # <<>>
      /\ \A x : Append(stack, x) # <<>>
  BY <1>1, <1>3, NotEmptied
<1>5. ASSUME NEW rest, NEW it, Token(rest, it) PROVE stack' # <<>>
  BY <1>4, <1>5 DEF Token, EndOfLine, expand_one_templatestyles, expand_one_indicator, Emit
<1>6. ASSUME NEW x, stack' = Update("rest", x) PROVE stack' # <<>>
  <2>1. stack' = [stack EXCEPT ![Len(stack)] = [stack[Len(stack)] EXCEPT !["rest"] = x]]
    BY <1>6, Zenon DEF Update
  <2> QED BY <1>4, <2>1
<1>7. ASSUME NEW w, Enter(w) PROVE stack' # <<>>
  BY <1>4, <1>7 DEF Enter
<1>8. ASSUME NEW n \in 1..Len(stack)
      PROVE  LET s == SubSeq(stack, 1, n) IN
             /\ s \in Seq(Walks) /\ s # <<>>
             /\ \A i, x : [s EXCEPT ![i] = x] # <<>>
             /\ \A x : Append(s, x) # <<>>
             /\ \A x : Spliced(s, x) # <<>>
  <2> DEFINE s == SubSeq(stack, 1, n)
  <2>1. s \in Seq(Walks) /\ Len(s) = n /\ n # 0
    BY <1>3, Cut
  <2> HIDE DEF s
  <2>2. s # <<>>
    BY <2>1, EmptySeq
  <2>3. /\ \A i, x : [s EXCEPT ![i] = x] # <<>>
        /\ \A x : Append(s, x) # <<>>
    BY <2>1, <2>2, NotEmptied
  <2>4. ASSUME NEW x PROVE Spliced(s, x) # <<>>
    <3>1. Spliced(s, x) = [s EXCEPT ![Len(s)] = [s[Len(s)] EXCEPT !.out = s[Len(s)].out \o x]]
      BY Zenon DEF Spliced
    <3> QED BY <2>3, <3>1
  <2> QED BY <2>1, <2>2, <2>3, <2>4 DEF s
<1>9. ASSUME EndField \/ EndSplice \/ EndValue \/ render_markers \/ EndOutput
      PROVE  stack' # <<>>
  <2>1. ~IsPage(Top)
    <3>1. Top.kind \in {"field", "body", "branch", "value", "argument", "answer", "output"}
      BY <1>9 DEF EndField, EndSplice, EndValue, render_markers, EndOutput, In
    <3> QED BY <3>1, KindFits
  <2>2. Len(stack) >= 2 /\ Len(stack) - 1 \in 1..Len(stack)
    BY <1>1, <2>1, BelowOffers
  <2> DEFINE s == SubSeq(stack, 1, Len(stack) - 1)
  <2>3. /\ s # <<>>
        /\ \A i, x : [s EXCEPT ![i] = x] # <<>>
        /\ \A x : Append(s, x) # <<>>
        /\ \A x : Spliced(s, x) # <<>>
    BY <1>8, <2>2
  <2>4. Below = s
    BY DEF Below
  <2> HIDE DEF s
  <2>5. CASE EndField \/ EndSplice \/ EndValue
    <3>1. \/ stack' = Below
          \/ \E x : stack' = Append(Below, x)
          \/ stack' = Spliced(Below, Result)
      BY <2>5, Zenon DEF EndField, EndSplice, EndValue
    <3>2. Below # <<>> /\ (\A x : Append(Below, x) # <<>>) /\ (\A x : Spliced(Below, x) # <<>>)
      BY <2>3, <2>4, Zenon
    <3> QED BY ONLY <3>1, <3>2, Zenon
  <2>6. CASE render_markers
    <3>1. stack' = [Below EXCEPT ![Len(Below)] =
                      [Below[Len(Below)] EXCEPT !.held = Below[Len(Below)].held \union Extensions(Result)]]
      BY <2>6, Zenon DEF render_markers
    <3>2. \A i, x : [Below EXCEPT ![i] = x] # <<>>
      BY <2>3, <2>4, Zenon
    <3> QED BY ONLY <3>1, <3>2, Zenon
  <2>7. CASE EndOutput
    <3>1. In("output") /\ stack' = Spliced(SubSeq(stack, 1, Len(stack) - 2), Result)
      BY <2>7 DEF EndOutput
    <3>2. Len(stack) - 2 \in 1..Len(stack)
      BY <1>1, <3>1, OutputDeep
    <3> DEFINE t == SubSeq(stack, 1, Len(stack) - 2)
    <3>3. \A x : Spliced(t, x) # <<>>
      BY <1>8, <3>2
    <3>4. stack' = Spliced(t, Result)
      BY <3>1
    <3> QED BY ONLY <3>3, <3>4, Zenon
  <2> QED BY <1>9, <2>5, <2>6, <2>7
<1>10. stack' # <<>>
  BY <1>5, <1>6, <1>7, <1>9
     DEF Next, Written, Again, Parameter, Marker, Call, ExpandValue, Branch, Field, Invoke,
         ReadArgument, Request, Return
<1> QED BY <1>1, <1>2, <1>10

\* Every action but the end of the page leaves the state good.
LEMMA GoesOn ==
  ASSUME IInv, Next, ~EndPage
  PROVE  Good(stack', Now', handed', discarded')
<1>1. ASSUME Good(stack', Now', handed, discarded), Ghosts
      PROVE  Good(stack', Now', handed', discarded')
  BY <1>1 DEF Ghosts
<1>2. CASE \E k \in Tags \union {"nl"} : Written(Tag(k))
  BY <1>1, <1>2, WrittenOK
<1>3. CASE Again \/ Parameter \/ Marker
  BY <1>1, <1>3, AgainOK, ParameterOK, MarkerOK
<1>4. CASE Call \/ ExpandValue \/ Branch \/ Field \/ Invoke
  BY <1>1, <1>4, CallOK, NestedOK
<1>5. CASE ReadArgument \/ Request \/ Return
  BY <1>1, <1>5, ModuleOK
<1>6. CASE EndValue \/ EndSplice \/ EndOutput
  BY <1>1, <1>6, EndValueOK, EndSpliceOK, EndOutputOK
<1>7. CASE EndField
  BY <1>7, EndFieldOK
<1>8. CASE render_markers
  BY <1>8, HandedOK
<1> QED BY <1>2, <1>3, <1>4, <1>5, <1>6, <1>7, <1>8 DEF Next

\* The page starts with nothing numbered.
LEMMA Starts == Init => IInv
<1> SUFFICES ASSUME Init PROVE IInv
  OBVIOUS
<1> DEFINE e == <<>>
           h == {}
           k == "page"
           g == FALSE
           w == Walk(k, g, e, h)
           c == Now
<1>1. /\ stack = <<w>> /\ tokens = 0 /\ page = <<>>
      /\ handed = {} /\ discarded = {}
      /\ c = [items |-> e, about |-> 0, next |-> 1, pending |-> {}, fragments |-> e,
              phantom |-> {}, seen |-> {}]
  BY DEF Init, Now, Numbers
<1>2. /\ e \in Seq(AnyItem) /\ Range(e) = {} /\ Ids(Range(e)) = {} /\ Frags(Range(e)) = {}
      /\ \A H : Apart(e, H)
      /\ Len(e) = 0 /\ DOMAIN e = {} /\ e \o e = e
  <2>1. DOMAIN e = {}
    OBVIOUS
  <2> QED BY <2>1, NoTokens
<1>3. e \in Fragments
  <2>1. e \in [{} -> Nat]
    BY <1>2
  <2> QED BY <2>1 DEF Fragments
<1> HIDE DEF e, c
<1>4. c \in Numberings
  BY <1>1, <1>2, <1>3 DEF Numberings
<1>5. /\ c.about = 0 /\ c.next = 1 /\ c.pending = {} /\ c.fragments = e /\ c.phantom = {}
  BY <1>1
<1>6. CountersOK(c)
  BY <1>2, <1>5 DEF CountersOK
<1>7. FALSE \in BOOLEAN /\ "page" \in Kinds /\ h \in SUBSET AnyItem
  BY DEF Kinds
<1>8. /\ w \in Walks /\ w.kind = "page" /\ w.gated = FALSE /\ w.done = e /\ w.out = e
      /\ Offered(w) = Range(e) \union h
  <2>1. e \in Seq(AnyItem)
    BY <1>2
  <2>3. g \in BOOLEAN /\ k \in Kinds
    BY <1>7
  <2> HIDE DEF h, g, k
  <2>2. /\ w \in Walks /\ w.kind = k /\ w.gated = g /\ w.done = <<>> /\ w.out = <<>>
        /\ Offered(w) = Range(e) \union h
    BY ONLY <1>7, <2>1, <2>3, NewWalk
  <2> HIDE DEF w
  <2> QED BY <2>2 DEF e, g, k
<1>9. IsPage(w) /\ ~IsValue(w) /\ ~IsModule(w)
  BY <1>8 DEF IsPage, IsValue, IsModule
<1>10. Offered(w) = {} /\ Line(w) = e
  BY <1>2, <1>8 DEF Line
<1> HIDE DEF w
<1>11. WalkOK(w, c, {})
  <2>1. Ids({}) = {}
    BY NoTokens
  <2> QED BY <1>2, <1>8, <1>10, <2>1 DEF WalkOK
<1>12. KindOK(w) /\ PageOK(w)
  <2>1. OneEach(e)
    BY <1>2 DEF OneEach
  <2> QED BY <1>2, <1>8, <1>9, <1>10, <2>1 DEF KindOK, PageOK
<1>13. stack \in Seq(Walks) /\ Len(stack) = 1 /\ stack[1] = w /\ stack # <<>>
  BY <1>1, <1>8
<1>14. 1..1 = {1} /\ 2..1 = {} /\ 1..0 = {}
  OBVIOUS
<1>15. Good(stack, c, {}, {})
  BY <1>4, <1>5, <1>6, <1>9, <1>11, <1>12, <1>13, <1>14 DEF Good
<1>16. tokens \in 0..MaxTokens
  BY <1>1, ConstantsAssumption
<1> QED BY <1>1, <1>13, <1>15, <1>16 DEF IInv, c

\* The bound on the tokens.
LEMMA TokensBounded ==
  ASSUME tokens \in 0..MaxTokens, Next
  PROVE  tokens' \in 0..MaxTokens
<1>1. \/ tokens' = tokens
      \/ tokens' = tokens + 1 /\ tokens < MaxTokens
  BY DEF Next, Written, Again, Parameter, Marker, Call, ExpandValue, EndValue, Branch, Field,
         EndField, EndSplice, Invoke, ReadArgument, Request, render_markers, Return, EndOutput,
         EndPage, Ready, InModule, NextToken
<1> QED BY <1>1, ConstantsAssumption

\* Every step keeps the invariant.
LEMMA Stays == IInv /\ [Next]_vars => IInv'
<1> SUFFICES ASSUME IInv, [Next]_vars PROVE IInv'
  OBVIOUS
<1>1. CASE UNCHANGED vars
  <2>1. UNCHANGED counters /\ stack' = stack /\ tokens' = tokens /\ page' = page
        /\ handed' = handed /\ discarded' = discarded
    BY <1>1 DEF vars, counters, ghosts
  <2>2. Now' = Now
    BY <2>1, NowStays
  <2> QED BY <2>1, <2>2 DEF IInv
<1>2. CASE EndPage
  <2>1. Next
    BY <1>2 DEF Next
  <2>2. /\ Good(stack', Now', handed, discarded) /\ Ghosts /\ stack' = <<>>
        /\ PageDone(page', Now', handed, discarded)
    BY <1>2, EndPageOK
  <2>3. tokens' \in 0..MaxTokens
    BY <2>1, TokensBounded DEF IInv
  <2> QED BY <2>2, <2>3 DEF IInv, Ghosts
<1>3. CASE Next /\ ~EndPage
  <2>1. Good(stack', Now', handed', discarded')
    BY <1>3, GoesOn
  <2>2. stack # <<>> /\ stack' # <<>> /\ page' = page
    BY <1>3, StaysOpen
  <2>3. tokens' \in 0..MaxTokens
    BY <1>3, TokensBounded DEF IInv
  <2> QED BY <2>1, <2>2, <2>3 DEF IInv
<1> QED BY <1>1, <1>2, <1>3

\* The invariant is one of the specification.
THEOREM Invariant == Spec => []IInv
  BY Starts, Stays, PTL DEF Spec
-----------------------------------------------------------------------------
(* The properties. *)

\* The counters, as the state has them.
LEMMA NowIs ==
  /\ Now.about = about /\ Now.next = ext_next_id /\ Now.pending = pending_styles
  /\ Now.fragments = ext_fragments /\ Now.phantom = phantom
  BY DEF Now, Numbers

\* A token that is right is of its kind.
LEMMA ItemTyped ==
  ASSUME Now \in Numberings, NEW it, ItemOK(it, Now)
  PROVE  it \in Items
<1>1. it \in AnyItem /\ it.frag < ext_next_id /\ it.about <= about
      /\ ext_next_id \in Nat /\ about \in Nat
  BY NowIs, CountersType DEF ItemOK
<1>2. /\ it.frag \in Nat /\ it.about \in Nat /\ it.kind \in Tags \union {"nl"}
      /\ it = [kind |-> it.kind, frag |-> it.frag, about |-> it.about]
  BY <1>1 DEF AnyItem
<1>3. it.frag \in 0..(ext_next_id - 1) /\ it.about \in 0..about
  BY <1>1, <1>2
<1> QED BY <1>2, <1>3 DEF Items

\* What the invariant says of the types,
LEMMA TypeHolds == ASSUME IInv PROVE TypeOK
<1>1. /\ stack \in Seq(Walks) /\ Now \in Numberings /\ CountersOK(Now)
      /\ handed \subseteq 1..about /\ discarded \subseteq 1..about
  BY NowIs DEF IInv, Good
<1>2. about \in Nat /\ ext_next_id \in Nat \ {0}
  BY <1>1, NowIs, CountersType DEF CountersOK
<1>3. ASSUME NEW i \in 1..Len(stack)
      PROVE  LET w == stack[i] IN
             /\ w.kind \in Kinds /\ w.gated \in BOOLEAN
             /\ \A s \in {w.rest, w.out, w.done, w.value} : Range(s) \subseteq Items
             /\ w.held \subseteq Items
  <2> DEFINE w == stack[i]
  <2>1. WalkOK(w, Now, handed)
    BY DEF IInv, Good
  <2>2. w \in Walks /\ \A it \in Offered(w) \union Range(Line(w)) : ItemOK(it, Now)
    BY <2>1 DEF WalkOK
  <2> HIDE DEF w
  <2>3. /\ w.kind \in Kinds /\ w.gated \in BOOLEAN
        /\ Range(Line(w)) = Range(w.done) \union Range(w.out)
    BY <2>2, WalkType
  <2>4. Offered(w) \union Range(Line(w)) \subseteq Items
    BY <1>1, <2>2, ItemTyped
  <2>5. /\ Range(w.rest) \subseteq Items /\ Range(w.out) \subseteq Items
        /\ Range(w.done) \subseteq Items /\ Range(w.value) \subseteq Items
        /\ w.held \subseteq Items
    BY <2>3, <2>4 DEF Offered
  <2> QED BY <2>3, <2>5 DEF w
<1>4. /\ pending_styles \union DOMAIN ext_fragments = 1..(ext_next_id - 1)
      /\ pending_styles \intersect DOMAIN ext_fragments = {}
      /\ phantom \subseteq 1..about
  BY <1>1, NowIs DEF CountersOK
<1>5. Range(page) \subseteq Items
  <2>1. CASE stack = <<>>
    <3>1. \A it \in Range(page) : ItemOK(it, Now)
      BY <2>1 DEF IInv, PageDone
    <3> QED BY <1>1, <3>1, ItemTyped
  <2>2. CASE stack # <<>>
    BY <2>2, NoTokens DEF IInv
  <2> QED BY <2>1, <2>2
<1>6. tokens \in 0..MaxTokens
  BY DEF IInv
<1> QED BY <1>1, <1>2, <1>3, <1>4, <1>5, <1>6 DEF TypeOK

\* of what is behind a line break,
LEMMA BehindHolds == ASSUME IInv PROVE NumberedBehind
<1> SUFFICES ASSUME NEW i \in 1..Len(stack), ~stack[i].gated,
                    NEW j \in 1..Len(stack[i].done)
             PROVE  Numbered(stack[i].done[j])
  BY DEF NumberedBehind
<1> DEFINE w == stack[i]
           s == w.done
<1>1. WalkOK(w, Now, handed)
  BY DEF IInv, Good
<1>2. w \in Walks /\ \A it \in Range(s) : NumberedIn(it, Now)
  BY <1>1 DEF WalkOK
<1>3. s \in Seq(AnyItem)
  BY <1>2, WalkType
<1> HIDE DEF s
<1>4. s[j] \in Range(s)
  BY <1>3, InRange DEF s
<1>5. NumberedIn(s[j], Now)
  BY <1>2, <1>4
<1> QED BY <1>5, NowIs DEF NumberedIn, Numbered, IsNewline, s

\* Two tokens of a page that is done show one id only if a module was handed it.
LEMMA TwoTokens ==
  ASSUME NEW c \in Numberings, CountersOK(c), NEW H, NEW D, NEW pg, PageDone(pg, c, H, D),
         NEW i \in 1..Len(pg), NEW j \in 1..Len(pg), pg[i] # Newline, pg[j] # Newline, i # j
  PROVE  /\ NumberedIn(pg[i], c)
         /\ AboutOf(pg[i], c.fragments) = AboutOf(pg[j], c.fragments) => pg[i].about \in H
         /\ IsStyle(pg[i]) /\ IsStyle(pg[j]) => pg[i].frag # pg[j].frag
<1> DEFINE x == pg[i]
           y == pg[j]
           F == c.fragments
<1>1. x \in Range(pg) /\ y \in Range(pg)
  BY InRange DEF PageDone
<1>2. ItemOK(x, c) /\ ItemOK(y, c) /\ NumberedIn(x, c) /\ NumberedIn(y, c)
  BY <1>1 DEF PageDone
<1>3. IsStyle(x) /\ IsStyle(y) => x.frag # y.frag
  BY DEF PageDone, OneEach
<1>4. x.about = y.about /\ x.about # 0 => x.about \in H
  BY DEF PageDone, Apart
<1>5. x # Newline /\ y # Newline
  OBVIOUS
<1> HIDE DEF x, y
<1>6. AboutOf(x, F) # 0 /\ AboutOf(y, F) # 0
  <2>1. ASSUME NEW it, ItemOK(it, c), NumberedIn(it, c), it # Newline PROVE ~IsNewline(it)
    <3>1. CASE IsStyle(it)
      BY <3>1, Zenon DEF IsStyle, IsNewline
    <3> QED BY <2>1, <3>1 DEF ItemOK, OtherOK
  <2> QED BY <1>2, <1>5, <2>1 DEF NumberedIn
<1>7. ASSUME AboutOf(x, F) = AboutOf(y, F) PROVE x.about \in H
  <2>1. CASE IsStyle(x) /\ IsStyle(y)
    <3>1. x.about = 0 /\ y.about = 0
      BY <1>2, <2>1 DEF ItemOK, StyleOK
    <3>2. /\ x.frag \in DOMAIN F /\ y.frag \in DOMAIN F
          /\ AboutOf(x, F) = F[x.frag] /\ AboutOf(y, F) = F[y.frag]
      BY <1>6, <2>1, <3>1, AboutFacts
    <3>3. x.frag = y.frag
      BY <1>6, <1>7, <3>2 DEF CountersOK
    <3> QED BY <1>3, <2>1, <3>3
  <2>2. ASSUME NEW a, NEW b, IsStyle(a), ~IsStyle(b), ItemOK(a, c), ItemOK(b, c),
               AboutOf(a, F) = AboutOf(b, F), AboutOf(a, F) # 0
        PROVE  FALSE
    <3>1. a.about = 0
      BY <2>2 DEF ItemOK, StyleOK
    <3>2. a.frag \in DOMAIN F /\ AboutOf(a, F) = F[a.frag] /\ AboutOf(b, F) = b.about
      BY <2>2, <3>1, AboutFacts
    <3> QED BY <2>2, <3>2 DEF ItemOK, OtherOK
  <2>3. CASE ~IsStyle(x) /\ ~IsStyle(y)
    BY <1>4, <1>6, <1>7, <2>3, AboutFacts
  <2> QED BY <1>2, <1>6, <1>7, <2>1, <2>2, <2>3
<1> QED BY <1>2, <1>3, <1>7 DEF x, y

\* of the ids of the page that is done,
LEMMA DistinctHolds == ASSUME IInv PROVE IdsDistinct
<1> SUFFICES ASSUME Finished,
                    NEW i \in {n \in 1..Len(page) : page[n] # Newline},
                    NEW j \in {n \in 1..Len(page) : page[n] # Newline}
             PROVE  /\ Numbered(page[i])
                    /\ i # j /\ ShownTwice(i, j) => page[i].about \in handed
                    /\ i # j /\ page[i].kind = "style" /\ page[j].kind = "style"
                         => page[i].frag # page[j].frag
  BY DEF IdsDistinct
<1>1. Now \in Numberings /\ CountersOK(Now) /\ PageDone(page, Now, handed, discarded)
  BY DEF IInv, Good, Finished
<1>2. Numbered(page[i])
  <2>1. page[i] \in Range(page)
    BY <1>1, InRange DEF PageDone
  <2>2. NumberedIn(page[i], Now)
    BY <1>1, <2>1 DEF PageDone
  <2> QED BY <2>2, NowIs DEF NumberedIn, Numbered, IsNewline
<1>3. ASSUME i # j
      PROVE  /\ AboutOf(page[i], Now.fragments) = AboutOf(page[j], Now.fragments)
                   => page[i].about \in handed
             /\ IsStyle(page[i]) /\ IsStyle(page[j]) => page[i].frag # page[j].frag
  BY <1>1, <1>3, TwoTokens
<1>4. ShownTwice(i, j) => AboutOf(page[i], Now.fragments) = AboutOf(page[j], Now.fragments)
  BY NowIs DEF ShownTwice
<1>5. \A it : it.kind = "style" => IsStyle(it)
  BY Zenon DEF IsStyle
<1>6. i # j /\ page[i].kind = "style" /\ page[j].kind = "style" => page[i].frag # page[j].frag
  BY <1>3, <1>5, Zenon
<1>7. i # j /\ ShownTwice(i, j) => page[i].about \in handed
  BY <1>3, <1>4, Zenon
<1> QED BY <1>2, <1>6, <1>7, Zenon

\* and of the ids that were taken.
LEMMA AccountedHolds == ASSUME IInv PROVE IdsAccounted
<1> SUFFICES ASSUME Finished
             PROVE  1..about = IdsIn(page, ext_fragments) \union phantom \union discarded \union handed
  BY DEF IdsAccounted
<1>1. Now \in Numberings /\ CountersOK(Now) /\ PageDone(page, Now, handed, discarded)
      /\ handed \subseteq 1..about /\ discarded \subseteq 1..about
  BY NowIs DEF IInv, Good, Finished
<1>2. 1..about \subseteq IdsIn(page, ext_fragments) \union phantom \union discarded \union handed
  BY <1>1, NowIs DEF PageDone
<1>3. phantom \subseteq 1..about
  BY <1>1, NowIs DEF CountersOK
<1>4. IdsIn(page, Now.fragments) \subseteq 1..Now.about
  BY <1>1, ShownTaken DEF PageDone
<1> QED BY <1>1, <1>2, <1>3, <1>4, NowIs

\* Every part of the state is of its kind (parser.rs: ext_next_id, about_counter,
\* the pending stylesheets and the fragments).
THEOREM TypeCorrect == Spec => []TypeOK
  BY Invariant, TypeHolds, PTL

\* Behind a line break of a walk that numbers its chunks no extension waits for
\* its id, whatever was spliced in (number_chunk_extensions).
THEOREM LinesNumbered == Spec => []NumberedBehind
  BY Invariant, BehindHolds, PTL

\* On the page that is done every extension has an id, two show the same one only
\* if a module was handed it, and no stylesheet's fragment is named twice
\* (number_style_placeholder, number_in_place, render_markers).
THEOREM IdsAreDistinct == Spec => []IdsDistinct
  BY Invariant, DistinctHolds, PTL

\* No id is lost: each that was taken is shown, or is the second one of a <ref>,
\* or was taken in text of which only the characters were kept or that a module
\* was handed.
THEOREM IdsAreAccounted == Spec => []IdsAccounted
  BY Invariant, AccountedHolds, PTL
=============================================================================
