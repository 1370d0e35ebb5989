----------------------------- MODULE TreeProofs -----------------------------
(***************************************************************************)
(* The open elements and the tree, for every page.                         *)
(***************************************************************************)
EXTENDS PageTree, SequenceTheorems, WellFoundedInduction, TLAPS

-----------------------------------------------------------------------------
(* Numbers and sequences.                                                   *)

\* A set of numbers that is not empty has a least element.
LEMMA LeastNumber ==
  ASSUME NEW S \in SUBSET Nat, S # {}
  PROVE  \E x \in S : \A y \in S : ~(y < x)
<1> DEFINE R == {p \in Nat \X Nat : p[1] < p[2]}
<1>1. IsWellFoundedOn(R, Nat)
  BY NatLessThanWellFounded DEF OpToRel
<1>2. PICK x \in S : \A y \in S : <<y, x>> \notin R
  <2> HIDE DEF R
  <2> QED BY <1>1, WFMin
<1> QED BY <1>2

\* A set that holds 0 and, with a number below n, the next one, holds all
\* numbers up to n.
LEMMA UpTo ==
  ASSUME NEW n \in Nat, NEW S, 0 \in S, \A k \in 0..(n - 1) : k \in S => k + 1 \in S
  PROVE  0..n \subseteq S
<1> SUFFICES ASSUME 0..n \ S # {} PROVE FALSE
  OBVIOUS
<1> DEFINE T == 0..n \ S
<1>1. T \in SUBSET Nat /\ T # {}
  OBVIOUS
<1>2. PICK x \in T : \A y \in T : ~(y < x)
  <2> HIDE DEF T
  <2> QED BY <1>1, LeastNumber
<1>3. x - 1 \in 0..(n - 1) /\ x - 1 < x
  BY <1>2
<1> QED BY <1>2, <1>3

LEMMA SeqEmpty ==
  ASSUME NEW S
  PROVE  <<>> \in Seq(S)
BY EmptySeq

LEMMA SeqOfFunction ==
  ASSUME NEW T, NEW n \in Nat, NEW f \in [1..n -> T]
  PROVE  f \in Seq(T) /\ Len(f) = n
<1>1. f = [k \in 1..n |-> f[k]] /\ \A k \in 1..n : f[k] \in T
  OBVIOUS
<1>2. f \in Seq(T)
  BY <1>1, IsASeq
<1> QED BY <1>2, LenProperties

\* A set of numbers up to n that is not empty has a greatest element.
LEMMA GreatestNumber ==
  ASSUME NEW n \in Nat, NEW S \in SUBSET (0..n), S # {}
  PROVE  Tree!Max(S) \in S /\ \A y \in S : Tree!Max(S) >= y
<1> DEFINE T == {k \in 0..n : n - k \in S}
<1>a. ASSUME NEW y \in 0..n PROVE n - y \in 0..n /\ n - (n - y) = y
  OBVIOUS
<1>b. ASSUME NEW y \in S PROVE y \in 0..n /\ n - y \in T
  <2>1. y \in 0..n
    OBVIOUS
  <2>2. n - y \in 0..n /\ n - (n - y) = y
    BY <2>1, <1>a
  <2> QED BY <2>1, <2>2
<1>1. T \in SUBSET Nat /\ T # {}
  <2>1. PICK x \in S : TRUE
    OBVIOUS
  <2>2. n - x \in T
    BY <2>1, <1>b
  <2>3. T \in SUBSET Nat
    OBVIOUS
  <2> HIDE DEF T
  <2> QED BY <2>2, <2>3
<1>2. PICK x \in T : \A y \in T : ~(y < x)
  <2> HIDE DEF T
  <2> QED BY <1>1, LeastNumber
<1>3. n - x \in S /\ \A y \in S : n - x >= y
  BY <1>2, <1>b
<1>4. \E m \in S : \A y \in S : m >= y
  BY <1>3
<1> QED BY <1>4 DEF Tree!Max

LEMMA LeastOf ==
  ASSUME NEW S \in SUBSET Nat, S # {}
  PROVE  Tree!Min(S) \in S /\ \A y \in S : Tree!Min(S) =< y
<1>1. PICK x \in S : \A y \in S : ~(y < x)
  BY LeastNumber
<1>2. \E m \in S : \A y \in S : m =< y
  BY <1>1
<1> QED BY <1>2 DEF Tree!Min

\* The highest of some places, 0 if there is none.
LEMMA HighestOf ==
  ASSUME NEW n \in Nat, NEW S \in SUBSET (1..n)
  PROVE  /\ Tree!Highest(S) \in 0..n
         /\ Tree!Highest(S) # 0 => Tree!Highest(S) \in S
         /\ \A y \in S : Tree!Highest(S) >= y
<1> DEFINE T == S \union {0}
<1>1. T \in SUBSET (0..n) /\ T # {}
  OBVIOUS
<1>2. Tree!Max(T) \in T /\ \A y \in T : Tree!Max(T) >= y
  <2> HIDE DEF T
  <2> QED BY <1>1, GreatestNumber
<1>3. Tree!Highest(S) = Tree!Max(T)
  BY DEF Tree!Highest
<1> QED BY <1>1, <1>2, <1>3

IsSeq(s) == \E U : s \in Seq(U)
In(x, s) == \E k \in 1..Len(s) : s[k] = x
Apart(s) == \A i, j \in 1..Len(s) : s[i] = s[j] => i = j

LEMMA SeqFacts ==
  ASSUME NEW s, IsSeq(s)
  PROVE  Len(s) \in Nat /\ DOMAIN s = 1..Len(s)
BY LenProperties DEF IsSeq

LEMMA SeqAppend ==
  ASSUME NEW s, IsSeq(s), NEW x, NEW r, r = Append(s, x)
  PROVE  /\ IsSeq(r) /\ Len(r) = Len(s) + 1
         /\ \A k \in 1..Len(s) : r[k] = s[k]
         /\ r[Len(s) + 1] = x
<1>1. PICK U : s \in Seq(U)
  BY DEF IsSeq
<1>2. s \in Seq(U \union {x}) /\ x \in U \union {x}
  BY <1>1, SeqMonotonic
<1> DEFINE V == U \union {x}
<1>3. s \in Seq(V) /\ x \in V
  BY <1>2
<1> HIDE DEF V
<1> QED BY <1>3, AppendProperties DEF IsSeq

LEMMA SeqExcept ==
  ASSUME NEW s, IsSeq(s), NEW i \in 1..Len(s), NEW x, NEW r, r = Tree!ReplaceAt(s, i, x)
  PROVE  /\ IsSeq(r) /\ Len(r) = Len(s)
         /\ \A k \in 1..Len(s) : r[k] = IF k = i THEN x ELSE s[k]
<1>1. PICK U : s \in Seq(U)
  BY DEF IsSeq
<1> DEFINE V == U \union {x}
<1>3. s \in Seq(V) /\ x \in V
  BY <1>1, SeqMonotonic
<1> HIDE DEF V
<1> QED BY <1>3, ExceptSeq DEF IsSeq, Tree!ReplaceAt

LEMMA SeqMade ==
  ASSUME NEW n \in Nat, NEW f, f = [k \in 1..n |-> f[k]]
  PROVE  IsSeq(f) /\ Len(f) = n
<1> DEFINE T == {f[k] : k \in 1..n}
<1>1. f \in [1..n -> T]
  OBVIOUS
<1> HIDE DEF T
<1>2. f \in Seq(T) /\ DOMAIN f = 1..n
  BY <1>1, SeqOfFunction
<1> QED BY <1>2, LenProperties DEF IsSeq

\* One sequence and then another; a part of a sequence.
LEMMA Joined ==
  ASSUME NEW S, NEW s \in Seq(S), NEW t \in Seq(S), NEW r, r = s \o t
  PROVE  /\ r \in Seq(S) /\ Len(r) = Len(s) + Len(t)
         /\ \A k \in 1..Len(s) : r[k] = s[k]
         /\ \A k \in 1..Len(t) : r[Len(s) + k] = t[k]
<1>0. Len(s) \in Nat /\ Len(t) \in Nat
  BY LenProperties
<1>1. /\ r \in Seq(S) /\ Len(r) = Len(s) + Len(t)
      /\ \A i \in 1..Len(s) + Len(t) : r[i] = IF i <= Len(s) THEN s[i] ELSE t[i - Len(s)]
  BY ConcatProperties
<1>2. ASSUME NEW k \in 1..Len(t) PROVE r[Len(s) + k] = t[k]
  <2>1. /\ Len(s) + k \in 1..Len(s) + Len(t) /\ ~(Len(s) + k <= Len(s))
        /\ (Len(s) + k) - Len(s) = k
    BY <1>0
  <2> QED BY <1>1, <2>1
<1>3. ASSUME NEW k \in 1..Len(s) PROVE r[k] = s[k]
  <2>1. k \in 1..Len(s) + Len(t) /\ k <= Len(s)
    BY <1>0
  <2> QED BY <1>1, <2>1
<1> QED BY <1>1, <1>2, <1>3

LEMMA PartOf ==
  ASSUME NEW S, NEW s \in Seq(S), NEW m \in 1..(Len(s) + 1), NEW n \in (m - 1)..Len(s), NEW r,
         r = SubSeq(s, m, n)
  PROVE  /\ r \in Seq(S) /\ Len(r) = (n - m) + 1
         /\ \A k \in 1..Len(r) : r[k] = s[(m - 1) + k]
<1>0. Len(s) \in Nat /\ \A k \in 1..Len(s) : s[k] \in S
  BY LenProperties, ElementOfSeq
<1>1. m \in Int /\ n \in Int /\ \A i \in m..n : s[i] \in S
  BY <1>0
<1>2. /\ r \in Seq(S) /\ Len(r) = IF m <= n THEN n - m + 1 ELSE 0
      /\ \A i \in 1..n - m + 1 : r[i] = s[m + i - 1]
  BY <1>1, SubSeqProperties
<1>3. Len(r) = (n - m) + 1
  BY <1>0, <1>2
<1>4. ASSUME NEW k \in 1..Len(r) PROVE r[k] = s[(m - 1) + k]
  <2>1. k \in 1..n - m + 1 /\ m + k - 1 = (m - 1) + k
    BY <1>0, <1>3
  <2> QED BY <1>2, <2>1
<1> QED BY <1>2, <1>3, <1>4

\* What is left of a sequence without one of its elements.
LEMMA Removed ==
  ASSUME NEW S, NEW s \in Seq(S), NEW x, NEW r, r = Tree!RemoveFirst(s, x)
  PROVE  /\ r \in Seq(S)
         /\ \A y : In(y, r) => In(y, s)
         /\ \A y : In(y, s) /\ y # x => In(y, r)
         /\ Apart(s) => Apart(r) /\ ~In(x, r)
<1> DEFINE n == Len(s)
<1>0. n \in Nat /\ \A k \in 1..n : s[k] \in S
  BY LenProperties, ElementOfSeq
<1>1. ASSUME \A i \in 1..n : s[i] # x
      PROVE  r = s /\ ~In(x, s)
  BY <1>1 DEF Tree!RemoveFirst, In
<1>2. ASSUME NEW i0 \in 1..n, s[i0] = x
      PROVE  /\ r \in Seq(S)
             /\ \A y : In(y, r) => In(y, s)
             /\ \A y : In(y, s) /\ y # x => In(y, r)
             /\ Apart(s) => Apart(r) /\ ~In(x, r)
  <2> DEFINE I == {k \in 1..n : s[k] = x}
             i == Tree!Min(I)
             s1 == SubSeq(s, 1, i - 1)
             s2 == SubSeq(s, i + 1, n)
  <2>1. i \in 1..n /\ s[i] = x
    <3>1. I \in SUBSET Nat /\ I # {}
      BY <1>0, <1>2
    <3> HIDE DEF I
    <3>2. i \in I
      BY <3>1, LeastOf
    <3> QED BY <3>2 DEF I
  <2>2. r = s1 \o s2
    <3>1. Tree!SelectInSeq(s, LAMBDA v : v = x) = i
      BY <1>2 DEF Tree!SelectInSeq
    <3> HIDE DEF i
    <3>2. r = Tree!RemoveAt(s, Tree!SelectInSeq(s, LAMBDA v : v = x))
      BY <1>2 DEF Tree!RemoveFirst
    <3>3. r = Tree!RemoveAt(s, i)
      BY <3>1, <3>2
    <3> QED BY <3>3 DEF Tree!RemoveAt
  <2> HIDE DEF i
  <2>a. i \in 1..n /\ 1 \in 1..(n + 1) /\ i - 1 \in (1 - 1)..n /\ i + 1 \in 1..(n + 1) /\ n \in ((i + 1) - 1)..n
    BY <1>0, <2>1
  <2>3. s1 \in Seq(S) /\ Len(s1) = i - 1 /\ \A k \in 1..(i - 1) : s1[k] = s[k]
    <3>1. /\ s1 \in Seq(S) /\ Len(s1) = ((i - 1) - 1) + 1
          /\ \A k \in 1..Len(s1) : s1[k] = s[(1 - 1) + k]
      BY <2>a, PartOf
    <3> QED BY <1>0, <2>1, <3>1
  <2>4. s2 \in Seq(S) /\ Len(s2) = n - i /\ \A k \in 1..(n - i) : s2[k] = s[i + k]
    <3>1. /\ s2 \in Seq(S) /\ Len(s2) = (n - (i + 1)) + 1
          /\ \A k \in 1..Len(s2) : s2[k] = s[((i + 1) - 1) + k]
      BY <2>a, PartOf
    <3> QED BY <1>0, <2>1, <3>1
  <2> HIDE DEF s1, s2
  <2>5. /\ r \in Seq(S) /\ Len(r) = n - 1
        /\ \A k \in 1..(i - 1) : r[k] = s[k]
        /\ \A k \in 1..(n - i) : r[(i - 1) + k] = s[i + k]
    <3>0. s1 \in Seq(S) /\ s2 \in Seq(S)
      BY <2>3, <2>4
    <3>1. /\ r \in Seq(S) /\ Len(r) = Len(s1) + Len(s2)
          /\ \A k \in 1..Len(s1) : r[k] = s1[k]
          /\ \A k \in 1..Len(s2) : r[Len(s1) + k] = s2[k]
      BY <2>2, <3>0, Joined
    <3> QED BY <1>0, <2>1, <2>3, <2>4, <3>1
  <2>6. ASSUME NEW k \in 1..(n - 1)
        PROVE  \E j \in 1..n : j # i /\ r[k] = s[j] /\ j = IF k < i THEN k ELSE k + 1
    <3>1. CASE k < i
      BY <1>0, <2>1, <2>5, <3>1
    <3>2. CASE ~(k < i)
      <4>1. (k + 1) - i \in 1..(n - i) /\ (i - 1) + ((k + 1) - i) = k /\ i + ((k + 1) - i) = k + 1
        BY <1>0, <2>1, <3>2
      <4>2. r[k] = s[k + 1]
        BY <2>5, <4>1
      <4> QED BY <1>0, <2>1, <3>2, <4>2
    <3> QED BY <3>1, <3>2
  <2>7. ASSUME NEW y, In(y, r) PROVE In(y, s)
    BY <2>5, <2>6, <2>7 DEF In
  <2>8. ASSUME NEW y, In(y, s), y # x PROVE In(y, r)
    <3>1. PICK k \in 1..n : s[k] = y
      BY <2>8 DEF In
    <3>2. k # i
      BY <2>1, <2>8, <3>1
    <3>3. CASE k < i
      <4>1. k \in 1..(n - 1) /\ k \in 1..(i - 1)
        BY <1>0, <2>1, <3>3
      <4> QED BY <2>5, <3>1, <4>1 DEF In
    <3>4. CASE k > i
      <4>1. k - 1 \in 1..(n - 1) /\ k - i \in 1..(n - i) /\ (i - 1) + (k - i) = k - 1 /\ i + (k - i) = k
        BY <1>0, <2>1, <3>4
      <4>2. r[k - 1] = s[k]
        BY <2>5, <4>1
      <4> QED BY <2>5, <3>1, <4>1, <4>2 DEF In
    <3> QED BY <1>0, <2>1, <3>2, <3>3, <3>4
  <2>9. ASSUME Apart(s) PROVE Apart(r) /\ ~In(x, r)
    <3>0. \A p, q \in 1..n : s[p] = s[q] => p = q
      BY <2>9 DEF Apart
    <3>2. ASSUME NEW k \in 1..(n - 1) PROVE r[k] # x
      BY <2>1, <2>6, <3>0
    <3>3. ASSUME NEW k \in 1..(n - 1), NEW j \in 1..(n - 1), r[k] = r[j] PROVE k = j
      <4>1. PICK k1 \in 1..n : r[k] = s[k1] /\ k1 = IF k < i THEN k ELSE k + 1
        BY <2>6
      <4>2. PICK j1 \in 1..n : r[j] = s[j1] /\ j1 = IF j < i THEN j ELSE j + 1
        BY <2>6
      <4>3. k1 = j1
        BY <3>0, <3>3, <4>1, <4>2
      <4> QED BY <1>0, <2>1, <4>1, <4>2, <4>3
    <3> QED BY <2>5, <3>2, <3>3 DEF Apart, In
  <2> QED BY <2>5, <2>7, <2>8, <2>9
<1>3. CASE \A i \in 1..n : s[i] # x
  BY <1>1, <1>3
<1>4. CASE \E i \in 1..n : s[i] = x
  BY <1>2, <1>4
<1> QED BY <1>3, <1>4

\* A sequence with one element more.
LEMMA Inserted ==
  ASSUME NEW S, NEW s \in Seq(S), NEW i \in 1..(Len(s) + 1), NEW x \in S, NEW r,
         r = Tree!InsertAt(s, i, x)
  PROVE  /\ r \in Seq(S) /\ Len(r) = Len(s) + 1 /\ r[i] = x
         /\ \A y : In(y, r) <=> y = x \/ In(y, s)
         /\ Apart(s) /\ ~In(x, s) => Apart(r)
<1> DEFINE n == Len(s)
           s1 == SubSeq(s, 1, i - 1)
           e == <<x>>
           t == s1 \o e
           s2 == SubSeq(s, i, n)
<1>0. n \in Nat /\ \A k \in 1..n : s[k] \in S
  BY LenProperties, ElementOfSeq
<1>a. 1 \in 1..(n + 1) /\ i - 1 \in (1 - 1)..n /\ i \in 1..(n + 1) /\ n \in (i - 1)..n
  BY <1>0
<1>2. r = t \o s2
  BY DEF Tree!InsertAt
<1>3. s1 \in Seq(S) /\ Len(s1) = i - 1 /\ \A k \in 1..(i - 1) : s1[k] = s[k]
  <2>1. /\ s1 \in Seq(S) /\ Len(s1) = ((i - 1) - 1) + 1
        /\ \A k \in 1..Len(s1) : s1[k] = s[(1 - 1) + k]
    BY <1>a, PartOf
  <2> QED BY <1>0, <2>1
<1>4. s2 \in Seq(S) /\ Len(s2) = (n - i) + 1 /\ \A k \in 1..((n - i) + 1) : s2[k] = s[(i - 1) + k]
  BY <1>a, PartOf
<1>5. e \in Seq(S) /\ Len(e) = 1 /\ e[1] = x
  OBVIOUS
<1> HIDE DEF s1, s2, e
<1>6. t \in Seq(S) /\ Len(t) = i /\ t[i] = x /\ \A k \in 1..(i - 1) : t[k] = s[k]
  <2>0. s1 \in Seq(S) /\ e \in Seq(S)
    BY <1>3, <1>5
  <2>1. /\ t \in Seq(S) /\ Len(t) = Len(s1) + Len(e)
        /\ \A k \in 1..Len(s1) : t[k] = s1[k]
        /\ \A k \in 1..Len(e) : t[Len(s1) + k] = e[k]
    BY <2>0, Joined
  <2>2. (i - 1) + 1 = i /\ 1 \in 1..1
    BY <1>0
  <2> QED BY <1>3, <1>5, <2>1, <2>2
<1> HIDE DEF t
<1>7. /\ r \in Seq(S) /\ Len(r) = n + 1 /\ r[i] = x
      /\ \A k \in 1..(i - 1) : r[k] = s[k]
      /\ \A k \in i..n : r[k + 1] = s[k]
  <2>0. t \in Seq(S) /\ s2 \in Seq(S)
    BY <1>4, <1>6
  <2>1. /\ r \in Seq(S) /\ Len(r) = Len(t) + Len(s2)
        /\ \A k \in 1..Len(t) : r[k] = t[k]
        /\ \A k \in 1..Len(s2) : r[Len(t) + k] = s2[k]
    BY <1>2, <2>0, Joined
  <2>2. ASSUME NEW k \in i..n PROVE r[k + 1] = s[k]
    <3>1. (k - i) + 1 \in 1..((n - i) + 1) /\ i + ((k - i) + 1) = k + 1 /\ (i - 1) + ((k - i) + 1) = k
      BY <1>0
    <3>2. (k - i) + 1 \in 1..Len(s2) /\ Len(t) = i
      BY <1>4, <1>6, <3>1
    <3>3. r[Len(t) + ((k - i) + 1)] = s2[(k - i) + 1]
      BY <2>1, <3>2
    <3> QED BY <1>4, <3>1, <3>2, <3>3
  <2> QED BY <1>0, <1>4, <1>6, <2>1, <2>2
<1>8. ASSUME NEW y PROVE In(y, r) <=> y = x \/ In(y, s)
  <2>1. ASSUME In(y, r) PROVE y = x \/ In(y, s)
    <3>1. PICK k \in 1..(n + 1) : r[k] = y
      BY <1>7, <2>1 DEF In
    <3>2. CASE k < i
      <4>1. k \in 1..n /\ k \in 1..(i - 1)
        BY <1>0, <3>2
      <4> QED BY <1>7, <3>1, <4>1 DEF In
    <3>3. CASE k > i
      <4>1. k - 1 \in 1..n /\ k - 1 \in i..n /\ (k - 1) + 1 = k
        BY <1>0, <3>3
      <4> QED BY <1>7, <3>1, <4>1 DEF In
    <3> QED BY <1>0, <1>7, <3>1, <3>2, <3>3
  <2>2. ASSUME In(y, s) PROVE In(y, r)
    <3>1. PICK k \in 1..n : s[k] = y
      BY <2>2 DEF In
    <3>2. CASE k < i
      <4>1. k \in 1..(n + 1) /\ k \in 1..(i - 1)
        BY <1>0, <3>2
      <4> QED BY <1>7, <3>1, <4>1 DEF In
    <3>3. CASE ~(k < i)
      <4>1. k + 1 \in 1..(n + 1) /\ k \in i..n
        BY <1>0, <3>3
      <4> QED BY <1>7, <3>1, <4>1 DEF In
    <3> QED BY <3>2, <3>3
  <2>3. In(x, r)
    BY <1>0, <1>7 DEF In
  <2> QED BY <2>1, <2>2, <2>3
<1>9. ASSUME Apart(s), ~In(x, s) PROVE Apart(r)
  <2>0. (\A k \in 1..n : s[k] # x) /\ (\A p, q \in 1..n : s[p] = s[q] => p = q)
    BY <1>9 DEF In, Apart
  <2>1. ASSUME NEW k \in 1..(n + 1)
        PROVE  \/ k = i /\ r[k] = x
               \/ k < i /\ k \in 1..n /\ r[k] = s[k]
               \/ k > i /\ k - 1 \in 1..n /\ r[k] = s[k - 1]
    <3>1. CASE k < i
      BY <1>0, <1>7, <3>1
    <3>2. CASE k > i
      <4>1. k - 1 \in 1..n /\ k - 1 \in i..n /\ (k - 1) + 1 = k
        BY <1>0, <3>2
      <4> QED BY <1>7, <3>2, <4>1
    <3> QED BY <1>0, <1>7, <3>1, <3>2
  <2>2. ASSUME NEW k \in 1..(n + 1), NEW j \in 1..(n + 1), r[k] = r[j] PROVE k = j
    <3>1. \/ k = i /\ r[k] = x
          \/ k < i /\ k \in 1..n /\ r[k] = s[k]
          \/ k > i /\ k - 1 \in 1..n /\ r[k] = s[k - 1]
      BY <2>1
    <3>2. \/ j = i /\ r[j] = x
          \/ j < i /\ j \in 1..n /\ r[j] = s[j]
          \/ j > i /\ j - 1 \in 1..n /\ r[j] = s[j - 1]
      BY <2>1
    <3> QED BY <1>0, <2>0, <2>2, <3>1, <3>2
  <2> QED BY <1>7, <2>2 DEF Apart
<1> QED BY <1>7, <1>8, <1>9

-----------------------------------------------------------------------------
(* The tree. The parent of a node is the one that has it among its children. *)

NodeFields == {"name", "tag", "parent", "kids", "held"}
NodeShaped(n) == n = [f \in NodeFields |-> n[f]]

Linked(d) ==
  /\ IsSeq(d)
  /\ \A id \in 1..Len(d) :
        /\ NodeShaped(d[id])
        /\ d[id].parent \in 0..Len(d)
        /\ d[id].kids \in Seq(1..Len(d)) /\ Apart(d[id].kids)
        /\ \A kid \in 1..Len(d) : In(kid, d[id].kids) <=> d[kid].parent = id

\* Nodes keep their names and parents, whatever nodes are added.
Same(d, e) ==
  /\ Len(e) >= Len(d)
  /\ \A id \in 1..Len(d) : e[id].name = d[id].name /\ e[id].parent = d[id].parent

\* One node has come to have another parent.
Moved(d, e, id, parent) ==
  /\ Len(e) = Len(d)
  /\ \A k \in 1..Len(d) : /\ e[k].name = d[k].name
                          /\ e[k].parent = IF k = id THEN parent ELSE d[k].parent

WithKids(n, kids) == [n EXCEPT !.kids = kids]
WithParent(n, parent) == [n EXCEPT !.parent = parent]

LEMMA KidsSet ==
  ASSUME NEW n, NodeShaped(n), NEW r, NEW m, m = WithKids(n, r)
  PROVE  NodeShaped(m) /\ m.name = n.name /\ m.parent = n.parent /\ m.kids = r
BY DEF NodeShaped, NodeFields, WithKids

LEMMA ParentSet ==
  ASSUME NEW n, NodeShaped(n), NEW r, NEW m, m = WithParent(n, r)
  PROVE  NodeShaped(m) /\ m.name = n.name /\ m.parent = r /\ m.kids = n.kids
BY DEF NodeShaped, NodeFields, WithParent

WithNode(d, name, tag, held) == Append(d, Tree!Node(name, tag, held))

LEMMA LinkedAppend ==
  ASSUME NEW d, Linked(d), NEW name, NEW tag, NEW held, NEW e,
         e = WithNode(d, name, tag, held)
  PROVE  /\ Linked(e) /\ Len(e) = Len(d) + 1 /\ Same(d, e)
         /\ e[Len(d) + 1].name = name /\ e[Len(d) + 1].parent = 0
         /\ e[Len(d) + 1].kids = <<>>
         /\ \A id \in 1..Len(d) : e[id] = d[id]
<1> DEFINE n == Len(d)
           new == Tree!Node(name, tag, held)
<1>0. IsSeq(d) /\ n \in Nat
  BY SeqFacts DEF Linked
<1>1. /\ NodeShaped(new) /\ new.name = name /\ new.parent = 0 /\ new.kids = <<>>
  BY DEF Tree!Node, NodeShaped, NodeFields
<1>1a. /\ new.kids \in Seq(1..(n + 1)) /\ Apart(new.kids) /\ \A x : ~In(x, new.kids)
  <2>1. <<>> \in Seq(1..(n + 1)) /\ Apart(<<>>) /\ \A x : ~In(x, <<>>)
    BY SeqEmpty DEF Apart, In
  <2> QED BY <1>1, <2>1
<1>1b. e = Append(d, new)
  BY DEF WithNode
<1> HIDE DEF new
<1>2. /\ IsSeq(e) /\ Len(e) = n + 1
      /\ \A k \in 1..n : e[k] = d[k]
      /\ e[n + 1] = new
  BY <1>0, <1>1b, SeqAppend
<1>3. ASSUME NEW id \in 1..n
      PROVE  /\ NodeShaped(d[id]) /\ d[id].parent \in 0..n
             /\ d[id].kids \in Seq(1..n) /\ Apart(d[id].kids)
             /\ \A kid \in 1..n : In(kid, d[id].kids) <=> d[kid].parent = id
             /\ ~In(n + 1, d[id].kids)
  <2>1. d[id].kids \in Seq(1..n)
    BY DEF Linked
  <2>2. \A k \in 1..Len(d[id].kids) : d[id].kids[k] \in 1..n
    BY <2>1, ElementOfSeq
  <2>3. n + 1 \notin 1..n
    BY <1>0
  <2> QED BY <2>1, <2>2, <2>3 DEF Linked, In
<1>4. ASSUME NEW id \in 1..(n + 1)
      PROVE  /\ NodeShaped(e[id]) /\ e[id].parent \in 0..(n + 1)
             /\ e[id].kids \in Seq(1..(n + 1)) /\ Apart(e[id].kids)
             /\ \A kid \in 1..(n + 1) : In(kid, e[id].kids) <=> e[kid].parent = id
  <2>1. CASE id = n + 1
    <3>1. ASSUME NEW kid \in 1..(n + 1) PROVE e[kid].parent # n + 1
      <4>1. kid \in 1..n \/ kid = n + 1
        BY <1>0
      <4>2. 0 # n + 1 /\ n + 1 \notin 0..n
        BY <1>0
      <4> QED BY <1>1, <1>2, <1>3, <4>1, <4>2
    <3>2. 0 \in 0..(n + 1)
      BY <1>0
    <3> QED BY <1>1, <1>1a, <1>2, <2>1, <3>1, <3>2
  <2>2. CASE id \in 1..n
    <3>1. 1..n \subseteq 1..(n + 1)
      BY <1>0
    <3>2. e[id].kids \in Seq(1..(n + 1))
      <4>1. e[id].kids \in Seq(1..n)
        BY <1>2, <1>3, <2>2
      <4> QED BY <3>1, <4>1, SeqMonotonic
    <3>3. ASSUME NEW kid \in 1..(n + 1) PROVE In(kid, e[id].kids) <=> e[kid].parent = id
      <4>1. CASE kid \in 1..n
        BY <1>2, <1>3, <2>2, <4>1
      <4>2. CASE kid = n + 1
        <5>1. id # 0
          BY <2>2
        <5> QED BY <1>1, <1>2, <1>3, <2>2, <4>2, <5>1
      <4> QED BY <1>0, <4>1, <4>2
    <3>4. d[id].parent \in 0..(n + 1)
      BY <1>0, <1>3, <2>2
    <3> QED BY <1>2, <1>3, <2>2, <3>2, <3>3, <3>4
  <2> QED BY <1>0, <2>1, <2>2
<1>5. Linked(e)
  BY <1>2, <1>4 DEF Linked
<1>6. Same(d, e)
  BY <1>0, <1>2 DEF Same
<1> QED BY <1>1, <1>2, <1>5, <1>6

\* A node that leaves the children of its parent for those of another.
LEMMA Relinked ==
  ASSUME NEW d, Linked(d), NEW parent \in 1..Len(d), NEW id \in 1..Len(d), NEW e,
         IsSeq(e), Len(e) = Len(d),
         \A k \in 1..Len(d) :
             /\ NodeShaped(e[k])
             /\ e[k].parent = IF k = id THEN parent ELSE d[k].parent
             /\ e[k].kids \in Seq(1..Len(d)) /\ Apart(e[k].kids)
             /\ \A y : In(y, e[k].kids) <=> \/ y = id /\ k = parent
                                            \/ y # id /\ In(y, d[k].kids)
  PROVE  Linked(e)
<1>0. Len(d) \in Nat
  BY SeqFacts DEF Linked
<1>1. ASSUME NEW k \in 1..Len(e) PROVE e[k].parent \in 0..Len(e)
  <2>1. d[k].parent \in 0..Len(d)
    BY DEF Linked
  <2> QED BY <1>0, <2>1
<1>2. ASSUME NEW k \in 1..Len(e), NEW kid \in 1..Len(e)
      PROVE  In(kid, e[k].kids) <=> e[kid].parent = k
  <2>1. In(kid, d[k].kids) <=> d[kid].parent = k
    BY DEF Linked
  <2>2. e[kid].parent = IF kid = id THEN parent ELSE d[kid].parent
    OBVIOUS
  <2>3. In(kid, e[k].kids) <=> \/ kid = id /\ k = parent
                               \/ kid # id /\ In(kid, d[k].kids)
    OBVIOUS
  <2> QED BY <2>1, <2>2, <2>3
<1> QED BY <1>1, <1>2 DEF Linked

-----------------------------------------------------------------------------
(* The builder, as far as its other fields are concerned. *)

Fields ==
  {"dom", "stack", "afe", "foster_parenting", "pending_table_characters", "mode",
   "original_mode", "result"}
Shaped(b) == b = [f \in Fields |-> b[f]]

\* All but the tree.
Rest(b, c) ==
  /\ Shaped(c)
  /\ c.stack = b.stack /\ c.afe = b.afe
  /\ c.pending_table_characters = b.pending_table_characters

LEMMA Detached ==
  ASSUME NEW b, Shaped(b), Linked(b.dom), NEW id \in 1..Len(b.dom), NEW c, c = Tree!detach(b, id)
  PROVE  /\ Rest(b, c)
         /\ IsSeq(c.dom) /\ Len(c.dom) = Len(b.dom)
         /\ \A k \in 1..Len(b.dom) :
               /\ NodeShaped(c.dom[k])
               /\ c.dom[k].name = b.dom[k].name /\ c.dom[k].parent = b.dom[k].parent
               /\ c.dom[k].kids \in Seq(1..Len(b.dom)) /\ Apart(c.dom[k].kids)
               /\ \A y : In(y, c.dom[k].kids) <=> y # id /\ In(y, b.dom[k].kids)
<1> DEFINE d == b.dom
           p == d[id].parent
           n == Len(d)
<1>0. /\ IsSeq(d) /\ n \in Nat /\ p \in 0..n
      /\ \A k \in 1..n : /\ NodeShaped(d[k])
                         /\ d[k].kids \in Seq(1..n) /\ Apart(d[k].kids)
                         /\ In(id, d[k].kids) <=> p = k
  BY SeqFacts DEF Linked
<1>1. CASE p = 0
  <2>1. c = b
    BY <1>1 DEF Tree!detach
  <2>2. \A k \in 1..n : ~In(id, d[k].kids)
    BY <1>0, <1>1
  <2> QED BY <1>0, <2>1, <2>2 DEF Rest
<1>2. CASE p # 0
  <2> DEFINE r == Tree!RemoveFirst(d[p].kids, id)
             new == WithKids(d[p], r)
  <2>0. p \in 1..n
    BY <1>0, <1>2
  <2>1. /\ c.dom = Tree!ReplaceAt(d, p, new) /\ Rest(b, c)
    BY <1>2 DEF Tree!detach, Rest, Shaped, Fields, WithKids, Tree!ReplaceAt
  <2>2. /\ r \in Seq(1..n) /\ Apart(r) /\ ~In(id, r)
        /\ \A y : In(y, r) <=> y # id /\ In(y, d[p].kids)
    <3>1. d[p].kids \in Seq(1..n) /\ Apart(d[p].kids)
      BY <1>0, <2>0
    <3> HIDE DEF r
    <3> QED BY <3>1, Removed DEF r
  <2> HIDE DEF r
  <2>3. NodeShaped(new) /\ new.name = d[p].name /\ new.parent = d[p].parent /\ new.kids = r
    <3>1. NodeShaped(d[p])
      BY <1>0, <2>0
    <3> QED BY <3>1, KidsSet
  <2> HIDE DEF new
  <2>4. /\ IsSeq(c.dom) /\ Len(c.dom) = n
        /\ \A k \in 1..n : c.dom[k] = IF k = p THEN new ELSE d[k]
    <3>1. IsSeq(d) /\ p \in 1..Len(d) /\ c.dom = Tree!ReplaceAt(d, p, new)
      BY <1>0, <2>0, <2>1
    <3> HIDE DEF d, p
    <3>2. /\ IsSeq(c.dom) /\ Len(c.dom) = Len(d)
          /\ \A k \in 1..Len(d) : c.dom[k] = IF k = p THEN new ELSE d[k]
      BY <3>1, SeqExcept
    <3> QED BY <3>2
  <2>5. ASSUME NEW k \in 1..n
        PROVE  /\ NodeShaped(c.dom[k])
               /\ c.dom[k].name = d[k].name /\ c.dom[k].parent = d[k].parent
               /\ c.dom[k].kids \in Seq(1..n) /\ Apart(c.dom[k].kids)
               /\ \A y : In(y, c.dom[k].kids) <=> y # id /\ In(y, d[k].kids)
    <3>1. CASE k = p
      BY <2>2, <2>3, <2>4, <3>1
    <3>2. CASE k # p
      <4>1. ~In(id, d[k].kids) /\ c.dom[k] = d[k]
        BY <1>0, <2>4, <3>2
      <4> QED BY <1>0, <4>1
    <3> QED BY <3>1, <3>2
  <2> QED BY <2>1, <2>4, <2>5
<1> QED BY <1>1, <1>2

LEMMA Attached ==
  ASSUME NEW b, Shaped(b), Linked(b.dom), NEW parent \in 1..Len(b.dom), NEW id \in 1..Len(b.dom),
         NEW pos \in Nat \ {0}, NEW c, c = Tree!Attach(b, parent, pos, id)
  PROVE  Rest(b, c) /\ Linked(c.dom) /\ Moved(b.dom, c.dom, id, parent)
<1> DEFINE d == b.dom
           n == Len(d)
           free == Tree!detach(b, id)
           f == free.dom
           kids == f[parent].kids
           i == IF pos > Len(kids) THEN Len(kids) + 1 ELSE pos
           r == Tree!InsertAt(kids, i, id)
           d1 == Tree!ReplaceAt(f, parent, WithKids(f[parent], r))
           d2 == Tree!ReplaceAt(d1, id, WithParent(d1[id], parent))
<1>0. n \in Nat
  BY SeqFacts DEF Linked
<1>1. /\ Rest(b, free) /\ IsSeq(f) /\ Len(f) = n
      /\ \A k \in 1..n :
               /\ NodeShaped(f[k])
               /\ f[k].name = d[k].name /\ f[k].parent = d[k].parent
               /\ f[k].kids \in Seq(1..n) /\ Apart(f[k].kids)
               /\ \A y : In(y, f[k].kids) <=> y # id /\ In(y, d[k].kids)
  BY Detached
<1>2. c.dom = d2 /\ Rest(b, c)
  <2>1. c = [free EXCEPT !.dom = d2]
    BY DEF Tree!Attach, Tree!ReplaceAt, WithKids, WithParent
  <2> HIDE DEF free, d2
  <2> QED BY <1>1, <2>1 DEF Rest, Shaped, Fields
<1> HIDE DEF free, f
<1>3. /\ r \in Seq(1..n) /\ Apart(r)
      /\ \A y : In(y, r) <=> y = id \/ In(y, kids)
  <2>1. kids \in Seq(1..n) /\ Apart(kids) /\ ~In(id, kids)
    BY <1>1
  <2>2. Len(kids) \in Nat
    BY <2>1, LenProperties
  <2>3. i \in 1..(Len(kids) + 1)
    BY <2>2
  <2> HIDE DEF kids, i, r
  <2> QED BY <2>1, <2>3, Inserted DEF r
<1> HIDE DEF r
<1> DEFINE host == WithKids(f[parent], r)
<1>3a. NodeShaped(host) /\ host.name = d[parent].name /\ host.parent = d[parent].parent /\ host.kids = r
  <2>1. NodeShaped(f[parent])
    BY <1>1
  <2> HIDE DEF host
  <2>2. /\ NodeShaped(host) /\ host.name = f[parent].name /\ host.parent = f[parent].parent
        /\ host.kids = r
    BY <2>1, KidsSet DEF host
  <2> QED BY <1>1, <2>2
<1>3b. d1 = Tree!ReplaceAt(f, parent, host)
  OBVIOUS
<1> HIDE DEF host, d1
<1>4. /\ IsSeq(d1) /\ Len(d1) = n
      /\ \A k \in 1..n : d1[k] = IF k = parent THEN host ELSE f[k]
  BY <1>1, <1>3b, SeqExcept
<1>5. ASSUME NEW k \in 1..n
      PROVE  /\ NodeShaped(d1[k]) /\ d1[k].name = d[k].name /\ d1[k].parent = d[k].parent
             /\ d1[k].kids = IF k = parent THEN r ELSE f[k].kids
  <2>1. CASE k = parent
    BY <1>3a, <1>4, <2>1
  <2>2. CASE k # parent
    BY <1>1, <1>4, <2>2
  <2> QED BY <2>1, <2>2
<1> DEFINE guest == WithParent(d1[id], parent)
<1>5a. /\ NodeShaped(guest) /\ guest.name = d[id].name /\ guest.parent = parent
       /\ guest.kids = d1[id].kids
  <2>1. NodeShaped(d1[id]) /\ d1[id].name = d[id].name
    BY <1>5
  <2> HIDE DEF guest
  <2>2. /\ NodeShaped(guest) /\ guest.name = d1[id].name /\ guest.parent = parent
        /\ guest.kids = d1[id].kids
    BY <2>1, ParentSet DEF guest
  <2> QED BY <2>1, <2>2
<1>5b. d2 = Tree!ReplaceAt(d1, id, guest)
  OBVIOUS
<1> HIDE DEF guest, d2
<1>6. /\ IsSeq(d2) /\ Len(d2) = n
      /\ \A k \in 1..n : d2[k] = IF k = id THEN guest ELSE d1[k]
  BY <1>4, <1>5b, SeqExcept
<1>7. ASSUME NEW k \in 1..n
      PROVE  /\ NodeShaped(d2[k]) /\ d2[k].name = d[k].name
             /\ d2[k].parent = IF k = id THEN parent ELSE d[k].parent
             /\ d2[k].kids = IF k = parent THEN r ELSE f[k].kids
  BY <1>5, <1>5a, <1>6
<1>8. ASSUME NEW k \in 1..n
      PROVE  /\ d2[k].kids \in Seq(1..n) /\ Apart(d2[k].kids)
             /\ \A y : In(y, d2[k].kids) <=> \/ y = id /\ k = parent
                                             \/ y # id /\ In(y, d[k].kids)
  <2>1. CASE k = parent
    BY <1>1, <1>3, <1>7, <2>1
  <2>2. CASE k # parent
    BY <1>1, <1>7, <2>2
  <2> QED BY <2>1, <2>2
<1>9. Linked(d2)
  <2>1. /\ IsSeq(d2) /\ Len(d2) = Len(d)
        /\ \A k \in 1..Len(d) :
             /\ NodeShaped(d2[k])
             /\ d2[k].parent = IF k = id THEN parent ELSE d[k].parent
             /\ d2[k].kids \in Seq(1..Len(d)) /\ Apart(d2[k].kids)
             /\ \A y : In(y, d2[k].kids) <=> \/ y = id /\ k = parent
                                             \/ y # id /\ In(y, d[k].kids)
    BY <1>6, <1>7, <1>8
  <2> HIDE DEF d
  <2> QED BY <2>1, Relinked DEF d
<1> QED BY <1>2, <1>6, <1>7, <1>9 DEF Moved

-----------------------------------------------------------------------------
(* Places.                                                                  *)

\* A place is in the tree.
PlaceOK(d, place) ==
  place.parent \in 1..Len(d) /\ place.pos \in 1..(Len(d[place.parent].kids) + 1)

LEMMA UnderPlace ==
  ASSUME NEW b, Linked(b.dom), NEW parent \in 1..Len(b.dom), NEW place,
         place = Tree!Under(b, parent)
  PROVE  PlaceOK(b.dom, place) /\ place.parent = parent
<1>1. place.parent = parent /\ place.pos = Len(b.dom[parent].kids) + 1
  BY DEF Tree!Under
<1>2. b.dom[parent].kids \in Seq(1..Len(b.dom))
  BY DEF Linked
<1>3. Len(b.dom[parent].kids) \in Nat
  BY <1>2, LenProperties
<1>4. Len(b.dom[parent].kids) + 1 \in 1..(Len(b.dom[parent].kids) + 1)
  BY <1>3
<1> QED BY <1>1, <1>4 DEF PlaceOK

LEMMA BeforePlace ==
  ASSUME NEW b, Linked(b.dom), NEW id \in 1..Len(b.dom), b.dom[id].parent \in 1..Len(b.dom),
         NEW place, place = Tree!Before(b, id)
  PROVE  PlaceOK(b.dom, place) /\ place.parent = b.dom[id].parent
<1> DEFINE p == b.dom[id].parent
           kids == b.dom[p].kids
           pos == CHOOSE k \in DOMAIN kids : kids[k] = id
<1>1. place.parent = p /\ place.pos = pos
  BY DEF Tree!Before
<1>2. kids \in Seq(1..Len(b.dom)) /\ In(id, kids)
  BY DEF Linked
<1>3. Len(kids) \in Nat /\ DOMAIN kids = 1..Len(kids)
  BY <1>2, LenProperties
<1>4. pos \in 1..Len(kids)
  BY <1>2, <1>3 DEF In
<1> HIDE DEF pos
<1>5. pos \in 1..(Len(kids) + 1)
  BY <1>3, <1>4
<1> QED BY <1>1, <1>5 DEF PlaceOK

\* What is only held by a node is of no matter to the tree.
LEMMA HeldSet ==
  ASSUME NEW d, Linked(d), NEW id \in 1..Len(d), NEW new, NEW e,
         new = [d[id] EXCEPT !.held = new.held], e = Tree!ReplaceAt(d, id, new)
  PROVE  Linked(e) /\ Same(d, e) /\ Len(e) = Len(d)
<1>0. IsSeq(d) /\ Len(d) \in Nat /\ NodeShaped(d[id])
  BY SeqFacts DEF Linked
<1>1. NodeShaped(new) /\ new.name = d[id].name /\ new.parent = d[id].parent /\ new.kids = d[id].kids
  BY <1>0 DEF NodeShaped, NodeFields
<1>2. /\ IsSeq(e) /\ Len(e) = Len(d)
      /\ \A k \in 1..Len(d) : e[k] = IF k = id THEN new ELSE d[k]
  BY <1>0, SeqExcept
<1>3. \A k \in 1..Len(d) : /\ NodeShaped(e[k]) /\ e[k].name = d[k].name
                           /\ e[k].parent = d[k].parent /\ e[k].kids = d[k].kids
  BY <1>1, <1>2 DEF Linked
<1>4. ASSUME NEW k \in 1..Len(e)
      PROVE  /\ NodeShaped(e[k])
             /\ e[k].parent \in 0..Len(e)
             /\ e[k].kids \in Seq(1..Len(e)) /\ Apart(e[k].kids)
             /\ \A kid \in 1..Len(e) : In(kid, e[k].kids) <=> e[kid].parent = k
  <2>1. /\ d[k].parent \in 0..Len(d)
        /\ d[k].kids \in Seq(1..Len(d)) /\ Apart(d[k].kids)
        /\ \A kid \in 1..Len(d) : In(kid, d[k].kids) <=> d[kid].parent = k
    BY <1>2 DEF Linked
  <2> QED BY <1>2, <1>3, <2>1
<1>5. Linked(e)
  BY <1>2, <1>4 DEF Linked
<1> QED BY <1>0, <1>2, <1>3, <1>5 DEF Same

LEMMA NodeMade ==
  ASSUME NEW b, Shaped(b), Linked(b.dom), NEW name, NEW tag, NEW held, NEW c,
         c = Tree!NewNode(b, name, tag, held)
  PROVE  /\ Rest(b, c)
         /\ Linked(c.dom) /\ Len(c.dom) = Len(b.dom) + 1 /\ Same(b.dom, c.dom)
         /\ c.dom[Len(b.dom) + 1].name = name /\ c.dom[Len(b.dom) + 1].parent = 0
         /\ c.dom[Len(b.dom) + 1].kids = <<>>
         /\ \A id \in 1..Len(b.dom) : c.dom[id] = b.dom[id]
<1>1. c.dom = WithNode(b.dom, name, tag, held) /\ Rest(b, c)
  BY DEF Tree!NewNode, Rest, Shaped, Fields, WithNode
<1> DEFINE d == b.dom
           e == c.dom
<1>2. Linked(d) /\ e = WithNode(d, name, tag, held)
  BY <1>1
<1> HIDE DEF d, e
<1>3. /\ Linked(e) /\ Len(e) = Len(d) + 1 /\ Same(d, e)
      /\ e[Len(d) + 1].name = name /\ e[Len(d) + 1].parent = 0
      /\ e[Len(d) + 1].kids = <<>>
      /\ \A id \in 1..Len(d) : e[id] = d[id]
  BY <1>2, LinkedAppend
<1> QED BY <1>1, <1>3 DEF d, e

LEMMA TextPlaced ==
  ASSUME NEW b, Shaped(b), Linked(b.dom), NEW place, PlaceOK(b.dom, place), NEW held, NEW c,
         c = Tree!PlaceText(b, place, held)
  PROVE  Rest(b, c) /\ Linked(c.dom) /\ Same(b.dom, c.dom)
<1> DEFINE d == b.dom
           n == Len(d)
           kids == d[place.parent].kids
           before == IF place.pos = 1 THEN 0 ELSE kids[place.pos - 1]
           text == "#text"
           none == 0
           new == Tree!NewNode(b, text, none, held)
<1>0. IsSeq(d) /\ n \in Nat
  BY SeqFacts DEF Linked
<1>1. place.parent \in 1..n /\ kids \in Seq(1..n) /\ place.pos \in 1..(Len(kids) + 1)
  BY DEF PlaceOK, Linked
<1>2. Len(kids) \in Nat /\ \A k \in 1..Len(kids) : kids[k] \in 1..n
  BY <1>1, LenProperties, ElementOfSeq
<1>3. before # 0 => before \in 1..n
  <2>1. place.pos # 1 => place.pos - 1 \in 1..Len(kids)
    BY <1>1, <1>2
  <2> QED BY <1>2, <2>1
<1>4. c = IF before # 0 /\ Tree!IsText(b, before) THEN [b EXCEPT !.dom[before].held = @ \o held]
          ELSE Tree!Attach(new, place.parent, place.pos, Tree!Newest(new))
  BY DEF Tree!PlaceText
<1> HIDE DEF before
<1>5. CASE before # 0 /\ Tree!IsText(b, before)
  <2> DEFINE node == [d[before] EXCEPT !.held = @ \o held]
  <2>1. c.dom = Tree!ReplaceAt(d, before, node) /\ Rest(b, c)
    BY <1>4, <1>5 DEF Rest, Shaped, Fields, Tree!ReplaceAt
  <2>2. before \in 1..n
    BY <1>3, <1>5
  <2>3. node = [d[before] EXCEPT !.held = node.held]
    <3>1. NodeShaped(d[before])
      BY <2>2 DEF Linked
    <3> QED BY <3>1 DEF NodeShaped, NodeFields
  <2> HIDE DEF node
  <2> QED BY <2>1, <2>2, <2>3, HeldSet
<1>6. CASE ~(before # 0 /\ Tree!IsText(b, before))
  <2>1. c = Tree!Attach(new, place.parent, place.pos, Tree!Newest(new))
    BY <1>4, <1>6
  <2> HIDE DEF text, none
  <2>2. /\ Rest(b, new)
        /\ Linked(new.dom) /\ Len(new.dom) = n + 1 /\ Same(d, new.dom)
    BY NodeMade
  <2> HIDE DEF new
  <2>4. /\ place.parent \in 1..Len(new.dom) /\ Tree!Newest(new) \in 1..Len(new.dom)
        /\ place.pos \in Nat \ {0} /\ Tree!Newest(new) = n + 1
    BY <1>0, <1>1, <1>2, <2>2 DEF Tree!Newest
  <2>5. /\ Rest(new, c) /\ Linked(c.dom)
        /\ Moved(new.dom, c.dom, Tree!Newest(new), place.parent)
    BY <2>1, <2>2, <2>4, Attached DEF Rest
  <2>6. Same(d, c.dom)
    <3>1. ASSUME NEW k \in 1..n PROVE k # n + 1 /\ k \in 1..(n + 1)
      BY <1>0
    <3> QED BY <1>0, <2>2, <2>4, <2>5, <3>1 DEF Same, Moved
  <2>7. Rest(b, c)
    BY <2>2, <2>5 DEF Rest
  <2> QED BY <2>5, <2>6, <2>7
<1> QED BY <1>5, <1>6

-----------------------------------------------------------------------------
(* The stack of open elements, and the tree.                                *)

\* Where goes what a table cannot hold, if it comes at the place k of the stack:
\* around the last table below it, or into the first element if there is none.
FosterOf(d, s, k, p) ==
  \/ p = s[1] /\ \A j \in 2..(k - 1) : d[s[j]].name # "table"
  \/ \E m \in 2..(k - 1) : /\ d[s[m]].name = "table" /\ p = d[s[m]].parent
                           /\ \A j \in (m + 1)..(k - 1) : d[s[j]].name # "table"

\* p is where a node goes that comes at the place k.
Spot(d, s, k, p) ==
  \/ p = s[k - 1]
  \/ d[s[k - 1]].name \in Tree!FOSTER_TRIGGERS /\ FosterOf(d, s, k, p)

\* The parts of a table are never open but where they belong.
Suits(name, below) ==
  /\ name = "tbody" => below \in {"table", "html"}
  /\ name = "tr" => below \in {"tbody", "html"}

\* The parent of an open element is none of those above it.
ParentBelow(d, s) ==
  \A k \in 1..Len(s) : /\ d[s[k]].parent \in 1..Len(d)
                       /\ \A j \in k..Len(s) : s[j] # d[s[k]].parent
Mirrors(d, s) == \A k \in 2..Len(s) : Spot(d, s, k, d[s[k]].parent)
Structured(d, s) == \A k \in 2..Len(s) : Suits(d[s[k]].name, d[s[k - 1]].name)

Open(d, s) ==
  /\ s \in Seq(1..Len(d)) /\ Apart(s)
  /\ ParentBelow(d, s) /\ Mirrors(d, s) /\ Structured(d, s)

LEMMA OpenFacts ==
  ASSUME NEW d, NEW s, Open(d, s)
  PROVE  /\ Len(s) \in Nat /\ DOMAIN s = 1..Len(s)
         /\ \A k \in 1..Len(s) : s[k] \in 1..Len(d)
         /\ s = <<>> <=> Len(s) = 0
<1>1. s \in Seq(1..Len(d))
  BY DEF Open
<1> QED BY <1>1, LenProperties, ElementOfSeq, EmptySeq

\* What is asked of a place of the stack is asked of what is below it.
LEMMA SpotKept ==
  ASSUME NEW d, NEW e, NEW s, NEW t, NEW k \in Nat, k >= 2, NEW p,
         \A j \in 1..(k - 1) : t[j] = s[j],
         \A j \in 1..(k - 1) : e[s[j]].name = d[s[j]].name,
         \A j \in 2..(k - 1) : e[s[j]].parent = d[s[j]].parent,
         Spot(d, s, k, p)
  PROVE  Spot(e, t, k, p)
<1>1. 1 \in 1..(k - 1) /\ k - 1 \in 1..(k - 1) /\ 2..(k - 1) \subseteq 1..(k - 1)
  OBVIOUS
<1>2. ASSUME NEW j \in 2..(k - 1)
      PROVE  /\ t[j] = s[j] /\ e[t[j]].name = d[s[j]].name
             /\ e[t[j]].parent = d[s[j]].parent
  BY <1>1
<1>3. t[1] = s[1] /\ t[k - 1] = s[k - 1] /\ e[t[k - 1]].name = d[s[k - 1]].name
  BY <1>1
<1>4. ASSUME FosterOf(d, s, k, p) PROVE FosterOf(e, t, k, p)
  <2>1. CASE p = s[1] /\ \A j \in 2..(k - 1) : d[s[j]].name # "table"
    BY <1>2, <1>3, <2>1 DEF FosterOf
  <2>2. ASSUME NEW m \in 2..(k - 1), d[s[m]].name = "table", p = d[s[m]].parent,
               \A j \in (m + 1)..(k - 1) : d[s[j]].name # "table"
        PROVE  FosterOf(e, t, k, p)
    <3>1. \A j \in (m + 1)..(k - 1) : j \in 2..(k - 1)
      OBVIOUS
    <3>2. \A j \in (m + 1)..(k - 1) : e[t[j]].name # "table"
      BY <1>2, <2>2, <3>1
    <3> QED BY <1>2, <2>2, <3>2 DEF FosterOf
  <2> QED BY <1>4, <2>1, <2>2 DEF FosterOf
<1> QED BY <1>3, <1>4 DEF Spot

LEMMA SameOpen ==
  ASSUME NEW d, IsSeq(d), NEW s, Open(d, s), NEW e, IsSeq(e), Same(d, e)
  PROVE  Open(e, s)
<1>0. /\ Len(d) \in Nat /\ Len(e) \in Nat /\ Len(e) >= Len(d)
      /\ Len(s) \in Nat /\ \A k \in 1..Len(s) : s[k] \in 1..Len(d)
  BY SeqFacts, OpenFacts DEF Same
<1>1. \A k \in 1..Len(s) : e[s[k]].name = d[s[k]].name /\ e[s[k]].parent = d[s[k]].parent
  BY <1>0 DEF Same
<1>2. s \in Seq(1..Len(e)) /\ Apart(s)
  <2>1. 1..Len(d) \subseteq 1..Len(e)
    BY <1>0
  <2>2. s \in Seq(1..Len(d))
    BY DEF Open
  <2> QED BY <2>1, <2>2, SeqMonotonic DEF Open
<1>3. ParentBelow(e, s)
  <2>1. ASSUME NEW k \in 1..Len(s)
        PROVE  e[s[k]].parent \in 1..Len(e) /\ \A j \in k..Len(s) : s[j] # e[s[k]].parent
    <3>1. d[s[k]].parent \in 1..Len(d) /\ \A j \in k..Len(s) : s[j] # d[s[k]].parent
      BY DEF Open, ParentBelow
    <3> QED BY <1>0, <1>1, <3>1
  <2> QED BY <2>1 DEF ParentBelow
<1>4. Mirrors(e, s)
  <2>1. ASSUME NEW k \in 2..Len(s) PROVE Spot(e, s, k, e[s[k]].parent)
    <3>1. Spot(d, s, k, d[s[k]].parent)
      BY DEF Open, Mirrors
    <3>2. k \in Nat /\ k >= 2 /\ k \in 1..Len(s)
      BY <1>0
    <3>3. /\ \A j \in 1..(k - 1) : j \in 1..Len(s)
          /\ \A j \in 2..(k - 1) : j \in 1..Len(s)
      BY <1>0
    <3>4. /\ \A j \in 1..(k - 1) : e[s[j]].name = d[s[j]].name
          /\ \A j \in 2..(k - 1) : e[s[j]].parent = d[s[j]].parent
          /\ e[s[k]].parent = d[s[k]].parent
      BY <1>1, <3>2, <3>3
    <3> DEFINE p == d[s[k]].parent
    <3>5. Spot(d, s, k, p) /\ e[s[k]].parent = p
      BY <3>1, <3>4
    <3> HIDE DEF p
    <3>6. Spot(e, s, k, p)
      <4>1. \A j \in 1..(k - 1) : s[j] = s[j]
        OBVIOUS
      <4> QED BY <3>2, <3>4, <3>5, <4>1, SpotKept
    <3> QED BY <3>5, <3>6
  <2> QED BY <2>1 DEF Mirrors
<1>5. Structured(e, s)
  <2>1. ASSUME NEW k \in 2..Len(s) PROVE k \in 1..Len(s) /\ k - 1 \in 1..Len(s)
    BY <1>0
  <2> QED BY <1>1, <2>1 DEF Open, Structured
<1> QED BY <1>2, <1>3, <1>4, <1>5 DEF Open

\* What is left open by closing all above a place.
LEMMA CutOpen ==
  ASSUME NEW d, NEW s, Open(d, s), NEW n \in 0..Len(s), NEW t, t = SubSeq(s, 1, n)
  PROVE  /\ Open(d, t) /\ Len(t) = n
         /\ \A k \in 1..n : t[k] = s[k]
<1>0. Len(s) \in Nat /\ s \in Seq(1..Len(d)) /\ 1 \in 1..(Len(s) + 1) /\ n \in (1 - 1)..Len(s)
  BY OpenFacts DEF Open
<1>1. t \in Seq(1..Len(d)) /\ Len(t) = n /\ \A k \in 1..n : t[k] = s[k]
  <2>1. /\ t \in Seq(1..Len(d)) /\ Len(t) = (n - 1) + 1
        /\ \A k \in 1..Len(t) : t[k] = s[(1 - 1) + k]
    BY <1>0, PartOf
  <2> QED BY <1>0, <2>1
<1>2. \A k \in 1..n : k \in 1..Len(s)
  BY <1>0
<1>3. Apart(t)
  BY <1>1, <1>2 DEF Apart, Open
<1>4. ParentBelow(d, t)
  <2>1. ASSUME NEW k \in 1..n
        PROVE  d[t[k]].parent \in 1..Len(d) /\ \A j \in k..n : t[j] # d[t[k]].parent
    <3>1. d[s[k]].parent \in 1..Len(d) /\ \A j \in k..Len(s) : s[j] # d[s[k]].parent
      BY <1>2 DEF Open, ParentBelow
    <3>2. \A j \in k..n : j \in 1..n /\ j \in k..Len(s)
      BY <1>0
    <3> QED BY <1>1, <3>1, <3>2
  <2> QED BY <1>1, <2>1 DEF ParentBelow
<1>5. Mirrors(d, t)
  <2>1. ASSUME NEW k \in 2..n PROVE Spot(d, t, k, d[t[k]].parent)
    <3>1. k \in Nat /\ k >= 2 /\ k \in 1..n /\ k \in 2..Len(s)
      BY <1>0
    <3> DEFINE p == d[s[k]].parent
    <3>2. Spot(d, s, k, p) /\ d[t[k]].parent = p
      BY <1>1, <3>1 DEF Open, Mirrors
    <3>3. \A j \in 1..(k - 1) : t[j] = s[j]
      <4>1. \A j \in 1..(k - 1) : j \in 1..n
        BY <3>1
      <4> QED BY <1>1, <4>1
    <3> HIDE DEF p
    <3>4. Spot(d, t, k, p)
      BY <3>1, <3>2, <3>3, SpotKept
    <3> QED BY <3>2, <3>4
  <2> QED BY <1>1, <2>1 DEF Mirrors
<1>6. Structured(d, t)
  <2>1. ASSUME NEW k \in 2..n PROVE k \in 2..Len(s) /\ k \in 1..n /\ k - 1 \in 1..n
    BY <1>0
  <2> QED BY <1>1, <2>1 DEF Open, Structured
<1> QED BY <1>1, <1>3, <1>4, <1>5, <1>6 DEF Open

\* One more element is opened.
LEMMA GrowOpen ==
  ASSUME NEW d, NEW s, Open(d, s), NEW id \in 1..Len(d), ~In(id, s),
         \A k \in 1..Len(s) : d[s[k]].parent # id,
         d[id].parent \in 1..Len(d), d[id].parent # id,
         s # <<>> => /\ Spot(d, s, Len(s) + 1, d[id].parent)
                     /\ Suits(d[id].name, d[s[Len(s)]].name),
         NEW t, t = Append(s, id)
  PROVE  Open(d, t)
<1> DEFINE n == Len(s)
<1>0. n \in Nat /\ s \in Seq(1..Len(d)) /\ (\A k \in 1..n : s[k] \in 1..Len(d)) /\ (s # <<>> <=> n # 0)
  BY OpenFacts DEF Open
<1>1. t \in Seq(1..Len(d)) /\ Len(t) = n + 1 /\ (\A k \in 1..n : t[k] = s[k]) /\ t[n + 1] = id
  BY <1>0, AppendProperties
<1>2. ASSUME NEW k \in 1..(n + 1) PROVE k \in 1..n \/ k = n + 1
  BY <1>0
<1>3. Apart(t)
  <2>1. \A k \in 1..n : s[k] # id
    BY DEF In
  <2>2. \A i, j \in 1..n : s[i] = s[j] => i = j
    BY DEF Open, Apart
  <2>3. ASSUME NEW i \in 1..(n + 1), NEW j \in 1..(n + 1), t[i] = t[j] PROVE i = j
    BY <1>1, <1>2, <2>1, <2>2, <2>3
  <2> QED BY <1>1, <2>3 DEF Apart
<1>4. ParentBelow(d, t)
  <2>1. ASSUME NEW k \in 1..(n + 1)
        PROVE  d[t[k]].parent \in 1..Len(d) /\ \A j \in k..(n + 1) : t[j] # d[t[k]].parent
    <3>1. CASE k = n + 1
      <4>1. \A j \in k..(n + 1) : j = n + 1
        BY <1>0, <3>1
      <4> QED BY <1>1, <3>1, <4>1
    <3>2. CASE k \in 1..n
      <4>1. d[s[k]].parent \in 1..Len(d) /\ \A j \in k..n : s[j] # d[s[k]].parent
        BY <3>2 DEF Open, ParentBelow
      <4>2. \A j \in k..(n + 1) : (j \in k..n /\ j \in 1..n) \/ j = n + 1
        BY <1>0, <3>2
      <4> QED BY <1>1, <3>2, <4>1, <4>2
    <3> QED BY <1>2, <3>1, <3>2
  <2> QED BY <1>1, <2>1 DEF ParentBelow
<1>5. Mirrors(d, t)
  <2>1. ASSUME NEW k \in 2..(n + 1) PROVE Spot(d, t, k, d[t[k]].parent)
    <3>1. k \in Nat /\ k >= 2 /\ k \in 1..(n + 1) /\ (\A j \in 1..(k - 1) : j \in 1..n)
      BY <1>0
    <3> DEFINE p == d[t[k]].parent
    <3>2. Spot(d, s, k, p)
      <4>1. CASE k \in 1..n
        <5>1. k \in 2..n
          BY <1>0, <4>1
        <5> QED BY <1>1, <4>1, <5>1 DEF Open, Mirrors
      <4>2. CASE k = n + 1
        <5>1. s # <<>>
          BY <1>0, <3>1, <4>2
        <5> QED BY <1>1, <4>2, <5>1
      <4> QED BY <1>2, <3>1, <4>1, <4>2
    <3>3. \A j \in 1..(k - 1) : t[j] = s[j]
      BY <1>1, <3>1
    <3> HIDE DEF p
    <3>4. Spot(d, t, k, p)
      BY <3>1, <3>2, <3>3, SpotKept
    <3> QED BY <3>4 DEF p
  <2> QED BY <1>1, <2>1 DEF Mirrors
<1>6. Structured(d, t)
  <2>1. ASSUME NEW k \in 2..(n + 1) PROVE Suits(d[t[k]].name, d[t[k - 1]].name)
    <3>1. CASE k \in 2..n
      <4>1. k \in 1..n /\ k - 1 \in 1..n
        BY <1>0, <3>1
      <4> QED BY <1>1, <3>1, <4>1 DEF Open, Structured
    <3>2. CASE k = n + 1
      <4>1. s # <<>> /\ k - 1 = n /\ n \in 1..n
        BY <1>0, <3>2
      <4> QED BY <1>1, <3>2, <4>1
    <3> QED BY <1>0, <3>1, <3>2
  <2> QED BY <1>1, <2>1 DEF Structured
<1> QED BY <1>1, <1>3, <1>4, <1>5, <1>6 DEF Open

-----------------------------------------------------------------------------
(* The builder.                                                             *)

Formatting == Tree!formatting_tags

AfeOK(d, a) ==
  /\ a \in Seq(0..Len(d))
  /\ \A k \in 1..Len(a) : a[k] # 0 => d[a[k]].name \in Formatting

Built(b) ==
  /\ Shaped(b)
  /\ Linked(b.dom) /\ 1 \in 1..Len(b.dom)
  /\ Open(b.dom, b.stack)
  /\ AfeOK(b.dom, b.afe)
  /\ IsSeq(b.pending_table_characters)

LEMMA AfeSame ==
  ASSUME NEW d, IsSeq(d), NEW a, AfeOK(d, a), NEW e, IsSeq(e), Same(d, e)
  PROVE  AfeOK(e, a)
<1>0. Len(d) \in Nat /\ Len(e) \in Nat /\ Len(e) >= Len(d) /\ a \in Seq(0..Len(d))
  BY SeqFacts DEF Same, AfeOK
<1>1. \A k \in 1..Len(a) : a[k] \in 0..Len(d)
  BY <1>0, ElementOfSeq
<1>2. a \in Seq(0..Len(e))
  <2>1. 0..Len(d) \subseteq 0..Len(e)
    BY <1>0
  <2> QED BY <1>0, <2>1, SeqMonotonic
<1>3. ASSUME NEW k \in 1..Len(a), a[k] # 0 PROVE e[a[k]].name \in Formatting
  <2>1. a[k] \in 1..Len(d)
    BY <1>0, <1>1, <1>3
  <2> QED BY <1>3, <2>1 DEF AfeOK, Same
<1> QED BY <1>2, <1>3 DEF AfeOK

\* Nodes are added, and nothing else.
LEMMA BuiltMore ==
  ASSUME NEW b, Built(b), NEW c, Rest(b, c), Linked(c.dom), Same(b.dom, c.dom)
  PROVE  Built(c)
<1> DEFINE d == b.dom
           e == c.dom
<1>1. /\ IsSeq(d) /\ IsSeq(e) /\ Same(d, e) /\ Open(d, b.stack) /\ AfeOK(d, b.afe)
      /\ c.stack = b.stack /\ c.afe = b.afe /\ Shaped(c)
      /\ c.pending_table_characters = b.pending_table_characters
      /\ IsSeq(b.pending_table_characters) /\ Linked(e) /\ 1 \in 1..Len(d)
  BY DEF Built, Linked, Rest
<1>2. 1 \in 1..Len(e)
  <2>1. Len(d) \in Nat /\ Len(e) \in Nat /\ Len(e) >= Len(d)
    BY <1>1, SeqFacts DEF Same
  <2> QED BY <1>1, <2>1
<1> HIDE DEF d, e
<1>3. Open(e, b.stack) /\ AfeOK(e, b.afe)
  BY <1>1, SameOpen, AfeSame
<1> QED BY <1>1, <1>2, <1>3 DEF Built, e

\* All but what is open and what is active stays as it is.
SameTree(b, c) ==
  /\ Shaped(c) /\ c.dom = b.dom
  /\ c.pending_table_characters = b.pending_table_characters

LEMMA BuiltWith ==
  ASSUME NEW b, Built(b), NEW c, SameTree(b, c), Open(b.dom, c.stack), AfeOK(b.dom, c.afe)
  PROVE  Built(c)
BY DEF Built, SameTree

\* Only elements are closed.
Closes(b, c) ==
  /\ SameTree(b, c) /\ c.afe = b.afe
  /\ \E n \in 0..Len(b.stack) : c.stack = SubSeq(b.stack, 1, n)

LEMMA BuiltCloses ==
  ASSUME NEW b, Built(b), NEW c, Closes(b, c)
  PROVE  Built(c)
<1>1. PICK n \in 0..Len(b.stack) : c.stack = SubSeq(b.stack, 1, n)
  BY DEF Closes
<1>2. Open(b.dom, b.stack) /\ AfeOK(b.dom, c.afe) /\ SameTree(b, c)
  BY DEF Built, Closes
<1> DEFINE d == b.dom
           s == b.stack
           t == c.stack
<1>3. Open(d, s) /\ n \in 0..Len(s) /\ t = SubSeq(s, 1, n)
  BY <1>1, <1>2
<1> HIDE DEF d, s, t
<1>4. Open(d, t)
  BY <1>3, CutOpen
<1> QED BY <1>2, <1>4, BuiltWith DEF d, t

-----------------------------------------------------------------------------
(* Where a node goes.                                                       *)

LEMMA DocumentPlace ==
  ASSUME NEW b, Built(b), NEW place, place = Tree!appropriate_place(b, 0)
  PROVE  PlaceOK(b.dom, place)
<1>0. ~Tree!IsOpen(b, 0)
  <2>1. Open(b.dom, b.stack)
    BY DEF Built
  <2>2. DOMAIN b.stack = 1..Len(b.stack) /\ \A k \in 1..Len(b.stack) : b.stack[k] \in 1..Len(b.dom)
    BY <2>1, OpenFacts
  <2>3. 0 \notin 1..Len(b.dom)
    OBVIOUS
  <2> QED BY <2>2, <2>3 DEF Tree!IsOpen, Tree!Range
<1>1. place = Tree!Under(b, 1)
  BY <1>0 DEF Tree!appropriate_place, Tree!Document
<1> DEFINE one == 1
<1>2. Linked(b.dom) /\ one \in 1..Len(b.dom) /\ place = Tree!Under(b, one)
  BY <1>1 DEF Built
<1> HIDE DEF one
<1> QED BY <1>2, UnderPlace

LEMMA PlaceFor ==
  ASSUME NEW b, Built(b), NEW j \in 1..Len(b.stack),
         \A i \in (j + 1)..Len(b.stack) : b.dom[b.stack[i]].name # "table",
         NEW place, place = Tree!appropriate_place(b, b.stack[j])
  PROVE  PlaceOK(b.dom, place) /\ Spot(b.dom, b.stack, j + 1, place.parent)
<1> DEFINE d == b.dom
           s == b.stack
           n == Len(s)
           target == s[j]
           T == {k \in DOMAIN s : k > 1 /\ Tree!Name(b, s[k]) = "table"}
           fosters == /\ b.foster_parenting /\ Tree!IsOpen(b, target)
                      /\ Tree!Name(b, target) \in Tree!FOSTER_TRIGGERS
<1>0. /\ Linked(d) /\ Open(d, s) /\ Len(d) \in Nat /\ n \in Nat /\ DOMAIN s = 1..n
      /\ \A k \in 1..n : s[k] \in 1..Len(d) /\ d[s[k]].parent \in 1..Len(d)
  <2>1. Linked(d) /\ Open(d, s)
    BY DEF Built
  <2>2. \A k \in 1..n : d[s[k]].parent \in 1..Len(d)
    BY <2>1 DEF Open, ParentBelow
  <2>3. IsSeq(d)
    BY <2>1 DEF Linked
  <2> HIDE DEF d, s
  <2> QED BY <2>1, <2>2, <2>3, OpenFacts, SeqFacts
<1>1. target \in 1..Len(d) /\ target # 0 /\ (j + 1) - 1 = j
  BY <1>0
<1>2. T = {k \in 2..n : d[s[k]].name = "table"} /\ \A k \in T : k \in 2..j
  BY <1>0 DEF Tree!Name
<1>3. /\ ~fosters => place = Tree!Under(b, target)
      /\ fosters /\ T = {} => place = Tree!Under(b, s[1])
      /\ fosters /\ T # {} => place = Tree!Before(b, s[Tree!Max(T)])
  <2>1. place = Tree!appropriate_place(b, target)
    OBVIOUS
  <2> QED BY <1>1, <2>1 DEF Tree!appropriate_place, Tree!Bottommost
<1>4. CASE ~fosters
  <2> HIDE DEF fosters, target
  <2>1. PlaceOK(b.dom, place) /\ place.parent = target
    BY <1>0, <1>1, <1>3, <1>4, UnderPlace
  <2> QED BY <1>1, <2>1 DEF Spot, target
<1>5. CASE fosters
  <2>0. d[s[(j + 1) - 1]].name \in Tree!FOSTER_TRIGGERS
    BY <1>1, <1>5 DEF Tree!Name
  <2>1. CASE T = {}
    <3> DEFINE first == s[1]
    <3>1. first \in 1..Len(d)
      BY <1>0
    <3>2. place = Tree!Under(b, first)
      BY <1>3, <1>5, <2>1
    <3> HIDE DEF first, fosters
    <3>3. PlaceOK(b.dom, place) /\ place.parent = first
      BY <1>0, <3>1, <3>2, UnderPlace
    <3>4. ASSUME NEW k \in 2..((j + 1) - 1) PROVE d[s[k]].name # "table"
      <4>1. k \in 2..n
        BY <1>0
      <4> HIDE DEF T
      <4> QED BY <1>2, <2>1, <4>1
    <3> QED BY <2>0, <3>3, <3>4 DEF Spot, FosterOf, first
  <2>2. CASE T # {}
    <3> DEFINE m == Tree!Max(T)
               table == s[m]
    <3>0. T \in SUBSET (0..n)
      BY <1>0, <1>2
    <3>1. m \in T /\ \A k \in T : m >= k
      <4> HIDE DEF T
      <4> QED BY <1>0, <2>2, <3>0, GreatestNumber
    <3>2. place = Tree!Before(b, table)
      BY <1>3, <1>5, <2>2
    <3> HIDE DEF m, fosters
    <3>3. m \in 2..j /\ m \in 2..n /\ d[table].name = "table"
      BY <1>2, <3>1
    <3>4. table \in 1..Len(d) /\ d[table].parent \in 1..Len(d)
      BY <1>0, <3>3
    <3>5. \A k \in (m + 1)..((j + 1) - 1) : d[s[k]].name # "table"
      <4>1. ASSUME NEW k \in (m + 1)..((j + 1) - 1) PROVE k \in 2..n /\ ~(m >= k)
        BY <1>0, <3>3
      <4> QED BY <1>2, <3>1, <4>1
    <3>6. m \in 2..((j + 1) - 1)
      BY <1>1, <3>3
    <3> HIDE DEF table
    <3>7. PlaceOK(b.dom, place) /\ place.parent = d[table].parent
      BY <1>0, <3>2, <3>4, BeforePlace
    <3> QED BY <2>0, <3>3, <3>5, <3>6, <3>7 DEF Spot, FosterOf, table
  <2> QED BY <2>1, <2>2
<1> QED BY <1>4, <1>5

LEMMA CurrentPlace ==
  ASSUME NEW b, Built(b), NEW place, place = Tree!appropriate_place(b, Tree!Current(b))
  PROVE  /\ PlaceOK(b.dom, place)
         /\ b.stack # <<>> => Spot(b.dom, b.stack, Len(b.stack) + 1, place.parent)
<1> DEFINE s == b.stack
           n == Len(s)
<1>0. Open(b.dom, s)
  BY DEF Built
<1>1. n \in Nat /\ (s = <<>> <=> n = 0)
  BY <1>0, OpenFacts
<1>2. CASE s = <<>>
  <2>1. place = Tree!appropriate_place(b, 0)
    BY <1>2 DEF Tree!Current
  <2> QED BY <1>2, <2>1, DocumentPlace
<1>3. CASE s # <<>>
  <2>1. place = Tree!appropriate_place(b, s[n])
    BY <1>3 DEF Tree!Current, Tree!Last
  <2>2. n \in 1..Len(b.stack) /\ \A i \in (n + 1)..Len(b.stack) : b.dom[b.stack[i]].name # "table"
    BY <1>1, <1>3
  <2> HIDE DEF n
  <2>3. PlaceOK(b.dom, place) /\ Spot(b.dom, b.stack, n + 1, place.parent)
    BY <2>1, <2>2, PlaceFor
  <2> QED BY <2>3 DEF n
<1> QED BY <1>2, <1>3

LEMMA CharactersBuilt ==
  ASSUME NEW b, Built(b), NEW held, NEW c, c = Tree!insert_characters(b, held)
  PROVE  Built(c)
<1> DEFINE place == Tree!appropriate_place(b, Tree!Current(b))
<1>1. PlaceOK(b.dom, place) /\ Shaped(b) /\ Linked(b.dom)
  BY CurrentPlace DEF Built
<1>2. c = Tree!PlaceText(b, place, held)
  BY DEF Tree!insert_characters
<1> HIDE DEF place
<1>3. Rest(b, c) /\ Linked(c.dom) /\ Same(b.dom, c.dom)
  BY <1>1, <1>2, TextPlaced
<1> QED BY <1>3, BuiltMore

\* A node is made where the current node says, and is not open.
Made1(b, c, name) ==
  /\ c.result = Len(b.dom) + 1 /\ Len(c.dom) = Len(b.dom) + 1
  /\ Same(b.dom, c.dom)
  /\ c.dom[c.result].name = name
  /\ c.dom[c.result].parent \in 1..Len(b.dom)
  /\ c.afe = b.afe

LEMMA VoidBuilt ==
  ASSUME NEW b, Built(b), NEW name, NEW tag, NEW held, NEW c,
         c = Tree!insert_void(b, name, tag, held)
  PROVE  /\ Built(c) /\ Made1(b, c, name) /\ c.stack = b.stack
         /\ b.stack # <<>> =>
               Spot(b.dom, b.stack, Len(b.stack) + 1, c.dom[c.result].parent)
<1> DEFINE place == Tree!appropriate_place(b, Tree!Current(b))
           new == Tree!NewNode(b, name, tag, held)
           id == Tree!Newest(new)
           put == Tree!Attach(new, place.parent, place.pos, id)
           d == b.dom
<1>0. Shaped(b) /\ Linked(d)
  BY DEF Built
<1>1. /\ PlaceOK(d, place)
      /\ b.stack # <<>> => Spot(d, b.stack, Len(b.stack) + 1, place.parent)
  BY CurrentPlace
<1>2. c = [put EXCEPT !.result = id]
  BY DEF Tree!insert_void, Tree!Put
<1> HIDE DEF place
<1>3. /\ Rest(b, new)
      /\ Linked(new.dom) /\ Len(new.dom) = Len(d) + 1 /\ Same(d, new.dom)
      /\ new.dom[Len(d) + 1].name = name
  BY <1>0, NodeMade
<1> HIDE DEF new
<1>4. Len(d) \in Nat /\ place.parent \in 1..Len(d) /\ place.pos \in Nat \ {0} /\ id = Len(d) + 1
  <2>1. IsSeq(d)
    BY <1>0 DEF Linked
  <2>2. d[place.parent].kids \in Seq(1..Len(d))
    BY <1>0, <1>1 DEF Linked, PlaceOK
  <2>3. Len(d[place.parent].kids) \in Nat
    BY <2>2, LenProperties
  <2> QED BY <1>1, <1>3, <2>1, <2>3, SeqFacts DEF PlaceOK, Tree!Newest
<1>5. place.parent \in 1..Len(new.dom) /\ id \in 1..Len(new.dom) /\ Shaped(new)
  BY <1>3, <1>4 DEF Rest
<1> HIDE DEF id
<1>6. Rest(new, put) /\ Linked(put.dom) /\ Moved(new.dom, put.dom, id, place.parent)
  BY <1>3, <1>4, <1>5, Attached
<1> HIDE DEF put
<1>7. c.dom = put.dom /\ Rest(new, c) /\ c.result = id
  BY <1>2, <1>6 DEF Rest, Shaped, Fields
<1>8. Same(d, c.dom)
  <2>1. ASSUME NEW k \in 1..Len(d) PROVE k # id /\ k \in 1..Len(new.dom)
    BY <1>3, <1>4
  <2> QED BY <1>3, <1>4, <1>6, <1>7, <2>1 DEF Same, Moved
<1>9. /\ Len(c.dom) = Len(d) + 1
      /\ c.dom[c.result].name = name /\ c.dom[c.result].parent = place.parent
  BY <1>3, <1>4, <1>5, <1>6, <1>7 DEF Moved
<1>10. Rest(b, c)
  BY <1>3, <1>7 DEF Rest
<1>11. Built(c)
  BY <1>6, <1>7, <1>8, <1>10, BuiltMore
<1> QED BY <1>1, <1>4, <1>7, <1>8, <1>9, <1>10, <1>11 DEF Made1, Rest

LEMMA ElementBuilt ==
  ASSUME NEW b, Built(b), NEW name, NEW tag,
         b.stack # <<>> => Suits(name, b.dom[b.stack[Len(b.stack)]].name),
         NEW c, c = Tree!insert_element(b, name, tag)
  PROVE  /\ Built(c) /\ Made1(b, c, name)
         /\ c.stack = Append(b.stack, c.result)
<1> DEFINE held == <<>>
           new == Tree!insert_void(b, name, tag, held)
           d == b.dom
           e == new.dom
           s == b.stack
           id == new.result
<1>1. c = Tree!Opened(new)
  BY DEF Tree!insert_element
<1> HIDE DEF held
<1>2. /\ Built(new) /\ Made1(b, new, name) /\ new.stack = s
      /\ s # <<>> => Spot(d, s, Len(s) + 1, e[id].parent)
  BY VoidBuilt
<1> HIDE DEF new
<1>3. /\ Open(d, s) /\ Open(e, s) /\ IsSeq(d) /\ IsSeq(e) /\ Same(d, e)
      /\ id = Len(d) + 1 /\ Len(e) = Len(d) + 1
      /\ e[id].name = name /\ e[id].parent \in 1..Len(d)
  BY <1>2 DEF Built, Linked, Made1
<1>4. /\ SameTree(new, c) /\ c.dom = e /\ c.result = id /\ c.afe = b.afe
      /\ c.stack = Append(s, id)
  BY <1>1, <1>2 DEF Tree!Opened, SameTree, Built, Shaped, Fields, Made1
<1> HIDE DEF e, id, d, s
<1>5. /\ Len(d) \in Nat /\ Len(s) \in Nat /\ (\A k \in 1..Len(s) : s[k] \in 1..Len(d))
      /\ s = <<>> <=> Len(s) = 0
  BY <1>3, OpenFacts, SeqFacts
<1>6. \A k \in 1..Len(d) : e[k].name = d[k].name /\ e[k].parent = d[k].parent /\ k # id
  BY <1>3, <1>5 DEF Same
<1>7. \A k \in 1..Len(s) : s[k] # id /\ e[s[k]].parent # id /\ e[s[k]].parent = d[s[k]].parent
                           /\ e[s[k]].name = d[s[k]].name
  <2>1. \A k \in 1..Len(s) : d[s[k]].parent \in 1..Len(d)
    BY <1>3 DEF Open, ParentBelow
  <2> QED BY <1>3, <1>5, <1>6, <2>1
<1>8. id \in 1..Len(e) /\ ~In(id, s) /\ e[id].parent \in 1..Len(e) /\ e[id].parent # id
  BY <1>3, <1>5, <1>6, <1>7 DEF In
<1>9. ASSUME s # <<>>
      PROVE  /\ Spot(e, s, Len(s) + 1, e[id].parent)
             /\ Suits(e[id].name, e[s[Len(s)]].name)
  <2> DEFINE p == e[id].parent
             k == Len(s) + 1
  <2>1. Spot(d, s, k, p)
    BY <1>2, <1>9 DEF d, e, s, id
  <2>2. k \in Nat /\ k >= 2
    BY <1>5, <1>9
  <2>3. /\ \A j \in 1..(k - 1) : s[j] = s[j]
        /\ \A j \in 1..(k - 1) : e[s[j]].name = d[s[j]].name
        /\ \A j \in 2..(k - 1) : e[s[j]].parent = d[s[j]].parent
    BY <1>5, <1>7
  <2>4. Len(s) \in 1..Len(s)
    BY <1>5, <1>9
  <2>5. Suits(e[id].name, e[s[Len(s)]].name)
    <3>1. Suits(name, d[s[Len(s)]].name)
      BY <1>9 DEF d, s
    <3> QED BY <1>3, <1>7, <2>4, <3>1
  <2> HIDE DEF p, k
  <2>6. Spot(e, s, k, p)
    BY <2>1, <2>2, <2>3, SpotKept
  <2> QED BY <2>5, <2>6 DEF p, k
<1> DEFINE t == c.stack
<1>10. t = Append(s, id) /\ Open(e, s)
  BY <1>3, <1>4
<1> HIDE DEF t
<1>11. Open(e, t)
  <2>1. \A k \in 1..Len(s) : e[s[k]].parent # id
    BY <1>7
  <2> QED BY <1>8, <1>9, <1>10, <2>1, GrowOpen
<1>12. AfeOK(e, c.afe)
  <2>1. new.afe = b.afe /\ AfeOK(new.dom, new.afe)
    BY <1>2 DEF Made1, Built
  <2> QED BY <1>4, <2>1 DEF e
<1>13. Built(c)
  BY <1>2, <1>4, <1>11, <1>12, BuiltWith DEF e, t
<1>14. Made1(b, c, name)
  BY <1>2, <1>4 DEF Made1, e, id
<1> QED BY <1>4, <1>13, <1>14 DEF s

-----------------------------------------------------------------------------
(* What closes elements, and what only changes the mode. *)

LEMMA StackFacts ==
  ASSUME NEW b, Built(b)
  PROVE  /\ Shaped(b) /\ DOMAIN b.stack = 1..Len(b.stack) /\ Len(b.stack) \in Nat
         /\ b.stack = <<>> <=> Len(b.stack) = 0
         /\ 0 \in 0..Len(b.stack) /\ SubSeq(b.stack, 1, 0) = <<>>
         /\ \A S \in SUBSET (1..Len(b.stack)) :
               /\ Tree!Highest(S) \in 0..Len(b.stack)
               /\ Tree!Highest(S) # 0 => Tree!Highest(S) \in S
               /\ \A y \in S : Tree!Highest(S) >= y
<1>1. Open(b.dom, b.stack) /\ Shaped(b)
  BY DEF Built
<1>2. /\ DOMAIN b.stack = 1..Len(b.stack) /\ Len(b.stack) \in Nat
      /\ b.stack = <<>> <=> Len(b.stack) = 0
  BY <1>1, OpenFacts
<1>3. SubSeq(b.stack, 1, 0) = <<>>
  BY SubSeqEmpty
<1>4. 0 \in 0..Len(b.stack)
  BY <1>2
<1>5. ASSUME NEW S \in SUBSET (1..Len(b.stack))
      PROVE  /\ Tree!Highest(S) \in 0..Len(b.stack)
             /\ Tree!Highest(S) # 0 => Tree!Highest(S) \in S
             /\ \A y \in S : Tree!Highest(S) >= y
  BY <1>2, HighestOf
<1> QED BY <1>1, <1>2, <1>3, <1>4, <1>5

\* The tree and the stack stay as they are.
Still(b, c) == SameTree(b, c) /\ c.stack = b.stack

LEMMA Plain ==
  ASSUME NEW b, Built(b), NEW c, NEW mode,
         \/ c = Tree!NoResult(b) \/ c = Tree!switch_mode(b, mode)
         \/ c = Tree!switch_and_save(b, mode) \/ c = Tree!restore_mode(b)
         \/ c = Tree!Fostering(b) \/ c = Tree!Fostered(b) \/ c = Tree!ResetToBody(b)
         \/ c = Tree!reset(b)
  PROVE  Built(c) /\ Still(b, c) /\ c.afe = b.afe
<1>1. Shaped(b)
  BY DEF Built
<1>2. Still(b, c) /\ c.afe = b.afe
  BY <1>1 DEF Still, SameTree, Shaped, Fields, Tree!NoResult, Tree!switch_mode,
     Tree!switch_and_save, Tree!restore_mode, Tree!Fostering, Tree!Fostered, Tree!ResetToBody,
     Tree!reset
<1>3. Open(b.dom, c.stack) /\ AfeOK(b.dom, c.afe)
  BY <1>2 DEF Built, Still
<1> QED BY <1>2, <1>3, BuiltWith DEF Still

LEMMA KeepBuilt ==
  ASSUME NEW b, Built(b), NEW n \in 0..Len(b.stack), NEW c, c = Tree!Keep(b, n)
  PROVE  Built(c) /\ Closes(b, c) /\ c.stack = SubSeq(b.stack, 1, n)
<1>1. Shaped(b)
  BY DEF Built
<1>2. SameTree(b, c) /\ c.afe = b.afe /\ c.stack = SubSeq(b.stack, 1, n)
  BY <1>1 DEF SameTree, Shaped, Fields, Tree!Keep
<1>3. Closes(b, c)
  BY <1>2 DEF Closes
<1> QED BY <1>2, <1>3, BuiltCloses

LEMMA PopBuilt ==
  ASSUME NEW b, Built(b), NEW c, c = Tree!pop(b)
  PROVE  Built(c) /\ Closes(b, c)
<1> DEFINE n == Len(b.stack)
<1>0. /\ Shaped(b) /\ n \in Nat /\ (b.stack = <<>> <=> n = 0)
      /\ SubSeq(b.stack, 1, 0) = <<>>
  BY StackFacts
<1>1. CASE b.stack = <<>>
  <2>1. SameTree(b, c) /\ c.afe = b.afe /\ c.stack = b.stack
    BY <1>0, <1>1 DEF SameTree, Shaped, Fields, Tree!pop, Tree!NoResult
  <2>2. c.stack = SubSeq(b.stack, 1, 0) /\ 0 \in 0..Len(b.stack)
    BY <1>0, <1>1, <2>1
  <2> QED BY <2>1, <2>2, BuiltCloses DEF Closes
<1>2. CASE b.stack # <<>>
  <2>1. SameTree(b, c) /\ c.afe = b.afe /\ c.stack = SubSeq(b.stack, 1, n - 1)
    BY <1>0, <1>2 DEF SameTree, Shaped, Fields, Tree!pop, Tree!Front
  <2>2. n - 1 \in 0..Len(b.stack)
    BY <1>0, <1>2
  <2> QED BY <2>1, <2>2, BuiltCloses DEF Closes
<1> QED BY <1>1, <1>2

LEMMA PopAllBuilt ==
  ASSUME NEW b, Built(b), NEW names, NEW c, c = Tree!pop_all_up_to_names(b, names)
  PROVE  Built(c) /\ Closes(b, c)
<1> DEFINE n == Len(b.stack)
           S == {j \in DOMAIN b.stack : Tree!Name(b, b.stack[j]) \in names}
           k == Tree!Highest(S)
<1>0. /\ Shaped(b) /\ n \in Nat /\ DOMAIN b.stack = 1..n
      /\ SubSeq(b.stack, 1, 0) = <<>> /\ 0 \in 0..n
  BY StackFacts
<1>1. k \in 0..n
  <2>1. S \in SUBSET (1..n)
    BY <1>0
  <2> HIDE DEF S
  <2> QED BY <2>1, StackFacts
<1>2. c = IF k = 0 THEN [b EXCEPT !.stack = <<>>, !.result = 0]
          ELSE [b EXCEPT !.stack = SubSeq(@, 1, k - 1), !.result = b.stack[k]]
  BY DEF Tree!pop_all_up_to_names
<1> HIDE DEF k
<1>3. SameTree(b, c) /\ c.afe = b.afe /\ c.stack = IF k = 0 THEN <<>> ELSE SubSeq(b.stack, 1, k - 1)
  BY <1>0, <1>2 DEF SameTree, Shaped, Fields
<1>4. \E m \in 0..n : c.stack = SubSeq(b.stack, 1, m)
  <2>1. k # 0 => k - 1 \in 0..n
    BY <1>0, <1>1
  <2> QED BY <1>0, <1>3, <2>1
<1> QED BY <1>3, <1>4, BuiltCloses DEF Closes

\* The element that all is closed back to is the current one.
LEMMA ClearBuilt ==
  ASSUME NEW b, Built(b), NEW names, NEW c, c = Tree!clear_stack_back(b, names)
  PROVE  /\ Built(c) /\ Closes(b, c)
         /\ c.stack # <<>> => c.dom[c.stack[Len(c.stack)]].name \in names
<1> DEFINE n == Len(b.stack)
           S == {j \in DOMAIN b.stack : Tree!Name(b, b.stack[j]) \in names}
           k == Tree!Highest(S)
<1>0. /\ Shaped(b) /\ n \in Nat /\ DOMAIN b.stack = 1..n
  BY StackFacts
<1>1. k \in 0..n /\ (k # 0 => k \in S)
  <2>1. S \in SUBSET (1..n)
    BY <1>0
  <2> HIDE DEF S
  <2> QED BY <2>1, StackFacts
<1>2. c = Tree!Keep(b, k)
  BY DEF Tree!clear_stack_back
<1> HIDE DEF k
<1>3. Built(c) /\ Closes(b, c) /\ c.stack = SubSeq(b.stack, 1, k)
  BY <1>1, <1>2, KeepBuilt
<1>4. ASSUME c.stack # <<>> PROVE c.dom[c.stack[Len(c.stack)]].name \in names
  <2> DEFINE d == b.dom
             s == b.stack
             t == c.stack
  <2>1. Open(d, s) /\ k \in 0..Len(s) /\ t = SubSeq(s, 1, k) /\ Open(d, t) /\ c.dom = d
    BY <1>1, <1>3 DEF Built, Closes, SameTree
  <2>2. k \in S => d[s[k]].name \in names
    BY DEF Tree!Name
  <2> HIDE DEF d, s, t, S
  <2>3. Len(t) = k /\ (\A j \in 1..k : t[j] = s[j]) /\ (t = <<>> <=> Len(t) = 0)
    <3>1. Len(t) = k /\ \A j \in 1..k : t[j] = s[j]
      BY <2>1, CutOpen
    <3>2. t = <<>> <=> Len(t) = 0
      BY <2>1, OpenFacts
    <3> QED BY <3>1, <3>2
  <2>4. k # 0 /\ k \in 1..k
    BY <1>0, <1>1, <1>4, <2>3 DEF t
  <2>5. d[t[Len(t)]].name \in names
    BY <1>1, <2>2, <2>3, <2>4
  <2> QED BY <2>1, <2>5 DEF t
<1> QED BY <1>3, <1>4

LEMMA ImpliedBuilt ==
  ASSUME NEW b, Built(b), NEW except, NEW c, c = Tree!generate_implied_end_tags(b, except)
  PROVE  Built(c) /\ Closes(b, c)
<1> DEFINE n == Len(b.stack)
           S == {j \in DOMAIN b.stack :
                    Tree!Name(b, b.stack[j]) \notin Tree!IMPLIED_END_TAGS \ {except}}
           k == Tree!Highest(S)
<1>0. n \in Nat /\ DOMAIN b.stack = 1..n
  BY StackFacts
<1>1. k \in 0..n
  <2>1. S \in SUBSET (1..n)
    BY <1>0
  <2> HIDE DEF S
  <2> QED BY <2>1, StackFacts
<1>2. c = Tree!Keep(b, k)
  BY DEF Tree!generate_implied_end_tags
<1> HIDE DEF k
<1> QED BY <1>1, <1>2, KeepBuilt

LEMMA ImpliedPopBuilt ==
  ASSUME NEW b, Built(b), NEW name, NEW c, c = Tree!generate_implied_end_tags_and_pop(b, name)
  PROVE  Built(c)
<1> DEFINE m == Tree!generate_implied_end_tags(b, name)
           names == {name}
<1>1. Built(m)
  BY ImpliedBuilt
<1>2. c = Tree!pop_all_up_to_names(m, names)
  BY DEF Tree!generate_implied_end_tags_and_pop
<1> HIDE DEF m, names
<1> QED BY <1>1, <1>2, PopAllBuilt

LEMMA ClosePBuilt ==
  ASSUME NEW b, Built(b), NEW c, c = Tree!close_p_in_button_scope(b)
  PROVE  Built(c)
<1> DEFINE p == "p"
<1>1. c = b \/ c = Tree!generate_implied_end_tags_and_pop(b, p)
  BY DEF Tree!close_p_in_button_scope
<1> HIDE DEF p
<1> QED BY <1>1, ImpliedPopBuilt

LEMMA AnyOtherBuilt ==
  ASSUME NEW b, Built(b), NEW name, NEW c, c = Tree!any_other_end_tag(b, name)
  PROVE  Built(c)
<1> DEFINE n == Len(b.stack)
           S == {j \in DOMAIN b.stack : Tree!Name(b, b.stack[j]) \in Tree!special \union {name}}
           k == Tree!Highest(S)
<1>0. Shaped(b) /\ n \in Nat /\ DOMAIN b.stack = 1..n
  BY StackFacts
<1>1. k \in 0..n
  <2>1. S \in SUBSET (1..n)
    BY <1>0
  <2> HIDE DEF S
  <2> QED BY <2>1, StackFacts
<1>2. c = IF k = 0 \/ Tree!Name(b, b.stack[k]) # name THEN Tree!NoResult(b)
          ELSE [b EXCEPT !.stack = SubSeq(@, 1, k - 1), !.result = b.stack[k]]
  BY DEF Tree!any_other_end_tag
<1> HIDE DEF k
<1>3. CASE k = 0 \/ Tree!Name(b, b.stack[k]) # name
  BY <1>2, <1>3, Plain
<1>4. CASE ~(k = 0 \/ Tree!Name(b, b.stack[k]) # name)
  <2>1. SameTree(b, c) /\ c.afe = b.afe /\ c.stack = SubSeq(b.stack, 1, k - 1)
    BY <1>0, <1>2, <1>4 DEF SameTree, Shaped, Fields
  <2>2. k - 1 \in 0..n
    BY <1>0, <1>1, <1>4
  <2> QED BY <2>1, <2>2, BuiltCloses DEF Closes
<1> QED BY <1>3, <1>4

-----------------------------------------------------------------------------
(* The active formatting elements. *)

LEMMA AfeFacts ==
  ASSUME NEW b, Built(b)
  PROVE  /\ Shaped(b) /\ DOMAIN b.afe = 1..Len(b.afe) /\ Len(b.afe) \in Nat
         /\ b.afe \in Seq(0..Len(b.dom)) /\ Len(b.dom) \in Nat
         /\ \A k \in 1..Len(b.afe) :
               /\ b.afe[k] \in 0..Len(b.dom)
               /\ b.afe[k] # 0 => b.dom[b.afe[k]].name \in Formatting
<1>1. AfeOK(b.dom, b.afe) /\ Shaped(b) /\ IsSeq(b.dom)
  BY DEF Built, Linked
<1>2. b.afe \in Seq(0..Len(b.dom))
  BY <1>1 DEF AfeOK
<1> QED BY <1>1, <1>2, LenProperties, ElementOfSeq, SeqFacts DEF AfeOK

LEMMA AfeRemoved ==
  ASSUME NEW b, Built(b), NEW id, NEW c, c = Tree!afe_remove(b, id)
  PROVE  /\ Built(c) /\ Still(b, c)
         /\ \A y : In(y, b.afe) /\ y # id => In(y, c.afe)
<1> DEFINE a == b.afe
           r == Tree!RemoveFirst(a, id)
           n == Len(b.dom)
<1>0. Shaped(b) /\ a \in Seq(0..n) /\ \A k \in 1..Len(a) : a[k] # 0 => b.dom[a[k]].name \in Formatting
  BY AfeFacts
<1>1. Still(b, c) /\ c.afe = r
  BY <1>0 DEF SameTree, Still, Shaped, Fields, Tree!afe_remove
<1> HIDE DEF r, a
<1>2. /\ r \in Seq(0..n)
      /\ \A y : In(y, r) => In(y, a)
      /\ \A y : In(y, a) /\ y # id => In(y, r)
  BY <1>0, Removed DEF r
<1>3. \A k \in 1..Len(r) : In(r[k], r)
  BY DEF In
<1>4. \A k \in 1..Len(r) : r[k] # 0 => b.dom[r[k]].name \in Formatting
  BY <1>0, <1>2, <1>3 DEF In
<1>5. AfeOK(b.dom, c.afe)
  BY <1>1, <1>2, <1>4 DEF AfeOK
<1>6. Open(b.dom, c.stack)
  BY <1>1 DEF Still, Built
<1>7. Built(c)
  BY <1>1, <1>5, <1>6, BuiltWith DEF Still
<1> QED BY <1>1, <1>2, <1>7 DEF a

LEMMA AfeReplaced ==
  ASSUME NEW b, Built(b), NEW old, NEW new \in 1..Len(b.dom), b.dom[new].name \in Formatting,
         NEW c, c = Tree!afe_replace(b, old, new)
  PROVE  /\ Built(c) /\ Still(b, c)
         /\ \A y : In(y, b.afe) /\ y # old => In(y, c.afe)
         /\ In(old, b.afe) => In(new, c.afe)
         /\ Len(c.afe) = Len(b.afe)
         /\ \A k \in 1..Len(b.afe) : c.afe[k] = IF b.afe[k] = old THEN new ELSE b.afe[k]
<1> DEFINE a == b.afe
           n == Len(b.dom)
           r == [k \in 1..Len(a) |-> IF a[k] = old THEN new ELSE a[k]]
<1>0. /\ Shaped(b) /\ DOMAIN a = 1..Len(a) /\ Len(a) \in Nat /\ n \in Nat
      /\ \A k \in 1..Len(a) : a[k] \in 0..n /\ (a[k] # 0 => b.dom[a[k]].name \in Formatting)
  BY AfeFacts
<1>1. Still(b, c) /\ c.afe = r
  BY <1>0 DEF SameTree, Still, Shaped, Fields, Tree!afe_replace
<1>2. r \in [1..Len(a) -> 0..n]
  BY <1>0
<1>2a. \A k \in 1..Len(a) : r[k] = IF a[k] = old THEN new ELSE a[k]
  OBVIOUS
<1> HIDE DEF r, a
<1>3. r \in Seq(0..n) /\ Len(r) = Len(a)
  BY <1>0, <1>2, SeqOfFunction
<1>4. \A k \in 1..Len(r) : r[k] # 0 => b.dom[r[k]].name \in Formatting
  BY <1>0, <1>2a, <1>3
<1>5. AfeOK(b.dom, c.afe)
  BY <1>1, <1>3, <1>4 DEF AfeOK
<1>6. Open(b.dom, c.stack)
  BY <1>1 DEF Still, Built
<1>7. Built(c)
  BY <1>1, <1>5, <1>6, BuiltWith DEF Still
<1>8. ASSUME NEW y, In(y, a), y # old PROVE In(y, r)
  <2>1. PICK k \in 1..Len(a) : a[k] = y
    BY <1>8 DEF In
  <2>2. r[k] = y
    BY <1>2a, <1>8, <2>1
  <2> QED BY <1>3, <2>1, <2>2 DEF In
<1>9. ASSUME In(old, a) PROVE In(new, r)
  <2>1. PICK k \in 1..Len(a) : a[k] = old
    BY <1>9 DEF In
  <2>2. r[k] = new
    BY <1>2a, <2>1
  <2> QED BY <1>3, <2>1, <2>2 DEF In
<1> QED BY <1>1, <1>2a, <1>3, <1>7, <1>8, <1>9 DEF a

LEMMA AfeAppended ==
  ASSUME NEW b, Built(b), NEW id \in 0..Len(b.dom), id # 0 => b.dom[id].name \in Formatting,
         NEW c, Still(b, c), c.afe = Append(b.afe, id)
  PROVE  Built(c)
<1> DEFINE a == b.afe
           r == c.afe
           n == Len(b.dom)
<1>0. /\ a \in Seq(0..n) /\ Len(a) \in Nat
      /\ \A k \in 1..Len(a) : a[k] # 0 => b.dom[a[k]].name \in Formatting
  BY AfeFacts
<1>1. r \in Seq(0..n) /\ Len(r) = Len(a) + 1 /\ (\A k \in 1..Len(a) : r[k] = a[k]) /\ r[Len(a) + 1] = id
  <2>1. r = Append(a, id)
    OBVIOUS
  <2> HIDE DEF a, r
  <2> QED BY <1>0, <2>1, AppendProperties
<1> HIDE DEF a, r
<1>2. ASSUME NEW k \in 1..Len(r), r[k] # 0 PROVE b.dom[r[k]].name \in Formatting
  <2>1. k \in 1..Len(a) \/ k = Len(a) + 1
    BY <1>0, <1>1
  <2> QED BY <1>0, <1>1, <1>2, <2>1
<1>3. AfeOK(b.dom, c.afe)
  BY <1>1, <1>2 DEF AfeOK, r
<1>4. Open(b.dom, c.stack)
  BY DEF Still, Built
<1> QED BY <1>3, <1>4, BuiltWith DEF Still

LEMMA PushBuilt ==
  ASSUME NEW b, Built(b), b.result \in 1..Len(b.dom), b.dom[b.result].name \in Formatting,
         NEW c, c = Tree!afe_push(b)
  PROVE  Built(c)
<1>0. Shaped(b) /\ Len(b.dom) \in Nat
  BY AfeFacts
<1>1. Still(b, c) /\ c.afe = Append(b.afe, b.result)
  BY <1>0 DEF SameTree, Still, Shaped, Fields, Tree!afe_push
<1>2. b.result \in 0..Len(b.dom)
  BY <1>0
<1> QED BY <1>1, <1>2, AfeAppended

LEMMA MarkerBuilt ==
  ASSUME NEW b, Built(b), NEW c, c = Tree!insert_marker(b)
  PROVE  Built(c)
<1>0. Shaped(b) /\ Len(b.dom) \in Nat
  BY AfeFacts
<1> DEFINE marker == 0
<1>1. Still(b, c) /\ c.afe = Append(b.afe, marker)
  BY <1>0 DEF SameTree, Still, Shaped, Fields, Tree!insert_marker, Tree!Marker
<1>2. marker \in 0..Len(b.dom) /\ ~(marker # 0)
  BY <1>0
<1> HIDE DEF marker
<1> QED BY <1>1, <1>2, AfeAppended

LEMMA ClearMarkerBuilt ==
  ASSUME NEW b, Built(b), NEW c, c = Tree!clear_to_marker(b)
  PROVE  Built(c)
<1> DEFINE a == b.afe
           S == {j \in DOMAIN a : a[j] = Tree!Marker}
           k == Tree!Highest(S)
           n == Len(b.dom)
           r == SubSeq(a, 1, k - 1)
<1>0. /\ Shaped(b) /\ DOMAIN a = 1..Len(a) /\ Len(a) \in Nat /\ a \in Seq(0..n)
      /\ \A j \in 1..Len(a) : a[j] # 0 => b.dom[a[j]].name \in Formatting
  BY AfeFacts
<1>1. k \in 0..Len(a)
  <2>1. S \in SUBSET (1..Len(a))
    BY <1>0
  <2> HIDE DEF S, a
  <2> QED BY <1>0, <2>1, HighestOf
<1> HIDE DEF k
<1>2. Still(b, c) /\ c.afe = r
  BY <1>0 DEF SameTree, Still, Shaped, Fields, Tree!clear_to_marker, k
<1>3. r \in Seq(0..n) /\ Len(r) \in Nat /\ Len(r) <= Len(a) /\ \A j \in 1..Len(r) : r[j] = a[j]
  <2>1. CASE k = 0
    <3>1. r = <<>>
      BY <2>1, SubSeqEmpty
    <3>2. <<>> \in Seq(0..n) /\ Len(<<>>) = 0
      BY SeqEmpty
    <3> HIDE DEF r
    <3> QED BY <1>0, <3>1, <3>2
  <2>2. CASE k # 0
    <3>1. 1 \in 1..(Len(a) + 1) /\ k - 1 \in (1 - 1)..Len(a)
      BY <1>0, <1>1, <2>2
    <3> HIDE DEF a, r
    <3>2. /\ r \in Seq(0..n) /\ Len(r) = ((k - 1) - 1) + 1
          /\ \A j \in 1..Len(r) : r[j] = a[(1 - 1) + j]
      BY <1>0, <3>1, PartOf DEF r
    <3> QED BY <1>0, <1>1, <2>2, <3>2
  <2> QED BY <2>1, <2>2
<1> HIDE DEF r
<1>4. \A j \in 1..Len(r) : r[j] # 0 => b.dom[r[j]].name \in Formatting
  <2>1. \A j \in 1..Len(r) : j \in 1..Len(a) /\ r[j] = a[j]
    BY <1>0, <1>3
  <2> HIDE DEF a
  <2> QED BY <1>0, <2>1
<1>5. AfeOK(b.dom, c.afe)
  BY <1>2, <1>3, <1>4 DEF AfeOK
<1>6. Open(b.dom, c.stack)
  BY <1>2 DEF Still, Built
<1> QED BY <1>2, <1>5, <1>6, BuiltWith DEF Still

\* A formatting element that is found is one that is active.
LEMMA FoundByName ==
  ASSUME NEW b, Built(b), NEW name, NEW id, id = Tree!find_element_by_name(b, name), id # 0
  PROVE  In(id, b.afe) /\ id \in 1..Len(b.dom) /\ b.dom[id].name \in Formatting
<1> DEFINE a == b.afe
           n == Len(a)
           S == {j \in DOMAIN a : a[j] = Tree!Marker}
           m == Tree!Highest(S)
           T == {j \in (m + 1)..n : Tree!Name(b, a[j]) = name}
           k == Tree!Highest(T)
<1>0. /\ DOMAIN a = 1..n /\ n \in Nat
      /\ \A j \in 1..n : a[j] \in 0..Len(b.dom) /\ (a[j] # 0 => b.dom[a[j]].name \in Formatting)
  BY AfeFacts
<1>1. m \in 0..n
  <2>1. S \in SUBSET (1..n)
    BY <1>0
  <2> HIDE DEF S, n
  <2> QED BY <1>0, <2>1, HighestOf
<1> HIDE DEF m
<1>2. k \in 0..n
  <2>1. T \in SUBSET (1..n)
    BY <1>0, <1>1
  <2> HIDE DEF T, n
  <2> QED BY <1>0, <2>1, HighestOf
<1> HIDE DEF k
<1>3. id = IF k = 0 THEN 0 ELSE a[k]
  BY DEF Tree!find_element_by_name, k, m
<1>4. k \in 1..n /\ id = a[k]
  BY <1>0, <1>2, <1>3
<1> QED BY <1>0, <1>4 DEF In

IsReopening(f, b, still, n) ==
    f = [k \in still..n |-> IF k = still THEN b ELSE Tree!Reopen(f[k - 1], k)]

\* Formatting is opened again one element after the other.
LEMMA ReopenedInTurn ==
  ASSUME NEW b, NEW n \in Nat, NEW still \in 0..n
  PROVE  IsReopening(CHOOSE f : IsReopening(f, b, still, n), b, still, n)
<1> DEFINE Step(x, k) == Tree!Reopen(x, k)
           lo == still
           m == n - still
           start0 == b
           Upto(k, g) == g[lo] = start0 /\ \A j \in (lo + 1)..(lo + k) : g[j] = Step(g[j - 1], j)
           S == {k \in 0..m : \E g : Upto(k, g)}
<1>0. lo \in Nat /\ m \in Nat /\ still..n = lo..(lo + m)
  OBVIOUS
<1>a. ASSUME NEW f
      PROVE  IsReopening(f, b, still, n) <=>
                 f = [k \in still..n |-> IF k = lo THEN start0 ELSE Step(f[k - 1], k)]
  BY Zenon DEF IsReopening
<1> HIDE DEF lo, m, start0, Step
<1>1. 0 \in S
  <2>1. Upto(0, [k \in {lo} |-> start0])
    BY <1>0
  <2> HIDE DEF Upto
  <2> QED BY <1>0, <2>1
<1>2. ASSUME NEW k \in 0..(m - 1), k \in S PROVE k + 1 \in S
  <2>1. PICK g : Upto(k, g)
    BY <1>2
  <2> DEFINE h == [j \in lo..(lo + (k + 1)) |->
                      IF j = lo + (k + 1) THEN Step(g[lo + k], lo + (k + 1)) ELSE g[j]]
  <2>2. \A j \in lo..(lo + k) : h[j] = g[j]
    BY <1>0
  <2>3. h[lo + (k + 1)] = Step(g[lo + k], lo + (k + 1))
    BY <1>0
  <2> HIDE DEF h
  <2>4. Upto(k + 1, h)
    <3>1. h[lo] = start0
      BY <1>0, <2>1, <2>2
    <3>2. ASSUME NEW j \in (lo + 1)..(lo + (k + 1)) PROVE h[j] = Step(h[j - 1], j)
      <4>1. CASE j = lo + (k + 1)
        <5>1. j - 1 = lo + k /\ lo + k \in lo..(lo + k)
          BY <1>0, <4>1
        <5>2. h[j - 1] = g[lo + k]
          BY <2>2, <5>1
        <5> QED BY <2>3, <4>1, <5>2
      <4>2. CASE j # lo + (k + 1)
        <5>0. j \in lo..(lo + k) /\ j - 1 \in lo..(lo + k) /\ j \in (lo + 1)..(lo + k)
          BY <1>0, <4>2
        <5>1. h[j] = g[j] /\ h[j - 1] = g[j - 1]
          BY <2>2, <5>0
        <5>2. g[j] = Step(g[j - 1], j)
          BY <2>1, <5>0
        <5> QED BY <5>1, <5>2
      <4> QED BY <4>1, <4>2
    <3> QED BY <3>1, <3>2
  <2> HIDE DEF Upto
  <2>5. k + 1 \in 0..m
    BY <1>0
  <2> QED BY <2>4, <2>5
<1>3. m \in S
  <2> HIDE DEF S
  <2>1. 0..m \subseteq S
    BY <1>0, <1>1, <1>2, UpTo
  <2> QED BY <1>0, <2>1
<1>4. PICK g : Upto(m, g)
  BY <1>3
<1> DEFINE h == [k \in still..n |-> IF k = lo THEN start0 ELSE Step(g[k - 1], k)]
<1>5. ASSUME NEW k \in still..n PROVE h[k] = g[k]
  <2>1. CASE k = lo
    BY <1>4, <2>1
  <2>2. CASE k # lo
    <3>1. k \in (lo + 1)..(lo + m)
      BY <1>0, <2>2
    <3>2. g[k] = Step(g[k - 1], k)
      BY <1>4, <3>1
    <3> QED BY <2>2, <3>2
  <2> QED BY <2>1, <2>2
<1>6. IsReopening(h, b, still, n)
  <2>1. ASSUME NEW k \in still..n, k # lo PROVE h[k - 1] = g[k - 1]
    <3>1. k - 1 \in still..n
      BY <1>0, <2>1
    <3> HIDE DEF h
    <3> QED BY <1>5, <3>1
  <2>2. h = [k \in still..n |-> IF k = lo THEN start0 ELSE Step(h[k - 1], k)]
    <3> SUFFICES ASSUME NEW k \in still..n
                 PROVE  (IF k = lo THEN start0 ELSE Step(g[k - 1], k))
                          = (IF k = lo THEN start0 ELSE Step(h[k - 1], k))
      OBVIOUS
    <3> HIDE DEF h
    <3>1. CASE k = lo
      BY <3>1
    <3>2. CASE k # lo
      BY <2>1, <3>2
    <3> QED BY <3>1, <3>2
  <2> HIDE DEF h
  <2> QED BY <1>a, <2>2
<1> QED BY <1>6

LEMMA FormattingSuits ==
  ASSUME NEW name \in Formatting, NEW below
  PROVE  Suits(name, below)
BY DEF Formatting, Tree!formatting_tags, Suits

\* As many are active as before, and what sets a cell apart stays.
Active(b, c) ==
  /\ Len(c.afe) = Len(b.afe)
  /\ \A k \in 1..Len(b.afe) : c.afe[k] = 0 <=> b.afe[k] = 0

LEMMA ReopenBuilt ==
  ASSUME NEW b, Built(b), NEW k \in 1..Len(b.afe), b.afe[k] # 0, NEW c, c = Tree!Reopen(b, k)
  PROVE  Built(c) /\ Active(b, c)
<1> DEFINE old == b.afe[k]
           name == Tree!Name(b, old)
           tag == b.dom[old].tag
           new == Tree!insert_element(b, name, tag)
           id == new.result
<1>1. name \in Formatting /\ Len(b.dom) \in Nat
  BY AfeFacts DEF Tree!Name
<1>2. c = Tree!afe_replace(new, old, id)
  BY DEF Tree!Reopen
<1> HIDE DEF name, tag
<1>3. \A below : Suits(name, below)
  BY <1>1, FormattingSuits
<1>4. Built(new) /\ Made1(b, new, name)
  BY <1>3, ElementBuilt
<1> HIDE DEF new
<1>5. /\ id \in 1..Len(new.dom) /\ new.dom[id].name \in Formatting /\ new.afe = b.afe
      /\ id # 0
  BY <1>1, <1>4 DEF Made1
<1> HIDE DEF id
<1>6. /\ Built(c) /\ Len(c.afe) = Len(new.afe)
      /\ \A j \in 1..Len(new.afe) : c.afe[j] = IF new.afe[j] = old THEN id ELSE new.afe[j]
  BY <1>2, <1>4, <1>5, AfeReplaced
<1> QED BY <1>5, <1>6 DEF Active

LEMMA ReconstructBuilt ==
  ASSUME NEW b, Built(b), NEW c, c = Tree!reconstruct_afe(b)
  PROVE  Built(c)
<1> DEFINE n == Len(b.afe)
           Still0 == {j \in DOMAIN b.afe : b.afe[j] = Tree!Marker \/ Tree!IsOpen(b, b.afe[j])}
           still == Tree!Highest(Still0)
           f == CHOOSE g : IsReopening(g, b, still, n)
           m == n - still
           S == {k \in 0..m : Built(f[still + k]) /\ Active(b, f[still + k])}
<1>0. DOMAIN b.afe = 1..n /\ n \in Nat
  BY AfeFacts
<1>1. still \in 0..n /\ \A k \in (still + 1)..n : b.afe[k] # 0
  <2>1. Still0 \in SUBSET (1..n)
    BY <1>0
  <2>2. \A k \in 1..n : b.afe[k] = 0 => k \in Still0
    BY <1>0 DEF Tree!Marker
  <2> HIDE DEF Still0, n
  <2>3. still \in 0..n /\ \A k \in Still0 : still >= k
    BY <1>0, <2>1, HighestOf
  <2>4. ASSUME NEW k \in (still + 1)..n PROVE b.afe[k] # 0
    <3>1. k \in 1..n /\ ~(still >= k)
      BY <1>0, <2>3
    <3> QED BY <2>2, <2>3, <3>1
  <2> QED BY <2>3, <2>4
<1>2. c = f[n]
  BY Zenon DEF Tree!reconstruct_afe, IsReopening
<1> HIDE DEF still
<1>3. IsReopening(f, b, still, n)
  <2> HIDE DEF n
  <2> QED BY <1>0, <1>1, ReopenedInTurn
<1> HIDE DEF f
<1>4. /\ f[still] = b
      /\ \A k \in (still + 1)..n : f[k] = Tree!Reopen(f[k - 1], k)
  BY <1>0, <1>1, <1>3 DEF IsReopening
<1>5. 0 \in S
  <2>1. still + 0 = still /\ 0 \in 0..m /\ f[still] = b
    BY <1>0, <1>1, <1>4
  <2>2. Active(b, b)
    BY DEF Active
  <2> QED BY <2>1, <2>2
<1>6. ASSUME NEW k \in 0..(m - 1), k \in S PROVE k + 1 \in S
  <2> DEFINE x == f[still + k]
             y == f[still + (k + 1)]
             i == still + (k + 1)
  <2>1. Built(x) /\ Active(b, x)
    BY <1>6
  <2>2. /\ i \in (still + 1)..n /\ i - 1 = still + k /\ i \in 1..n
        /\ k + 1 \in 0..m
    BY <1>0, <1>1
  <2>3. y = Tree!Reopen(x, i)
    BY <1>4, <2>2
  <2>4. i \in 1..Len(x.afe) /\ x.afe[i] # 0
    BY <1>1, <2>1, <2>2 DEF Active
  <2> HIDE DEF x, y, i
  <2>5. Built(y) /\ Active(x, y)
    BY <2>1, <2>3, <2>4, ReopenBuilt
  <2>6. Active(b, y)
    BY <2>1, <2>5 DEF Active
  <2> QED BY <2>2, <2>5, <2>6 DEF y
<1>7. Built(f[n])
  <2>0. m \in Nat /\ still + m = n
    BY <1>0, <1>1
  <2> HIDE DEF S, m
  <2>1. 0..m \subseteq S
    BY <1>5, <1>6, <2>0, UpTo
  <2>2. m \in S
    BY <2>0, <2>1
  <2> QED BY <2>0, <2>2 DEF S
<1> QED BY <1>2, <1>7

-----------------------------------------------------------------------------
(* The adoption agency. *)

CloningFields == {"b", "clones", "bookmark"}

\* The elements that are open between the formatting element at f and the block have
\* clones: the new nodes are formatting, and no node that was there is moved. What
\* the new element is to be active behind is active.
Cloning(b, f, acc) ==
  /\ acc = [x \in CloningFields |-> acc[x]]
  /\ Built(acc.b) /\ acc.b.stack = b.stack /\ Same(b.dom, acc.b.dom)
  /\ acc.clones \in Seq((Len(b.dom) + 1)..Len(acc.b.dom)) /\ Apart(acc.clones)
  /\ \A i \in 1..Len(acc.clones) : acc.b.dom[acc.clones[i]].name \in Formatting
  /\ In(acc.bookmark, acc.b.afe)
  /\ acc.bookmark = b.stack[f] \/ acc.bookmark \in (Len(b.dom) + 1)..Len(acc.b.dom)

LEMMA SameTransitive ==
  ASSUME NEW d, IsSeq(d), NEW e, NEW g, Same(d, e), Same(e, g), IsSeq(e), IsSeq(g)
  PROVE  Same(d, g)
<1>1. Len(d) \in Nat /\ Len(e) \in Nat /\ Len(g) \in Nat
  BY SeqFacts
<1>2. \A k \in 1..Len(d) : k \in 1..Len(e)
  BY <1>1 DEF Same
<1> QED BY <1>1, <1>2 DEF Same

\* One clone more, outside of the others.
IsPut(t, s, lo, n) ==
  /\ t \in Seq(lo..(n + 1)) /\ Apart(t) /\ Len(t) = Len(s) + 1 /\ t[1] = n + 1
  /\ \A i \in 2..Len(t) : t[i] = s[i - 1] /\ i - 1 \in 1..Len(s)

LEMMA ClonePut ==
  ASSUME NEW lo \in Nat, NEW n \in Nat, lo <= n + 1, NEW s, s \in Seq(lo..n), Apart(s), NEW e,
         e = <<n + 1>>, NEW t, t = e \o s
  PROVE  IsPut(t, s, lo, n)
<1> DEFINE S == lo..(n + 1)
<1>0. Len(s) \in Nat /\ \A i \in 1..Len(s) : s[i] \in lo..n
  BY LenProperties, ElementOfSeq
<1>1. s \in Seq(S)
  <2>1. lo..n \subseteq S
    OBVIOUS
  <2> HIDE DEF S
  <2> QED BY <2>1, SeqMonotonic
<1>2. e \in Seq(S) /\ Len(e) = 1 /\ e[1] = n + 1
  <2>1. n + 1 \in S
    OBVIOUS
  <2> HIDE DEF S
  <2> QED BY <2>1
<1> HIDE DEF S
<1>3. /\ t \in Seq(S) /\ Len(t) = Len(e) + Len(s)
      /\ \A k \in 1..Len(e) : t[k] = e[k]
      /\ \A k \in 1..Len(s) : t[Len(e) + k] = s[k]
  BY <1>1, <1>2, Joined
<1>4. ASSUME NEW i \in 2..Len(t) PROVE t[i] = s[i - 1] /\ i - 1 \in 1..Len(s)
  <2>1. i - 1 \in 1..Len(s) /\ 1 + (i - 1) = i
    BY <1>0, <1>2, <1>3
  <2> QED BY <1>2, <1>3, <2>1
<1>5. t[1] = n + 1 /\ Len(t) = Len(s) + 1
  BY <1>0, <1>2, <1>3
<1>6. ASSUME NEW i \in 1..Len(t), NEW j \in 1..Len(t), t[i] = t[j] PROVE i = j
  <2>1. ASSUME NEW x \in 2..Len(t) PROVE t[x] # n + 1
    <3>1. s[x - 1] \in lo..n
      BY <1>0, <1>4
    <3> QED BY <1>4, <3>1
  <2>2. CASE i = 1 \/ j = 1
    BY <1>0, <1>5, <1>6, <2>1, <2>2
  <2>3. CASE i # 1 /\ j # 1
    <3>1. i \in 2..Len(t) /\ j \in 2..Len(t)
      BY <1>0, <1>5, <2>3
    <3>2. i - 1 = j - 1
      BY <1>4, <1>6, <3>1 DEF Apart
    <3> QED BY <3>1, <3>2
  <2> QED BY <2>2, <2>3
<1> QED BY <1>3, <1>4, <1>5, <1>6 DEF Apart, S, IsPut

LEMMA CloneStep ==
  ASSUME NEW b, Built(b), NEW f \in 1..Len(b.stack), NEW acc, Cloning(b, f, acc),
         NEW k \in (f + 1)..Len(b.stack), NEW fb, NEW c, c = Tree!CloneBetween(acc, fb, k)
  PROVE  Cloning(b, f, c)
<1> DEFINE b1 == acc.b
           d == b.dom
           d1 == b1.dom
           n == Len(d1)
           node == b1.stack[k]
           name == Tree!Name(b1, node)
           tag == d1[node].tag
           held == <<>>
           new == Tree!NewNode(b1, name, tag, held)
           clone == Tree!Newest(new)
           clones == acc.clones
           near == node \in Tree!Range(b1.afe) /\ fb - k <= 3
<1>0. /\ Built(b1) /\ b1.stack = b.stack /\ Same(d, d1) /\ IsSeq(d) /\ IsSeq(d1)
      /\ Len(d) \in Nat /\ n \in Nat /\ Len(d) <= n /\ Open(d, b.stack) /\ Len(b.stack) \in Nat
      /\ \A i \in 1..Len(b.stack) : b.stack[i] \in 1..Len(d)
  <2>1. Built(b1) /\ b1.stack = b.stack /\ Same(d, d1)
    BY DEF Cloning
  <2>2. IsSeq(d) /\ IsSeq(d1) /\ Open(d, b.stack)
    BY <2>1 DEF Built, Linked
  <2>3. Len(d) \in Nat /\ n \in Nat /\ Len(d) <= n
    BY <2>1, <2>2, SeqFacts DEF Same
  <2> HIDE DEF d, d1, b1, n
  <2>4. Len(b.stack) \in Nat /\ \A i \in 1..Len(b.stack) : b.stack[i] \in 1..Len(d)
    BY <2>2, OpenFacts
  <2> QED BY <2>1, <2>2, <2>3, <2>4
<1>1. node \in 1..Len(d) /\ node # b.stack[f] /\ node # acc.bookmark /\ node # 0
  <2>1. k \in 1..Len(b.stack) /\ k # f /\ node = b.stack[k]
    BY <1>0
  <2>2. node \in 1..Len(d) /\ node # b.stack[f]
    BY <1>0, <2>1 DEF Open, Apart
  <2>3. acc.bookmark = b.stack[f] \/ acc.bookmark \in (Len(d) + 1)..Len(acc.b.dom)
    BY DEF Cloning
  <2> HIDE DEF node, d
  <2> QED BY <1>0, <2>2, <2>3
<1>2. CASE ~near
  <2> DEFINE b2 == Tree!afe_remove(b1, node)
  <2>1. c = [acc EXCEPT !.b = b2]
    BY <1>2 DEF Tree!CloneBetween
  <2> HIDE DEF node, b1
  <2>2. /\ Built(b2) /\ Still(b1, b2)
        /\ \A y : In(y, b1.afe) /\ y # node => In(y, b2.afe)
    BY <1>0, AfeRemoved
  <2> HIDE DEF b2
  <2>3. /\ c = [x \in CloningFields |-> c[x]]
        /\ c.b = b2 /\ c.clones = clones /\ c.bookmark = acc.bookmark
    BY <2>1 DEF Cloning, CloningFields
  <2>4. b2.stack = b.stack /\ b2.dom = d1
    BY <1>0, <2>2 DEF Still, SameTree
  <2>5. In(c.bookmark, b2.afe)
    BY <1>1, <2>2, <2>3 DEF Cloning, b1
  <2> QED BY <2>2, <2>3, <2>4, <2>5 DEF Cloning, b1
<1>3. CASE near
  <2> DEFINE b2 == Tree!afe_replace(new, node, clone)
             more == <<clone>> \o clones
             mark == IF clones = <<>> THEN clone ELSE acc.bookmark
  <2>1. c = [b |-> b2, clones |-> more, bookmark |-> mark]
    BY <1>3 DEF Tree!CloneBetween
  <2>2. name \in Formatting /\ In(node, b1.afe)
    <3>1. In(node, b1.afe)
      <4>1. DOMAIN b1.afe = 1..Len(b1.afe)
        BY <1>0, AfeFacts
      <4> QED BY <1>3, <4>1 DEF Tree!Range, In
    <3>2. \A i \in 1..Len(b1.afe) : b1.afe[i] # 0 => b1.dom[b1.afe[i]].name \in Formatting
      BY <1>0, AfeFacts
    <3> QED BY <1>1, <3>1, <3>2 DEF In, Tree!Name
  <2> HIDE DEF node, b1, name, tag, held
  <2>3. /\ Rest(b1, new)
        /\ Linked(new.dom) /\ Len(new.dom) = n + 1 /\ Same(d1, new.dom)
        /\ new.dom[n + 1].name = name
    <3>1. Shaped(b1) /\ Linked(b1.dom)
      BY <1>0 DEF Built
    <3> QED BY <3>1, NodeMade
  <2>4. clone = n + 1
    BY <2>3 DEF Tree!Newest
  <2> HIDE DEF new
  <2>5. Built(new)
    BY <1>0, <2>3, BuiltMore
  <2> HIDE DEF clone
  <2>6. clone \in 1..Len(new.dom) /\ new.dom[clone].name \in Formatting
    BY <1>0, <2>2, <2>3, <2>4
  <2>7. /\ Built(b2) /\ Still(new, b2)
        /\ \A y : In(y, new.afe) /\ y # node => In(y, b2.afe)
        /\ In(node, new.afe) => In(clone, b2.afe)
    BY <2>5, <2>6, AfeReplaced
  <2> HIDE DEF b2
  <2>8. b2.stack = b.stack /\ b2.dom = new.dom /\ Len(b2.dom) = n + 1 /\ new.afe = b1.afe
    BY <1>0, <2>3, <2>7 DEF Still, SameTree, Rest
  <2>9. Same(d, b2.dom)
    <3>1. IsSeq(new.dom) /\ Same(d1, new.dom)
      BY <2>3 DEF Linked
    <3> HIDE DEF d, d1
    <3>2. Same(d, new.dom)
      BY <1>0, <3>1, SameTransitive
    <3> QED BY <2>8, <3>2
  <2>10. /\ more \in Seq((Len(d) + 1)..(n + 1)) /\ Apart(more)
         /\ Len(more) = Len(clones) + 1 /\ more[1] = n + 1
         /\ \A i \in 2..Len(more) : more[i] = clones[i - 1] /\ i - 1 \in 1..Len(clones)
    <3> DEFINE lo == Len(d) + 1
    <3>1. lo \in Nat /\ lo <= n + 1 /\ clones \in Seq(lo..n) /\ Apart(clones)
      BY <1>0 DEF Cloning, b1
    <3> DEFINE one == <<n + 1>>
    <3>2. more = one \o clones
      BY <2>4
    <3> HIDE DEF lo, more, clones, n
    <3>3. IsPut(more, clones, lo, n)
      <4>1. n \in Nat
        BY <1>0 DEF n
      <4>2. one = <<n + 1>>
        OBVIOUS
      <4> HIDE DEF one
      <4> QED BY <3>1, <3>2, <4>1, <4>2, ClonePut
    <3> QED BY <3>3 DEF lo, IsPut
  <2> HIDE DEF more
  <2>11. ASSUME NEW i \in 1..Len(more) PROVE b2.dom[more[i]].name \in Formatting
    <3>1. CASE i = 1
      BY <2>4, <2>6, <2>8, <2>10, <3>1
    <3>2. CASE i # 1
      <4>1. i \in 2..Len(more)
        BY <2>10, <3>2
      <4>2. more[i] = clones[i - 1] /\ i - 1 \in 1..Len(clones)
        BY <2>10, <4>1
      <4>3. clones \in Seq((Len(d) + 1)..n) /\ d1[clones[i - 1]].name \in Formatting
        BY <4>2 DEF Cloning, b1
      <4>4. clones[i - 1] \in (Len(d) + 1)..n
        BY <4>2, <4>3, ElementOfSeq
      <4>5. clones[i - 1] \in 1..n
        BY <1>0, <4>4
      <4> QED BY <2>3, <2>8, <4>2, <4>3, <4>5 DEF Same
    <3> QED BY <3>1, <3>2
  <2>12. /\ In(mark, b2.afe)
         /\ mark = b.stack[f] \/ mark \in (Len(d) + 1)..Len(b2.dom)
    <3>1. CASE clones = <<>>
      <4>1. In(clone, b2.afe)
        BY <2>2, <2>7, <2>8
      <4>2. clone \in (Len(d) + 1)..Len(b2.dom)
        BY <1>0, <2>4, <2>8
      <4> QED BY <3>1, <4>1, <4>2
    <3>2. CASE clones # <<>>
      <4>1. /\ In(acc.bookmark, b1.afe)
            /\ acc.bookmark = b.stack[f] \/ acc.bookmark \in (Len(d) + 1)..n
        BY DEF Cloning, b1
      <4>2. In(acc.bookmark, b2.afe)
        BY <1>1, <2>7, <2>8, <4>1
      <4>3. acc.bookmark \in (Len(d) + 1)..n => acc.bookmark \in (Len(d) + 1)..Len(b2.dom)
        BY <1>0, <2>8
      <4> QED BY <3>2, <4>1, <4>2, <4>3
    <3> QED BY <3>1, <3>2
  <2> HIDE DEF mark
  <2>13. /\ c = [x \in CloningFields |-> c[x]]
         /\ c.b = b2 /\ c.clones = more /\ c.bookmark = mark
    BY <2>1 DEF CloningFields
  <2> QED BY <2>7, <2>8, <2>9, <2>10, <2>11, <2>12, <2>13 DEF Cloning
<1> QED BY <1>2, <1>3

IsCloning(f, b, ft, fb) ==
    f = [k \in 0..(fb - (ft + 1)) |-> IF k = 0 THEN [b |-> b, clones |-> <<>>, bookmark |-> b.stack[ft]] ELSE Tree!CloneBetween(f[k - 1], fb, fb - k)]

\* From the block outwards.
LEMMA ClonedInTurn ==
  ASSUME NEW b, NEW ft \in Nat, NEW fb \in Nat, ft + 1 <= fb
  PROVE  IsCloning(CHOOSE f : IsCloning(f, b, ft, fb), b, ft, fb)
<1> DEFINE Step(x, k) == Tree!CloneBetween(x, fb, fb - k)
           lo == 0
           m == (fb - (ft + 1)) - 0
           start0 == [b |-> b, clones |-> <<>>, bookmark |-> b.stack[ft]]
           Upto(k, g) == g[lo] = start0 /\ \A j \in (lo + 1)..(lo + k) : g[j] = Step(g[j - 1], j)
           S == {k \in 0..m : \E g : Upto(k, g)}
<1>0. lo \in Nat /\ m \in Nat /\ 0..(fb - (ft + 1)) = lo..(lo + m)
  BY DEF lo, m
<1>a. ASSUME NEW f
      PROVE  IsCloning(f, b, ft, fb) <=>
                 f = [k \in 0..(fb - (ft + 1)) |-> IF k = lo THEN start0 ELSE Step(f[k - 1], k)]
  BY Zenon DEF IsCloning
<1> HIDE DEF lo, m, start0, Step
<1>1. 0 \in S
  <2>1. Upto(0, [k \in {lo} |-> start0])
    BY <1>0
  <2> HIDE DEF Upto
  <2> QED BY <1>0, <2>1
<1>2. ASSUME NEW k \in 0..(m - 1), k \in S PROVE k + 1 \in S
  <2>1. PICK g : Upto(k, g)
    BY <1>2
  <2> DEFINE h == [j \in lo..(lo + (k + 1)) |->
                      IF j = lo + (k + 1) THEN Step(g[lo + k], lo + (k + 1)) ELSE g[j]]
  <2>2. \A j \in lo..(lo + k) : h[j] = g[j]
    BY <1>0
  <2>3. h[lo + (k + 1)] = Step(g[lo + k], lo + (k + 1))
    BY <1>0
  <2> HIDE DEF h
  <2>4. Upto(k + 1, h)
    <3>1. h[lo] = start0
      BY <1>0, <2>1, <2>2
    <3>2. ASSUME NEW j \in (lo + 1)..(lo + (k + 1)) PROVE h[j] = Step(h[j - 1], j)
      <4>1. CASE j = lo + (k + 1)
        <5>1. j - 1 = lo + k /\ lo + k \in lo..(lo + k)
          BY <1>0, <4>1
        <5>2. h[j - 1] = g[lo + k]
          BY <2>2, <5>1
        <5> QED BY <2>3, <4>1, <5>2
      <4>2. CASE j # lo + (k + 1)
        <5>0. j \in lo..(lo + k) /\ j - 1 \in lo..(lo + k) /\ j \in (lo + 1)..(lo + k)
          BY <1>0, <4>2
        <5>1. h[j] = g[j] /\ h[j - 1] = g[j - 1]
          BY <2>2, <5>0
        <5>2. g[j] = Step(g[j - 1], j)
          BY <2>1, <5>0
        <5> QED BY <5>1, <5>2
      <4> QED BY <4>1, <4>2
    <3> QED BY <3>1, <3>2
  <2> HIDE DEF Upto
  <2>5. k + 1 \in 0..m
    BY <1>0
  <2> QED BY <2>4, <2>5
<1>3. m \in S
  <2> HIDE DEF S
  <2>1. 0..m \subseteq S
    BY <1>0, <1>1, <1>2, UpTo
  <2> QED BY <1>0, <2>1
<1>4. PICK g : Upto(m, g)
  BY <1>3
<1> DEFINE h == [k \in 0..(fb - (ft + 1)) |-> IF k = lo THEN start0 ELSE Step(g[k - 1], k)]
<1>5. ASSUME NEW k \in 0..(fb - (ft + 1)) PROVE h[k] = g[k]
  <2>1. CASE k = lo
    BY <1>4, <2>1
  <2>2. CASE k # lo
    <3>1. k \in (lo + 1)..(lo + m)
      BY <1>0, <2>2
    <3>2. g[k] = Step(g[k - 1], k)
      BY <1>4, <3>1
    <3> QED BY <2>2, <3>2
  <2> QED BY <2>1, <2>2
<1>6. IsCloning(h, b, ft, fb)
  <2>1. ASSUME NEW k \in 0..(fb - (ft + 1)), k # lo PROVE h[k - 1] = g[k - 1]
    <3>1. k - 1 \in 0..(fb - (ft + 1))
      BY <1>0, <2>1
    <3> HIDE DEF h
    <3> QED BY <1>5, <3>1
  <2>2. h = [k \in 0..(fb - (ft + 1)) |-> IF k = lo THEN start0 ELSE Step(h[k - 1], k)]
    <3> SUFFICES ASSUME NEW k \in 0..(fb - (ft + 1))
                 PROVE  (IF k = lo THEN start0 ELSE Step(g[k - 1], k))
                          = (IF k = lo THEN start0 ELSE Step(h[k - 1], k))
      OBVIOUS
    <3> HIDE DEF h
    <3>1. CASE k = lo
      BY <3>1
    <3>2. CASE k # lo
      BY <2>1, <3>2
    <3> QED BY <3>1, <3>2
  <2> HIDE DEF h
  <2> QED BY <1>a, <2>2
<1> QED BY <1>6

IsChaining(f, b, chain, n) ==
    f = [k \in 1..n |-> IF k = 1 THEN b ELSE Tree!attach_under(f[k - 1], chain[k - 1], chain[k])]

\* From the outmost inwards.
LEMMA ChainedInTurn ==
  ASSUME NEW b, NEW chain, NEW n \in Nat, n >= 1
  PROVE  IsChaining(CHOOSE f : IsChaining(f, b, chain, n), b, chain, n)
<1> DEFINE Step(x, k) == Tree!attach_under(x, chain[k - 1], chain[k])
           lo == 1
           m == n - 1
           start0 == b
           Upto(k, g) == g[lo] = start0 /\ \A j \in (lo + 1)..(lo + k) : g[j] = Step(g[j - 1], j)
           S == {k \in 0..m : \E g : Upto(k, g)}
<1>0. lo \in Nat /\ m \in Nat /\ 1..n = lo..(lo + m)
  BY DEF lo, m
<1>a. ASSUME NEW f
      PROVE  IsChaining(f, b, chain, n) <=>
                 f = [k \in 1..n |-> IF k = lo THEN start0 ELSE Step(f[k - 1], k)]
  BY Zenon DEF IsChaining
<1> HIDE DEF lo, m, start0, Step
<1>1. 0 \in S
  <2>1. Upto(0, [k \in {lo} |-> start0])
    BY <1>0
  <2> HIDE DEF Upto
  <2> QED BY <1>0, <2>1
<1>2. ASSUME NEW k \in 0..(m - 1), k \in S PROVE k + 1 \in S
  <2>1. PICK g : Upto(k, g)
    BY <1>2
  <2> DEFINE h == [j \in lo..(lo + (k + 1)) |->
                      IF j = lo + (k + 1) THEN Step(g[lo + k], lo + (k + 1)) ELSE g[j]]
  <2>2. \A j \in lo..(lo + k) : h[j] = g[j]
    BY <1>0
  <2>3. h[lo + (k + 1)] = Step(g[lo + k], lo + (k + 1))
    BY <1>0
  <2> HIDE DEF h
  <2>4. Upto(k + 1, h)
    <3>1. h[lo] = start0
      BY <1>0, <2>1, <2>2
    <3>2. ASSUME NEW j \in (lo + 1)..(lo + (k + 1)) PROVE h[j] = Step(h[j - 1], j)
      <4>1. CASE j = lo + (k + 1)
        <5>1. j - 1 = lo + k /\ lo + k \in lo..(lo + k)
          BY <1>0, <4>1
        <5>2. h[j - 1] = g[lo + k]
          BY <2>2, <5>1
        <5> QED BY <2>3, <4>1, <5>2
      <4>2. CASE j # lo + (k + 1)
        <5>0. j \in lo..(lo + k) /\ j - 1 \in lo..(lo + k) /\ j \in (lo + 1)..(lo + k)
          BY <1>0, <4>2
        <5>1. h[j] = g[j] /\ h[j - 1] = g[j - 1]
          BY <2>2, <5>0
        <5>2. g[j] = Step(g[j - 1], j)
          BY <2>1, <5>0
        <5> QED BY <5>1, <5>2
      <4> QED BY <4>1, <4>2
    <3> QED BY <3>1, <3>2
  <2> HIDE DEF Upto
  <2>5. k + 1 \in 0..m
    BY <1>0
  <2> QED BY <2>4, <2>5
<1>3. m \in S
  <2> HIDE DEF S
  <2>1. 0..m \subseteq S
    BY <1>0, <1>1, <1>2, UpTo
  <2> QED BY <1>0, <2>1
<1>4. PICK g : Upto(m, g)
  BY <1>3
<1> DEFINE h == [k \in 1..n |-> IF k = lo THEN start0 ELSE Step(g[k - 1], k)]
<1>5. ASSUME NEW k \in 1..n PROVE h[k] = g[k]
  <2>1. CASE k = lo
    BY <1>4, <2>1
  <2>2. CASE k # lo
    <3>1. k \in (lo + 1)..(lo + m)
      BY <1>0, <2>2
    <3>2. g[k] = Step(g[k - 1], k)
      BY <1>4, <3>1
    <3> QED BY <2>2, <3>2
  <2> QED BY <2>1, <2>2
<1>6. IsChaining(h, b, chain, n)
  <2>1. ASSUME NEW k \in 1..n, k # lo PROVE h[k - 1] = g[k - 1]
    <3>1. k - 1 \in 1..n
      BY <1>0, <2>1
    <3> HIDE DEF h
    <3> QED BY <1>5, <3>1
  <2>2. h = [k \in 1..n |-> IF k = lo THEN start0 ELSE Step(h[k - 1], k)]
    <3> SUFFICES ASSUME NEW k \in 1..n
                 PROVE  (IF k = lo THEN start0 ELSE Step(g[k - 1], k))
                          = (IF k = lo THEN start0 ELSE Step(h[k - 1], k))
      OBVIOUS
    <3> HIDE DEF h
    <3>1. CASE k = lo
      BY <3>1
    <3>2. CASE k # lo
      BY <2>1, <3>2
    <3> QED BY <3>1, <3>2
  <2> HIDE DEF h
  <2> QED BY <1>a, <2>2
<1> QED BY <1>6

\* The same, as the model counts the places of the stack.
IsCloned(g, b, f, fb) ==
    g = [k \in (f + 1)..fb |->
            IF k = fb THEN [b |-> b, clones |-> <<>>, bookmark |-> b.stack[f]]
            ELSE Tree!CloneBetween(g[k + 1], fb, k)]

LEMMA ClonesMade ==
  ASSUME NEW b, Built(b), NEW f \in 1..Len(b.stack), NEW fb \in (f + 1)..Len(b.stack),
         In(b.stack[f], b.afe), NEW acc, acc = (CHOOSE g : IsCloned(g, b, f, fb))[f + 1]
  PROVE  Cloning(b, f, acc)
<1> DEFINE m == fb - (f + 1)
           h == CHOOSE g : IsCloning(g, b, f, fb)
           g0 == [k \in (f + 1)..fb |-> h[fb - k]]
           g == CHOOSE x : IsCloned(x, b, f, fb)
           base == [b |-> b, clones |-> <<>>, bookmark |-> b.stack[f]]
           S == {k \in 0..m : Cloning(b, f, g[fb - k])}
<1>0. f \in Nat /\ fb \in Nat /\ f + 1 <= fb /\ m \in Nat /\ Len(b.stack) \in Nat
  BY StackFacts
<1>1. IsCloning(h, b, f, fb)
  <2>1. f \in Nat /\ fb \in Nat /\ f + 1 <= fb
    BY <1>0
  <2> HIDE DEF h
  <2> QED BY <2>1, ClonedInTurn DEF h
<1> HIDE DEF h
<1>2. IsCloned(g0, b, f, fb)
  <2>1. /\ h[0] = base
        /\ \A k \in 1..m : h[k] = Tree!CloneBetween(h[k - 1], fb, fb - k)
    <3>1. h = [k \in 0..m |-> IF k = 0 THEN base ELSE Tree!CloneBetween(h[k - 1], fb, fb - k)]
      BY <1>1 DEF IsCloning
    <3> HIDE DEF base, m
    <3>2. 0 \in 0..m /\ \A k \in 1..m : k \in 0..m /\ k # 0
      BY <1>0
    <3> QED BY <3>1, <3>2
  <2>2. ASSUME NEW k \in (f + 1)..fb
        PROVE  h[fb - k] = IF k = fb THEN base ELSE Tree!CloneBetween(g0[k + 1], fb, k)
    <3>1. CASE k = fb
      <4>1. fb - k = 0
        BY <1>0, <3>1
      <4> QED BY <2>1, <3>1, <4>1
    <3>2. CASE k # fb
      <4>1. fb - k \in 1..m /\ fb - (fb - k) = k /\ k + 1 \in (f + 1)..fb
            /\ (fb - k) - 1 = fb - (k + 1)
        BY <1>0, <3>2
      <4>2. h[fb - k] = Tree!CloneBetween(h[fb - (k + 1)], fb, k)
        BY <2>1, <4>1
      <4> QED BY <3>2, <4>1, <4>2
    <3> QED BY <3>1, <3>2
  <2>3. g0 = [k \in (f + 1)..fb |->
                 IF k = fb THEN base ELSE Tree!CloneBetween(g0[k + 1], fb, k)]
    <3> SUFFICES ASSUME NEW k \in (f + 1)..fb
                 PROVE  h[fb - k] = IF k = fb THEN base ELSE Tree!CloneBetween(g0[k + 1], fb, k)
      OBVIOUS
    <3> QED BY <2>2
  <2> QED BY <2>3 DEF IsCloned
<1> HIDE DEF g0
<1>3. IsCloned(g, b, f, fb)
  BY <1>2
<1> HIDE DEF g
<1>4. /\ g[fb] = base
      /\ \A k \in (f + 1)..(fb - 1) : g[k] = Tree!CloneBetween(g[k + 1], fb, k)
  BY <1>0, <1>3 DEF IsCloned
<1>5. 0 \in S
  <2>1. fb - 0 = fb /\ 0 \in 0..m
    BY <1>0
  <2>2. Cloning(b, f, base)
    <3>1. IsSeq(b.dom) /\ Len(b.dom) \in Nat
      BY SeqFacts DEF Built, Linked
    <3>2. base = [x \in CloningFields |-> base[x]]
      BY DEF CloningFields
    <3>3. base.b = b /\ base.clones = <<>> /\ base.bookmark = b.stack[f]
      OBVIOUS
    <3> HIDE DEF base
    <3>4. Same(b.dom, b.dom)
      BY <3>1 DEF Same
    <3> DEFINE none == <<>>
    <3>5. none \in Seq((Len(b.dom) + 1)..Len(b.dom)) /\ Len(none) = 0
      OBVIOUS
    <3>6. Apart(none) /\ \A i \in 1..Len(none) : b.dom[none[i]].name \in Formatting
      BY <3>5 DEF Apart
    <3>7. base.clones = none
      BY <3>3
    <3> HIDE DEF none
    <3> QED BY <3>2, <3>3, <3>4, <3>5, <3>6, <3>7 DEF Cloning
  <2> QED BY <1>4, <2>1, <2>2
<1>6. ASSUME NEW k \in 0..(m - 1), k \in S PROVE k + 1 \in S
  <2> DEFINE i == fb - (k + 1)
  <2>1. i \in (f + 1)..(fb - 1) /\ i + 1 = fb - k /\ k + 1 \in 0..m /\ i \in (f + 1)..Len(b.stack)
    BY <1>0
  <2> DEFINE x == g[fb - k]
             y == g[i]
  <2>2. Cloning(b, f, x) /\ y = Tree!CloneBetween(x, fb, i)
    BY <1>4, <1>6, <2>1
  <2> HIDE DEF x, y, i
  <2>3. Cloning(b, f, y)
    BY <2>1, <2>2, CloneStep
  <2> QED BY <2>1, <2>3 DEF y, i
<1>7. m \in S
  <2> HIDE DEF S, m
  <2>1. 0..m \subseteq S
    BY <1>0, <1>5, <1>6, UpTo
  <2> QED BY <1>0, <2>1
<1>8. fb - m = f + 1
  BY <1>0
<1> QED BY <1>7, <1>8 DEF g

\* The nodes of a chain up to the k-th are each in the one before, and no other node
\* has moved.
Chaining(b, c, chain, k) ==
  /\ Rest(b, c) /\ Linked(c.dom) /\ Len(c.dom) = Len(b.dom)
  /\ \A id \in 1..Len(b.dom) : c.dom[id].name = b.dom[id].name
  /\ \A j \in 2..k : c.dom[chain[j]].parent = chain[j - 1]
  /\ \A id \in 1..Len(b.dom) :
        (\A j \in 2..k : id # chain[j]) => c.dom[id].parent = b.dom[id].parent

LEMMA ChainStep ==
  ASSUME NEW b, Linked(b.dom), NEW chain, chain \in Seq(1..Len(b.dom)), Apart(chain),
         NEW k \in 2..Len(chain), NEW x, Chaining(b, x, chain, k - 1), NEW y,
         y = Tree!attach_under(x, chain[k - 1], chain[k])
  PROVE  Chaining(b, y, chain, k)
<1> DEFINE n == Len(b.dom)
           above == chain[k - 1]
           id == chain[k]
           pos == Tree!Under(x, above).pos
<1>0. /\ n \in Nat /\ Len(chain) \in Nat /\ k - 1 \in 1..Len(chain) /\ k \in 1..Len(chain)
      /\ \A i \in 1..Len(chain) : chain[i] \in 1..n
  <2>1. n \in Nat /\ Len(chain) \in Nat
    BY SeqFacts, LenProperties DEF Linked
  <2>2. \A i \in 1..Len(chain) : chain[i] \in 1..n
    BY ElementOfSeq
  <2> QED BY <2>1, <2>2
<1>1. Linked(x.dom) /\ Len(x.dom) = n /\ Shaped(x) /\ Rest(b, x)
  BY DEF Chaining, Rest
<1>2. above \in 1..Len(x.dom) /\ id \in 1..Len(x.dom)
  BY <1>0, <1>1
<1>3. pos \in Nat \ {0}
  <2>1. x.dom[above].kids \in Seq(1..Len(x.dom))
    BY <1>1, <1>2 DEF Linked
  <2>2. pos = Len(x.dom[above].kids) + 1
    BY DEF Tree!Under
  <2>3. Len(x.dom[above].kids) \in Nat
    BY <2>1, LenProperties
  <2> HIDE DEF pos, above
  <2> QED BY <2>2, <2>3
<1>4. y = Tree!Attach(x, above, pos, id)
  BY DEF Tree!attach_under
<1> HIDE DEF pos
<1>5. Rest(x, y) /\ Linked(y.dom) /\ Moved(x.dom, y.dom, id, above)
  <2> HIDE DEF above, id
  <2> QED BY <1>1, <1>2, <1>3, <1>4, Attached
<1>6. Rest(b, y) /\ Len(y.dom) = n
  BY <1>1, <1>5 DEF Rest, Moved
<1>7. \A i \in 1..n : /\ y.dom[i].name = b.dom[i].name
                      /\ y.dom[i].parent = IF i = id THEN above ELSE x.dom[i].parent
  BY <1>1, <1>5 DEF Moved, Chaining
<1>8. ASSUME NEW j \in 2..k PROVE y.dom[chain[j]].parent = chain[j - 1]
  <2>1. j \in 1..Len(chain) /\ chain[j] \in 1..n
    BY <1>0
  <2>2. CASE j = k
    BY <1>7, <2>1, <2>2
  <2>3. CASE j # k
    <3>1. j \in 2..(k - 1) /\ chain[j] # id
      BY <1>0, <2>1, <2>3 DEF Apart
    <3>2. x.dom[chain[j]].parent = chain[j - 1]
      BY <3>1 DEF Chaining
    <3> QED BY <1>7, <2>1, <3>1, <3>2
  <2> QED BY <2>2, <2>3
<1>9. ASSUME NEW i \in 1..n, \A j \in 2..k : i # chain[j]
      PROVE  y.dom[i].parent = b.dom[i].parent
  <2>1. i # id /\ \A j \in 2..(k - 1) : i # chain[j]
    BY <1>0, <1>9
  <2>2. x.dom[i].parent = b.dom[i].parent
    BY <2>1 DEF Chaining
  <2> QED BY <1>7, <2>1, <2>2
<1> QED BY <1>5, <1>6, <1>7, <1>8, <1>9 DEF Chaining

\* The chain is made from its first node on.
LEMMA ChainBuilt ==
  ASSUME NEW b, Shaped(b), Linked(b.dom), NEW chain, chain \in Seq(1..Len(b.dom)), Apart(chain),
         Len(chain) >= 1, NEW c, c = Tree!Chained(b, chain)
  PROVE  Chaining(b, c, chain, Len(chain))
<1> DEFINE n == Len(chain)
           IsIt(g) == g = [k \in DOMAIN chain |->
                              IF k = 1 THEN b
                              ELSE Tree!attach_under(g[k - 1], chain[k - 1], chain[k])]
           g == CHOOSE x : IsIt(x)
           S == {k \in 0..(n - 1) : Chaining(b, g[k + 1], chain, k + 1)}
<1>0. n \in Nat /\ DOMAIN chain = 1..n /\ n - 1 \in Nat
  BY LenProperties
<1>1. c = g[n]
  BY Zenon DEF Tree!Chained
<1>2. IsIt(g)
  <2> DEFINE h == CHOOSE x : IsChaining(x, b, chain, n)
  <2>1. n >= 1 /\ n \in Nat
    BY <1>0
  <2> HIDE DEF n
  <2>2. IsChaining(h, b, chain, n)
    BY <2>1, ChainedInTurn
  <2> HIDE DEF h
  <2>3. IsIt(h)
    BY <1>0, <2>2, Zenon DEF IsChaining
  <2> QED BY <2>3
<1> HIDE DEF g
<1>3. /\ g[1] = b
      /\ \A k \in 2..n : g[k] = Tree!attach_under(g[k - 1], chain[k - 1], chain[k])
  <2>1. g = [k \in 1..n |-> IF k = 1 THEN b
                            ELSE Tree!attach_under(g[k - 1], chain[k - 1], chain[k])]
    BY <1>0, <1>2
  <2>2. 1 \in 1..n /\ \A k \in 2..n : k \in 1..n /\ k # 1
    BY <1>0
  <2> HIDE DEF n
  <2> QED BY <2>1, <2>2
<1>4. 0 \in S
  <2>1. Chaining(b, b, chain, 1)
    BY DEF Chaining, Rest
  <2>2. 0 + 1 = 1 /\ 0 \in 0..(n - 1)
    BY <1>0
  <2> QED BY <1>3, <2>1, <2>2
<1>5. ASSUME NEW k \in 0..((n - 1) - 1), k \in S PROVE k + 1 \in S
  <2> DEFINE i == k + 2
             x == g[k + 1]
             y == g[i]
  <2>1. i \in 2..n /\ i - 1 = k + 1 /\ k + 1 \in 0..(n - 1) /\ (k + 1) + 1 = i
    BY <1>0
  <2>2. Chaining(b, x, chain, i - 1) /\ y = Tree!attach_under(x, chain[i - 1], chain[i])
    BY <1>3, <1>5, <2>1
  <2> HIDE DEF x, y, i
  <2>3. Chaining(b, y, chain, i)
    BY <2>1, <2>2, ChainStep
  <2> QED BY <2>1, <2>3 DEF y
<1>6. n - 1 \in S
  <2> HIDE DEF S
  <2> DEFINE m == n - 1
  <2>1. m \in Nat /\ 0 \in S /\ \A k \in 0..(m - 1) : k \in S => k + 1 \in S
    BY <1>0, <1>4, <1>5
  <2> HIDE DEF m
  <2>2. 0..m \subseteq S
    BY <2>1, UpTo
  <2>3. m \in S
    BY <2>1, <2>2
  <2> QED BY <2>3 DEF m
<1>7. (n - 1) + 1 = n
  BY <1>0
<1> QED BY <1>1, <1>6, <1>7

LEMMA FrontOf ==
  ASSUME NEW S, NEW s \in Seq(S), Len(s) >= 1, Apart(s), NEW r, r = Tree!Front(s)
  PROVE  /\ r \in Seq(S) /\ Apart(r)
         /\ \A y : In(y, r) <=> In(y, s) /\ y # s[Len(s)]
<1> DEFINE n == Len(s)
<1>0. n \in Nat /\ 1 \in 1..(n + 1) /\ n - 1 \in (1 - 1)..n
  BY LenProperties
<1>1. r = SubSeq(s, 1, n - 1)
  BY DEF Tree!Front
<1>2. /\ r \in Seq(S) /\ Len(r) = ((n - 1) - 1) + 1
      /\ \A k \in 1..Len(r) : r[k] = s[(1 - 1) + k]
  <2> DEFINE lo == 1
             hi == n - 1
  <2>1. lo \in 1..(Len(s) + 1) /\ hi \in (lo - 1)..Len(s) /\ r = SubSeq(s, lo, hi)
    BY <1>0, <1>1
  <2> HIDE DEF lo, hi
  <2>2. /\ r \in Seq(S) /\ Len(r) = (hi - lo) + 1
        /\ \A k \in 1..Len(r) : r[k] = s[(lo - 1) + k]
    BY <2>1, PartOf
  <2> QED BY <2>2 DEF lo, hi
<1>3. Len(r) = n - 1 /\ \A k \in 1..(n - 1) : r[k] = s[k] /\ k \in 1..n
  BY <1>0, <1>2
<1>4. Apart(r)
  BY <1>0, <1>3 DEF Apart
<1>5. ASSUME NEW y, In(y, r) PROVE In(y, s) /\ y # s[n]
  <2>1. PICK k \in 1..(n - 1) : r[k] = y
    BY <1>3, <1>5 DEF In
  <2>2. k \in 1..n /\ n \in 1..n /\ k # n
    BY <1>0
  <2>3. s[k] = y
    BY <1>3, <2>1
  <2> QED BY <2>2, <2>3 DEF In, Apart
<1>6. ASSUME NEW y, In(y, s), y # s[n] PROVE In(y, r)
  <2>1. PICK k \in 1..n : s[k] = y
    BY <1>6 DEF In
  <2>2. k \in 1..(n - 1)
    BY <1>0, <1>6, <2>1
  <2> QED BY <1>3, <2>1, <2>2 DEF In
<1> QED BY <1>2, <1>4, <1>5, <1>6

\* A node that was nowhere is the last child of the one that it is attached under.
LEMMA AttachedLast ==
  ASSUME NEW b, Shaped(b), Linked(b.dom), NEW parent \in 1..Len(b.dom), NEW id \in 1..Len(b.dom),
         id # parent, b.dom[id].parent = 0, NEW c, c = Tree!attach_under(b, parent, id)
  PROVE  /\ Rest(b, c) /\ Linked(c.dom) /\ Moved(b.dom, c.dom, id, parent)
         /\ Len(c.dom[parent].kids) >= 1
         /\ c.dom[parent].kids[Len(c.dom[parent].kids)] = id
<1> DEFINE d == b.dom
           n == Len(d)
           kids == d[parent].kids
           pos == Len(kids) + 1
           r == Tree!InsertAt(kids, pos, id)
           d1 == Tree!ReplaceAt(d, parent, WithKids(d[parent], r))
           d2 == Tree!ReplaceAt(d1, id, WithParent(d1[id], parent))
<1>0. /\ n \in Nat /\ IsSeq(d) /\ kids \in Seq(1..n) /\ Len(kids) \in Nat
      /\ pos \in Nat \ {0} /\ pos \in 1..(Len(kids) + 1) /\ NodeShaped(d[parent])
  <2>1. IsSeq(d) /\ kids \in Seq(1..n) /\ NodeShaped(d[parent])
    BY DEF Linked
  <2>2. n \in Nat /\ Len(kids) \in Nat
    BY <2>1, SeqFacts, LenProperties
  <2> HIDE DEF d, kids
  <2> QED BY <2>1, <2>2
<1>1. c = Tree!Attach(b, parent, pos, id)
  BY DEF Tree!attach_under, Tree!Under
<1>2. Rest(b, c) /\ Linked(c.dom) /\ Moved(d, c.dom, id, parent)
  <2> HIDE DEF pos
  <2> QED BY <1>0, <1>1, Attached
<1>3. c.dom = d2
  <2>1. Tree!detach(b, id) = b
    BY DEF Tree!detach
  <2>2. ~(pos > Len(kids)) \/ Len(kids) + 1 = pos
    BY <1>0
  <2>3. c = [b EXCEPT !.dom = d2]
    BY <1>1, <2>1, <2>2 DEF Tree!Attach, Tree!ReplaceAt, WithKids, WithParent
  <2> HIDE DEF d2
  <2> QED BY <2>3 DEF Shaped, Fields
<1>4. r \in Seq(1..n) /\ Len(r) = Len(kids) + 1 /\ r[pos] = id
  <2>1. id \in 1..n /\ kids \in Seq(1..n) /\ pos \in 1..(Len(kids) + 1)
    BY <1>0
  <2> DEFINE S == 1..n
  <2>2. id \in S /\ kids \in Seq(S) /\ r = Tree!InsertAt(kids, pos, id)
    BY <2>1
  <2> HIDE DEF kids, pos, n, d, r, S
  <2>3. r \in Seq(S) /\ Len(r) = Len(kids) + 1 /\ r[pos] = id
    BY <2>1, <2>2, Inserted
  <2> QED BY <2>3 DEF S
<1> HIDE DEF r
<1> DEFINE host == WithKids(d[parent], r)
<1>5. NodeShaped(host) /\ host.kids = r
  <2> DEFINE node == d[parent]
  <2> HIDE DEF node
  <2>1. NodeShaped(node)
    BY <1>0 DEF node
  <2>2. host = WithKids(node, r)
    BY DEF node
  <2> HIDE DEF host
  <2> QED BY <2>1, <2>2, KidsSet
<1>6. d1 = Tree!ReplaceAt(d, parent, host)
  OBVIOUS
<1> HIDE DEF host, d1
<1>7. /\ IsSeq(d1) /\ Len(d1) = n /\ d1[parent] = host
  <2> HIDE DEF d, n
  <2>1. IsSeq(d1) /\ Len(d1) = Len(d) /\ \A k \in 1..Len(d) : d1[k] = IF k = parent THEN host ELSE d[k]
    BY <1>0, <1>6, SeqExcept DEF d
  <2> QED BY <2>1 DEF d, n
<1> DEFINE guest == WithParent(d1[id], parent)
<1>8. d2[parent] = host
  <2>1. d2 = Tree!ReplaceAt(d1, id, guest)
    OBVIOUS
  <2> HIDE DEF guest, d2
  <2>2. \A k \in 1..Len(d1) : d2[k] = IF k = id THEN guest ELSE d1[k]
    BY <1>7, <2>1, SeqExcept
  <2> QED BY <1>7, <2>2
<1>9. c.dom[parent].kids = r
  BY <1>3, <1>5, <1>8
<1>10. Len(r) = pos /\ pos >= 1
  BY <1>0, <1>4
<1> HIDE DEF d, pos
<1> QED BY <1>2, <1>4, <1>9, <1>10 DEF d

\* A new node gets what a node had, and is in it.
LEMMA ContentGiven ==
  ASSUME NEW b, Shaped(b), Linked(b.dom), NEW id \in 1..Len(b.dom), id = Len(b.dom),
         NEW block \in 1..Len(b.dom), block # id, b.dom[block].parent # block,
         b.dom[id].parent = 0, b.dom[id].kids = <<>>, NEW c, c = Tree!GiveContent(b, block)
  PROVE  /\ Rest(b, c) /\ Linked(c.dom) /\ Len(c.dom) = Len(b.dom)
         /\ \A k \in 1..Len(b.dom) :
               /\ c.dom[k].name = b.dom[k].name
               /\ c.dom[k].parent = IF k = id THEN block
                                    ELSE IF b.dom[k].parent = block THEN id ELSE b.dom[k].parent
<1> DEFINE x == Tree!attach_under(b, block, id)
           d == x.dom
           n == Len(b.dom)
           kids == d[block].kids
           moved == Tree!Front(kids)
           one == <<id>>
           Given(k) == CASE k = block -> WithKids(x.dom[k], one)
                         [] k = id -> WithKids(x.dom[k], moved)
                         [] k \in Tree!Range(moved) -> WithParent(x.dom[k], id)
                         [] OTHER -> x.dom[k]
           e == [k \in DOMAIN x.dom |-> Given(k)]
<1>0. n \in Nat
  BY SeqFacts DEF Linked
<1>1. c = [x EXCEPT !.dom = e]
  BY DEF Tree!GiveContent, Tree!reparent_children, Tree!Newest, WithKids, WithParent
<1>2. /\ Rest(b, x) /\ Linked(d) /\ Moved(b.dom, d, id, block)
      /\ Len(kids) >= 1 /\ kids[Len(kids)] = id
  <2> HIDE DEF x
  <2> QED BY AttachedLast DEF x
<1> HIDE DEF x
<1>3. /\ Len(d) = n /\ DOMAIN d = 1..n
      /\ \A k \in 1..n : d[k].name = b.dom[k].name
                         /\ d[k].parent = IF k = id THEN block ELSE b.dom[k].parent
      /\ \A k \in 1..n : /\ NodeShaped(d[k])
                         /\ d[k].parent \in 0..n
                         /\ d[k].kids \in Seq(1..n) /\ Apart(d[k].kids)
                         /\ \A kid \in 1..n : In(kid, d[k].kids) <=> d[kid].parent = k
  BY <1>2, SeqFacts DEF Moved, Linked
<1>4. /\ moved \in Seq(1..n) /\ Apart(moved) /\ DOMAIN moved = 1..Len(moved)
      /\ \A y \in 1..n : In(y, moved) <=> d[y].parent = block /\ y # id
  <2>0. kids \in Seq(1..n) /\ Apart(kids)
    BY <1>3
  <2> HIDE DEF kids, moved
  <2>1. /\ moved \in Seq(1..n) /\ Apart(moved)
        /\ \A y : In(y, moved) <=> In(y, kids) /\ y # kids[Len(kids)]
    BY <1>2, <2>0, FrontOf DEF moved
  <2>2. DOMAIN moved = 1..Len(moved)
    BY <2>1, LenProperties
  <2>3. \A y \in 1..n : In(y, kids) <=> d[y].parent = block
    BY <1>3 DEF kids
  <2> QED BY <1>2, <2>1, <2>2, <2>3
<1>5. \A y : y \in Tree!Range(moved) <=> In(y, moved)
  <2>1. DOMAIN moved = 1..Len(moved)
    BY <1>4
  <2> HIDE DEF moved
  <2> QED BY <2>1 DEF Tree!Range, In
<1>5a. block \notin Tree!Range(moved) /\ id \notin Tree!Range(moved)
  <2>1. d[block].parent # block
    BY <1>3
  <2> HIDE DEF d, moved
  <2> QED BY <1>4, <1>5, <2>1
<1> HIDE DEF moved
<1>6. \A y \in 1..n : b.dom[y].parent # id
  <2>1. ASSUME NEW y \in 1..n, b.dom[y].parent = id PROVE FALSE
    <3> DEFINE none == b.dom[id].kids
    <3>1. In(y, none)
      BY <2>1 DEF Linked
    <3>2. Len(none) = 0
      OBVIOUS
    <3> HIDE DEF none
    <3> QED BY <3>1, <3>2 DEF In
  <2> QED BY <2>1
<1>7. ASSUME NEW k \in 1..n
      PROVE  /\ NodeShaped(e[k]) /\ e[k].name = d[k].name
             /\ e[k].parent = IF k = id THEN block
                              ELSE IF b.dom[k].parent = block THEN id ELSE b.dom[k].parent
             /\ e[k].kids = IF k = block THEN one ELSE IF k = id THEN moved ELSE d[k].kids
  <2>0. e[k] = Given(k)
    BY <1>3
  <2>1. NodeShaped(d[k])
    BY <1>3
  <2>2. CASE k = block
    <3>1. e[k] = WithKids(d[k], one)
      BY <1>5a, <2>0, <2>2
    <3> DEFINE node == d[k]
               now == e[k]
    <3>2. NodeShaped(node) /\ now = WithKids(node, one)
      BY <2>1, <3>1
    <3> HIDE DEF node, now, one, e
    <3>3. /\ NodeShaped(now) /\ now.name = node.name /\ now.parent = node.parent
          /\ now.kids = one
      BY <3>2, KidsSet
    <3> QED BY <1>3, <2>2, <3>3 DEF node, now
  <2>3. CASE k = id
    <3>1. e[k] = WithKids(d[k], moved)
      BY <1>5a, <2>0, <2>3
    <3> DEFINE node == d[k]
               now == e[k]
    <3>2. NodeShaped(node) /\ now = WithKids(node, moved)
      BY <2>1, <3>1
    <3> HIDE DEF node, now, e
    <3>3. /\ NodeShaped(now) /\ now.name = node.name /\ now.parent = node.parent
          /\ now.kids = moved
      BY <3>2, KidsSet
    <3> QED BY <1>3, <2>3, <3>3 DEF node, now
  <2>4. CASE k # block /\ k # id /\ In(k, moved)
    <3>1. e[k] = WithParent(d[k], id)
      BY <1>5, <2>0, <2>4
    <3> DEFINE node == d[k]
               now == e[k]
    <3>2. NodeShaped(node) /\ now = WithParent(node, id)
      BY <2>1, <3>1
    <3> HIDE DEF node, now, e
    <3>3. /\ NodeShaped(now) /\ now.name = node.name /\ now.parent = id
          /\ now.kids = node.kids
      BY <3>2, ParentSet
    <3>4. b.dom[k].parent = block
      BY <1>3, <1>4, <2>4
    <3> QED BY <2>4, <3>3, <3>4 DEF node, now
  <2>5. CASE k # block /\ k # id /\ ~In(k, moved)
    <3>1. e[k] = d[k]
      BY <1>5, <2>0, <2>5
    <3>2. b.dom[k].parent # block /\ d[k].parent = b.dom[k].parent
      BY <1>3, <1>4, <2>5
    <3> HIDE DEF e, one
    <3> QED BY <2>1, <2>5, <3>1, <3>2
  <2> QED BY <2>2, <2>3, <2>4, <2>5
<1>8. IsSeq(e) /\ Len(e) = n
  <2>1. e = [k \in 1..n |-> e[k]]
    BY <1>3
  <2> HIDE DEF e, n
  <2> QED BY <1>0, <2>1, SeqMade
<1>9. one \in Seq(1..n) /\ Apart(one) /\ \A y : In(y, one) <=> y = id
  <2>1. one \in Seq(1..n) /\ Len(one) = 1 /\ one[1] = id
    OBVIOUS
  <2> HIDE DEF one
  <2> QED BY <2>1 DEF Apart, In
<1> HIDE DEF e, one
<1>10. Linked(e)
  <2>1. ASSUME NEW k \in 1..n
        PROVE  e[k].parent \in 0..n /\ e[k].kids \in Seq(1..n) /\ Apart(e[k].kids)
    <3>1. e[k].parent \in 0..n
      <4>1. b.dom[k].parent \in 0..n
        BY DEF Linked
      <4> QED BY <1>0, <1>7, <4>1
    <3>2. e[k].kids \in Seq(1..n) /\ Apart(e[k].kids)
      BY <1>3, <1>4, <1>7, <1>9
    <3> QED BY <3>1, <3>2
  <2>2. ASSUME NEW k \in 1..n, NEW y \in 1..n
        PROVE  In(y, e[k].kids) <=> e[y].parent = k
    <3>0. /\ e[y].parent = IF y = id THEN block
                           ELSE IF b.dom[y].parent = block THEN id ELSE b.dom[y].parent
          /\ b.dom[y].parent # id
          /\ d[y].parent = IF y = id THEN block ELSE b.dom[y].parent
      BY <1>3, <1>6, <1>7
    <3>1. CASE k = block
      <4>1. In(y, e[k].kids) <=> y = id
        BY <1>7, <1>9, <3>1
      <4> QED BY <3>0, <3>1, <4>1
    <3>2. CASE k = id
      <4>1. In(y, e[k].kids) <=> d[y].parent = block /\ y # id
        BY <1>4, <1>7, <3>2
      <4> QED BY <3>0, <3>2, <4>1
    <3>3. CASE k # block /\ k # id
      <4>1. In(y, e[k].kids) <=> d[y].parent = k
        BY <1>3, <1>7, <3>3
      <4> QED BY <3>0, <3>3, <4>1
    <3> QED BY <3>1, <3>2, <3>3
  <2> QED BY <1>7, <1>8, <2>1, <2>2 DEF Linked
<1>11. Rest(b, c) /\ c.dom = e
  BY <1>1, <1>2 DEF Rest, Shaped, Fields
<1> QED BY <1>3, <1>7, <1>8, <1>10, <1>11

\* The places of the new stack that hold what was open before, and where it was.
OldPlace(m, f, q) == m < f \/ m = f + q \/ m > f + q + 1
WasAt(m, f, q, fb) == IF m < f THEN m ELSE IF m = f + q THEN fb ELSE (m - (f + q + 1)) + fb

\* What the new stack holds: below f what it held before; the clones; the block and
\* the new element in it; and what was above the block.
Restacked(t, s, f, fb, clones, adopted) ==
  LET q == Len(clones)
  IN  /\ Len(t) = (f + q + 1) + (Len(s) - fb)
      /\ \A m \in 1..Len(t) :
            \/ /\ OldPlace(m, f, q)
               /\ WasAt(m, f, q, fb) \in 1..Len(s) /\ t[m] = s[WasAt(m, f, q, fb)]
            \/ m - (f - 1) \in 1..q /\ t[m] = clones[m - (f - 1)]
            \/ m = f + q + 1 /\ t[m] = adopted

LEMMA StackAdopted ==
  ASSUME NEW S, NEW s \in Seq(S), NEW clones \in Seq(S), NEW adopted \in S,
         NEW f \in 1..Len(s), NEW fb \in (f + 1)..Len(s), NEW t,
         t = Tree!AdoptedStack(s, f, fb, clones, adopted)
  PROVE  t \in Seq(S) /\ Restacked(t, s, f, fb, clones, adopted)
<1> DEFINE q == Len(clones)
           n == Len(s)
           one == 1
           below == f - 1
           above == fb + 1
           s1 == SubSeq(s, one, below)
           two == <<s[fb], adopted>>
           s2 == SubSeq(s, above, n)
           u == s1 \o clones
           v == u \o two
<1>0. /\ q \in Nat /\ n \in Nat /\ f \in Nat /\ fb \in Nat /\ f < fb /\ fb <= n /\ f >= 1
      /\ s[fb] \in S
  <2>1. q \in Nat /\ n \in Nat
    BY LenProperties
  <2>2. f \in Nat /\ fb \in Nat /\ f < fb /\ fb <= n /\ f >= 1 /\ fb \in 1..n
    BY <2>1
  <2> QED BY <2>1, <2>2, ElementOfSeq
<1>a. t = v \o s2
  BY DEF Tree!AdoptedStack
<1>b. /\ one \in 1..(n + 1) /\ below \in (one - 1)..n
      /\ above \in 1..(n + 1) /\ n \in (above - 1)..n
  BY <1>0
<1>1. s1 \in Seq(S) /\ Len(s1) = f - 1 /\ \A k \in 1..(f - 1) : s1[k] = s[k]
  <2> HIDE DEF one, below, s1
  <2>1. /\ s1 \in Seq(S) /\ Len(s1) = (below - one) + 1
        /\ \A k \in 1..Len(s1) : s1[k] = s[(one - 1) + k]
    BY <1>b, PartOf DEF s1
  <2> QED BY <1>0, <2>1 DEF one, below
<1>2. s2 \in Seq(S) /\ Len(s2) = n - fb /\ \A k \in 1..(n - fb) : s2[k] = s[fb + k]
  <2> DEFINE hi == Len(s)
  <2>0. above \in 1..(Len(s) + 1) /\ hi \in (above - 1)..Len(s) /\ s2 = SubSeq(s, above, hi)
    BY <1>b
  <2> HIDE DEF above, s2, hi
  <2>1. /\ s2 \in Seq(S) /\ Len(s2) = (hi - above) + 1
        /\ \A k \in 1..Len(s2) : s2[k] = s[(above - 1) + k]
    BY <2>0, PartOf
  <2> QED BY <1>0, <2>1 DEF above, hi
<1>3. two \in Seq(S) /\ Len(two) = 2 /\ two[1] = s[fb] /\ two[2] = adopted
  BY <1>0
<1> HIDE DEF s1, s2, two
<1>4. /\ u \in Seq(S) /\ Len(u) = (f - 1) + q
      /\ \A k \in 1..(f - 1) : u[k] = s[k]
      /\ \A k \in 1..q : u[(f - 1) + k] = clones[k]
  <2>0. s1 \in Seq(S) /\ clones \in Seq(S)
    BY <1>1
  <2>1. /\ u \in Seq(S) /\ Len(u) = Len(s1) + Len(clones)
        /\ \A k \in 1..Len(s1) : u[k] = s1[k]
        /\ \A k \in 1..Len(clones) : u[Len(s1) + k] = clones[k]
    BY <2>0, Joined
  <2> HIDE DEF u
  <2> QED BY <1>1, <2>1
<1> HIDE DEF u
<1>5. /\ v \in Seq(S) /\ Len(v) = f + q + 1
      /\ \A k \in 1..((f - 1) + q) : v[k] = u[k]
      /\ v[f + q] = s[fb] /\ v[f + q + 1] = adopted
  <2>0. u \in Seq(S) /\ two \in Seq(S)
    BY <1>3, <1>4
  <2>1. /\ v \in Seq(S) /\ Len(v) = Len(u) + Len(two)
        /\ \A k \in 1..Len(u) : v[k] = u[k]
        /\ \A k \in 1..Len(two) : v[Len(u) + k] = two[k]
    BY <2>0, Joined
  <2> HIDE DEF v
  <2>2. v[Len(u) + 1] = s[fb] /\ v[Len(u) + 2] = adopted
    BY <1>3, <2>1
  <2>3. Len(u) + 1 = f + q /\ Len(u) + 2 = f + q + 1
    BY <1>0, <1>4
  <2> QED BY <1>3, <1>4, <2>1, <2>2, <2>3
<1> HIDE DEF v
<1>6. /\ t \in Seq(S) /\ Len(t) = (f + q + 1) + (n - fb)
      /\ \A k \in 1..(f + q + 1) : t[k] = v[k]
      /\ \A k \in 1..(n - fb) : t[(f + q + 1) + k] = s[fb + k]
  <2>0. v \in Seq(S) /\ s2 \in Seq(S)
    BY <1>2, <1>5
  <2>1. /\ t \in Seq(S) /\ Len(t) = Len(v) + Len(s2)
        /\ \A k \in 1..Len(v) : t[k] = v[k]
        /\ \A k \in 1..Len(s2) : t[Len(v) + k] = s2[k]
    BY <1>a, <2>0, Joined
  <2> QED BY <1>2, <1>5, <2>1
<1>7. ASSUME NEW m \in 1..Len(t)
      PROVE  \/ /\ OldPlace(m, f, q)
                /\ WasAt(m, f, q, fb) \in 1..n /\ t[m] = s[WasAt(m, f, q, fb)]
             \/ m - (f - 1) \in 1..q /\ t[m] = clones[m - (f - 1)]
             \/ m = f + q + 1 /\ t[m] = adopted
  <2>0. m \in Nat /\ m >= 1 /\ m <= (f + q + 1) + (n - fb)
    BY <1>0, <1>6
  <2>1. CASE m < f
    <3>1. m \in 1..(f - 1) /\ m \in 1..((f - 1) + q) /\ m \in 1..(f + q + 1) /\ m \in 1..n
      BY <1>0, <2>0, <2>1
    <3>2. t[m] = s[m]
      BY <1>4, <1>5, <1>6, <3>1
    <3> QED BY <2>1, <3>1, <3>2 DEF OldPlace, WasAt
  <2>2. CASE ~(m < f) /\ m < f + q
    <3> DEFINE k == m - (f - 1)
    <3>1. k \in 1..q /\ m = (f - 1) + k /\ m \in 1..((f - 1) + q) /\ m \in 1..(f + q + 1)
      BY <1>0, <2>0, <2>2
    <3> HIDE DEF k
    <3>2. t[m] = clones[k]
      BY <1>4, <1>5, <1>6, <3>1
    <3> QED BY <3>1, <3>2 DEF k
  <2>3. CASE m = f + q
    <3>1. m \in 1..(f + q + 1) /\ ~(m < f) /\ fb \in 1..n
      BY <1>0, <2>0, <2>3
    <3>2. t[m] = s[fb]
      BY <1>5, <1>6, <2>3, <3>1
    <3> QED BY <2>3, <3>1, <3>2 DEF OldPlace, WasAt
  <2>4. CASE m = f + q + 1
    <3>1. m \in 1..(f + q + 1)
      BY <1>0, <2>0, <2>4
    <3> QED BY <1>5, <1>6, <2>4, <3>1
  <2>5. CASE m > f + q + 1
    <3> DEFINE k == m - (f + q + 1)
    <3>1. /\ k \in 1..(n - fb) /\ (f + q + 1) + k = m /\ k + fb = fb + k /\ fb + k \in 1..n
          /\ ~(m < f) /\ m # f + q
      BY <1>0, <2>0, <2>5
    <3>2. t[m] = s[k + fb]
      <4> HIDE DEF k
      <4> QED BY <1>6, <3>1
    <3>3. WasAt(m, f, q, fb) = k + fb
      BY <3>1 DEF WasAt
    <3> QED BY <2>5, <3>1, <3>2, <3>3 DEF OldPlace
  <2>6. \/ m < f \/ (~(m < f) /\ m < f + q) \/ m = f + q \/ m = f + q + 1 \/ m > f + q + 1
    BY <1>0, <2>0
  <2> QED BY <2>1, <2>2, <2>3, <2>4, <2>5, <2>6
<1> QED BY <1>6, <1>7 DEF Restacked

\* Where the outmost goes is below all that is open from the formatting element on.
LEMMA OutmostPlace ==
  ASSUME NEW d, NEW s, Open(d, s), NEW f \in 2..Len(s), NEW p, Spot(d, s, f, p)
  PROVE  p \in 1..Len(d) /\ \A j \in f..Len(s) : s[j] # p
<1> DEFINE n == Len(d)
           h == Len(s)
<1>0. h \in Nat /\ \A k \in 1..h : s[k] \in 1..n
  BY OpenFacts
<1>7. /\ \A k \in 1..h : d[s[k]].parent \in 1..n /\ \A j \in k..h : s[j] # d[s[k]].parent
      /\ \A i, j \in 1..h : s[i] = s[j] => i = j
  BY DEF Open, ParentBelow, Apart
<1> HIDE DEF n, h
<1>f. f \in 2..h
  BY DEF h
<1>1. ASSUME NEW k \in 1..(f - 1), p = s[k] PROVE p \in 1..n /\ \A j \in f..h : s[j] # p
  <2>1. k \in 1..h /\ \A j \in f..h : j \in 1..h /\ j # k
    BY <1>0, <1>f
  <2> QED BY <1>0, <1>7, <1>1, <2>1
<1>2. ASSUME NEW k \in 2..(f - 1), p = d[s[k]].parent
      PROVE  p \in 1..n /\ \A j \in f..h : s[j] # p
  <2>1. k \in 1..h /\ \A j \in f..h : j \in k..h
    BY <1>0, <1>f
  <2> QED BY <1>7, <1>2, <2>1
<1>3. f - 1 \in 1..(f - 1) /\ 1 \in 1..(f - 1)
  BY <1>0, <1>f
<1>4. CASE p = s[f - 1]
  BY <1>1, <1>3, <1>4 DEF n, h
<1>5. CASE FosterOf(d, s, f, p)
  BY <1>1, <1>2, <1>3, <1>5 DEF FosterOf, n, h
<1> QED BY <1>4, <1>5 DEF Spot

\* The element at fb of the stack is a block that is in the formatting element at f.
Adoptable(d, s, f, fb) ==
  /\ IsSeq(d) /\ Open(d, s) /\ f \in 2..Len(s) /\ fb \in (f + 1)..Len(s)
  /\ d[s[f]].name \in Formatting
  /\ \A j \in (f + 1)..Len(s) : d[s[j]].name \notin Tree!DefaultScope
  /\ \A j \in (f + 1)..(fb - 1) : d[s[j]].name \notin Tree!special

\* A block is adopted: f and fb are the places of the formatting element and the block,
\* p is where the outmost goes, and e is the tree that comes of it.
Adopting(d, s, f, fb, e, clones, adopted, p) ==
  /\ Adoptable(d, s, f, fb)
  /\ IsSeq(e) /\ Len(e) >= Len(d)
  /\ clones \in Seq((Len(d) + 1)..Len(e)) /\ Apart(clones)
  /\ adopted \in (Len(d) + 1)..Len(e) /\ ~In(adopted, clones)
  /\ \A k \in 1..Len(clones) : /\ e[clones[k]].name \in Formatting
                               /\ k >= 2 => e[clones[k]].parent = clones[k - 1]
  /\ e[adopted].name \in Formatting /\ e[adopted].parent = s[fb]
  /\ Spot(d, s, f, p)
  /\ Len(clones) >= 1 => /\ e[clones[1]].parent = p
                         /\ e[s[fb]].parent = clones[Len(clones)]
  /\ Len(clones) = 0 => e[s[fb]].parent = p
  /\ \A id \in 1..Len(d) :
        /\ e[id].name = d[id].name
        /\ id # s[fb] => e[id].parent = IF d[id].parent = s[fb] THEN adopted ELSE d[id].parent

\* What is open is open in the tree too, after that.
LEMMA AdoptedOpen ==
  ASSUME NEW d, NEW s, NEW f, NEW fb, NEW e, NEW clones, NEW adopted, NEW p,
         Adopting(d, s, f, fb, e, clones, adopted, p),
         NEW t, t = Tree!AdoptedStack(s, f, fb, clones, adopted)
  PROVE  Open(e, t)
<1> DEFINE n == Len(d)
           r == Len(e)
           h == Len(s)
           q == Len(clones)
           top == f + q + 1
           block == s[fb]
           W(m) == WasAt(m, f, q, fb)
<1>a. /\ IsSeq(d) /\ Open(d, s) /\ f \in 2..h /\ fb \in (f + 1)..h
      /\ IsSeq(e) /\ r >= n
      /\ clones \in Seq((n + 1)..r) /\ adopted \in (n + 1)..r
  BY DEF Adopting, Adoptable
<1>b. Apart(clones) /\ ~In(adopted, clones)
  BY DEF Adopting
<1>c. /\ d[s[f]].name \in Formatting
      /\ \A j \in (f + 1)..h : d[s[j]].name \notin Tree!DefaultScope
      /\ \A j \in (f + 1)..(fb - 1) : d[s[j]].name \notin Tree!special
      /\ \A k \in 1..q : e[clones[k]].name \in Formatting
      /\ e[adopted].name \in Formatting
      /\ \A id \in 1..n : e[id].name = d[id].name
  BY DEF Adopting, Adoptable
<1>d. /\ \A k \in 1..q : k >= 2 => e[clones[k]].parent = clones[k - 1]
      /\ e[adopted].parent = block
      /\ q >= 1 => e[clones[1]].parent = p /\ e[block].parent = clones[q]
      /\ q = 0 => e[block].parent = p
      /\ \A id \in 1..n :
            id # block => e[id].parent = IF d[id].parent = block THEN adopted ELSE d[id].parent
  BY DEF Adopting
<1>e. Spot(d, s, f, p)
  BY DEF Adopting
<1>0. /\ n \in Nat /\ r \in Nat /\ h \in Nat /\ q \in Nat /\ f \in Nat /\ fb \in Nat
      /\ f >= 2 /\ fb >= f + 1 /\ fb <= h /\ r >= n /\ top = f + q + 1
  <2>1. n \in Nat /\ r \in Nat /\ q \in Nat
    BY <1>a, SeqFacts, LenProperties
  <2>2. h \in Nat
    BY <1>a, OpenFacts
  <2> HIDE DEF n, r, h, q
  <2> QED BY <1>a, <2>1, <2>2
<1>0a. /\ \A k \in 1..h : s[k] \in 1..n
       /\ \A k \in 1..q : clones[k] \in (n + 1)..r
       /\ s \in Seq(1..n)
  <2>2. \A k \in 1..h : s[k] \in 1..n
    BY <1>a, OpenFacts
  <2>3. \A k \in 1..q : clones[k] \in (n + 1)..r
    BY <1>a, ElementOfSeq
  <2>4. s \in Seq(1..n)
    BY <1>a DEF Open
  <2> HIDE DEF n, r, h, q
  <2> QED BY <2>2, <2>3, <2>4
<1>1. block \in 1..n /\ f \in 1..h /\ fb \in 1..h
  <2>1. f \in 1..h /\ fb \in 1..h
    BY <1>0
  <2> QED BY <1>0a, <2>1
<1>2. t \in Seq(1..r) /\ Restacked(t, s, f, fb, clones, adopted)
  <2> DEFINE S == 1..r
  <2>1. 1..n \subseteq S /\ (n + 1)..r \subseteq S
    BY <1>0
  <2>2. clones \in Seq((n + 1)..r)
    BY <1>a
  <2>3. adopted \in (n + 1)..r /\ f \in 1..Len(s) /\ fb \in (f + 1)..Len(s)
    BY <1>a, <1>1
  <2> HIDE DEF S, n, r
  <2>4. s \in Seq(S)
    BY <1>0a, <2>1, SeqMonotonic
  <2>5. clones \in Seq(S)
    BY <2>1, <2>2, SeqMonotonic
  <2>6. adopted \in S
    BY <2>1, <2>3
  <2> QED BY <2>3, <2>4, <2>5, <2>6, StackAdopted DEF S
<1>3. /\ Len(t) = top + (h - fb)
      /\ \A m \in 1..Len(t) :
            \/ OldPlace(m, f, q) /\ W(m) \in 1..h /\ t[m] = s[W(m)]
            \/ m - (f - 1) \in 1..q /\ t[m] = clones[m - (f - 1)]
            \/ m = top /\ t[m] = adopted
  BY <1>2 DEF Restacked
<1>4. /\ \A j, m \in 1..Len(t) :
            OldPlace(j, f, q) /\ OldPlace(m, f, q) => /\ j <= m => W(j) <= W(m)
                                                      /\ j < m => W(j) < W(m)
      /\ \A m \in 1..Len(t) : /\ m < f => OldPlace(m, f, q) /\ W(m) = m
                              /\ m = f + q => OldPlace(m, f, q) /\ W(m) = fb
                              /\ m > top => OldPlace(m, f, q) /\ W(m) = (m - top) + fb
                              /\ OldPlace(m, f, q) /\ m >= f => W(m) >= fb
                              /\ OldPlace(m, f, q) => m \notin f..(f + q - 1) /\ m # top
  <2>1. Len(t) \in Nat
    BY <1>0, <1>3
  <2> QED BY <1>0, <2>1 DEF OldPlace, WasAt
<1> DEFINE Was(m) == OldPlace(m, f, q) /\ W(m) \in 1..h /\ t[m] = s[W(m)] /\ t[m] \in 1..n
           Cloned(m) == /\ m - (f - 1) \in 1..q /\ t[m] = clones[m - (f - 1)]
                        /\ t[m] \in (n + 1)..r /\ t[m] # adopted
           New(m) == m = top /\ t[m] = adopted /\ t[m] \in (n + 1)..r
<1>5. \A m \in 1..Len(t) : Was(m) \/ Cloned(m) \/ New(m)
  <2> SUFFICES ASSUME NEW m \in 1..Len(t)
               PROVE  Was(m) \/ Cloned(m) \/ New(m)
    OBVIOUS
  <2>1. CASE OldPlace(m, f, q) /\ W(m) \in 1..h /\ t[m] = s[W(m)]
    <3> HIDE DEF W
    <3> QED BY <1>0a, <2>1
  <2>2. CASE m - (f - 1) \in 1..q /\ t[m] = clones[m - (f - 1)]
    <3> DEFINE k == m - (f - 1)
    <3> HIDE DEF k
    <3>1. k \in 1..q /\ t[m] = clones[k]
      BY <2>2 DEF k
    <3>2. t[m] \in (n + 1)..r /\ t[m] # adopted
      BY <1>0a, <1>b, <3>1 DEF In
    <3> QED BY <2>2, <3>2
  <2>3. CASE m = top /\ t[m] = adopted
    BY <1>a, <2>3
  <2> HIDE DEF W
  <2> QED BY <1>3, <2>1, <2>2, <2>3
<1> HIDE DEF W, n, r, h, q, top, block
<1>7. /\ \A k \in 1..h : d[s[k]].parent \in 1..n /\ \A j \in k..h : s[j] # d[s[k]].parent
      /\ \A i, j \in 1..h : s[i] = s[j] => i = j
      /\ \A k \in 2..h : Spot(d, s, k, d[s[k]].parent)
      /\ \A k \in 2..h : Suits(d[s[k]].name, d[s[k - 1]].name)
  BY <1>a DEF Open, ParentBelow, Mirrors, Structured, Apart, h, n
<1>6. Apart(t)
  <2> SUFFICES ASSUME NEW j \in 1..Len(t), NEW m \in 1..Len(t), j # m
               PROVE  t[j] # t[m]
    BY DEF Apart
  <2>0. j \in Int /\ m \in Int
    OBVIOUS
  <2>1. CASE Was(j) /\ Was(m)
    <3>1. W(j) # W(m)
      BY <1>4, <2>0, <2>1
    <3> QED BY <1>7, <2>1, <3>1
  <2>2. CASE Cloned(j) /\ Cloned(m)
    <3>1. j - (f - 1) # m - (f - 1)
      BY <1>0, <2>0
    <3> QED BY <1>b, <2>2, <3>1 DEF Apart, q
  <2>3. CASE ~(Was(j) /\ Was(m)) /\ ~(Cloned(j) /\ Cloned(m))
    <3>1. Was(j) \/ Cloned(j) \/ New(j)
      BY <1>5
    <3>2. Was(m) \/ Cloned(m) \/ New(m)
      BY <1>5
    <3> QED BY <1>0, <2>0, <2>3, <3>1, <3>2
  <2> QED BY <2>1, <2>2, <2>3
<1>8. p \in 1..n /\ \A j \in f..h : s[j] # p
  BY <1>a, <1>e, OutmostPlace DEF n, h
\* The block is not a part of a table, and the element in it is not one of a row's.
<1>9. /\ d[block].name \notin Tree!FOSTER_TRIGGERS
      /\ \A below : Suits(d[block].name, below)
      /\ fb + 1 \in 1..h => /\ d[s[fb + 1]].parent = block
                            /\ \A below : Suits(d[s[fb + 1]].name, below)
  <2> DEFINE name == d[block].name
             over == d[s[fb - 1]].name
  <2>1. fb - 1 \in f..(fb - 1) /\ fb \in 2..h /\ fb \in (f + 1)..h
    BY <1>0
  <2>2. name \notin {"table", "html"}
    BY <1>c, <2>1 DEF Tree!DefaultScope, block
  <2>3. over \notin {"table", "html", "tbody"}
    <3>1. CASE fb - 1 = f
      BY <1>c, <3>1 DEF Formatting, Tree!formatting_tags
    <3>2. CASE fb - 1 # f
      <4>1. fb - 1 \in (f + 1)..h /\ fb - 1 \in (f + 1)..(fb - 1)
        BY <1>0, <3>2
      <4> QED BY <1>c, <4>1 DEF Tree!DefaultScope, Tree!special
    <3> QED BY <3>1, <3>2
  <2>4. Suits(name, over)
    BY <1>7, <2>1 DEF block
  <2> HIDE DEF name, over
  <2>5. name \notin {"tbody", "tr"}
    BY <2>3, <2>4 DEF Suits
  <2>6. name \notin Tree!FOSTER_TRIGGERS /\ \A below : Suits(name, below)
    BY <2>2, <2>5 DEF Suits, Tree!FOSTER_TRIGGERS
  <2>7. ASSUME fb + 1 \in 1..h
        PROVE  /\ d[s[fb + 1]].parent = block
               /\ \A below : Suits(d[s[fb + 1]].name, below)
    <3> DEFINE i == fb + 1
    <3>1. i \in 2..h /\ i - 1 = fb
      BY <1>0, <2>7
    <3> HIDE DEF i
    <3>2. Spot(d, s, i, d[s[i]].parent) /\ Suits(d[s[i]].name, d[s[i - 1]].name)
      BY <1>7, <3>1
    <3>3. d[s[i]].parent = block
      BY <2>6, <3>1, <3>2 DEF Spot, name, block
    <3>4. Suits(d[s[i]].name, name)
      BY <3>1, <3>2 DEF name, block
    <3>5. \A below : Suits(d[s[i]].name, below)
      BY <2>2, <2>5, <3>4 DEF Suits
    <3> QED BY <3>3, <3>5 DEF i
  <2> QED BY <2>6, <2>7 DEF name
<1>10. ASSUME NEW m \in 1..Len(t)
       PROVE  \/ /\ Was(m) /\ (m < f \/ m > top + 1)
                 /\ e[t[m]].parent = d[s[W(m)]].parent
              \/ m = f /\ e[t[m]].parent = p
              \/ m \in (f + 1)..(top + 1) /\ m - 1 \in 1..Len(t) /\ e[t[m]].parent = t[m - 1]
  <2>0. m \in Nat /\ Len(t) \in Nat /\ m >= 1 /\ m <= Len(t)
    BY <1>0, <1>3
  <2>1. CASE m < f
    <3>1. Was(m) /\ W(m) = m
      BY <1>0, <1>4, <1>5, <2>0, <2>1
    <3>2. t[m] = s[m] /\ m \in 1..h /\ fb \in m..h /\ m # fb
      BY <1>0, <2>0, <2>1, <3>1
    <3>3. d[s[m]].parent # block /\ t[m] # block
      BY <1>1, <1>7, <2>1, <3>2 DEF block
    <3> QED BY <1>d, <2>1, <3>1, <3>2, <3>3
  <2>2. CASE m \in f..(f + q - 1)
    <3> DEFINE k == m - (f - 1)
    <3>0. k \in 1..q /\ m = (f - 1) + k
      BY <1>0, <2>0, <2>2
    <3>1. Cloned(m)
      BY <1>0, <1>4, <1>5, <2>0, <2>2
    <3>2. t[m] = clones[k]
      BY <3>1
    <3>3. CASE m = f
      <4>1. k = 1 /\ q >= 1
        BY <1>0, <3>0, <3>3
      <4> QED BY <1>d, <3>2, <3>3, <4>1
    <3>4. CASE m # f
      <4>1. k >= 2 /\ m - 1 \in 1..Len(t) /\ m - 1 \in f..(f + q - 1) /\ (m - 1) - (f - 1) = k - 1
            /\ m \in (f + 1)..(top + 1)
        BY <1>0, <2>0, <2>2, <3>0, <3>4
      <4>2. Cloned(m - 1)
        BY <1>0, <1>4, <1>5, <4>1
      <4>3. t[m - 1] = clones[k - 1]
        BY <4>1, <4>2
      <4>4. e[clones[k]].parent = clones[k - 1]
        BY <1>d, <3>0, <4>1
      <4> QED BY <3>2, <4>1, <4>3, <4>4
    <3> QED BY <3>3, <3>4
  <2>3. CASE m = f + q
    <3>1. t[m] = block
      <4>1. m # top
        BY <1>0, <2>3
      <4>2. Was(m) /\ W(m) = fb
        BY <1>0, <1>4, <1>5, <2>3, <4>1
      <4> QED BY <4>2 DEF block
    <3>2. CASE q = 0
      BY <1>0, <1>d, <2>3, <3>1, <3>2
    <3>3. CASE q # 0
      <4>1. m - 1 \in 1..Len(t) /\ m - 1 \in f..(f + q - 1) /\ (m - 1) - (f - 1) = q
            /\ m \in (f + 1)..(top + 1) /\ q >= 1
        BY <1>0, <2>0, <2>3, <3>3
      <4>2. Cloned(m - 1)
        BY <1>0, <1>4, <1>5, <4>1
      <4>3. t[m - 1] = clones[q]
        BY <4>1, <4>2
      <4> QED BY <1>d, <3>1, <4>1, <4>3
    <3> QED BY <3>2, <3>3
  <2>4. CASE m = top
    <3>1. /\ m - 1 \in 1..Len(t) /\ m - 1 = f + q /\ m \in (f + 1)..(top + 1)
          /\ m - 1 # top
      BY <1>0, <2>0, <2>4
    <3>2. t[m] = adopted /\ t[m - 1] = block
      <4>1. Was(m - 1) /\ W(m - 1) = fb
        BY <1>0, <1>4, <1>5, <3>1
      <4>2. New(m)
        BY <1>0, <1>4, <1>5, <2>4
      <4> QED BY <4>1, <4>2 DEF block
    <3> QED BY <1>d, <3>1, <3>2
  <2>5. CASE m > top
    <3>1. /\ Was(m) /\ W(m) = (m - top) + fb
      BY <1>0, <1>4, <1>5, <2>0, <2>5
    <3>2. t[m] # block /\ W(m) > fb /\ t[m] = s[W(m)] /\ t[m] \in 1..n
      <4>1. W(m) > fb /\ W(m) # fb
        BY <1>0, <2>0, <2>5, <3>1
      <4>2. t[m] = s[W(m)] /\ t[m] \in 1..n /\ W(m) \in 1..h
        BY <3>1
      <4>3. s[W(m)] # s[fb]
        BY <1>1, <1>7, <4>1, <4>2
      <4> QED BY <4>1, <4>2, <4>3 DEF block
    <3>3. CASE m = top + 1
      <4>1. W(m) = fb + 1 /\ fb + 1 \in 1..h
        BY <1>0, <3>1, <3>3
      <4>2. e[t[m]].parent = adopted
        BY <1>9, <1>d, <3>2, <4>1
      <4>3. m - 1 = top /\ top \in 1..Len(t) /\ m \in (f + 1)..(top + 1)
        BY <1>0, <2>0, <3>3
      <4>4. New(m - 1)
        BY <1>0, <1>4, <1>5, <4>3
      <4> QED BY <4>2, <4>3, <4>4
    <3>4. CASE m # top + 1
      <4> DEFINE i == W(m)
      <4>1. i \in 2..h /\ i - 1 \in 1..h /\ i - 1 # fb /\ m > top + 1 /\ i - 1 > fb
        BY <1>0, <2>0, <2>5, <3>1, <3>4
      <4> HIDE DEF i
      <4>2. d[s[i]].parent # block
        <5>1. Spot(d, s, i, d[s[i]].parent)
          BY <1>7, <4>1
        <5>2. CASE d[s[i]].parent = s[i - 1]
          BY <1>1, <1>7, <4>1, <5>2 DEF block
        <5>3. CASE FosterOf(d, s, i, d[s[i]].parent)
          <6>1. CASE d[s[i]].parent = s[1]
            <7>1. 1 \in 1..h /\ 1 # fb
              BY <1>0
            <7> QED BY <1>1, <1>7, <6>1, <7>1 DEF block
          <6>2. ASSUME NEW x \in 2..(i - 1), d[s[x]].name = "table",
                       d[s[i]].parent = d[s[x]].parent
                PROVE  d[s[i]].parent # block
            <7>1. x \notin (f + 1)..h
              BY <1>c, <6>2 DEF Tree!DefaultScope
            <7>2. x \in 1..h /\ fb \in x..h
              BY <1>0, <4>1, <7>1
            <7> QED BY <1>7, <6>2, <7>2 DEF block
          <6> QED BY <5>3, <6>1, <6>2 DEF FosterOf
        <5> QED BY <5>1, <5>2, <5>3 DEF Spot
      <4>3. e[t[m]].parent = d[s[i]].parent
        BY <1>d, <3>2, <4>2 DEF i
      <4> QED BY <3>1, <4>1, <4>3 DEF i
    <3> QED BY <3>3, <3>4
  <2>6. m < f \/ m \in f..(f + q - 1) \/ m = f + q \/ m = top \/ m > top
    BY <1>0, <2>0
  <2> QED BY <2>1, <2>2, <2>3, <2>4, <2>5, <2>6
\* An old place that is not the lowest has an old one of the same below it.
<1>11. ASSUME NEW m \in 1..Len(t)
       PROVE  e[t[m]].parent \in 1..r /\ \A j \in m..Len(t) : t[j] # e[t[m]].parent
  <2>0. m \in Nat /\ Len(t) \in Nat /\ m >= 1 /\ m <= Len(t) /\ \A x \in 1..n : x \in 1..r
    BY <1>0, <1>3
  <2>1. ASSUME Was(m), e[t[m]].parent = d[s[W(m)]].parent
        PROVE  e[t[m]].parent \in 1..r /\ \A j \in m..Len(t) : t[j] # e[t[m]].parent
    <3>1. e[t[m]].parent \in 1..n
      BY <1>7, <2>1
    <3>2. ASSUME NEW j \in m..Len(t) PROVE t[j] # e[t[m]].parent
      <4>1. j \in 1..Len(t) /\ m <= j
        BY <2>0
      <4>2. CASE Was(j)
        <5>1. W(m) <= W(j) /\ W(m) \in 1..h /\ W(j) \in 1..h
          BY <1>4, <2>1, <4>1, <4>2
        <5>2. W(j) \in W(m)..h
          BY <1>0, <5>1
        <5> QED BY <1>7, <2>1, <4>2, <5>1, <5>2
      <4>3. CASE Cloned(j) \/ New(j)
        BY <1>0, <3>1, <4>3
      <4> QED BY <1>5, <4>1, <4>2, <4>3
    <3> QED BY <2>0, <3>1, <3>2
  <2>2. ASSUME m = f, e[t[m]].parent = p
        PROVE  e[t[m]].parent \in 1..r /\ \A j \in m..Len(t) : t[j] # e[t[m]].parent
    <3>1. ASSUME NEW j \in m..Len(t) PROVE t[j] # p
      <4>1. j \in 1..Len(t) /\ f <= j
        BY <2>0, <2>2
      <4>2. CASE Was(j)
        <5>1. W(j) >= fb /\ W(j) \in 1..h
          BY <1>4, <4>1, <4>2
        <5>2. W(j) \in f..h
          BY <1>0, <5>1
        <5> QED BY <1>8, <4>2, <5>2
      <4>3. CASE Cloned(j) \/ New(j)
        BY <1>0, <1>8, <4>3
      <4> QED BY <1>5, <4>1, <4>2, <4>3
    <3> QED BY <1>8, <2>0, <2>2, <3>1
  <2>3. ASSUME m - 1 \in 1..Len(t), e[t[m]].parent = t[m - 1]
        PROVE  e[t[m]].parent \in 1..r /\ \A j \in m..Len(t) : t[j] # e[t[m]].parent
    <3>1. t[m - 1] \in 1..r
      BY <1>2, <2>3, ElementOfSeq
    <3>2. ASSUME NEW j \in m..Len(t) PROVE t[j] # t[m - 1]
      <4>1. j \in 1..Len(t) /\ j # m - 1
        BY <2>0
      <4> QED BY <1>6, <2>3, <4>1 DEF Apart
    <3> QED BY <2>3, <3>1, <3>2
  <2> QED BY <1>10, <2>1, <2>2, <2>3
<1>12. ASSUME NEW m \in 1..Len(t) PROVE e[t[m]].name # "table" \/ (Was(m) /\ m < f)
  <2>1. CASE Was(m) /\ m >= f
    <3>1. W(m) \in (f + 1)..h
      BY <1>0, <1>4, <2>1
    <3>2. e[t[m]].name = d[s[W(m)]].name
      BY <1>c, <2>1
    <3> QED BY <1>c, <3>1, <3>2 DEF Tree!DefaultScope
  <2>2. CASE Cloned(m) \/ New(m)
    <3>1. e[t[m]].name \in Formatting
      BY <1>c, <2>2
    <3> QED BY <3>1 DEF Formatting, Tree!formatting_tags
  <2>3. m < f \/ m >= f
    BY <1>0
  <2> QED BY <1>5, <2>1, <2>2, <2>3
<1>13. \A m \in 1..(f - 1) : m \in 1..Len(t) /\ t[m] = s[m]
  <2>1. ASSUME NEW m \in 1..(f - 1) PROVE m \in 1..Len(t) /\ t[m] = s[m]
    <3>1. m \in 1..Len(t) /\ m < f /\ m # top
      BY <1>0, <1>3
    <3>2. Was(m) /\ W(m) = m
      BY <1>0, <1>4, <1>5, <3>1
    <3> QED BY <3>1, <3>2
  <2> QED BY <2>1
<1>14. ASSUME NEW m \in 2..Len(t), m > top + 1
       PROVE  /\ W(m) \in 2..h /\ W(m) > fb + 1 /\ t[m] = s[W(m)]
              /\ m - 1 \in 1..Len(t) /\ t[m - 1] = s[W(m) - 1] /\ W(m) - 1 \in 1..h
  <2>0. m \in Nat /\ Len(t) \in Nat /\ m \in 1..Len(t) /\ m - 1 \in 1..Len(t) /\ m > top /\ m - 1 > top
    BY <1>0, <1>3, <1>14
  <2>1. /\ OldPlace(m, f, q) /\ W(m) = (m - top) + fb
        /\ OldPlace(m - 1, f, q) /\ W(m - 1) = ((m - 1) - top) + fb
    BY <1>4, <2>0
  <2>2. Was(m) /\ Was(m - 1)
    BY <1>0, <1>4, <1>5, <2>0, <2>1
  <2>3. W(m - 1) = W(m) - 1 /\ W(m) > fb + 1 /\ W(m) \in 2..h
    BY <1>0, <1>14, <2>0, <2>1, <2>2
  <2> QED BY <2>0, <2>2, <2>3
<1>15. ASSUME NEW m \in 2..Len(t) PROVE Spot(e, t, m, e[t[m]].parent)
  <2>0. m \in Nat /\ Len(t) \in Nat /\ m >= 2 /\ m \in 1..Len(t) /\ m - 1 \in 1..Len(t)
    BY <1>0, <1>3
  <2>1. ASSUME m <= f, NEW parent, Spot(d, s, m, parent) PROVE Spot(e, t, m, parent)
    <3>1. \A j \in 1..(m - 1) : t[j] = s[j] /\ j \in 1..h
      BY <1>0, <1>13, <2>0, <2>1
    <3>2. \A j \in 1..(m - 1) : e[s[j]].name = d[s[j]].name
      BY <1>0a, <1>c, <3>1
    <3>3. ASSUME NEW j \in 2..(m - 1) PROVE e[s[j]].parent = d[s[j]].parent
      <4>1. j \in 1..h /\ j # fb /\ fb \in j..h
        BY <1>0, <2>0, <2>1
      <4>2. s[j] # block /\ d[s[j]].parent # block /\ s[j] \in 1..n
        BY <1>0a, <1>1, <1>7, <4>1 DEF block
      <4> QED BY <1>d, <4>2
    <3>4. \A j \in 1..(m - 1) : t[j] = s[j]
      BY <3>1
    <3>5. m \in Nat /\ m >= 2 /\ Spot(d, s, m, parent)
      BY <2>0, <2>1
    <3> QED BY <3>2, <3>3, <3>4, <3>5, SpotKept
  <2>2. CASE Was(m) /\ m < f /\ e[t[m]].parent = d[s[W(m)]].parent
    <3>1. W(m) = m /\ m \in 2..h
      BY <1>0, <1>4, <2>0, <2>2
    <3>2. Spot(d, s, m, d[s[m]].parent)
      BY <1>7, <3>1
    <3> QED BY <1>0, <2>0, <2>1, <2>2, <3>1, <3>2
  <2>3. CASE m = f /\ e[t[m]].parent = p
    BY <1>0, <1>e, <2>0, <2>1, <2>3
  <2>4. CASE e[t[m]].parent = t[m - 1]
    BY <2>4 DEF Spot
  <2>5. CASE m > top + 1 /\ e[t[m]].parent = d[s[W(m)]].parent
    <3> DEFINE i == W(m)
               parent == d[s[i]].parent
    <3>1. /\ i \in 2..h /\ i > fb + 1 /\ t[m] = s[i] /\ t[m - 1] = s[i - 1] /\ i - 1 \in 1..h
      BY <1>14, <2>5
    <3> HIDE DEF i
    <3>2. Spot(d, s, i, parent)
      BY <1>7, <3>1
    <3>3. CASE parent = s[i - 1]
      BY <2>5, <3>1, <3>3 DEF Spot, i
    <3>4. CASE d[s[i - 1]].name \in Tree!FOSTER_TRIGGERS /\ FosterOf(d, s, i, parent)
      <4>1. e[t[m - 1]].name \in Tree!FOSTER_TRIGGERS
        BY <1>0a, <1>c, <3>1, <3>4
      <4>2. ASSUME NEW y \in 1..f, \A x \in (y + 1)..(i - 1) : d[s[x]].name # "table",
                   NEW j \in (y + 1)..(m - 1)
            PROVE  e[t[j]].name # "table"
        <5>1. j \in 1..Len(t)
          BY <1>0, <2>0
        <5>2. CASE Was(j) /\ j < f
          <6>1. W(j) = j /\ j \in (y + 1)..(i - 1)
            BY <1>0, <1>4, <3>1, <5>1, <5>2
          <6> QED BY <1>c, <4>2, <5>2, <6>1
        <5> QED BY <1>12, <5>1, <5>2
      <4>3. CASE parent = s[1] /\ \A j \in 2..(i - 1) : d[s[j]].name # "table"
        <5>1. s[1] = t[1] /\ 1 \in 1..f /\ 1 + 1 = 2
          BY <1>0, <1>13
        <5>2. \A j \in 2..(m - 1) : e[t[j]].name # "table"
          BY <4>2, <4>3, <5>1
        <5> QED BY <2>5, <4>1, <4>3, <5>1, <5>2 DEF Spot, FosterOf, i
      <4>4. ASSUME NEW x \in 2..(i - 1), d[s[x]].name = "table", parent = d[s[x]].parent,
                   \A j \in (x + 1)..(i - 1) : d[s[j]].name # "table"
            PROVE  Spot(e, t, m, e[t[m]].parent)
        <5>1. x \notin (f + 1)..h /\ x # f
          BY <1>c, <4>4 DEF Tree!DefaultScope, Formatting, Tree!formatting_tags
        <5>2. x \in 1..(f - 1) /\ x \in 1..h /\ fb \in x..h /\ x # fb /\ x \in 1..f /\ x \in 2..(m - 1)
          BY <1>0, <2>0, <2>5, <3>1, <5>1
        <5>3. t[x] = s[x] /\ s[x] # block /\ d[s[x]].parent # block /\ s[x] \in 1..n
          BY <1>0a, <1>1, <1>7, <1>13, <5>2 DEF block
        <5>4. e[t[x]].parent = parent /\ e[t[x]].name = "table"
          BY <1>c, <1>d, <4>4, <5>3
        <5>5. \A j \in (x + 1)..(m - 1) : e[t[j]].name # "table"
          BY <4>2, <4>4, <5>2
        <5> QED BY <2>5, <4>1, <5>2, <5>4, <5>5 DEF Spot, FosterOf, i
      <4> QED BY <3>4, <4>3, <4>4 DEF FosterOf
    <3> QED BY <3>2, <3>3, <3>4 DEF Spot
  <2> QED BY <1>10, <2>0, <2>2, <2>3, <2>4, <2>5
<1>16. ASSUME NEW m \in 2..Len(t) PROVE Suits(e[t[m]].name, e[t[m - 1]].name)
  <2>0. m \in Nat /\ Len(t) \in Nat /\ m >= 2 /\ m \in 1..Len(t) /\ m - 1 \in 1..Len(t)
    BY <1>0, <1>3
  <2>1. CASE Cloned(m) \/ New(m)
    <3>1. e[t[m]].name \in Formatting
      BY <1>c, <2>1
    <3> QED BY <3>1, FormattingSuits
  <2>2. CASE m < f
    <3>1. t[m] = s[m] /\ t[m - 1] = s[m - 1] /\ m \in 2..h /\ m \in 1..h /\ m - 1 \in 1..h
      BY <1>0, <1>13, <2>0, <2>2
    <3> QED BY <1>0a, <1>7, <1>c, <3>1
  <2>3. CASE Was(m) /\ m = f + q
    <3>1. t[m] = block
      BY <1>4, <2>3 DEF block
    <3> QED BY <1>1, <1>9, <1>c, <3>1
  <2>4. CASE Was(m) /\ m = top + 1
    <3>1. W(m) = fb + 1
      BY <1>0, <1>4, <2>0, <2>4
    <3>2. t[m] = s[fb + 1] /\ fb + 1 \in 1..h
      BY <2>4, <3>1
    <3> QED BY <1>0a, <1>9, <1>c, <3>2
  <2>5. CASE m > top + 1
    <3> DEFINE i == W(m)
    <3>1. /\ i \in 2..h /\ t[m] = s[i] /\ t[m - 1] = s[i - 1] /\ i - 1 \in 1..h /\ i \in 1..h
      BY <1>0, <1>14, <2>5
    <3> HIDE DEF i
    <3>2. Suits(d[s[i]].name, d[s[i - 1]].name)
      BY <1>7, <3>1
    <3> QED BY <1>0a, <1>c, <3>1, <3>2
  <2>6. ASSUME Was(m) PROVE m < f \/ m = f + q \/ m = top + 1 \/ m > top + 1
    BY <1>0, <1>4, <2>0, <2>6
  <2> QED BY <1>5, <2>1, <2>2, <2>3, <2>4, <2>5, <2>6
<1> QED BY <1>2, <1>6, <1>11, <1>15, <1>16 DEF Open, ParentBelow, Mirrors, Structured, r

LEMMA AdoptedAfe ==
  ASSUME NEW d, IsSeq(d), NEW a, AfeOK(d, a), NEW bookmark, In(bookmark, a),
         NEW adopted \in 1..Len(d), d[adopted].name \in Formatting, NEW fmt, NEW r,
         r = Tree!AdoptedActive(a, bookmark, fmt, adopted)
  PROVE  AfeOK(d, r)
<1> DEFINE S == 0..Len(d)
           k == CHOOSE i \in 2..(Len(a) + 1) : a[i - 1] = bookmark
           x == Tree!InsertAt(a, k, adopted)
<1>0. a \in Seq(S) /\ Len(a) \in Nat /\ adopted \in S /\ Len(d) \in Nat
  BY SeqFacts, LenProperties DEF AfeOK
<1>1. k \in 1..(Len(a) + 1)
  <2>1. PICK j \in 1..Len(a) : a[j] = bookmark
    BY DEF In
  <2>2. j + 1 \in 2..(Len(a) + 1) /\ (j + 1) - 1 = j
    BY <1>0
  <2>3. k \in 2..(Len(a) + 1)
    BY <2>1, <2>2
  <2> HIDE DEF k
  <2> QED BY <1>0, <2>3
<1>2. r = Tree!RemoveFirst(x, fmt)
  BY DEF Tree!AdoptedActive
<1> HIDE DEF k, x, S
<1>3. x \in Seq(S) /\ \A y : In(y, x) <=> y = adopted \/ In(y, a)
  BY <1>0, <1>1, Inserted DEF x
<1>4. r \in Seq(S) /\ \A y : In(y, r) => In(y, x)
  BY <1>2, <1>3, Removed
<1>5. ASSUME NEW i \in 1..Len(r), r[i] # 0 PROVE d[r[i]].name \in Formatting
  <2> DEFINE y == r[i]
  <2>1. In(y, r)
    BY DEF In
  <2> HIDE DEF y
  <2>2. y = adopted \/ In(y, a)
    BY <1>3, <1>4, <2>1
  <2>3. CASE In(y, a)
    <3>1. PICK j \in 1..Len(a) : a[j] = y
      BY <2>3 DEF In
    <3> QED BY <1>5, <3>1 DEF AfeOK, y
  <2> QED BY <2>2, <2>3 DEF y
<1> QED BY <1>4, <1>5 DEF AfeOK, S

\* The clones are new and formatting.
ClonesOf(d, e, clones) ==
  /\ clones \in Seq((Len(d) + 1)..Len(e)) /\ Apart(clones)
  /\ \A k \in 1..Len(clones) : e[clones[k]].name \in Formatting

\* The clones and the block are a chain.
IsChain(chain, clones, block) ==
  /\ Len(chain) = Len(clones) + 1
  /\ \A k \in 1..Len(clones) : chain[k] = clones[k]
  /\ chain[Len(clones) + 1] = block

LEMMA ChainMade ==
  ASSUME NEW d, IsSeq(d), NEW e, Same(d, e), IsSeq(e), NEW clones, ClonesOf(d, e, clones),
         NEW block \in 1..Len(d), NEW chain, chain = Append(clones, block)
  PROVE  chain \in Seq(1..Len(e)) /\ Apart(chain) /\ IsChain(chain, clones, block)
<1> DEFINE n == Len(d)
           r == Len(e)
           q == Len(clones)
           S == 1..r
<1>0. n \in Nat /\ r \in Nat /\ r >= n /\ clones \in Seq((n + 1)..r)
  BY SeqFacts DEF Same, ClonesOf
<1>1. q \in Nat /\ \A k \in 1..q : clones[k] \in (n + 1)..r
  BY <1>0, LenProperties, ElementOfSeq
<1>2. clones \in Seq(S) /\ block \in S
  <2>1. (n + 1)..r \subseteq S /\ block \in S
    BY <1>0
  <2> HIDE DEF S, n, r
  <2> QED BY <1>0, <2>1, SeqMonotonic
<1> HIDE DEF S
<1>3. /\ chain \in Seq(S) /\ Len(chain) = q + 1
      /\ \A k \in 1..q : chain[k] = clones[k]
      /\ chain[q + 1] = block
  BY <1>2, AppendProperties
<1>4. Apart(chain)
  <2> SUFFICES ASSUME NEW i \in 1..(q + 1), NEW j \in 1..(q + 1), i # j
               PROVE  chain[i] # chain[j]
    BY <1>3 DEF Apart
  <2>1. CASE i = q + 1
    <3>1. j \in 1..q /\ block \in 1..n
      BY <1>1, <2>1
    <3> QED BY <1>0, <1>1, <1>3, <2>1, <3>1
  <2>2. CASE j = q + 1
    <3>1. i \in 1..q /\ block \in 1..n
      BY <1>1, <2>2
    <3> QED BY <1>0, <1>1, <1>3, <2>2, <3>1
  <2>3. CASE i # q + 1 /\ j # q + 1
    <3>1. i \in 1..q /\ j \in 1..q
      BY <1>1, <2>3
    <3> QED BY <1>3, <3>1 DEF ClonesOf, Apart
  <2> QED BY <2>1, <2>2, <2>3
<1> QED BY <1>3, <1>4 DEF IsChain, S

\* A new node, and what it is given: as operators, for the provers.
NodeIn(b, c, name) ==
  /\ Rest(b, c) /\ Linked(c.dom) /\ Len(c.dom) = Len(b.dom) + 1 /\ Same(b.dom, c.dom)
  /\ c.dom[Len(b.dom) + 1].name = name /\ c.dom[Len(b.dom) + 1].parent = 0
  /\ c.dom[Len(b.dom) + 1].kids = <<>>

LEMMA NewNodeIn ==
  ASSUME NEW b, Shaped(b), Linked(b.dom), NEW name, NEW tag, NEW held, NEW c,
         c = Tree!NewNode(b, name, tag, held)
  PROVE  NodeIn(b, c, name)
BY NodeMade DEF NodeIn

CanGive(b, id, block) ==
  /\ Shaped(b) /\ Linked(b.dom) /\ id \in 1..Len(b.dom) /\ id = Len(b.dom)
  /\ block \in 1..Len(b.dom) /\ block # id /\ b.dom[block].parent # block
  /\ b.dom[id].parent = 0 /\ b.dom[id].kids = <<>>

ContentIn(b, c, id, block) ==
  /\ Rest(b, c) /\ Linked(c.dom) /\ Len(c.dom) = Len(b.dom)
  /\ \A k \in 1..Len(b.dom) :
        /\ c.dom[k].name = b.dom[k].name
        /\ c.dom[k].parent = IF k = id THEN block
                             ELSE IF b.dom[k].parent = block THEN id ELSE b.dom[k].parent

LEMMA ContentGivenIn ==
  ASSUME NEW b, NEW id, NEW block, CanGive(b, id, block), NEW c, c = Tree!GiveContent(b, block)
  PROVE  ContentIn(b, c, id, block)
<1>1. /\ Shaped(b) /\ Linked(b.dom) /\ id \in 1..Len(b.dom) /\ id = Len(b.dom)
      /\ block \in 1..Len(b.dom) /\ block # id /\ b.dom[block].parent # block
      /\ b.dom[id].parent = 0 /\ b.dom[id].kids = <<>>
  BY DEF CanGive
<1>2. /\ Rest(b, c) /\ Linked(c.dom) /\ Len(c.dom) = Len(b.dom)
      /\ \A k \in 1..Len(b.dom) :
            /\ c.dom[k].name = b.dom[k].name
            /\ c.dom[k].parent = IF k = id THEN block
                                 ELSE IF b.dom[k].parent = block THEN id ELSE b.dom[k].parent
  BY <1>1, ContentGiven
<1> QED BY <1>2 DEF ContentIn

\* What is made of the tree x0, of clones, block and place, and what it is.
Adoption(x0, clones, block, p, pos, name, tag) ==
  LET chain == Append(clones, block)
      moved == Tree!Chained(Tree!Attach(x0, p, pos, chain[1]), chain)
  IN  Tree!GiveContent(Tree!NewNode(moved, name, tag, <<>>), block)

CanAdopt(d, s, f, fb, x0, clones, p, pos, name) ==
  /\ Adoptable(d, s, f, fb) /\ Shaped(x0) /\ Linked(x0.dom) /\ Same(d, x0.dom)
  /\ ClonesOf(d, x0.dom, clones) /\ Spot(d, s, f, p) /\ pos \in Nat \ {0} /\ name \in Formatting

HasAdopted(d, s, f, fb, x0, clones, p, x4) ==
  /\ Rest(x0, x4) /\ Linked(x4.dom) /\ Len(x4.dom) = Len(x0.dom) + 1
  /\ \A k \in 1..Len(x0.dom) : x4.dom[k].name = x0.dom[k].name
  /\ Adopting(d, s, f, fb, x4.dom, clones, Len(x4.dom), p)

LEMMA AdoptTree ==
  ASSUME NEW d, NEW s, NEW f, NEW fb, NEW x0, NEW clones, NEW p, NEW pos, NEW name, NEW tag,
         CanAdopt(d, s, f, fb, x0, clones, p, pos, name),
         NEW x4, x4 = Adoption(x0, clones, s[fb], p, pos, name, tag)
  PROVE  HasAdopted(d, s, f, fb, x0, clones, p, x4)
<1> DEFINE chain == Append(clones, s[fb])
           x1 == Tree!Attach(x0, p, pos, chain[1])
           x2 == Tree!Chained(x1, chain)
           held == <<>>
           x3 == Tree!NewNode(x2, name, tag, held)
<1>g. /\ chain = Append(clones, s[fb]) /\ x1 = Tree!Attach(x0, p, pos, chain[1])
      /\ x2 = Tree!Chained(x1, chain) /\ x3 = Tree!NewNode(x2, name, tag, held)
      /\ x4 = Tree!GiveContent(x3, s[fb])
  BY DEF Adoption
<1>h. /\ Adoptable(d, s, f, fb) /\ Shaped(x0) /\ Linked(x0.dom) /\ Same(d, x0.dom)
      /\ ClonesOf(d, x0.dom, clones) /\ Spot(d, s, f, p) /\ pos \in Nat \ {0}
      /\ name \in Formatting
  BY DEF CanAdopt
<1> HIDE DEF chain, held, x1, x2, x3
<1> USE <1>g, <1>h
<1> DEFINE n == Len(d)
           r == Len(x0.dom)
           h == Len(s)
           q == Len(clones)
           block == s[fb]
           id == r + 1
           first == chain[1]
<1>a. /\ IsSeq(d) /\ Open(d, s) /\ f \in 2..h /\ fb \in (f + 1)..h
  BY DEF Adoptable
<1>0. n \in Nat /\ r \in Nat /\ n <= r /\ h \in Nat /\ IsSeq(x0.dom)
  <2>1. n \in Nat /\ r \in Nat /\ n <= r /\ IsSeq(x0.dom)
    BY <1>a, SeqFacts DEF Linked, Same
  <2>2. h \in Nat
    BY <1>a, OpenFacts
  <2> QED BY <2>1, <2>2
<1>1. p \in 1..n /\ p # block /\ block \in 1..n
  <2>1. \A k \in 1..h : s[k] \in 1..n
    BY <1>a, OpenFacts
  <2>2. p \in 1..n /\ \A j \in f..h : s[j] # p
    BY <1>a, OutmostPlace
  <2>3. fb \in f..h /\ fb \in 1..h
    BY <1>a, <1>0
  <2> QED BY <2>1, <2>2, <2>3
<1> HIDE DEF block
<1>2. /\ chain \in Seq(1..r) /\ Apart(chain)
      /\ Len(chain) = q + 1 /\ chain[q + 1] = block
      /\ \A k \in 1..q : chain[k] = clones[k]
  <2>1. ClonesOf(d, x0.dom, clones) /\ Same(d, x0.dom) /\ chain = Append(clones, block)
    BY DEF block
  <2>2. chain \in Seq(1..Len(x0.dom)) /\ Apart(chain) /\ IsChain(chain, clones, block)
    BY <1>a, <1>0, <1>1, <2>1, ChainMade
  <2> QED BY <2>2 DEF IsChain
<1>3. /\ q \in Nat /\ Len(chain) >= 1
      /\ \A k \in 1..q : clones[k] \in (n + 1)..r /\ clones[k] # block /\ clones[k] # p
      /\ \A k \in 1..(q + 1) : chain[k] \in 1..r
      /\ 1 \in 1..(q + 1)
  <2>1. q \in Nat
    BY LenProperties DEF ClonesOf
  <2>2. \A k \in 1..q : clones[k] \in (n + 1)..r
    BY ElementOfSeq DEF ClonesOf
  <2>3. \A k \in 1..(q + 1) : chain[k] \in 1..r
    BY <1>2, ElementOfSeq
  <2> HIDE DEF n, r, q
  <2>4. \A k \in 1..q : clones[k] # block /\ clones[k] # p
    BY <1>0, <1>1, <2>2
  <2> QED BY <1>2, <2>1, <2>2, <2>3, <2>4
<1>4. p \in 1..r /\ first \in 1..r
  BY <1>0, <1>1, <1>3
<1>5. Rest(x0, x1) /\ Linked(x1.dom) /\ Moved(x0.dom, x1.dom, first, p)
  <2> HIDE DEF first
  <2> QED BY <1>4, Attached DEF first
<1>6. Len(x1.dom) = r /\ Shaped(x1)
  BY <1>5 DEF Moved, Rest
<1>7. Chaining(x1, x2, chain, q + 1)
  <2>1. chain \in Seq(1..Len(x1.dom)) /\ Len(chain) >= 1 /\ Apart(chain)
    BY <1>2, <1>3, <1>6
  <2>2. Chaining(x1, x2, chain, Len(chain))
    BY <1>5, <1>6, <2>1, ChainBuilt
  <2> QED BY <1>2, <2>2
<1>8. Shaped(x2) /\ Linked(x2.dom) /\ Len(x2.dom) = r /\ Rest(x0, x2)
  BY <1>5, <1>6, <1>7 DEF Chaining, Rest
<1>9. /\ Rest(x2, x3)
      /\ Linked(x3.dom) /\ Len(x3.dom) = id /\ Same(x2.dom, x3.dom)
      /\ x3.dom[id].name = name /\ x3.dom[id].parent = 0
      /\ x3.dom[id].kids = <<>>
  <2> DEFINE next == Len(x2.dom) + 1
  <2>1. /\ Rest(x2, x3)
        /\ Linked(x3.dom) /\ Len(x3.dom) = Len(x2.dom) + 1 /\ Same(x2.dom, x3.dom)
        /\ x3.dom[Len(x2.dom) + 1].name = name /\ x3.dom[Len(x2.dom) + 1].parent = 0
        /\ x3.dom[Len(x2.dom) + 1].kids = <<>>
    <3>1. Shaped(x2) /\ Linked(x2.dom)
      BY <1>8
    <3>2. NodeIn(x2, x3, name)
      BY <3>1, NewNodeIn
    <3> QED BY <3>2 DEF NodeIn
  <2>2. next = id
    BY <1>8
  <2> HIDE DEF id
  <2> QED BY <2>1, <2>2
\* Where each node is before the content of the block is given away.
<1>10. \A i \in 1..r : /\ x3.dom[i].name = x0.dom[i].name
                       /\ i = first => x3.dom[i].parent = p
                       /\ (\A k \in 1..(q + 1) : i # chain[k]) => x3.dom[i].parent = x0.dom[i].parent
  <2> SUFFICES ASSUME NEW i \in 1..r
               PROVE  /\ x3.dom[i].name = x0.dom[i].name
                      /\ i = first => x3.dom[i].parent = p
                      /\ (\A k \in 1..(q + 1) : i # chain[k]) => x3.dom[i].parent = x0.dom[i].parent
    OBVIOUS
  <2>1. x3.dom[i].name = x2.dom[i].name /\ x3.dom[i].parent = x2.dom[i].parent
    BY <1>8, <1>9 DEF Same
  <2>2. /\ x2.dom[i].name = x1.dom[i].name
        /\ (\A j \in 2..(q + 1) : i # chain[j]) => x2.dom[i].parent = x1.dom[i].parent
    BY <1>6, <1>7 DEF Chaining
  <2>3. x1.dom[i].name = x0.dom[i].name /\ x1.dom[i].parent = IF i = first THEN p ELSE x0.dom[i].parent
    BY <1>5 DEF Moved
  <2>4. i = first => \A j \in 2..(q + 1) : i # chain[j]
    BY <1>2, <1>3 DEF Apart
  <2>5. (\A k \in 1..(q + 1) : i # chain[k]) => i # first /\ \A j \in 2..(q + 1) : i # chain[j]
    BY <1>3
  <2> QED BY <2>1, <2>2, <2>3, <2>4, <2>5
<1>11. \A j \in 2..(q + 1) : x3.dom[chain[j]].parent = chain[j - 1]
  <2> SUFFICES ASSUME NEW j \in 2..(q + 1)
               PROVE  x3.dom[chain[j]].parent = chain[j - 1]
    OBVIOUS
  <2>1. x2.dom[chain[j]].parent = chain[j - 1]
    BY <1>7 DEF Chaining
  <2>2. chain[j] \in 1..r
    BY <1>3
  <2> QED BY <1>8, <1>9, <2>1, <2>2 DEF Same
<1> HIDE DEF r, q, n, h
<1>12. x3.dom[block].parent # block /\ id \in 1..Len(x3.dom) /\ block \in 1..Len(x3.dom) /\ block # id
  <2>1. id \in 1..Len(x3.dom) /\ block \in 1..Len(x3.dom) /\ block # id /\ block \in 1..r
    BY <1>0, <1>1, <1>9
  <2>2. CASE q = 0
    <3>1. first = block
      BY <1>2, <2>2
    <3> QED BY <1>1, <1>10, <2>1, <3>1
  <2>3. CASE q # 0
    <3>1. q \in 1..q /\ q + 1 \in 2..(q + 1) /\ (q + 1) - 1 = q
      BY <1>3, <2>3
    <3>2. x3.dom[block].parent = clones[q]
      BY <1>2, <1>11, <3>1
    <3> QED BY <1>3, <2>1, <3>1, <3>2
  <2> QED BY <2>1, <2>2, <2>3
<1>13. Shaped(x3) /\ x4 = Tree!GiveContent(x3, block)
  BY <1>9 DEF Rest, block
<1>14. /\ Rest(x3, x4) /\ Linked(x4.dom) /\ Len(x4.dom) = id
       /\ \A k \in 1..id :
               /\ x4.dom[k].name = x3.dom[k].name
               /\ x4.dom[k].parent = IF k = id THEN block
                                     ELSE IF x3.dom[k].parent = block THEN id ELSE x3.dom[k].parent
  <2> HIDE DEF id
  <2>1. /\ Rest(x3, x4) /\ Linked(x4.dom) /\ Len(x4.dom) = Len(x3.dom)
        /\ \A k \in 1..Len(x3.dom) :
               /\ x4.dom[k].name = x3.dom[k].name
               /\ x4.dom[k].parent = IF k = id THEN block
                                     ELSE IF x3.dom[k].parent = block THEN id ELSE x3.dom[k].parent
    <3>1. /\ Shaped(x3) /\ Linked(x3.dom) /\ id \in 1..Len(x3.dom) /\ id = Len(x3.dom)
          /\ block \in 1..Len(x3.dom) /\ block # id /\ x3.dom[block].parent # block
          /\ x3.dom[id].parent = 0 /\ x3.dom[id].kids = <<>> /\ x4 = Tree!GiveContent(x3, block)
      BY <1>9, <1>12, <1>13
    <3>2. CanGive(x3, id, block)
      BY <3>1 DEF CanGive
    <3>3. ContentIn(x3, x4, id, block)
      BY <3>1, <3>2, ContentGivenIn
    <3> QED BY <3>3 DEF ContentIn
  <2> QED BY <1>9, <2>1
<1>15. Rest(x0, x4) /\ IsSeq(x4.dom)
  BY <1>8, <1>9, <1>14 DEF Rest, Linked
<1> DEFINE e == x4.dom
<1> HIDE DEF e
<1>16. /\ \A k \in 1..r : /\ e[k].name = x0.dom[k].name
                          /\ e[k].parent = IF x3.dom[k].parent = block THEN id ELSE x3.dom[k].parent
       /\ e[id].name = name /\ e[id].parent = block /\ id \in (n + 1)..id
  <2>1. \A k \in 1..r : k \in 1..id /\ k # id
    BY <1>0
  <2>2. id \in 1..id /\ id \in (n + 1)..id
    BY <1>0
  <2>3. \A k \in 1..r : /\ e[k].name = x0.dom[k].name
                        /\ e[k].parent = IF x3.dom[k].parent = block THEN id ELSE x3.dom[k].parent
    <3> SUFFICES ASSUME NEW k \in 1..r
                 PROVE  /\ e[k].name = x0.dom[k].name
                        /\ e[k].parent = IF x3.dom[k].parent = block THEN id ELSE x3.dom[k].parent
      OBVIOUS
    <3> HIDE DEF id
    <3> QED BY <1>10, <1>14, <2>1 DEF e
  <2> HIDE DEF id
  <2> QED BY <1>9, <1>14, <2>2, <2>3 DEF e
<1>17. ASSUME NEW k \in 1..q
       PROVE  /\ e[clones[k]].name \in Formatting
              /\ k >= 2 => e[clones[k]].parent = clones[k - 1]
              /\ k = 1 => e[clones[k]].parent = p
  <2>0. clones[k] \in 1..r /\ chain[k] = clones[k]
    BY <1>0, <1>2, <1>3
  <2>1. e[clones[k]].name \in Formatting
    <3>1. x0.dom[clones[k]].name \in Formatting
      BY DEF ClonesOf, q
    <3> QED BY <1>16, <2>0, <3>1
  <2>2. ASSUME k >= 2 PROVE e[clones[k]].parent = clones[k - 1]
    <3>1. k \in 2..(q + 1) /\ k - 1 \in 1..q
      BY <1>3, <2>2
    <3>2. x3.dom[clones[k]].parent = clones[k - 1] /\ clones[k - 1] # block
      BY <1>2, <1>3, <1>11, <2>0, <3>1
    <3> QED BY <1>16, <2>0, <3>2
  <2>3. ASSUME k = 1 PROVE e[clones[k]].parent = p
    <3>1. x3.dom[clones[k]].parent = p
      BY <1>10, <2>0, <2>3
    <3> QED BY <1>1, <1>16, <2>0, <3>1
  <2> QED BY <2>1, <2>2, <2>3
<1>18. /\ q >= 1 => e[clones[1]].parent = p /\ e[block].parent = clones[q]
       /\ q = 0 => e[block].parent = p
  <2>0. block \in 1..r
    BY <1>0, <1>1
  <2>1. CASE q = 0
    <3>1. first = block
      BY <1>2, <2>1
    <3>2. x3.dom[block].parent = p
      BY <1>10, <2>0, <3>1
    <3> QED BY <1>1, <1>16, <2>0, <2>1, <3>2
  <2>2. CASE q # 0
    <3>1. q \in 1..q /\ q + 1 \in 2..(q + 1) /\ (q + 1) - 1 = q /\ 1 \in 1..q
      BY <1>3, <2>2
    <3>2. x3.dom[block].parent = clones[q] /\ clones[q] # block
      BY <1>2, <1>3, <1>11, <3>1
    <3>3. e[block].parent = clones[q]
      BY <1>16, <2>0, <3>2
    <3> QED BY <1>17, <2>2, <3>1, <3>3
  <2> QED BY <2>1, <2>2
<1>19. ASSUME NEW i \in 1..n
       PROVE  /\ e[i].name = d[i].name
              /\ i # block => e[i].parent = IF d[i].parent = block THEN id ELSE d[i].parent
  <2>0. i \in 1..r /\ x0.dom[i].name = d[i].name /\ x0.dom[i].parent = d[i].parent
    BY <1>0 DEF Same, n
  <2>1. ASSUME i # block PROVE x3.dom[i].parent = d[i].parent
    <3>1. ASSUME NEW k \in 1..(q + 1) PROVE i # chain[k]
      <4>1. CASE k = q + 1
        BY <1>2, <2>1, <4>1
      <4>2. CASE k # q + 1
        <5>1. k \in 1..q
          BY <1>3, <4>2
        <5>2. chain[k] = clones[k] /\ clones[k] \in (n + 1)..r
          BY <1>2, <1>3, <5>1
        <5> QED BY <1>0, <5>2
      <4> QED BY <4>1, <4>2
    <3> QED BY <1>10, <2>0, <3>1
  <2> QED BY <1>16, <2>0, <2>1
<1>20. /\ IsSeq(e) /\ Len(e) = id /\ id >= n
       /\ clones \in Seq((n + 1)..id) /\ Apart(clones) /\ ~In(id, clones)
  <2>1. IsSeq(e) /\ Len(e) = id
    BY <1>14, <1>15 DEF e
  <2>2. id >= n /\ (n + 1)..r \subseteq (n + 1)..id
    BY <1>0
  <2>3. clones \in Seq((n + 1)..r) /\ Apart(clones)
    BY DEF ClonesOf, n, r
  <2>4. clones \in Seq((n + 1)..id)
    <3> HIDE DEF id
    <3> QED BY <2>2, <2>3, SeqMonotonic
  <2>5. ~In(id, clones)
    <3>1. \A k \in 1..q : clones[k] # id
      BY <1>0, <1>3
    <3> QED BY <3>1 DEF In, q
  <2> QED BY <2>1, <2>2, <2>3, <2>4, <2>5
<1> HIDE DEF id
<1>21. Adopting(d, s, f, fb, e, clones, id, p)
  <2>1. Spot(d, s, f, p) /\ Adoptable(d, s, f, fb)
    OBVIOUS
  <2> QED BY <1>16, <1>17, <1>18, <1>19, <1>20, <2>1 DEF Adopting, n, q, block
<1> QED BY <1>14, <1>15, <1>16, <1>21 DEF e, id, r, HasAdopted

LEMMA AdoptBuilt ==
  ASSUME NEW b, Built(b), NEW f, NEW fb, Adoptable(b.dom, b.stack, f, fb),
         In(b.stack[f], b.afe), NEW c, c = Tree!Adopt(b, f, fb)
  PROVE  Built(c)
<1> DEFINE d == b.dom
           s == b.stack
           fmt == s[f]
           block == s[fb]
           between == (CHOOSE g : IsCloned(g, b, f, fb))[f + 1]
           x0 == between.b
           clones == between.clones
           chain == Append(clones, block)
           place == Tree!appropriate_place(x0, s[f - 1])
           p == place.parent
           pos == place.pos
           x1 == Tree!Attach(x0, p, pos, chain[1])
           x2 == Tree!Chained(x1, chain)
           name == Tree!Name(b, fmt)
           tag == d[fmt].tag
           held == <<>>
           x3 == Tree!NewNode(x2, name, tag, held)
           x4 == Tree!GiveContent(x3, block)
           adopted == Tree!Newest(x4)
           afe == Tree!AdoptedActive(x4.afe, between.bookmark, fmt, adopted)
           stack == Tree!AdoptedStack(x4.stack, f, fb, clones, adopted)
<1>1. c = [x4 EXCEPT !.afe = afe, !.stack = stack]
  BY Zenon DEF Tree!Adopt, IsCloned
<1>a. /\ IsSeq(d) /\ Open(d, s) /\ f \in 2..Len(s) /\ fb \in (f + 1)..Len(s)
      /\ d[s[f]].name \in Formatting
      /\ \A j \in (f + 1)..Len(s) : d[s[j]].name \notin Tree!DefaultScope
  BY DEF Adoptable
<1>0. /\ f \in 1..Len(s) /\ f - 1 \in 1..Len(s) /\ Len(s) \in Nat /\ (f - 1) + 1 = f /\ f \in Nat
      /\ \A i \in ((f - 1) + 1)..Len(s) : i = f \/ i \in (f + 1)..Len(s)
      /\ \A i \in 1..Len(s) : s[i] \in 1..Len(d)
  <2>1. Len(s) \in Nat /\ \A i \in 1..Len(s) : s[i] \in 1..Len(d)
    BY <1>a, OpenFacts
  <2> HIDE DEF s
  <2> QED BY <1>a, <2>1
<1> HIDE DEF between
<1>2. Cloning(b, f, between)
  <2>1. between = (CHOOSE g : IsCloned(g, b, f, fb))[f + 1]
    BY DEF between
  <2> QED BY <1>a, <1>0, <2>1, ClonesMade
<1>3. /\ Built(x0) /\ x0.stack = s /\ Same(d, x0.dom)
      /\ ClonesOf(d, x0.dom, clones) /\ In(between.bookmark, x0.afe)
  BY <1>2 DEF Cloning, ClonesOf
<1> HIDE DEF x0, clones
<1>4. \A i \in ((f - 1) + 1)..Len(x0.stack) : x0.dom[x0.stack[i]].name # "table"
  <2>1. ASSUME NEW i \in f..Len(s) PROVE x0.dom[s[i]].name # "table"
    <3>1. i = f \/ i \in (f + 1)..Len(s)
      BY <1>0
    <3>2. d[s[i]].name # "table"
      BY <1>a, <3>1 DEF Formatting, Tree!formatting_tags, Tree!DefaultScope
    <3>3. s[i] \in 1..Len(d)
      BY <1>0, <3>1
    <3> QED BY <1>3, <3>2, <3>3 DEF Same
  <2> QED BY <1>0, <1>3, <2>1
<1>5. PlaceOK(x0.dom, place) /\ Spot(x0.dom, s, f, p)
  <2> DEFINE j == f - 1
             target == s[j]
  <2>1. /\ j \in 1..Len(x0.stack) /\ place = Tree!appropriate_place(x0, x0.stack[j])
        /\ \A i \in (j + 1)..Len(x0.stack) : x0.dom[x0.stack[i]].name # "table"
    BY <1>0, <1>3, <1>4
  <2> HIDE DEF j, place
  <2>2. PlaceOK(x0.dom, place) /\ Spot(x0.dom, x0.stack, j + 1, place.parent)
    BY <1>3, <2>1, PlaceFor
  <2> QED BY <1>0, <1>3, <2>2 DEF j
<1> HIDE DEF place
<1>6. Spot(d, s, f, p)
  <2>1. \A j \in 1..(f - 1) : s[j] \in 1..Len(d)
    BY <1>0
  <2>1a. \A j \in 2..(f - 1) : j \in 1..(f - 1)
    OBVIOUS
  <2>2. /\ \A j \in 1..(f - 1) : d[s[j]].name = x0.dom[s[j]].name
        /\ \A j \in 2..(f - 1) : d[s[j]].parent = x0.dom[s[j]].parent
    <3>1. \A i \in 1..Len(d) : d[i].name = x0.dom[i].name /\ d[i].parent = x0.dom[i].parent
      BY <1>3 DEF Same
    <3> HIDE DEF d, s
    <3> QED BY <2>1, <2>1a, <3>1
  <2>3. \A j \in 1..(f - 1) : s[j] = s[j]
    OBVIOUS
  <2>4. f \in Nat /\ f >= 2
    BY <1>a, <1>0
  <2> HIDE DEF d, s, p
  <2> QED BY <1>5, <2>2, <2>3, <2>4, SpotKept
<1>7. pos \in Nat \ {0}
  <2> DEFINE kids == x0.dom[p].kids
  <2>1. p \in 1..Len(x0.dom) /\ pos \in 1..(Len(kids) + 1)
    BY <1>5 DEF PlaceOK
  <2>2. kids \in Seq(1..Len(x0.dom))
    BY <1>3, <2>1 DEF Built, Linked
  <2> HIDE DEF kids, pos
  <2>3. Len(kids) \in Nat
    BY <2>2, LenProperties
  <2> QED BY <2>1, <2>3
<1>8. name \in Formatting
  BY <1>a DEF Tree!Name
<1> HIDE DEF p, pos, name, tag, held
<1>9. /\ Rest(x0, x4) /\ Linked(x4.dom) /\ Len(x4.dom) = Len(x0.dom) + 1
      /\ \A k \in 1..Len(x0.dom) : x4.dom[k].name = x0.dom[k].name
      /\ Adopting(d, s, f, fb, x4.dom, clones, Len(x4.dom), p)
  <2>1. Shaped(x0) /\ Linked(x0.dom)
    BY <1>3 DEF Built
  <2>2. x4 = Adoption(x0, clones, s[fb], p, pos, name, tag)
    BY DEF Adoption, held
  <2>3. CanAdopt(d, s, f, fb, x0, clones, p, pos, name)
    BY <1>3, <1>6, <1>7, <1>8, <2>1 DEF CanAdopt
  <2> HIDE DEF d, s, x4, block
  <2>4. HasAdopted(d, s, f, fb, x0, clones, p, x4)
    BY <2>2, <2>3, AdoptTree
  <2> QED BY <2>4 DEF HasAdopted
<1> HIDE DEF chain, x1, x2, x3, x4
<1> DEFINE e == x4.dom
<1>10. /\ adopted = Len(e) /\ x4.stack = s /\ x4.afe = x0.afe /\ Shaped(x4)
       /\ x4.pending_table_characters = x0.pending_table_characters
  BY <1>3, <1>9 DEF Rest, Tree!Newest
<1> HIDE DEF adopted
<1>11. Open(e, stack)
  <2>1. Adopting(d, s, f, fb, e, clones, adopted, p) /\ stack = Tree!AdoptedStack(s, f, fb, clones, adopted)
    BY <1>9, <1>10
  <2> HIDE DEF d, s, e, stack
  <2> QED BY <2>1, AdoptedOpen
<1>12. /\ IsSeq(e) /\ adopted \in 1..Len(e) /\ e[adopted].name \in Formatting
       /\ Len(x0.dom) \in Nat /\ Len(e) = Len(x0.dom) + 1 /\ IsSeq(x0.dom)
  <2>1. IsSeq(e) /\ IsSeq(x0.dom)
    BY <1>3, <1>9 DEF Built, Linked
  <2>2. Len(x0.dom) \in Nat
    BY <2>1, SeqFacts
  <2>3. e[adopted].name \in Formatting
    BY <1>9, <1>10 DEF Adopting
  <2> HIDE DEF e
  <2>4. Len(e) = Len(x0.dom) + 1
    BY <1>9 DEF e
  <2> QED BY <1>10, <2>1, <2>2, <2>3, <2>4
<1>13. AfeOK(e, x0.afe)
  <2>1. x0.afe \in Seq(0..Len(x0.dom)) /\ \A k \in 1..Len(x0.afe) : x0.afe[k] # 0 => x0.dom[x0.afe[k]].name \in Formatting
    BY <1>3 DEF Built, AfeOK
  <2>2. 0..Len(x0.dom) \subseteq 0..Len(e)
    BY <1>12
  <2>3. x0.afe \in Seq(0..Len(e))
    <3> DEFINE S == 0..Len(x0.dom)
               T == 0..Len(e)
    <3>1. x0.afe \in Seq(S) /\ S \subseteq T
      BY <2>1, <2>2
    <3> HIDE DEF S, T
    <3>2. x0.afe \in Seq(T)
      BY <3>1, SeqMonotonic
    <3> QED BY <3>2 DEF T
  <2>4. ASSUME NEW k \in 1..Len(x0.afe), x0.afe[k] # 0 PROVE e[x0.afe[k]].name \in Formatting
    <3>1. x0.afe[k] \in 0..Len(x0.dom)
      BY <2>1, ElementOfSeq
    <3>2. x0.afe[k] \in 1..Len(x0.dom)
      BY <1>12, <2>4, <3>1
    <3> QED BY <1>9, <2>1, <2>4, <3>2
  <2> QED BY <2>3, <2>4 DEF AfeOK
<1>14. AfeOK(e, afe)
  <2>1. afe = Tree!AdoptedActive(x0.afe, between.bookmark, fmt, adopted)
    BY <1>10
  <2> HIDE DEF afe, e, fmt
  <2> QED BY <1>3, <1>12, <1>13, <2>1, AdoptedAfe
<1> HIDE DEF afe, stack
<1>15. /\ Shaped(c) /\ c.dom = e /\ c.stack = stack /\ c.afe = afe
       /\ c.pending_table_characters = x4.pending_table_characters
  BY <1>1, <1>10 DEF Shaped, Fields
<1>16. Linked(e) /\ 1 \in 1..Len(e) /\ IsSeq(x4.pending_table_characters)
  <2>1. 1 \in 1..Len(x0.dom) /\ IsSeq(x0.pending_table_characters)
    BY <1>3 DEF Built
  <2> QED BY <1>9, <1>10, <1>12, <2>1
<1> QED BY <1>11, <1>14, <1>15, <1>16 DEF Built

RoundFields == {"b", "over"}

LEMMA RoundBuilt ==
  ASSUME NEW acc, acc = [x \in RoundFields |-> acc[x]], Built(acc.b), NEW subject, NEW c,
         c = Tree!AdoptionRound(acc, subject)
  PROVE  c = [x \in RoundFields |-> c[x]] /\ Built(c.b)
<1> DEFINE b == acc.b
           s == b.stack
           d == b.dom
           fmt == Tree!find_element_by_name(b, subject)
           f == Tree!StackIndex(b, fmt)
           blocks == {k \in (f + 1)..Len(s) : Tree!Name(b, s[k]) \in Tree!special}
           Over(b1) == [b |-> b1, over |-> TRUE]
           removed == Tree!afe_remove(b, fmt)
           other == Tree!any_other_end_tag(b, subject)
           Good == c = [x \in RoundFields |-> c[x]] /\ Built(c.b)
<1>1. \/ acc.over /\ c = acc
      \/ fmt = 0 /\ c = Over(other)
      \/ fmt # 0 /\ ~Tree!IsOpen(b, fmt) /\ c = Over(Tree!NoResult(removed))
      \/ fmt # 0 /\ Tree!IsOpen(b, fmt) /\ ~Tree!is_uid_in_scope(b, fmt) /\ c = Over(Tree!NoResult(b))
      \/ fmt # 0 /\ Tree!IsOpen(b, fmt) /\ Tree!is_uid_in_scope(b, fmt) /\ blocks = {}
         /\ c = Over([removed EXCEPT !.stack = SubSeq(@, 1, f - 1), !.result = fmt])
      \/ fmt # 0 /\ Tree!IsOpen(b, fmt) /\ Tree!is_uid_in_scope(b, fmt) /\ blocks # {}
         /\ f = 1 /\ c = Over(Tree!NoResult(removed))
      \/ fmt # 0 /\ Tree!IsOpen(b, fmt) /\ Tree!is_uid_in_scope(b, fmt) /\ blocks # {}
         /\ f # 1 /\ c = [acc EXCEPT !.b = Tree!Adopt(b, f, Tree!Min(blocks))]
  BY DEF Tree!AdoptionRound
<1>2. ASSUME NEW b1, Built(b1), c = Over(b1) PROVE Good
  <2>1. c.b = b1 /\ c = [x \in RoundFields |-> c[x]]
    BY <1>2 DEF RoundFields
  <2> QED BY <1>2, <2>1
<1> HIDE DEF b, fmt, f, blocks
<1>0. Built(b)
  BY DEF b
<1>3. Built(other)
  BY <1>0, AnyOtherBuilt
<1>4. Built(removed) /\ Still(b, removed)
  BY <1>0, AfeRemoved
<1> HIDE DEF other, removed
<1>5. ASSUME NEW x, Built(x) PROVE Built(Tree!NoResult(x))
  BY <1>5, Plain
<1>6. ASSUME fmt # 0, Tree!IsOpen(b, fmt)
      PROVE  /\ f \in 1..Len(s) /\ s[f] = fmt /\ Len(s) \in Nat /\ DOMAIN s = 1..Len(s)
             /\ In(fmt, b.afe) /\ d[fmt].name \in Formatting
  <2>1. Len(s) \in Nat /\ DOMAIN s = 1..Len(s)
    BY <1>0, StackFacts
  <2>2. \E k \in 1..Len(s) : s[k] = fmt
    BY <1>6, <2>1 DEF Tree!IsOpen, Tree!Range
  <2>3. f \in 1..Len(s) /\ s[f] = fmt
    BY <2>1, <2>2 DEF Tree!StackIndex, f
  <2>4. In(fmt, b.afe) /\ d[fmt].name \in Formatting
    BY <1>0, <1>6, FoundByName DEF fmt
  <2> QED BY <2>1, <2>3, <2>4
<1>7. ASSUME fmt # 0, Tree!IsOpen(b, fmt),
             c = Over([removed EXCEPT !.stack = SubSeq(@, 1, f - 1), !.result = fmt])
      PROVE  Good
  <2> DEFINE b1 == [removed EXCEPT !.stack = SubSeq(@, 1, f - 1), !.result = fmt]
             n == f - 1
  <2>1. /\ SameTree(removed, b1) /\ b1.afe = removed.afe
        /\ b1.stack = SubSeq(removed.stack, 1, n)
    BY <1>4 DEF Still, SameTree, Shaped, Fields
  <2>2. n \in 0..Len(removed.stack)
    BY <1>4, <1>6, <1>7 DEF Still
  <2> HIDE DEF b1, n
  <2>3. Built(b1)
    <3>1. Closes(removed, b1)
      BY <2>1, <2>2 DEF Closes
    <3> QED BY <1>4, <3>1, BuiltCloses
  <2> QED BY <1>2, <1>7, <2>3 DEF b1
<1>8. ASSUME fmt # 0, Tree!IsOpen(b, fmt), Tree!is_uid_in_scope(b, fmt), blocks # {}, f # 1,
             c = [acc EXCEPT !.b = Tree!Adopt(b, f, Tree!Min(blocks))]
      PROVE  Good
  <2> DEFINE fb == Tree!Min(blocks)
             b1 == Tree!Adopt(b, f, fb)
  <2>0. /\ f \in 1..Len(s) /\ s[f] = fmt /\ Len(s) \in Nat /\ DOMAIN s = 1..Len(s)
        /\ In(fmt, b.afe) /\ d[fmt].name \in Formatting
    BY <1>6, <1>8
  <2>1. fb \in blocks /\ \A y \in blocks : fb =< y
    <3>1. blocks \in SUBSET Nat
      BY <2>0 DEF blocks
    <3> QED BY <1>8, <3>1, LeastOf
  <2> HIDE DEF fb
  <2>2. /\ f \in 2..Len(s) /\ fb \in (f + 1)..Len(s)
    BY <1>8, <2>0, <2>1 DEF blocks
  <2>3. \A j \in (f + 1)..Len(s) : d[s[j]].name \notin Tree!DefaultScope
    <3>1. \A j \in (f + 1)..Len(s) : Tree!Name(b, s[j]) \notin Tree!DefaultScope
      BY <1>8 DEF Tree!is_uid_in_scope, f
    <3> QED BY <3>1 DEF Tree!Name
  <2>4. \A j \in (f + 1)..(fb - 1) : d[s[j]].name \notin Tree!special
    <3>1. ASSUME NEW j \in (f + 1)..(fb - 1), Tree!Name(b, s[j]) \in Tree!special PROVE FALSE
      <4>1. j \in (f + 1)..Len(s) /\ ~(fb =< j)
        BY <2>0, <2>2
      <4>2. j \in blocks
        BY <3>1, <4>1 DEF blocks
      <4> QED BY <2>1, <4>1, <4>2
    <3> QED BY <3>1 DEF Tree!Name
  <2>5. Adoptable(d, s, f, fb)
    <3>1. IsSeq(d) /\ Open(d, s)
      BY <1>0 DEF Built, Linked
    <3> QED BY <2>0, <2>2, <2>3, <2>4, <3>1 DEF Adoptable
  <2>6. Built(b1)
    BY <1>0, <2>0, <2>5, AdoptBuilt
  <2>7. c = [acc EXCEPT !.b = b1]
    BY <1>8 DEF fb
  <2> HIDE DEF b1
  <2>8. c.b = b1 /\ c = [x \in RoundFields |-> c[x]]
    BY <2>7 DEF RoundFields
  <2> QED BY <2>6, <2>8
<1>9. ASSUME c = acc PROVE Good
  BY <1>9
<1>10. Good
  <2> HIDE DEF Good, Over
  <2>1. Built(Tree!NoResult(removed)) /\ Built(Tree!NoResult(b))
    BY <1>0, <1>4, <1>5
  <2> QED BY <1>1, <1>2, <1>3, <1>7, <1>8, <1>9, <2>1
<1> QED BY <1>10

IsRounds(f, b, subject, n) ==
    f = [k \in 0..n |-> IF k = 0 THEN [b |-> b, over |-> FALSE] ELSE Tree!AdoptionRound(f[k - 1], subject)]

\* Round after round.
LEMMA RoundsInTurn ==
  ASSUME NEW b, NEW subject, NEW n \in Nat
  PROVE  IsRounds(CHOOSE f : IsRounds(f, b, subject, n), b, subject, n)
<1> DEFINE Step(x, k) == Tree!AdoptionRound(x, subject)
           lo == 0
           m == n - 0
           start0 == [b |-> b, over |-> FALSE]
           Upto(k, g) == g[lo] = start0 /\ \A j \in (lo + 1)..(lo + k) : g[j] = Step(g[j - 1], j)
           S == {k \in 0..m : \E g : Upto(k, g)}
<1>0. lo \in Nat /\ m \in Nat /\ 0..n = lo..(lo + m)
  BY DEF lo, m
<1>a. ASSUME NEW f
      PROVE  IsRounds(f, b, subject, n) <=>
                 f = [k \in 0..n |-> IF k = lo THEN start0 ELSE Step(f[k - 1], k)]
  BY Zenon DEF IsRounds
<1> HIDE DEF lo, m, start0, Step
<1>1. 0 \in S
  <2>1. Upto(0, [k \in {lo} |-> start0])
    BY <1>0
  <2> HIDE DEF Upto
  <2> QED BY <1>0, <2>1
<1>2. ASSUME NEW k \in 0..(m - 1), k \in S PROVE k + 1 \in S
  <2>1. PICK g : Upto(k, g)
    BY <1>2
  <2> DEFINE h == [j \in lo..(lo + (k + 1)) |->
                      IF j = lo + (k + 1) THEN Step(g[lo + k], lo + (k + 1)) ELSE g[j]]
  <2>2. \A j \in lo..(lo + k) : h[j] = g[j]
    BY <1>0
  <2>3. h[lo + (k + 1)] = Step(g[lo + k], lo + (k + 1))
    BY <1>0
  <2> HIDE DEF h
  <2>4. Upto(k + 1, h)
    <3>1. h[lo] = start0
      BY <1>0, <2>1, <2>2
    <3>2. ASSUME NEW j \in (lo + 1)..(lo + (k + 1)) PROVE h[j] = Step(h[j - 1], j)
      <4>1. CASE j = lo + (k + 1)
        <5>1. j - 1 = lo + k /\ lo + k \in lo..(lo + k)
          BY <1>0, <4>1
        <5>2. h[j - 1] = g[lo + k]
          BY <2>2, <5>1
        <5> QED BY <2>3, <4>1, <5>2
      <4>2. CASE j # lo + (k + 1)
        <5>0. j \in lo..(lo + k) /\ j - 1 \in lo..(lo + k) /\ j \in (lo + 1)..(lo + k)
          BY <1>0, <4>2
        <5>1. h[j] = g[j] /\ h[j - 1] = g[j - 1]
          BY <2>2, <5>0
        <5>2. g[j] = Step(g[j - 1], j)
          BY <2>1, <5>0
        <5> QED BY <5>1, <5>2
      <4> QED BY <4>1, <4>2
    <3> QED BY <3>1, <3>2
  <2> HIDE DEF Upto
  <2>5. k + 1 \in 0..m
    BY <1>0
  <2> QED BY <2>4, <2>5
<1>3. m \in S
  <2> HIDE DEF S
  <2>1. 0..m \subseteq S
    BY <1>0, <1>1, <1>2, UpTo
  <2> QED BY <1>0, <2>1
<1>4. PICK g : Upto(m, g)
  BY <1>3
<1> DEFINE h == [k \in 0..n |-> IF k = lo THEN start0 ELSE Step(g[k - 1], k)]
<1>5. ASSUME NEW k \in 0..n PROVE h[k] = g[k]
  <2>1. CASE k = lo
    BY <1>4, <2>1
  <2>2. CASE k # lo
    <3>1. k \in (lo + 1)..(lo + m)
      BY <1>0, <2>2
    <3>2. g[k] = Step(g[k - 1], k)
      BY <1>4, <3>1
    <3> QED BY <2>2, <3>2
  <2> QED BY <2>1, <2>2
<1>6. IsRounds(h, b, subject, n)
  <2>1. ASSUME NEW k \in 0..n, k # lo PROVE h[k - 1] = g[k - 1]
    <3>1. k - 1 \in 0..n
      BY <1>0, <2>1
    <3> HIDE DEF h
    <3> QED BY <1>5, <3>1
  <2>2. h = [k \in 0..n |-> IF k = lo THEN start0 ELSE Step(h[k - 1], k)]
    <3> SUFFICES ASSUME NEW k \in 0..n
                 PROVE  (IF k = lo THEN start0 ELSE Step(g[k - 1], k))
                          = (IF k = lo THEN start0 ELSE Step(h[k - 1], k))
      OBVIOUS
    <3> HIDE DEF h
    <3>1. CASE k = lo
      BY <3>1
    <3>2. CASE k # lo
      BY <2>1, <3>2
    <3> QED BY <3>1, <3>2
  <2> HIDE DEF h
  <2> QED BY <1>a, <2>2
<1> QED BY <1>6

LEMMA AgencyBuilt ==
  ASSUME NEW b, Built(b), NEW subject, NEW c, c = Tree!adoption_agency(b, subject)
  PROVE  Built(c)
<1> DEFINE n == 8
           f == CHOOSE g : IsRounds(g, b, subject, n)
           Good(acc) == acc = [x \in RoundFields |-> acc[x]] /\ Built(acc.b)
           S == {k \in 0..n : Good(f[k])}
<1>1. IsRounds(f, b, subject, n)
  <2>1. n \in Nat
    OBVIOUS
  <2> HIDE DEF n
  <2> QED BY <2>1, RoundsInTurn
<1>2. Tree!AdoptionLoop(b, subject) = IF f[8].over THEN f[8].b ELSE Tree!NoResult(f[8].b)
  BY Zenon DEF Tree!AdoptionLoop, IsRounds
<1> HIDE DEF f
<1>3. f[0] = [b |-> b, over |-> FALSE] /\ \A k \in 1..n : f[k] = Tree!AdoptionRound(f[k - 1], subject)
  <2>1. n \in Nat
    OBVIOUS
  <2> DEFINE base == [b |-> b, over |-> FALSE]
  <2>2. f = [k \in 0..n |-> IF k = 0 THEN base ELSE Tree!AdoptionRound(f[k - 1], subject)]
    BY <1>1 DEF IsRounds
  <2> HIDE DEF n, base
  <2>3. f[0] = base /\ \A k \in 1..n : f[k] = Tree!AdoptionRound(f[k - 1], subject)
    BY <2>1, <2>2
  <2> QED BY <2>3 DEF base
<1>4. 0 \in S
  BY <1>3 DEF RoundFields
<1>5. ASSUME NEW k \in 0..(n - 1), k \in S PROVE k + 1 \in S
  <2> DEFINE x == f[k]
             y == f[k + 1]
  <2>1. k + 1 \in 1..n /\ (k + 1) - 1 = k /\ k + 1 \in 0..n
    OBVIOUS
  <2>2. Good(x) /\ y = Tree!AdoptionRound(x, subject)
    BY <1>3, <1>5, <2>1
  <2> HIDE DEF x, y
  <2>3. Good(y)
    BY <2>2, RoundBuilt
  <2> QED BY <2>1, <2>3 DEF y
<1>6. Good(f[8])
  <2>1. n \in Nat /\ n = 8
    OBVIOUS
  <2> HIDE DEF S, n
  <2>2. 0..n \subseteq S
    BY <1>4, <1>5, <2>1, UpTo
  <2>3. n \in S
    BY <2>1, <2>2
  <2> QED BY <2>1, <2>3 DEF S
<1>7. Built(Tree!AdoptionLoop(b, subject))
  <2> DEFINE x == f[8].b
  <2>1. Built(x)
    BY <1>6
  <2> HIDE DEF x
  <2>2. Built(Tree!NoResult(x))
    BY <2>1, Plain
  <2> QED BY <1>2, <2>1, <2>2 DEF x
<1>8. Built(Tree!pop(b))
  BY PopBuilt
<1> QED BY <1>7, <1>8 DEF Tree!adoption_agency

-----------------------------------------------------------------------------
(* Text that waited, and tables in tables.                                  *)

IsInserting(f, first, pending, n) ==
    f = [k \in 0..n |-> IF k = 0 THEN first ELSE Tree!insert_characters(f[k - 1], pending[k].held)]

\* One text after the other.
LEMMA InsertedInTurn ==
  ASSUME NEW first, NEW pending, NEW n \in Nat
  PROVE  IsInserting(CHOOSE f : IsInserting(f, first, pending, n), first, pending, n)
<1> DEFINE Step(x, k) == Tree!insert_characters(x, pending[k].held)
           lo == 0
           m == n - 0
           start0 == first
           Upto(k, g) == g[lo] = start0 /\ \A j \in (lo + 1)..(lo + k) : g[j] = Step(g[j - 1], j)
           S == {k \in 0..m : \E g : Upto(k, g)}
<1>0. lo \in Nat /\ m \in Nat /\ 0..n = lo..(lo + m)
  BY DEF lo, m
<1>a. ASSUME NEW f
      PROVE  IsInserting(f, first, pending, n) <=>
                 f = [k \in 0..n |-> IF k = lo THEN start0 ELSE Step(f[k - 1], k)]
  BY Zenon DEF IsInserting
<1> HIDE DEF lo, m, start0, Step
<1>1. 0 \in S
  <2>1. Upto(0, [k \in {lo} |-> start0])
    BY <1>0
  <2> HIDE DEF Upto
  <2> QED BY <1>0, <2>1
<1>2. ASSUME NEW k \in 0..(m - 1), k \in S PROVE k + 1 \in S
  <2>1. PICK g : Upto(k, g)
    BY <1>2
  <2> DEFINE h == [j \in lo..(lo + (k + 1)) |->
                      IF j = lo + (k + 1) THEN Step(g[lo + k], lo + (k + 1)) ELSE g[j]]
  <2>2. \A j \in lo..(lo + k) : h[j] = g[j]
    BY <1>0
  <2>3. h[lo + (k + 1)] = Step(g[lo + k], lo + (k + 1))
    BY <1>0
  <2> HIDE DEF h
  <2>4. Upto(k + 1, h)
    <3>1. h[lo] = start0
      BY <1>0, <2>1, <2>2
    <3>2. ASSUME NEW j \in (lo + 1)..(lo + (k + 1)) PROVE h[j] = Step(h[j - 1], j)
      <4>1. CASE j = lo + (k + 1)
        <5>1. j - 1 = lo + k /\ lo + k \in lo..(lo + k)
          BY <1>0, <4>1
        <5>2. h[j - 1] = g[lo + k]
          BY <2>2, <5>1
        <5> QED BY <2>3, <4>1, <5>2
      <4>2. CASE j # lo + (k + 1)
        <5>0. j \in lo..(lo + k) /\ j - 1 \in lo..(lo + k) /\ j \in (lo + 1)..(lo + k)
          BY <1>0, <4>2
        <5>1. h[j] = g[j] /\ h[j - 1] = g[j - 1]
          BY <2>2, <5>0
        <5>2. g[j] = Step(g[j - 1], j)
          BY <2>1, <5>0
        <5> QED BY <5>1, <5>2
      <4> QED BY <4>1, <4>2
    <3> QED BY <3>1, <3>2
  <2> HIDE DEF Upto
  <2>5. k + 1 \in 0..m
    BY <1>0
  <2> QED BY <2>4, <2>5
<1>3. m \in S
  <2> HIDE DEF S
  <2>1. 0..m \subseteq S
    BY <1>0, <1>1, <1>2, UpTo
  <2> QED BY <1>0, <2>1
<1>4. PICK g : Upto(m, g)
  BY <1>3
<1> DEFINE h == [k \in 0..n |-> IF k = lo THEN start0 ELSE Step(g[k - 1], k)]
<1>5. ASSUME NEW k \in 0..n PROVE h[k] = g[k]
  <2>1. CASE k = lo
    BY <1>4, <2>1
  <2>2. CASE k # lo
    <3>1. k \in (lo + 1)..(lo + m)
      BY <1>0, <2>2
    <3>2. g[k] = Step(g[k - 1], k)
      BY <1>4, <3>1
    <3> QED BY <2>2, <3>2
  <2> QED BY <2>1, <2>2
<1>6. IsInserting(h, first, pending, n)
  <2>1. ASSUME NEW k \in 0..n, k # lo PROVE h[k - 1] = g[k - 1]
    <3>1. k - 1 \in 0..n
      BY <1>0, <2>1
    <3> HIDE DEF h
    <3> QED BY <1>5, <3>1
  <2>2. h = [k \in 0..n |-> IF k = lo THEN start0 ELSE Step(h[k - 1], k)]
    <3> SUFFICES ASSUME NEW k \in 0..n
                 PROVE  (IF k = lo THEN start0 ELSE Step(g[k - 1], k))
                          = (IF k = lo THEN start0 ELSE Step(h[k - 1], k))
      OBVIOUS
    <3> HIDE DEF h
    <3>1. CASE k = lo
      BY <3>1
    <3>2. CASE k # lo
      BY <2>1, <3>2
    <3> QED BY <3>1, <3>2
  <2> HIDE DEF h
  <2> QED BY <1>a, <2>2
<1> QED BY <1>6

\* An element is on the stack only if it was before, and what is active stays so.
LEMMA FlushBuilt ==
  ASSUME NEW b, Built(b), NEW c, c = Tree!flush_table_text(b)
  PROVE  Built(c)
<1> DEFINE pending == b.pending_table_characters
           n == Len(pending)
           fostering == \E k \in DOMAIN pending : pending[k].nonspace
           first == [b EXCEPT !.pending_table_characters = <<>>, !.foster_parenting = fostering]
           f == CHOOSE g : IsInserting(g, first, pending, n)
           S == {k \in 0..n : Built(f[k])}
<1>0. n \in Nat
  BY SeqFacts DEF Built
<1>1. IsInserting(f, first, pending, n)
  <2> HIDE DEF n, pending, first
  <2> QED BY <1>0, InsertedInTurn
<1>2. c = IF b.mode # "InTableText" THEN b ELSE Tree!Fostered(f[n])
  BY Zenon DEF Tree!flush_table_text, IsInserting, Tree!Fostered
<1>3. Built(first)
  <2> DEFINE none == <<>>
  <2>1. IsSeq(none)
    BY DEF IsSeq
  <2>2. first = [b EXCEPT !.pending_table_characters = none, !.foster_parenting = fostering]
    OBVIOUS
  <2> HIDE DEF none, first, fostering
  <2>3. /\ Shaped(first) /\ first.dom = b.dom /\ first.stack = b.stack /\ first.afe = b.afe
        /\ first.pending_table_characters = none
    <3>1. Shaped(b)
      BY DEF Built
    <3> QED BY <2>2, <3>1 DEF Shaped, Fields
  <2> QED BY <2>1, <2>3 DEF Built
<1> HIDE DEF f, first
<1>4. f[0] = first /\ \A k \in 1..n : f[k] = Tree!insert_characters(f[k - 1], pending[k].held)
  <2> HIDE DEF n
  <2> QED BY <1>0, <1>1 DEF IsInserting
<1>5. 0 \in S
  <2>1. 0 \in 0..n
    BY <1>0
  <2> QED BY <1>3, <1>4, <2>1
<1>6. ASSUME NEW k \in 0..(n - 1), k \in S PROVE k + 1 \in S
  <2> DEFINE x == f[k]
             y == f[k + 1]
             held == pending[k + 1].held
  <2>1. k + 1 \in 1..n /\ (k + 1) - 1 = k /\ k + 1 \in 0..n
    BY <1>0
  <2>2. Built(x) /\ y = Tree!insert_characters(x, held)
    BY <1>4, <1>6, <2>1
  <2> HIDE DEF x, y, held
  <2>3. Built(y)
    BY <2>2, CharactersBuilt
  <2> QED BY <2>1, <2>3 DEF y
<1>7. Built(f[n])
  <2> HIDE DEF S, n
  <2>1. 0..n \subseteq S
    BY <1>0, <1>5, <1>6, UpTo
  <2>2. n \in S
    BY <1>0, <2>1
  <2> QED BY <2>2 DEF S
<1> DEFINE z == f[n]
<1> HIDE DEF z
<1>8. Built(z)
  BY <1>7 DEF z
<1>9. Built(Tree!Fostered(z))
  BY <1>8, Plain
<1> QED BY <1>2, <1>9 DEF z

EndedTable(b) ==
    IF b.mode \in Tree!table_modes /\ Tree!is_in_table_scope(b, "table")
    THEN Tree!reset(Tree!pop_all_up_to_names(b, {"table"}))
    ELSE b

LEMMA EndedTableBuilt ==
  ASSUME NEW b, Built(b), NEW c, c = EndedTable(b)
  PROVE  Built(c)
<1> DEFINE names == {"table"}
           x == Tree!pop_all_up_to_names(b, names)
<1>1. c = b \/ c = Tree!reset(x)
  BY DEF EndedTable
<1> HIDE DEF names
<1>2. Built(x)
  BY PopAllBuilt
<1> HIDE DEF x
<1>3. Built(Tree!reset(x))
  BY <1>2, Plain
<1> QED BY <1>1, <1>3

IsEnding(f, b, n) ==
    f = [k \in 0..n |-> IF k = 0 THEN b ELSE EndedTable(f[k - 1])]

\* Table after table is ended.
LEMMA EndedInTurn ==
  ASSUME NEW b, NEW n \in Nat
  PROVE  IsEnding(CHOOSE f : IsEnding(f, b, n), b, n)
<1> DEFINE Step(x, k) == EndedTable(x)
           lo == 0
           m == n - 0
           start0 == b
           Upto(k, g) == g[lo] = start0 /\ \A j \in (lo + 1)..(lo + k) : g[j] = Step(g[j - 1], j)
           S == {k \in 0..m : \E g : Upto(k, g)}
<1>0. lo \in Nat /\ m \in Nat /\ 0..n = lo..(lo + m)
  BY DEF lo, m
<1>a. ASSUME NEW f
      PROVE  IsEnding(f, b, n) <=>
                 f = [k \in 0..n |-> IF k = lo THEN start0 ELSE Step(f[k - 1], k)]
  BY Zenon DEF IsEnding
<1> HIDE DEF lo, m, start0, Step
<1>1. 0 \in S
  <2>1. Upto(0, [k \in {lo} |-> start0])
    BY <1>0
  <2> HIDE DEF Upto
  <2> QED BY <1>0, <2>1
<1>2. ASSUME NEW k \in 0..(m - 1), k \in S PROVE k + 1 \in S
  <2>1. PICK g : Upto(k, g)
    BY <1>2
  <2> DEFINE h == [j \in lo..(lo + (k + 1)) |->
                      IF j = lo + (k + 1) THEN Step(g[lo + k], lo + (k + 1)) ELSE g[j]]
  <2>2. \A j \in lo..(lo + k) : h[j] = g[j]
    BY <1>0
  <2>3. h[lo + (k + 1)] = Step(g[lo + k], lo + (k + 1))
    BY <1>0
  <2> HIDE DEF h
  <2>4. Upto(k + 1, h)
    <3>1. h[lo] = start0
      BY <1>0, <2>1, <2>2
    <3>2. ASSUME NEW j \in (lo + 1)..(lo + (k + 1)) PROVE h[j] = Step(h[j - 1], j)
      <4>1. CASE j = lo + (k + 1)
        <5>1. j - 1 = lo + k /\ lo + k \in lo..(lo + k)
          BY <1>0, <4>1
        <5>2. h[j - 1] = g[lo + k]
          BY <2>2, <5>1
        <5> QED BY <2>3, <4>1, <5>2
      <4>2. CASE j # lo + (k + 1)
        <5>0. j \in lo..(lo + k) /\ j - 1 \in lo..(lo + k) /\ j \in (lo + 1)..(lo + k)
          BY <1>0, <4>2
        <5>1. h[j] = g[j] /\ h[j - 1] = g[j - 1]
          BY <2>2, <5>0
        <5>2. g[j] = Step(g[j - 1], j)
          BY <2>1, <5>0
        <5> QED BY <5>1, <5>2
      <4> QED BY <4>1, <4>2
    <3> QED BY <3>1, <3>2
  <2> HIDE DEF Upto
  <2>5. k + 1 \in 0..m
    BY <1>0
  <2> QED BY <2>4, <2>5
<1>3. m \in S
  <2> HIDE DEF S
  <2>1. 0..m \subseteq S
    BY <1>0, <1>1, <1>2, UpTo
  <2> QED BY <1>0, <2>1
<1>4. PICK g : Upto(m, g)
  BY <1>3
<1> DEFINE h == [k \in 0..n |-> IF k = lo THEN start0 ELSE Step(g[k - 1], k)]
<1>5. ASSUME NEW k \in 0..n PROVE h[k] = g[k]
  <2>1. CASE k = lo
    BY <1>4, <2>1
  <2>2. CASE k # lo
    <3>1. k \in (lo + 1)..(lo + m)
      BY <1>0, <2>2
    <3>2. g[k] = Step(g[k - 1], k)
      BY <1>4, <3>1
    <3> QED BY <2>2, <3>2
  <2> QED BY <2>1, <2>2
<1>6. IsEnding(h, b, n)
  <2>1. ASSUME NEW k \in 0..n, k # lo PROVE h[k - 1] = g[k - 1]
    <3>1. k - 1 \in 0..n
      BY <1>0, <2>1
    <3> HIDE DEF h
    <3> QED BY <1>5, <3>1
  <2>2. h = [k \in 0..n |-> IF k = lo THEN start0 ELSE Step(h[k - 1], k)]
    <3> SUFFICES ASSUME NEW k \in 0..n
                 PROVE  (IF k = lo THEN start0 ELSE Step(g[k - 1], k))
                          = (IF k = lo THEN start0 ELSE Step(h[k - 1], k))
      OBVIOUS
    <3> HIDE DEF h
    <3>1. CASE k = lo
      BY <3>1
    <3>2. CASE k # lo
      BY <2>1, <3>2
    <3> QED BY <3>1, <3>2
  <2> HIDE DEF h
  <2> QED BY <1>a, <2>2
<1> QED BY <1>6

LEMMA AroundBuilt ==
  ASSUME NEW b, Built(b), NEW n \in Nat, NEW c, c = (CHOOSE g : IsEnding(g, b, n))[n]
  PROVE  Built(c)
<1> DEFINE f == CHOOSE g : IsEnding(g, b, n)
           S == {k \in 0..n : Built(f[k])}
<1>1. IsEnding(f, b, n)
  BY EndedInTurn
<1> HIDE DEF f
<1>2. f[0] = b /\ \A k \in 1..n : f[k] = EndedTable(f[k - 1])
  BY <1>1 DEF IsEnding
<1>3. 0 \in S
  BY <1>2
<1>4. ASSUME NEW k \in 0..(n - 1), k \in S PROVE k + 1 \in S
  <2> DEFINE x == f[k]
             y == f[k + 1]
  <2>1. k + 1 \in 1..n /\ (k + 1) - 1 = k /\ k + 1 \in 0..n
    OBVIOUS
  <2>2. Built(x) /\ y = EndedTable(x)
    BY <1>2, <1>4, <2>1
  <2> HIDE DEF x, y
  <2>3. Built(y)
    BY <2>2, EndedTableBuilt
  <2> QED BY <2>1, <2>3 DEF y
<1>5. n \in S
  <2> HIDE DEF S
  <2>1. 0..n \subseteq S
    BY <1>3, <1>4, UpTo
  <2> QED BY <2>1
<1> QED BY <1>5 DEF f

-----------------------------------------------------------------------------
(* The modes. *)

\* What is current has one of these names, if anything is.
Top(b, names) == b.stack # <<>> => b.dom[b.stack[Len(b.stack)]].name \in names
Free(name) == name \notin {"tbody", "tr"}

\* What is not a part of a table may come anywhere.
LEMMA FreeElement ==
  ASSUME NEW b, Built(b), NEW name, Free(name), NEW tag,
         NEW c, c = Tree!insert_element(b, name, tag)
  PROVE  Built(c) /\ Made1(b, c, name)
<1>1. b.stack # <<>> => Suits(name, b.dom[b.stack[Len(b.stack)]].name)
  BY DEF Suits, Free
<1> QED BY <1>1, ElementBuilt

\* An element that comes under what all is closed back to.
LEMMA PartOpened ==
  ASSUME NEW b, Built(b), NEW below, NEW mode, NEW name, NEW tag,
         Suits(name, below), Suits(name, "html"),
         NEW c, c = Tree!insert_element(Tree!switch_mode(Tree!ClearedTo(b, below), mode), name, tag)
  PROVE  Built(c)
<1> DEFINE names == {below, "html"}
           x == Tree!clear_stack_back(b, names)
           y == Tree!switch_mode(x, mode)
<1>1. c = Tree!insert_element(y, name, tag)
  BY DEF Tree!ClearedTo
<1>2. \A n \in names : Suits(name, n)
  OBVIOUS
<1> HIDE DEF names
<1>3. Built(x) /\ (x.stack # <<>> => x.dom[x.stack[Len(x.stack)]].name \in names)
  BY ClearBuilt
<1> HIDE DEF x
<1>4. Built(y) /\ Still(x, y)
  BY <1>3, Plain
<1> HIDE DEF y
<1>5. y.stack = x.stack /\ y.dom = x.dom
  BY <1>4 DEF Still, SameTree
<1>6. y.stack # <<>> => Suits(name, y.dom[y.stack[Len(y.stack)]].name)
  BY <1>2, <1>3, <1>5
<1> QED BY <1>1, <1>4, <1>6, ElementBuilt

\* A tag opens an element where the rules of a body say.
LEMMA InBodyStartBuilt ==
  ASSUME NEW b, Built(b), NEW name, NEW tag, NEW c, c = Tree!InBodyStart(b, name, tag)
  PROVE  Built(c)
<1> DEFINE held == <<tag>>
           item == Tree!ClosedByItem(b, name)
           ended == Tree!generate_implied_end_tags_and_pop(b, item)
           noP == Tree!close_p_in_button_scope(b)
           noItem == Tree!close_p_in_button_scope(ended)
           again == Tree!reconstruct_afe(b)
           mode == "InTable"
           inTable == Tree!switch_mode(noP, mode)
           made == Tree!insert_element(again, name, tag)
<1>1. \/ Free(name) /\ c = Tree!insert_element(b, name, tag)
      \/ c = Tree!insert_void(b, name, tag, held)
      \/ Free(name) /\ c = Tree!insert_element(noP, name, tag)
      \/ Free(name) /\ c = Tree!insert_element(noItem, name, tag)
      \/ name \in Formatting /\ c = Tree!afe_push(made)
      \/ Free(name) /\ c = Tree!insert_element(inTable, name, tag)
      \/ c = Tree!NoResult(b)
      \/ c = Tree!insert_void(again, name, tag, held)
      \/ Free(name) /\ c = made
  BY DEF Tree!InBodyStart, Free, Formatting, Tree!head_tags, Tree!void_tags,
     Tree!block_start_tags, Tree!list_item_tags, Tree!table_part_tags, Tree!formatting_tags
<1> HIDE DEF held, item, mode
<1>2. Built(ended)
  BY ImpliedPopBuilt
<1> HIDE DEF ended
<1>3. Built(noP) /\ Built(noItem) /\ Built(again)
  BY <1>2, ClosePBuilt, ReconstructBuilt
<1> HIDE DEF noP, noItem, again
<1>4. Built(inTable)
  BY <1>3, Plain
<1> HIDE DEF inTable, made
<1>5. ASSUME name \in Formatting, c = Tree!afe_push(made) PROVE Built(c)
  <2>1. Free(name)
    BY <1>5 DEF Formatting, Tree!formatting_tags, Free
  <2>2. Built(made) /\ Made1(again, made, name)
    BY <1>3, <2>1, FreeElement DEF made
  <2>3. made.result \in 1..Len(made.dom) /\ made.dom[made.result].name \in Formatting
    <3>1. Len(again.dom) \in Nat
      BY <1>3, AfeFacts
    <3> QED BY <1>5, <2>2, <3>1 DEF Made1
  <2> QED BY <1>5, <2>2, <2>3, PushBuilt
<1>6. Free(name) => Built(made)
  BY <1>3, FreeElement DEF made
<1>7. /\ Free(name) /\ c = Tree!insert_element(b, name, tag) => Built(c)
      /\ Free(name) /\ c = Tree!insert_element(noP, name, tag) => Built(c)
      /\ Free(name) /\ c = Tree!insert_element(noItem, name, tag) => Built(c)
      /\ Free(name) /\ c = Tree!insert_element(inTable, name, tag) => Built(c)
  BY <1>3, <1>4, FreeElement
<1>8. /\ c = Tree!insert_void(b, name, tag, held) => Built(c)
      /\ c = Tree!insert_void(again, name, tag, held) => Built(c)
      /\ c = Tree!NoResult(b) => Built(c)
  BY <1>3, VoidBuilt, Plain
<1> QED BY <1>1, <1>5, <1>6, <1>7, <1>8

\* A paragraph is ended, and made for that if there is none.
LEMMA EndOfParagraphBuilt ==
  ASSUME NEW b, Built(b), NEW c, c = Tree!EndOfParagraph(b)
  PROVE  Built(c)
<1> DEFINE p == "p"
           none == 0
           made == Tree!insert_element(b, p, none)
           shut == Tree!pop(made)
           x == IF Tree!is_in_button_scope(b, "p") THEN b ELSE shut
<1>1. c = Tree!generate_implied_end_tags_and_pop(x, p)
  BY DEF Tree!EndOfParagraph
<1>2. Free(p)
  BY DEF Free
<1>3. x = b \/ x = shut
  OBVIOUS
<1> HIDE DEF p, none, x
<1>4. Built(made)
  BY <1>2, FreeElement
<1> HIDE DEF made
<1>5. Built(shut)
  BY <1>4, PopBuilt
<1> HIDE DEF shut
<1>6. Built(x)
  BY <1>3, <1>5
<1> QED BY <1>1, <1>6, ImpliedPopBuilt

LEMMA InBodyEndBuilt ==
  ASSUME NEW b, Built(b), NEW name, NEW c, c = Tree!InBodyEnd(b, name)
  PROVE  Built(c)
<1>1. \/ c = Tree!generate_implied_end_tags_and_pop(b, name)
      \/ c = Tree!NoResult(b)
      \/ c = Tree!EndOfParagraph(b)
      \/ c = Tree!adoption_agency(b, name)
      \/ c = Tree!any_other_end_tag(b, name)
  BY DEF Tree!InBodyEnd, Tree!block_start_tags, Tree!list_item_tags, Tree!formatting_tags
<1>2. Tree!NoResult(b) = c => Built(c)
  BY Plain
<1> QED BY <1>1, <1>2, ImpliedPopBuilt, EndOfParagraphBuilt, AgencyBuilt, AnyOtherBuilt

LEMMA InBodyCharactersBuilt ==
  ASSUME NEW b, Built(b), NEW text, NEW c, c = Tree!InBodyCharacters(b, text)
  PROVE  Built(c)
<1> DEFINE again == Tree!reconstruct_afe(b)
           held == text.held
<1>1. c = Tree!insert_characters(again, held)
  BY DEF Tree!InBodyCharacters
<1> HIDE DEF held
<1>2. Built(again)
  BY ReconstructBuilt
<1> HIDE DEF again
<1> QED BY <1>1, <1>2, CharactersBuilt

\* The rules of a body, whatever the mode.
LEMMA BodyRulesBuilt ==
  ASSUME NEW b, Built(b), NEW name, NEW tag, NEW c,
         \/ c = Tree!BodyRulesStart(b, name, tag) \/ c = Tree!BodyRulesEnd(b, name)
         \/ c = Tree!Fostered(Tree!InBodyCharacters(Tree!Fostering(b), tag))
  PROVE  Built(c)
<1> DEFINE x == Tree!Fostering(b)
           y1 == Tree!InBodyStart(x, name, tag)
           y2 == Tree!InBodyEnd(x, name)
           y3 == Tree!InBodyCharacters(x, tag)
<1>1. c = Tree!Fostered(y1) \/ c = Tree!Fostered(y2) \/ c = Tree!Fostered(y3)
  BY DEF Tree!BodyRulesStart, Tree!BodyRulesEnd
<1>2. Built(x)
  BY Plain
<1> HIDE DEF x
<1>3. Built(y1) /\ Built(y2) /\ Built(y3)
  BY <1>2, InBodyStartBuilt, InBodyEndBuilt, InBodyCharactersBuilt
<1> HIDE DEF y1, y2, y3
<1> QED BY <1>1, <1>3, Plain

LEMMA CellInRowBuilt ==
  ASSUME NEW b, Built(b), NEW tag, NEW c, c = Tree!CellInRow(b, tag)
  PROVE  Built(c)
<1> DEFINE below == "tr"
           mode == "InCell"
           name == "td"
           x == Tree!insert_element(Tree!switch_mode(Tree!ClearedTo(b, below), mode), name, tag)
<1>1. c = Tree!insert_marker(x)
  BY DEF Tree!CellInRow
<1>2. Suits(name, below) /\ Suits(name, "html")
  BY DEF Suits
<1> HIDE DEF below, mode, name
<1>3. Built(x)
  BY <1>2, PartOpened
<1> HIDE DEF x
<1> QED BY <1>1, <1>3, MarkerBuilt

LEMMA PartInBodyBuilt ==
  ASSUME NEW b, Built(b), NEW name, NEW tag, NEW c, c = Tree!PartInBody(b, name, tag)
  PROVE  Built(c)
<1> DEFINE below == "tbody"
           mode == "InRow"
           part == "tr"
           none == 0
           Row(row) == Tree!insert_element(Tree!switch_mode(Tree!ClearedTo(b, below), mode), part, row)
           x == Row(tag)
           y == Row(none)
<1>1. c = x \/ c = Tree!CellInRow(y, tag)
  BY DEF Tree!PartInBody
<1>2. Suits(part, below) /\ Suits(part, "html")
  BY DEF Suits
<1> HIDE DEF below, mode, part, none
<1>3. Built(x) /\ Built(y)
  BY <1>2, PartOpened
<1> HIDE DEF x, y
<1> QED BY <1>1, <1>3, CellInRowBuilt

\* The tables that a table is not in are ended before it.
LEMMA TableInTableBuilt ==
  ASSUME NEW b, Built(b), NEW tag, NEW c, c = Tree!TableInTable(b, tag)
  PROVE  Built(c)
<1> DEFINE n == Len(b.stack)
           name == "table"
           x == (CHOOSE g : IsEnding(g, b, n))[n]
<1>1. c = Tree!NoResult(x) \/ c = Tree!BodyRulesStart(x, name, tag)
  BY Zenon DEF Tree!TableInTable, IsEnding, EndedTable
<1>2. n \in Nat
  BY StackFacts
<1> HIDE DEF n, name
<1>3. Built(x)
  BY <1>2, AroundBuilt
<1> HIDE DEF x
<1> QED BY <1>1, <1>3, Plain, BodyRulesBuilt

LEMMA TableStartBuilt ==
  ASSUME NEW b, Built(b), NEW name, NEW tag, NEW c, c = Tree!TableStart(b, name, tag)
  PROVE  Built(c)
<1> DEFINE below == "table"
           caption == "InCaption"
           body == "InTableBody"
           part == "tbody"
           none == 0
           Part(x, mode, n, t) ==
               Tree!insert_element(Tree!switch_mode(Tree!ClearedTo(x, below), mode), n, t)
           marked == Tree!insert_marker(b)
           opened == Part(b, body, part, none)
<1>1. \/ name = "caption" /\ c = Part(marked, caption, name, tag)
      \/ name = "tbody" /\ c = Part(b, body, name, tag)
      \/ c = Tree!PartInBody(opened, name, tag)
      \/ c = Tree!TableInTable(b, tag)
      \/ Free(name) /\ c = Tree!insert_element(b, name, tag)
  BY DEF Tree!TableStart, Free
<1>2. /\ name \in {"caption", "tbody"} => Suits(name, below) /\ Suits(name, "html")
      /\ Suits(part, below) /\ Suits(part, "html")
  BY DEF Suits
<1> HIDE DEF below, caption, body, part, none
<1>3. Built(marked)
  BY MarkerBuilt
<1> HIDE DEF marked
<1>4. Built(opened)
  BY <1>2, PartOpened
<1> HIDE DEF opened
<1>5. ASSUME name = "caption", c = Part(marked, caption, name, tag) PROVE Built(c)
  BY <1>2, <1>3, <1>5, PartOpened
<1>6. ASSUME name = "tbody", c = Part(b, body, name, tag) PROVE Built(c)
  BY <1>2, <1>6, PartOpened
<1> HIDE DEF Part
<1> QED BY <1>1, <1>4, <1>5, <1>6, PartInBodyBuilt, TableInTableBuilt, FreeElement

\* What is open in a caption is closed with it.
LEMMA CaptionStartBuilt ==
  ASSUME NEW b, Built(b), NEW name, NEW tag, NEW c, c = Tree!CaptionStart(b, name, tag)
  PROVE  Built(c)
<1> DEFINE names == {"caption"}
           mode == "InTable"
           x == Tree!pop_all_up_to_names(b, names)
           y == Tree!clear_to_marker(x)
           z == Tree!switch_mode(y, mode)
<1>1. c = Tree!NoResult(b) \/ c = Tree!TableStart(z, name, tag)
  BY DEF Tree!CaptionStart
<1> HIDE DEF names, mode
<1>2. Built(x)
  BY PopAllBuilt
<1> HIDE DEF x
<1>3. Built(y)
  BY <1>2, ClearMarkerBuilt
<1> HIDE DEF y
<1>4. Built(z)
  BY <1>3, Plain
<1> HIDE DEF z
<1> QED BY <1>1, <1>4, Plain, TableStartBuilt

\* All is closed back to a part of a table, and that too.
LEMMA PartClosed ==
  ASSUME NEW b, Built(b), NEW below, NEW mode,
         NEW c, c = Tree!switch_mode(Tree!pop(Tree!ClearedTo(b, below)), mode)
  PROVE  Built(c)
<1> DEFINE names == {below, "html"}
           x == Tree!clear_stack_back(b, names)
           y == Tree!pop(x)
<1>1. c = Tree!switch_mode(y, mode)
  BY DEF Tree!ClearedTo
<1> HIDE DEF names
<1>2. Built(x)
  BY ClearBuilt
<1> HIDE DEF x
<1>3. Built(y)
  BY <1>2, PopBuilt
<1> HIDE DEF y
<1> QED BY <1>1, <1>3, Plain

LEMMA TableBodyStartBuilt ==
  ASSUME NEW b, Built(b), NEW name, NEW tag, NEW c, c = Tree!TableBodyStart(b, name, tag)
  PROVE  Built(c)
<1> DEFINE below == "tbody"
           mode == "InTable"
           x == Tree!switch_mode(Tree!pop(Tree!ClearedTo(b, below)), mode)
<1>1. c = Tree!PartInBody(b, name, tag) \/ c = Tree!TableStart(x, name, tag) \/ c = Tree!NoResult(b)
  BY DEF Tree!TableBodyStart
<1> HIDE DEF below, mode
<1>2. Built(x)
  BY PartClosed
<1> HIDE DEF x
<1> QED BY <1>1, <1>2, Plain, PartInBodyBuilt, TableStartBuilt

LEMMA RowStartBuilt ==
  ASSUME NEW b, Built(b), NEW name, NEW tag, NEW c, c = Tree!RowStart(b, name, tag)
  PROVE  Built(c)
<1> DEFINE below == "tr"
           mode == "InTableBody"
           x == Tree!switch_mode(Tree!pop(Tree!ClearedTo(b, below)), mode)
<1>1. c = Tree!CellInRow(b, tag) \/ c = Tree!TableBodyStart(x, name, tag) \/ c = Tree!NoResult(b)
  BY DEF Tree!RowStart
<1> HIDE DEF below, mode
<1>2. Built(x)
  BY PartClosed
<1> HIDE DEF x
<1> QED BY <1>1, <1>2, Plain, CellInRowBuilt, TableBodyStartBuilt

\* What was active in a cell is active no longer.
LEMMA CloseCellBuilt ==
  ASSUME NEW b, Built(b), NEW c, c = Tree!close_the_cell(b)
  PROVE  Built(c)
<1> DEFINE none == "none"
           mode == "InRow"
           x == Tree!generate_implied_end_tags(b, none)
           y == Tree!clear_to_marker(x)
<1>1. c = Tree!switch_mode(y, mode)
  BY DEF Tree!close_the_cell
<1> HIDE DEF none, mode
<1>2. Built(x)
  BY ImpliedBuilt
<1> HIDE DEF x
<1>3. Built(y)
  BY <1>2, ClearMarkerBuilt
<1> HIDE DEF y
<1> QED BY <1>1, <1>3, Plain

LEMMA CellStartBuilt ==
  ASSUME NEW b, Built(b), NEW name, NEW tag, NEW c, c = Tree!CellStart(b, name, tag)
  PROVE  Built(c)
<1> DEFINE x == Tree!close_the_cell(b)
<1>1. c = Tree!NoResult(b) \/ c = Tree!RowStart(x, name, tag)
  BY DEF Tree!CellStart
<1>2. Built(x)
  BY CloseCellBuilt
<1> HIDE DEF x
<1> QED BY <1>1, <1>2, Plain, RowStartBuilt

LEMMA ResumedBuilt ==
  ASSUME NEW b, Built(b), NEW c, c = Tree!Resumed(b)
  PROVE  Built(c)
<1> DEFINE x == Tree!flush_table_text(b)
<1>1. c = b \/ c = Tree!restore_mode(x)
  BY DEF Tree!Resumed
<1>2. Built(x)
  BY FlushBuilt
<1> HIDE DEF x
<1> QED BY <1>1, <1>2, Plain

\* The dispatcher, for a start tag.
LEMMA StartTagBuilt ==
  ASSUME NEW b, Built(b), NEW name, NEW tag, NEW c, c = Tree!start_tag(b, name, tag)
  PROVE  Built(c)
<1> DEFINE x == Tree!Resumed(b)
<1>1. \/ c = Tree!BodyRulesStart(x, name, tag) \/ c = Tree!CaptionStart(x, name, tag)
      \/ c = Tree!CellStart(x, name, tag) \/ c = Tree!TableBodyStart(x, name, tag)
      \/ c = Tree!RowStart(x, name, tag) \/ c = Tree!TableStart(x, name, tag)
  BY DEF Tree!start_tag
<1>2. Built(x)
  BY ResumedBuilt
<1> HIDE DEF x
<1> QED BY <1>1, <1>2, BodyRulesBuilt, CaptionStartBuilt, CellStartBuilt, TableBodyStartBuilt,
           RowStartBuilt, TableStartBuilt

LEMMA TableEndBuilt ==
  ASSUME NEW b, Built(b), NEW name, NEW c, c = Tree!TableEnd(b, name)
  PROVE  Built(c)
<1> DEFINE names == {"table"}
           x == Tree!pop_all_up_to_names(b, names)
<1>1. c = Tree!NoResult(b) \/ c = Tree!reset(x)
  BY DEF Tree!TableEnd
<1> HIDE DEF names
<1>2. Built(x)
  BY PopAllBuilt
<1> HIDE DEF x
<1> QED BY <1>1, <1>2, Plain

\* A caption or a cell is ended with what was active in it.
LEMMA MarkedEnded ==
  ASSUME NEW b, Built(b), NEW except, NEW names, NEW mode, NEW c,
         c = Tree!switch_mode(
                 Tree!clear_to_marker(
                     Tree!pop_all_up_to_names(Tree!generate_implied_end_tags(b, except), names)),
                 mode)
  PROVE  Built(c)
<1> DEFINE x == Tree!generate_implied_end_tags(b, except)
           y == Tree!pop_all_up_to_names(x, names)
           z == Tree!clear_to_marker(y)
<1>1. c = Tree!switch_mode(z, mode)
  OBVIOUS
<1>2. Built(x)
  BY ImpliedBuilt
<1> HIDE DEF x
<1>3. Built(y)
  BY <1>2, PopAllBuilt
<1> HIDE DEF y
<1>4. Built(z)
  BY <1>3, ClearMarkerBuilt
<1> HIDE DEF z
<1> QED BY <1>1, <1>4, Plain

LEMMA CaptionEndBuilt ==
  ASSUME NEW b, Built(b), NEW name, NEW c, c = Tree!CaptionEnd(b, name)
  PROVE  Built(c)
<1> DEFINE none == "none"
           names == {"caption"}
           mode == "InTable"
           x == Tree!switch_mode(
                    Tree!clear_to_marker(
                        Tree!pop_all_up_to_names(Tree!generate_implied_end_tags(b, none), names)),
                    mode)
<1>1. c = Tree!NoResult(b) \/ c = x \/ c = Tree!TableEnd(x, name)
  BY DEF Tree!CaptionEnd
<1> HIDE DEF none, names, mode
<1>2. Built(x)
  BY MarkedEnded
<1> HIDE DEF x
<1> QED BY <1>1, <1>2, Plain, TableEndBuilt

LEMMA TableBodyEndBuilt ==
  ASSUME NEW b, Built(b), NEW name, NEW c, c = Tree!TableBodyEnd(b, name)
  PROVE  Built(c)
<1> DEFINE below == "tbody"
           mode == "InTable"
           x == Tree!switch_mode(Tree!pop(Tree!ClearedTo(b, below)), mode)
<1>1. c = x \/ c = Tree!NoResult(b) \/ c = Tree!TableEnd(b, name)
  BY DEF Tree!TableBodyEnd
<1> HIDE DEF below, mode
<1>2. Built(x)
  BY PartClosed
<1> HIDE DEF x
<1> QED BY <1>1, <1>2, Plain, TableEndBuilt

LEMMA RowEndBuilt ==
  ASSUME NEW b, Built(b), NEW name, NEW c, c = Tree!RowEnd(b, name)
  PROVE  Built(c)
<1> DEFINE below == "tr"
           mode == "InTableBody"
           x == Tree!switch_mode(Tree!pop(Tree!ClearedTo(b, below)), mode)
<1>1. c = x \/ c = Tree!TableBodyEnd(x, name) \/ c = Tree!NoResult(b)
  BY DEF Tree!RowEnd
<1> HIDE DEF below, mode
<1>2. Built(x)
  BY PartClosed
<1> HIDE DEF x
<1> QED BY <1>1, <1>2, Plain, TableBodyEndBuilt

LEMMA CellEndBuilt ==
  ASSUME NEW b, Built(b), NEW name, NEW c, c = Tree!CellEnd(b, name)
  PROVE  Built(c)
<1> DEFINE none == "none"
           names == {name}
           mode == "InRow"
           x == Tree!switch_mode(
                    Tree!clear_to_marker(
                        Tree!pop_all_up_to_names(Tree!generate_implied_end_tags(b, none), names)),
                    mode)
           y == Tree!close_the_cell(b)
<1>1. c = Tree!NoResult(b) \/ c = x \/ c = Tree!RowEnd(y, name)
  BY DEF Tree!CellEnd
<1> HIDE DEF none, names, mode
<1>2. Built(x) /\ Built(y)
  BY MarkedEnded, CloseCellBuilt
<1> HIDE DEF x, y
<1> QED BY <1>1, <1>2, Plain, RowEndBuilt

\* The dispatcher, for an end tag.
LEMMA EndTagBuilt ==
  ASSUME NEW b, Built(b), NEW name, NEW c, c = Tree!end_tag(b, name)
  PROVE  Built(c)
<1> DEFINE x == Tree!Resumed(b)
           none == 0
<1>1. \/ c = Tree!BodyRulesEnd(x, name) \/ c = Tree!CaptionEnd(x, name)
      \/ c = Tree!CellEnd(x, name) \/ c = Tree!TableBodyEnd(x, name)
      \/ c = Tree!RowEnd(x, name) \/ c = Tree!TableEnd(x, name)
  BY DEF Tree!end_tag
<1>2. Built(x)
  BY ResumedBuilt
<1> HIDE DEF x, none
<1>3. c = Tree!BodyRulesEnd(x, name) => Built(c)
  <2>1. ASSUME c = Tree!BodyRulesEnd(x, name) PROVE Built(c)
    <3>1. \/ c = Tree!BodyRulesStart(x, name, none) \/ c = Tree!BodyRulesEnd(x, name)
          \/ c = Tree!Fostered(Tree!InBodyCharacters(Tree!Fostering(x), none))
      BY <2>1
    <3> QED BY <1>2, <3>1, BodyRulesBuilt
  <2> QED BY <2>1
<1> QED BY <1>1, <1>2, <1>3, CaptionEndBuilt, CellEndBuilt, TableBodyEndBuilt, RowEndBuilt,
           TableEndBuilt

\* Text is given to the builder, or waits.
LEMMA TextBuilt ==
  ASSUME NEW b, Built(b), NEW text, NEW c, c = Tree!characters(b, text)
  PROVE  Built(c)
<1> DEFINE mode == "InTableText"
           name == "none"
           Waits(x) == [x EXCEPT !.pending_table_characters = Append(@, text)]
           s == Tree!switch_and_save(b, mode)
<1>1. \/ c = Waits(b) \/ c = Waits(s)
      \/ c = Tree!Fostered(Tree!InBodyCharacters(Tree!Fostering(b), text))
  BY DEF Tree!characters
<1> HIDE DEF mode, name
<1>2. Built(s)
  BY Plain
<1> HIDE DEF s
<1>3. ASSUME NEW x, Built(x), c = Waits(x) PROVE Built(c)
  <2> DEFINE p == x.pending_table_characters
             q == c.pending_table_characters
  <2>1. /\ Shaped(c) /\ c.dom = x.dom /\ c.stack = x.stack /\ c.afe = x.afe
        /\ q = Append(p, text)
    <3>1. Shaped(x)
      BY <1>3 DEF Built
    <3> QED BY <1>3, <3>1 DEF Shaped, Fields
  <2>2. IsSeq(p)
    BY <1>3 DEF Built
  <2> HIDE DEF p, q
  <2>3. IsSeq(q)
    BY <2>1, <2>2, SeqAppend
  <2> QED BY <1>3, <2>1, <2>3 DEF Built, q
<1>4. ASSUME c = Tree!Fostered(Tree!InBodyCharacters(Tree!Fostering(b), text)) PROVE Built(c)
  <2>1. \/ c = Tree!BodyRulesStart(b, name, text) \/ c = Tree!BodyRulesEnd(b, name)
        \/ c = Tree!Fostered(Tree!InBodyCharacters(Tree!Fostering(b), text))
    BY <1>4
  <2> QED BY <2>1, BodyRulesBuilt
<1> HIDE DEF Waits
<1> QED BY <1>1, <1>2, <1>3, <1>4

LEMMA DocumentEnded ==
  ASSUME NEW b, Built(b), NEW c, c = Tree!end_document(b)
  PROVE  Built(c)
<1> DEFINE x == Tree!flush_table_text(b)
           y == Tree!restore_mode(x)
           none == <<>>
<1>1. c = [y EXCEPT !.stack = none]
  BY DEF Tree!end_document
<1>2. Built(x)
  BY FlushBuilt
<1> HIDE DEF x
<1>3. Built(y)
  BY <1>2, Plain
<1> HIDE DEF y
<1>4. Shaped(y) /\ 0 \in 0..Len(y.stack) /\ SubSeq(y.stack, 1, 0) = none
  BY <1>3, StackFacts
<1> HIDE DEF none
<1>5. Closes(y, c)
  BY <1>1, <1>4 DEF Closes, SameTree, Shaped, Fields
<1> QED BY <1>3, <1>5, BuiltCloses

-----------------------------------------------------------------------------
(* The tokens. *)

LEMMA MetaBuilt ==
  ASSUME NEW b, Built(b), NEW held, NEW c, c = Tree!insert_unfostered_meta(b, held)
  PROVE  Built(c)
<1> DEFINE x == Tree!flush_table_text(b)
           name == "meta"
           none == 0
<1>1. c = Tree!insert_void(x, name, none, held)
  BY DEF Tree!insert_unfostered_meta
<1>2. Built(x)
  BY FlushBuilt
<1> HIDE DEF x, name, none
<1> QED BY <1>1, <1>2, VoidBuilt

LEMMA PlaceholderBuilt ==
  ASSUME NEW b, Built(b), NEW token, NEW is_start, NEW c,
         c = Tree!insert_placeholder_meta(b, token, is_start)
  PROVE  Built(c)
<1> DEFINE none == <<>>
<1>1. c = b \/ c = Tree!insert_unfostered_meta(b, none)
  BY DEF Tree!insert_placeholder_meta
<1> HIDE DEF none
<1> QED BY <1>1, MetaBuilt

\* What was text before a token is given to the builder.
LEMMA FlushTextBuilt ==
  ASSUME NEW b, Built(b), NEW c, c = Tree!flush_text(b)
  PROVE  Built(c)
<1> DEFINE none == <<>>
           text == text_buffer
           x == Tree!characters(b, text)
<1>1. c = b \/ c = x \/ c = Tree!insert_unfostered_meta(x, none)
  BY DEF Tree!flush_text
<1> HIDE DEF none, text
<1>2. Built(x)
  BY TextBuilt
<1> HIDE DEF x
<1> QED BY <1>1, <1>2, MetaBuilt

LEMMA OnStartTagBuilt ==
  ASSUME NEW b, Built(b), NEW token, NEW c, c = Tree!OnStartTag(b, token)
  PROVE  Built(c)
<1> DEFINE name == token.name
           at == token.at
           x == Tree!start_tag(b, name, at)
           text == [held |-> <<token.at>>, nonspace |-> TRUE]
           start == TRUE
<1>1. c = x \/ c = Tree!characters(x, text) \/ c = Tree!insert_placeholder_meta(x, token, start)
  BY DEF Tree!OnStartTag, Tree!Started
<1> HIDE DEF name, at, text, start
<1>2. Built(x)
  BY StartTagBuilt
<1> HIDE DEF x
<1> QED BY <1>1, <1>2, TextBuilt, PlaceholderBuilt

LEMMA OnEndTagBuilt ==
  ASSUME NEW b, Built(b), NEW token, NEW c, c = Tree!OnEndTag(b, token)
  PROVE  Built(c)
<1> DEFINE name == token.name
           x == Tree!end_tag(b, name)
           start == FALSE
<1>1. c = x \/ c = Tree!insert_placeholder_meta(x, token, start)
  BY DEF Tree!OnEndTag, Tree!Ended
<1> HIDE DEF name, start
<1>2. Built(x)
  BY EndTagBuilt
<1> HIDE DEF x
<1> QED BY <1>1, <1>2, PlaceholderBuilt

LEMMA OnSelfclosingBuilt ==
  ASSUME NEW b, Built(b), NEW token, NEW c, c = Tree!OnSelfclosing(b, token)
  PROVE  Built(c)
<1> DEFINE name == token.name
           at == token.at
           held == <<token.at>>
           start == TRUE
           x == Tree!start_tag(b, name, at)
<1>1. \/ c = Tree!insert_unfostered_meta(b, held)
      \/ c = Tree!insert_placeholder_meta(x, token, start)
      \/ c = x
      \/ c = Tree!end_tag(x, name)
  BY DEF Tree!OnSelfclosing
<1> HIDE DEF name, at, held, start
<1>2. Built(x)
  BY StartTagBuilt
<1> HIDE DEF x
<1> QED BY <1>1, <1>2, MetaBuilt, PlaceholderBuilt, EndTagBuilt

\* Whatever token is read, what is open and the tree stay built as they should be.
LEMMA TreeStep ==
  ASSUME Built(builder), Tree!Next
  PROVE  Built(builder')
<1> DEFINE b == builder
           c == builder'
           x == Tree!flush_text(b)
           token == Head(stream)
           y == Tree!flush_table_text(x)
           comment == "#comment"
           none == 0
           held == <<token.at>>
<1>1. \/ c = b \/ c = x
      \/ c = Tree!OnStartTag(x, token)
      \/ c = Tree!OnEndTag(x, token)
      \/ c = Tree!OnSelfclosing(x, token)
      \/ c = Tree!insert_void(y, comment, none, held)
      \/ c = Tree!end_document(x)
  BY DEF Tree!Next, Tree!on_string, Tree!on_start_tag, Tree!on_end_tag, Tree!process_chunk,
     Tree!on_selfclosing, Tree!on_comment, Tree!on_eof, Tree!process_nested, Tree!end_of_chunk,
     Tree!Builds, Tree!Token0, Tree!tree_vars
<1> HIDE DEF token, comment, none, held
<1>2. Built(x)
  BY FlushTextBuilt
<1> HIDE DEF x
<1>3. Built(y)
  BY <1>2, FlushBuilt
<1> HIDE DEF y
<1> QED BY <1>1, <1>2, <1>3, OnStartTagBuilt, OnEndTagBuilt, OnSelfclosingBuilt, VoidBuilt,
           DocumentEnded

\* At first there are the document and the root, which is open.
LEMMA TreeBegins ==
  ASSUME Tree!Init
  PROVE  Built(builder)
<1> DEFINE b == builder
           d == b.dom
           s == b.stack
           two == 2
           none == <<>>
           root == <<two>>
           document == [name |-> "#document", tag |-> 0, parent |-> 0, kids |-> root, held |-> none]
           html == [name |-> "html", tag |-> 0, parent |-> 1, kids |-> none, held |-> none]
<1>1. /\ Shaped(b) /\ d = <<document, html>> /\ s = root
      /\ b.afe = none /\ b.pending_table_characters = none
  BY DEF Tree!Init, Tree!NewBuilder, Tree!Node, Tree!Root, Tree!Document, Shaped, Fields
<1>2. /\ document.parent = 0 /\ document.kids = root /\ html.parent = 1 /\ html.kids = none
      /\ html.name = "html" /\ NodeShaped(document) /\ NodeShaped(html)
  BY DEF NodeShaped, NodeFields
<1> HIDE DEF document, html
<1>3. /\ IsSeq(d) /\ Len(d) = 2 /\ d[1] = document /\ d[2] = html
  <2>1. <<document, html>> \in Seq({document, html}) /\ Len(<<document, html>>) = 2
    OBVIOUS
  <2>2. d \in Seq({document, html}) /\ Len(d) = 2
    BY <1>1, <2>1
  <2>3. IsSeq(d)
    BY <2>2 DEF IsSeq
  <2>4. d[1] = document /\ d[2] = html
    BY <1>1
  <2> QED BY <2>2, <2>3, <2>4
<1>4. /\ none \in Seq(1..2) /\ Len(none) = 0 /\ none \in Seq(0..2) /\ IsSeq(none)
  BY DEF IsSeq
<1>5. root \in Seq(1..2) /\ Len(root) = 1 /\ root[1] = 2
  OBVIOUS
<1> HIDE DEF b, d, s, none, root, two
<1>6. Apart(none) /\ Apart(root) /\ (\A x : ~In(x, none)) /\ (\A x : In(x, root) <=> x = 2)
  BY <1>4, <1>5 DEF Apart, In
<1>7. Linked(d)
  <2>1. \A id \in 1..Len(d) : id = 1 \/ id = 2
    BY <1>3
  <2>2. ASSUME NEW id \in 1..Len(d)
        PROVE  /\ NodeShaped(d[id]) /\ d[id].parent \in 0..Len(d)
               /\ d[id].kids \in Seq(1..Len(d)) /\ Apart(d[id].kids)
    <3>1. CASE id = 1
      BY <1>2, <1>3, <1>5, <1>6, <3>1
    <3>2. CASE id = 2
      <4>1. d[id] = html /\ 1 \in 0..Len(d) /\ none \in Seq(1..Len(d))
        BY <1>3, <1>4, <3>2
      <4> QED BY <1>2, <1>6, <4>1
    <3> QED BY <2>1, <3>1, <3>2
  <2>3. ASSUME NEW id \in 1..Len(d), NEW kid \in 1..Len(d)
        PROVE  In(kid, d[id].kids) <=> d[kid].parent = id
    <3>1. CASE id = 1
      BY <1>2, <1>3, <1>6, <2>1, <3>1
    <3>2. CASE id = 2
      BY <1>2, <1>3, <1>6, <2>1, <3>2
    <3> QED BY <2>1, <3>1, <3>2
  <2> QED BY <1>3, <2>2, <2>3 DEF Linked
<1>8. Open(d, s)
  <2>1. s \in Seq(1..Len(d)) /\ Len(s) = 1 /\ s[1] = 2 /\ Apart(s)
    BY <1>1, <1>3, <1>5, <1>6
  <2>2. \A k \in 1..Len(s) : k = 1
    BY <2>1
  <2>3. ParentBelow(d, s)
    BY <1>2, <1>3, <2>1, <2>2 DEF ParentBelow
  <2>4. \A k \in 2..Len(s) : FALSE
    BY <2>1
  <2> QED BY <2>1, <2>3, <2>4 DEF Open, Mirrors, Structured
<1>9. AfeOK(d, b.afe)
  <2>1. b.afe \in Seq(0..Len(d)) /\ Len(b.afe) = 0
    BY <1>1, <1>3, <1>4
  <2>2. \A k \in 1..Len(b.afe) : FALSE
    BY <2>1
  <2> QED BY <2>1, <2>2 DEF AfeOK
<1>10. 1 \in 1..Len(d) /\ IsSeq(b.pending_table_characters)
  BY <1>1, <1>3, <1>4
<1> QED BY <1>1, <1>7, <1>8, <1>9, <1>10 DEF Built, d, s, b

\* Where something goes around a table does not depend on how it is found.
LEMMA MirrorOf ==
  ASSUME Built(builder)
  PROVE  StackMirrorsTree
<1> DEFINE d == builder.dom
           s == builder.stack
<1>a. Open(d, s)
  BY DEF Built
<1>0. Open(d, s) /\ Len(s) \in Nat
  BY <1>a, OpenFacts
<1> SUFFICES ASSUME NEW k \in 2..Len(s)
             PROVE  \/ d[s[k]].parent = s[k - 1]
                    \/ /\ d[s[k - 1]].name \in Tree!FOSTER_TRIGGERS
                       /\ d[s[k]].parent = Tree!FosterParent(k)
  BY DEF StackMirrorsTree, Tree!StackMirrorsTree, Tree!Name
<1> DEFINE p == d[s[k]].parent
<1>1. p = s[k - 1] \/ (d[s[k - 1]].name \in Tree!FOSTER_TRIGGERS /\ FosterOf(d, s, k, p))
  BY <1>0 DEF Open, Mirrors, Spot
<1>2. ASSUME FosterOf(d, s, k, p) PROVE p = Tree!FosterParent(k)
  <2> DEFINE T == {j \in 2..(k - 1) : d[s[j]].name = "table"}
  <2>1. Tree!FosterParent(k) = IF T = {} THEN s[1] ELSE d[s[Tree!Max(T)]].parent
    BY DEF Tree!FosterParent, Tree!Name, Tree!Bottommost
  <2>2. CASE p = s[1] /\ \A j \in 2..(k - 1) : d[s[j]].name # "table"
    <3>1. T = {}
      BY <2>2
    <3> HIDE DEF T
    <3> QED BY <2>1, <2>2, <3>1
  <2>3. ASSUME NEW m \in 2..(k - 1), d[s[m]].name = "table", p = d[s[m]].parent,
               \A j \in (m + 1)..(k - 1) : d[s[j]].name # "table"
        PROVE  p = Tree!FosterParent(k)
    <3>1. m \in T /\ T \in SUBSET (0..k) /\ k \in Nat
      BY <1>0, <2>3
    <3>2. \A j \in T : j \in 2..(k - 1) /\ d[s[j]].name = "table"
      OBVIOUS
    <3> HIDE DEF T
    <3>3. Tree!Max(T) \in T /\ Tree!Max(T) >= m
      BY <3>1, GreatestNumber
    <3>4. Tree!Max(T) \in 2..(k - 1) /\ d[s[Tree!Max(T)]].name = "table"
      BY <3>2, <3>3
    <3>5. Tree!Max(T) = m
      BY <1>0, <2>3, <3>3, <3>4
    <3> QED BY <2>1, <2>3, <3>1, <3>5
  <2> QED BY <1>2, <2>2, <2>3 DEF FosterOf
<1> QED BY <1>1, <1>2
=============================================================================
