--------------------------- MODULE ExpansionProofs ---------------------------
(***************************************************************************)
(* The balance of the parser's counters and the bounds on its recursion,   *)
(* for every wiki and every choice of the limits.                          *)
(*                                                                         *)
(* The counters say something about the whole stack, the limits are        *)
(* checked at its top.  What connects them is an invariant of every        *)
(* position of the stack (Fits): the nodes held up to a position bound     *)
(* both the scopes of its frame and the position itself.  A position       *)
(* depends only on those below it, so a push has to establish Fits for the *)
(* new top alone and a pop for none.                                       *)
(***************************************************************************)
EXTENDS Expansion, FiniteSetTheorems, TLAPS

\* How many of the first n activations of s are of the kinds K.
Cnt(s, K, n) == Cardinality({i \in 1..n : s[i].kind \in K})

Adds(kind, K) == IF kind \in K THEN 1 ELSE 0

\* The kinds whose frame is still that of the chunk the token stood in.
Bare == {"target", "branch", "module"}

\* The chunks a module has expanded.
OfModule == {"value", "answer", "output"}

Slack(kind) == IF kind \in Charged THEN 0 ELSE IF kind = "default" THEN 2 ELSE 1

Fits(s, i) ==
    /\ s[i].kind = "page" <=> i = 1
    /\ s[i].kind \in OfModule => i > 1 /\ s[i - 1].kind = "module"
    /\ s[i].kind = "default" => i > 1 /\ s[i - 1].kind # "default"
    /\ FrameDepth(s[i].frame) <= Cnt(s, Charged, i) - Adds(s[i].kind, Bare)
    /\ i <= 3 * Cnt(s, Charged, i) + Slack(s[i].kind)

StackInv(s) == /\ s \in Seq(Activations)
               /\ \A i \in 1..Len(s) : Fits(s, i)

Balanced == /\ depth = Cnt(stack, Charged, Len(stack))
            /\ luaDepth = Cnt(stack, {"answer"}, Len(stack))
            /\ moduleScope = Cnt(stack, {"output"}, Len(stack))

Limited == /\ depth <= MaxExpandDepth + 1
           /\ luaDepth <= MaxLuaDepth
           /\ MaxExpandDepth <= MaxTemplateDepth => outcome.what # "too_deep"

IInv == /\ StackInv(stack) /\ Balanced /\ Limited
        /\ nodes \in Nat /\ outcome \in Outcomes

-----------------------------------------------------------------------------
(* Counting. *)

\* The count of a prefix is a natural number, and grows by one with an
\* activation that is counted.
LEMMA CntStep ==
    ASSUME NEW s, NEW K, NEW n \in Nat
    PROVE  /\ Cnt(s, K, n) \in Nat
           /\ Cnt(s, K, 0) = 0
           /\ Cnt(s, K, n + 1) = Cnt(s, K, n) + Adds(s[n + 1].kind, K)
<1> DEFINE S == {i \in 1..n : s[i].kind \in K}
           T == {i \in 1..(n + 1) : s[i].kind \in K}
<1>1. IsFiniteSet(1..n)
  BY FS_Interval
<1>2. IsFiniteSet(S) /\ Cardinality(S) \in Nat
  BY <1>1, FS_Subset, FS_CardinalityType, S \subseteq 1..n
<1>3. {i \in 1..0 : s[i].kind \in K} = {}
  OBVIOUS
<1>4. n + 1 \notin S
  OBVIOUS
<1>5. T = IF s[n + 1].kind \in K THEN S \union {n + 1} ELSE S
  OBVIOUS
<1>6. Cardinality(T) = Cardinality(S) + Adds(s[n + 1].kind, K)
  <2>1. CASE s[n + 1].kind \in K
    <3>1. T = S \union {n + 1}
      BY <1>5, <2>1
    <3>2. Cardinality(S \union {n + 1}) = Cardinality(S) + 1
      BY <1>2, <1>4, FS_AddElement
    <3> QED
      BY <2>1, <3>1, <3>2 DEF Adds
  <2>2. CASE s[n + 1].kind \notin K
    <3>1. T = S
      BY <1>5, <2>2
    <3> HIDE DEF S, T
    <3> QED
      BY <1>2, <2>2, <3>1 DEF Adds
  <2> QED
    BY <2>1, <2>2
<1>7. Cardinality({i \in 1..0 : s[i].kind \in K}) = 0
  BY <1>3, FS_EmptySet
<1> QED
  BY <1>2, <1>6, <1>7 DEF Cnt

\* The count of a prefix depends on that prefix alone.
LEMMA CntSame ==
    ASSUME NEW s, NEW t, NEW K, NEW n \in Nat,
           \A i \in 1..n : s[i] = t[i]
    PROVE  Cnt(s, K, n) = Cnt(t, K, n)
<1>1. {i \in 1..n : s[i].kind \in K} = {i \in 1..n : t[i].kind \in K}
  OBVIOUS
<1> QED
  BY <1>1 DEF Cnt

-----------------------------------------------------------------------------
(* Pushes and pops. *)

\* Sequences that agree up to a position fit there alike.
LEMMA FitsSame ==
    ASSUME NEW s, NEW t, NEW n \in Nat,
           \A i \in 1..n : s[i] = t[i],
           NEW j \in 1..n, Fits(s, j)
    PROVE  Fits(t, j)
<1>1. Cnt(s, Charged, j) = Cnt(t, Charged, j)
  BY CntSame
<1>2. s[j] = t[j] /\ (j > 1 => s[j - 1] = t[j - 1])
  OBVIOUS
<1> QED
  BY <1>1, <1>2 DEF Fits

\* Cutting the stack down to its first n activations.
LEMMA CutFits ==
    ASSUME NEW s, StackInv(s), NEW n \in 0..Len(s)
    PROVE  /\ StackInv(SubSeq(s, 1, n))
           /\ Len(SubSeq(s, 1, n)) = n
           /\ \A K : Cnt(SubSeq(s, 1, n), K, n) = Cnt(s, K, n)
<1> DEFINE t == SubSeq(s, 1, n)
<1>1. s \in Seq(Activations)
  BY DEF StackInv
<1>2. /\ t \in Seq(Activations)
      /\ Len(t) = n
      /\ \A i \in 1..n : s[i] = t[i]
  BY <1>1
<1> HIDE DEF t
<1>3. n \in Nat /\ 1..n \subseteq 1..Len(s)
  BY <1>1
<1>4. \A K : Cnt(t, K, n) = Cnt(s, K, n)
  BY <1>2, <1>3, CntSame
<1>5. \A j \in 1..n : Fits(t, j)
  BY <1>2, <1>3, FitsSame DEF StackInv
<1>6. StackInv(t) /\ Len(t) = n /\ \A K : Cnt(t, K, n) = Cnt(s, K, n)
  BY <1>2, <1>4, <1>5 DEF StackInv
<1> QED
  BY <1>6 DEF t

\* Pushing an activation.
LEMMA PushFits ==
    ASSUME NEW s, StackInv(s), NEW e \in Activations,
           Fits(Append(s, e), Len(s) + 1)
    PROVE  StackInv(Append(s, e))
<1> DEFINE t == Append(s, e)
<1>1. s \in Seq(Activations)
  BY DEF StackInv
<1>2. /\ t \in Seq(Activations)
      /\ Len(t) = Len(s) + 1
      /\ Len(s) \in Nat
      /\ \A i \in 1..Len(s) : s[i] = t[i]
  BY <1>1
<1>3. Fits(t, Len(s) + 1)
  OBVIOUS
<1> HIDE DEF t
<1>4. \A j \in 1..Len(s) : Fits(t, j)
  BY <1>2, FitsSame DEF StackInv
<1>5. StackInv(t)
  BY <1>2, <1>3, <1>4 DEF StackInv
<1> QED
  BY <1>5 DEF t

\* What a push counts.
LEMMA PushCounts ==
    ASSUME NEW s \in Seq(Activations), NEW e \in Activations, NEW K
    PROVE  /\ Len(Append(s, e)) = Len(s) + 1
           /\ Append(s, e)[Len(s) + 1] = e
           /\ Len(s) > 0 => Append(s, e)[Len(s)] = s[Len(s)]
           /\ Cnt(s, K, Len(s)) \in Nat
           /\ Cnt(Append(s, e), K, Len(s) + 1)
                = Cnt(s, K, Len(s)) + Adds(e.kind, K)
<1> DEFINE t == Append(s, e)
<1>1. /\ Len(t) = Len(s) + 1 /\ t[Len(s) + 1] = e /\ Len(s) \in Nat
      /\ \A i \in 1..Len(s) : s[i] = t[i]
      /\ Len(s) > 0 => t[Len(s)] = s[Len(s)]
  OBVIOUS
<1> HIDE DEF t
<1>2. Cnt(s, K, Len(s)) = Cnt(t, K, Len(s))
  BY <1>1, CntSame
<1>3. Cnt(t, K, Len(s) + 1)
        = Cnt(t, K, Len(s)) + Adds(t[Len(s) + 1].kind, K)
  <2> DEFINE n == Len(s)
  <2>1. n \in Nat
    BY <1>1
  <2> HIDE DEF n
  <2>2. Cnt(t, K, n + 1) = Cnt(t, K, n) + Adds(t[n + 1].kind, K)
    BY <2>1, CntStep
  <2> QED
    BY <2>2 DEF n
<1>4. Cnt(s, K, Len(s)) \in Nat
  BY <1>1, CntStep
<1> QED
  BY <1>1, <1>2, <1>3, <1>4 DEF t

\* What the top of a stack counts, and what is below it.
LEMMA TopCounts ==
    ASSUME NEW s, StackInv(s), s # <<>>
    PROVE  /\ s \in Seq(Activations) /\ Len(s) \in Nat \ {0}
           /\ s[Len(s)] \in Activations /\ Fits(s, Len(s))
           /\ StackInv(SubSeq(s, 1, Len(s) - 1))
           /\ Len(SubSeq(s, 1, Len(s) - 1)) = Len(s) - 1
           /\ \A K : /\ Cnt(s, K, Len(s)) \in Nat
                    /\ Cnt(SubSeq(s, 1, Len(s) - 1), K, Len(s) - 1) \in Nat
                    /\ Cnt(s, K, Len(s))
                         = Cnt(SubSeq(s, 1, Len(s) - 1), K, Len(s) - 1)
                             + Adds(s[Len(s)].kind, K)
<1> DEFINE n == Len(s) - 1
           b == SubSeq(s, 1, n)
<1>1. s \in Seq(Activations) /\ Len(s) \in Nat \ {0}
  BY DEF StackInv
<1>2. n \in Nat /\ n \in 0..Len(s) /\ n + 1 = Len(s) /\ Len(s) \in 1..Len(s)
  BY <1>1
<1>3. s[Len(s)] \in Activations /\ Fits(s, Len(s))
  BY <1>1, <1>2 DEF StackInv
<1> HIDE DEF n
<1>4. StackInv(b) /\ Len(b) = n /\ \A K : Cnt(b, K, n) = Cnt(s, K, n)
  BY <1>2, CutFits
<1> HIDE DEF b
<1>5. ASSUME NEW K
      PROVE  /\ Cnt(s, K, n) \in Nat /\ Cnt(s, K, n + 1) \in Nat
             /\ Cnt(s, K, n + 1) = Cnt(s, K, n) + Adds(s[n + 1].kind, K)
  <2>1. /\ Cnt(s, K, n) \in Nat
        /\ Cnt(s, K, n + 1) = Cnt(s, K, n) + Adds(s[n + 1].kind, K)
    BY <1>2, CntStep
  <2> QED
    BY <2>1 DEF Adds
<1>6. ASSUME NEW K
      PROVE  /\ Cnt(s, K, Len(s)) \in Nat /\ Cnt(b, K, n) \in Nat
             /\ Cnt(s, K, Len(s)) = Cnt(b, K, n) + Adds(s[Len(s)].kind, K)
  BY <1>2, <1>4, <1>5
<1> QED
  BY <1>1, <1>3, <1>4, <1>6 DEF n, b

\* An activation that fits on top of a stack: it nests no deeper than the nodes
\* that are held, and follows what may open it.
LEMMA PushInv ==
    ASSUME NEW s, StackInv(s), s # <<>>,
           NEW e \in Activations, e.kind # "page",
           e.kind \in OfModule => s[Len(s)].kind = "module",
           e.kind = "default" => s[Len(s)].kind # "default",
           FrameDepth(e.frame) <= Cnt(s, Charged, Len(s))
                                    + Adds(e.kind, Charged)
                                    - Adds(e.kind, Bare)
    PROVE  StackInv(Append(s, e))
<1> DEFINE t == Append(s, e)
           n == Len(s)
<1>1. /\ s \in Seq(Activations) /\ n \in Nat \ {0} /\ Fits(s, n)
      /\ Cnt(s, Charged, n) \in Nat
  BY TopCounts
<1>2. /\ t[n + 1] = e /\ t[n] = s[n]
      /\ Cnt(t, Charged, n + 1) = Cnt(s, Charged, n) + Adds(e.kind, Charged)
  BY <1>1, PushCounts
<1>3. e.kind \in Charged \union {"default"} \union OfModule
  BY DEF Activations, Kinds, Chunks, Charged, OfModule
<1> HIDE DEF t, n
<1>4. n + 1 <= 3 * Cnt(t, Charged, n + 1) + Slack(e.kind)
  <2>1. n <= 3 * Cnt(s, Charged, n) + Slack(s[n].kind)
    BY <1>1 DEF Fits
  <2>2. Slack(s[n].kind) \in 0..2 /\ Slack(e.kind) \in 0..2
    BY DEF Slack
  <2>3. CASE e.kind \in Charged
    BY <1>1, <1>2, <2>1, <2>2, <2>3 DEF Adds
  <2>4. CASE e.kind = "default"
    <3>1. Slack(s[n].kind) <= 1 /\ Slack(e.kind) = 2 /\ e.kind \notin Charged
      BY <2>4 DEF Slack, Charged, n
    <3> QED
      BY <1>1, <1>2, <2>1, <2>2, <3>1 DEF Adds
  <2>5. CASE e.kind \in OfModule
    <3>1. Slack(s[n].kind) = 0 /\ Slack(e.kind) = 1 /\ e.kind \notin Charged
      BY <2>5 DEF Slack, Charged, OfModule, n
    <3> QED
      BY <1>1, <1>2, <2>1, <2>2, <3>1 DEF Adds
  <2> QED
    BY <1>3, <2>3, <2>4, <2>5
<1>5. FrameDepth(e.frame) <= Cnt(t, Charged, n + 1) - Adds(e.kind, Bare)
  BY <1>1, <1>2 DEF n, Adds
<1>6. Fits(t, n + 1)
  <2>1. n + 1 > 1 /\ (n + 1) - 1 = n
    BY <1>1
  <2>2. /\ t[n + 1].kind \in OfModule => t[n].kind = "module"
        /\ t[n + 1].kind = "default" => t[n].kind # "default"
    BY <1>2 DEF n
  <2>3. t[n + 1].kind = "page" <=> n + 1 = 1
    BY <1>2, <2>1
  <2> QED
    BY <1>2, <1>4, <1>5, <2>1, <2>2, <2>3 DEF Fits
<1> QED
  BY <1>6, PushFits DEF t, n
-----------------------------------------------------------------------------
(* The steps. *)

\* Pushing a token, an argument, a request or an output.
LEMMA PushStep ==
    ASSUME StackInv(stack), stack # <<>>,
           NEW kind \in Kinds, NEW frame \in Frames, kind # "page",
           kind \in OfModule => Top.kind = "module",
           kind = "default" => Top.kind # "default",
           FrameDepth(frame) <= Cnt(stack, Charged, Len(stack))
                                  + Adds(kind, Charged) - Adds(kind, Bare),
           Push(kind, frame)
    PROVE  /\ StackInv(stack')
           /\ \A K : /\ Cnt(stack', K, Len(stack')) \in Nat
                    /\ Cnt(stack', K, Len(stack'))
                         = Cnt(stack, K, Len(stack)) + Adds(kind, K)
<1> DEFINE e == Doing(kind, frame, Page)
<1>1. e \in Activations /\ e.kind = kind /\ e.frame = frame
  BY DEF Doing, Activations, Titles
<1>2. stack' = Append(stack, e) /\ stack \in Seq(Activations)
  BY DEF Push, StackInv
<1> HIDE DEF e
<1>3. StackInv(Append(stack, e))
  BY <1>1, PushInv DEF Top
<1>4. ASSUME NEW K
      PROVE  /\ Cnt(stack', K, Len(stack')) \in Nat
             /\ Cnt(stack', K, Len(stack')) = Cnt(stack, K, Len(stack)) + Adds(kind, K)
  <2>1. /\ Len(stack') = Len(stack) + 1
        /\ Cnt(stack, K, Len(stack)) \in Nat
        /\ Cnt(stack', K, Len(stack) + 1) = Cnt(stack, K, Len(stack)) + Adds(e.kind, K)
    BY <1>1, <1>2, PushCounts
  <2> QED
    BY <1>1, <2>1 DEF Adds
<1> QED
  BY <1>2, <1>3, <1>4

\* The end of an activation.
LEMMA PopStep ==
    ASSUME StackInv(stack), stack # <<>>, stack' = Below
    PROVE  /\ StackInv(stack')
           /\ \A K : /\ Cnt(stack', K, Len(stack')) \in Nat
                    /\ Cnt(stack', K, Len(stack'))
                         = Cnt(stack, K, Len(stack)) - Adds(Top.kind, K)
<1>1. StackInv(Below) /\ Len(Below) = Len(stack) - 1
  BY TopCounts DEF Below
<1>2. ASSUME NEW K
      PROVE  /\ Cnt(Below, K, Len(stack) - 1) \in Nat
             /\ Cnt(Below, K, Len(stack) - 1)
                  = Cnt(stack, K, Len(stack)) - Adds(Top.kind, K)
  <2>1. /\ Cnt(stack, K, Len(stack)) \in Nat
        /\ Cnt(Below, K, Len(stack) - 1) \in Nat
        /\ Cnt(stack, K, Len(stack))
             = Cnt(Below, K, Len(stack) - 1) + Adds(Top.kind, K)
    BY TopCounts DEF Below, Top
  <2> QED
    BY <2>1 DEF Adds
<1> QED
  BY <1>1, <1>2

\* A template token turning into what its target says it is.
LEMMA BecomeStep ==
    ASSUME StackInv(stack), stack # <<>>, Top.kind \in {"target", "args"},
           NEW kind \in {"args", "body", "branch", "module"},
           NEW frame \in Frames, NEW t \in Titles,
           FrameDepth(frame) <= Cnt(stack, Charged, Len(stack)) - Adds(kind, Bare),
           Become(kind, frame, t)
    PROVE  /\ StackInv(stack')
           /\ \A K \in {Charged, {"answer"}, {"output"}} :
                  /\ Cnt(stack', K, Len(stack')) \in Nat
                  /\ Cnt(stack', K, Len(stack')) = Cnt(stack, K, Len(stack))
<1> DEFINE e == Doing(kind, frame, t)
           n == Len(stack) - 1
<1>1. /\ e \in Activations /\ e.kind = kind /\ e.frame = frame
      /\ kind \in Charged /\ kind \notin OfModule
  BY DEF Doing, Activations, Kinds, Chunks, Charged, OfModule
<1>2. stack' = Append(Below, e)
  BY DEF Become
<1>3. /\ Len(stack) \in Nat \ {0} /\ Fits(stack, Len(stack))
      /\ StackInv(Below) /\ Len(Below) = n
  BY TopCounts DEF Below
<1>4. Below # <<>> /\ Below \in Seq(Activations)
  <2>1. Len(stack) # 1
    BY <1>3 DEF Fits, Top
  <2> QED
    BY <1>3, <2>1 DEF StackInv
<1>5. ASSUME NEW K
      PROVE  /\ Cnt(stack, K, Len(stack)) \in Nat /\ Cnt(Below, K, n) \in Nat
             /\ Cnt(stack, K, Len(stack)) = Cnt(Below, K, n) + Adds(Top.kind, K)
             /\ Len(stack') = n + 1
             /\ Cnt(stack', K, Len(stack')) = Cnt(Below, K, n) + Adds(kind, K)
  <2>1. /\ Cnt(stack, K, Len(stack)) \in Nat /\ Cnt(Below, K, n) \in Nat
        /\ Cnt(stack, K, Len(stack)) = Cnt(Below, K, n) + Adds(Top.kind, K)
    BY TopCounts DEF Below, Top
  <2> HIDE DEF e, n
  <2>2. /\ Len(stack') = n + 1
        /\ Cnt(stack', K, n + 1) = Cnt(Below, K, n) + Adds(kind, K)
    BY <1>1, <1>2, <1>3, <1>4, PushCounts
  <2> QED
    BY <2>1, <2>2
<1> HIDE DEF e, n
<1>6. StackInv(Append(Below, e))
  <2>1. FrameDepth(frame) <= Cnt(Below, Charged, n)
                               + Adds(kind, Charged) - Adds(kind, Bare)
    BY <1>1, <1>5 DEF Adds, Charged
  <2>2. e.kind # "page" /\ e.kind # "default"
    BY <1>1
  <2>3. FrameDepth(e.frame) <= Cnt(Below, Charged, Len(Below))
                                 + Adds(e.kind, Charged) - Adds(e.kind, Bare)
    BY <1>1, <1>3, <2>1
  <2> QED
    BY <1>1, <1>3, <1>4, <2>2, <2>3, PushInv
<1>7. ASSUME NEW K \in {Charged, {"answer"}, {"output"}}
      PROVE  /\ Cnt(stack', K, Len(stack')) \in Nat
             /\ Cnt(stack', K, Len(stack')) = Cnt(stack, K, Len(stack))
  <2>1. Adds(kind, K) = Adds(Top.kind, K) /\ Adds(kind, K) \in Nat
    BY DEF Adds, Charged
  <2> QED
    BY <1>5, <2>1
<1> QED
  BY <1>2, <1>6, <1>7

-----------------------------------------------------------------------------
(* Frames. *)

\* The ends of a sequence.
LEMMA EndsOfSeq ==
    ASSUME NEW R, NEW f \in Seq(R), f # <<>>
    PROVE  /\ Len(f) \in Nat \ {0} /\ f[1] \in R /\ f[Len(f)] \in R
           /\ SubSeq(f, 1, Len(f) - 1) \in Seq(R)
           /\ Len(SubSeq(f, 1, Len(f) - 1)) = Len(f) - 1
<1>1. Len(f) \in Nat \ {0}
  OBVIOUS
<1>2. 1 \in 1..Len(f) /\ Len(f) \in 1..Len(f)
  BY <1>1
<1>3. f[1] \in R /\ f[Len(f)] \in R
  BY <1>2
<1>4. /\ SubSeq(f, 1, Len(f) - 1) \in Seq(R)
      /\ Len(SubSeq(f, 1, Len(f) - 1)) = Len(f) - 1
  <2> DEFINE n == Len(f) - 1
  <2>1. n \in 0..Len(f)
    BY <1>1
  <2> HIDE DEF n
  <2>2. SubSeq(f, 1, n) \in Seq(R) /\ Len(SubSeq(f, 1, n)) = n
    BY <2>1
  <2> QED
    BY <2>2 DEF n
<1> QED
  BY <1>1, <1>3, <1>4

\* A sequence is longer by the element appended, and not empty.
LEMMA AppendToSeq ==
    ASSUME NEW R, NEW f \in Seq(R), NEW x \in R
    PROVE  Append(f, x) \in Seq(R) \ {<<>>} /\ Len(Append(f, x)) = Len(f) + 1
<1>1. Append(f, x) \in Seq(R) /\ Len(Append(f, x)) = Len(f) + 1 /\ Len(f) \in Nat
  OBVIOUS
<1>2. Len(Append(f, x)) # 0
  BY <1>1
<1> QED
  BY <1>1, <1>2

\* The limits are constants of the build and of the wiki.
LEMMA Limits == MaxExpandDepth \in Nat /\ MaxLuaDepth \in Nat /\ MaxTemplateDepth \in Nat
BY ConstantsAssumption

\* The titles a call can end at.
LEMMA Constants ==
    /\ \A t \in Templates : t \in Titles /\ (Resolves(t) => RedirectFrom(t) \in Titles)
    /\ Page \in Titles
BY ConstantsAssumption DEF Resolves, Titles

\* The scopes a token can open, and how deep they are.
LEMMA FrameFacts ==
    ASSUME NEW f \in Frames, NEW t \in Titles
    PROVE  /\ FrameDepth(f) \in Nat
           /\ title_of(f) \in Titles /\ root_title(f) \in Titles
           /\ new_child(f, t) \in Frames
           /\ FrameDepth(new_child(f, t)) = FrameDepth(f) + 1
           /\ new_derived_child(f, t) \in Frames
           /\ FrameDepth(new_derived_child(f, t)) = FrameDepth(f) + 1
<1> DEFINE R == [title : Titles, derived : BOOLEAN]
<1>1. f \in Seq(R) /\ f # <<>>
  BY DEF Frames
<1>2. Len(f) \in Nat \ {0} /\ f[1] \in R /\ f[Len(f)] \in R
  BY <1>1, EndsOfSeq
<1>3. Scope(t, FALSE) \in R /\ Scope(t, TRUE) \in R
  BY DEF Scope
<1>4. title_of(f) \in Titles /\ root_title(f) \in Titles
  BY <1>2 DEF title_of, root_title
<1> HIDE DEF R
<1>5. ASSUME NEW x \in R
      PROVE  Append(f, x) \in Seq(R) \ {<<>>} /\ FrameDepth(Append(f, x)) = FrameDepth(f) + 1
  <2>1. Append(f, x) \in Seq(R) \ {<<>>} /\ Len(Append(f, x)) = Len(f) + 1
    BY <1>1, AppendToSeq
  <2> QED
    BY <1>2, <2>1 DEF FrameDepth
<1>6. FrameDepth(f) \in Nat
  BY <1>2 DEF FrameDepth
<1>7. /\ new_child(f, t) \in Seq(R) \ {<<>>}
      /\ FrameDepth(new_child(f, t)) = FrameDepth(f) + 1
      /\ new_derived_child(f, t) \in Seq(R) \ {<<>>}
      /\ FrameDepth(new_derived_child(f, t)) = FrameDepth(f) + 1
  BY <1>3, <1>5 DEF new_child, new_derived_child
<1> QED
  BY <1>4, <1>6, <1>7 DEF Frames, R

\* The scope in which the text of a module is expanded.
LEMMA ScopesOfTop ==
    ASSUME NEW f \in Frames
    PROVE  /\ new_child(f, title_of(f)) \in Frames
           /\ FrameDepth(new_child(f, title_of(f))) = FrameDepth(f) + 1
           /\ new_derived_child(f, title_of(f)) \in Frames
           /\ FrameDepth(new_derived_child(f, title_of(f))) = FrameDepth(f) + 1
<1> DEFINE t == title_of(f)
<1>1. t \in Titles
  BY Constants, FrameFacts
<1> HIDE DEF t
<1>2. /\ new_child(f, t) \in Frames
      /\ FrameDepth(new_child(f, t)) = FrameDepth(f) + 1
      /\ new_derived_child(f, t) \in Frames
      /\ FrameDepth(new_derived_child(f, t)) = FrameDepth(f) + 1
  BY <1>1, FrameFacts
<1> QED
  BY <1>2 DEF t

\* The frame of a body takes the place of that of the argument values.
LEMMA SiblingFacts ==
    ASSUME NEW f \in Frames, NEW t \in Titles
    PROVE  /\ new_child(SubSeq(f, 1, Len(f) - 1), t) \in Frames
           /\ FrameDepth(new_child(SubSeq(f, 1, Len(f) - 1), t)) = FrameDepth(f)
<1> DEFINE R == [title : Titles, derived : BOOLEAN]
           g == SubSeq(f, 1, Len(f) - 1)
           x == Scope(t, FALSE)
<1>1. f \in Seq(R) /\ f # <<>>
  BY DEF Frames
<1>2. x \in R
  BY DEF Scope
<1> HIDE DEF R, x
<1>3. g \in Seq(R) /\ Len(g) = Len(f) - 1 /\ Len(f) \in Nat
  BY <1>1, EndsOfSeq
<1> HIDE DEF g
<1>4. Append(g, x) \in Seq(R) \ {<<>>} /\ Len(Append(g, x)) = Len(f)
  BY <1>2, <1>3, AppendToSeq
<1> QED
  BY <1>4 DEF Frames, FrameDepth, new_child, g, x, R

\* What the invariant says of the innermost activation.
LEMMA TopFacts ==
    ASSUME IInv, stack # <<>>
    PROVE  /\ StackInv(stack) /\ Balanced /\ Limited
           /\ Top.kind \in Kinds /\ Top.title \in Titles /\ Top.frame \in Frames
           /\ depth \in Nat /\ luaDepth \in Nat /\ moduleScope \in Nat
           /\ FrameDepth(Top.frame) \in Nat
           /\ FrameDepth(Top.frame) <= depth - Adds(Top.kind, Bare)
<1>1. /\ Top \in Activations /\ Fits(stack, Len(stack))
      /\ \A K : Cnt(stack, K, Len(stack)) \in Nat
  BY TopCounts DEF IInv, Top
<1>2. Top.kind \in Kinds /\ Top.title \in Titles /\ Top.frame \in Frames
  BY <1>1 DEF Activations
<1>3. FrameDepth(Top.frame) <= depth - Adds(Top.kind, Bare)
  BY <1>1 DEF Fits, Top, IInv, Balanced
<1> QED
  BY <1>1, <1>2, <1>3, FrameFacts DEF IInv, Balanced


-----------------------------------------------------------------------------
(* The invariant. *)

\* At the start of a page nothing is counted and only the page is walked.
LEMMA InitInv == Init => IInv
<1> SUFFICES ASSUME Init PROVE IInv
  OBVIOUS
<1> DEFINE f == <<Scope(Page, FALSE)>>
           e == Doing("page", f, Page)
<1>1. f \in Frames /\ FrameDepth(f) = 0
  BY DEF Frames, FrameDepth, Scope, Titles
<1> HIDE DEF f
<1>2. e \in Activations /\ e.kind = "page" /\ e.frame = f
  BY <1>1 DEF Doing, Activations, Kinds, Chunks, Titles
<1>3. stack = <<e>> /\ nodes = 0 /\ depth = 0 /\ luaDepth = 0 /\ moduleScope = 0
      /\ outcome = Nothing
  BY DEF Init, f
<1> HIDE DEF e
<1>4. stack \in Seq(Activations) /\ Len(stack) = 1 /\ stack[1] = e
  BY <1>2, <1>3
<1>5. ASSUME NEW K, "page" \notin K
      PROVE  Cnt(stack, K, 1) = 0
  <2>1. Cnt(stack, K, 0) = 0 /\ Cnt(stack, K, 0 + 1) = Cnt(stack, K, 0) + Adds(stack[0 + 1].kind, K)
    BY CntStep
  <2> QED
    BY <1>2, <1>4, <1>5, <2>1 DEF Adds
<1>6. /\ Cnt(stack, Charged, 1) = 0
      /\ Cnt(stack, {"answer"}, 1) = 0 /\ Cnt(stack, {"output"}, 1) = 0
  BY <1>5 DEF Charged
<1>7. Fits(stack, 1)
  BY <1>1, <1>2, <1>4, <1>6 DEF Fits, OfModule, Bare, Adds, Slack, Charged
<1>8. StackInv(stack)
  BY <1>4, <1>7 DEF StackInv
<1>9. Balanced
  BY <1>3, <1>4, <1>6 DEF Balanced
<1>10. Limited /\ outcome \in Outcomes
  BY <1>3, Constants, Limits DEF Limited, Nothing, Outcomes
<1> QED
  BY <1>3, <1>8, <1>9, <1>10 DEF IInv

\* A token that is not answered leaves nothing behind.
LEMMA NothingFacts == Nothing \in Outcomes /\ Nothing.what # "too_deep"
BY Constants DEF Nothing, Outcomes

\* The node count stays a number.
LEMMA NodesFacts == nodes \in Nat => NodesAfter \in Nat
BY ConstantsAssumption DEF NodesAfter

\* A token over a limit, or a request refused, leaves the stack as it is.
LEMMA InPlaceInv ==
    IInv /\ (TokenOverNodes \/ TokenOverDepth \/ RequestRefused) => IInv'
<1> SUFFICES ASSUME IInv, TokenOverNodes \/ TokenOverDepth \/ RequestRefused PROVE IInv'
  OBVIOUS
<1>1. /\ stack' = stack /\ depth' = depth /\ luaDepth' = luaDepth
      /\ moduleScope' = moduleScope /\ nodes' \in {nodes, NodesAfter}
      /\ outcome' \in Outcomes /\ outcome'.what # "too_deep"
  <2>1. \A what \in {"node_limit", "depth_limit", "empty"} :
            /\ [what |-> what, title |-> Page] \in Outcomes
            /\ [what |-> what, title |-> Page].what # "too_deep"
    BY Constants DEF Outcomes
  <2>2. CASE TokenOverNodes
    BY <2>1, <2>2 DEF TokenOverNodes, Replaced
  <2>3. CASE TokenOverDepth
    BY <2>1, <2>3 DEF TokenOverDepth, Replaced
  <2>4. CASE RequestRefused
    BY <2>1, <2>4 DEF RequestRefused, Replaced
  <2> QED
    BY <2>2, <2>3, <2>4
<1> QED
  BY <1>1, NodesFacts DEF IInv, StackInv, Fits, Balanced, Limited

\* A template token takes a node, and its target is walked in the same frame.
LEMMA TemplateTokenInv == IInv /\ TemplateToken => IInv'
<1> SUFFICES ASSUME IInv, TemplateToken PROVE IInv'
  OBVIOUS
<1>1. stack # <<>> /\ Top.kind \in Chunks
  BY DEF TemplateToken, Walking
<1>2. Top.frame \in Frames
      /\ FrameDepth(Top.frame) <= depth + Adds("target", Charged) - Adds("target", Bare)
  <2>1. /\ Top.frame \in Frames /\ FrameDepth(Top.frame) \in Nat /\ depth \in Nat
        /\ FrameDepth(Top.frame) <= depth - Adds(Top.kind, Bare)
    BY <1>1, TopFacts
  <2>2. /\ new_child(Top.frame, title_of(Top.frame)) \in Frames
        /\ FrameDepth(new_child(Top.frame, title_of(Top.frame))) = FrameDepth(Top.frame) + 1
        /\ new_derived_child(Top.frame, title_of(Top.frame)) \in Frames
        /\ FrameDepth(new_derived_child(Top.frame, title_of(Top.frame))) = FrameDepth(Top.frame) + 1
    BY <2>1, ScopesOfTop
  <2> QED
    BY <1>1, <2>1, <2>2 DEF Adds, Charged, Bare
<1>3. /\ StackInv(stack')
      /\ \A K : Cnt(stack', K, Len(stack')) = Cnt(stack, K, Len(stack)) + Adds("target", K)
  <2>1. StackInv(stack) /\ depth = Cnt(stack, Charged, Len(stack))
    BY DEF IInv, Balanced
  <2>2. Push("target", Top.frame) /\ "target" \in Kinds
    BY DEF TemplateToken, Kinds, Chunks
  <2> QED
    BY <1>1, <1>2, <2>1, <2>2, PushStep DEF OfModule
<1>4. Balanced'
  BY <1>1, <1>3, TopFacts DEF TemplateToken, Balanced, Adds, Charged
<1>5. Limited' /\ nodes' \in Nat /\ outcome' \in Outcomes
  <2>1. outcome' = Nothing /\ nodes' \in {nodes, NodesAfter}
    BY DEF TemplateToken
  <2>2. depth' <= MaxExpandDepth + 1 /\ luaDepth' <= MaxLuaDepth
    <3>1. /\ depth \in Nat /\ luaDepth \in Nat
          /\ depth <= MaxExpandDepth + 1 /\ luaDepth <= MaxLuaDepth
      BY <1>1, TopFacts DEF Limited
    <3>2. depth' = depth + 1 /\ ~ (depth > MaxExpandDepth) /\ luaDepth' = luaDepth
      BY DEF TemplateToken, DepthLimit
    <3> QED
      BY <3>1, <3>2, Limits
  <2> QED
    BY <1>1, <2>1, <2>2, TopFacts, NodesFacts, NothingFacts, Limits DEF IInv, Limited
<1> QED
  BY <1>3, <1>4, <1>5 DEF IInv

\* The default of an argument reference holds no node of its own.
LEMMA ArgumentTokenInv == IInv /\ ArgumentToken => IInv'
<1> SUFFICES ASSUME IInv, ArgumentToken PROVE IInv'
  OBVIOUS
<1>1. stack # <<>> /\ Top.kind # "default"
  BY DEF ArgumentToken, Walking
<1>2. Top.frame \in Frames
      /\ FrameDepth(Top.frame) <= depth + Adds("default", Charged) - Adds("default", Bare)
  <2>1. /\ Top.frame \in Frames /\ FrameDepth(Top.frame) \in Nat /\ depth \in Nat
        /\ FrameDepth(Top.frame) <= depth - Adds(Top.kind, Bare)
    BY <1>1, TopFacts
  <2>2. /\ new_child(Top.frame, title_of(Top.frame)) \in Frames
        /\ FrameDepth(new_child(Top.frame, title_of(Top.frame))) = FrameDepth(Top.frame) + 1
        /\ new_derived_child(Top.frame, title_of(Top.frame)) \in Frames
        /\ FrameDepth(new_derived_child(Top.frame, title_of(Top.frame))) = FrameDepth(Top.frame) + 1
    BY <2>1, ScopesOfTop
  <2> QED
    BY <1>1, <2>1, <2>2 DEF Adds, Charged, Bare
<1>3. /\ StackInv(stack')
      /\ \A K : Cnt(stack', K, Len(stack')) = Cnt(stack, K, Len(stack)) + Adds("default", K)
  <2>1. StackInv(stack) /\ depth = Cnt(stack, Charged, Len(stack))
    BY DEF IInv, Balanced
  <2>2. Push("default", Top.frame) /\ "default" \in Kinds
    BY DEF ArgumentToken, Kinds, Chunks
  <2> QED
    BY <1>1, <1>2, <2>1, <2>2, PushStep DEF OfModule
<1>4. Balanced'
  BY <1>1, <1>3, TopFacts DEF ArgumentToken, Balanced, Adds, Charged
<1>5. Limited' /\ nodes' \in Nat /\ outcome' \in Outcomes
  <2>1. outcome' = Nothing /\ nodes' \in {nodes, NodesAfter}
    BY DEF ArgumentToken
  <2>2. depth' = depth /\ luaDepth' = luaDepth
    BY <1>1, TopFacts, Constants DEF ArgumentToken
  <2> QED
    BY <1>1, <2>1, <2>2, TopFacts, NodesFacts, NothingFacts, Limits DEF IInv, Limited
<1> QED
  BY <1>3, <1>4, <1>5 DEF IInv

\* An argument of a module call is expanded one scope further in.
LEMMA ReadArgumentInv == IInv /\ ReadArgument => IInv'
<1> SUFFICES ASSUME IInv, ReadArgument PROVE IInv'
  OBVIOUS
<1>1. stack # <<>> /\ Top.kind = "module"
  BY DEF ReadArgument, In
<1>2. new_child(Top.frame, title_of(Top.frame)) \in Frames
      /\ FrameDepth(new_child(Top.frame, title_of(Top.frame))) <= depth + Adds("value", Charged) - Adds("value", Bare)
  <2>1. /\ Top.frame \in Frames /\ FrameDepth(Top.frame) \in Nat /\ depth \in Nat
        /\ FrameDepth(Top.frame) <= depth - Adds(Top.kind, Bare)
    BY <1>1, TopFacts
  <2>2. /\ new_child(Top.frame, title_of(Top.frame)) \in Frames
        /\ FrameDepth(new_child(Top.frame, title_of(Top.frame))) = FrameDepth(Top.frame) + 1
        /\ new_derived_child(Top.frame, title_of(Top.frame)) \in Frames
        /\ FrameDepth(new_derived_child(Top.frame, title_of(Top.frame))) = FrameDepth(Top.frame) + 1
    BY <2>1, ScopesOfTop
  <2> QED
    BY <1>1, <2>1, <2>2 DEF Adds, Charged, Bare
<1>3. /\ StackInv(stack')
      /\ \A K : Cnt(stack', K, Len(stack')) = Cnt(stack, K, Len(stack)) + Adds("value", K)
  <2>1. StackInv(stack) /\ depth = Cnt(stack, Charged, Len(stack))
    BY DEF IInv, Balanced
  <2>2. Push("value", new_child(Top.frame, title_of(Top.frame))) /\ "value" \in Kinds
    BY DEF ReadArgument, Kinds, Chunks
  <2> QED
    BY <1>1, <1>2, <2>1, <2>2, PushStep DEF OfModule
<1>4. Balanced'
  BY <1>1, <1>3, TopFacts DEF ReadArgument, Balanced, Adds, Charged
<1>5. Limited' /\ nodes' \in Nat /\ outcome' \in Outcomes
  <2>1. outcome' = Nothing /\ nodes' \in {nodes, NodesAfter}
    BY DEF ReadArgument
  <2>2. depth' = depth /\ luaDepth' = luaDepth
    BY <1>1, TopFacts, Constants DEF ReadArgument
  <2> QED
    BY <1>1, <2>1, <2>2, TopFacts, NodesFacts, NothingFacts, Limits DEF IInv, Limited
<1> QED
  BY <1>3, <1>4, <1>5 DEF IInv

\* A frame request is counted against the Lua depth.
LEMMA RequestInv == IInv /\ Request => IInv'
<1> SUFFICES ASSUME IInv, Request PROVE IInv'
  OBVIOUS
<1>1. stack # <<>> /\ Top.kind = "module"
  BY DEF Request, In
<1>2. new_child(Top.frame, title_of(Top.frame)) \in Frames
      /\ FrameDepth(new_child(Top.frame, title_of(Top.frame))) <= depth + Adds("answer", Charged) - Adds("answer", Bare)
  <2>1. /\ Top.frame \in Frames /\ FrameDepth(Top.frame) \in Nat /\ depth \in Nat
        /\ FrameDepth(Top.frame) <= depth - Adds(Top.kind, Bare)
    BY <1>1, TopFacts
  <2>2. /\ new_child(Top.frame, title_of(Top.frame)) \in Frames
        /\ FrameDepth(new_child(Top.frame, title_of(Top.frame))) = FrameDepth(Top.frame) + 1
        /\ new_derived_child(Top.frame, title_of(Top.frame)) \in Frames
        /\ FrameDepth(new_derived_child(Top.frame, title_of(Top.frame))) = FrameDepth(Top.frame) + 1
    BY <2>1, ScopesOfTop
  <2> QED
    BY <1>1, <2>1, <2>2 DEF Adds, Charged, Bare
<1>3. /\ StackInv(stack')
      /\ \A K : Cnt(stack', K, Len(stack')) = Cnt(stack, K, Len(stack)) + Adds("answer", K)
  <2>1. StackInv(stack) /\ depth = Cnt(stack, Charged, Len(stack))
    BY DEF IInv, Balanced
  <2>2. Push("answer", new_child(Top.frame, title_of(Top.frame))) /\ "answer" \in Kinds
    BY DEF Request, Kinds, Chunks
  <2> QED
    BY <1>1, <1>2, <2>1, <2>2, PushStep DEF OfModule
<1>4. Balanced'
  BY <1>1, <1>3, TopFacts DEF Request, Balanced, Adds, Charged
<1>5. Limited' /\ nodes' \in Nat /\ outcome' \in Outcomes
  <2>1. outcome' = Nothing /\ nodes' \in {nodes, NodesAfter}
    BY DEF Request
  <2>2. depth' <= MaxExpandDepth + 1 /\ luaDepth' <= MaxLuaDepth
    <3>1. /\ depth \in Nat /\ luaDepth \in Nat
          /\ depth <= MaxExpandDepth + 1 /\ luaDepth <= MaxLuaDepth
      BY <1>1, TopFacts DEF Limited
    <3>2. depth' = depth /\ luaDepth' = luaDepth + 1 /\ luaDepth < MaxLuaDepth
      BY DEF Request
    <3> QED
      BY <3>1, <3>2, Limits
  <2> QED
    BY <1>1, <2>1, <2>2, TopFacts, NodesFacts, NothingFacts, Limits DEF IInv, Limited
<1> QED
  BY <1>3, <1>4, <1>5 DEF IInv

\* What a module returned is expanded in a scope counted as a module's.
LEMMA ReturnInv == IInv /\ Return => IInv'
<1> SUFFICES ASSUME IInv, Return PROVE IInv'
  OBVIOUS
<1>1. stack # <<>> /\ Top.kind = "module"
  BY DEF Return, In
<1>2. new_derived_child(Top.frame, title_of(Top.frame)) \in Frames
      /\ FrameDepth(new_derived_child(Top.frame, title_of(Top.frame))) <= depth + Adds("output", Charged) - Adds("output", Bare)
  <2>1. /\ Top.frame \in Frames /\ FrameDepth(Top.frame) \in Nat /\ depth \in Nat
        /\ FrameDepth(Top.frame) <= depth - Adds(Top.kind, Bare)
    BY <1>1, TopFacts
  <2>2. /\ new_child(Top.frame, title_of(Top.frame)) \in Frames
        /\ FrameDepth(new_child(Top.frame, title_of(Top.frame))) = FrameDepth(Top.frame) + 1
        /\ new_derived_child(Top.frame, title_of(Top.frame)) \in Frames
        /\ FrameDepth(new_derived_child(Top.frame, title_of(Top.frame))) = FrameDepth(Top.frame) + 1
    BY <2>1, ScopesOfTop
  <2> QED
    BY <1>1, <2>1, <2>2 DEF Adds, Charged, Bare
<1>3. /\ StackInv(stack')
      /\ \A K : Cnt(stack', K, Len(stack')) = Cnt(stack, K, Len(stack)) + Adds("output", K)
  <2>1. StackInv(stack) /\ depth = Cnt(stack, Charged, Len(stack))
    BY DEF IInv, Balanced
  <2>2. Push("output", new_derived_child(Top.frame, title_of(Top.frame))) /\ "output" \in Kinds
    BY DEF Return, Kinds, Chunks
  <2> QED
    BY <1>1, <1>2, <2>1, <2>2, PushStep DEF OfModule
<1>4. Balanced'
  BY <1>1, <1>3, TopFacts DEF Return, Balanced, Adds, Charged
<1>5. Limited' /\ nodes' \in Nat /\ outcome' \in Outcomes
  <2>1. outcome' = Nothing /\ nodes' \in {nodes, NodesAfter}
    BY DEF Return
  <2>2. depth' = depth /\ luaDepth' = luaDepth
    BY <1>1, TopFacts, Constants DEF Return
  <2> QED
    BY <1>1, <2>1, <2>2, TopFacts, NodesFacts, NothingFacts, Limits DEF IInv, Limited
<1> QED
  BY <1>3, <1>4, <1>5 DEF IInv

\* A token turning into something else changes no counter.
LEMMA BecomeInv ==
    ASSUME IInv, stack # <<>>, Top.kind \in {"target", "args"},
           NEW kind \in {"args", "body", "branch", "module"},
           NEW frame \in Frames, NEW t \in Titles,
           FrameDepth(frame) <= depth - Adds(kind, Bare),
           Become(kind, frame, t), outcome' = Nothing,
           UNCHANGED <<nodes, depth, luaDepth, moduleScope>>
    PROVE  IInv'
<1>1. StackInv(stack) /\ depth = Cnt(stack, Charged, Len(stack))
  BY DEF IInv, Balanced
<1>2. /\ StackInv(stack')
      /\ \A K \in {Charged, {"answer"}, {"output"}} :
             Cnt(stack', K, Len(stack')) = Cnt(stack, K, Len(stack))
  <2>1. FrameDepth(frame) <= Cnt(stack, Charged, Len(stack)) - Adds(kind, Bare)
    BY <1>1
  <2> QED
    BY <1>1, <2>1, BecomeStep
<1>3. Balanced'
  BY <1>2 DEF IInv, Balanced
<1> QED
  BY <1>2, <1>3, NothingFacts DEF IInv, Limited

\* The end of an activation gives back what it had counted.
LEMMA EndInv ==
    ASSUME IInv, stack # <<>>, stack' = Below, nodes' = nodes,
           depth' = depth - Adds(Top.kind, Charged),
           luaDepth' = luaDepth - Adds(Top.kind, {"answer"}),
           moduleScope' = moduleScope - Adds(Top.kind, {"output"}),
           outcome' \in Outcomes,
           MaxExpandDepth <= MaxTemplateDepth => outcome'.what # "too_deep"
    PROVE  IInv'
<1>1. /\ StackInv(stack')
      /\ \A K : Cnt(stack', K, Len(stack')) = Cnt(stack, K, Len(stack)) - Adds(Top.kind, K)
  BY PopStep DEF IInv
<1>2. Balanced'
  BY <1>1 DEF IInv, Balanced
<1>3. /\ depth \in Nat /\ luaDepth \in Nat
      /\ depth <= MaxExpandDepth + 1 /\ luaDepth <= MaxLuaDepth
  BY TopFacts DEF Limited
<1>4. Adds(Top.kind, Charged) \in Nat /\ Adds(Top.kind, {"answer"}) \in Nat
  BY DEF Adds
<1>5. Limited'
  <2>1. depth' <= depth /\ luaDepth' <= luaDepth
    BY <1>3, <1>4
  <2>2. depth' <= MaxExpandDepth + 1 /\ luaDepth' <= MaxLuaDepth
    <3>1. depth' \in Int /\ luaDepth' \in Int
      BY <1>3, <1>4
    <3> QED
      BY <1>3, <2>1, <3>1, Limits
  <2> QED
    BY <2>2 DEF Limited
<1> QED
  BY <1>1, <1>2, <1>5 DEF IInv

\* A call that passes the checks has its argument values expanded.
LEMMA CallInv == \A t \in Templates : IInv /\ Call(t) => IInv'
<1> SUFFICES ASSUME NEW t \in Templates, IInv, Call(t) PROVE IInv'
  OBVIOUS
<1> DEFINE u == RedirectFrom(t)
           frame == ScopeOfArguments(Top.frame, u)
<1>1. stack # <<>> /\ Top.kind = "target" /\ u \in Titles
  BY Constants DEF Call, In
<1>2. /\ Top.frame \in Frames /\ depth \in Nat /\ FrameDepth(Top.frame) \in Nat
      /\ FrameDepth(Top.frame) <= depth - 1
  BY <1>1, TopFacts DEF Adds, Bare
<1>3. frame \in Frames /\ FrameDepth(frame) = FrameDepth(Top.frame) + 1
  <2>1. root_title(Top.frame) \in Titles
    BY <1>2, Constants, FrameFacts
  <2> QED
    BY <1>2, <2>1, FrameFacts DEF ScopeOfArguments
<1>4. /\ Become("args", frame, u) /\ outcome' = Nothing
      /\ UNCHANGED <<nodes, depth, luaDepth, moduleScope>>
  BY DEF Call
<1>5. FrameDepth(frame) <= depth - Adds("args", Bare)
  BY <1>2, <1>3 DEF Adds, Bare
<1> HIDE DEF frame, u
<1> QED
  BY <1>1, <1>3, <1>4, <1>5, BecomeInv

\* The body takes the place of the argument values, at the same depth.
LEMMA BodyInv == IInv /\ Body => IInv'
<1> SUFFICES ASSUME IInv, Body PROVE IInv'
  OBVIOUS
<1> DEFINE frame == new_child(SubSeq(Top.frame, 1, Len(Top.frame) - 1), Top.title)
<1>1. stack # <<>> /\ Top.kind = "args"
  BY DEF Body, In
<1>2. /\ Top.frame \in Frames /\ Top.title \in Titles /\ depth \in Nat
      /\ FrameDepth(Top.frame) \in Nat /\ FrameDepth(Top.frame) <= depth
  BY <1>1, TopFacts DEF Adds, Bare
<1>3. frame \in Frames /\ FrameDepth(frame) = FrameDepth(Top.frame)
  BY <1>2, SiblingFacts
<1>4. /\ Become("body", frame, Top.title) /\ outcome' = Nothing
      /\ UNCHANGED <<nodes, depth, luaDepth, moduleScope>>
  BY DEF Body
<1>5. FrameDepth(frame) <= depth - Adds("body", Bare)
  BY <1>2, <1>3 DEF Adds, Bare
<1> HIDE DEF frame
<1> QED
  BY <1>1, <1>2, <1>3, <1>4, <1>5, BecomeInv

\* A parser function's branch is walked in the frame of the call.
LEMMA FunctionInv == IInv /\ Function => IInv'
<1> SUFFICES ASSUME IInv, Function PROVE IInv'
  OBVIOUS
<1>1. stack # <<>> /\ Top.kind = "target"
  BY DEF Function, In
<1>2. Top.frame \in Frames /\ FrameDepth(Top.frame) <= depth - Adds("branch", Bare)
  BY <1>1, TopFacts DEF Adds, Bare
<1>3. /\ Become("branch", Top.frame, Page) /\ outcome' = Nothing
      /\ UNCHANGED <<nodes, depth, luaDepth, moduleScope>>
  BY DEF Function
<1> QED
  BY <1>1, <1>2, <1>3, Constants, BecomeInv

\* A module runs in the frame of the call.
LEMMA InvokeInv == IInv /\ Invoke => IInv'
<1> SUFFICES ASSUME IInv, Invoke PROVE IInv'
  OBVIOUS
<1>1. stack # <<>> /\ Top.kind = "target"
  BY DEF Invoke, In
<1>2. Top.frame \in Frames /\ FrameDepth(Top.frame) <= depth - Adds("module", Bare)
  BY <1>1, TopFacts DEF Adds, Bare
<1>3. /\ Become("module", Top.frame, Page) /\ outcome' = Nothing
      /\ UNCHANGED <<nodes, depth, luaDepth, moduleScope>>
  BY DEF Invoke
<1> QED
  BY <1>1, <1>2, <1>3, Constants, BecomeInv

\* A default gives back nothing.
LEMMA EndDefaultInv == IInv /\ EndDefault => IInv'
<1> SUFFICES ASSUME IInv, EndDefault PROVE IInv'
  OBVIOUS
<1>1. depth \in Nat /\ luaDepth \in Nat /\ moduleScope \in Nat /\ stack # <<>>
  BY TopFacts DEF EndDefault, In
<1>2. /\ stack # <<>> /\ stack' = Below /\ nodes' = nodes /\ outcome' = Nothing
      /\ depth' = depth - Adds(Top.kind, Charged)
      /\ luaDepth' = luaDepth - Adds(Top.kind, {"answer"})
      /\ moduleScope' = moduleScope - Adds(Top.kind, {"output"})
  BY <1>1 DEF EndDefault, In, Adds, Charged
<1> QED
  BY <1>2, NothingFacts, EndInv

\* An argument of a module gives back nothing.
LEMMA EndValueInv == IInv /\ EndValue => IInv'
<1> SUFFICES ASSUME IInv, EndValue PROVE IInv'
  OBVIOUS
<1>1. depth \in Nat /\ luaDepth \in Nat /\ moduleScope \in Nat /\ stack # <<>>
  BY TopFacts DEF EndValue, In
<1>2. /\ stack # <<>> /\ stack' = Below /\ nodes' = nodes /\ outcome' = Nothing
      /\ depth' = depth - Adds(Top.kind, Charged)
      /\ luaDepth' = luaDepth - Adds(Top.kind, {"answer"})
      /\ moduleScope' = moduleScope - Adds(Top.kind, {"output"})
  BY <1>1 DEF EndValue, In, Adds, Charged
<1> QED
  BY <1>2, NothingFacts, EndInv

\* A frame request gives back its Lua depth.
LEMMA EndAnswerInv == IInv /\ EndAnswer => IInv'
<1> SUFFICES ASSUME IInv, EndAnswer PROVE IInv'
  OBVIOUS
<1>1. depth \in Nat /\ luaDepth \in Nat /\ moduleScope \in Nat /\ stack # <<>>
  BY TopFacts DEF EndAnswer, In
<1>2. /\ stack # <<>> /\ stack' = Below /\ nodes' = nodes /\ outcome' = Nothing
      /\ depth' = depth - Adds(Top.kind, Charged)
      /\ luaDepth' = luaDepth - Adds(Top.kind, {"answer"})
      /\ moduleScope' = moduleScope - Adds(Top.kind, {"output"})
  BY <1>1 DEF EndAnswer, In, Adds, Charged, LuaDepthLeft
<1> QED
  BY <1>2, NothingFacts, EndInv

\* A body or a branch gives back the node of its call.
LEMMA EndTokenInv == IInv /\ EndToken => IInv'
<1> SUFFICES ASSUME IInv, EndToken PROVE IInv'
  OBVIOUS
<1>1. depth \in Nat /\ luaDepth \in Nat /\ moduleScope \in Nat /\ stack # <<>>
  BY TopFacts DEF EndToken, In
<1>2. /\ stack # <<>> /\ stack' = Below /\ nodes' = nodes /\ outcome' = Nothing
      /\ depth' = depth - Adds(Top.kind, Charged)
      /\ luaDepth' = luaDepth - Adds(Top.kind, {"answer"})
      /\ moduleScope' = moduleScope - Adds(Top.kind, {"output"})
  BY <1>1 DEF EndToken, In, Adds, Charged, leave_pp_node
<1> QED
  BY <1>2, NothingFacts, EndInv

\* A call answered in its place: only a call from a frame that nests too deeply
\* is answered with "too_deep".
LEMMA AnsweredInv ==
    ASSUME IInv, In("target"),
           NEW what \in {"loop", "too_deep", "link"}, NEW t \in Titles,
           AnswerInPlace(what, t),
           MaxExpandDepth <= MaxTemplateDepth => what # "too_deep"
    PROVE  IInv'
<1>1. stack # <<>> /\ Top.kind = "target"
  BY DEF In
<1>2. depth \in Nat /\ luaDepth \in Nat /\ moduleScope \in Nat
  BY <1>1, TopFacts
<1>3. /\ stack' = Below /\ nodes' = nodes
      /\ depth' = depth - Adds(Top.kind, Charged)
      /\ luaDepth' = luaDepth - Adds(Top.kind, {"answer"})
      /\ moduleScope' = moduleScope - Adds(Top.kind, {"output"})
  <2>1. /\ Adds(Top.kind, Charged) = 1
        /\ Adds(Top.kind, {"answer"}) = 0 /\ Adds(Top.kind, {"output"}) = 0
    BY <1>1 DEF Adds, Charged
  <2>2. /\ stack' = Below /\ nodes' = nodes /\ depth' = depth - 1
        /\ luaDepth' = luaDepth /\ moduleScope' = moduleScope
    BY DEF AnswerInPlace, leave_pp_node
  <2> QED
    BY <1>2, <2>1, <2>2
<1>4. outcome' = [what |-> what, title |-> t]
  BY DEF AnswerInPlace, Replaced
<1>5. outcome' \in Outcomes /\ outcome'.what = what
  BY <1>4 DEF Outcomes
<1> QED
  BY <1>1, <1>3, <1>5, EndInv

\* A call refused by enforce_template_constraints gives back its node.
LEMMA CallRefusedInv == \A t \in Templates : IInv /\ CallRefused(t) => IInv'
<1> SUFFICES ASSUME NEW t \in Templates, IInv, CallRefused(t) PROVE IInv'
  OBVIOUS
<1>1. PICK what \in Checks(Top.frame, t) : AnswerInPlace(what, t)
  BY DEF CallRefused
<1>2. what \in {"loop", "too_deep"}
  BY <1>1 DEF Checks, Refusal
<1>3. stack # <<>> /\ Top.kind = "target" /\ In("target")
  BY DEF CallRefused, In
<1>4. MaxExpandDepth <= MaxTemplateDepth => what # "too_deep"
  <2>1. what = "too_deep" => FrameDepth(Top.frame) > MaxTemplateDepth
    BY <1>1 DEF Checks, Refusal, DepthExceeded
  <2>2. /\ FrameDepth(Top.frame) \in Nat /\ depth \in Nat
        /\ FrameDepth(Top.frame) <= depth - 1 /\ depth <= MaxExpandDepth + 1
    BY <1>3, TopFacts DEF Adds, Bare, Limited
  <2> QED
    <3> SUFFICES ASSUME what = "too_deep", MaxExpandDepth <= MaxTemplateDepth
                 PROVE  FALSE
      OBVIOUS
    <3>1. FrameDepth(Top.frame) > MaxTemplateDepth
      BY <2>1
    <3> QED
      BY <2>2, <3>1, Limits
<1> QED
  BY <1>1, <1>2, <1>3, <1>4, Constants, AnsweredInv

\* A call of a missing page gives back its node.
LEMMA CallMissingInv == \A t \in Templates : IInv /\ CallMissing(t) => IInv'
BY Constants, AnsweredInv DEF CallMissing

\* The output of a module ends together with its call.
LEMMA EndOutputInv == IInv /\ EndOutput => IInv'
<1> SUFFICES ASSUME IInv, EndOutput PROVE IInv'
  OBVIOUS
<1> DEFINE n == Len(stack) - 1
<1>1. stack # <<>> /\ Top.kind = "output" /\ StackInv(stack)
  BY DEF EndOutput, In, IInv
<1>2. /\ stack \in Seq(Activations) /\ Len(stack) \in Nat \ {0}
      /\ Fits(stack, Len(stack))
  BY <1>1, TopCounts
<1>3. Len(stack) > 1 /\ stack[n].kind = "module"
  BY <1>1, <1>2 DEF Fits, Top, OfModule
<1>4. /\ n \in Nat \ {0} /\ n - 1 \in Nat /\ n - 1 \in 0..Len(stack)
      /\ n + 1 = Len(stack) /\ (n - 1) + 1 = n
  <2> DEFINE l == Len(stack)
  <2>1. l \in Nat /\ l > 1
    BY <1>2, <1>3
  <2> HIDE DEF l
  <2>2. /\ l - 1 \in Nat \ {0} /\ (l - 1) - 1 \in Nat /\ (l - 1) - 1 \in 0..l
        /\ (l - 1) + 1 = l /\ ((l - 1) - 1) + 1 = l - 1
    BY <2>1
  <2> QED
    BY <2>2 DEF l
<1>5. stack' = SubSeq(stack, 1, n - 1)
  BY <1>2 DEF EndOutput
<1> HIDE DEF n
<1>6. /\ StackInv(stack') /\ Len(stack') = n - 1
      /\ \A K : Cnt(stack', K, n - 1) = Cnt(stack, K, n - 1)
  BY <1>1, <1>4, <1>5, CutFits
<1>7. ASSUME NEW K
      PROVE  /\ Cnt(stack', K, Len(stack')) \in Nat
             /\ Cnt(stack, K, Len(stack))
                  = Cnt(stack', K, Len(stack')) + Adds("module", K) + Adds("output", K)
  <2>1. /\ Cnt(stack, K, n - 1) \in Nat
        /\ Cnt(stack, K, (n - 1) + 1) = Cnt(stack, K, n - 1) + Adds(stack[(n - 1) + 1].kind, K)
    BY <1>4, CntStep
  <2>2. /\ Cnt(stack, K, n) \in Nat
        /\ Cnt(stack, K, n + 1) = Cnt(stack, K, n) + Adds(stack[n + 1].kind, K)
    BY <1>4, CntStep
  <2>3. stack[n + 1].kind = "output" /\ stack[(n - 1) + 1].kind = "module"
    BY <1>1, <1>3, <1>4 DEF Top
  <2>4. Adds("module", K) \in Nat /\ Adds("output", K) \in Nat
    BY DEF Adds
  <2> QED
    BY <1>4, <1>6, <2>1, <2>2, <2>3, <2>4
<1>8. /\ depth' = depth - 1 /\ moduleScope' = moduleScope - 1
      /\ luaDepth' = luaDepth /\ nodes' = nodes /\ outcome' = Nothing
  BY DEF EndOutput, leave_pp_node
<1>9. Balanced'
  BY <1>7, <1>8 DEF IInv, Balanced, Adds, Charged
<1>10. Limited'
  <2>1. /\ depth \in Nat /\ depth <= MaxExpandDepth + 1 /\ luaDepth <= MaxLuaDepth
    BY <1>1, TopFacts DEF Limited
  <2> QED
    <3>1. depth' <= MaxExpandDepth + 1 /\ luaDepth' <= MaxLuaDepth
      BY <1>8, <2>1, Limits
    <3> QED
      BY <1>8, <3>1, NothingFacts DEF Limited
<1> QED
  BY <1>6, <1>8, <1>9, <1>10, NothingFacts DEF IInv

\* When the page ends nothing is counted.
LEMMA EndPageInv == IInv /\ EndPage => IInv'
<1> SUFFICES ASSUME IInv, EndPage PROVE IInv'
  OBVIOUS
<1>1. stack # <<>> /\ Top.kind = "page"
  BY DEF EndPage, In
<1>2. Len(stack) = 1 /\ stack \in Seq(Activations) /\ Top = stack[1]
  BY <1>1, TopCounts DEF IInv, Fits, Top
<1>3. /\ stack' = <<>> /\ depth' = depth /\ luaDepth' = luaDepth
      /\ moduleScope' = moduleScope /\ nodes' = nodes /\ outcome' = Nothing
  BY DEF EndPage
<1>4. ASSUME NEW K, "page" \notin K
      PROVE  Cnt(stack, K, Len(stack)) = 0 /\ Cnt(stack', K, Len(stack')) = 0
  <2>1. /\ Cnt(stack, K, 0) = 0 /\ Cnt(stack', K, 0) = 0
        /\ Cnt(stack, K, 0 + 1) = Cnt(stack, K, 0) + Adds(stack[0 + 1].kind, K)
    BY CntStep
  <2>2. Adds(stack[0 + 1].kind, K) = 0
    BY <1>1, <1>2, <1>4 DEF Adds
  <2>3. Len(stack') = 0
    BY <1>3
  <2> QED
    BY <1>2, <2>1, <2>2, <2>3
<1>5. Balanced'
  BY <1>3, <1>4 DEF IInv, Balanced, Charged
<1>6. StackInv(stack')
  BY <1>3 DEF StackInv
<1>7. Limited'
  BY <1>3, NothingFacts DEF IInv, Limited
<1> QED
  BY <1>3, <1>5, <1>6, <1>7, NothingFacts DEF IInv

\* Every step keeps the invariant.
LEMMA StepInv == IInv /\ [Next]_vars => IInv'
<1> SUFFICES ASSUME IInv, [Next]_vars PROVE IInv'
  OBVIOUS
<1>1. CASE TokenOverNodes \/ TokenOverDepth \/ RequestRefused
  BY <1>1, InPlaceInv
<1>2. CASE TemplateToken
  BY <1>2, TemplateTokenInv
<1>3. CASE ArgumentToken
  BY <1>3, ArgumentTokenInv
<1>4. CASE EndDefault
  BY <1>4, EndDefaultInv
<1>5. ASSUME NEW t \in Templates, CallRefused(t) \/ CallMissing(t) \/ Call(t)
      PROVE  IInv'
  BY <1>5, CallRefusedInv, CallMissingInv, CallInv
<1>6. CASE Body \/ Function \/ EndToken
  BY <1>6, BodyInv, FunctionInv, EndTokenInv
<1>7. CASE Invoke \/ ReadArgument \/ EndValue
  BY <1>7, InvokeInv, ReadArgumentInv, EndValueInv
<1>8. CASE Request \/ EndAnswer
  BY <1>8, RequestInv, EndAnswerInv
<1>9. CASE Return \/ EndOutput
  BY <1>9, ReturnInv, EndOutputInv
<1>10. CASE EndPage
  BY <1>10, EndPageInv
<1>11. CASE UNCHANGED vars
  BY <1>11 DEF vars, IInv, StackInv, Fits, Balanced, Limited
<1> QED
  BY <1>1, <1>2, <1>3, <1>4, <1>5, <1>6, <1>7, <1>8, <1>9, <1>10, <1>11 DEF Next

\* The invariant holds in every state of every page.
THEOREM Invariance == Spec => []IInv
<1>1. IInv /\ [Next]_vars => IInv'
  BY StepInv
<1> QED
  BY InitInv, <1>1, PTL DEF Spec

-----------------------------------------------------------------------------
(* What follows from it. *)

\* Whatever the page and the templates call, no counter of the parser drops
\* below zero and every frame is a chain of scopes named for titles.
THEOREM TypeCorrect == Spec => []TypeOK
<1>1. IInv => TypeOK
  <2> SUFFICES ASSUME IInv PROVE TypeOK
    OBVIOUS
  <2>1. stack \in Seq(Activations) /\ Len(stack) \in Nat
    BY DEF IInv, StackInv
  <2>2. \A K : Cnt(stack, K, Len(stack)) \in Nat
    BY <2>1, CntStep
  <2> QED
    BY <2>1, <2>2 DEF IInv, Balanced, TypeOK
<1> QED
  BY <1>1, Invariance, PTL

\* The counters of leave_pp_node, of the frame requests and of module output
\* are the numbers of activations that are open, in every state of every page.
THEOREM CountersCorrect == Spec => []CountersUnwind
<1>1. IInv => CountersUnwind
  <2> SUFFICES ASSUME IInv PROVE CountersUnwind
    OBVIOUS
  <2>1. Cnt(stack, Charged, Len(stack)) = Cardinality(Charges(Len(stack)))
    BY DEF Cnt, Charges
  <2>2. ASSUME NEW kind
        PROVE  Cnt(stack, {kind}, Len(stack)) = Cardinality(Open(kind))
    <3>1. {i \in 1..Len(stack) : stack[i].kind \in {kind}} = Open(kind)
      BY DEF Open
    <3> QED
      BY <3>1 DEF Cnt
  <2> QED
    BY <2>1, <2>2 DEF IInv, Balanced, CountersUnwind
<1> QED
  BY <1>1, Invariance, PTL

\* The recursion of the expansion is bounded by max_pp_expand_depth alone: no
\* wiki makes the stack of activations longer. Frame requests never nest deeper
\* than max_lua_expansion_depth, although each may call a template that invokes
\* a module that makes another.
THEOREM RecursionBounded == Spec => []NestingBounded
<1>1. IInv => ExpansionBounded
  <2> SUFFICES ASSUME IInv PROVE ExpansionBounded
    OBVIOUS
  <2>1. depth \in Nat /\ depth <= MaxExpandDepth + 1 /\ Len(stack) \in Nat
    <3>1. \A K : Cnt(stack, K, Len(stack)) \in Nat
      BY CntStep DEF IInv, StackInv
    <3> QED
      BY <3>1 DEF IInv, StackInv, Balanced, Limited
  <2>2. CASE stack = <<>>
    <3>1. Len(stack) = 0
      BY <2>2
    <3> QED
      BY <2>1, <3>1 DEF ExpansionBounded
  <2>3. CASE stack # <<>>
    <3>1. /\ Fits(stack, Len(stack)) /\ Cnt(stack, Charged, Len(stack)) = depth
      BY <2>3, TopCounts DEF IInv, Balanced
    <3>2. Len(stack) <= 3 * depth + Slack(Top.kind)
      BY <3>1 DEF Fits, Top
    <3>3. Slack(Top.kind) \in 0..2
      BY DEF Slack
    <3> QED
      BY <2>1, <3>2, <3>3 DEF ExpansionBounded
  <2> QED
    BY <2>2, <2>3
<1>2. IInv /\ CountersUnwind => AnswersBounded
  BY DEF IInv, Limited, CountersUnwind, AnswersBounded
<1>3. IInv /\ CountersUnwind => NestingBounded
  BY <1>1, <1>2 DEF NestingBounded
<1> QED
  BY <1>3, Invariance, CountersCorrect, PTL

\* With the default limits the template depth of the frames is never reached.
THEOREM DepthErrorUnreachable == Spec => []NeverTooDeep
<1>1. IInv => NeverTooDeep
  BY DEF IInv, Limited, NeverTooDeep
<1> QED
  BY <1>1, Invariance, PTL

-----------------------------------------------------------------------------
(* No template is expanded inside its own body.  The loop check looks at    *)
(* one frame, the property at the stack.  What connects them is that the    *)
(* frame of every position names each body that is open at it or below      *)
(* (Names): frames grow with the stack and lose a scope only where the      *)
(* values of a call are done and its body is entered.                       *)


\* The frame that an activation's chunk, or the body that follows it, is in.
Base(e) == IF e.kind = "args" THEN SubSeq(e.frame, 1, Len(e.frame) - 1)
                              ELSE e.frame

Names(e, t) == LoopDetected(Base(e), t)

\* The title is of no body below n, or a module's output lies below n.
Fresh(s, n, t) ==
    \A i \in 1..(n - 1) :
        s[i].kind = "body" /\ s[i].title = t
            => \E k \in 1..(n - 1) : s[k].kind = "output"

Entered(s, n) ==
    /\ Base(s[n]) # <<>>
    /\ \A i \in 1..n : s[i].kind = "body" => Names(s[n], s[i].title)
    /\ s[n].kind \in {"args", "body"} => Fresh(s, n, s[n].title)

Reentry == \A n \in 1..Len(stack) : Entered(stack, n)

-----------------------------------------------------------------------------
\* Activations are in a frame that is not empty.
LEMMA FrameOf ==
  ASSUME NEW e \in Activations
  PROVE  /\ e.kind \in Kinds /\ e.title \in Titles
         /\ e.frame \in Seq([title : Titles, derived : BOOLEAN])
         /\ Len(e.frame) \in Nat \ {0}
  BY DEF Activations, Frames

\* A longer frame names what its beginning names, and its last scope.
LEMMA Longer ==
  ASSUME NEW f \in Seq([title : Titles, derived : BOOLEAN]), f # <<>>,
         NEW x \in [title : Titles, derived : BOOLEAN]
  PROVE  /\ \A t : LoopDetected(f, t) => LoopDetected(Append(f, x), t)
         /\ LoopDetected(Append(f, x), x.title)
         /\ SubSeq(Append(f, x), 1, Len(Append(f, x)) - 1) = f
         /\ Append(f, x) # <<>>
<1> DEFINE g == Append(f, x)
<1>1. /\ Len(f) \in Nat \ {0} /\ Len(g) = Len(f) + 1 /\ g[Len(f) + 1] = x
      /\ \A i \in 1..Len(f) : g[i] = f[i]
      /\ g # <<>>
  OBVIOUS
<1>2. SubSeq(g, 1, Len(g) - 1) = f
  OBVIOUS
<1> HIDE DEF g
<1>3. ASSUME NEW t, LoopDetected(f, t) PROVE LoopDetected(g, t)
  BY <1>1, <1>3 DEF LoopDetected
<1>4. LoopDetected(g, x.title)
  BY <1>1 DEF LoopDetected
<1>5. /\ \A t : LoopDetected(f, t) => LoopDetected(g, t)
      /\ LoopDetected(g, x.title)
      /\ SubSeq(g, 1, Len(g) - 1) = f /\ g # <<>>
  BY <1>1, <1>2, <1>3, <1>4
<1> QED BY <1>5 DEF g

\* A position depends on those below it only.
LEMMA EnteredSame ==
  ASSUME NEW s, NEW t, NEW n \in Nat, \A i \in 1..n : s[i] = t[i],
         NEW j \in 1..n, Entered(s, j)
  PROVE  Entered(t, j)
<1>1. \A i \in 1..j : s[i] = t[i] /\ s[j] = t[j]
  OBVIOUS
<1>2. \A i \in 1..(j - 1) : i \in 1..j
  OBVIOUS
<1>3. s[j].kind \in {"args", "body"} => Fresh(t, j, t[j].title)
  BY <1>1, <1>2 DEF Entered, Fresh
<1> QED BY <1>1, <1>3 DEF Entered

\* Cutting the stack keeps the invariant.
LEMMA CutReentry ==
  ASSUME IInv, Reentry, NEW m \in 0..Len(stack), stack' = SubSeq(stack, 1, m)
  PROVE  Reentry'
<1>1. stack \in Seq(Activations)
  BY DEF IInv, StackInv
<1>2. Len(stack') = m /\ \A i \in 1..m : stack[i] = stack'[i]
  BY <1>1
<1>3. m \in Nat /\ 1..m \subseteq 1..Len(stack)
  BY <1>1
<1> QED BY <1>2, <1>3, EnteredSame DEF Reentry

\* So does an activation on top of what is left.
LEMMA NewTop ==
  ASSUME IInv, Reentry, NEW m \in 0..Len(stack), NEW e \in Activations,
         stack' = Append(SubSeq(stack, 1, m), e),
         Base(e) # <<>>,
         \A i \in 1..m : stack[i].kind = "body" => Names(e, stack[i].title),
         e.kind = "body" => Names(e, e.title),
         e.kind \in {"args", "body"} => Fresh(stack, m + 1, e.title)
  PROVE  Reentry'
<1>1. stack \in Seq(Activations) /\ m \in Nat /\ 1..m \subseteq 1..Len(stack)
  BY DEF IInv, StackInv
<1>2. /\ Len(stack') = m + 1 /\ stack'[m + 1] = e
      /\ \A i \in 1..m : stack[i] = stack'[i]
  BY <1>1
<1>3. \A j \in 1..m : Entered(stack', j)
  BY <1>1, <1>2, EnteredSame DEF Reentry
<1>4. (m + 1) - 1 = m
  BY <1>1
<1>5. e.kind \in {"args", "body"} => Fresh(stack', m + 1, e.title)
  BY <1>2, <1>4 DEF Fresh
<1>6. \A i \in 1..(m + 1) : i = m + 1 \/ i \in 1..m
  BY <1>1
<1>7. Entered(stack', m + 1)
  BY <1>2, <1>5, <1>6 DEF Entered
<1> QED BY <1>2, <1>3, <1>6, <1>7 DEF Reentry

\* What the invariant says of the top.
LEMMA TopReentry ==
  ASSUME IInv, Reentry, stack # <<>>
  PROVE  /\ Len(stack) \in Nat \ {0} /\ Top \in Activations
         /\ Base(Top) # <<>>
         /\ Base(Top) \in Seq([title : Titles, derived : BOOLEAN])
         /\ \A i \in 1..Len(stack) :
               stack[i].kind = "body" => Names(Top, stack[i].title)
         /\ Top.kind \in {"args", "body"} => Fresh(stack, Len(stack), Top.title)
<1>1. stack \in Seq(Activations) /\ Len(stack) \in Nat \ {0}
  BY DEF IInv, StackInv
<1>2. Top \in Activations /\ Entered(stack, Len(stack))
  BY <1>1 DEF Top, Reentry
<1>3. Base(Top) \in Seq([title : Titles, derived : BOOLEAN])
  <2> DEFINE R == [title : Titles, derived : BOOLEAN]
  <2>1. Top.frame \in Seq(R) /\ Top.frame # <<>>
    BY <1>2, FrameOf DEF Activations, Frames
  <2> HIDE DEF R
  <2>2. SubSeq(Top.frame, 1, Len(Top.frame) - 1) \in Seq(R)
    BY <2>1, EndsOfSeq
  <2> QED BY <2>1, <2>2 DEF Base, R
<1> QED BY <1>1, <1>2, <1>3 DEF Entered, Top

\* An activation of another kind on top, in the frame below or a longer one.
LEMMA PushReentry ==
  ASSUME IInv, Reentry, stack # <<>>,
         NEW kind \in Kinds \ {"args", "body"}, NEW frame \in Frames,
         \A t : Names(Top, t) => LoopDetected(frame, t),
         Push(kind, frame)
  PROVE  Reentry'
<1> DEFINE e == Doing(kind, frame, Page)
<1>1. /\ e \in Activations /\ e.kind = kind /\ e.frame = frame
  BY DEF Doing, Activations, Titles
<1>2. stack \in Seq(Activations)
  BY DEF IInv, StackInv
<1>3. /\ Len(stack) \in 0..Len(stack)
      /\ SubSeq(stack, 1, Len(stack)) = stack
  BY <1>2
<1>4. stack' = Append(SubSeq(stack, 1, Len(stack)), e)
  BY <1>3 DEF Push
<1> HIDE DEF e
<1>5. Base(e) = frame /\ frame # <<>>
  BY <1>1 DEF Base, Frames
<1>6. \A i \in 1..Len(stack) :
          stack[i].kind = "body" => Names(e, stack[i].title)
  BY <1>5, TopReentry DEF Names
<1> QED BY <1>1, <1>3, <1>4, <1>5, <1>6, NewTop

\* A template token that turns into what its target says it is.
LEMMA BecomeReentry ==
  ASSUME IInv, Reentry, stack # <<>>,
         NEW kind \in {"args", "body", "branch", "module"},
         NEW frame \in Frames, NEW t \in Titles,
         Become(kind, frame, t),
         Base(Doing(kind, frame, t)) # <<>>,
         \A u : Names(Top, u) => Names(Doing(kind, frame, t), u),
         kind = "body" => LoopDetected(frame, t),
         kind \in {"args", "body"} => Fresh(stack, Len(stack), t)
  PROVE  Reentry'
<1> DEFINE e == Doing(kind, frame, t)
           m == Len(stack) - 1
<1>1. e \in Activations /\ e.kind = kind /\ e.frame = frame /\ e.title = t
  BY DEF Doing, Activations, Kinds, Chunks
<1>2. /\ Len(stack) \in Nat \ {0}
      /\ \A i \in 1..Len(stack) :
             stack[i].kind = "body" => Names(Top, stack[i].title)
  BY TopReentry
<1>3. m \in 0..Len(stack) /\ m + 1 = Len(stack) /\ 1..m \subseteq 1..Len(stack)
  BY <1>2
<1>4. stack' = Append(SubSeq(stack, 1, m), e)
  BY DEF Become, Below
<1>5. \A u : Names(Top, u) => Names(e, u)
  OBVIOUS
<1>6. Base(e) # <<>>
  OBVIOUS
<1> HIDE DEF e, m
<1>7. e.kind = "body" => Names(e, e.title)
  BY <1>1 DEF Names, Base
<1>8. \A i \in 1..m : stack[i].kind = "body" => Names(e, stack[i].title)
  BY <1>2, <1>3, <1>5
<1> QED BY <1>1, <1>3, <1>4, <1>6, <1>7, <1>8, NewTop

-----------------------------------------------------------------------------
(* The steps. *)

\* A chunk, or an answer to a module, in a frame with one scope more at most.
LEMMA PushSteps ==
  ASSUME IInv, Reentry,
         TemplateToken \/ ArgumentToken \/ ReadArgument \/ Request \/ Return
  PROVE  Reentry'
<1>1. stack # <<>>
  BY DEF TemplateToken, ArgumentToken, ReadArgument, Request, Return, Walking, In
<1>2. /\ Top \in Activations
      /\ Base(Top) # <<>>
      /\ Base(Top) \in Seq([title : Titles, derived : BOOLEAN])
  BY <1>1, TopReentry
<1>3. /\ Top.frame \in Frames
      /\ Top.frame \in Seq([title : Titles, derived : BOOLEAN])
      /\ Top.frame # <<>>
      /\ Len(Top.frame) \in Nat \ {0}
  BY <1>2, FrameOf DEF Activations, Frames
<1>4. \A t : Names(Top, t) => LoopDetected(Top.frame, t)
  <2> SUFFICES ASSUME NEW t, Top.kind = "args", Names(Top, t)
               PROVE  LoopDetected(Top.frame, t)
    BY DEF Names, Base
  <2> DEFINE f == Top.frame
             b == SubSeq(f, 1, Len(f) - 1)
  <2>1. PICK j \in 2..Len(b) : b[j].title = t
    BY DEF Names, Base, LoopDetected
  <2>2. /\ Len(b) = Len(f) - 1 /\ \A i \in 1..Len(b) : b[i] = f[i]
    BY <1>3
  <2> HIDE DEF f, b
  <2>3. Len(f) \in Nat
    BY <1>3 DEF f
  <2>4. j \in 2..Len(f) /\ f[j].title = t
    BY <2>1, <2>2, <2>3
  <2>5. LoopDetected(f, t)
    BY <2>4 DEF LoopDetected
  <2> QED BY <2>5 DEF f
<1>5. ASSUME NEW d \in BOOLEAN
      PROVE  LET g == Append(Top.frame, Scope(title_of(Top.frame), d))
             IN  /\ g \in Frames
                 /\ \A t : Names(Top, t) => LoopDetected(g, t)
  <2> DEFINE x == Scope(title_of(Top.frame), d)
             g == Append(Top.frame, x)
  <2>1. x \in [title : Titles, derived : BOOLEAN]
    BY <1>3, FrameFacts, Constants DEF Scope
  <2> HIDE DEF x
  <2>2. g \in Frames
    BY <1>3, <2>1 DEF Frames
  <2>3. \A t : LoopDetected(Top.frame, t) => LoopDetected(g, t)
    BY <1>3, <2>1, Longer
  <2> HIDE DEF g
  <2> QED BY <1>4, <2>2, <2>3 DEF g, x
<1>6. CASE TemplateToken \/ ArgumentToken
  <2>1. PICK kind \in {"target", "default"} : Push(kind, Top.frame)
    BY <1>6 DEF TemplateToken, ArgumentToken
  <2>2. kind \in Kinds \ {"args", "body"}
    BY DEF Kinds, Chunks
  <2> QED BY <1>1, <1>3, <1>4, <2>1, <2>2, PushReentry
<1>7. CASE ReadArgument \/ Request \/ Return
  <2>1. PICK kind \in {"value", "answer", "output"}, d \in BOOLEAN :
            Push(kind, Append(Top.frame, Scope(title_of(Top.frame), d)))
    BY <1>7 DEF ReadArgument, Request, Return, new_child, new_derived_child
  <2>2. kind \in Kinds \ {"args", "body"}
    BY DEF Kinds, Chunks
  <2> DEFINE g == Append(Top.frame, Scope(title_of(Top.frame), d))
  <2>3. g \in Frames /\ \A t : Names(Top, t) => LoopDetected(g, t)
    BY <1>5
  <2>4. Push(kind, g)
    BY <2>1
  <2> HIDE DEF g
  <2> QED BY <1>1, <2>2, <2>3, <2>4, PushReentry
<1> QED BY <1>6, <1>7

\* A call that is not refused is of a title none of the open bodies has, or
\* below it the output of a module is walked.
LEMMA CallReentry ==
  ASSUME IInv, Reentry, NEW t \in Templates, Call(t)
  PROVE  Reentry'
<1> DEFINE u == RedirectFrom(t)
           frame == ScopeOfArguments(Top.frame, u)
<1>1. /\ stack # <<>> /\ Top.kind = "target" /\ Checks(Top.frame, t) = {}
      /\ Resolves(t) /\ Become("args", frame, u)
  BY DEF Call, In
<1>2. /\ Len(stack) \in Nat \ {0} /\ Top \in Activations
      /\ \A i \in 1..Len(stack) :
               stack[i].kind = "body" => Names(Top, stack[i].title)
  BY <1>1, TopReentry
<1>3. /\ Top.frame \in Seq([title : Titles, derived : BOOLEAN])
      /\ Top.frame # <<>> /\ Top.frame \in Frames
      /\ Len(Top.frame) \in Nat \ {0}
  BY <1>2, FrameOf DEF Activations, Frames
<1>4. u \in Titles
  BY <1>1, Constants
<1>5. Refusal(Top.frame, u, moduleScope > 0) = {}
  BY <1>1 DEF Checks
<1> HIDE DEF u
<1>6. moduleScope > 0 \/ ~LoopDetected(Top.frame, u)
  BY <1>5 DEF Refusal
<1>7. Scope(root_title(Top.frame), TRUE) \in [title : Titles, derived : BOOLEAN]
  BY <1>3, FrameFacts, Constants DEF Scope
<1>8. /\ frame \in Frames
      /\ SubSeq(frame, 1, Len(frame) - 1) = Top.frame
  <2> DEFINE x == Scope(root_title(Top.frame), TRUE)
             f == Top.frame
  <2>1. frame = Append(f, x)
    BY DEF ScopeOfArguments, new_derived_child
  <2>2. /\ x \in [title : Titles, derived : BOOLEAN]
        /\ f \in Seq([title : Titles, derived : BOOLEAN]) /\ f # <<>>
    BY <1>3, <1>7
  <2> HIDE DEF frame, x, f
  <2>3. /\ SubSeq(frame, 1, Len(frame) - 1) = f
        /\ frame # <<>>
    BY <2>1, <2>2, Longer
  <2>4. frame \in Seq([title : Titles, derived : BOOLEAN])
    BY <2>1, <2>2
  <2> QED BY <2>3, <2>4 DEF Frames, f
<1> HIDE DEF frame
<1>9. Base(Doing("args", frame, u)) = Top.frame /\ Base(Top) = Top.frame
  BY <1>1, <1>8 DEF Doing, Base
<1>10. Fresh(stack, Len(stack), u)
  <2> SUFFICES ASSUME NEW i \in 1..(Len(stack) - 1),
                      stack[i].kind = "body", stack[i].title = u
               PROVE  \E k \in 1..(Len(stack) - 1) : stack[k].kind = "output"
    BY DEF Fresh
  <2>1. LoopDetected(Top.frame, u)
    BY <1>2, <1>9 DEF Names
  <2>2. Cnt(stack, {"output"}, Len(stack)) > 0
    BY <1>6, <2>1 DEF IInv, Balanced
  <2>3. {k \in 1..Len(stack) : stack[k].kind \in {"output"}} # {}
    <3> SUFFICES ASSUME {k \in 1..Len(stack) : stack[k].kind \in {"output"}} = {}
                 PROVE  FALSE
      OBVIOUS
    <3>1. Cnt(stack, {"output"}, Len(stack)) = 0
      BY FS_EmptySet DEF Cnt
    <3> QED BY <2>2, <3>1
  <2>4. PICK k \in 1..Len(stack) : stack[k].kind = "output"
    BY <2>3
  <2>5. k # Len(stack)
    BY <1>1, <2>4 DEF Top
  <2> QED BY <1>2, <2>4, <2>5
<1>11. \A v : Names(Top, v) => Names(Doing("args", frame, u), v)
  BY <1>9 DEF Names
<1> QED BY <1>1, <1>3, <1>4, <1>8, <1>9, <1>10, <1>11, BecomeReentry

\* The body is entered in the frame of the call with the scope of the body.
LEMMA BodyReentry ==
  ASSUME IInv, Reentry, Body
  PROVE  Reentry'
<1> DEFINE b == SubSeq(Top.frame, 1, Len(Top.frame) - 1)
           frame == new_child(b, Top.title)
<1>1. stack # <<>> /\ Top.kind = "args" /\ Become("body", frame, Top.title)
  BY DEF Body, In
<1>2. /\ Top \in Activations /\ b = Base(Top) /\ b # <<>>
      /\ b \in Seq([title : Titles, derived : BOOLEAN])
      /\ Fresh(stack, Len(stack), Top.title)
  BY <1>1, TopReentry DEF Base
<1>3. Top.title \in Titles
  BY <1>2, FrameOf
<1> HIDE DEF b
<1>4. Scope(Top.title, FALSE) \in [title : Titles, derived : BOOLEAN]
  BY <1>3 DEF Scope
<1>5. /\ \A t : LoopDetected(b, t) => LoopDetected(frame, t)
      /\ LoopDetected(frame, Scope(Top.title, FALSE).title)
      /\ frame # <<>> /\ frame \in Seq([title : Titles, derived : BOOLEAN])
  <2> DEFINE x == Scope(Top.title, FALSE)
  <2>1. frame = Append(b, x)
    BY DEF new_child
  <2>2. /\ x \in [title : Titles, derived : BOOLEAN]
        /\ b \in Seq([title : Titles, derived : BOOLEAN]) /\ b # <<>>
    BY <1>2, <1>4
  <2> HIDE DEF frame, x
  <2>3. /\ \A t : LoopDetected(b, t) => LoopDetected(frame, t)
        /\ LoopDetected(frame, x.title) /\ frame # <<>>
    BY <2>1, <2>2, Longer
  <2>4. frame \in Seq([title : Titles, derived : BOOLEAN])
    BY <2>1, <2>2
  <2> QED BY <2>3, <2>4 DEF x
<1>6. LoopDetected(frame, Top.title) /\ frame \in Frames
  BY <1>5 DEF Scope, Frames
<1> HIDE DEF frame
<1>7. Base(Doing("body", frame, Top.title)) = frame
  BY DEF Base, Doing
<1>8. \A t : Names(Top, t) => Names(Doing("body", frame, Top.title), t)
  BY <1>2, <1>5, <1>7 DEF Names
<1> QED BY <1>1, <1>2, <1>3, <1>5, <1>6, <1>7, <1>8, BecomeReentry

\* A parser function and a module stay in the frame of the token.
LEMMA StayReentry ==
  ASSUME IInv, Reentry, Function \/ Invoke
  PROVE  Reentry'
<1>1. PICK kind \in {"branch", "module"} : Become(kind, Top.frame, Page)
  BY DEF Function, Invoke
<1>2. stack # <<>> /\ Top.kind = "target"
  BY DEF Function, Invoke, In
<1>3. Top.frame \in Frames /\ Base(Top) # <<>>
  BY <1>2, TopReentry DEF Activations
<1>4. Base(Doing(kind, Top.frame, Page)) = Top.frame /\ Base(Top) = Top.frame
  BY <1>2 DEF Base, Doing
<1>5. /\ Base(Doing(kind, Top.frame, Page)) # <<>>
      /\ \A u : Names(Top, u) => Names(Doing(kind, Top.frame, Page), u)
  BY <1>3, <1>4 DEF Names
<1> QED BY <1>1, <1>2, <1>3, <1>5, Constants, BecomeReentry

\* Every step keeps the invariant.
LEMMA NextReentry == IInv /\ Reentry /\ [Next]_vars => Reentry'
<1> SUFFICES ASSUME IInv, Reentry, [Next]_vars PROVE Reentry'
  OBVIOUS
<1>1. stack \in Seq(Activations) /\ Len(stack) \in Nat
  BY DEF IInv, StackInv
<1>2. CASE UNCHANGED stack
  BY <1>2 DEF Reentry, Entered, Fresh
<1>3. CASE stack # <<>> /\ stack' = Below
  <2>1. Len(stack) - 1 \in 0..Len(stack)
    BY <1>1, <1>3
  <2> QED BY <1>3, <2>1, CutReentry DEF Below
<1>4. CASE EndOutput
  <2>1. stack' = SubSeq(stack, 1, Len(stack) - 2) /\ stack # <<>>
    BY <1>4 DEF EndOutput, In
  <2>2. Fits(stack, Len(stack)) /\ stack[Len(stack)].kind = "output"
    BY <1>1, <1>4, <2>1 DEF EndOutput, In, Top, IInv, StackInv
  <2>3. Len(stack) - 2 \in 0..Len(stack)
    BY <1>1, <2>2 DEF Fits, OfModule
  <2> QED BY <2>1, <2>3, CutReentry
<1>5. CASE EndPage
  <2>1. Len(stack') = 0
    BY <1>5 DEF EndPage
  <2> QED BY <2>1 DEF Reentry
<1>6. CASE TokenOverNodes \/ TokenOverDepth \/ RequestRefused \/ UNCHANGED vars
  BY <1>2, <1>6 DEF TokenOverNodes, TokenOverDepth, RequestRefused, vars
<1>7. CASE EndDefault \/ EndToken \/ EndValue \/ EndAnswer
  BY <1>3, <1>7 DEF EndDefault, EndToken, EndValue,
                    EndAnswer, In
<1>8. ASSUME NEW t \in Templates, CallRefused(t) \/ CallMissing(t)
      PROVE  Reentry'
  BY <1>3, <1>8 DEF CallRefused, CallMissing, AnswerInPlace, In
<1> QED BY <1>4, <1>5, <1>6, <1>7, <1>8, PushSteps, CallReentry, BodyReentry,
           StayReentry DEF Next

\* No template is expanded inside its own body, also not through a redirect,
\* unless a module's output is walked in between, whatever the templates call:
\* the two checks of a call are enough, and the scopes named for the page in
\* which values are expanded hide no body from them.
THEOREM NeverReentered == Spec => []NoReentry
<1>1. Init => Reentry
  <2> SUFFICES ASSUME Init, NEW n \in 1..Len(stack) PROVE Entered(stack, n)
    BY DEF Reentry
  <2>1. n = 1 /\ stack[1].kind = "page" /\ stack[1].frame # <<>>
    BY DEF Init, Doing
  <2> QED BY <2>1 DEF Entered, Base
<1>2. IInv /\ Reentry => NoReentry
  <2> SUFFICES ASSUME IInv, Reentry, NEW i \in Open("body"), NEW j \in Open("body"),
                      i < j, stack[i].title = stack[j].title
               PROVE  \E k \in Open("output") : k < j
    BY DEF NoReentry
  <2>1. /\ i \in Nat /\ j \in 1..Len(stack) /\ i \in 1..(j - 1)
        /\ stack[i].kind = "body" /\ stack[j].kind = "body"
        /\ Len(stack) \in Nat
    BY DEF Open, IInv, StackInv
  <2>2. Fresh(stack, j, stack[j].title)
    BY <2>1 DEF Reentry, Entered
  <2>3. PICK k \in 1..(j - 1) : stack[k].kind = "output"
    BY <2>1, <2>2 DEF Fresh
  <2>4. k \in Open("output") /\ k < j
    BY <2>1, <2>3 DEF Open
  <2> QED BY <2>4
<1> QED BY <1>1, <1>2, NextReentry, Invariance, PTL DEF Spec
=============================================================================
