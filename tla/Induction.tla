----------------------------- MODULE Induction ------------------------------
(***************************************************************************)
(* Induction over the natural numbers, functions defined by recursion, and *)
(* what they give of the sequences that Selections and FlattenSeq compute. *)
(*                                                                         *)
(* The library states induction for predicates and definitions given as    *)
(* operators.  Here it is stated for sets and functions, which is the form *)
(* the provers can use.                                                    *)
(***************************************************************************)
EXTENDS Integers, Selections, FiniteSetTheorems, SequenceTheorems, WellFoundedInduction, TLAPS

\* Intervals from 1, ordered by strict inclusion, are well founded.
LEMMA Smallest ==
  ASSUME NEW T \in SUBSET Nat, T # {}
  PROVE  \E n \in T : \A m \in T : n <= m
<1> DEFINE Intervals == {1..n : n \in T}
<1>1. Intervals \subseteq FiniteSubsetsOf(Nat)
  <2> SUFFICES ASSUME NEW n \in T PROVE 1..n \in FiniteSubsetsOf(Nat)
    OBVIOUS
  <2>1. IsFiniteSet(1..n)
    BY FS_Interval
  <2> QED
    BY <2>1 DEF FiniteSubsetsOf
<1>2. Intervals # {}
  OBVIOUS
<1>3. IsWellFoundedOn(StrictSubsetOrdering(Nat), FiniteSubsetsOf(Nat))
  BY FS_StrictSubsetOrderingWellFounded
<1>4. \E s \in Intervals : \A t \in Intervals : <<t, s>> \notin StrictSubsetOrdering(Nat)
  <2> HIDE DEF Intervals
  <2> QED
    BY <1>1, <1>2, <1>3, WFMin
<1>5. PICK n \in T : \A m \in T : <<1..m, 1..n>> \notin StrictSubsetOrdering(Nat)
  BY <1>4
<1>6. ASSUME NEW m \in T, m < n PROVE FALSE
  <2> DEFINE pair == <<1..m, 1..n>>
  <2>1. 1..m \subseteq 1..n /\ n \in 1..n /\ n \notin 1..m
    BY <1>6
  <2>2. pair \in (SUBSET Nat) \X (SUBSET Nat)
    OBVIOUS
  <2>3. pair[1] \subseteq pair[2] /\ pair[1] # pair[2]
    BY <2>1
  <2>4. pair \in StrictSubsetOrdering(Nat)
    BY <2>2, <2>3 DEF StrictSubsetOrdering
  <2> QED
    BY <1>5, <2>4
<1> QED
  BY <1>6

\* Induction from 0 up to n.
LEMMA UpTo ==
  ASSUME NEW n \in Nat, NEW S, 0 \in S, \A i \in 1..n : i - 1 \in S => i \in S
  PROVE  0..n \subseteq S
<1> SUFFICES ASSUME (0..n) \ S # {} PROVE FALSE
  OBVIOUS
<1>1. PICK i \in (0..n) \ S : \A j \in (0..n) \ S : i <= j
  <2>1. (0..n) \ S \in SUBSET Nat
    OBVIOUS
  <2> QED
    BY <2>1, Smallest
<1>2. i # 0 /\ i - 1 \in 0..n
  BY <1>1
<1> QED
  BY <1>1, <1>2

\* What the recursion F[0] = first, F[i] = step[i, F[i - 1]] up to n asks for.
StepFunctions(n, V) == [(1..n) \X V -> V]

Recurs(F, n, V, first, step) ==
  F \in [0..n -> V] /\ F[0] = first /\ \A i \in 1..n : F[i] = step[<<i, F[i - 1]>>]

\* It has a solution.
LEMMA Recursion ==
  ASSUME NEW n \in Nat, NEW V, NEW first \in V, NEW step \in StepFunctions(n, V)
  PROVE  \E F : Recurs(F, n, V, first, step)
<1> DEFINE Solves(F, k) ==
             F \in [0..k -> V] /\ F[0] = first /\ \A i \in 1..k : F[i] = step[<<i, F[i - 1]>>]
           Reached == {k \in 0..n : \E F : Solves(F, k)}
<1>1. 0 \in Reached
  <2> DEFINE F == [i \in 0..0 |-> first]
  <2>1. Solves(F, 0)
    OBVIOUS
  <2> HIDE DEF Solves, F
  <2> QED
    BY <2>1
<1>2. ASSUME NEW k \in 1..n, k - 1 \in Reached PROVE k \in Reached
  <2>1. PICK F : Solves(F, k - 1)
    BY <1>2
  <2>2. F[k - 1] \in V
    BY <2>1
  <2>3. step[<<k, F[k - 1]>>] \in V
    BY <2>2 DEF StepFunctions
  <2> DEFINE G == [i \in 0..k |-> IF i = k THEN step[<<k, F[k - 1]>>] ELSE F[i]]
  <2>4. G \in [0..k -> V] /\ G[0] = first
    BY <2>1, <2>3
  <2>5. ASSUME NEW i \in 1..k PROVE G[i] = step[<<i, G[i - 1]>>]
    <3>1. CASE i = k
      <4>1. G[k - 1] = F[k - 1] /\ G[k] = step[<<k, F[k - 1]>>]
        OBVIOUS
      <4> QED
        BY <3>1, <4>1
    <3>2. CASE i # k
      <4>1. G[i] = F[i] /\ G[i - 1] = F[i - 1] /\ i \in 1..k - 1
        BY <3>2
      <4> QED
        BY <2>1, <4>1
    <3> QED
      BY <3>1, <3>2
  <2>6. Solves(G, k)
    BY <2>4, <2>5
  <2> HIDE DEF Solves, G
  <2> QED
    BY <2>6
<1>3. 0..n \subseteq Reached
  <2> HIDE DEF Reached
  <2> QED
    BY <1>1, <1>2, UpTo
<1>4. PICK F : Solves(F, n)
  BY <1>3
<1> QED
  BY <1>4 DEF Recurs

-----------------------------------------------------------------------------
(* Sequences put together by FlattenSeq *)

Parts(n, Q) == [1..n -> Q]

\* The sequences put together so far.
Partial(F, n, Q, seqs) ==
  /\ F \in [0..n -> Q] /\ F[0] = <<>>
  /\ \A i \in 1..n : F[i] = F[i - 1] \o seqs[i]

PartialAt(F, i, n, Q, seqs) ==
  /\ i \in 0..n /\ i - 1 \in 0..n /\ (i # 1 => i - 1 \in 1..n)
  /\ F[i - 1] \in Q /\ seqs[i] \in Q /\ F[i] \in Q /\ F[i] = F[i - 1] \o seqs[i]

LEMMA PartialStep ==
  ASSUME NEW n \in Nat, NEW Q, NEW seqs \in Parts(n, Q), NEW F, Partial(F, n, Q, seqs)
  PROVE  \A i \in 1..n : PartialAt(F, i, n, Q, seqs)
BY DEF Partial, Parts, PartialAt

LEMMA PartialExists ==
  ASSUME NEW n \in Nat, NEW V, NEW seqs \in Parts(n, Seq(V))
  PROVE  \E F : Partial(F, n, Seq(V), seqs)
<1> DEFINE append == [p \in (1..n) \X Seq(V) |-> p[2] \o seqs[p[1]]]
<1>1. append \in StepFunctions(n, Seq(V))
  <2>1. ASSUME NEW p \in (1..n) \X Seq(V) PROVE p[2] \o seqs[p[1]] \in Seq(V)
    <3>1. p[2] \in Seq(V) /\ seqs[p[1]] \in Seq(V)
      BY DEF Parts
    <3> QED
      BY <3>1, ConcatProperties
  <2> QED
    BY <2>1 DEF StepFunctions
<1>2. \A i \in 1..n, s \in Seq(V) : append[<<i, s>>] = s \o seqs[i]
  OBVIOUS
<1> HIDE DEF append
<1>3. PICK F : Recurs(F, n, Seq(V), <<>>, append)
  <2>1. <<>> \in Seq(V)
    BY EmptySeq
  <2> QED
    BY <1>1, <2>1, Recursion
<1>4. Partial(F, n, Seq(V), seqs)
  <2> DEFINE Q == Seq(V)
  <2>1. \A i \in 1..n, s \in Q : append[<<i, s>>] = s \o seqs[i]
    BY <1>2
  <2>2. Recurs(F, n, Q, <<>>, append)
    BY <1>3
  <2> HIDE DEF Q
  <2>3. Partial(F, n, Q, seqs)
    <3>1. ASSUME NEW i \in 1..n PROVE F[i - 1] \in Q
      BY <2>2 DEF Recurs
    <3>2. ASSUME NEW i \in 1..n PROVE F[i] = F[i - 1] \o seqs[i]
      BY <2>1, <2>2, <3>1 DEF Recurs
    <3> QED
      BY <2>2, <3>2 DEF Recurs, Partial
  <2> QED
    BY <2>3 DEF Q
<1> QED
  BY <1>4

LEMMA FlattenPartial ==
  ASSUME NEW n \in Nat, NEW V, NEW seqs \in Parts(n, Seq(V)), NEW F, Partial(F, n, Seq(V), seqs)
  PROVE  FlattenSeq(seqs) = F[n]
<1>1. seqs \in Seq(Seq(V)) /\ Len(seqs) = n
  <2>1. seqs \in Seq(Seq(V))
    BY SeqDef DEF Parts
  <2>2. DOMAIN seqs = 1..n /\ DOMAIN seqs = 1..Len(seqs) /\ Len(seqs) \in Nat
    BY <2>1, LenProperties DEF Parts
  <2> QED
    BY <2>1, <2>2
<1>2. /\ F \in [0..n -> Seq(V)] /\ F[0] = <<>>
      /\ \A i \in 1..n : F[i] = F[i - 1] \o seqs[i]
  BY DEF Partial
<1>3. CASE n = 0
  <2>1. seqs = <<>>
    BY <1>1, <1>3, EmptySeq
  <2> QED
    BY <1>1, <1>2, <1>3, <2>1 DEF FlattenSeq
<1>4. CASE n # 0
  <2> DEFINE IsFlat(h) == h = [i \in 1..n |-> IF i = 1 THEN seqs[i] ELSE h[i - 1] \o seqs[i]]
             f == [i \in 1..n |-> F[i]]
  <2>1. FlattenSeq(seqs) = (CHOOSE h : IsFlat(h))[n]
    BY <1>1, <1>4 DEF FlattenSeq
  <2>2. F[1] = seqs[1]
    <3>1. 1 \in 1..n /\ 1 - 1 = 0 /\ seqs[1] \in Seq(V)
      BY <1>4 DEF Parts
    <3>2. F[1] = <<>> \o seqs[1]
      BY <1>2, <3>1
    <3> QED
      BY <3>1, <3>2, ConcatEmptySeq
  <2>3. IsFlat(f)
    <3>1. ASSUME NEW i \in 1..n, i # 1 PROVE i - 1 \in 1..n /\ F[i] = F[i - 1] \o seqs[i]
      <4>1. PartialAt(F, i, n, Seq(V), seqs)
        BY PartialStep
      <4> QED
        BY <3>1, <4>1 DEF PartialAt
    <3> QED
      BY <2>2, <3>1
  <2>4. ASSUME NEW h, IsFlat(h) PROVE h[n] = F[n]
    <3> DEFINE Same == {i \in 0..n : i # 0 => h[i] = F[i]}
    <3>1. ASSUME NEW i \in 1..n, i - 1 \in Same PROVE i \in Same
      <4>1. CASE i = 1
        BY <2>2, <2>4, <4>1
      <4>2. CASE i # 1
        <5>0. PartialAt(F, i, n, Seq(V), seqs)
          BY PartialStep
        <5>1. h[i] = h[i - 1] \o seqs[i] /\ F[i] = F[i - 1] \o seqs[i]
          BY <2>4, <4>2, <5>0 DEF PartialAt
        <5>2. h[i - 1] = F[i - 1] /\ i \in 0..n
          BY <3>1, <4>2
        <5>3. h[i] = F[i]
          BY <5>1, <5>2
        <5> QED
          BY <5>2, <5>3
      <4> QED
        BY <4>1, <4>2
    <3>2. 0 \in Same
      OBVIOUS
    <3>3. 0..n \subseteq Same
      <4> HIDE DEF Same
      <4> QED
        BY <3>1, <3>2, UpTo
    <3> QED
      BY <1>4, <3>3
  <2> HIDE DEF IsFlat, f
  <2> QED
    BY <2>1, <2>3, <2>4
<1> QED
  BY <1>3, <1>4

\* The items of the flattened sequence are those of its parts.
LEMMA FlattenItems ==
  ASSUME NEW n \in Nat, NEW V, NEW seqs \in Parts(n, Seq(V))
  PROVE  /\ FlattenSeq(seqs) \in Seq(V)
         /\ \A x : x \in ToSet(FlattenSeq(seqs)) <=> \E i \in 1..n : x \in ToSet(seqs[i])
<1>1. PICK F : Partial(F, n, Seq(V), seqs)
  BY PartialExists
<1>2. /\ F \in [0..n -> Seq(V)] /\ F[0] = <<>>
      /\ \A i \in 1..n : F[i] = F[i - 1] \o seqs[i]
  BY <1>1 DEF Partial
<1>3. FlattenSeq(seqs) = F[n]
  BY <1>1, FlattenPartial
<1> DEFINE Ok(i) == \A x : x \in ToSet(F[i]) <=> \E j \in 1..i : x \in ToSet(seqs[j])
           S == {i \in 0..n : Ok(i)}
<1>4. 0 \in S
  <2>1. ToSet(<<>>) = {}
    BY DEF ToSet
  <2> QED
    BY <1>2, <2>1
<1>5. ASSUME NEW i \in 1..n, i - 1 \in S PROVE i \in S
  <2>0. PartialAt(F, i, n, Seq(V), seqs)
    BY <1>1, PartialStep
  <2>1. F[i - 1] \in Seq(V) /\ seqs[i] \in Seq(V) /\ F[i] = F[i - 1] \o seqs[i]
    BY <2>0 DEF PartialAt
  <2>2. ToSet(F[i]) = ToSet(F[i - 1]) \cup ToSet(seqs[i])
    <3>1. Range(F[i]) = Range(F[i - 1]) \cup Range(seqs[i])
      BY <2>1, RangeConcatenation
    <3>2. \A s : ToSet(s) = Range(s)
      BY DEF ToSet, Range
    <3> QED
      BY <3>1, <3>2
  <2>3. 1..i = (1..i - 1) \cup {i}
    OBVIOUS
  <2>4. Ok(i - 1)
    BY <1>5
  <2> QED
    BY <2>2, <2>3, <2>4
<1>6. 0..n \subseteq S
  <2> HIDE DEF S
  <2> QED
    BY <1>4, <1>5, UpTo
<1>7. Ok(n)
  <2> HIDE DEF Ok
  <2> QED
    BY <1>6
<1>8. F[n] \in Seq(V)
  <2> DEFINE Q == Seq(V)
  <2>1. F \in [0..n -> Q]
    BY <1>2
  <2> HIDE DEF Q
  <2>2. F[n] \in Q
    BY <2>1
  <2> QED
    BY <2>2 DEF Q
<1> QED
  BY <1>3, <1>7, <1>8

\* Parts of at most one item make a sequence that is no longer than they are many.
LEMMA FlattenLength ==
  ASSUME NEW n \in Nat, NEW V, NEW seqs \in Parts(n, Seq(V)), \A i \in 1..n : Len(seqs[i]) <= 1
  PROVE  Len(FlattenSeq(seqs)) <= n
<1>1. PICK F : Partial(F, n, Seq(V), seqs)
  BY PartialExists
<1>2. FlattenSeq(seqs) = F[n]
  BY <1>1, FlattenPartial
<1> DEFINE S == {i \in 0..n : Len(F[i]) <= i}
<1>3. 0 \in S
  BY <1>1 DEF Partial
<1>4. ASSUME NEW i \in 1..n, i - 1 \in S PROVE i \in S
  <2>1. F[i - 1] \in Seq(V) /\ seqs[i] \in Seq(V) /\ F[i] = F[i - 1] \o seqs[i]
    <3>1. PartialAt(F, i, n, Seq(V), seqs)
      BY <1>1, PartialStep
    <3> QED
      BY <3>1 DEF PartialAt
  <2>2. /\ Len(F[i]) = Len(F[i - 1]) + Len(seqs[i])
        /\ Len(F[i - 1]) \in Nat /\ Len(seqs[i]) \in Nat
    BY <2>1, ConcatProperties, LenProperties
  <2>3. Len(F[i - 1]) <= i - 1 /\ Len(seqs[i]) <= 1 /\ i \in 0..n
    BY <1>4
  <2> DEFINE before == Len(F[i - 1])
             more == Len(seqs[i])
  <2>4. before \in Nat /\ more \in Nat /\ before <= i - 1 /\ more <= 1
    BY <2>2, <2>3
  <2> HIDE DEF before, more
  <2>5. before + more <= i
    BY <2>4
  <2> QED
    BY <2>2, <2>3, <2>5 DEF before, more
<1>5. 0..n \subseteq S
  <2> HIDE DEF S
  <2> QED
    BY <1>3, <1>4, UpTo
<1> QED
  BY <1>2, <1>5

-----------------------------------------------------------------------------
(* Selections *)

\* g is the items of s in S among the first m, p their positions.
Picks(g, p, s, m, S) ==
  /\ p \in [1..Len(g) -> 1..m]
  /\ \A k, l \in 1..Len(g) : k < l => p[k] < p[l]
  /\ \A k \in 1..Len(g) : g[k] = s[p[k]] /\ s[p[k]] \in S
  /\ \A i \in 1..m : s[i] \in S => \E k \in 1..Len(g) : p[k] = i

\* One item less to look at, and one more, or none, picked.
LEMMA PickNone ==
  ASSUME NEW m \in Nat, NEW s, NEW S, NEW g, Len(g) \in Nat, NEW p, Picks(g, p, s, m, S),
         s[m + 1] \notin S
  PROVE  Picks(g, p, s, m + 1, S)
<1>1. 1..m + 1 = (1..m) \cup {m + 1} /\ 1..m \subseteq 1..m + 1
  OBVIOUS
<1>2. p \in [1..Len(g) -> 1..m + 1]
  BY <1>1 DEF Picks
<1> QED
  BY <1>1, <1>2 DEF Picks

LEMMA PickOne ==
  ASSUME NEW m \in Nat, NEW s, NEW S, NEW g, Len(g) \in Nat, NEW p, Picks(g, p, s, m, S),
         s[m + 1] \in S,
         NEW h, Len(h) = Len(g) + 1, \A k \in 1..Len(g) : h[k] = g[k], h[Len(g) + 1] = s[m + 1]
  PROVE  \E q : Picks(h, q, s, m + 1, S)
<1> DEFINE n == Len(g)
           q == [k \in 1..n + 1 |-> IF k = n + 1 THEN m + 1 ELSE p[k]]
<1>1. 1..n + 1 = (1..n) \cup {n + 1} /\ 1..m + 1 = (1..m) \cup {m + 1} /\ n \in Nat
      /\ n + 1 \notin 1..n
  OBVIOUS
<1>2. /\ p \in [1..n -> 1..m]
      /\ \A k, l \in 1..n : k < l => p[k] < p[l]
      /\ \A k \in 1..n : g[k] = s[p[k]] /\ s[p[k]] \in S
      /\ \A i \in 1..m : s[i] \in S => \E k \in 1..n : p[k] = i
  BY DEF Picks
<1>3. /\ \A k \in 1..n : q[k] = p[k] /\ p[k] \in 1..m
      /\ q[n + 1] = m + 1 /\ q \in [1..n + 1 -> 1..m + 1]
  BY <1>1, <1>2
<1> HIDE DEF n, q
<1>4. ASSUME NEW k \in 1..n + 1, NEW l \in 1..n + 1, k < l PROVE q[k] < q[l]
  <2>1. k \in 1..n
    BY <1>1, <1>4
  <2>2. CASE l = n + 1
    BY <1>3, <2>1, <2>2
  <2>3. CASE l \in 1..n
    BY <1>2, <1>3, <1>4, <2>1, <2>3
  <2> QED
    BY <1>1, <2>2, <2>3
<1>5. \A k \in 1..n + 1 : h[k] = s[q[k]] /\ s[q[k]] \in S
  BY <1>1, <1>2, <1>3 DEF n
<1>6. ASSUME NEW i \in 1..m + 1, s[i] \in S PROVE \E k \in 1..n + 1 : q[k] = i
  BY <1>1, <1>2, <1>3, <1>6
<1>7. Picks(h, q, s, m + 1, S)
  BY <1>3, <1>4, <1>5, <1>6 DEF Picks, n
<1> QED
  BY <1>7

LEMMA SelectedPicks ==
  ASSUME NEW V, NEW s \in Seq(V), NEW S
  PROVE  /\ Selected(s, S) \in Seq(V)
         /\ \E p : Picks(Selected(s, S), p, s, Len(s), S)
<1> DEFINE n == Len(s)
           seqs == [i \in 1..n |-> IF s[i] \in S THEN <<s[i]>> ELSE <<>>]
<1>1. n \in Nat /\ DOMAIN s = 1..n /\ \A i \in 1..n : s[i] \in V
  BY LenProperties, ElementOfSeq
<1>2. Selected(s, S) = FlattenSeq(seqs)
  BY <1>1 DEF Selected
<1>3. seqs \in Parts(n, Seq(V))
  <2>1. ASSUME NEW i \in 1..n PROVE seqs[i] \in Seq(V)
    BY <1>1
  <2> QED
    BY <2>1 DEF Parts
<1> HIDE DEF n
<1>4. FlattenSeq(seqs) \in Seq(V)
  <2> HIDE DEF seqs
  <2> QED
    BY <1>1, <1>3, FlattenItems
<1>5. PICK F : Partial(F, n, Seq(V), seqs)
  <2> HIDE DEF seqs
  <2> QED
    BY <1>1, <1>3, PartialExists
<1>6. FlattenSeq(seqs) = F[n]
  <2> HIDE DEF seqs
  <2> QED
    BY <1>1, <1>3, <1>5, FlattenPartial
<1>7. \A i \in 1..n : PartialAt(F, i, n, Seq(V), seqs)
  <2> HIDE DEF seqs
  <2> QED
    BY <1>1, <1>3, <1>5, PartialStep
<1> DEFINE Ok(i) == \E p : Picks(F[i], p, s, i, S)
           T == {i \in 0..n : Ok(i)}
<1>8. 0 \in T
  <2>1. F[0] = <<>> /\ Len(<<>>) = 0
    BY <1>5 DEF Partial
  <2>2. Picks(<<>>, [k \in 1..0 |-> k], s, 0, S)
    BY DEF Picks
  <2> QED
    BY <1>1, <2>1, <2>2
<1>9. ASSUME NEW i \in 1..n, i - 1 \in T PROVE i \in T
  <2> DEFINE m == i - 1
  <2>0. m \in Nat /\ m + 1 = i /\ i \in 0..n
    BY <1>1
  <2>1. PartialAt(F, i, n, Seq(V), seqs)
    BY <1>7
  <2>2. F[m] \in Seq(V) /\ F[i] = F[m] \o seqs[i]
    BY <2>1 DEF PartialAt
  <2>3. PICK p : Picks(F[m], p, s, m, S)
    BY <1>9
  <2>4. Len(F[m]) \in Nat
    BY <2>2, LenProperties
  <2>5. seqs[i] = IF s[i] \in S THEN <<s[i]>> ELSE <<>>
    OBVIOUS
  <2> HIDE DEF seqs, m
  <2>6. CASE s[i] \in S
    <3> DEFINE g == F[m]
               h == F[i]
    <3>1. h = Append(g, s[i])
      BY <1>1, <2>2, <2>5, <2>6, AppendIsConcat
    <3>2. /\ Len(h) = Len(g) + 1 /\ \A k \in 1..Len(g) : h[k] = g[k]
          /\ h[Len(g) + 1] = s[i]
      BY <1>1, <2>2, <3>1, AppendProperties
    <3>3. Picks(g, p, s, m, S) /\ Len(g) \in Nat /\ s[m + 1] = s[i]
      BY <2>0, <2>3, <2>4
    <3> HIDE DEF g, h
    <3>4. \E q : Picks(h, q, s, m + 1, S)
      BY <2>0, <2>6, <3>2, <3>3, PickOne
    <3> QED
      BY <2>0, <3>4 DEF h
  <2>7. CASE s[i] \notin S
    <3>1. F[i] = F[m]
      BY <2>2, <2>5, <2>7, ConcatEmptySeq
    <3>2. Picks(F[m], p, s, m + 1, S)
      BY <2>0, <2>3, <2>4, <2>7, PickNone
    <3> QED
      BY <2>0, <3>1, <3>2
  <2> QED
    BY <2>6, <2>7
<1>10. 0..n \subseteq T
  <2> HIDE DEF T
  <2> QED
    BY <1>1, <1>8, <1>9, UpTo
<1>11. Ok(n)
  <2> HIDE DEF Ok
  <2> QED
    BY <1>1, <1>10
<1> QED
  BY <1>2, <1>4, <1>6, <1>11 DEF n

LEMMA SelectedLength ==
  ASSUME NEW V, NEW s \in Seq(V), NEW S
  PROVE  Len(Selected(s, S)) <= Len(s)
<1> DEFINE n == Len(s)
           seqs == [i \in 1..n |-> IF s[i] \in S THEN <<s[i]>> ELSE <<>>]
<1>1. n \in Nat /\ DOMAIN s = 1..n /\ \A i \in 1..n : s[i] \in V
  BY LenProperties, ElementOfSeq
<1>2. Selected(s, S) = FlattenSeq(seqs)
  BY <1>1 DEF Selected
<1>3. ASSUME NEW i \in 1..n PROVE seqs[i] \in Seq(V) /\ Len(seqs[i]) <= 1
  BY <1>1
<1>4. seqs \in Parts(n, Seq(V))
  BY <1>3 DEF Parts
<1> HIDE DEF n, seqs
<1> QED
  BY <1>1, <1>2, <1>3, <1>4, FlattenLength DEF n

-----------------------------------------------------------------------------
(* Sets put in order.  The order is given as a set of pairs. *)

TotalOrder(R, S) ==
  \A x, y \in S :
    /\ ~(<<x, y>> \in R /\ <<y, x>> \in R)
    /\ x # y => <<x, y>> \in R \/ <<y, x>> \in R
    /\ \A z \in S : <<x, y>> \in R /\ <<y, z>> \in R => <<x, z>> \in R

\* Every position is taken: what Sorted chooses exists.
LEMMA Ranked ==
  ASSUME NEW S, IsFiniteSet(S), NEW R, TotalOrder(R, S), NEW n \in 1..Cardinality(S)
  PROVE  \E x \in S : Cardinality({y \in S : <<y, x>> \in R}) = n - 1
<1> DEFINE N == Cardinality(S)
           Below(x) == {y \in S : <<y, x>> \in R}
           rank == [x \in S |-> Cardinality(Below(x))]
<1>1. N \in Nat
  BY FS_CardinalityType
<1>2. ASSUME NEW x \in S
      PROVE  IsFiniteSet(Below(x)) /\ Cardinality(Below(x)) \in 0..N - 1
  <2>1. Below(x) \subseteq S /\ x \notin Below(x)
    BY DEF TotalOrder
  <2>2. /\ IsFiniteSet(Below(x)) /\ Cardinality(Below(x)) <= N
        /\ Cardinality(Below(x)) # N
    <3> DEFINE T == Below(x)
    <3> HIDE DEF T
    <3> QED
      BY <2>1, FS_Subset DEF T
  <2>3. Cardinality(Below(x)) \in Nat
    BY <2>2, FS_CardinalityType
  <2> QED
    BY <1>1, <2>2, <2>3
<1>3. ASSUME NEW x \in S, NEW y \in S, <<x, y>> \in R
      PROVE  Cardinality(Below(x)) # Cardinality(Below(y))
  <2>1. Below(x) \subseteq Below(y) /\ x \in Below(y) /\ x \notin Below(x)
    BY <1>3 DEF TotalOrder
  <2> DEFINE A == Below(x)
             B == Below(y)
  <2>2. IsFiniteSet(B) /\ A \subseteq B /\ A # B
    BY <1>2, <2>1
  <2> HIDE DEF A, B
  <2>3. Cardinality(B) # Cardinality(A)
    BY <2>2, FS_Subset
  <2> QED
    BY <2>3 DEF A, B
<1>4. rank \in Injection(S, 0..N - 1)
  <2>1. rank \in [S -> 0..N - 1]
    BY <1>2
  <2>2. ASSUME NEW x \in S, NEW y \in S, rank[x] = rank[y] PROVE x = y
    <3>1. Cardinality(Below(x)) = Cardinality(Below(y))
      BY <2>2
    <3> HIDE DEF Below
    <3> QED
      BY <1>3, <3>1 DEF TotalOrder
  <2> HIDE DEF rank
  <2> QED
    BY <2>1, <2>2 DEF Injection, IsInjective
<1>5. IsFiniteSet(0..N - 1) /\ Cardinality(0..N - 1) = N
  <2> DEFINE top == N - 1
  <2>1. top \in Int /\ 0 \in Int /\ top - 0 + 1 = N /\ (0 > top => N = 0)
    BY <1>1
  <2> HIDE DEF top
  <2>2. IsFiniteSet(0..top) /\ Cardinality(0..top) = IF 0 > top THEN 0 ELSE top - 0 + 1
    BY <2>1, FS_Interval
  <2> QED
    BY <2>1, <2>2 DEF top
<1> HIDE DEF rank
<1>6. rank \in Surjection(S, 0..N - 1)
  BY <1>4, <1>5, FS_Injection
<1>7. n - 1 \in 0..N - 1
  BY <1>1
<1>8. PICK x \in S : rank[x] = n - 1
  BY <1>6, <1>7 DEF Surjection
<1> QED
  BY <1>8 DEF rank
=============================================================================
