----------------------------- MODULE FoldLemmas -----------------------------
(***************************************************************************)
(* The laws of FoldLeft over sequences, for any operator.  FoldLeft is a   *)
(* recursive function on the sets of positions, so each law is an          *)
(* induction over a length, with an induction principle that is stated     *)
(* over a set: a principle over a predicate could not be applied.  For the *)
(* same reason the operator is a constant of this module: a module that    *)
(* folds with an operator of its own takes the laws with INSTANCE.         *)
(***************************************************************************)
EXTENDS SequencesExt, WellFoundedInduction, TLAPS

CONSTANTS
  op(_, _),  \* what folding a sequence does with its next element
  base       \* and what it starts from

Folded(s) == FoldLeft(op, base, s)

-----------------------------------------------------------------------------
(***************************************************************************)
(* Induction.                                                              *)
(***************************************************************************)
LEMMA LessThanIsWellFounded ==
  IsWellFoundedOn({p \in Nat \X Nat : p[1] < p[2]}, Nat)
BY NatLessThanWellFounded DEF OpToRel

(* A set of numbers that has 0, and n + 1 with every n, has them all.      *)
LEMMA NatSetInduction ==
  ASSUME NEW T \in SUBSET Nat, 0 \in T, \A n \in T : n + 1 \in T
  PROVE  \A n \in Nat : n \in T
<1> DEFINE Less == {p \in Nat \X Nat : p[1] < p[2]}
           Rest == Nat \ T
<1>1. SUFFICES ASSUME Rest # {} PROVE FALSE
  OBVIOUS
<1>2. PICK x \in Rest : \A y \in Rest : <<y, x>> \notin Less
  <2>1. IsWellFoundedOn(Less, Nat) /\ Rest \subseteq Nat
    BY LessThanIsWellFounded
  <2> HIDE DEF Less, Rest
  <2> QED
    BY <1>1, <2>1, WFMin
<1>3. x - 1 \in Nat /\ <<x - 1, x>> \in Less
  BY <1>2
<1>4. x - 1 \in T
  BY <1>2, <1>3
<1> QED
  BY <1>2, <1>4

(* A set of sequences that has the empty one, and every Append to each of  *)
(* its members, has them all.                                              *)
LEMMA SeqSetInduction ==
  ASSUME NEW S, NEW T, <<>> \in T,
         \A s \in Seq(S), e \in S : s \in T => Append(s, e) \in T
  PROVE  \A s \in Seq(S) : s \in T
<1> DEFINE N == {n \in Nat : \A s \in Seq(S) : Len(s) = n => s \in T}
<1>1. 0 \in N
  <2>1. \A s \in Seq(S) : Len(s) = 0 => s = <<>>
    OBVIOUS
  <2> QED
    BY <2>1
<1>2. ASSUME NEW n \in N PROVE n + 1 \in N
  <2>1. SUFFICES ASSUME NEW s \in Seq(S), Len(s) = n + 1 PROVE s \in T
    BY <1>2
  <2> DEFINE f == [i \in 1..n |-> s[i]]
  <2>2. f \in Seq(S) /\ Len(f) = n
    BY <1>2, <2>1
  <2>3. s[n + 1] \in S /\ s = Append(f, s[n + 1])
    BY <1>2, <2>1, <2>2
  <2>4. f \in T
    BY <2>2
  <2> HIDE DEF f
  <2> QED
    BY <2>2, <2>3, <2>4
<1> HIDE DEF N
<1>3. \A n \in Nat : n \in N
  <2>1. N \in SUBSET Nat
    BY DEF N
  <2> QED
    BY <1>1, <1>2, <2>1, NatSetInduction
<1> QED
  BY <1>3 DEF N

-----------------------------------------------------------------------------
(***************************************************************************)
(* A fold takes the largest position off a set, again and again.           *)
(***************************************************************************)
LEMMA MaxIsLast ==
  ASSUME NEW n \in Nat, NEW s \in SUBSET (1..(n + 1)), n + 1 \in s
  PROVE  Max(s) = n + 1
<1>1. \A x \in s : (\A y \in s : x >= y) <=> x = n + 1
  OBVIOUS
<1> QED
  BY <1>1 DEF Max

LEMMA MaxIsMember ==
  ASSUME NEW n \in Nat, NEW s \in SUBSET (1..n), s # {}
  PROVE  Max(s) \in s
<1> DEFINE T == {m \in Nat : \A r \in SUBSET (1..m) : r # {} => Max(r) \in r}
<1>1. 0 \in T
  <2>1. \A r \in SUBSET (1..0) : r = {}
    OBVIOUS
  <2> QED
    BY <2>1
<1>2. ASSUME NEW m \in T PROVE m + 1 \in T
  <2>1. SUFFICES ASSUME NEW r \in SUBSET (1..(m + 1)), r # {} PROVE Max(r) \in r
    BY <1>2
  <2>2. CASE m + 1 \in r
    BY <1>2, <2>2, MaxIsLast
  <2>3. CASE m + 1 \notin r
    <3>1. r \in SUBSET (1..m)
      BY <1>2, <2>3
    <3> QED
      BY <1>2, <2>1, <3>1
  <2> QED
    BY <2>2, <2>3
<1>3. n \in T
  <2> HIDE DEF T
  <2>1. T \in SUBSET Nat
    BY DEF T
  <2> QED
    BY <1>1, <1>2, <2>1, NatSetInduction
<1> QED
  BY <1>3

(* The function that a fold is, on the sets of the first n positions.      *)
Iterates(it, s, n) ==
  it = [p \in SUBSET (1..n) |->
         IF p = {} THEN base ELSE op(it[p \ {Max(p)}], s[Max(p)])]

HasIteration(s, n) == \E it : Iterates(it, s, n)

LEMMA IterationExists ==
  ASSUME NEW s, NEW n \in Nat
  PROVE  HasIteration(s, n)
<1> DEFINE T == {m \in Nat : HasIteration(s, m)}
<1>1. 0 \in T
  <2>1. Iterates([p \in SUBSET (1..0) |-> base], s, 0)
    BY DEF Iterates
  <2> QED
    BY <2>1 DEF HasIteration
<1>2. ASSUME NEW m \in T PROVE m + 1 \in T
  <2>1. PICK it : Iterates(it, s, m)
    BY <1>2 DEF HasIteration
  <2> DEFINE next == [p \in SUBSET (1..(m + 1)) |->
                       IF m + 1 \in p THEN op(it[p \ {m + 1}], s[m + 1]) ELSE it[p]]
  <2>2. \A p \in SUBSET (1..(m + 1)) : p \ {m + 1} \in SUBSET (1..m)
    BY <1>2
  <2>3. ASSUME NEW p \in SUBSET (1..(m + 1))
        PROVE  next[p] = IF p = {} THEN base ELSE op(next[p \ {Max(p)}], s[Max(p)])
    <3>1. CASE m + 1 \in p
      <4>1. Max(p) = m + 1
        BY <1>2, <3>1, MaxIsLast
      <4>2. next[p \ {m + 1}] = it[p \ {m + 1}]
        BY <2>2
      <4> QED
        BY <3>1, <4>1, <4>2
    <3>2. CASE m + 1 \notin p
      <4>1. p \in SUBSET (1..m) /\ next[p] = it[p]
        BY <2>2, <3>2
      <4>2. next[p \ {Max(p)}] = it[p \ {Max(p)}]
        BY <3>2
      <4>3. it[p] = IF p = {} THEN base ELSE op(it[p \ {Max(p)}], s[Max(p)])
        BY <2>1, <4>1 DEF Iterates
      <4> QED
        BY <4>1, <4>2, <4>3
    <3> QED
      BY <3>1, <3>2
  <2>4. Iterates(next, s, m + 1)
    BY <2>3 DEF Iterates
  <2> QED
    BY <1>2, <2>4 DEF HasIteration
<1>3. n \in T
  <2> HIDE DEF T
  <2>1. T \in SUBSET Nat
    BY DEF T
  <2> QED
    BY <1>1, <1>2, <2>1, NatSetInduction
<1> QED
  BY <1>3

(* So a fold is that function, at all of its sequence's positions.         *)
LEMMA FoldIterates ==
  ASSUME NEW E, NEW s \in Seq(E)
  PROVE  \E it : Iterates(it, s, Len(s)) /\ Folded(s) = it[1..Len(s)]
<1>1. DOMAIN s = 1..Len(s) /\ Len(s) \in Nat
  OBVIOUS
<1>2. Folded(s) = (CHOOSE it : Iterates(it, s, Len(s)))[1..Len(s)]
  BY <1>1 DEF Folded, FoldLeft, MapThenFoldSet, Iterates
<1>3. Iterates(CHOOSE it : Iterates(it, s, Len(s)), s, Len(s))
  BY <1>1, IterationExists DEF HasIteration
<1> QED
  BY <1>2, <1>3

(* On the first positions the last of them is folded last.                 *)
LEMMA IterationOfPrefix ==
  ASSUME NEW it, NEW s, NEW n \in Nat, Iterates(it, s, n),
         NEW k \in Nat, k + 1 <= n
  PROVE  it[1..(k + 1)] = op(it[1..k], s[k + 1])
<1>1. 1..(k + 1) \in SUBSET (1..n) /\ k + 1 \in 1..(k + 1)
  OBVIOUS
<1>2. Max(1..(k + 1)) = k + 1
  BY <1>1, MaxIsLast
<1>3. (1..(k + 1)) \ {k + 1} = 1..k /\ 1..(k + 1) # {}
  OBVIOUS
<1> QED
  BY <1>1, <1>2, <1>3 DEF Iterates

LEMMA IterationOfNothing ==
  ASSUME NEW it, NEW s, NEW n \in Nat, Iterates(it, s, n)
  PROVE  it[1..0] = base
<1>1. 1..0 = {}
  OBVIOUS
<1> QED
  BY <1>1 DEF Iterates

(* The folds of two sequences agree for as long as the sequences do.       *)
LEMMA IterationsAgree ==
  ASSUME NEW it, NEW s, NEW n \in Nat, Iterates(it, s, n),
         NEW jt, NEW t, NEW m \in Nat, Iterates(jt, t, m),
         n <= m, \A i \in 1..n : s[i] = t[i]
  PROVE  it[1..n] = jt[1..n]
<1> DEFINE T == {k \in Nat : k <= n => it[1..k] = jt[1..k]}
<1>1. 0 \in T
  BY IterationOfNothing
<1>2. ASSUME NEW k \in T PROVE k + 1 \in T
  <2>1. SUFFICES ASSUME k + 1 <= n PROVE it[1..(k + 1)] = jt[1..(k + 1)]
    BY <1>2
  <2>2. it[1..k] = jt[1..k]
    BY <1>2, <2>1
  <2>3. it[1..(k + 1)] = op(it[1..k], s[k + 1])
    BY <1>2, <2>1, IterationOfPrefix
  <2>4. jt[1..(k + 1)] = op(jt[1..k], t[k + 1])
    BY <1>2, <2>1, IterationOfPrefix
  <2>5. k + 1 \in 1..n
    BY <1>2, <2>1
  <2> QED
    BY <2>2, <2>3, <2>4, <2>5
<1>3. n \in T
  <2> HIDE DEF T
  <2>1. T \in SUBSET Nat
    BY DEF T
  <2> QED
    BY <1>1, <1>2, <2>1, NatSetInduction
<1> QED
  BY <1>3

-----------------------------------------------------------------------------
(***************************************************************************)
(* The laws.                                                               *)
(***************************************************************************)
LEMMA FoldEmpty == Folded(<<>>) = base
<1>1. <<>> \in Seq({}) /\ Len(<<>>) = 0
  OBVIOUS
<1>2. PICK it : Iterates(it, <<>>, 0) /\ Folded(<<>>) = it[1..0]
  BY <1>1, FoldIterates
<1> QED
  BY <1>2, IterationOfNothing

LEMMA FoldAppend ==
  ASSUME NEW E, NEW s \in Seq(E), NEW e \in E
  PROVE  Folded(Append(s, e)) = op(Folded(s), e)
<1> DEFINE t == Append(s, e)
           n == Len(s)
<1>1. /\ t \in Seq(E) /\ Len(t) = n + 1 /\ n \in Nat
      /\ t[n + 1] = e /\ \A i \in 1..n : s[i] = t[i]
  OBVIOUS
<1>2. PICK it : Iterates(it, s, n) /\ Folded(s) = it[1..n]
  BY FoldIterates
<1>3. PICK jt : Iterates(jt, t, n + 1) /\ Folded(t) = jt[1..(n + 1)]
  BY <1>1, FoldIterates
<1> HIDE DEF t, n
<1>4. it[1..n] = jt[1..n]
  <2>1. n + 1 \in Nat /\ n <= n + 1
    BY <1>1
  <2> QED
    BY <1>1, <1>2, <1>3, <2>1, IterationsAgree
<1>5. jt[1..(n + 1)] = op(jt[1..n], t[n + 1])
  BY <1>1, <1>3, IterationOfPrefix
<1> QED
  BY <1>1, <1>2, <1>3, <1>4, <1>5 DEF t

LEMMA FoldType ==
  ASSUME NEW S, NEW E, base \in S, \A a \in S, e \in E : op(a, e) \in S
  PROVE  \A s \in Seq(E) : Folded(s) \in S
<1> DEFINE T == {s \in Seq(E) : Folded(s) \in S}
<1>1. <<>> \in T
  BY FoldEmpty
<1>2. ASSUME NEW s \in Seq(E), NEW e \in E, s \in T PROVE Append(s, e) \in T
  BY <1>2, FoldAppend
<1> HIDE DEF T
<1>3. \A s \in Seq(E) : s \in T
  BY <1>1, <1>2, SeqSetInduction
<1> QED
  BY <1>3 DEF T
=============================================================================
