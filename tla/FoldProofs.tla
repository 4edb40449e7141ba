------------------------------ MODULE FoldProofs ------------------------------
(***************************************************************************)
(* Induction for the folds that the modules use: what is true of the       *)
(* start, and kept by every element, is true of the result.  A module that *)
(* folds an operator instantiates this one with it, and with the invariant *)
(* it has in mind: theorems about an operator that is a parameter cannot   *)
(* be cited, but those of an instance can.                                 *)
(***************************************************************************)
EXTENDS SequencesExt, WellFoundedInduction, TLAPS

CONSTANTS
  Op(_, _),       \* Op(state, element)
  Inv(_, _, _)    \* Inv(p, n, state): the state after n elements; p is what it depends on

Folded(base, seq) == FoldLeft(Op, base, seq)

-----------------------------------------------------------------------------
(* Induction over the natural numbers, for a set instead of a predicate.   *)

LEMMA SetInduction ==
  ASSUME NEW S \in SUBSET Nat, 0 \in S, \A n \in Nat : n \in S => n + 1 \in S
  PROVE  S = Nat
<1> DEFINE R == OpToRel(<, Nat)
           T == Nat \ S
<1>1. IsWellFoundedOn(R, Nat)
  BY NatLessThanWellFounded
<1>2. SUFFICES ASSUME T # {} PROVE FALSE
  OBVIOUS
<1>3. PICK x \in T : \A y \in T : <<y, x>> \notin R
  <2> HIDE DEF R
  <2> QED BY <1>1, <1>2, WFMin
<1>4. x # 0 /\ x - 1 \in Nat /\ x - 1 < x
  OBVIOUS
<1>5. x - 1 \notin T
  BY <1>3, <1>4 DEF OpToRel
<1>6. x - 1 \in S
  BY <1>4, <1>5
<1>7. (x - 1) + 1 \in S
  BY <1>4, <1>6
<1> QED
  <2> HIDE DEF R
  <2>1. (x - 1) + 1 = x
    BY <1>4
  <2> QED BY <1>7, <2>1

-----------------------------------------------------------------------------
(* FoldLeft recurs over the subsets of the domain, and takes their maxima. *)

LEMMA MaxOfNonEmpty ==
  ASSUME NEW n \in Nat, NEW s \in SUBSET (1..n), s # {}
  PROVE  Max(s) \in s /\ \A y \in s : Max(s) >= y
<1> DEFINE N == {k \in Nat : \A t \in SUBSET (1..k) : t # {} => \E x \in t : \A y \in t : x >= y}
<1>1. 0 \in N
  <2>1. 1..0 = {}
    OBVIOUS
  <2> QED BY <2>1
<1>2. ASSUME NEW k \in Nat, k \in N PROVE k + 1 \in N
  <2> SUFFICES ASSUME NEW t \in SUBSET (1..(k + 1)), t # {}
               PROVE  \E x \in t : \A y \in t : x >= y
    OBVIOUS
  <2>1. CASE k + 1 \in t
    BY <2>1
  <2>2. CASE k + 1 \notin t
    <3>1. t \in SUBSET (1..k)
      BY <2>2
    <3> QED BY <3>1, <1>2
  <2> QED BY <2>1, <2>2
<1>3. N = Nat
  <2> HIDE DEF N
  <2>1. N \in SUBSET Nat
    BY DEF N
  <2> QED BY <1>1, <1>2, <2>1, SetInduction
<1>4. \E x \in s : \A y \in s : x >= y
  BY <1>3
<1> QED BY <1>4 DEF Max

\* One step of the recursion in the definition of FoldLeft.
Unfold(g, base, seq, s) == IF s = {} THEN base ELSE Op(g[s \ {Max(s)}], seq[Max(s)])

LEMMA FoldFunctionExists ==
  ASSUME NEW base, NEW seq, NEW n \in Nat
  PROVE  \E g : g = [s \in SUBSET (1..n) |-> Unfold(g, base, seq, s)]
<1> DEFINE Solves(g, k) == g = [s \in SUBSET (1..k) |-> Unfold(g, base, seq, s)]
           N == {k \in Nat : \E g : Solves(g, k)}
<1>1. 0 \in N
  <2> DEFINE g == [s \in SUBSET (1..0) |-> base]
  <2>1. Solves(g, 0)
    BY DEF Unfold
  <2> QED BY <2>1
<1>2. ASSUME NEW k \in Nat, k \in N PROVE k + 1 \in N
  <2>1. PICK g : Solves(g, k)
    BY <1>2
  <2> DEFINE h == [s \in SUBSET (1..(k + 1)) |->
                     IF k + 1 \in s THEN Op(g[s \ {k + 1}], seq[k + 1]) ELSE g[s]]
  <2>2. ASSUME NEW s \in SUBSET (1..(k + 1)) PROVE h[s] = Unfold(h, base, seq, s)
    <3>1. CASE k + 1 \in s
      <4>1. Max(s) = k + 1
        <5> DEFINE m == Max(s)
        <5>1. m \in s /\ \A y \in s : m >= y
          <6>1. k + 1 \in Nat /\ s # {}
            BY <3>1
          <6> QED BY <6>1, MaxOfNonEmpty
        <5> HIDE DEF m
        <5>2. m \in 1..(k + 1) /\ m >= k + 1
          BY <3>1, <5>1
        <5>3. m = k + 1
          BY <5>2
        <5> QED BY <5>3 DEF m
      <4>2. s \ {k + 1} \in SUBSET (1..(k + 1)) /\ k + 1 \notin s \ {k + 1}
        OBVIOUS
      <4>3. h[s \ {k + 1}] = g[s \ {k + 1}]
        BY <4>2
      <4>4. h[s] = Op(g[s \ {k + 1}], seq[k + 1])
        BY <3>1
      <4>5. s # {}
        BY <3>1
      <4> HIDE DEF h
      <4> QED BY <4>1, <4>3, <4>4, <4>5 DEF Unfold
    <3>2. CASE k + 1 \notin s
      <4>1. s \in SUBSET (1..k)
        BY <3>2
      <4>2. h[s] = Unfold(g, base, seq, s)
        BY <2>1, <3>2, <4>1
      <4>3. CASE s = {}
        BY <4>2, <4>3 DEF Unfold
      <4>4. CASE s # {}
        <5>1. s \ {Max(s)} \in SUBSET (1..(k + 1)) /\ k + 1 \notin s \ {Max(s)}
          BY <3>2
        <5>2. h[s \ {Max(s)}] = g[s \ {Max(s)}]
          BY <5>1
        <5> QED BY <4>2, <5>2 DEF Unfold
      <4> QED BY <4>3, <4>4
    <3> QED BY <3>1, <3>2
  <2>3. Solves(h, k + 1)
    BY <2>2
  <2>4. \E f : Solves(f, k + 1)
    BY <2>3
  <2> QED BY <2>4
<1>3. N = Nat
  <2> HIDE DEF N
  <2>1. N \in SUBSET Nat
    BY DEF N
  <2> QED BY <1>1, <1>2, <2>1, SetInduction
<1> QED BY <1>3

\* The states that a fold goes through.
Through(iter, base, seq, n) ==
  /\ Folded(base, seq) = iter[n] /\ iter[0] = base
  /\ \A i \in 1..n : iter[i] = Op(iter[i - 1], seq[i])

LEMMA FoldUnfolds ==
  ASSUME NEW base, NEW seq, NEW n \in Nat, DOMAIN seq = 1..n
  PROVE  \E iter : Through(iter, base, seq, n)
<1> DEFINE g == CHOOSE f : f = [s \in SUBSET (1..n) |-> Unfold(f, base, seq, s)]
<1>1. g = [s \in SUBSET (1..n) |-> Unfold(g, base, seq, s)]
  BY FoldFunctionExists
<1>2. Folded(base, seq) = g[1..n]
  BY DEF Folded, FoldLeft, MapThenFoldSet, Unfold
<1> DEFINE iter == [i \in 0..n |-> g[1..i]]
<1> HIDE DEF g
<1>3. iter[0] = base
  BY <1>1 DEF Unfold
<1>4. ASSUME NEW i \in 1..n PROVE iter[i] = Op(iter[i - 1], seq[i])
  <2>1. 1..i \in SUBSET (1..n) /\ 1..i # {} /\ i - 1 \in 0..n /\ i \in 0..n
    OBVIOUS
  <2>2. Max(1..i) = i
    <3>1. Max(1..i) \in 1..i /\ \A y \in 1..i : Max(1..i) >= y
      BY <2>1, MaxOfNonEmpty
    <3> QED BY <3>1
  <2>3. (1..i) \ {i} = 1..(i - 1)
    OBVIOUS
  <2>4. g[1..i] = Unfold(g, base, seq, 1..i)
    BY <1>1, <2>1
  <2>5. g[1..i] = Op(g[1..(i - 1)], seq[i])
    BY <2>1, <2>2, <2>3, <2>4 DEF Unfold
  <2> QED BY <2>1, <2>5
<1>5. Folded(base, seq) = iter[n]
  BY <1>2
<1> HIDE DEF iter
<1> QED BY <1>3, <1>4, <1>5 DEF Through

\* What Inv says of the first value, and every application of Op keeps, it says
\* of the whole fold: induction over the loops of the C code that run along a text,
\* a list of tokens or of names and that the model writes as folds.
THEOREM FoldInduction ==
  ASSUME NEW p, NEW base, NEW seq, NEW n \in Nat, DOMAIN seq = 1..n,
         Inv(p, 0, base),
         \A i \in 1..n : \A s : Inv(p, i - 1, s) => Inv(p, i, Op(s, seq[i]))
  PROVE  Inv(p, n, Folded(base, seq))
<1>0. PICK iter : Through(iter, base, seq, n)
  BY FoldUnfolds
<1>1. /\ Folded(base, seq) = iter[n] /\ iter[0] = base
      /\ \A i \in 1..n : iter[i] = Op(iter[i - 1], seq[i])
  BY <1>0 DEF Through
<1> DEFINE N == {i \in Nat : i <= n => Inv(p, i, iter[i])}
<1>2. 0 \in N
  BY <1>1
<1>3. ASSUME NEW i \in Nat, i \in N PROVE i + 1 \in N
  <2> SUFFICES ASSUME i + 1 <= n PROVE Inv(p, i + 1, iter[i + 1])
    OBVIOUS
  <2>1. i + 1 \in 1..n /\ (i + 1) - 1 = i
    OBVIOUS
  <2>2. Inv(p, i, iter[i])
    BY <1>3
  <2>3. iter[i + 1] = Op(iter[i], seq[i + 1])
    BY <1>1, <2>1
  <2>4. Inv(p, i + 1, Op(iter[i], seq[i + 1]))
    BY <2>1, <2>2
  <2> QED BY <2>3, <2>4
<1>4. N = Nat
  <2> HIDE DEF N
  <2>1. N \in SUBSET Nat
    BY DEF N
  <2> QED BY <1>2, <1>3, <2>1, SetInduction
<1>5. Inv(p, n, iter[n])
  BY <1>4
<1> QED BY <1>1, <1>5
=============================================================================
