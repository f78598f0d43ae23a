------------------------------ MODULE SetLemmas ------------------------------
(***************************************************************************)
(* Extremal elements of sets of natural numbers: what first-fit and        *)
(* nearest-first searches rest on.                                         *)
(***************************************************************************)
EXTENDS Integers, FiniteSetsExt, FiniteSetTheorems, TLAPS

\* A nonempty set of natural numbers has a least element.  The intervals 0..x
\* of its elements x are finite sets, and strict inclusion of finite sets is
\* well founded.
LEMMA LeastElement ==
  ASSUME NEW S, S \subseteq Nat, S # {}
  PROVE  \E x \in S : \A y \in S : x <= y
<1> DEFINE T == {0 .. x : x \in S}
<1>1. T \subseteq FiniteSubsetsOf(Nat)
  <2>1. ASSUME NEW x \in S
        PROVE  0 .. x \in SUBSET Nat /\ IsFiniteSet(0 .. x)
    BY FS_Interval
  <2>. QED  BY <2>1 DEF FiniteSubsetsOf
<1>2. PICK m \in T : \A u \in T : ~(<<u, m>> \in StrictSubsetOrdering(Nat))
  <2>1. T # {}
    OBVIOUS
  <2>. HIDE DEF T
  <2>. QED  BY <1>1, <2>1, WFMin, FS_StrictSubsetOrderingWellFounded
<1>3. PICK x \in S : m = 0 .. x
  OBVIOUS
<1>4. ASSUME NEW y \in S, y < x
      PROVE  FALSE
  <2>1. 0 .. y \in T
    OBVIOUS
  <2>2. <<0 .. y, m>> \in StrictSubsetOrdering(Nat)
    <3>1. 0 .. y \in SUBSET Nat /\ m \in SUBSET Nat /\ 0 .. y \subseteq m
      BY <1>3, <1>4
    <3>2. x \in m /\ x \notin 0 .. y
      BY <1>3, <1>4
    <3>. QED  BY <3>1, <3>2 DEF StrictSubsetOrdering
  <2>. QED  BY <1>2, <2>1, <2>2
<1>. QED  BY <1>4

\* Min picks the least element.
LEMMA MinOfNaturals ==
  ASSUME NEW S, S \subseteq Nat, S # {}
  PROVE  Min(S) \in S /\ \A y \in S : Min(S) <= y
<1>1. \E x \in S : \A y \in S : x <= y
  BY LeastElement
<1>. QED  BY <1>1 DEF Min

\* A nonempty set of natural numbers with an upper bound has a greatest
\* element: its distance from the bound is least.
LEMMA MaxOfNaturals ==
  ASSUME NEW n \in Nat, NEW S, S \subseteq 0 .. n, S # {}
  PROVE  Max(S) \in S /\ \A y \in S : Max(S) >= y
<1> DEFINE D == {n - x : x \in S}
<1>1. D \subseteq Nat /\ D # {}
  <2>1. \A x \in S : n - x \in Nat
    OBVIOUS
  <2>2. PICK x \in S : TRUE
    OBVIOUS
  <2>3. n - x \in D
    OBVIOUS
  <2>. QED  BY <2>1, <2>3
<1>2. PICK d \in D : \A e \in D : d <= e
  <2>. HIDE DEF D
  <2>. QED  BY <1>1, LeastElement
<1>3. PICK x \in S : d = n - x
  OBVIOUS
<1>4. \A y \in S : x >= y
  <2>1. ASSUME NEW y \in S PROVE x >= y
    <3>1. n - y \in D
      OBVIOUS
    <3>2. n - x <= n - y /\ x \in 0 .. n /\ y \in 0 .. n
      BY <1>2, <1>3, <3>1
    <3>. QED  BY <3>2
  <2>. QED  BY <2>1
<1>. QED  BY <1>4 DEF Max

\* Induction over an interval.
LEMMA IntervalInduction ==
  ASSUME NEW n \in Nat, NEW S, 0 \in S, \A i \in 0 .. n - 1 : i \in S => i + 1 \in S
  PROVE  0 .. n \subseteq S
<1> DEFINE T == (0 .. n) \ S
<1>. SUFFICES ASSUME T # {} PROVE FALSE
  OBVIOUS
<1>1. PICK x \in T : \A y \in T : x <= y
  <2>1. T \subseteq Nat
    OBVIOUS
  <2>. HIDE DEF T
  <2>. QED  BY <2>1, LeastElement
<1>2. x # 0 /\ x \in 0 .. n /\ x \notin S
  BY <1>1
<1>3. x - 1 \in 0 .. n - 1
  BY <1>2
<1>4. x - 1 \in S
  BY <1>1, <1>3
<1>. QED  BY <1>2, <1>3, <1>4
------------------------------------------------------------------------------
(***************************************************************************)
(* Folds over sequences.  FoldLeft folds over the sets of indices of the   *)
(* sequence, the greatest index last; a function F from results and        *)
(* indices to results stands for the operator that is folded.              *)
(***************************************************************************)
LEMMA LastOfPrefix ==
  ASSUME NEW n \in Nat, NEW i \in 1 .. n
  PROVE  /\ 1 .. i \in SUBSET (1 .. n) /\ 1 .. i # {} /\ Max(1 .. i) = i
         /\ (1 .. i) \ {i} = 1 .. (i - 1)
<1>1. Max(1 .. i) \in 1 .. i /\ \A y \in 1 .. i : Max(1 .. i) >= y
  <2>1. 1 .. i \subseteq 0 .. n /\ 1 .. i # {}
    OBVIOUS
  <2>. QED  BY <2>1, MaxOfNaturals
<1>. QED  BY <1>1

\* h folds F over every set of indices.
FoldsOver(n, X, b, F, h) ==
  /\ h \in [SUBSET (1 .. n) -> X]
  /\ \A s \in SUBSET (1 .. n) :
       h[s] = IF s = {} THEN b ELSE F[Max(s)][h[s \ {Max(s)}]]

LEMMA FoldExists ==
  ASSUME NEW n \in Nat, NEW X, NEW b \in X, NEW F, \A i \in 1 .. n, x \in X : F[i][x] \in X
  PROVE  \E h : FoldsOver(n, X, b, F, h)
<1> DEFINE S == {i \in 0 .. n : \E h : FoldsOver(i, X, b, F, h)}
<1>1. 0 \in S
  <2> DEFINE h == [s \in SUBSET (1 .. 0) |-> b]
  <2>1. FoldsOver(0, X, b, F, h)
    BY DEF FoldsOver
  <2>. HIDE DEF h
  <2>. QED  BY <2>1
<1>2. ASSUME NEW i \in 0 .. n - 1, i \in S
      PROVE  i + 1 \in S
  <2>1. PICK h : FoldsOver(i, X, b, F, h)
    BY <1>2
  <2> DEFINE k == [s \in SUBSET (1 .. i + 1) |->
                     IF i + 1 \in s THEN F[i + 1][h[s \ {i + 1}]] ELSE h[s]]
  <2>2. ASSUME NEW s \in SUBSET (1 .. i + 1)
        PROVE  /\ s \ {i + 1} \in SUBSET (1 .. i) /\ k[s] \in X
               /\ k[s] = IF s = {} THEN b ELSE F[Max(s)][k[s \ {Max(s)}]]
    <3>1. s \ {i + 1} \in SUBSET (1 .. i) /\ i + 1 \in 1 .. n
      OBVIOUS
    <3>2. CASE i + 1 \in s
      <4>1. Max(s) = i + 1
        <5>1. s \subseteq 0 .. i + 1 /\ s # {}
          BY <3>2
        <5>2. Max(s) \in s /\ \A y \in s : Max(s) >= y
          BY <5>1, MaxOfNaturals
        <5>. QED  BY <3>2, <5>1, <5>2
      <4>2. k[s] = F[i + 1][h[s \ {i + 1}]] /\ k[s \ {i + 1}] = h[s \ {i + 1}]
        BY <3>2
      <4>3. h[s \ {i + 1}] \in X
        BY <2>1, <3>1 DEF FoldsOver
      <4>. QED  BY <3>1, <3>2, <4>1, <4>2, <4>3
    <3>3. CASE i + 1 \notin s
      <4>1. s \in SUBSET (1 .. i) /\ k[s] = h[s]
        BY <3>1, <3>3
      <4>2. k[s] \in X /\ h[s] = IF s = {} THEN b ELSE F[Max(s)][h[s \ {Max(s)}]]
        BY <2>1, <4>1 DEF FoldsOver
      <4>3. s # {} => k[s \ {Max(s)}] = h[s \ {Max(s)}]
        BY <3>3, <4>1
      <4>. QED  BY <3>1, <4>1, <4>2, <4>3
    <3>. QED  BY <3>2, <3>3
  <2>3. FoldsOver(i + 1, X, b, F, k)
    BY <2>2 DEF FoldsOver
  <2>. HIDE DEF k
  <2>. QED  BY <2>3
<1>3. 0 .. n \subseteq S
  <2>. HIDE DEF S
  <2>. QED  BY <1>1, <1>2, IntervalInduction
<1>. QED  BY <1>3

\* What holds at first, and is handed on by every step, holds of every prefix.
LEMMA FoldReaches ==
  ASSUME NEW n \in Nat, NEW g, NEW J, g[1 .. 0] \in J[0],
         \A i \in 1 .. n : g[1 .. (i - 1)] \in J[i - 1] => g[1 .. i] \in J[i]
  PROVE  g[1 .. n] \in J[n]
<1> DEFINE S == {i \in 0 .. n : g[1 .. i] \in J[i]}
<1>1. 0 \in S
  OBVIOUS
<1>2. ASSUME NEW i \in 0 .. n - 1, i \in S PROVE i + 1 \in S
  <2>1. i + 1 \in 1 .. n /\ (i + 1) - 1 = i /\ g[1 .. i] \in J[i]
    BY <1>2
  <2>2. g[1 .. ((i + 1) - 1)] \in J[(i + 1) - 1]
    BY <2>1
  <2>. QED  BY <2>1, <2>2
<1>3. 0 .. n \subseteq S
  <2>. HIDE DEF S
  <2>. QED  BY <1>1, <1>2, IntervalInduction
<1>. QED  BY <1>3

\* Of more places than there are values two have the same.
LEMMA SharedImage ==
  ASSUME NEW D, IsFiniteSet(D), NEW k \in Nat, Cardinality(D) = k, NEW f \in [0 .. k -> D]
  PROVE  \E i, j \in 0 .. k : i # j /\ f[i] = f[j]
<1>1. IsFiniteSet(0 .. k) /\ Cardinality(0 .. k) = k + 1
  BY FS_Interval
<1>2. Cardinality(D) < Cardinality(0 .. k)
  BY <1>1
<1>. QED  BY <1>1, <1>2, FS_PigeonHole
==============================================================================
