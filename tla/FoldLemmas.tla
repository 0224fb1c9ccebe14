----------------------------- MODULE FoldLemmas -----------------------------
(***************************************************************************)
(* What the proofs of the other modules need about definitions that run    *)
(* through data: induction over the natural numbers in a form the provers  *)
(* can use (a set of naturals has a least element, so a set that holds 0   *)
(* and each successor holds all of them), and what a fold over the places  *)
(* of a sequence computes, place after place.                              *)
(***************************************************************************)
EXTENDS Integers, FiniteSets, SequencesExt, WellFoundedInduction, SequenceTheorems, TLAPS

\* A set of natural numbers has a least element.
LEMMA LeastNat ==
    ASSUME NEW T, T \subseteq Nat, T # {}
    PROVE  \E x \in T : \A y \in T : x <= y
<1>1. PICK x \in T : \A y \in T : ~ (<<y, x>> \in OpToRel(<, Nat))
  BY NatLessThanWellFounded, WFMin
<1>2. \A y \in T : ~ (y < x)
  BY <1>1 DEF OpToRel
<1> QED BY <1>2

\* Induction over the naturals, stated of the set of those that qualify.
LEMMA NatSets ==
    ASSUME NEW P, 0 \in P, \A n \in Nat : n \in P => n + 1 \in P
    PROVE  Nat \subseteq P
<1> DEFINE T == Nat \ P
<1>1. SUFFICES ASSUME T # {} PROVE FALSE
  OBVIOUS
<1>2. PICK x \in T : \A y \in T : x <= y
  BY <1>1, LeastNat
<1>3. x \in Nat /\ x # 0
  BY <1>2
<1>4. x - 1 \in Nat /\ x - 1 \notin T
  BY <1>2, <1>3
<1>5. x - 1 \in P
  BY <1>4
<1> QED BY <1>2, <1>3, <1>4, <1>5

\* The same up to m.
LEMMA UpTo ==
    ASSUME NEW m \in Nat, NEW P, 0 \in P, \A n \in 1 .. m : n - 1 \in P => n \in P
    PROVE  0 .. m \subseteq P
<1> DEFINE Q == {n \in Nat : n <= m => n \in P}
<1>1. 0 \in Q
  OBVIOUS
<1>2. ASSUME NEW n \in Nat, n \in Q
      PROVE  n + 1 \in Q
  <2>1. ASSUME n + 1 <= m
        PROVE  n + 1 \in P
    <3>1. n + 1 \in 1 .. m /\ n + 1 - 1 = n /\ n \in P
      BY <1>2, <2>1
    <3> QED BY <3>1
  <2> QED BY <2>1
<1> HIDE DEF Q
<1>3. Nat \subseteq Q
  BY <1>1, <1>2, NatSets
<1> QED BY <1>3 DEF Q

\* The greatest element of a set of places is the one a fold takes off next.
LEMMA MaxOfInitial ==
    ASSUME NEW n \in Nat, NEW s \in SUBSET (1 .. n + 1), n + 1 \in s
    PROVE  Max(s) = n + 1
<1>1. \A y \in s : y \in Int /\ n + 1 >= y
  OBVIOUS
<1>2. \E x \in s : \A y \in s : x >= y
  BY <1>1
<1>3. Max(s) \in s /\ \A y \in s : Max(s) >= y
  BY <1>2 DEF Max
<1>4. PICK k : k = Max(s)
  OBVIOUS
<1>5. k \in Int /\ n + 1 >= k /\ k >= n + 1
  BY <1>1, <1>3, <1>4
<1> QED BY <1>4, <1>5

\* It is a place of the set.
LEMMA MaxIsIn ==
    ASSUME NEW n \in Nat, NEW s \in SUBSET (1 .. n), s # {}
    PROVE  Max(s) \in s
<1> DEFINE T == {n - x : x \in s}
<1>1. T \subseteq Nat /\ T # {}
  <2>1. \A x \in s : n - x \in Nat
    <3>1. \A x \in 1 .. n : n - x \in Nat
      OBVIOUS
    <3> QED BY <3>1
  <2>2. PICK x : x \in s
    OBVIOUS
  <2>3. n - x \in T
    BY <2>2
  <2>4. \A t \in T : t \in Nat
    BY <2>1
  <2> QED BY <2>3, <2>4
<1>2. PICK t \in T : \A u \in T : t <= u
  BY <1>1, LeastNat
<1>3. PICK x \in s : t = n - x
  BY <1>2
<1>4. \A y \in s : x >= y
  <2>1. SUFFICES ASSUME NEW y \in s PROVE x >= y
    OBVIOUS
  <2>2. n - x <= n - y /\ x \in Int /\ y \in Int
    <3>1. n - y \in T /\ x \in Int /\ y \in Int
      OBVIOUS
    <3> QED BY <1>2, <1>3, <3>1
  <2> QED BY <2>2
<1> QED BY <1>4 DEF Max

\* F computes the fold of step over each set of the places 1 .. m.
IsFoldFunction(F, V, m, base, step) ==
    /\ F \in [SUBSET (1 .. m) -> V]
    /\ \A s \in SUBSET (1 .. m) :
          F[s] = IF s = {} THEN base ELSE step[<<F[s \ {Max(s)}], Max(s)>>]

\* What a fold over the first n places of a sequence asks of its recursive
\* function can be had, whatever the step is.
LEMMA FoldFunctionExists ==
    ASSUME NEW V, NEW base \in V, NEW m \in Nat, NEW step \in [V \X (1 .. m) -> V]
    PROVE  \E F : IsFoldFunction(F, V, m, base, step)
<1> DEFINE Folds(F, n) == \A s \in SUBSET (1 .. n) :
                 F[s] = IF s = {} THEN base ELSE step[<<F[s \ {Max(s)}], Max(s)>>]
           Has(n) == \E F \in [SUBSET (1 .. n) -> V] : Folds(F, n)
           P == {n \in Nat : n <= m => Has(n)}
<1>1. Has(0)
  <2>1. SUBSET (1 .. 0) = {{}}
    OBVIOUS
  <2>2. PICK F : F = [s \in SUBSET (1 .. 0) |-> base]
    OBVIOUS
  <2>3. F \in [SUBSET (1 .. 0) -> V] /\ Folds(F, 0)
    BY <2>1, <2>2
  <2> QED BY <2>3
<1>2. ASSUME NEW n \in Nat, n + 1 <= m, Has(n)
      PROVE  Has(n + 1)
  <2>1. PICK F \in [SUBSET (1 .. n) -> V] : Folds(F, n)
    BY <1>2
  <2>2. PICK G : G = [s \in SUBSET (1 .. n + 1) |->
                        IF n + 1 \in s THEN step[<<F[s \ {n + 1}], n + 1>>] ELSE F[s]]
    OBVIOUS
  <2>3. \A s \in SUBSET (1 .. n + 1) : s \ {n + 1} \in SUBSET (1 .. n)
    OBVIOUS
  <2>4. \A s \in SUBSET (1 .. n) : s \in SUBSET (1 .. n + 1) /\ n + 1 \notin s
    OBVIOUS
  <2>5. \A s \in SUBSET (1 .. n) : G[s] = F[s]
    BY <2>2, <2>4
  <2>6. n + 1 \in 1 .. m
    BY <1>2
  <2>7. G \in [SUBSET (1 .. n + 1) -> V]
    <3>1. ASSUME NEW s \in SUBSET (1 .. n + 1)
          PROVE  (IF n + 1 \in s THEN step[<<F[s \ {n + 1}], n + 1>>] ELSE F[s]) \in V
      <4>1. CASE n + 1 \in s
        BY <2>1, <2>3, <2>6, <4>1
      <4>2. CASE n + 1 \notin s
        <5>1. s \in SUBSET (1 .. n)
          BY <2>3, <4>2
        <5> QED BY <2>1, <4>2, <5>1
      <4> QED BY <4>1, <4>2
    <3> QED BY <2>2, <3>1
  <2>8. ASSUME NEW s \in SUBSET (1 .. n + 1)
        PROVE  G[s] = IF s = {} THEN base ELSE step[<<G[s \ {Max(s)}], Max(s)>>]
    <3>1. CASE n + 1 \in s
      <4>1. Max(s) = n + 1
        BY <3>1, MaxOfInitial
      <4>2. G[s] = step[<<F[s \ {n + 1}], n + 1>>]
        BY <2>2, <3>1
      <4>3. G[s \ {n + 1}] = F[s \ {n + 1}]
        BY <2>3, <2>5
      <4> QED BY <3>1, <4>1, <4>2, <4>3
    <3>2. CASE n + 1 \notin s
      <4>1. s \in SUBSET (1 .. n)
        BY <2>3, <3>2
      <4>2. s \ {Max(s)} \in SUBSET (1 .. n)
        BY <4>1
      <4> QED BY <2>1, <2>5, <4>1, <4>2
    <3> QED BY <3>1, <3>2
  <2> QED BY <2>7, <2>8
<1> HIDE DEF Has
<1>3. 0 \in P /\ \A n \in Nat : n \in P => n + 1 \in P
  <2>1. 0 \in P
    BY <1>1
  <2>2. ASSUME NEW n \in Nat, n \in P
        PROVE  n + 1 \in P
    BY <1>2, <2>2
  <2> QED BY <2>1, <2>2
<1>4. m \in P
  <2> HIDE DEF P
  <2> QED BY <1>3, NatSets
<1>5. Has(m)
  BY <1>4
<1> QED BY <1>5 DEF Has, IsFoldFunction

\* The same of an F of which no more is known than where its steps lead.
FoldsWith(F, V, m, base, step) ==
    /\ F[{}] = base
    /\ \A s \in SUBSET (1 .. m) : s # {} /\ F[s \ {Max(s)}] \in V =>
           F[s] = step[<<F[s \ {Max(s)}], Max(s)>>]

\* f holds what the fold F has come to after each place.
RunsThrough(f, F, V, m, base, step) ==
    /\ f \in [0 .. m -> V] /\ f[0] = base /\ f[m] = F[1 .. m]
    /\ \A i \in 1 .. m : f[i] = step[<<f[i - 1], i>>]

\* And any such function runs through the places one after another.
LEMMA FoldPlaces ==
    ASSUME NEW V, NEW base \in V, NEW m \in Nat, NEW step \in [V \X (1 .. m) -> V],
           NEW F, FoldsWith(F, V, m, base, step)
    PROVE  \E f : RunsThrough(f, F, V, m, base, step)
<1> DEFINE f == [i \in 0 .. m |-> F[1 .. i]]
<1>1. f[0] = base /\ f[m] = F[1 .. m]
  <2>1. 1 .. 0 = {} /\ 0 \in 0 .. m /\ m \in 0 .. m
    OBVIOUS
  <2> QED BY <2>1 DEF FoldsWith
<1>2. ASSUME NEW i \in 1 .. m, f[i - 1] \in V
      PROVE  f[i] = step[<<f[i - 1], i>>]
  <2>1. 1 .. i \in SUBSET (1 .. m) /\ 1 .. i # {} /\ (1 .. i) \ {i} = 1 .. i - 1
    OBVIOUS
  <2>2. Max(1 .. i) = i
    <3>1. PICK k \in Nat : i = k + 1
      <4>1. i - 1 \in Nat /\ i = i - 1 + 1
        OBVIOUS
      <4> QED BY <4>1
    <3>2. 1 .. i \in SUBSET (1 .. k + 1) /\ k + 1 \in 1 .. i
      BY <3>1
    <3> QED BY <3>1, <3>2, MaxOfInitial
  <2>3. f[i] = F[1 .. i] /\ f[i - 1] = F[1 .. i - 1]
    <3>1. i \in 0 .. m /\ i - 1 \in 0 .. m
      OBVIOUS
    <3> QED BY <3>1
  <2> HIDE DEF f
  <2> QED BY <1>2, <2>1, <2>2, <2>3 DEF FoldsWith
<1>3. \A i \in 0 .. m : f[i] \in V
  <2> DEFINE P == {i \in 0 .. m : f[i] \in V}
  <2> HIDE DEF f
  <2>1. 0 \in P
    BY <1>1
  <2>2. ASSUME NEW i \in 1 .. m, i - 1 \in P
        PROVE  i \in P
    <3>1. f[i - 1] \in V /\ i \in 0 .. m
      BY <2>2
    <3>2. step[<<f[i - 1], i>>] \in V
      BY <3>1
    <3> QED BY <1>2, <3>1, <3>2
  <2> HIDE DEF P
  <2>3. 0 .. m \subseteq P
    BY <2>1, <2>2, UpTo
  <2> QED BY <2>3 DEF P
<1>4. f \in [0 .. m -> V]
  BY <1>3
<1>5. \A i \in 1 .. m : f[i] = step[<<f[i - 1], i>>]
  <2>1. \A i \in 1 .. m : i - 1 \in 0 .. m
    OBVIOUS
  <2> HIDE DEF f
  <2> QED BY <1>2, <1>3, <2>1
<1> HIDE DEF f
<1> QED BY <1>1, <1>4, <1>5 DEF RunsThrough

=============================================================================
