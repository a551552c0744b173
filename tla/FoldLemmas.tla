----------------------------- MODULE FoldLemmas -----------------------------
(***************************************************************************)
(* What the operators of FiniteSetsExt compute: the minimum of a set of    *)
(* natural numbers, and sums over finite sets and intervals.  The folds of *)
(* the library are recursive functions on the subsets of a set; what they  *)
(* compute is shown by looking at a smallest set for which it fails.       *)
(***************************************************************************)
EXTENDS Integers, FiniteSetsExt, FiniteSetTheorems, TLAPS

\* A set of natural numbers has a least element.
LEMMA LeastElement ==
    ASSUME NEW T, T \subseteq Nat, T # {}
    PROVE  \E x \in T : \A y \in T : x <= y
  <1> DEFINE R == OpToRel(<, Nat)
  <1>1. IsWellFoundedOn(R, Nat)
    BY NatLessThanWellFounded
  <1>2. \A x, y \in Nat : <<y, x>> \in R <=> y < x
    BY DEF OpToRel
  <1> HIDE DEF R
  <1>3. \E x \in T : \A y \in T : ~ (<<y, x>> \in R)
    BY <1>1, WFMin
  <1>4. PICK x \in T : \A y \in T : ~ (<<y, x>> \in R)
    BY <1>3
  <1>5. \A y \in T : x <= y
    <2> SUFFICES ASSUME NEW y \in T PROVE x <= y
      OBVIOUS
    <2>1. x \in Nat /\ y \in Nat /\ ~ (y < x)
      BY <1>2, <1>4
    <2> QED BY <2>1
  <1> QED BY <1>5

LEMMA MinIsLeast ==
    ASSUME NEW T, T \subseteq Nat, T # {}
    PROVE  Min(T) \in T /\ \A y \in T : Min(T) <= y
  BY LeastElement DEF Min

\* Induction over the natural numbers, for a set of them.
LEMMA NaturalInduction ==
    ASSUME NEW G, 0 \in G, \A n \in Nat : n \in G => n + 1 \in G
    PROVE  Nat \subseteq G
  <1> SUFFICES ASSUME Nat \ G # {} PROVE FALSE
    OBVIOUS
  <1>1. PICK x \in Nat \ G : \A y \in Nat \ G : x <= y
    BY LeastElement
  <1>2. x # 0 /\ x - 1 \in Nat /\ x - 1 \in G
    BY <1>1
  <1>3. (x - 1) + 1 \in G
    BY <1>2
  <1> QED BY <1>1, <1>3

\* Induction over the subsets of a finite set, for a set of them.
LEMMA SubsetInduction ==
    ASSUME NEW S, IsFiniteSet(S), NEW G,
           \A T \in SUBSET S : (\A U \in SUBSET T : U # T => U \in G) => T \in G
    PROVE  SUBSET S \subseteq G
  <1> DEFINE R == StrictSubsetOrdering(S)
  <1>1. IsWellFoundedOn(R, SUBSET S)
    BY FS_StrictSubsetOrderingWellFounded, FS_FiniteSubsetsOfFinite
  <1>2. \A T, U \in SUBSET S : <<U, T>> \in R <=> (U \subseteq T /\ U # T)
    BY DEF StrictSubsetOrdering
  <1> HIDE DEF R
  <1> SUFFICES ASSUME (SUBSET S) \ G # {} PROVE FALSE
    OBVIOUS
  <1>3. PICK T \in (SUBSET S) \ G : \A U \in (SUBSET S) \ G : ~ (<<U, T>> \in R)
    <2> DEFINE P == SUBSET S
               B == (SUBSET S) \ G
    <2>1. B \subseteq P /\ B # {} /\ IsWellFoundedOn(R, P)
      BY <1>1
    <2> HIDE DEF B, P
    <2>2. \E T \in B : \A U \in B : ~ (<<U, T>> \in R)
      BY <2>1, WFMin
    <2> QED BY <2>2 DEF B
  <1>4. \A U \in SUBSET T : U # T => U \in G
    BY <1>2, <1>3
  <1> QED BY <1>3, <1>4
-----------------------------------------------------------------------------
(* Sums over finite sets *)

\* The sum of the values of a function over a set.
SumOver(f, S) == MapThenSumSet(LAMBDA x : f[x], S)

\* The recursive function behind it.
Adds(g, f, S) ==
    g = [s \in SUBSET S |-> IF s = {} THEN 0
                            ELSE LET x == CHOOSE x \in s : TRUE IN f[x] + g[s \ {x}]]

\* Two of them agree where both are defined.
LEMMA AddsAgree ==
    ASSUME NEW f, NEW S, IsFiniteSet(S), NEW T, S \subseteq T,
           NEW g, Adds(g, f, S), NEW h, Adds(h, f, T)
    PROVE  \A s \in SUBSET S : g[s] = h[s]
  <1> DEFINE G == {s \in SUBSET S : g[s] = h[s]}
  <1>1. ASSUME NEW s \in SUBSET S, \A U \in SUBSET s : U # s => U \in G
        PROVE  s \in G
    <2>1. CASE s = {}
      BY <2>1 DEF Adds
    <2>2. CASE s # {}
      <3> DEFINE x == CHOOSE x \in s : TRUE
      <3>1. x \in s
        BY <2>2
      <3>2. g[s] = f[x] + g[s \ {x}]
        BY <2>2 DEF Adds
      <3>3. h[s] = f[x] + h[s \ {x}]
        BY <2>2 DEF Adds
      <3> HIDE DEF x
      <3>4. s \ {x} \in SUBSET s /\ s \ {x} # s
        BY <3>1
      <3>5. g[s \ {x}] = h[s \ {x}]
        BY <1>1, <3>4
      <3> QED BY <3>2, <3>3, <3>5
    <2> QED BY <2>1, <2>2
  <1> HIDE DEF G
  <1>2. SUBSET S \subseteq G
    BY <1>1, SubsetInduction
  <1> QED BY <1>2 DEF G

\* There is one for every finite set.
LEMMA AddsExists ==
    ASSUME NEW f, NEW S, IsFiniteSet(S)
    PROVE  \E g : Adds(g, f, S)
  <1> DEFINE G == {s \in SUBSET S : \E g : Adds(g, f, s)}
  <1>1. ASSUME NEW T \in SUBSET S, \A U \in SUBSET T : U # T => U \in G
        PROVE  T \in G
    <2> DEFINE fold(U) == CHOOSE g : Adds(g, f, U)
               x == CHOOSE x \in T : TRUE
               top == IF T = {} THEN 0 ELSE f[x] + fold(T \ {x})[T \ {x}]
               h == [s \in SUBSET T |-> IF s = T THEN top ELSE fold(s)[s]]
    <2>1. \A U \in SUBSET T : U # T => Adds(fold(U), f, U)
      BY <1>1
    <2>2. \A U \in SUBSET T : IsFiniteSet(U)
      BY FS_Subset
    <2> HIDE DEF fold
    <2>3. ASSUME NEW s \in SUBSET T
          PROVE  h[s] = IF s = {} THEN 0
                        ELSE LET y == CHOOSE y \in s : TRUE IN f[y] + h[s \ {y}]
      <3>1. CASE s = {}
        <4>1. CASE T = {}
          BY <3>1, <4>1
        <4>2. CASE T # {}
          <5>1. Adds(fold(s), f, s) /\ h[s] = fold(s)[s]
            BY <2>1, <3>1, <4>2
          <5>2. fold(s)[s] = 0
            BY <3>1, <5>1 DEF Adds
          <5> QED BY <3>1, <5>1, <5>2
        <4> QED BY <4>1, <4>2
      <3>2. CASE s # {}
        <4> DEFINE y == CHOOSE y \in s : TRUE
        <4>1. y \in s /\ s \ {y} \in SUBSET T /\ s \ {y} # T
          BY <3>2
        <4>2. h[s \ {y}] = fold(s \ {y})[s \ {y}]
          BY <4>1
        <4>3. h[s] = f[y] + fold(s \ {y})[s \ {y}]
          <5>1. CASE s = T
            BY <3>2, <5>1
          <5>2. CASE s # T
            <6>1. Adds(fold(s), f, s) /\ h[s] = fold(s)[s]
              BY <2>1, <5>2
            <6>2. fold(s)[s] = f[y] + fold(s)[s \ {y}]
              BY <3>2, <6>1 DEF Adds
            <6>3. Adds(fold(s \ {y}), f, s \ {y}) /\ IsFiniteSet(s \ {y})
              BY <2>1, <2>2, <4>1
            <6> HIDE DEF y, h
            <6>4. fold(s \ {y})[s \ {y}] = fold(s)[s \ {y}]
              <7>1. s \ {y} \subseteq s /\ s \ {y} \in SUBSET (s \ {y})
                OBVIOUS
              <7> QED BY <6>1, <6>3, <7>1, AddsAgree
            <6> QED BY <6>1, <6>2, <6>4
          <5> QED BY <5>1, <5>2
        <4> QED BY <3>2, <4>2, <4>3
      <3> QED BY <3>1, <3>2
    <2>4. h = [s \in SUBSET T |-> h[s]]
      OBVIOUS
    <2> HIDE DEF h
    <2>5. Adds(h, f, T)
      BY <2>3, <2>4 DEF Adds
    <2> QED BY <2>5
  <1> HIDE DEF G
  <1>2. SUBSET S \subseteq G
    BY <1>1, SubsetInduction
  <1> QED BY <1>2 DEF G

LEMMA SumOverAdds ==
    ASSUME NEW f, NEW S, IsFiniteSet(S)
    PROVE  \E g : Adds(g, f, S) /\ SumOver(f, S) = g[S]
  <1> DEFINE g == CHOOSE g : Adds(g, f, S)
  <1>1. Adds(g, f, S)
    BY AddsExists
  <1>2. SumOver(f, S) = g[S]
    BY DEF SumOver, MapThenSumSet, MapThenFoldSet, Adds
  <1> QED BY <1>1, <1>2

LEMMA SumOfNothing ==
    ASSUME NEW f
    PROVE  SumOver(f, {}) = 0
  <1>1. PICK g : Adds(g, f, {}) /\ SumOver(f, {}) = g[{}]
    BY SumOverAdds, FS_EmptySet
  <1> QED BY <1>1 DEF Adds

\* One step of the fold, with the element it takes.
LEMMA SumStep ==
    ASSUME NEW f, NEW S, IsFiniteSet(S), S # {}
    PROVE  \E x \in S : SumOver(f, S) = f[x] + SumOver(f, S \ {x})
  <1>1. PICK g : Adds(g, f, S) /\ SumOver(f, S) = g[S]
    BY SumOverAdds
  <1> DEFINE x == CHOOSE x \in S : TRUE
  <1>2. x \in S
    OBVIOUS
  <1>3. g[S] = f[x] + g[S \ {x}]
    BY <1>1 DEF Adds
  <1> HIDE DEF x
  <1>4. IsFiniteSet(S \ {x})
    BY FS_RemoveElement
  <1>5. PICK h : Adds(h, f, S \ {x}) /\ SumOver(f, S \ {x}) = h[S \ {x}]
    BY <1>4, SumOverAdds
  <1>6. h[S \ {x}] = g[S \ {x}]
    <2> DEFINE rest == S \ {x}
    <2>1. rest \subseteq S /\ IsFiniteSet(rest) /\ Adds(h, f, rest)
      BY <1>4, <1>5
    <2> HIDE DEF rest
    <2>2. \A s \in SUBSET rest : h[s] = g[s]
      BY <1>1, <2>1, AddsAgree
    <2>3. h[rest] = g[rest]
      BY <2>2
    <2> QED BY <2>3 DEF rest
  <1> QED BY <1>1, <1>2, <1>3, <1>5, <1>6

LEMMA SumOfInts ==
    ASSUME NEW S, IsFiniteSet(S), NEW f, \A x \in S : f[x] \in Int
    PROVE  SumOver(f, S) \in Int
  <1> DEFINE G == {s \in SUBSET S : SumOver(f, s) \in Int}
  <1>1. ASSUME NEW T \in SUBSET S, \A U \in SUBSET T : U # T => U \in G
        PROVE  T \in G
    <2>1. CASE T = {}
      BY <2>1, SumOfNothing
    <2>2. CASE T # {}
      <3>1. PICK x \in T : SumOver(f, T) = f[x] + SumOver(f, T \ {x})
        BY <2>2, FS_Subset, SumStep
      <3>2. T \ {x} \in SUBSET T /\ T \ {x} # T
        BY <3>1
      <3>3. SumOver(f, T \ {x}) \in Int /\ f[x] \in Int
        BY <1>1, <3>2
      <3> QED BY <3>1, <3>3
    <2> QED BY <2>1, <2>2
  <1> HIDE DEF G
  <1>2. SUBSET S \subseteq G
    BY <1>1, SubsetInduction
  <1> QED BY <1>2 DEF G

\* Any element may be taken out first.
LEMMA SumWithout ==
    ASSUME NEW S, IsFiniteSet(S), NEW f, \A x \in S : f[x] \in Int, NEW e \in S
    PROVE  SumOver(f, S) = f[e] + SumOver(f, S \ {e})
  <1> DEFINE G == {s \in SUBSET S : \A x \in s : SumOver(f, s) = f[x] + SumOver(f, s \ {x})}
  <1>0. \A s \in SUBSET S : IsFiniteSet(s) /\ SumOver(f, s) \in Int
    BY FS_Subset, SumOfInts
  <1>1. ASSUME NEW T \in SUBSET S, \A U \in SUBSET T : U # T => U \in G
        PROVE  T \in G
    <2> SUFFICES ASSUME NEW x \in T
                 PROVE  SumOver(f, T) = f[x] + SumOver(f, T \ {x})
      OBVIOUS
    <2>1. PICK y \in T : SumOver(f, T) = f[y] + SumOver(f, T \ {y})
      BY <1>0, SumStep
    <2>2. CASE x = y
      BY <2>1, <2>2
    <2>3. CASE x # y
      <3>1. /\ T \ {x} \in SUBSET T /\ T \ {x} # T /\ y \in T \ {x}
            /\ T \ {y} \in SUBSET T /\ T \ {y} # T /\ x \in T \ {y}
            /\ (T \ {x}) \ {y} = (T \ {y}) \ {x}
        BY <2>3
      <3>2. SumOver(f, T \ {y}) = f[x] + SumOver(f, (T \ {y}) \ {x})
        BY <1>1, <3>1
      <3>3. SumOver(f, T \ {x}) = f[y] + SumOver(f, (T \ {y}) \ {x})
        BY <1>1, <3>1
      <3>4. f[x] \in Int /\ f[y] \in Int /\ SumOver(f, (T \ {y}) \ {x}) \in Int
        BY <1>0
      <3> QED BY <2>1, <3>2, <3>3, <3>4
    <2> QED BY <2>2, <2>3
  <1> HIDE DEF G
  <1>2. SUBSET S \subseteq G
    BY <1>1, SubsetInduction
  <1> QED BY <1>2 DEF G

\* Functions that agree on a set have the same sum.
LEMMA SumOfEqual ==
    ASSUME NEW S, IsFiniteSet(S), NEW f, NEW g, \A x \in S : f[x] = g[x] /\ g[x] \in Int
    PROVE  SumOver(f, S) = SumOver(g, S)
  <1> DEFINE G == {s \in SUBSET S : SumOver(f, s) = SumOver(g, s)}
  <1>1. ASSUME NEW T \in SUBSET S, \A U \in SUBSET T : U # T => U \in G
        PROVE  T \in G
    <2>1. CASE T = {}
      BY <2>1, SumOfNothing
    <2>2. CASE T # {}
      <3>1. PICK x \in T : SumOver(f, T) = f[x] + SumOver(f, T \ {x})
        BY <2>2, FS_Subset, SumStep
      <3>2. T \ {x} \in SUBSET T /\ T \ {x} # T
        BY <3>1
      <3>3. SumOver(f, T \ {x}) = SumOver(g, T \ {x}) /\ f[x] = g[x]
        BY <1>1, <3>2
      <3>4. SumOver(g, T) = g[x] + SumOver(g, T \ {x})
        <4>1. IsFiniteSet(T) /\ \A y \in T : g[y] \in Int
          BY FS_Subset
        <4> QED BY <4>1, SumWithout
      <3> QED BY <3>1, <3>3, <3>4
    <2> QED BY <2>1, <2>2
  <1> HIDE DEF G
  <1>2. SUBSET S \subseteq G
    BY <1>1, SubsetInduction
  <1> QED BY <1>2 DEF G
-----------------------------------------------------------------------------
(* Sums over intervals *)

LEMMA SumOneMore ==
    ASSUME NEW n \in Nat, NEW f, \A k \in 1..(n + 1) : f[k] \in Int
    PROVE  SumOver(f, 1..(n + 1)) = SumOver(f, 1..n) + f[n + 1]
  <1>1. IsFiniteSet(1..(n + 1)) /\ n + 1 \in 1..(n + 1) /\ (1..(n + 1)) \ {n + 1} = 1..n
    BY FS_Interval
  <1>2. SumOver(f, 1..(n + 1)) = f[n + 1] + SumOver(f, 1..n)
    BY <1>1, SumWithout
  <1>3. IsFiniteSet(1..n) /\ \A k \in 1..n : f[k] \in Int
    BY FS_Interval
  <1>4. SumOver(f, 1..n) \in Int
    BY <1>3, SumOfInts
  <1> QED BY <1>2, <1>4

\* g is f after neighbours exchanged h: h[k] goes from k + 1 to k.
Exchanged(f, g, h, n) ==
    /\ \A k \in 1..n : f[k] \in Int /\ g[k] \in Int /\ g[k] = f[k] + h[k] - h[k - 1]
    /\ \A k \in 0..n : h[k] \in Int

\* Only what passes the two ends changes the sum.
LEMMA SumTelescopes ==
    ASSUME NEW n \in Nat, NEW f, NEW g, NEW h, Exchanged(f, g, h, n)
    PROVE  SumOver(g, 1..n) = SumOver(f, 1..n) + h[n] - h[0]
  <1> USE DEF Exchanged
  <1> DEFINE G == {m \in Nat : m <= n =>
                       SumOver(g, 1..m) = SumOver(f, 1..m) + h[m] - h[0]}
  <1>1. 0 \in G
    <2>1. 1..0 = {} /\ h[0] \in Int
      OBVIOUS
    <2> QED BY <2>1, SumOfNothing
  <1>2. ASSUME NEW m \in Nat, m \in G
        PROVE  m + 1 \in G
    <2> SUFFICES ASSUME m + 1 <= n
                 PROVE  SumOver(g, 1..(m + 1)) = SumOver(f, 1..(m + 1)) + h[m + 1] - h[0]
      OBVIOUS
    <2>1. SumOver(g, 1..m) = SumOver(f, 1..m) + h[m] - h[0]
      BY <1>2
    <2>2. \A k \in 1..(m + 1) : f[k] \in Int /\ g[k] \in Int
      OBVIOUS
    <2>3. /\ SumOver(g, 1..(m + 1)) = SumOver(g, 1..m) + g[m + 1]
          /\ SumOver(f, 1..(m + 1)) = SumOver(f, 1..m) + f[m + 1]
      BY <2>2, SumOneMore
    <2>4. SumOver(f, 1..m) \in Int
      <3>1. IsFiniteSet(1..m) /\ \A k \in 1..m : f[k] \in Int
        BY FS_Interval
      <3> QED BY <3>1, SumOfInts
    <2>5. g[m + 1] = f[m + 1] + h[m + 1] - h[m] /\ h[m + 1] \in Int /\ h[m] \in Int /\ h[0] \in Int
          /\ f[m + 1] \in Int
      <3>1. m + 1 \in 1..n /\ (m + 1) - 1 = m /\ m \in 0..n /\ m + 1 \in 0..n /\ 0 \in 0..n
        OBVIOUS
      <3> QED BY <3>1
    <2> HIDE DEF G
    <2> QED BY <2>1, <2>3, <2>4, <2>5
  <1> HIDE DEF G
  <1>3. Nat \subseteq G
    BY <1>1, <1>2, NaturalInduction
  <1>4. n \in G
    BY <1>3
  <1> QED BY <1>4 DEF G

\* One term changes.
LEMMA SumChanged ==
    ASSUME NEW n \in Nat, NEW f \in [1..n -> Int], NEW v \in 1..n, NEW x \in Int
    PROVE  SumOver([f EXCEPT ![v] = x], 1..n) = SumOver(f, 1..n) + x - f[v]
  <1> DEFINE g == [f EXCEPT ![v] = x]
             h == [k \in 0..n |-> IF k < v THEN 0 ELSE x - f[v]]
  <1>1. \A k \in 1..n : f[k] \in Int /\ g[k] \in Int /\ g[k] = f[k] + h[k] - h[k - 1]
    OBVIOUS
  <1>2. (\A k \in 0..n : h[k] \in Int) /\ h[n] = x - f[v] /\ h[0] = 0
    OBVIOUS
  <1> HIDE DEF g, h
  <1>3. SumOver(g, 1..n) = SumOver(f, 1..n) + h[n] - h[0]
    <2>1. Exchanged(f, g, h, n)
      BY <1>1, <1>2 DEF Exchanged
    <2> QED BY <2>1, SumTelescopes
  <1>4. SumOver(f, 1..n) \in Int
    <2>1. IsFiniteSet(1..n) /\ \A k \in 1..n : f[k] \in Int
      BY FS_Interval
    <2> QED BY <2>1, SumOfInts
  <1>5. f[v] \in Int
    OBVIOUS
  <1>6. SumOver(g, 1..n) = SumOver(f, 1..n) + x - f[v]
    BY <1>2, <1>3, <1>4, <1>5
  <1> QED BY <1>6 DEF g
=============================================================================
