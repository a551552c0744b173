-------------------------- MODULE Drifters_proofs --------------------------
(***************************************************************************)
(* However the grid is divided, the processes together move the drifters   *)
(* as one process with the whole grid would.                               *)
(***************************************************************************)
EXTENDS Drifters, TLAPS

Position2D == [i : Int, j : Int]
Out        == [i |-> Huge, j |-> Huge]
-----------------------------------------------------------------------------
(* Arithmetic *)

LEMMA QuotientUnique ==
    ASSUME NEW a \in Int, NEW u \in Nat \ {0}, NEW q \in Int, u * q <= a, a < u * q + u
    PROVE  a \div u = q
  BY SMT

LEMMA QuotientBounds ==
    ASSUME NEW a \in Int, NEW u \in Nat \ {0}
    PROVE  a \div u \in Int /\ u * (a \div u) <= a /\ a < u * (a \div u) + u
  BY SMT

\* An index in a part is the index in the grid less where the part begins.
LEMMA ShiftedQuotient ==
    ASSUME NEW a \in Int, NEW u \in Nat \ {0}, NEW k \in Int
    PROVE  (a - k * u) \div u = (a \div u) - k
  <1> DEFINE q == a \div u
  <1>1. q \in Int /\ u * q <= a /\ a < u * q + u
    BY QuotientBounds
  <1> HIDE DEF q
  <1>2. u * (q - k) = u * q - k * u /\ k * u \in Int /\ q - k \in Int
    BY <1>1, SMT
  <1>3. u * (q - k) <= a - k * u /\ a - k * u < u * (q - k) + u
    BY <1>1, <1>2, SMT
  <1>4. a - k * u \in Int
    BY <1>2
  <1>5. (a - k * u) \div u = q - k
    BY <1>2, <1>3, <1>4, QuotientUnique
  <1> QED BY <1>5 DEF q

LEMMA NearIsInt ==
    ASSUME NEW a \in Int
    PROVE  Near(a) \in Int
  BY DriftersAssumption DEF Near

LEMMA NearInGrid ==
    ASSUME NEW a \in Int, NEW k \in Int
    PROVE  Near(a - (k - 1) * Unit) = Near(a) - (k - 1)
  <1> DEFINE u == Unit
             h == Unit \div 2
             m == k - 1
  <1>1. u \in Nat \ {0} /\ h \in Int /\ m \in Int
    BY DriftersAssumption
  <1>2. m * u \in Int
    BY <1>1, SMT
  <1>3. ((a + h) - m * u) \div u = ((a + h) \div u) - m
    BY <1>1, ShiftedQuotient
  <1> HIDE DEF m
  <1>4. (a - m * u) + h = (a + h) - m * u
    BY <1>1, <1>2
  <1> QED BY <1>3, <1>4 DEF Near, m

\* The minimum of the positions that the processes bring: one of at most two.
LEMMA MinOfTwo ==
    ASSUME NEW S, NEW a \in Int, NEW b \in Int, S \subseteq {a, b}, S # {}
    PROVE  Min(S) \in S /\ \A x \in S : Min(S) <= x
  <1>1. S = {a} \/ S = {b} \/ S = {a, b}
    OBVIOUS
  <1>2. \E x \in S : \A y \in S : x <= y
    <2>1. CASE a <= b /\ a \in S
      BY <2>1
    <2>2. CASE b <= a /\ b \in S
      BY <2>2
    <2>3. CASE S = {a} \/ S = {b}
      BY <2>3
    <2> QED BY <1>1, <2>1, <2>2, <2>3
  <1> QED BY <1>2 DEF Min
-----------------------------------------------------------------------------
(* The grid and its parts *)

LEMMA LocalPoint ==
    ASSUME NEW p \in Proc, NEW x \in Position2D
    PROVE  Point(p, x) = <<Near(x.i) - (Is[p] - 1), Near(x.j) - (Js[p] - 1)>>
  <1>1. x.i \in Int /\ x.j \in Int
    BY DEF Position2D
  <1>2. Is[p] \in Int /\ Js[p] \in Int
    BY PartsAssumption
  <1>3. /\ Near(x.i - (Is[p] - 1) * Unit) = Near(x.i) - (Is[p] - 1)
        /\ Near(x.j - (Js[p] - 1) * Unit) = Near(x.j) - (Js[p] - 1)
    BY <1>1, <1>2, NearInGrid
  <1> QED BY <1>3 DEF Point

LEMMA WholePoint ==
    ASSUME NEW x
    PROVE  Track!Point(x) = <<Near(x.i), Near(x.j)>>
  BY DEF Track!Point, Track!Near, Near

\* A process that has a drifter in its part moves it as the whole grid would.
LEMMA PartMoves ==
    ASSUME NEW p \in Proc, NEW x \in Position2D, Inside(p, x)
    PROVE  Track!Inside(x) /\ MovedHere(p, x) = Track!Moved(x)
  <1> DEFINE a == Near(x.i)  b == Near(x.j)
  <1>1. a \in Int /\ b \in Int
    BY NearIsInt DEF Position2D
  <1>2. /\ Is[p] \in Nat \ {0} /\ Js[p] \in Nat \ {0} /\ Nx[p] \in Nat /\ Ny[p] \in Nat
        /\ Is[p] + Nx[p] - 1 <= NX /\ Js[p] + Ny[p] - 1 <= NY /\ NX \in Nat /\ NY \in Nat
    BY PartsAssumption, DriftersAssumption
  <1>3. Point(p, x) = <<a - (Is[p] - 1), b - (Js[p] - 1)>>
    BY LocalPoint
  <1>4. Track!Point(x) = <<a, b>>
    BY WholePoint
  <1> HIDE DEF a, b
  <1>5. a - (Is[p] - 1) \in 1..Nx[p] /\ b - (Js[p] - 1) \in 1..Ny[p]
    BY <1>3 DEF Inside, Local
  <1>6. a \in 1..NX /\ b \in 1..NY
    <2>1. \A m, k, n, N \in Int : (m - (k - 1) \in 1..n /\ k >= 1 /\ k + n - 1 <= N) => m \in 1..N
      OBVIOUS
    <2>2. a \in 1..NX
      BY <1>1, <1>2, <1>5, <2>1
    <2>3. b \in 1..NY
      BY <1>1, <1>2, <1>5, <2>1
    <2> QED BY <2>2, <2>3
  <1>7. Track!Inside(x)
    BY <1>4, <1>6 DEF Track!Inside
  <1>8. Global(p, Point(p, x)) = <<a, b>>
    <2>1. Global(p, Point(p, x)) = <<a - (Is[p] - 1) + Is[p] - 1, b - (Js[p] - 1) + Js[p] - 1>>
      BY <1>3 DEF Global
    <2>2. \A m \in Int : m - (Is[p] - 1) + Is[p] - 1 = m /\ m - (Js[p] - 1) + Js[p] - 1 = m
      BY <1>2
    <2> QED BY <1>1, <2>1, <2>2
  <1> QED BY <1>4, <1>7, <1>8 DEF MovedHere, Track!Moved

\* The parts cover the grid: every drifter in it is in the part of some process.
LEMMA SomebodyHasIt ==
    ASSUME NEW x \in Position2D, Track!Inside(x)
    PROVE  \E p \in Proc : Inside(p, x)
  <1> DEFINE a == Near(x.i)  b == Near(x.j)
  <1>1. a \in 1..NX /\ b \in 1..NY
    BY WholePoint DEF Track!Inside
  <1>2. \A p \in Proc : Point(p, x) = <<a - (Is[p] - 1), b - (Js[p] - 1)>>
    BY LocalPoint
  <1> HIDE DEF a, b
  <1>3. PICK p \in Proc : a \in Is[p]..(Is[p] + Nx[p] - 1) /\ b \in Js[p]..(Js[p] + Ny[p] - 1)
    BY <1>1, PartsAssumption
  <1>4. Is[p] \in Nat \ {0} /\ Js[p] \in Nat \ {0} /\ Nx[p] \in Nat /\ Ny[p] \in Nat
    BY PartsAssumption
  <1>5. a - (Is[p] - 1) \in 1..Nx[p] /\ b - (Js[p] - 1) \in 1..Ny[p]
    BY <1>3, <1>4
  <1> QED BY <1>2, <1>5 DEF Inside, Local

\* A drifter in the grid is not beyond the cell after the last one.
LEMMA PositionBounded ==
    ASSUME NEW y \in Int, NEW m \in Nat, Near(y) \in 1..m
    PROVE  y <= (m + 1) * Unit /\ (m + 1) * Unit \in Int
  <1> DEFINE u == Unit  h == Unit \div 2  q == Near(y)
  <1>1. u \in Nat \ {0} /\ h \in Int /\ h >= 0
    BY DriftersAssumption
  <1>2. q \in Int /\ y + h < u * q + u
    BY <1>1, QuotientBounds DEF Near
  <1>3. q + 1 <= m + 1 /\ q \in 1..m
    OBVIOUS
  <1> HIDE DEF u, h, q
  <1>4. /\ u * (q + 1) <= u * (m + 1) /\ u * (q + 1) = u * q + u /\ u * q \in Int
        /\ u * (m + 1) = (m + 1) * u /\ (m + 1) * u \in Int
    BY <1>1, <1>2, <1>3, SMT
  <1>5. y <= (m + 1) * u /\ (m + 1) * u \in Int
    <2> DEFINE v == u * q  w == u * (q + 1)  z == (m + 1) * u
    <2>1. /\ w = v + u /\ w <= z /\ v \in Int /\ z \in Int /\ u \in Int
          /\ y + h < v + u /\ h \in Int /\ h >= 0
      BY <1>1, <1>2, <1>4
    <2> HIDE DEF v, w, z
    <2>2. y <= z /\ z \in Int
      BY <2>1
    <2> QED BY <2>2 DEF z
  <1> QED BY <1>5 DEF u

LEMMA MovedBelowHuge ==
    ASSUME flow \in Flows, NEW x \in Position2D, Track!Inside(x)
    PROVE  /\ Track!Moved(x) \in Position2D
           /\ Track!Moved(x).i <= Huge /\ Track!Moved(x).j <= Huge
  <1> DEFINE c == Track!Point(x)
             G == (1..NX) \X (1..NY)
  <1>1. x.i \in Int /\ x.j \in Int
    BY DEF Position2D
  <1>2. Near(x.i) \in 1..NX /\ Near(x.j) \in 1..NY /\ c \in G
    BY WholePoint DEF Track!Inside
  <1>3. flow.u \in [G -> Int] /\ flow.v \in [G -> Int]
    BY DriftersAssumption
  <1>4. flow.u[c] \in Int /\ flow.v[c] \in Int
    BY <1>2, <1>3
  <1>5. flow.u[c] + (NX + 1) * Unit <= Huge /\ flow.v[c] + (NY + 1) * Unit <= Huge
    BY <1>2, HugeAssumption
  <1>6. x.i <= (NX + 1) * Unit /\ x.j <= (NY + 1) * Unit
    BY <1>1, <1>2, PositionBounded, DriftersAssumption
  <1>7. (NX + 1) * Unit \in Int /\ (NY + 1) * Unit \in Int /\ Huge \in Int
    BY DriftersAssumption, SMT
  <1>8. Track!Moved(x) = [i |-> x.i + flow.u[c], j |-> x.j + flow.v[c]]
    BY DEF Track!Moved
  <1> HIDE DEF c, G
  <1>9. /\ x.i + flow.u[c] \in Int /\ x.i + flow.u[c] <= Huge
        /\ x.j + flow.v[c] \in Int /\ x.j + flow.v[c] <= Huge
    BY <1>1, <1>4, <1>5, <1>6, <1>7
  <1> QED BY <1>8, <1>9 DEF Position2D

\* What a process makes of a drifter that is at x.
LEMMA MovedHereValues ==
    ASSUME flow \in Flows, NEW p \in Proc, NEW x \in Position2D
    PROVE  /\ MovedHere(p, x) \in Position2D
           /\ Inside(p, x) => Track!Inside(x) /\ MovedHere(p, x) = Track!Moved(x)
           /\ ~Inside(p, x) => MovedHere(p, x) = Out
  <1>1. ~Inside(p, x) => MovedHere(p, x) = Out
    BY DEF MovedHere, Out
  <1>2. Out \in Position2D
    BY DriftersAssumption DEF Out, Position2D
  <1> QED BY <1>1, <1>2, PartMoves, MovedBelowHuge
-----------------------------------------------------------------------------
(* The inductive invariant *)

\* A process is in the middle of moving drifter n.
Changed(p, n) == pc[p] # "loop" /\ d[p] = n

\* The processes take the drifters one by one: they are apart only by drifters
\* that none of them moves.
InStep ==
    /\ \A p \in Proc : pc[p] # "loop" => d[p] \in Drifter /\ Active(p, d[p])
    /\ \A p, q \in Proc : pc[p] = "reduce_j" => pc[q] = "reduce_j"
    /\ \A p, q \in Proc : \A n \in Drifter : (d[p] <= n /\ n < d[q]) => ~Active(p, n)

\* Who has not moved a drifter knows where it was, and who has got it from there.
Known ==
    \A p, q \in Proc : \A n \in Drifter :
        ~Changed(p, n) =>
            /\ ~Changed(q, n) => drift[q][n] = drift[p][n]
            /\ Changed(q, n)  => drift[q][n] = MovedHere(q, drift[p][n])

\* Those who moved it brought its new position or the huge number.
Brought ==
    \A n \in Drifter : \E x \in Position2D : \A q \in Proc :
        Changed(q, n) => drift[q][n].i \in {x.i, Huge} /\ drift[q][n].j \in {x.j, Huge}

\* After the first reduction they have the first coordinate in common.
HalfReduced ==
    \A p, q \in Proc : \A n \in Drifter :
        (pc[p] = "reduce_j" /\ d[p] = n) => drift[q][n].i = drift[p][n].i

IInv == TypeOK /\ InStep /\ Known /\ Brought /\ HalfReduced

\* In a reduction all are at the same drifter.
LEMMA SameDrifter ==
    ASSUME IInv, NEW p \in Proc, NEW q \in Proc, pc[p] # "loop", pc[q] # "loop"
    PROVE  d[p] = d[q]
  <1>1. d[p] \in Drifter /\ d[q] \in Drifter /\ Active(p, d[p]) /\ Active(q, d[q])
    BY DEF IInv, InStep
  <1>2. Active(q, d[p]) /\ Active(p, d[q])
    BY <1>1 DEF Active
  <1>3. ~(d[p] < d[q]) /\ ~(d[q] < d[p])
    <2>1. d[p] \in Int /\ d[q] \in Int
      BY <1>1 DEF Drifter
    <2> QED BY <1>1, <2>1 DEF IInv, InStep
  <1>4. d[p] \in Int /\ d[q] \in Int
    BY <1>1 DEF Drifter
  <1> QED BY <1>3, <1>4

LEMMA InitIInv == Init => IInv
  <1> SUFFICES ASSUME Init PROVE IInv
    OBVIOUS
  <1>1. PICK start \in [Drifter -> Starts] : drift = [p \in Proc |-> start]
    BY DEF Init
  <1>2. Starts \subseteq [i : Int, j : Int] /\ Drifters \in Nat
    BY DriftersAssumption
  <1>3. \A p \in Proc : d[p] = Drifters + 1 /\ pc[p] = "loop"
    BY DEF Init
  <1>4. TypeOK
    BY <1>1, <1>2 DEF Init, TypeOK
  <1>5. InStep
    BY <1>2, <1>3 DEF InStep, Drifter
  <1>6. \A p \in Proc : \A n \in Drifter : ~Changed(p, n)
    BY <1>3 DEF Changed
  <1>7. Known /\ HalfReduced
    BY <1>1, <1>3, <1>6 DEF Known, HalfReduced
  <1>8. Brought
    <2>1. Out \in Position2D
      BY DriftersAssumption DEF Out, Position2D
    <2> QED BY <1>6, <2>1 DEF Brought
  <1> QED BY <1>4, <1>5, <1>7, <1>8 DEF IInv

LEMMA TimestepIInv ==
    ASSUME IInv, Timestep PROVE IInv'
  <1>1. \A p \in Proc : pc[p] = "loop"
    <2>1. \A p \in Proc : d[p] \notin Drifter
      <3>1. \A p \in Proc : d[p] > Drifters
        BY DEF Timestep
      <3> QED BY <3>1, DriftersAssumption DEF Drifter
    <2> QED BY <2>1 DEF IInv, InStep
  <1>2. /\ t' = t + 1 /\ flow' \in Flows /\ d' = [p \in Proc |-> 1]
        /\ drift' = drift /\ pc' = pc
    BY DEF Timestep
  <1>3. TypeOK'
    BY <1>2, DriftersAssumption DEF IInv, TypeOK
  <1>4. InStep'
    <2>1. \A p \in Proc : pc'[p] = "loop" /\ d'[p] = 1
      BY <1>1, <1>2
    <2> QED BY <2>1 DEF InStep, Drifter
  <1>5. \A p \in Proc : \A n \in Drifter : ~Changed(p, n) /\ ~Changed(p, n)'
    BY <1>1, <1>2 DEF Changed
  <1>6. Known' /\ HalfReduced'
    BY <1>1, <1>2, <1>5 DEF IInv, Known, HalfReduced
  <1>7. Brought'
    <2>1. Out \in Position2D
      BY DriftersAssumption DEF Out, Position2D
    <2> QED BY <1>5, <2>1 DEF Brought
  <1> QED BY <1>3, <1>4, <1>6, <1>7 DEF IInv

LEMMA SkipIInv ==
    ASSUME IInv, NEW p \in Proc, Skip(p) PROVE IInv'
  <1>1. /\ pc[p] = "loop" /\ d[p] \in Drifter /\ ~Active(p, d[p])
        /\ d' = [d EXCEPT ![p] = d[p] + 1]
        /\ UNCHANGED <<t, flow, drift, pc>>
    BY DEF Skip
  <1>2. TypeOK'
    <2>1. d[p] + 1 \in 1..(Drifters + 1)
      BY <1>1, DriftersAssumption DEF Drifter
    <2>2. d' \in [Proc -> 1..(Drifters + 1)]
      BY <1>1, <2>1 DEF IInv, TypeOK
    <2> QED BY <1>1, <2>2 DEF IInv, TypeOK
  <1>3. \A q \in Proc : d[q] \in Nat /\ d'[q] = IF q = p THEN d[p] + 1 ELSE d[q]
    BY <1>1 DEF IInv, TypeOK
  <1>4. InStep'
    <2>1. ASSUME NEW q \in Proc, pc'[q] # "loop"
          PROVE  d'[q] \in Drifter /\ Active(q, d[q])'
      <3>1. q # p /\ pc[q] # "loop"
        BY <1>1, <2>1
      <3>2. d'[q] = d[q] /\ t' = t
        BY <1>1, <1>3, <3>1
      <3>3. d[q] \in Drifter /\ Active(q, d[q])
        BY <3>1 DEF IInv, InStep
      <3> QED BY <3>2, <3>3 DEF Active
    <2>2. \A q, r \in Proc : pc'[q] = "reduce_j" => pc'[r] = "reduce_j"
      BY <1>1 DEF IInv, InStep
    <2>3. ASSUME NEW q \in Proc, NEW r \in Proc, NEW n \in Drifter, d'[q] <= n, n < d'[r]
          PROVE  ~Active(q, n)'
      <3>1. n \in Nat /\ d[q] <= n
        BY <1>3, <2>3 DEF Drifter
      <3>2. CASE n < d[r]
        BY <1>1, <3>1, <3>2 DEF IInv, InStep, Active
      <3>3. CASE ~(n < d[r])
        <4>1. r = p /\ n = d[p]
          BY <1>3, <2>3, <3>1, <3>3
        <4> QED BY <1>1, <4>1 DEF Active
      <3> QED BY <3>2, <3>3
    <2> QED BY <2>1, <2>2, <2>3 DEF InStep
  <1>5. \A q \in Proc : \A n \in Drifter : Changed(q, n)' <=> Changed(q, n)
    BY <1>1, <1>3 DEF Changed
  <1>6. Known'
    BY <1>1, <1>5 DEF IInv, Known, MovedHere, Inside
  <1>7. Brought'
    BY <1>1, <1>5 DEF IInv, Brought
  <1>8. HalfReduced'
    BY <1>1, <1>3 DEF IInv, HalfReduced
  <1> QED BY <1>2, <1>4, <1>6, <1>7, <1>8 DEF IInv

\* What a step of Move does, drifter by drifter.
LEMMA MoveEffect ==
    ASSUME IInv, NEW p \in Proc, Move(p)
    PROVE  /\ pc[p] = "loop" /\ d[p] \in Drifter /\ Active(p, d[p])
           /\ UNCHANGED <<t, flow, d>>
           /\ pc' = [pc EXCEPT ![p] = "reduce_i"]
           /\ drift \in [Proc -> [Drifter -> Position2D]]
           /\ drift'[p][d[p]] = MovedHere(p, drift[p][d[p]])
           /\ \A q \in Proc : \A n \in Drifter :
                 (q # p \/ n # d[p]) => drift'[q][n] = drift[q][n]
           /\ drift' \in [Proc -> [Drifter -> Position2D]]
  <1>1. /\ pc[p] = "loop" /\ d[p] \in Drifter /\ Active(p, d[p])
        /\ UNCHANGED <<t, flow, d>>
        /\ pc' = [pc EXCEPT ![p] = "reduce_i"]
        /\ drift' = [drift EXCEPT ![p][d[p]] = MovedHere(p, drift[p][d[p]])]
    BY DEF Move
  <1>2. drift \in [Proc -> [Drifter -> Position2D]] /\ flow \in Flows
    BY DEF IInv, TypeOK, Position2D
  <1>3. MovedHere(p, drift[p][d[p]]) \in Position2D
    BY <1>1, <1>2, MovedHereValues
  <1>4. drift' \in [Proc -> [Drifter -> Position2D]]
    BY <1>1, <1>2, <1>3
  <1> QED BY <1>1, <1>2, <1>4

LEMMA MoveIInv ==
    ASSUME IInv, NEW p \in Proc, Move(p) PROVE IInv'
  <1>0. PICK k, v : k = d[p] /\ v = drift[p][d[p]]
    OBVIOUS
  <1>1. /\ pc[p] = "loop" /\ k \in Drifter /\ Active(p, k)
        /\ UNCHANGED <<t, flow, d>>
        /\ pc' = [pc EXCEPT ![p] = "reduce_i"]
        /\ drift \in [Proc -> [Drifter -> Position2D]]
        /\ drift'[p][k] = MovedHere(p, v)
        /\ \A q \in Proc : \A n \in Drifter :
              (q # p \/ n # k) => drift'[q][n] = drift[q][n]
        /\ drift' \in [Proc -> [Drifter -> Position2D]]
    BY <1>0, MoveEffect
  <1>2. TypeOK'
    BY <1>1 DEF IInv, TypeOK, Position2D
  <1>3. pc' = [q \in Proc |-> IF q = p THEN "reduce_i" ELSE pc[q]]
    BY <1>1 DEF IInv, TypeOK
  <1>4. \A q \in Proc : pc[q] # "reduce_j"
    BY <1>1 DEF IInv, InStep
  <1>5. InStep'
    <2>1. ASSUME NEW q \in Proc, pc'[q] # "loop"
          PROVE  d'[q] \in Drifter /\ Active(q, d[q])'
      <3>1. d[q] \in Drifter /\ Active(q, d[q])
        BY <1>0, <1>1, <1>3, <2>1 DEF IInv, InStep
      <3> QED BY <1>1, <3>1 DEF Active
    <2>2. \A q \in Proc : pc'[q] # "reduce_j"
      BY <1>3, <1>4
    <2>3. \A q, r \in Proc : \A n \in Drifter : (d'[q] <= n /\ n < d'[r]) => ~Active(q, n)'
      BY <1>1 DEF IInv, InStep, Active
    <2> QED BY <2>1, <2>2, <2>3 DEF InStep
  <1>6. \A q \in Proc : \A n \in Drifter :
            Changed(q, n)' <=> (Changed(q, n) \/ (q = p /\ n = k))
    BY <1>0, <1>1, <1>3 DEF Changed
  <1>7. ~Changed(p, k)
    BY <1>1 DEF Changed
  <1>8. \A q \in Proc : \A x : MovedHere(q, x)' = MovedHere(q, x)
    BY <1>1 DEF MovedHere, Inside
  <1>9. \A q \in Proc : /\ ~Changed(q, k) => drift[q][k] = v
                        /\ Changed(q, k) => drift[q][k] = MovedHere(q, v)
    BY <1>0, <1>1, <1>7 DEF IInv, Known
  <1>10. Known'
    <2> SUFFICES ASSUME NEW r \in Proc, NEW q \in Proc, NEW n \in Drifter, ~Changed(r, n)'
                 PROVE  /\ ~Changed(q, n)' => drift'[q][n] = drift'[r][n]
                        /\ Changed(q, n)'  => drift'[q][n] = MovedHere(q, drift[r][n])'
      BY DEF Known
    <2>1. ~Changed(r, n) /\ (r # p \/ n # k) /\ drift'[r][n] = drift[r][n]
      BY <1>1, <1>6
    <2>2. CASE q = p /\ n = k
      BY <1>1, <1>6, <1>8, <1>9, <2>1, <2>2
    <2>3. CASE ~(q = p /\ n = k)
      <3>1. drift'[q][n] = drift[q][n] /\ (Changed(q, n)' <=> Changed(q, n))
        BY <1>1, <1>6, <2>3
      <3> QED BY <1>8, <2>1, <3>1 DEF IInv, Known
    <2> QED BY <2>2, <2>3
  <1>11. Brought'
    <2> SUFFICES ASSUME NEW n \in Drifter
                 PROVE  \E x \in Position2D : \A q \in Proc :
                            Changed(q, n)' => /\ drift'[q][n].i \in {x.i, Huge}
                                              /\ drift'[q][n].j \in {x.j, Huge}
      BY DEF Brought
    <2>1. CASE n # k
      <3>1. \A q \in Proc : drift'[q][n] = drift[q][n] /\ (Changed(q, n)' <=> Changed(q, n))
        BY <1>1, <1>6, <2>1
      <3> QED BY <3>1 DEF IInv, Brought
    <2>2. CASE n = k
      <3>1. v \in Position2D /\ flow \in Flows
        <4>1. v \in Position2D
          BY <1>0, <1>1
        <4>2. flow \in Flows
          BY DEF IInv, TypeOK
        <4> QED BY <4>1, <4>2
      <3>2. \A q \in Proc : Changed(q, k)' => drift'[q][k] = MovedHere(q, v)
        BY <1>1, <1>6, <1>9
      <3>3. CASE Track!Inside(v)
        <4>1. Track!Moved(v) \in Position2D
          BY <3>1, <3>3, MovedBelowHuge
        <4>2. \A q \in Proc : MovedHere(q, v) = Track!Moved(v) \/ MovedHere(q, v) = Out
          BY <3>1, MovedHereValues
        <4> DEFINE x == Track!Moved(v)
        <4>3. \A q \in Proc : Changed(q, k)' => drift'[q][k] = x \/ drift'[q][k] = Out
          BY <3>2, <4>2
        <4> HIDE DEF x
        <4>4. \A q \in Proc : Changed(q, k)' => /\ drift'[q][k].i \in {x.i, Huge}
                                                 /\ drift'[q][k].j \in {x.j, Huge}
          BY <4>3 DEF Out
        <4>5. x \in Position2D
          BY <4>1 DEF x
        <4> QED BY <2>2, <4>4, <4>5
      <3>4. CASE ~Track!Inside(v)
        <4>1. \A q \in Proc : MovedHere(q, v) = Out
          BY <3>1, <3>4, MovedHereValues
        <4>2. Out \in Position2D
          BY DriftersAssumption DEF Out, Position2D
        <4>3. \A q \in Proc : Changed(q, k)' => /\ drift'[q][k].i \in {Out.i, Huge}
                                                 /\ drift'[q][k].j \in {Out.j, Huge}
          BY <3>2, <4>1
        <4> QED BY <2>2, <4>2, <4>3
      <3> QED BY <3>3, <3>4
    <2> QED BY <2>1, <2>2
  <1>12. HalfReduced'
    BY <1>3, <1>4 DEF HalfReduced
  <1> QED BY <1>2, <1>5, <1>10, <1>11, <1>12 DEF IInv

\* In a reduction all processes have changed the same drifter.
LEMMA AllChanged ==
    ASSUME IInv, NEW k, NEW p \in Proc, d[p] = k, \A q \in Proc : pc[q] # "loop"
    PROVE  /\ k \in Drifter
           /\ \A q \in Proc : d[q] = k
           /\ \A q \in Proc : \A n \in Drifter : Changed(q, n) <=> n = k
  <1>1. \A q \in Proc : d[q] = k
    BY SameDrifter
  <1>2. k \in Drifter
    BY DEF IInv, InStep
  <1> QED BY <1>1, <1>2 DEF Changed

\* The minimum is one of the values that were brought.
LEMMA MinimumBrought ==
    ASSUME IInv, NEW k \in Drifter, \A q \in Proc : Changed(q, k)
    PROVE  /\ Min({drift[q][k].i : q \in Proc}) \in Int
           /\ Min({drift[q][k].j : q \in Proc}) \in Int
           /\ \E x \in Position2D :
                 /\ Min({drift[q][k].i : q \in Proc}) \in {x.i, Huge}
                 /\ Min({drift[q][k].j : q \in Proc}) \in {x.j, Huge}
  <1>1. PICK x \in Position2D : \A q \in Proc :
            drift[q][k].i \in {x.i, Huge} /\ drift[q][k].j \in {x.j, Huge}
    BY DEF IInv, Brought
  <1>2. x.i \in Int /\ x.j \in Int /\ Huge \in Int
    BY DriftersAssumption DEF Position2D
  <1> DEFINE I == {drift[q][k].i : q \in Proc}
             J == {drift[q][k].j : q \in Proc}
  <1>3. I \subseteq {x.i, Huge} /\ J \subseteq {x.j, Huge} /\ I # {} /\ J # {}
    BY <1>1, PartsAssumption
  <1> HIDE DEF I, J
  <1>4. Min(I) \in I /\ Min(J) \in J
    BY <1>2, <1>3, MinOfTwo
  <1>5. /\ Min(I) \in Int /\ Min(J) \in Int
        /\ Min(I) \in {x.i, Huge} /\ Min(J) \in {x.j, Huge}
    BY <1>2, <1>3, <1>4
  <1> QED BY <1>5 DEF I, J

LEMMA ReduceIIInv ==
    ASSUME IInv, ReduceI PROVE IInv'
  <1>p. PICK p0 \in Proc : TRUE
    BY PartsAssumption
  <1>0. PICK k : k = d[p0] /\ p0 \in Proc
    BY <1>p
  <1>1. \A q \in Proc : pc[q] = "reduce_i"
    BY DEF ReduceI
  <1>2. /\ k \in Drifter
        /\ \A q \in Proc : d[q] = k
        /\ \A q \in Proc : \A n \in Drifter : Changed(q, n) <=> n = k
    BY <1>0, <1>1, AllChanged
  <1>3. PICK m : m = Min({drift[q][d[q]].i : q \in Proc})
    OBVIOUS
  <1>4. {drift[q][d[q]].i : q \in Proc} = {drift[q][k].i : q \in Proc}
    BY <1>2
  <1>5. PICK x \in Position2D : m \in {x.i, Huge} /\ m \in Int
    BY <1>2, <1>3, <1>4, MinimumBrought
  <1>6. drift \in [Proc -> [Drifter -> Position2D]]
    BY DEF IInv, TypeOK, Position2D
  <1>7. /\ drift' = [q \in Proc |-> [drift[q] EXCEPT ![d[q]].i = m]]
        /\ pc' = [q \in Proc |-> "reduce_j"]
        /\ UNCHANGED <<t, flow, d>>
    BY <1>3 DEF ReduceI
  <1>8. drift' = [q \in Proc |-> [drift[q] EXCEPT ![k] = [i |-> m, j |-> drift[q][k].j]]]
    <2>1. \A q \in Proc : [drift[q] EXCEPT ![d[q]].i = m]
                              = [drift[q] EXCEPT ![k] = [i |-> m, j |-> drift[q][k].j]]
      <3> SUFFICES ASSUME NEW q \in Proc
                   PROVE  [drift[q] EXCEPT ![k].i = m]
                              = [drift[q] EXCEPT ![k] = [i |-> m, j |-> drift[q][k].j]]
        BY <1>2
      <3>1. drift[q][k] \in Position2D
        BY <1>2, <1>6
      <3>2. [drift[q][k] EXCEPT !.i = m] = [i |-> m, j |-> drift[q][k].j]
        BY <3>1 DEF Position2D
      <3> QED BY <3>2
    <2> QED BY <1>7, <2>1
  <1>9. /\ \A q \in Proc : drift'[q][k] = [i |-> m, j |-> drift[q][k].j]
        /\ \A q \in Proc : \A n \in Drifter : n # k => drift'[q][n] = drift[q][n]
        /\ drift' \in [Proc -> [Drifter -> Position2D]]
    <2>1. \A q \in Proc : [i |-> m, j |-> drift[q][k].j] \in Position2D
      BY <1>2, <1>5, <1>6 DEF Position2D
    <2> QED BY <1>2, <1>6, <1>8, <2>1
  <1>9a. \A q \in Proc : drift'[q][k].i = m /\ drift'[q][k].j = drift[q][k].j
    <2> SUFFICES ASSUME NEW q \in Proc
                 PROVE  drift'[q][k].i = m /\ drift'[q][k].j = drift[q][k].j
      OBVIOUS
    <2>1. PICK e : e = drift'[q][k]
      OBVIOUS
    <2>2. PICK c : c = drift[q][k].j
      OBVIOUS
    <2>3. e = [i |-> m, j |-> c]
      BY <1>9, <2>1, <2>2
    <2>4. e.i = m /\ e.j = c
      BY <2>3
    <2> QED BY <2>1, <2>2, <2>4
  <1>10. TypeOK'
    BY <1>7, <1>9 DEF IInv, TypeOK, Position2D
  <1>11. \A q \in Proc : \A n \in Drifter : Changed(q, n)' <=> n = k
    BY <1>2, <1>7 DEF Changed
  <1>12. InStep'
    <2>1. \A q \in Proc : d'[q] = k /\ pc'[q] = "reduce_j"
      BY <1>2, <1>7
    <2>2. \A q \in Proc : Active(q, k)'
      <3>1. \A q \in Proc : Active(q, k)
        BY <1>1, <1>2 DEF IInv, InStep
      <3> QED BY <1>7, <3>1 DEF Active
    <2>3. k \in Nat
      BY <1>2 DEF Drifter
    <2> QED BY <1>2, <2>1, <2>2, <2>3 DEF InStep, Drifter, Active
  <1>13. Known'
    <2> SUFFICES ASSUME NEW r \in Proc, NEW q \in Proc, NEW n \in Drifter, ~Changed(r, n)'
                 PROVE  /\ ~Changed(q, n)' => drift'[q][n] = drift'[r][n]
                        /\ Changed(q, n)'  => drift'[q][n] = MovedHere(q, drift[r][n])'
      BY DEF Known
    <2>1. n # k /\ ~Changed(q, n)' /\ ~Changed(r, n) /\ ~Changed(q, n)
      BY <1>2, <1>11
    <2> QED BY <1>9, <2>1 DEF IInv, Known
  <1>14. Brought'
    <2>1. PICK y \in Position2D : \A q \in Proc : drift[q][k].j \in {y.j, Huge}
      BY <1>2 DEF IInv, Brought
    <2>2. [i |-> x.i, j |-> y.j] \in Position2D
      BY <2>1 DEF Position2D
    <2> SUFFICES ASSUME NEW n \in Drifter
                 PROVE  \E z \in Position2D : \A q \in Proc :
                            Changed(q, n)' => /\ drift'[q][n].i \in {z.i, Huge}
                                              /\ drift'[q][n].j \in {z.j, Huge}
      BY DEF Brought
    <2>3. CASE n = k
      <3>1. PICK z \in Position2D : z.i = x.i /\ z.j = y.j
        BY <2>2
      <3>2. \A q \in Proc : drift'[q][k].i \in {z.i, Huge} /\ drift'[q][k].j \in {z.j, Huge}
        BY <1>5, <1>9a, <2>1, <3>1
      <3> QED BY <2>3, <3>1, <3>2
    <2>4. CASE n # k
      BY <1>11, <2>2, <2>4
    <2> QED BY <2>3, <2>4
  <1>15. HalfReduced'
    <2>1. \A q \in Proc : d'[q] = k
      BY <1>2, <1>7
    <2> QED BY <1>9a, <2>1 DEF HalfReduced
  <1> QED BY <1>10, <1>12, <1>13, <1>14, <1>15 DEF IInv

LEMMA ReduceJIInv ==
    ASSUME IInv, ReduceJ PROVE IInv'
  <1>p. PICK p0 \in Proc : TRUE
    BY PartsAssumption
  <1>0. PICK k : k = d[p0] /\ p0 \in Proc
    BY <1>p
  <1>1. \A q \in Proc : pc[q] = "reduce_j"
    BY DEF ReduceJ
  <1>2. /\ k \in Drifter
        /\ \A q \in Proc : d[q] = k
        /\ \A q \in Proc : \A n \in Drifter : Changed(q, n) <=> n = k
    BY <1>0, <1>1, AllChanged
  <1>3. PICK m : m = Min({drift[q][d[q]].j : q \in Proc})
    OBVIOUS
  <1>4. {drift[q][d[q]].j : q \in Proc} = {drift[q][k].j : q \in Proc}
    BY <1>2
  <1>5. m \in Int
    BY <1>2, <1>3, <1>4, MinimumBrought
  <1>6. drift \in [Proc -> [Drifter -> Position2D]]
    BY DEF IInv, TypeOK, Position2D
  <1>7. /\ drift' = [q \in Proc |-> [drift[q] EXCEPT ![d[q]].j = m]]
        /\ d' = [q \in Proc |-> d[q] + 1]
        /\ pc' = [q \in Proc |-> "loop"]
        /\ UNCHANGED <<t, flow>>
    BY <1>3 DEF ReduceJ
  <1>8. drift' = [q \in Proc |-> [drift[q] EXCEPT ![k] = [i |-> drift[q][k].i, j |-> m]]]
    <2>1. \A q \in Proc : [drift[q] EXCEPT ![d[q]].j = m]
                              = [drift[q] EXCEPT ![k] = [i |-> drift[q][k].i, j |-> m]]
      <3> SUFFICES ASSUME NEW q \in Proc
                   PROVE  [drift[q] EXCEPT ![k].j = m]
                              = [drift[q] EXCEPT ![k] = [i |-> drift[q][k].i, j |-> m]]
        BY <1>2
      <3>1. drift[q][k] \in Position2D
        BY <1>2, <1>6
      <3>2. [drift[q][k] EXCEPT !.j = m] = [i |-> drift[q][k].i, j |-> m]
        BY <3>1 DEF Position2D
      <3> QED BY <3>2
    <2> QED BY <1>7, <2>1
  <1>9. /\ \A q \in Proc : drift'[q][k] = [i |-> drift[q][k].i, j |-> m]
        /\ \A q \in Proc : \A n \in Drifter : n # k => drift'[q][n] = drift[q][n]
        /\ drift' \in [Proc -> [Drifter -> Position2D]]
    <2>1. \A q \in Proc : [i |-> drift[q][k].i, j |-> m] \in Position2D
      BY <1>2, <1>5, <1>6 DEF Position2D
    <2> QED BY <1>2, <1>6, <1>8, <2>1
  <1>10. k \in Nat /\ k + 1 \in 1..(Drifters + 1)
    BY <1>2, DriftersAssumption DEF Drifter
  <1>11. \A q \in Proc : d'[q] = k + 1 /\ pc'[q] = "loop"
    BY <1>2, <1>7
  <1>12. TypeOK'
    <2>1. d' \in [Proc -> 1..(Drifters + 1)]
      BY <1>7, <1>10, <1>11
    <2> QED BY <1>7, <1>9, <2>1 DEF IInv, TypeOK, Position2D
  <1>13. \A q \in Proc : \A n \in Drifter : ~Changed(q, n)'
    BY <1>11 DEF Changed
  <1>14. InStep'
    BY <1>10, <1>11 DEF InStep, Drifter
  <1>15. Known'
    <2> SUFFICES ASSUME NEW r \in Proc, NEW q \in Proc, NEW n \in Drifter
                 PROVE  drift'[q][n] = drift'[r][n]
      BY <1>13 DEF Known
    <2>1. CASE n = k
      <3>1. drift[q][k].i = drift[r][k].i
        BY <1>1, <1>2 DEF IInv, HalfReduced
      <3> QED BY <1>9, <2>1, <3>1
    <2>2. CASE n # k
      BY <1>2, <1>9, <2>2 DEF IInv, Known
    <2> QED BY <2>1, <2>2
  <1>16. Brought'
    <2>1. Out \in Position2D
      BY DriftersAssumption DEF Out, Position2D
    <2> QED BY <1>13, <2>1 DEF Brought
  <1>17. HalfReduced'
    BY <1>11 DEF HalfReduced
  <1> QED BY <1>12, <1>14, <1>15, <1>16, <1>17 DEF IInv

LEMMA NextIInv == IInv /\ [Next]_vars => IInv'
  <1> SUFFICES ASSUME IInv, [Next]_vars PROVE IInv'
    OBVIOUS
  <1>1. CASE UNCHANGED vars
    <2>1. \A p \in Proc : \A n \in Drifter : Changed(p, n)' <=> Changed(p, n)
      BY <1>1 DEF Changed, vars
    <2>2. TypeOK' /\ InStep' /\ HalfReduced'
      BY <1>1 DEF IInv, TypeOK, InStep, HalfReduced, Active, vars
    <2>3. Known'
      BY <1>1, <2>1 DEF IInv, Known, MovedHere, vars
    <2>4. Brought'
      BY <1>1, <2>1 DEF IInv, Brought, vars
    <2> QED BY <2>2, <2>3, <2>4 DEF IInv
  <1> QED BY <1>1, TimestepIInv, SkipIInv, MoveIInv, ReduceIIInv, ReduceJIInv
          DEF Next, Collective, Process

\* Positions are positions and every process is where the loop of drifter can
\* be: drifters.F90.
THEOREM DriftersTypes == Spec => []TypeOK
  <1>1. IInv => TypeOK
    BY DEF IInv
  <1> QED BY <1>1, InitIInv, NextIInv, PTL DEF Spec

\* Processes that are not moving a drifter agree on all of them, whatever part
\* of the grid they have: the reductions of drifters.F90.
THEOREM AlwaysSameEverywhere == Spec => []SameEverywhere
  <1>1. IInv => SameEverywhere
    <2> SUFFICES ASSUME IInv, NEW p \in Proc, NEW q \in Proc, pc[p] = "loop", pc[q] = "loop"
                 PROVE  drift[p] = drift[q]
      BY DEF SameEverywhere
    <2>1. \A n \in Drifter : drift[q][n] = drift[p][n]
      BY DEF IInv, Known, Changed
    <2>2. drift[p] \in [Drifter -> Position2D] /\ drift[q] \in [Drifter -> Position2D]
      BY DEF IInv, TypeOK, Position2D
    <2> QED BY <2>1, <2>2
  <1> QED BY <1>1, InitIInv, NextIInv, PTL DEF Spec
-----------------------------------------------------------------------------
(* The abstract track *)

\* As long as a process has still to move a drifter, its position is the one
\* that any such process knows.
LEMMA PositionBefore ==
    ASSUME IInv, NEW n \in Drifter, NEW p \in ToMove(n)
    PROVE  Position(n) = drift[p][n] /\ Position(n) \in Position2D
  <1>1. PICK r : r = CHOOSE q \in ToMove(n) : TRUE
    OBVIOUS
  <1>2. r \in ToMove(n) /\ Position(n) = drift[r][n]
    BY <1>1 DEF Position
  <1>3. p \in Proc /\ r \in Proc /\ ~Changed(p, n) /\ ~Changed(r, n)
    <2>1. \A q \in ToMove(n) : q \in Proc /\ ~Changed(q, n)
      <3> SUFFICES ASSUME NEW q \in ToMove(n) PROVE q \in Proc /\ ~Changed(q, n)
        OBVIOUS
      <3>1. q \in Proc /\ Before(q, n)
        BY DEF ToMove
      <3>2. d[q] \in Int /\ n \in Int
        BY <3>1, DriftersAssumption DEF IInv, TypeOK, Drifter
      <3> QED BY <3>1, <3>2 DEF Before, Changed
    <2> QED BY <1>2, <2>1
  <1>4. drift[r][n] = drift[p][n]
    BY <1>3 DEF IInv, Known
  <1>5. drift[p][n] \in Position2D
    BY <1>3 DEF IInv, TypeOK, Position2D
  <1> QED BY <1>2, <1>4, <1>5

\* When all have the same position of a drifter, that is where it is.
LEMMA PositionKnown ==
    ASSUME NEW n \in Drifter, NEW v \in Position2D, \A p \in Proc : drift[p][n] = v
    PROVE  Position(n) = v
  <1>1. CASE ToMove(n) # {}
    <2>1. PICK r : r = CHOOSE q \in ToMove(n) : TRUE
      OBVIOUS
    <2>2. r \in Proc /\ Position(n) = drift[r][n]
      BY <1>1, <2>1 DEF Position, ToMove
    <2> QED BY <2>2
  <1>2. CASE ToMove(n) = {}
    <2>1. v.i \in Int /\ v.j \in Int /\ v = [i |-> v.i, j |-> v.j]
      BY DEF Position2D
    <2>2. {drift[p][n].i : p \in Proc} = {v.i} /\ {drift[p][n].j : p \in Proc} = {v.j}
      BY PartsAssumption
    <2>3. Min({v.i}) = v.i /\ Min({v.j}) = v.j
      <3>1. ASSUME NEW a \in Int PROVE Min({a}) = a
        <4>1. Min({a}) \in {a}
          BY MinOfTwo
        <4> QED BY <4>1
      <3> QED BY <2>1, <3>1
    <2>4. Position(n) = [i |-> Min({drift[p][n].i : p \in Proc}),
                         j |-> Min({drift[p][n].j : p \in Proc})]
      BY <1>2 DEF Position
    <2> QED BY <2>1, <2>2, <2>3, <2>4
  <1> QED BY <1>1, <1>2

\* When all have brought what they make of a drifter that was at v, the whole
\* grid has moved it.
LEMMA PositionBrought ==
    ASSUME flow \in Flows, NEW n \in Drifter, NEW v \in Position2D, ToMove(n) = {},
           \A p \in Proc : drift[p][n] = MovedHere(p, v)
    PROVE  /\ Track!Inside(v) => Position(n) = Track!Moved(v)
           /\ ~Track!Inside(v) => Position(n) = Out
  <1> DEFINE I == {drift[p][n].i : p \in Proc}
             J == {drift[p][n].j : p \in Proc}
  <1>1. Position(n) = [i |-> Min(I), j |-> Min(J)]
    BY DEF Position
  <1>2. I # {} /\ J # {}
    BY PartsAssumption
  <1>3. \A p \in Proc : drift[p][n].i \in I /\ drift[p][n].j \in J
    OBVIOUS
  <1>4. Huge \in Int
    BY DriftersAssumption
  <1>5. CASE Track!Inside(v)
    <2>1. PICK w : w = Track!Moved(v)
      OBVIOUS
    <2>2. w \in Position2D /\ w.i <= Huge /\ w.j <= Huge
      BY <1>5, <2>1, MovedBelowHuge
    <2>3. \A p \in Proc : drift[p][n] = w \/ drift[p][n] = Out
      BY <2>1, MovedHereValues
    <2>4. PICK p \in Proc : drift[p][n] = w
      BY <1>5, <2>1, SomebodyHasIt, MovedHereValues
    <2>5. Out.i = Huge /\ Out.j = Huge
      BY DEF Out
    <2>6. I \subseteq {w.i, Huge} /\ J \subseteq {w.j, Huge} /\ w.i \in I /\ w.j \in J
      BY <1>3, <2>3, <2>4, <2>5
    <2>7. w.i \in Int /\ w.j \in Int /\ w = [i |-> w.i, j |-> w.j]
      BY <2>2 DEF Position2D
    <2> HIDE DEF I, J
    <2>8. Min(I) = w.i /\ Min(J) = w.j
      <3>1. ASSUME NEW S, NEW a \in Int, S \subseteq {a, Huge}, a \in S, a <= Huge
            PROVE  Min(S) = a
        <4>1. S # {}
          BY <3>1
        <4>2. Min(S) \in S /\ \A x \in S : Min(S) <= x
          BY <1>4, <3>1, <4>1, MinOfTwo
        <4>3. PICK m : m = Min(S)
          OBVIOUS
        <4>4. m \in {a, Huge} /\ m <= a
          BY <3>1, <4>2, <4>3
        <4>5. m = a
          BY <1>4, <3>1, <4>4
        <4> QED BY <4>3, <4>5
      <3> QED BY <2>2, <2>6, <2>7, <3>1
    <2> QED BY <1>1, <1>5, <2>1, <2>7, <2>8
  <1>6. CASE ~Track!Inside(v)
    <2>1. \A p \in Proc : drift[p][n] = Out
      BY <1>6, MovedHereValues
    <2>2. Out \in Position2D
      BY <1>4 DEF Out, Position2D
    <2> QED BY <1>6, <2>1, <2>2, PositionKnown
  <1> QED BY <1>5, <1>6

\* The same as one formula, which holds of the next state too.
Positions ==
    /\ IInv => \A n \in Drifter : \A p \in ToMove(n) :
                  Position(n) = drift[p][n] /\ Position(n) \in Position2D
    /\ \A n \in Drifter : \A v \in Position2D :
          (\A p \in Proc : drift[p][n] = v) => Position(n) = v
    /\ flow \in Flows => \A n \in Drifter : \A v \in Position2D :
          (ToMove(n) = {} /\ \A p \in Proc : drift[p][n] = MovedHere(p, v)) =>
              /\ Track!Inside(v) => Position(n) = Track!Moved(v)
              /\ ~Track!Inside(v) => Position(n) = Out

LEMMA PositionsNow == Positions
  BY PositionBefore, PositionKnown, PositionBrought DEF Positions

LEMMA PositionsNext == Positions'
  BY PositionsNow, PTL

LEMMA SamePosition ==
    ASSUME NEW n \in Drifter, ToMove(n)' = ToMove(n),
           \A q \in Proc : drift'[q][n] = drift[q][n]
    PROVE  Position(n)' = Position(n)
  <1>1. CASE ToMove(n) = {}
    <2>1. /\ {drift'[q][n].i : q \in Proc} = {drift[q][n].i : q \in Proc}
          /\ {drift'[q][n].j : q \in Proc} = {drift[q][n].j : q \in Proc}
      OBVIOUS
    <2> QED BY <1>1, <2>1 DEF Position
  <1>2. CASE ToMove(n) # {}
    <2>1. PICK r : r = CHOOSE q \in ToMove(n) : TRUE
      OBVIOUS
    <2>2. r \in Proc /\ Position(n) = drift[r][n] /\ Position(n)' = drift'[r][n]
      BY <1>2, <2>1 DEF Position, ToMove
    <2> QED BY <2>2
  <1> QED BY <1>1, <1>2

LEMMA SameTrack ==
    ASSUME t' = t, flow' = flow,
           \A n \in Drifter : /\ Position(n)' = Position(n)
                              /\ (ToMove(n)' # {}) <=> (ToMove(n) # {})
    PROVE  UNCHANGED Track!trackVars
  <1>1. [n \in Drifter |-> Position(n)]' = [n \in Drifter |-> Position(n)]
    OBVIOUS
  <1>2. {n \in Drifter : ToMove(n) # {}}' = {n \in Drifter : ToMove(n) # {}}
    OBVIOUS
  <1> QED BY <1>1, <1>2 DEF Track!trackVars

LEMMA TrackInit == Init => Track!Init
  <1> SUFFICES ASSUME Init PROVE Track!Init
    OBVIOUS
  <1>1. PICK start \in [Drifter -> Starts] : drift = [p \in Proc |-> start]
    BY DEF Init
  <1>2. \A n \in Drifter : ToMove(n) = {}
    <2>1. \A n \in Drifter : \A p \in Proc : ~Before(p, n)
      BY DriftersAssumption DEF Init, Before, Drifter
    <2> QED BY <2>1 DEF ToMove
  <1>3. \A n \in Drifter : Position(n) = start[n]
    <2> SUFFICES ASSUME NEW n \in Drifter PROVE Position(n) = start[n]
      OBVIOUS
    <2>1. start[n] \in Position2D /\ \A p \in Proc : drift[p][n] = start[n]
      BY <1>1, DriftersAssumption DEF Position2D
    <2> QED BY <2>1, PositionKnown
  <1>4. [n \in Drifter |-> Position(n)] = start
    BY <1>3
  <1>5. {n \in Drifter : ToMove(n) # {}} = {}
    BY <1>2
  <1> QED BY <1>4, <1>5 DEF Init, Track!Init

LEMMA TrackTimestep ==
    ASSUME IInv, Timestep PROVE Track!Timestep
  <1>1. /\ t < MaxT /\ t' = t + 1 /\ flow' \in Flows
        /\ d' = [p \in Proc |-> 1] /\ drift' = drift /\ pc' = pc
        /\ \A p \in Proc : d[p] > Drifters
    BY DEF Timestep
  <1>2. Drifters \in Nat /\ \A p \in Proc : d[p] \in Nat
    BY DriftersAssumption DEF IInv, TypeOK
  <1>3. \A p \in Proc : pc[p] = "loop"
    BY <1>1, <1>2 DEF IInv, InStep, Drifter
  <1>4. \A n \in Drifter : ToMove(n) = {} /\ ToMove(n)' # {}
    <2> SUFFICES ASSUME NEW n \in Drifter PROVE ToMove(n) = {} /\ ToMove(n)' # {}
      OBVIOUS
    <2>1. \A p \in Proc : ~Before(p, n)
      BY <1>1, <1>2 DEF Before, Drifter
    <2>2. \A p \in Proc : Before(p, n)'
      BY <1>1, <1>3 DEF Before, Drifter
    <2> QED BY <2>1, <2>2, PartsAssumption DEF ToMove
  <1>5. \A n \in Drifter : Position(n)' = Position(n)
    <2> SUFFICES ASSUME NEW n \in Drifter PROVE Position(n)' = Position(n)
      OBVIOUS
    <2>p. PICK p \in Proc : TRUE
      BY PartsAssumption
    <2>1. PICK v : v = drift[p][n] /\ p \in Proc
      BY <2>p
    <2>2. v \in Position2D
      BY <2>1 DEF IInv, TypeOK, Position2D
    <2>3. \A q \in Proc : drift[q][n] = v
      BY <1>3, <2>1 DEF IInv, Known, Changed
    <2>4. Position(n) = v
      BY <2>2, <2>3, PositionKnown
    <2>5. Position(n)' = v
      BY <1>1, <2>2, <2>3, PositionsNext DEF Positions
    <2> QED BY <2>4, <2>5
  <1>6. [n \in Drifter |-> Position(n)]' = [n \in Drifter |-> Position(n)]
    BY <1>5
  <1>7. {n \in Drifter : ToMove(n) # {}} = {} /\ {n \in Drifter : ToMove(n) # {}}' = Drifter
    BY <1>4
  <1> QED BY <1>1, <1>6, <1>7 DEF Track!Timestep

LEMMA TrackActive ==
    ASSUME NEW p \in Proc, NEW n \in Drifter PROVE Track!Active(n) <=> Active(p, n)
  BY DEF Track!Active, Active

LEMMA TrackSkip ==
    ASSUME IInv, NEW p \in Proc, Skip(p)
    PROVE  UNCHANGED Track!trackVars \/ \E n \in Drifter : Track!Drift(n)
  <1>0. PICK k : k = d[p]
    OBVIOUS
  <1>1. /\ pc[p] = "loop" /\ k \in Drifter /\ ~Active(p, k)
        /\ d' = [d EXCEPT ![p] = k + 1]
        /\ t' = t /\ flow' = flow /\ drift' = drift /\ pc' = pc
    BY <1>0 DEF Skip
  <1>2. k \in Nat /\ \A q \in Proc : d[q] \in Nat /\ d'[q] = IF q = p THEN k + 1 ELSE d[q]
    BY <1>0, <1>1 DEF IInv, TypeOK
  <1>3. \A n \in Drifter : n # k => ToMove(n)' = ToMove(n)
    <2> SUFFICES ASSUME NEW n \in Drifter, n # k PROVE ToMove(n)' = ToMove(n)
      OBVIOUS
    <2>1. n \in Nat
      BY DEF Drifter
    <2>2. \A q \in Proc : Before(q, n)' <=> Before(q, n)
      BY <1>0, <1>1, <1>2, <2>1 DEF Before
    <2> QED BY <2>2 DEF ToMove
  <1>4. \A n \in Drifter : n # k => Position(n)' = Position(n)
    BY <1>1, <1>3, SamePosition
  <1>5. PICK v : v = drift[p][k]
    OBVIOUS
  <1>6. v \in Position2D
    BY <1>1, <1>5 DEF IInv, TypeOK, Position2D
  <1>7. \A q \in Proc : drift[q][k] = v
    <2>1. \A q \in Proc : ~Changed(q, k)
      BY <1>1 DEF IInv, InStep, Changed, Active
    <2> QED BY <1>1, <1>5, <2>1 DEF IInv, Known
  <1>8. Position(k) = v /\ Position(k)' = v
    <2>1. Position(k) = v
      BY <1>1, <1>6, <1>7, PositionKnown
    <2>2. Position(k)' = v
      BY <1>1, <1>6, <1>7, PositionsNext DEF Positions
    <2> QED BY <2>1, <2>2
  <1>9. \A n \in Drifter : Position(n)' = Position(n)
    BY <1>4, <1>8
  <1>10. ToMove(k) # {}
    BY <1>0, <1>1 DEF ToMove, Before
  <1>11. CASE ToMove(k)' # {}
    <2>1. \A n \in Drifter : ToMove(n)' # {} <=> ToMove(n) # {}
      BY <1>3, <1>10, <1>11
    <2> QED BY <1>1, <1>9, <2>1, SameTrack
  <1>12. CASE ToMove(k)' = {}
    <2>1. [n \in Drifter |-> Position(n)]' = [n \in Drifter |-> Position(n)]
      BY <1>9
    <2>2. k \in {n \in Drifter : ToMove(n) # {}}
      BY <1>1, <1>10
    <2>3. {n \in Drifter : ToMove(n) # {}}' = {n \in Drifter : ToMove(n) # {}} \ {k}
      BY <1>3, <1>12
    <2>4. ~Track!Active(k)
      BY <1>1, TrackActive
    <2>5. Track!Drift(k)
      BY <1>1, <2>1, <2>2, <2>3, <2>4 DEF Track!Drift
    <2> QED BY <1>1, <2>5
  <1> QED BY <1>11, <1>12

LEMMA TrackMove ==
    ASSUME IInv, NEW p \in Proc, Move(p)
    PROVE  UNCHANGED Track!trackVars \/ \E n \in Drifter : Track!Drift(n)
  <1>0. PICK k, v : k = d[p] /\ v = drift[p][d[p]]
    OBVIOUS
  <1>1. /\ pc[p] = "loop" /\ k \in Drifter /\ Active(p, k)
        /\ t' = t /\ flow' = flow /\ d' = d
        /\ pc' = [pc EXCEPT ![p] = "reduce_i"]
        /\ drift'[p][k] = MovedHere(p, v)
        /\ \A q \in Proc : \A n \in Drifter :
              (q # p \/ n # k) => drift'[q][n] = drift[q][n]
    BY <1>0, MoveEffect
  <1>2. /\ k \in Nat /\ v \in Position2D /\ flow \in Flows
        /\ \A q \in Proc : d[q] \in Nat /\ pc'[q] = IF q = p THEN "reduce_i" ELSE pc[q]
    <2>1. k \in Nat
      BY <1>1 DEF Drifter
    <2>2. v \in Position2D
      BY <1>0, <1>1 DEF IInv, TypeOK, Position2D
    <2>3. flow \in Flows /\ \A q \in Proc : d[q] \in Nat
      BY DEF IInv, TypeOK
    <2>4. pc' = [q \in Proc |-> IF q = p THEN "reduce_i" ELSE pc[q]]
      BY <1>1 DEF IInv, TypeOK
    <2> QED BY <2>1, <2>2, <2>3, <2>4
  <1>3. \A n \in Drifter : n # k => ToMove(n)' = ToMove(n)
    <2> SUFFICES ASSUME NEW n \in Drifter, n # k PROVE ToMove(n)' = ToMove(n)
      OBVIOUS
    <2>1. \A q \in Proc : Before(q, n)' <=> Before(q, n)
      BY <1>0, <1>1, <1>2 DEF Before
    <2> QED BY <2>1 DEF ToMove
  <1>4. \A n \in Drifter : n # k => Position(n)' = Position(n)
    BY <1>1, <1>3, SamePosition
  <1>5. p \in ToMove(k) /\ Position(k) = v
    <2>1. p \in ToMove(k)
      BY <1>0, <1>1 DEF ToMove, Before
    <2> QED BY <1>0, <1>1, <2>1, PositionBefore
  <1>6. CASE ToMove(k)' # {}
    <2>1. PICK r : r \in ToMove(k)'
      BY <1>6
    <2>2. r \in Proc /\ r # p /\ r \in ToMove(k)
      BY <1>0, <1>2, <1>1, <2>1 DEF ToMove, Before
    <2>3. Position(k)' = drift'[r][k]
      BY <1>1, <2>1, MoveIInv, PositionsNext DEF Positions
    <2>4. Position(k) = drift[r][k]
      BY <1>1, <2>2, PositionBefore
    <2>5. \A n \in Drifter : /\ Position(n)' = Position(n)
                             /\ (ToMove(n)' # {}) <=> (ToMove(n) # {})
      BY <1>1, <1>3, <1>4, <1>5, <1>6, <2>2, <2>3, <2>4
    <2> QED BY <1>1, <2>5, SameTrack
  <1>7. CASE ToMove(k)' = {}
    <2>1. \A q \in Proc : Changed(q, k) \/ q = p
      <3> SUFFICES ASSUME NEW q \in Proc, q # p PROVE Changed(q, k)
        OBVIOUS
      <3>1. ~(d[q] < k) /\ ~(d[q] = k /\ pc[q] = "loop")
        BY <1>1, <1>2, <1>7 DEF ToMove, Before
      <3>2. ~(k < d[q])
        BY <1>0, <1>1, <1>2 DEF IInv, InStep
      <3> QED BY <1>2, <3>1, <3>2 DEF Changed
    <2>2. ~Changed(p, k)
      BY <1>1 DEF Changed
    <2>3. \A q \in Proc : drift'[q][k] = MovedHere(q, v)
      <3> SUFFICES ASSUME NEW q \in Proc, q # p PROVE drift'[q][k] = MovedHere(q, v)
        BY <1>1
      <3> QED BY <1>0, <1>1, <2>1, <2>2 DEF IInv, Known
    <2>4. \A q \in Proc : drift'[q][k] = MovedHere(q, v)'
      BY <1>1, <2>3 DEF MovedHere, Inside
    <2>5. Track!Moved(v)' = Track!Moved(v)
      BY <1>1 DEF Track!Moved
    <2>6. /\ Track!Inside(v) => Position(k)' = Track!Moved(v)
          /\ ~Track!Inside(v) => Position(k)' = Out
      BY <1>1, <1>2, <1>7, <2>4, <2>5, PositionsNext DEF Positions
    <2>7. PICK w : w = Position(k)'
      OBVIOUS
    <2>8. [n \in Drifter |-> Position(n)]' = [[n \in Drifter |-> Position(n)] EXCEPT ![k] = w]
      BY <1>1, <1>4, <2>7
    <2>9. k \in {n \in Drifter : ToMove(n) # {}}
      BY <1>1, <1>5
    <2>10. {n \in Drifter : ToMove(n) # {}}' = {n \in Drifter : ToMove(n) # {}} \ {k}
      BY <1>3, <1>7
    <2>11. Track!Active(k) /\ [n \in Drifter |-> Position(n)][k] = v
      BY <1>1, <1>5, TrackActive
    <2>12. Track!Drift(k)
      BY <1>1, <2>6, <2>7, <2>8, <2>9, <2>10, <2>11 DEF Track!Drift, Out
    <2> QED BY <1>1, <2>12
  <1> QED BY <1>6, <1>7

\* The minimum of one number, however often it is brought.
LEMMA MinOfOne ==
    ASSUME NEW S, NEW a \in Int, S = {a} PROVE Min(S) = a
  <1>1. Min(S) \in S
    BY MinOfTwo
  <1> QED BY <1>1

LEMMA TrackReduceI ==
    ASSUME IInv, ReduceI PROVE UNCHANGED Track!trackVars
  <1>p. PICK p0 \in Proc : TRUE
    BY PartsAssumption
  <1>0. PICK k : k = d[p0] /\ p0 \in Proc
    BY <1>p
  <1>1. \A q \in Proc : pc[q] = "reduce_i"
    BY DEF ReduceI
  <1>2. /\ k \in Drifter /\ \A q \in Proc : d[q] = k
        /\ \A q \in Proc : \A n \in Drifter : Changed(q, n) <=> n = k
    BY <1>0, <1>1, AllChanged
  <1>3. PICK m, o : /\ m = Min({drift[q][k].i : q \in Proc})
                    /\ o = Min({drift[q][k].j : q \in Proc})
    OBVIOUS
  <1>4. m \in Int /\ o \in Int
    BY <1>2, <1>3, MinimumBrought
  <1>5. {drift[q][d[q]].i : q \in Proc} = {drift[q][k].i : q \in Proc}
    BY <1>2
  <1>6. /\ drift' = [q \in Proc |-> [drift[q] EXCEPT ![k].i = m]]
        /\ pc' = [q \in Proc |-> "reduce_j"]
        /\ t' = t /\ flow' = flow /\ d' = d
    BY <1>2, <1>3, <1>5 DEF ReduceI
  <1>7. drift \in [Proc -> [Drifter -> Position2D]]
    BY DEF IInv, TypeOK, Position2D
  <1>8. /\ \A q \in Proc : drift'[q][k].i = m /\ drift'[q][k].j = drift[q][k].j
        /\ \A q \in Proc : \A n \in Drifter : n # k => drift'[q][n] = drift[q][n]
    BY <1>2, <1>6, <1>7 DEF Position2D
  <1>9. \A n \in Drifter : ToMove(n)' = ToMove(n)
    <2> SUFFICES ASSUME NEW n \in Drifter PROVE ToMove(n)' = ToMove(n)
      OBVIOUS
    <2>1. \A q \in Proc : Before(q, n)' <=> Before(q, n)
      BY <1>1, <1>6 DEF Before
    <2> QED BY <2>1 DEF ToMove
  <1>10. ToMove(k) = {}
    <2>1. k \in Nat /\ \A q \in Proc : ~Before(q, k)
      BY <1>1, <1>2 DEF Before, Drifter
    <2> QED BY <2>1 DEF ToMove
  <1>11. Position(k)' = Position(k)
    <2>1. Position(k) = [i |-> m, j |-> o]
      BY <1>3, <1>10 DEF Position
    <2>2. /\ {drift'[q][k].i : q \in Proc} = {m}
          /\ {drift'[q][k].j : q \in Proc} = {drift[q][k].j : q \in Proc}
      <3>1. \A q \in Proc : drift'[q][k].i = m
        BY <1>8
      <3>2. {drift'[q][k].i : q \in Proc} = {m}
        BY <3>1, PartsAssumption
      <3>3. \A q \in Proc : drift'[q][k].j = drift[q][k].j
        BY <1>8
      <3>4. {drift'[q][k].j : q \in Proc} = {drift[q][k].j : q \in Proc}
        BY <3>3
      <3> QED BY <3>2, <3>4
    <2>3. Min({m}) = m
      BY <1>4, MinOfOne
    <2>4. Position(k)' = [i |-> m, j |-> o]
      BY <1>2, <1>3, <1>9, <1>10, <2>2, <2>3 DEF Position
    <2> QED BY <2>1, <2>4
  <1>12. \A n \in Drifter : Position(n)' = Position(n)
    BY <1>8, <1>9, <1>11, SamePosition
  <1> QED BY <1>6, <1>9, <1>12, SameTrack

LEMMA TrackReduceJ ==
    ASSUME IInv, ReduceJ PROVE UNCHANGED Track!trackVars
  <1>p. PICK p0 \in Proc : TRUE
    BY PartsAssumption
  <1>0. PICK k : k = d[p0] /\ p0 \in Proc
    BY <1>p
  <1>1. \A q \in Proc : pc[q] = "reduce_j"
    BY DEF ReduceJ
  <1>2. /\ k \in Drifter /\ \A q \in Proc : d[q] = k
        /\ \A q \in Proc : \A n \in Drifter : Changed(q, n) <=> n = k
    BY <1>0, <1>1, AllChanged
  <1>3. PICK m, o : /\ m = Min({drift[q][k].j : q \in Proc})
                    /\ o = Min({drift[q][k].i : q \in Proc})
    OBVIOUS
  <1>4. m \in Int /\ o \in Int
    BY <1>2, <1>3, MinimumBrought
  <1>5. {drift[q][d[q]].j : q \in Proc} = {drift[q][k].j : q \in Proc}
    BY <1>2
  <1>6. /\ drift' = [q \in Proc |-> [drift[q] EXCEPT ![k].j = m]]
        /\ pc' = [q \in Proc |-> "loop"] /\ d' = [q \in Proc |-> k + 1]
        /\ t' = t /\ flow' = flow
    BY <1>2, <1>3, <1>5 DEF ReduceJ
  <1>7. drift \in [Proc -> [Drifter -> Position2D]]
    BY DEF IInv, TypeOK, Position2D
  <1>8. /\ \A q \in Proc : drift'[q][k].j = m /\ drift'[q][k].i = drift[q][k].i
        /\ \A q \in Proc : \A n \in Drifter : n # k => drift'[q][n] = drift[q][n]
    BY <1>2, <1>6, <1>7 DEF Position2D
  <1>9. \A n \in Drifter : ToMove(n)' = ToMove(n)
    <2> SUFFICES ASSUME NEW n \in Drifter PROVE ToMove(n)' = ToMove(n)
      OBVIOUS
    <2>1. k \in Nat /\ n \in Nat
      BY <1>2 DEF Drifter
    <2>2. \A q \in Proc : Before(q, n)' <=> Before(q, n)
      <3> SUFFICES ASSUME NEW q \in Proc PROVE Before(q, n)' <=> Before(q, n)
        OBVIOUS
      <3>1. d[q] = k /\ pc[q] # "loop" /\ d'[q] = k + 1 /\ pc'[q] = "loop"
        BY <1>1, <1>2, <1>6
      <3> QED BY <2>1, <3>1 DEF Before
    <2> QED BY <2>2 DEF ToMove
  <1>10. ToMove(k) = {}
    <2>1. k \in Nat /\ \A q \in Proc : ~Before(q, k)
      BY <1>1, <1>2 DEF Before, Drifter
    <2> QED BY <2>1 DEF ToMove
  <1>11. Position(k)' = Position(k)
    <2>1. Position(k) = [i |-> o, j |-> m]
      BY <1>3, <1>10 DEF Position
    <2>2. /\ {drift'[q][k].j : q \in Proc} = {m}
          /\ {drift'[q][k].i : q \in Proc} = {drift[q][k].i : q \in Proc}
      <3>1. \A q \in Proc : drift'[q][k].j = m
        BY <1>8
      <3>2. {drift'[q][k].j : q \in Proc} = {m}
        BY <3>1, PartsAssumption
      <3>3. \A q \in Proc : drift'[q][k].i = drift[q][k].i
        BY <1>8
      <3>4. {drift'[q][k].i : q \in Proc} = {drift[q][k].i : q \in Proc}
        BY <3>3
      <3> QED BY <3>2, <3>4
    <2>3. Min({m}) = m
      BY <1>4, MinOfOne
    <2>4. Position(k)' = [i |-> o, j |-> m]
      BY <1>2, <1>3, <1>9, <1>10, <2>2, <2>3 DEF Position
    <2> QED BY <2>1, <2>4
  <1>12. \A n \in Drifter : Position(n)' = Position(n)
    BY <1>8, <1>9, <1>11, SamePosition
  <1> QED BY <1>6, <1>9, <1>12, SameTrack

LEMMA TrackNext == IInv /\ [Next]_vars => [Track!Next]_(Track!trackVars)
  <1> SUFFICES ASSUME IInv, [Next]_vars PROVE Track!Next \/ UNCHANGED Track!trackVars
    OBVIOUS
  <1>1. CASE UNCHANGED vars
    <2>1. \A n \in Drifter : ToMove(n)' = ToMove(n)
      BY <1>1 DEF ToMove, Before, vars
    <2>2. \A n \in Drifter : Position(n)' = Position(n)
      BY <1>1, <2>1, SamePosition DEF vars
    <2> QED BY <1>1, <2>1, <2>2, SameTrack DEF vars
  <1>2. CASE Timestep
    BY <1>2, TrackTimestep DEF Track!Next
  <1>3. CASE ReduceI
    BY <1>3, TrackReduceI
  <1>4. CASE ReduceJ
    BY <1>4, TrackReduceJ
  <1>5. ASSUME NEW p \in Proc, Process(p)
        PROVE  Track!Next \/ UNCHANGED Track!trackVars
    BY <1>5, TrackMove, TrackSkip DEF Process, Track!Next
  <1> QED BY <1>1, <1>2, <1>3, <1>4, <1>5 DEF Next, Collective

\* On every division of every grid the reductions of drifters.F90 give what
\* one process with the whole grid would compute: each drifter is moved once in
\* a time step, by the flow of the cell it is in, whoever has it in its part.
THEOREM TrackAlwaysFollowed == Spec => TrackFollowed
  <1>1. Spec => [][Track!Next]_(Track!trackVars)
    BY InitIInv, NextIInv, TrackNext, PTL DEF Spec
  <1>2. Spec => Track!Init
    BY TrackInit DEF Spec
  <1> QED BY <1>1, <1>2, PTL DEF TrackFollowed, Track!Spec
=============================================================================
