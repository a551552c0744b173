-------------------------- MODULE Avalanche_proofs --------------------------
(***************************************************************************)
(* Avalanches never touch the hard layer, leave no slope too steep when    *)
(* they stop, and keep the sand of the whole grid where it is deep and     *)
(* there is no short-wave run-up: for every bed and every depth of the     *)
(* water, any number of processes and every overlap of their parts.        *)
(***************************************************************************)
EXTENDS Avalanche, FoldLemmas

\* The level and the sand of a cell change together on its owner.
Together ==
    \A c \in Cell :
        zb[Owner[c]][c] - structdepth[Owner[c]][c] = bed.level[c] - bed.sand[c]

IInv == TypeOK /\ Together

LEMMA SlopeIsNat ==
    ASSUME NEW p \in Proc, NEW c, NEW slope \in Int, NEW depth
    PROVE  Dzmax(p, c, slope, depth) \in Nat
  <1>1. Abs(slope) \in Nat
    BY DEF Abs
  <1>2. (99 * Abs(slope)) \div 100 \in Nat
    <2> DEFINE a == Abs(slope)
    <2> HIDE DEF a
    <2>1. \A m \in Nat : (99 * m) \div 100 \in Nat
      OBVIOUS
    <2>2. a \in Nat
      BY <1>1 DEF a
    <2> QED BY <2>1, <2>2 DEF a
  <1>3. Larger(StructSlope, (99 * Abs(slope)) \div 100) \in Nat
    BY <1>2, BedAssumption DEF Larger
  <1> QED BY <1>3, BedAssumption DEF Dzmax

LEMMA ThresholdIsNat ==
    ASSUME TypeOK, NEW p \in Proc, NEW c \in Local(p)
    PROVE  Threshold(p, c) \in Nat
  <1>1. dzbdx[p][c] \in Int
    BY DEF TypeOK
  <1> QED BY <1>1, SlopeIsNat DEF Threshold

LEMMA HavIsInt ==
    ASSUME TypeOK, NEW p \in Proc, NEW c \in Local(p)
    PROVE  Hav(p, c) \in Int
  <1>1. c \in Cell /\ water \in Waters /\ Eps \in Int
    BY PartsAssumption, BedAssumption DEF TypeOK
  <1>2. water.depth[c] \in Int /\ water.runup[p] \in Int /\ water.iwl[p] \in Local(p)
    BY <1>1, WaterAssumption
  <1>3. zb[p][c] \in Int /\ zs[p][water.iwl[p]] \in Int
    BY <1>2 DEF TypeOK
  <1>4. RunupLevel(p) \in Int
    BY <1>2, <1>3 DEF RunupLevel
  <1> QED BY <1>1, <1>2, <1>3, <1>4 DEF Hav, Larger

\* The parts of the processes, and the pair of cells of a sweep.
LEMMA PairIsLocal ==
    ASSUME TypeOK, NEW p \in Proc, pc[p] = "sweep", i[p] < Last[p]
    PROVE  i[p] \in Local(p) /\ i[p] + 1 \in Local(p) /\ i[p] \in Nat
  <1>1. First[p] \in Nat /\ Last[p] \in Nat
    BY PartsAssumption
  <1>2. i[p] \in Nat /\ i[p] > First[p]
    BY DEF TypeOK
  <1> QED BY <1>1, <1>2 DEF Local

LEMMA LowerOrHigher ==
    ASSUME TypeOK, NEW p \in Proc, NEW c, c \in Local(p), c + 1 \in Local(p)
    PROVE  Higher(p, c) \in Local(p) /\ Lower(p, c) \in Local(p)
  BY DEF Higher, Lower

\* A slide moves some sand, and no more than the higher cell has.
LEMMA SlideIsLimited ==
    ASSUME TypeOK, NEW p \in Proc, NEW c, c \in Local(p), c + 1 \in Local(p), Steep(p, c)
    PROVE  Moved(p, c) \in Nat /\ Moved(p, c) <= structdepth[p][Higher(p, c)]
  <1> DEFINE steep == Abs(dzbdx[p][c])
             sand == structdepth[p][Higher(p, c)]
  <1>1. dzbdx[p][c] \in Int
    BY DEF TypeOK
  <1>2. steep \in Int
    BY <1>1 DEF Abs
  <1>3. sand \in Nat
    BY LowerOrHigher DEF TypeOK
  <1>4. Threshold(p, c) \in Nat
    BY ThresholdIsNat
  <1>5. steep > Threshold(p, c)
    BY DEF Steep
  <1>6. MaxMove \in Nat
    BY BedAssumption
  <1>7. Moved(p, c) = Smaller(Smaller(steep - Threshold(p, c), MaxMove), sand)
    BY DEF Moved
  <1> HIDE DEF steep, sand
  <1>8. Moved(p, c) \in Nat /\ Moved(p, c) <= sand
    BY <1>2, <1>3, <1>4, <1>5, <1>6, <1>7 DEF Smaller
  <1> QED BY <1>8 DEF sand

\* So structdepth needs no correction at zero, and level and sand of a cell of
\* the process change by the same.
LEMMA SlideKeepsTogether ==
    ASSUME TypeOK, NEW p \in Proc, NEW c, c \in Int, c \in Local(p), c + 1 \in Local(p),
           Steep(p, c), NEW x \in Local(p)
    PROVE  /\ Gain(p, c, x) \in Int
           /\ structdepth[p][x] + Gain(p, c, x) \in Nat
           /\ AtLeastZero(structdepth[p][x] + Gain(p, c, x)) = structdepth[p][x] + Gain(p, c, x)
  <1>1. Moved(p, c) \in Nat /\ Moved(p, c) <= structdepth[p][Higher(p, c)]
    BY SlideIsLimited
  <1>2. structdepth[p][x] \in Nat
    BY DEF TypeOK
  <1>3. Higher(p, c) # Lower(p, c)
    BY DEF Higher, Lower
  <1>4. Gain(p, c, x) \in Int /\ structdepth[p][x] + Gain(p, c, x) \in Nat
    BY <1>1, <1>2, <1>3 DEF Gain
  <1> QED BY <1>4 DEF AtLeastZero
-----------------------------------------------------------------------------
LEMMA InitIInv == Init => IInv
  <1> SUFFICES ASSUME Init PROVE IInv
    OBVIOUS
  <1>1. bed.level \in [Cell -> Int] /\ bed.sand \in [Cell -> Nat]
    BY BedAssumption DEF Init
  <1>2. \A p \in Proc : Local(p) \subseteq Cell
    BY PartsAssumption
  <1>d. water \in Waters /\ water.depth \in [Cell -> Nat]
    BY WaterAssumption DEF Init
  <1>3. TypeOK
    BY <1>1, <1>2, <1>d DEF Init, TypeOK
  <1>4. Together
    <2> SUFFICES ASSUME NEW c \in Cell
                 PROVE  zb[Owner[c]][c] - structdepth[Owner[c]][c] = bed.level[c] - bed.sand[c]
      BY DEF Together
    <2>1. Owner[c] \in Proc /\ c \in Local(Owner[c])
      BY PartsAssumption
    <2> QED BY <2>1 DEF Init
  <1> QED BY <1>3, <1>4 DEF IInv

LEMMA SlideStep ==
    ASSUME IInv, NEW p \in Proc, pc[p] = "sweep", i[p] < Last[p], Steep(p, i[p]),
           Slide(p, i[p]), bed' = bed
    PROVE  /\ DOMAIN zb' = Proc
           /\ \A q \in Proc : zb'[q] \in [Local(q) -> Int] /\ structdepth'[q] \in [Local(q) -> Nat]
           /\ DOMAIN structdepth' = Proc
           /\ DOMAIN zs' = Proc /\ \A q \in Proc : zs'[q] \in [Local(q) -> Int]
           /\ n_aval' \in [Proc -> Nat]
           /\ Together'
  <1> DEFINE c == i[p]
  <1>1. c \in Local(p) /\ c + 1 \in Local(p) /\ c \in Nat
    BY PairIsLocal DEF IInv
  <1>2. TypeOK /\ Together
    BY DEF IInv
  <1>3. \A x \in Local(p) :
            /\ Gain(p, c, x) \in Int
            /\ structdepth[p][x] + Gain(p, c, x) \in Nat
            /\ AtLeastZero(structdepth[p][x] + Gain(p, c, x))
                   = structdepth[p][x] + Gain(p, c, x)
    BY <1>1, <1>2, SlideKeepsTogether
  <1>4. /\ zb' = [zb EXCEPT ![p] = [x \in Local(p) |-> zb[p][x] + Gain(p, c, x)]]
        /\ structdepth' = [structdepth EXCEPT ![p] =
              [x \in Local(p) |-> AtLeastZero(structdepth[p][x] + Gain(p, c, x))]]
        /\ n_aval' = [n_aval EXCEPT ![p] = n_aval[p] + 1]
    BY DEF Slide
  <1> HIDE DEF c
  <1>5. \A q \in Proc : zb'[q] \in [Local(q) -> Int] /\ structdepth'[q] \in [Local(q) -> Nat]
    <2> SUFFICES ASSUME NEW q \in Proc
                 PROVE  zb'[q] \in [Local(q) -> Int] /\ structdepth'[q] \in [Local(q) -> Nat]
      OBVIOUS
    <2>1. CASE q # p
      BY <1>2, <1>4, <2>1 DEF TypeOK
    <2>2. CASE q = p
      <3>1. zb'[p] = [x \in Local(p) |-> zb[p][x] + Gain(p, c, x)]
        BY <1>2, <1>4 DEF TypeOK
      <3>2. structdepth'[p] = [x \in Local(p) |-> AtLeastZero(structdepth[p][x] + Gain(p, c, x))]
        BY <1>2, <1>4 DEF TypeOK
      <3>3. \A x \in Local(p) : zb[p][x] \in Int
        BY <1>2 DEF TypeOK
      <3> QED BY <1>3, <2>2, <3>1, <3>2, <3>3
    <2> QED BY <2>1, <2>2
  <1>6. DOMAIN zb' = Proc /\ DOMAIN structdepth' = Proc
    BY <1>2, <1>4 DEF TypeOK
  <1>7. n_aval' \in [Proc -> Nat]
    BY <1>2, <1>4 DEF TypeOK
  <1>8. DOMAIN zs' = Proc /\ \A q \in Proc : zs'[q] \in [Local(q) -> Int]
    <2>1. zs' = [zs EXCEPT ![p] = [x \in Local(p) |-> zs[p][x] + Gain(p, c, x)]]
      BY DEF Slide, c
    <2>2. [x \in Local(p) |-> zs[p][x] + Gain(p, c, x)] \in [Local(p) -> Int]
      BY <1>2, <1>3 DEF TypeOK
    <2> QED BY <1>2, <2>1, <2>2 DEF TypeOK
  <1>9. Together'
    <2> SUFFICES ASSUME NEW k \in Cell
                 PROVE  zb'[Owner[k]][k] - structdepth'[Owner[k]][k] = bed.level[k] - bed.sand[k]
      BY DEF Together
    <2>1. Owner[k] \in Proc /\ k \in Local(Owner[k])
      BY PartsAssumption
    <2>2. zb[Owner[k]][k] - structdepth[Owner[k]][k] = bed.level[k] - bed.sand[k]
      BY <1>2 DEF Together
    <2>3. CASE Owner[k] # p
      BY <1>2, <1>4, <2>1, <2>2, <2>3 DEF TypeOK
    <2>4. CASE Owner[k] = p
      <3>1. zb'[p][k] = zb[p][k] + Gain(p, c, k)
        BY <1>2, <1>4, <2>1, <2>4 DEF TypeOK
      <3>2. structdepth'[p][k] = structdepth[p][k] + Gain(p, c, k)
        BY <1>2, <1>3, <1>4, <2>1, <2>4 DEF TypeOK
      <3>3. zb[p][k] \in Int /\ structdepth[p][k] \in Nat /\ Gain(p, c, k) \in Int
        BY <1>2, <1>3, <2>1, <2>4 DEF TypeOK
      <3> QED BY <2>2, <2>4, <3>1, <3>2, <3>3
    <2> QED BY <2>3, <2>4
  <1> QED BY <1>5, <1>6, <1>7, <1>8, <1>9

LEMMA NextIInv == IInv /\ [Next]_vars => IInv'
  <1> SUFFICES ASSUME IInv, [Next]_vars PROVE IInv'
    OBVIOUS
  <1>0. TypeOK /\ Together
    BY DEF IInv
  <1>1. ASSUME NEW p \in Proc, Slopes(p) PROVE IInv'
    <2>1. First[p] \in Nat
      BY PartsAssumption
    <2>2. \A c \in Local(p) : (IF c < Last[p] THEN zb[p][c + 1] - zb[p][c] ELSE 0) \in Int
      <3> SUFFICES ASSUME NEW c \in Local(p), c < Last[p]
                   PROVE  zb[p][c + 1] - zb[p][c] \in Int
        OBVIOUS
      <3>1. c + 1 \in Local(p)
        <4>1. First[p] \in Nat /\ Last[p] \in Nat
          BY PartsAssumption
        <4> QED BY <4>1 DEF Local
      <3> QED BY <1>0, <3>1 DEF TypeOK
    <2>h. \A c \in Local(p) : Hav(p, c) \in Int
      BY <1>0, HavIsInt
    <2>3. TypeOK'
      BY <1>0, <1>1, <2>1, <2>2, <2>h DEF TypeOK, Slopes, FirstPair
    <2>4. Together'
      BY <1>0, <1>1 DEF Together, Slopes
    <2> QED BY <2>3, <2>4 DEF IInv
  <1>2. ASSUME NEW p \in Proc, Visit(p) PROVE IInv'
    <2>1. pc[p] = "sweep" /\ i[p] < Last[p] /\ UNCHANGED <<dzbdx, hav, ii, pc, bed, water>>
      BY <1>2 DEF Visit
    <2>2. i' = [i EXCEPT ![p] = i[p] + 1]
      BY <1>2 DEF Visit
    <2>3. /\ i' \in [Proc -> Nat]
          /\ \A q \in Proc : pc'[q] = "sweep" => i'[q] > First[q]
      <3>1. i \in [Proc -> Nat] /\ \A q \in Proc : pc[q] = "sweep" => i[q] > First[q]
        BY <1>0 DEF TypeOK
      <3>2. \A q \in Proc : First[q] \in Nat
        BY PartsAssumption
      <3> QED BY <2>1, <2>2, <3>1, <3>2
    <2>4. CASE Steep(p, i[p])
      <3>1. Slide(p, i[p])
        BY <1>2, <2>4 DEF Visit
      <3>2. /\ DOMAIN zb' = Proc /\ DOMAIN structdepth' = Proc
            /\ \A q \in Proc : zb'[q] \in [Local(q) -> Int] /\ structdepth'[q] \in [Local(q) -> Nat]
            /\ DOMAIN zs' = Proc /\ \A q \in Proc : zs'[q] \in [Local(q) -> Int]
            /\ n_aval' \in [Proc -> Nat] /\ Together'
        BY <2>1, <2>4, <3>1, SlideStep
      <3>3. TypeOK'
        BY <1>0, <2>1, <2>3, <3>2 DEF TypeOK
      <3> QED BY <3>2, <3>3 DEF IInv
    <2>5. CASE ~Steep(p, i[p])
      <3>1. UNCHANGED <<zb, zs, structdepth, n_aval>>
        BY <1>2, <2>5 DEF Visit
      <3>2. TypeOK' /\ Together'
        BY <1>0, <2>1, <2>3, <3>1 DEF TypeOK, Together
      <3> QED BY <3>2 DEF IInv
    <2> QED BY <2>4, <2>5
  <1>3. ASSUME NEW p \in Proc, SweepDone(p) PROVE IInv'
    BY <1>0, <1>3 DEF IInv, TypeOK, Together, SweepDone
  <1>4. CASE Reduce
    <2>1. \A q \in Proc : \A c \in Local(q) :
              Owner[c] \in Proc /\ c \in Local(Owner[c]) /\ zb[Owner[c]][c] \in Int
      <3> SUFFICES ASSUME NEW q \in Proc, NEW c \in Local(q)
                   PROVE  Owner[c] \in Proc /\ c \in Local(Owner[c]) /\ zb[Owner[c]][c] \in Int
        OBVIOUS
      <3>1. Owner[c] \in Proc /\ c \in Local(Owner[c])
        BY PartsAssumption
      <3> QED BY <1>0, <3>1 DEF TypeOK
    <2>2. zb' = [q \in Proc |-> [c \in Local(q) |-> zb[Owner[c]][c]]]
      BY <1>4 DEF Reduce, HaloRefreshed
    <2>3. DOMAIN zb' = Proc /\ \A q \in Proc : zb'[q] \in [Local(q) -> Int]
      BY <2>1, <2>2
    <2>4. pc' \in [Proc -> {"slopes", "done"}] /\ ii' = ii + 1
          /\ UNCHANGED <<zs, structdepth, dzbdx, hav, i, n_aval, bed, water>>
      BY <1>4 DEF Reduce
    <2>5. TypeOK'
      BY <1>0, <2>3, <2>4 DEF TypeOK
    <2>6. Together'
      <3> SUFFICES ASSUME NEW k \in Cell
                   PROVE  zb'[Owner[k]][k] - structdepth'[Owner[k]][k]
                              = bed'.level[k] - bed'.sand[k]
        BY DEF Together
      <3>1. Owner[k] \in Proc /\ k \in Local(Owner[k])
        BY PartsAssumption
      <3>2. zb'[Owner[k]][k] = zb[Owner[k]][k]
        BY <2>2, <3>1
      <3> QED BY <1>0, <2>4, <3>2 DEF Together
    <2> QED BY <2>5, <2>6 DEF IInv
  <1>5. CASE UNCHANGED vars
    BY <1>0, <1>5 DEF IInv, TypeOK, Together, vars
  <1> QED BY <1>1, <1>2, <1>3, <1>4, <1>5 DEF Next, Process

LEMMA IInvHardLayer == IInv => HardLayerKept
  <1> SUFFICES ASSUME IInv, NEW c \in Cell
               PROVE  /\ zb[Owner[c]][c] - structdepth[Owner[c]][c] = bed.level[c] - bed.sand[c]
                      /\ zb[Owner[c]][c] >= bed.level[c] - bed.sand[c]
    BY DEF HardLayerKept
  <1>1. Owner[c] \in Proc /\ c \in Local(Owner[c])
    BY PartsAssumption
  <1>2. zb[Owner[c]][c] \in Int /\ structdepth[Owner[c]][c] \in Nat
    BY <1>1 DEF IInv, TypeOK
  <1>3. bed.level[c] \in Int /\ bed.sand[c] \in Nat
    BY BedAssumption DEF IInv, TypeOK
  <1>4. zb[Owner[c]][c] - structdepth[Owner[c]][c] = bed.level[c] - bed.sand[c]
    BY DEF IInv, Together
  <1> QED BY <1>2, <1>3, <1>4

\* The levels and thicknesses stay numbers of their kind, and a sweep stays in
\* the part of its process: bed_update of morphevolution.F90.
THEOREM AvalancheTypes == Spec => []TypeOK
  <1>1. IInv => TypeOK
    BY DEF IInv
  <1> QED BY <1>1, InitIInv, NextIInv, PTL DEF Spec

\* No slide, on whichever process and however stale its halo, takes the bed
\* below the hard layer or moves the hard layer: bed_update.
THEOREM HardLayerAlwaysKept == Spec => []HardLayerKept
  BY InitIInv, NextIInv, IInvHardLayer, PTL DEF Spec
-----------------------------------------------------------------------------
(* Nothing slid: what every process has seen *)

\* A process that has not moved sand in this iteration.
Unmoved(p) == pc[p] \in {"slopes", "done"} \/ n_aval[p] = 0

\* Processes that have not moved sand still have the same levels.
SameLevels ==
    \A p, q \in Proc : Unmoved(p) /\ Unmoved(q) =>
        \A x \in Local(p) \cap Local(q) : zb[p][x] = zb[q][x]

\* A process that sees the slopes as they are.
Current(p) ==
    \/ pc[p] \in {"sweep", "reduce"} /\ n_aval[p] = 0
    \/ pc[p] = "done" /\ \A q \in Proc : n_aval[q] = 0

\* It has found no slope too steep on its way.
NoneSteep ==
    \A p \in Proc : Current(p) =>
        \A c \in Local(p) : c < Last[p] =>
            /\ dzbdx[p][c] = zb[p][c + 1] - zb[p][c]
            /\ First[p] < c /\ c < i[p] => ~Steep(p, c)

\* It has the depths of now.
DepthsSeen == \A p \in Proc : Current(p) => \A c \in Local(p) : hav[p][c] = Hav(p, c)

SweptAll == \A p \in Proc : pc[p] \in {"reduce", "done"} => i[p] >= Last[p]

\* All processes leave the loop in the same exchange.
LeaveTogether == \A p, q \in Proc : pc[p] = "done" => pc[q] = "done"

QuietInv == IInv /\ SameLevels /\ NoneSteep /\ DepthsSeen /\ SweptAll /\ LeaveTogether

LEMMA InitQuiet == Init => QuietInv
  <1> SUFFICES ASSUME Init PROVE QuietInv
    OBVIOUS
  <1>1. SameLevels
    BY DEF Init, SameLevels
  <1>2. NoneSteep /\ DepthsSeen /\ SweptAll /\ LeaveTogether
    BY DEF Init, NoneSteep, DepthsSeen, SweptAll, Current, LeaveTogether
  <1> QED BY <1>1, <1>2, InitIInv DEF QuietInv

\* A process that has moved no sand sees the same depths.
LEMMA SameHav ==
    ASSUME NEW p \in Proc, NEW c \in Local(p), water' = water, zs'[p] = zs[p],
           \A x \in Local(p) : zb'[p][x] = zb[p][x]
    PROVE  Hav(p, c)' = Hav(p, c)
  <1>1. RunupLevel(p)' = RunupLevel(p)
    BY DEF RunupLevel
  <1>2. First[p]..c \subseteq Local(p)
    <2>1. First[p] \in Nat /\ Last[p] \in Nat
      BY PartsAssumption
    <2> QED BY <2>1 DEF Local
  <1>3. Hinterland(p, c)' <=> Hinterland(p, c)
    BY <1>1, <1>2 DEF Hinterland
  <1> QED BY <1>1, <1>3 DEF Hav

LEMMA SlopesQuiet ==
    ASSUME QuietInv, NEW p \in Proc, Slopes(p)
    PROVE  SameLevels' /\ NoneSteep' /\ SweptAll' /\ LeaveTogether'
  <1>0. TypeOK /\ SameLevels /\ NoneSteep /\ SweptAll /\ LeaveTogether
    BY DEF QuietInv, IInv
  <1>1. /\ pc[p] = "slopes" /\ pc' = [pc EXCEPT ![p] = "sweep"]
        /\ n_aval' = [n_aval EXCEPT ![p] = 0] /\ i' = [i EXCEPT ![p] = FirstPair(p)]
        /\ dzbdx' = [dzbdx EXCEPT ![p] = [c \in Local(p) |->
               IF c < Last[p] THEN zb[p][c + 1] - zb[p][c] ELSE 0]]
        /\ hav' = [hav EXCEPT ![p] = [c \in Local(p) |-> Hav(p, c)]]
        /\ UNCHANGED <<zb, zs, structdepth, water>>
    BY DEF Slopes
  <1>2. pc' \in [Proc -> {"slopes", "sweep", "reduce", "done"}] /\ DOMAIN n_aval = Proc
        /\ DOMAIN i = Proc /\ DOMAIN pc = Proc /\ DOMAIN dzbdx = Proc /\ DOMAIN hav = Proc
    BY <1>0, <1>1 DEF TypeOK
  <1>3. SameLevels'
    <2>1. \A q \in Proc : Unmoved(q)' => Unmoved(q)
      BY <1>1, <1>2 DEF Unmoved
    <2> QED BY <1>0, <1>1, <2>1 DEF SameLevels
  <1>4. NoneSteep'
    <2> SUFFICES ASSUME NEW q \in Proc, Current(q)', NEW c \in Local(q), c < Last[q]
                 PROVE  /\ dzbdx'[q][c] = zb'[q][c + 1] - zb'[q][c]
                        /\ First[q] < c /\ c < i'[q] => ~Steep(q, c)'
      BY DEF NoneSteep
    <2>1. CASE q = p
      <3>1. dzbdx'[p][c] = zb[p][c + 1] - zb[p][c]
        BY <1>1, <1>2, <2>1
      <3>2. i'[p] = First[p] + 1 /\ First[p] \in Nat /\ c \in Nat
        BY <1>1, <1>2, <2>1, PartsAssumption DEF FirstPair
      <3> QED BY <1>1, <2>1, <3>1, <3>2
    <2>2. CASE q # p
      <3>1. /\ pc'[q] = pc[q] /\ n_aval'[q] = n_aval[q] /\ i'[q] = i[q] /\ dzbdx'[q] = dzbdx[q]
            /\ hav'[q] = hav[q] /\ pc'[p] = "sweep"
        BY <1>1, <1>2, <2>2
      <3>2. Current(q)
        <4>1. CASE pc'[q] \in {"sweep", "reduce"} /\ n_aval'[q] = 0
          BY <3>1, <4>1 DEF Current
        <4>2. CASE pc'[q] = "done" /\ \A r \in Proc : n_aval'[r] = 0
          BY <1>0, <1>1, <3>1, <4>2 DEF LeaveTogether
        <4> QED BY <4>1, <4>2 DEF Current
      <3>3. Steep(q, c)' = Steep(q, c)
        BY <1>1, <3>1 DEF Steep, Higher, Threshold, Dzmax
      <3> QED BY <1>0, <1>1, <3>1, <3>2, <3>3 DEF NoneSteep
    <2> QED BY <2>1, <2>2
  <1>5. SweptAll' /\ LeaveTogether'
    BY <1>0, <1>1, <1>2 DEF SweptAll, LeaveTogether
  <1> QED BY <1>3, <1>4, <1>5

LEMMA VisitQuiet ==
    ASSUME QuietInv, NEW p \in Proc, Visit(p)
    PROVE  SameLevels' /\ NoneSteep' /\ SweptAll' /\ LeaveTogether'
  <1>0. TypeOK /\ SameLevels /\ NoneSteep /\ SweptAll /\ LeaveTogether
    BY DEF QuietInv, IInv
  <1>1. /\ pc[p] = "sweep" /\ i[p] < Last[p] /\ i' = [i EXCEPT ![p] = i[p] + 1]
        /\ UNCHANGED <<dzbdx, hav, pc, water>>
    BY DEF Visit
  <1>2. i \in [Proc -> Nat] /\ n_aval \in [Proc -> Nat] /\ DOMAIN zb = Proc /\ DOMAIN structdepth = Proc
    BY <1>0 DEF TypeOK
  <1>3. \A q \in Proc : q # p => i'[q] = i[q]
    BY <1>1, <1>2
  <1>4. SweptAll' /\ LeaveTogether'
    BY <1>0, <1>1, <1>3 DEF SweptAll, LeaveTogether
  <1>5. CASE Steep(p, i[p])
    <2>1. /\ n_aval' = [n_aval EXCEPT ![p] = n_aval[p] + 1]
          /\ \A q \in Proc : q # p => zb'[q] = zb[q] /\ structdepth'[q] = structdepth[q]
                                     /\ n_aval'[q] = n_aval[q]
      BY <1>2, <1>5 DEF Visit, Slide
    <2>2. n_aval'[p] # 0 /\ pc'[p] = "sweep"
      BY <1>1, <1>2, <2>1
    <2>3. \A q \in Proc : Unmoved(q)' => q # p /\ Unmoved(q)
      BY <1>1, <2>1, <2>2 DEF Unmoved
    <2>4. SameLevels'
      BY <1>0, <2>1, <2>3 DEF SameLevels
    <2>5. \A q \in Proc : Current(q)' => q # p /\ Current(q)
      BY <1>0, <1>1, <2>1, <2>2 DEF Current, LeaveTogether
    <2>6. NoneSteep'
      <3> SUFFICES ASSUME NEW q \in Proc, Current(q)', NEW c \in Local(q), c < Last[q]
                   PROVE  /\ dzbdx'[q][c] = zb'[q][c + 1] - zb'[q][c]
                          /\ First[q] < c /\ c < i'[q] => ~Steep(q, c)'
        BY DEF NoneSteep
      <3>1. q # p /\ Current(q)
        BY <2>5
      <3>2. Steep(q, c)' = Steep(q, c)
        BY <1>1, <2>1, <3>1 DEF Steep, Higher, Threshold, Dzmax
      <3> QED BY <1>0, <1>1, <1>3, <2>1, <3>1, <3>2 DEF NoneSteep
    <2> QED BY <1>4, <2>4, <2>6
  <1>6. CASE ~Steep(p, i[p])
    <2>1. UNCHANGED <<zb, structdepth, n_aval>>
      BY <1>6 DEF Visit
    <2>2. SameLevels'
      BY <1>0, <1>1, <2>1 DEF SameLevels, Unmoved
    <2>3. NoneSteep'
      <3> SUFFICES ASSUME NEW q \in Proc, Current(q)', NEW c \in Local(q), c < Last[q]
                   PROVE  /\ dzbdx'[q][c] = zb'[q][c + 1] - zb'[q][c]
                          /\ First[q] < c /\ c < i'[q] => ~Steep(q, c)'
        BY DEF NoneSteep
      <3>1. Current(q)
        BY <1>1, <2>1 DEF Current
      <3>2. Steep(q, c)' = Steep(q, c)
        BY <1>1, <2>1 DEF Steep, Higher, Threshold, Dzmax
      <3>3. c < i'[q] => c < i[q] \/ (q = p /\ c = i[p])
        <4>1. c \in Nat /\ i[p] \in Nat
          <5>1. Local(q) \subseteq Cell /\ Cell \subseteq Nat
            BY PartsAssumption
          <5> QED BY <1>2, <5>1
        <4> QED BY <1>1, <1>2, <1>3, <4>1
      <3> QED BY <1>0, <1>1, <1>6, <2>1, <3>1, <3>2, <3>3 DEF NoneSteep
    <2> QED BY <1>4, <2>2, <2>3
  <1> QED BY <1>5, <1>6

LEMMA ReduceQuiet ==
    ASSUME QuietInv, Reduce
    PROVE  SameLevels' /\ NoneSteep' /\ SweptAll' /\ LeaveTogether'
  <1>0. TypeOK /\ SameLevels /\ NoneSteep /\ SweptAll /\ LeaveTogether
    BY DEF QuietInv, IInv
  <1>1. /\ \A p \in Proc : pc[p] = "reduce"
        /\ zb' = [p \in Proc |-> [c \in Local(p) |-> zb[Owner[c]][c]]]
        /\ UNCHANGED <<structdepth, dzbdx, hav, i, n_aval, water>>
    BY DEF Reduce, HaloRefreshed
  <1>2. (\A p \in Proc : pc'[p] = "slopes") \/ (\A p \in Proc : pc'[p] = "done")
    <2> DEFINE again == Slides(CHOOSE p : TRUE) > 0 /\ ii < Iterations
    <2>1. pc' = [p \in Proc |-> IF again THEN "slopes" ELSE "done"]
      BY DEF Reduce, Slides
    <2> HIDE DEF again
    <2> QED BY <2>1
  <1>3. \A p \in Proc : \A x \in Local(p) : zb'[p][x] = zb[Owner[x]][x]
    BY <1>1
  <1>4. SameLevels'
    BY <1>3 DEF SameLevels
  <1>5. SweptAll' /\ LeaveTogether'
    BY <1>0, <1>1, <1>2 DEF SweptAll, LeaveTogether
  <1>6. NoneSteep'
    <2> SUFFICES ASSUME NEW p \in Proc, Current(p)', NEW c \in Local(p), c < Last[p]
                 PROVE  /\ dzbdx'[p][c] = zb'[p][c + 1] - zb'[p][c]
                        /\ First[p] < c /\ c < i'[p] => ~Steep(p, c)'
      BY DEF NoneSteep
    <2>1. \A q \in Proc : n_aval[q] = 0
      BY <1>1, <1>2 DEF Current
    <2>2. \A q \in Proc : Unmoved(q) /\ Current(q)
      BY <1>1, <2>1 DEF Unmoved, Current
    <2>3. \A x \in Local(p) : Owner[x] \in Proc /\ x \in Local(Owner[x])
      BY PartsAssumption
    <2>4. \A x \in Local(p) : zb'[p][x] = zb[p][x]
      BY <1>0, <1>3, <2>2, <2>3 DEF SameLevels
    <2>5. c + 1 \in Local(p)
      <3>1. First[p] \in Nat /\ Last[p] \in Nat
        BY PartsAssumption
      <3> QED BY <3>1 DEF Local
    <2>6. Steep(p, c)' = Steep(p, c)
      BY <1>1 DEF Steep, Higher, Threshold, Dzmax
    <2> QED BY <1>0, <1>1, <2>2, <2>4, <2>5, <2>6 DEF NoneSteep
  <1> QED BY <1>4, <1>5, <1>6

LEMMA SlopesDepths ==
    ASSUME QuietInv, NEW p \in Proc, Slopes(p) PROVE DepthsSeen'
  <1>0. TypeOK /\ DepthsSeen /\ LeaveTogether
    BY DEF QuietInv, IInv
  <1>1. /\ pc[p] = "slopes" /\ pc' = [pc EXCEPT ![p] = "sweep"]
        /\ n_aval' = [n_aval EXCEPT ![p] = 0]
        /\ hav' = [hav EXCEPT ![p] = [c \in Local(p) |-> Hav(p, c)]]
        /\ UNCHANGED <<zb, zs, water>>
    BY DEF Slopes
  <1>2. DOMAIN pc = Proc /\ DOMAIN n_aval = Proc /\ DOMAIN hav = Proc
    BY <1>0 DEF TypeOK
  <1> SUFFICES ASSUME NEW q \in Proc, Current(q)', NEW c \in Local(q)
               PROVE  hav'[q][c] = Hav(q, c)'
    BY DEF DepthsSeen
  <1>3. Hav(q, c)' = Hav(q, c)
    BY <1>1, SameHav
  <1>4. CASE q = p
    <2>1. hav'[p] = [x \in Local(p) |-> Hav(p, x)]
      BY <1>1, <1>2
    <2> QED BY <1>3, <1>4, <2>1
  <1>5. CASE q # p
    <2>1. pc'[q] = pc[q] /\ n_aval'[q] = n_aval[q] /\ hav'[q] = hav[q]
      BY <1>1, <1>2, <1>5
    <2>2. pc'[p] = "sweep"
      BY <1>1, <1>2
    <2>3. Current(q)
      <3>1. CASE pc'[q] \in {"sweep", "reduce"} /\ n_aval'[q] = 0
        BY <2>1, <3>1 DEF Current
      <3>2. CASE pc'[q] = "done"
        BY <1>0, <1>1, <2>1, <3>2 DEF LeaveTogether
      <3> QED BY <3>1, <3>2 DEF Current
    <2> QED BY <1>0, <1>3, <2>1, <2>3 DEF DepthsSeen
  <1> QED BY <1>4, <1>5

LEMMA VisitDepths ==
    ASSUME QuietInv, NEW p \in Proc, Visit(p) PROVE DepthsSeen'
  <1>0. TypeOK /\ DepthsSeen /\ LeaveTogether
    BY DEF QuietInv, IInv
  <1>1. pc[p] = "sweep" /\ UNCHANGED <<hav, pc, water>>
    BY DEF Visit
  <1> SUFFICES ASSUME NEW q \in Proc, Current(q)', NEW c \in Local(q)
               PROVE  hav'[q][c] = Hav(q, c)'
    BY DEF DepthsSeen
  <1>2. CASE Steep(p, i[p])
    <2>1. /\ n_aval' = [n_aval EXCEPT ![p] = n_aval[p] + 1]
          /\ zb' = [zb EXCEPT ![p] = zb'[p]] /\ zs' = [zs EXCEPT ![p] = zs'[p]]
      BY <1>0, <1>2 DEF Visit, Slide, TypeOK
    <2>2. n_aval \in [Proc -> Nat] /\ DOMAIN zb = Proc /\ DOMAIN zs = Proc
      BY <1>0 DEF TypeOK
    <2>3. n_aval'[p] # 0
      BY <2>1, <2>2
    <2>4. q # p /\ Current(q)
      BY <1>0, <1>1, <2>1, <2>2, <2>3 DEF Current, LeaveTogether
    <2>5. zb'[q] = zb[q] /\ zs'[q] = zs[q]
      BY <2>1, <2>2, <2>4
    <2>6. Hav(q, c)' = Hav(q, c)
      BY <1>1, <2>5, SameHav
    <2> QED BY <1>0, <1>1, <2>4, <2>6 DEF DepthsSeen
  <1>3. CASE ~Steep(p, i[p])
    <2>1. UNCHANGED <<zb, zs, n_aval>>
      BY <1>3 DEF Visit
    <2>2. Current(q)
      BY <1>1, <2>1 DEF Current
    <2>3. Hav(q, c)' = Hav(q, c)
      BY <1>1, <2>1, SameHav
    <2> QED BY <1>0, <1>1, <2>2, <2>3 DEF DepthsSeen
  <1> QED BY <1>2, <1>3

LEMMA ReduceDepths ==
    ASSUME QuietInv, Reduce PROVE DepthsSeen'
  <1>0. TypeOK /\ SameLevels /\ DepthsSeen
    BY DEF QuietInv, IInv
  <1>1. /\ \A p \in Proc : pc[p] = "reduce"
        /\ zb' = [p \in Proc |-> [c \in Local(p) |-> zb[Owner[c]][c]]]
        /\ UNCHANGED <<zs, hav, n_aval, water>>
    BY DEF Reduce, HaloRefreshed
  <1>2. \A p \in Proc : pc'[p] \in {"slopes", "done"}
    BY DEF Reduce
  <1> SUFFICES ASSUME NEW q \in Proc, Current(q)', NEW c \in Local(q)
               PROVE  hav'[q][c] = Hav(q, c)'
    BY DEF DepthsSeen
  <1>3. \A p \in Proc : n_aval[p] = 0
    BY <1>1, <1>2 DEF Current
  <1>4. \A p \in Proc : Unmoved(p) /\ Current(p)
    BY <1>1, <1>3 DEF Unmoved, Current
  <1>5. \A x \in Local(q) : Owner[x] \in Proc /\ x \in Local(Owner[x])
    BY PartsAssumption
  <1>6. \A x \in Local(q) : zb'[q][x] = zb[q][x]
    BY <1>0, <1>1, <1>4, <1>5 DEF SameLevels
  <1>7. Hav(q, c)' = Hav(q, c)
    BY <1>1, <1>6, SameHav
  <1> QED BY <1>0, <1>1, <1>4, <1>7 DEF DepthsSeen

LEMMA NextQuiet == QuietInv /\ [Next]_vars => QuietInv'
  <1> SUFFICES ASSUME QuietInv, [Next]_vars PROVE QuietInv'
    OBVIOUS
  <1>0. IInv'
    BY NextIInv DEF QuietInv
  <1>1. ASSUME NEW p \in Proc, Slopes(p) PROVE QuietInv'
    BY <1>0, <1>1, SlopesQuiet, SlopesDepths DEF QuietInv
  <1>2. ASSUME NEW p \in Proc, Visit(p) PROVE QuietInv'
    BY <1>0, <1>2, VisitQuiet, VisitDepths DEF QuietInv
  <1>3. ASSUME NEW p \in Proc, SweepDone(p) PROVE QuietInv'
    <2>0. TypeOK /\ SameLevels /\ NoneSteep /\ DepthsSeen /\ SweptAll /\ LeaveTogether
      BY DEF QuietInv, IInv
    <2>1. /\ pc[p] = "sweep" /\ i[p] >= Last[p] /\ pc' = [pc EXCEPT ![p] = "reduce"]
          /\ UNCHANGED <<zb, zs, structdepth, dzbdx, hav, i, n_aval, water>>
      BY <1>3 DEF SweepDone
    <2>2. DOMAIN pc = Proc
      BY <2>0 DEF TypeOK
    <2>3. SameLevels'
      BY <2>0, <2>1, <2>2 DEF SameLevels, Unmoved
    <2>4. SweptAll' /\ LeaveTogether'
      BY <2>0, <2>1, <2>2 DEF SweptAll, LeaveTogether
    <2>5. NoneSteep'
      <3>1. \A q \in Proc : Current(q)' => Current(q)
        BY <2>0, <2>1, <2>2 DEF Current, LeaveTogether
      <3>2. \A q \in Proc, c \in Nat : Steep(q, c)' = Steep(q, c)
        BY <2>1 DEF Steep, Higher, Threshold, Dzmax
      <3>3. \A q \in Proc : Local(q) \subseteq Nat
        BY PartsAssumption
      <3> QED BY <2>0, <2>1, <3>1, <3>2, <3>3 DEF NoneSteep
    <2>6. DepthsSeen'
      <3>1. \A q \in Proc : Current(q)' => Current(q)
        BY <2>0, <2>1, <2>2 DEF Current, LeaveTogether
      <3>2. \A q \in Proc : \A c \in Local(q) : Hav(q, c)' = Hav(q, c)
        BY <2>1, SameHav
      <3> QED BY <2>0, <2>1, <3>1, <3>2 DEF DepthsSeen
    <2> QED BY <1>0, <2>3, <2>4, <2>5, <2>6 DEF QuietInv
  <1>4. CASE Reduce
    BY <1>0, <1>4, ReduceQuiet, ReduceDepths DEF QuietInv
  <1>5. CASE UNCHANGED vars
    <2>1. SameLevels' /\ NoneSteep' /\ SweptAll' /\ LeaveTogether'
      BY <1>5 DEF QuietInv, SameLevels, NoneSteep, SweptAll, LeaveTogether, Unmoved,
                  Current, Steep, Higher, Threshold, Dzmax, vars
    <2>2. \A q \in Proc : Current(q)' => Current(q)
      BY <1>5 DEF Current, vars
    <2>3. \A q \in Proc : \A c \in Local(q) : Hav(q, c)' = Hav(q, c)
      BY <1>5, SameHav DEF vars
    <2>4. DepthsSeen'
      BY <1>5, <2>2, <2>3 DEF QuietInv, DepthsSeen, vars
    <2> QED BY <1>0, <2>1, <2>4 DEF QuietInv
  <1> QED BY <1>1, <1>2, <1>3, <1>4, <1>5 DEF Next, Process

\* The process that owns the higher of two neighbours has visited them, with
\* the level that the owner of the lower one has.
LEMMA QuietIsStable == QuietInv => StableWhenQuiet
  <1> SUFFICES ASSUME QuietInv, AllAre("done"), \A p \in Proc : n_aval[p] = 0,
                      NEW c \in Cell, c > 1, c + 1 \in Cell, Unstable(c)
               PROVE  FALSE
    BY DEF StableWhenQuiet
  <1> DEFINE here == zb[Owner[c]][c]
             there == zb[Owner[c + 1]][c + 1]
             top == IF there >= here THEN c + 1 ELSE c
             p == Owner[top]
  <1>1. \A q \in Proc : Unmoved(q) /\ Current(q) /\ pc[q] = "done"
    BY DEF AllAre, Unmoved, Current
  <1>2. /\ Owner[c] \in Proc /\ c \in Local(Owner[c])
        /\ Owner[c + 1] \in Proc /\ c + 1 \in Local(Owner[c + 1])
    BY PartsAssumption
  <1>3. p \in Proc /\ First[p] < c /\ c < Last[p]
    <2>1. p \in {Owner[c], Owner[c + 1]}
      <3>1. top = c \/ top = c + 1
        <4> HIDE DEF here, there
        <4> QED OBVIOUS
      <3> HIDE DEF top
      <3> QED BY <3>1
    <2>2. \A r \in {Owner[c], Owner[c + 1]} : First[r] < c /\ c < Last[r]
      BY PartsAssumption
    <2> HIDE DEF p
    <2> QED BY <1>2, <2>1, <2>2
  <1>4. /\ Abs(there - here) > Dzmax(p, c, there - here, Larger(Hav(p, c), Hav(p, c + 1)))
        /\ structdepth[p][top] > Eps
    BY DEF Unstable
  <1> HIDE DEF p
  <1>5. c \in Local(p) /\ c + 1 \in Local(p) /\ c \in Nat
    <2>1. First[p] \in Nat /\ Last[p] \in Nat /\ c \in Nat
      <3>1. First[p] \in Cell /\ Last[p] \in Cell /\ Cell \subseteq Nat
        BY <1>3, PartsAssumption
      <3> QED BY <3>1
    <2> QED BY <1>3, <2>1 DEF Local
  <1>6. zb[p][c] = here /\ zb[p][c + 1] = there
    BY <1>1, <1>2, <1>3, <1>5 DEF QuietInv, SameLevels
  <1>7. dzbdx[p][c] = there - here
    BY <1>1, <1>3, <1>5, <1>6 DEF QuietInv, NoneSteep
  <1>8. c < i[p]
    <2>1. i[p] \in Nat /\ Last[p] \in Nat /\ i[p] >= Last[p]
      BY <1>1, <1>3, PartsAssumption DEF QuietInv, SweptAll, IInv, TypeOK
    <2> QED BY <1>3, <1>5, <2>1
  <1>9. ~Steep(p, c)
    BY <1>1, <1>3, <1>5, <1>8 DEF QuietInv, NoneSteep
  <1>10. Higher(p, c) = top
    <2>1. here \in Int /\ there \in Int
      BY <1>2 DEF QuietInv, IInv, TypeOK
    <2> HIDE DEF here, there
    <2> QED BY <1>7, <2>1 DEF Higher
  <1>11. hav[p][c] = Hav(p, c) /\ hav[p][c + 1] = Hav(p, c + 1)
    BY <1>1, <1>3, <1>5 DEF QuietInv, DepthsSeen
  <1>12. Threshold(p, c) = Dzmax(p, c, there - here, Larger(Hav(p, c), Hav(p, c + 1)))
    BY <1>7, <1>11 DEF Threshold
  <1> QED BY <1>4, <1>7, <1>9, <1>10, <1>12 DEF Steep

\* When a sweep of all processes moved nothing, no slope of the whole grid is
\* too steep, although every process only looked at its part, and with run-up
\* judged it by what it alone knows: the exit from the loop in bed_update.
THEOREM QuietBedIsStable == Spec => []StableWhenQuiet
  BY InitQuiet, NextQuiet, QuietIsStable, PTL DEF Spec
-----------------------------------------------------------------------------
(* Deep sand: what slides is the same on every process *)

\* Without run-up, the steepest slope between two cells that all processes know.
Steepest(c) ==
    IF Larger(water.depth[c], water.depth[c + 1]) <= Hswitch + Eps THEN DrySlope ELSE WetSlope

\* What slides from cell c + 1 to cell c, for a slope between them.
Flux(slope, c) ==
    IF Abs(slope) > Steepest(c)
      THEN IF slope >= 0 THEN Smaller(Abs(slope) - Steepest(c), MaxMove)
           ELSE -Smaller(Abs(slope) - Steepest(c), MaxMove)
      ELSE 0

\* What process p has let slide in this iteration.
Applied(p, c) ==
    IF pc[p] \in {"sweep", "reduce"} /\ First[p] < c /\ c < i[p] /\ c < Last[p]
      THEN Flux(dzbdx[p][c], c) ELSE 0

\* The level of a cell at the beginning of the iteration.
Base(p, x) == zb[p][x] - Applied(p, x) + Applied(p, x - 1)

BaseSame == \A p, q \in Proc : \A x \in Local(p) \cap Local(q) : Base(p, x) = Base(q, x)

BaseSlopes ==
    \A p \in Proc : pc[p] \in {"sweep", "reduce"} =>
        \A c \in Local(p) : c < Last[p] => dzbdx[p][c] = Base(p, c + 1) - Base(p, c)

BaseTotal == Total([c \in Cell |-> Base(Owner[c], c)]) = Total(bed.level)

\* What slides may have taken out of a cell, before this iteration and in it.
Spent(n) == 2 * MaxMove * (n - 1)

Worn(p, x) ==
    IF pc[p] = "slopes" THEN 0
    ELSE IF pc[p] = "sweep" /\ x > i[p] THEN 0
    ELSE IF pc[p] = "sweep" /\ x = i[p] THEN MaxMove
    ELSE 2 * MaxMove

SandLeft ==
    \A p \in Proc : pc[p] # "done" =>
        /\ ii \in 1..Iterations
        /\ \A x \in Local(p) : structdepth[p][x] >= bed.sand[x] - (Spent(ii) + Worn(p, x))

\* Without run-up every process sees the depth there is.
TrueDepths ==
    ~water.swrunup =>
        \A p \in Proc : pc[p] \in {"sweep", "reduce"} =>
            \A x \in Local(p) : hav[p][x] = water.depth[x]

DeepInv ==
    (DeepSand /\ ~water.swrunup) => SandLeft /\ BaseSame /\ BaseSlopes /\ BaseTotal

SandInv == QuietInv /\ TrueDepths /\ DeepInv

LEMMA FluxIsInt ==
    ASSUME NEW slope \in Int, NEW c
    PROVE  Flux(slope, c) \in Int
  <1>1. Steepest(c) \in Nat /\ MaxMove \in Nat
    BY BedAssumption DEF Steepest
  <1>2. Abs(slope) \in Int
    BY DEF Abs
  <1> QED BY <1>1, <1>2 DEF Flux, Smaller

LEMMA LocalCells ==
    ASSUME NEW p \in Proc
    PROVE  /\ First[p] \in Nat \ {0} /\ Last[p] \in Nat
           /\ \A x \in Local(p) : x \in Cell /\ x \in Nat \ {0} /\ First[p] <= x /\ x <= Last[p]
           /\ \A x \in Local(p) : x < Last[p] => x + 1 \in Local(p)
           /\ \A x \in Local(p) : First[p] < x => x - 1 \in Local(p)
  <1>1. First[p] \in Cell /\ Last[p] \in Cell /\ Local(p) \subseteq Cell
    BY PartsAssumption
  <1>2. Cell \subseteq Nat \ {0}
    <2>1. Cell \subseteq Nat /\ Cell = 1..Cardinality(Cell) /\ Cardinality(Cell) \in Nat
      BY PartsAssumption, FS_CardinalityType
    <2> QED BY <2>1
  <1>3. First[p] \in Nat \ {0} /\ Last[p] \in Nat
    BY <1>1, <1>2
  <1>4. \A x \in Local(p) : x \in Cell /\ x \in Nat \ {0}
    BY <1>1, <1>2
  <1> QED BY <1>3, <1>4 DEF Local

LEMMA AppliedIsInt ==
    ASSUME TypeOK, NEW p \in Proc, NEW c \in Int
    PROVE  Applied(p, c) \in Int
  <1>1. CASE First[p] < c /\ c < Last[p]
    <2>1. c \in Local(p)
      BY <1>1, LocalCells DEF Local
    <2>2. dzbdx[p][c] \in Int
      BY <2>1 DEF TypeOK
    <2> QED BY <2>2, FluxIsInt DEF Applied
  <1>2. CASE ~(First[p] < c /\ c < Last[p])
    BY <1>2 DEF Applied
  <1> QED BY <1>1, <1>2

\* Nothing slid yet, or the halo has been refreshed: the level is the base.
LEMMA BaseIsLevel ==
    ASSUME TypeOK, NEW p \in Proc, pc[p] \in {"slopes", "done"}, NEW x \in Local(p)
    PROVE  Base(p, x) = zb[p][x]
  <1>1. Applied(p, x) = 0 /\ Applied(p, x - 1) = 0
    BY DEF Applied
  <1>2. zb[p][x] \in Int
    BY DEF TypeOK
  <1> QED BY <1>1, <1>2 DEF Base

LEMMA SpentBound ==
    ASSUME NEW n \in 1..Iterations
    PROVE  /\ Spent(n) \in Nat /\ Spent(n + 1) = Spent(n) + 2 * MaxMove
           /\ Spent(n) + 2 * MaxMove <= 2 * MaxMove * Iterations
  <1> DEFINE w == 2 * MaxMove
  <1>1. w \in Nat /\ Iterations \in Nat
    BY BedAssumption
  <1> HIDE DEF w
  <1>2. w * (n - 1) \in Nat /\ w * ((n + 1) - 1) = w * (n - 1) + w
    BY <1>1
  <1>3. w * (Iterations - n) \in Nat /\ w * (Iterations - n) = w * Iterations - w * (n - 1) - w
    BY <1>1
  <1>4. w * (n - 1) + w <= w * Iterations
    BY <1>1, <1>2, <1>3
  <1> QED BY <1>2, <1>4 DEF Spent, w

\* Without run-up all processes hold the same slopes too steep.
LEMMA SameThreshold ==
    ASSUME TypeOK, TrueDepths, ~water.swrunup, NEW p \in Proc, pc[p] = "sweep", i[p] < Last[p]
    PROVE  Threshold(p, i[p]) = Steepest(i[p])
  <1>1. i[p] \in Local(p) /\ i[p] + 1 \in Local(p) /\ i[p] \in Nat
    BY PairIsLocal
  <1>2. hav[p][i[p]] = water.depth[i[p]] /\ hav[p][i[p] + 1] = water.depth[i[p] + 1]
    BY <1>1 DEF TrueDepths
  <1>3. ~(i[p] > water.istruct[p])
    <2>1. water \in Waters
      BY DEF TypeOK
    <2>2. water.istruct[p] >= Last[p] /\ water.istruct[p] \in Nat /\ Last[p] \in Nat
      BY <2>1, WaterAssumption, PartsAssumption
    <2> QED BY <1>1, <2>2
  <1> QED BY <1>2, <1>3 DEF Threshold, Dzmax, Steepest

\* Where the sand is deep, only the slope decides what slides.
LEMMA DeepSlide ==
    ASSUME TypeOK, DeepSand, SandLeft, TrueDepths, ~water.swrunup,
           NEW p \in Proc, pc[p] = "sweep", i[p] < Last[p]
    PROVE  /\ Steep(p, i[p]) <=> Abs(dzbdx[p][i[p]]) > Steepest(i[p])
           /\ Steep(p, i[p]) =>
                 /\ Moved(p, i[p]) \in 0..MaxMove
                 /\ Gain(p, i[p], i[p]) = Flux(dzbdx[p][i[p]], i[p])
                 /\ Gain(p, i[p], i[p] + 1) = -Flux(dzbdx[p][i[p]], i[p])
  <1> DEFINE c == i[p]
             h == Higher(p, c)
             sand == structdepth[p][h]
             slope == dzbdx[p][c]
             most == Smaller(Abs(slope) - Steepest(c), MaxMove)
  <1>1. c \in Local(p) /\ c + 1 \in Local(p) /\ c \in Nat
    BY PairIsLocal
  <1>2. h \in {c, c + 1} /\ h \in Local(p) /\ h \in Cell /\ h \in Nat
    <2>1. h \in {c, c + 1}
      BY DEF Higher
    <2> QED BY <1>1, <2>1, LocalCells
  <1>3. slope \in Int /\ sand \in Nat /\ Steepest(c) \in Nat /\ MaxMove \in Nat /\ Eps \in Nat
    BY <1>1, <1>2, BedAssumption DEF TypeOK, Steepest
  <1>4. sand >= MaxMove /\ sand > Eps
    <2>1. bed.sand[h] \in Nat /\ bed.sand[h] > 2 * MaxMove * Iterations + Eps
      BY <1>2, BedAssumption DEF DeepSand, TypeOK
    <2>2. sand >= bed.sand[h] - (Spent(ii) + Worn(p, h)) /\ ii \in 1..Iterations
      BY <1>2 DEF SandLeft
    <2>3. Worn(p, h) \in 0..MaxMove
      <3>1. i[p] \in Nat
        BY DEF TypeOK
      <3> HIDE DEF h
      <3> QED BY <1>2, <1>3, <3>1 DEF Worn
    <2>4. Spent(ii) \in Nat /\ Spent(ii) + 2 * MaxMove <= 2 * MaxMove * Iterations
      BY <2>2, SpentBound
    <2> DEFINE all == 2 * MaxMove * Iterations
               b == bed.sand[h]
               wn == Worn(p, h)
               sp == Spent(ii)
    <2>5. all \in Int
      BY BedAssumption
    <2> HIDE DEF all, sand, b, wn, sp
    <2>6. b \in Nat /\ b > all + Eps /\ sand >= b - (sp + wn) /\ wn \in 0..MaxMove
          /\ sp \in Nat /\ sp + 2 * MaxMove <= all
      BY <2>1, <2>2, <2>3, <2>4 DEF all, sand, b, wn, sp
    <2> QED BY <1>3, <2>5, <2>6
  <1>5. Abs(slope) \in Int
    BY <1>3 DEF Abs
  <1>t. Threshold(p, c) = Steepest(c)
    BY SameThreshold
  <1>6. Steep(p, c) <=> Abs(slope) > Steepest(c)
    BY <1>4, <1>t DEF Steep
  <1>7. ASSUME Abs(slope) > Steepest(c)
        PROVE  Moved(p, c) = most /\ most \in 0..MaxMove
    <2>1. Moved(p, c) = Smaller(most, sand)
      BY <1>t DEF Moved
    <2>2. most \in 0..MaxMove
      BY <1>3, <1>5, <1>7 DEF Smaller
    <2> HIDE DEF sand, most
    <2> QED BY <1>3, <1>4, <2>1, <2>2 DEF Smaller
  <1>8. ASSUME Abs(slope) > Steepest(c)
        PROVE  Gain(p, c, c) = Flux(slope, c) /\ Gain(p, c, c + 1) = -Flux(slope, c)
    <2>1. Moved(p, c) = most /\ most \in Int
      BY <1>3, <1>7, <1>8
    <2>2. Flux(slope, c) = IF slope >= 0 THEN most ELSE -most
      BY <1>8 DEF Flux
    <2> HIDE DEF most
    <2>3. c # c + 1 /\ c \in Int
      BY <1>1
    <2> HIDE DEF c
    <2> QED BY <1>3, <2>1, <2>2, <2>3 DEF Gain, Lower, Higher
  <1> QED BY <1>6, <1>7, <1>8
-----------------------------------------------------------------------------
(* Deep sand: the steps *)

\* A step that leaves the bases alone leaves their total alone.
LEMMA BaseKept ==
    ASSUME BaseSame, BaseTotal, bed' = bed,
           \A p \in Proc : \A x \in Local(p) : Base(p, x)' = Base(p, x)
    PROVE  BaseSame' /\ BaseTotal'
  <1>1. BaseSame'
    BY DEF BaseSame
  <1>2. BaseTotal'
    <2> DEFINE f == [c \in Cell |-> Base(Owner[c], c)]
    <2>1. \A c \in Cell : Owner[c] \in Proc /\ c \in Local(Owner[c])
      BY PartsAssumption
    <2>2. \A c \in Cell : Base(Owner[c], c)' = Base(Owner[c], c)
      BY <2>1
    <2>3. f' = f
      BY <2>2
    <2>4. Total(f) = Total(bed.level)
      BY DEF BaseTotal
    <2> HIDE DEF f
    <2>5. Total(f') = Total(bed'.level)
      BY <2>3, <2>4
    <2> QED BY <2>5 DEF BaseTotal, f
  <1> QED BY <1>1, <1>2

LEMMA SlopesDeep ==
    ASSUME QuietInv, SandLeft, BaseSame, BaseSlopes, BaseTotal, NEW p \in Proc, Slopes(p)
    PROVE  SandLeft' /\ BaseSame' /\ BaseSlopes' /\ BaseTotal'
  <1>0. TypeOK
    BY DEF QuietInv, IInv
  <1>1. /\ pc[p] = "slopes" /\ pc' = [pc EXCEPT ![p] = "sweep"]
        /\ i' = [i EXCEPT ![p] = First[p] + 1]
        /\ dzbdx' = [dzbdx EXCEPT ![p] = [c \in Local(p) |->
               IF c < Last[p] THEN zb[p][c + 1] - zb[p][c] ELSE 0]]
        /\ UNCHANGED <<zb, structdepth, ii, bed, water>>
    BY DEF Slopes, FirstPair
  <1>2. DOMAIN pc = Proc /\ DOMAIN i = Proc /\ DOMAIN dzbdx = Proc
    BY <1>0 DEF TypeOK
  <1>3. \A q \in Proc : q # p => pc'[q] = pc[q] /\ i'[q] = i[q] /\ dzbdx'[q] = dzbdx[q]
    BY <1>1, <1>2
  <1>4. pc'[p] = "sweep" /\ i'[p] = First[p] + 1
    BY <1>1, <1>2
  <1>5. ASSUME NEW q \in Proc, NEW c \in Int PROVE Applied(q, c)' = Applied(q, c)
    <2>1. CASE q # p
      <3>1. Steepest(c)' = Steepest(c)
        BY <1>1 DEF Steepest
      <3>2. pc'[q] = pc[q] /\ i'[q] = i[q] /\ dzbdx'[q][c] = dzbdx[q][c]
        BY <1>3, <2>1
      <3> QED BY <3>1, <3>2 DEF Applied, Flux
    <2>2. CASE q = p
      <3>1. Applied(p, c) = 0
        BY <1>1 DEF Applied
      <3>2. ~(First[p] < c /\ c < i'[p])
        BY <1>4, LocalCells
      <3> QED BY <2>2, <3>1, <3>2 DEF Applied
    <2> QED BY <2>1, <2>2
  <1>6. ASSUME NEW q \in Proc, NEW x \in Local(q) PROVE Base(q, x)' = Base(q, x)
    <2>1. x \in Int /\ x - 1 \in Int
      BY LocalCells
    <2> QED BY <1>1, <1>5, <2>1 DEF Base
  <1>7. BaseSame' /\ BaseTotal'
    BY <1>1, <1>6, BaseKept
  <1>8. BaseSlopes'
    <2> SUFFICES ASSUME NEW q \in Proc, pc'[q] \in {"sweep", "reduce"},
                        NEW c \in Local(q), c < Last[q]
                 PROVE  dzbdx'[q][c] = Base(q, c + 1)' - Base(q, c)'
      BY DEF BaseSlopes
    <2>1. c + 1 \in Local(q)
      BY LocalCells
    <2>2. Base(q, c + 1)' = Base(q, c + 1) /\ Base(q, c)' = Base(q, c)
      BY <1>6, <2>1
    <2>3. CASE q # p
      BY <1>3, <2>2, <2>3 DEF BaseSlopes
    <2>4. CASE q = p
      <3>1. Base(p, c + 1) = zb[p][c + 1] /\ Base(p, c) = zb[p][c]
        BY <1>0, <1>1, <2>1, <2>4, BaseIsLevel
      <3>2. dzbdx'[p][c] = zb[p][c + 1] - zb[p][c]
        BY <1>1, <1>2, <2>4
      <3> QED BY <2>2, <2>4, <3>1, <3>2
    <2> QED BY <2>3, <2>4
  <1>9. SandLeft'
    <2> SUFFICES ASSUME NEW q \in Proc, pc'[q] # "done"
                 PROVE  /\ ii' \in 1..Iterations
                        /\ \A x \in Local(q) :
                             structdepth'[q][x] >= bed'.sand[x] - (Spent(ii') + Worn(q, x)')
      BY DEF SandLeft
    <2>1. CASE q # p
      BY <1>1, <1>3, <2>1 DEF SandLeft, Worn
    <2>2. CASE q = p
      <3>1. ii \in 1..Iterations
        BY <1>1 DEF SandLeft
      <3>2. ASSUME NEW x \in Local(p)
            PROVE  structdepth[p][x] >= bed.sand[x] - (Spent(ii) + Worn(p, x)')
        <4>1. structdepth[p][x] >= bed.sand[x] - (Spent(ii) + 0)
          BY <1>1 DEF SandLeft, Worn
        <4>2. Worn(p, x)' \in Nat
          BY <1>4, BedAssumption DEF Worn
        <4>3. structdepth[p][x] \in Nat /\ bed.sand[x] \in Nat /\ Spent(ii) \in Nat
          BY <1>0, <3>1, SpentBound, LocalCells, BedAssumption DEF TypeOK
        <4> DEFINE wn == Worn(p, x)'
                   sp == Spent(ii)
        <4> HIDE DEF wn, sp
        <4>4. structdepth[p][x] >= bed.sand[x] - (sp + wn)
          BY <4>1, <4>2, <4>3 DEF wn, sp
        <4> QED BY <4>4 DEF wn, sp
      <3> QED BY <1>1, <2>2, <3>1, <3>2
    <2> QED BY <2>1, <2>2
  <1> QED BY <1>7, <1>8, <1>9

LEMMA VisitDeep ==
    ASSUME QuietInv, DeepSand, ~water.swrunup, TrueDepths,
           SandLeft, BaseSame, BaseSlopes, BaseTotal, NEW p \in Proc, Visit(p)
    PROVE  SandLeft' /\ BaseSame' /\ BaseSlopes' /\ BaseTotal'
  <1> DEFINE c == i[p]
             flux == Flux(dzbdx[p][c], c)
  <1>0. TypeOK
    BY DEF QuietInv, IInv
  <1>1. /\ pc[p] = "sweep" /\ c < Last[p] /\ i' = [i EXCEPT ![p] = c + 1]
        /\ UNCHANGED <<dzbdx, ii, pc, bed, water>>
    BY DEF Visit
  <1>2. DOMAIN i = Proc /\ DOMAIN zb = Proc /\ DOMAIN structdepth = Proc
        /\ c \in Nat /\ c > First[p] /\ First[p] \in Nat /\ Last[p] \in Nat
    BY <1>0, <1>1, LocalCells DEF TypeOK
  <1>3. i'[p] = c + 1 /\ \A q \in Proc : q # p => i'[q] = i[q]
    BY <1>1, <1>2
  <1>4. c \in Local(p) /\ c + 1 \in Local(p)
    BY <1>0, <1>1, PairIsLocal
  <1>5. dzbdx[p][c] \in Int /\ flux \in Int
    BY <1>0, <1>4, FluxIsInt DEF TypeOK
  <1>6. \A q \in Proc : q # p => zb'[q] = zb[q] /\ structdepth'[q] = structdepth[q]
    BY <1>2 DEF Visit, Slide
  <1>7. ASSUME NEW x \in Local(p)
        PROVE  zb'[p][x] = IF x = c THEN zb[p][x] + flux
                           ELSE IF x = c + 1 THEN zb[p][x] - flux ELSE zb[p][x]
    <2>0. zb[p][x] \in Int
      BY <1>0 DEF TypeOK
    <2>1. CASE Steep(p, c)
      <3>1. zb'[p][x] = zb[p][x] + Gain(p, c, x)
        BY <1>2, <2>1 DEF Visit, Slide
      <3>2. Gain(p, c, c) = flux /\ Gain(p, c, c + 1) = -flux
        BY <1>0, <1>1, <2>1, DeepSlide
      <3>3. x # c /\ x # c + 1 => Gain(p, c, x) = 0
        BY DEF Gain, Lower, Higher
      <3> HIDE DEF flux, c
      <3> QED BY <1>5, <2>0, <3>1, <3>2, <3>3
    <2>2. CASE ~Steep(p, c)
      <3>1. zb'[p][x] = zb[p][x]
        BY <2>2 DEF Visit
      <3>2. flux = 0
        BY <1>0, <1>1, <2>2, DeepSlide DEF Flux
      <3> QED BY <2>0, <3>1, <3>2
    <2> QED BY <2>1, <2>2
  <1>8. ASSUME NEW q \in Proc, NEW k \in Int
        PROVE  Applied(q, k)' = IF q = p /\ k = c THEN flux ELSE Applied(q, k)
    <2>1. CASE q # p
      BY <1>1, <1>3, <2>1 DEF Applied, Flux, Steepest
    <2>2. CASE q = p /\ k = c
      BY <1>1, <1>2, <1>3, <2>2 DEF Applied, Flux, Steepest
    <2>3. CASE q = p /\ k # c
      <3>1. k < i'[p] <=> k < c
        BY <1>2, <1>3, <2>3
      <3> QED BY <1>1, <2>3, <3>1 DEF Applied, Flux, Steepest
    <2> QED BY <2>1, <2>2, <2>3
  <1>9. Applied(p, c) = 0
    BY <1>2 DEF Applied
  <1> HIDE DEF flux, c
  <1>10. ASSUME NEW q \in Proc, NEW x \in Local(q) PROVE Base(q, x)' = Base(q, x)
    <2>1. x \in Int /\ x - 1 \in Int /\ Applied(q, x) \in Int /\ Applied(q, x - 1) \in Int
      BY <1>0, LocalCells, AppliedIsInt
    <2>2. zb[q][x] \in Int
      BY <1>0 DEF TypeOK
    <2>3. CASE q # p
      <3>1. zb'[q][x] = zb[q][x] /\ Applied(q, x)' = Applied(q, x)
            /\ Applied(q, x - 1)' = Applied(q, x - 1)
        BY <1>6, <1>8, <2>1, <2>3
      <3> QED BY <3>1 DEF Base
    <2>4. CASE q = p /\ x = c
      <3>1. zb'[p][x] = zb[p][x] + flux /\ Applied(p, x)' = flux /\ Applied(p, x) = 0
            /\ Applied(p, x - 1)' = Applied(p, x - 1)
        BY <1>7, <1>8, <1>9, <2>1, <2>4
      <3> QED BY <1>5, <2>1, <2>2, <2>4, <3>1 DEF Base
    <2>5. CASE q = p /\ x = c + 1
      <3>1. zb'[p][x] = zb[p][x] - flux /\ Applied(p, x)' = Applied(p, x)
            /\ Applied(p, x - 1)' = flux /\ Applied(p, x - 1) = 0
        <4>1. x - 1 = c /\ x # c
          BY <1>2, <2>5
        <4> QED BY <1>7, <1>8, <1>9, <2>1, <2>5, <4>1
      <3> QED BY <1>5, <2>1, <2>2, <2>5, <3>1 DEF Base
    <2>6. CASE q = p /\ x # c /\ x # c + 1
      <3>1. x - 1 # c
        BY <1>2, <2>1, <2>6
      <3>2. zb'[p][x] = zb[p][x] /\ Applied(p, x)' = Applied(p, x)
            /\ Applied(p, x - 1)' = Applied(p, x - 1)
        BY <1>7, <1>8, <2>1, <2>6, <3>1
      <3> QED BY <2>6, <3>2 DEF Base
    <2> QED BY <2>3, <2>4, <2>5, <2>6
  <1>11. BaseSame' /\ BaseTotal'
    BY <1>1, <1>10, BaseKept
  <1>12. BaseSlopes'
    <2> SUFFICES ASSUME NEW q \in Proc, pc'[q] \in {"sweep", "reduce"},
                        NEW k \in Local(q), k < Last[q]
                 PROVE  dzbdx'[q][k] = Base(q, k + 1)' - Base(q, k)'
      BY DEF BaseSlopes
    <2>1. k + 1 \in Local(q)
      BY LocalCells
    <2>2. Base(q, k + 1)' = Base(q, k + 1) /\ Base(q, k)' = Base(q, k)
      BY <1>10, <2>1
    <2> QED BY <1>1, <2>2 DEF BaseSlopes
  <1>13. SandLeft'
    <2>1. \A q \in Proc : pc'[q] # "done" => ii' \in 1..Iterations
      BY <1>1 DEF SandLeft
    <2>2. ASSUME NEW q \in Proc, pc'[q] # "done", NEW x \in Local(q)
          PROVE  structdepth'[q][x] >= bed'.sand[x] - (Spent(ii') + Worn(q, x)')
      <3>1. CASE q # p
        BY <1>1, <1>3, <1>6, <2>2, <3>1 DEF SandLeft, Worn
      <3>2. CASE q = p
        <4> DEFINE sd == structdepth[p][x]
                   new == structdepth'[p][x]
                   had == bed.sand[x]
                   sp == Spent(ii)
                   wn == Worn(p, x)
        <4>1. sd \in Nat /\ had \in Nat /\ MaxMove \in Nat /\ x \in Nat
          BY <1>0, <3>2, LocalCells, BedAssumption DEF TypeOK
        <4>2. sd >= had - (sp + wn) /\ ii \in 1..Iterations
          BY <1>1, <3>2 DEF SandLeft
        <4>3. sp \in Nat
          BY <4>2, SpentBound
        <4>4. wn = IF x > c THEN 0 ELSE IF x = c THEN MaxMove ELSE 2 * MaxMove
          BY <1>1 DEF Worn, c
        <4>5. Worn(p, x)' = IF x > c + 1 THEN 0 ELSE IF x = c + 1 THEN MaxMove ELSE 2 * MaxMove
          BY <1>1, <1>3 DEF Worn
        <4>6. new \in Int /\ new >= (IF x \in {c, c + 1} THEN sd - MaxMove ELSE sd)
          <5>1. CASE Steep(p, c)
            <6>1. new = AtLeastZero(sd + Gain(p, c, x))
              BY <1>2, <3>2, <5>1 DEF Visit, Slide, c
            <6>2. AtLeastZero(sd + Gain(p, c, x)) = sd + Gain(p, c, x) /\ Gain(p, c, x) \in Int
              <7>1. x \in Local(p) /\ c \in Int
                BY <1>2, <3>2
              <7> HIDE DEF sd
              <7>2. /\ Gain(p, c, x) \in Int
                    /\ AtLeastZero(structdepth[p][x] + Gain(p, c, x))
                           = structdepth[p][x] + Gain(p, c, x)
                BY <1>0, <1>4, <5>1, <7>1, SlideKeepsTogether
              <7> QED BY <7>2 DEF sd
            <6>3. Moved(p, c) \in 0..MaxMove
              BY <1>0, <1>1, <5>1, DeepSlide DEF c
            <6>4. x \notin {c, c + 1} => Gain(p, c, x) = 0
              BY DEF Gain, Lower, Higher
            <6>5. Gain(p, c, x) >= -MaxMove
              BY <4>1, <6>3 DEF Gain
            <6> HIDE DEF sd, new
            <6> QED BY <4>1, <6>1, <6>2, <6>4, <6>5 DEF sd
          <5>2. CASE ~Steep(p, c)
            <6>1. new = sd
              BY <5>2 DEF Visit, c
            <6> HIDE DEF sd, new
            <6> QED BY <4>1, <6>1 DEF sd
          <5> QED BY <5>1, <5>2
        <4> HIDE DEF sd, new, had, sp, wn
        <4>7. new >= had - (sp + Worn(p, x)')
          <5>1. CASE x > c + 1
            BY <1>2, <4>1, <4>2, <4>3, <4>4, <4>5, <4>6, <5>1
          <5>2. CASE x = c + 1
            BY <1>2, <4>1, <4>2, <4>3, <4>4, <4>5, <4>6, <5>2
          <5>3. CASE x = c
            BY <1>2, <4>1, <4>2, <4>3, <4>4, <4>5, <4>6, <5>3
          <5>4. CASE x < c
            BY <1>2, <4>1, <4>2, <4>3, <4>4, <4>5, <4>6, <5>4
          <5> QED BY <1>2, <4>1, <5>1, <5>2, <5>3, <5>4
        <4> QED BY <1>1, <3>2, <4>7 DEF new, had, sp
      <3> QED BY <3>1, <3>2
    <2> QED BY <2>1, <2>2 DEF SandLeft
  <1> QED BY <1>11, <1>12, <1>13

LEMMA SweepDoneDeep ==
    ASSUME QuietInv, SandLeft, BaseSame, BaseSlopes, BaseTotal, NEW p \in Proc, SweepDone(p)
    PROVE  SandLeft' /\ BaseSame' /\ BaseSlopes' /\ BaseTotal'
  <1>0. TypeOK
    BY DEF QuietInv, IInv
  <1>1. /\ pc[p] = "sweep" /\ i[p] >= Last[p] /\ pc' = [pc EXCEPT ![p] = "reduce"]
        /\ UNCHANGED <<zb, structdepth, dzbdx, i, ii, bed, water>>
    BY DEF SweepDone
  <1>2. DOMAIN pc = Proc /\ i[p] \in Nat
    BY <1>0 DEF TypeOK
  <1>3. pc'[p] = "reduce" /\ \A q \in Proc : q # p => pc'[q] = pc[q]
    BY <1>1, <1>2
  <1>4. ASSUME NEW q \in Proc, NEW k \in Int PROVE Applied(q, k)' = Applied(q, k)
    <2>1. CASE q # p
      BY <1>1, <1>3, <2>1 DEF Applied, Flux, Steepest
    <2>2. CASE q = p
      BY <1>1, <1>3, <2>2 DEF Applied, Flux, Steepest
    <2> QED BY <2>1, <2>2
  <1>5. ASSUME NEW q \in Proc, NEW x \in Local(q) PROVE Base(q, x)' = Base(q, x)
    <2>1. x \in Int /\ x - 1 \in Int
      BY LocalCells
    <2> QED BY <1>1, <1>4, <2>1 DEF Base
  <1>6. BaseSame' /\ BaseTotal'
    BY <1>1, <1>5, BaseKept
  <1>7. BaseSlopes'
    <2> SUFFICES ASSUME NEW q \in Proc, pc'[q] \in {"sweep", "reduce"},
                        NEW k \in Local(q), k < Last[q]
                 PROVE  dzbdx'[q][k] = Base(q, k + 1)' - Base(q, k)'
      BY DEF BaseSlopes
    <2>1. k + 1 \in Local(q) /\ pc[q] \in {"sweep", "reduce"}
      BY <1>1, <1>3, LocalCells
    <2>2. Base(q, k + 1)' = Base(q, k + 1) /\ Base(q, k)' = Base(q, k)
      BY <1>5, <2>1
    <2> QED BY <1>1, <2>1, <2>2 DEF BaseSlopes
  <1>8. SandLeft'
    <2>1. \A q \in Proc : pc'[q] # "done" => pc[q] # "done"
      BY <1>1, <1>3
    <2>2. ASSUME NEW q \in Proc, pc'[q] # "done", NEW x \in Local(q)
          PROVE  structdepth[q][x] >= bed.sand[x] - (Spent(ii) + Worn(q, x)')
      <3>1. CASE q # p
        BY <1>1, <1>3, <2>2, <3>1 DEF SandLeft, Worn
      <3>2. CASE q = p
        <4> DEFINE sd == structdepth[p][x]
                   had == bed.sand[x]
                   sp == Spent(ii)
                   wn == Worn(p, x)
        <4>1. sd \in Nat /\ had \in Nat /\ MaxMove \in Nat /\ x \in Nat
          BY <1>0, <3>2, LocalCells, BedAssumption DEF TypeOK
        <4>2. sd >= had - (sp + wn) /\ ii \in 1..Iterations
          BY <1>1, <3>2 DEF SandLeft
        <4>3. sp \in Nat
          BY <4>2, SpentBound
        <4>4. wn \in 0..(2 * MaxMove)
          BY <4>1 DEF Worn
        <4>5. Worn(p, x)' = 2 * MaxMove
          BY <1>3 DEF Worn
        <4> HIDE DEF sd, had, sp, wn
        <4>6. sd >= had - (sp + 2 * MaxMove)
          BY <4>1, <4>2, <4>3, <4>4
        <4> QED BY <3>2, <4>5, <4>6 DEF sd, had, sp
      <3> QED BY <3>1, <3>2
    <2> QED BY <1>1, <2>1, <2>2 DEF SandLeft
  <1> QED BY <1>6, <1>7, <1>8

\* What slid between the cells of an iteration adds up to nothing.
LEMMA SlidesCancel ==
    ASSUME QuietInv, BaseSame, BaseSlopes, BaseTotal, \A p \in Proc : pc[p] = "reduce"
    PROVE  Total([c \in Cell |-> zb[Owner[c]][c]]) = Total(bed.level)
  <1> DEFINE n == Cardinality(Cell)
             f == [c \in Cell |-> Base(Owner[c], c)]
             g == [c \in Cell |-> zb[Owner[c]][c]]
             h == [c \in 0..n |-> IF c = 0 THEN 0 ELSE Applied(Owner[c], c)]
  <1>0. TypeOK /\ n \in Nat /\ Cell = 1..n
    BY PartsAssumption, FS_CardinalityType DEF QuietInv, IInv
  <1> HIDE DEF n
  <1>1. \A c \in Cell : /\ c \in Nat \ {0} /\ c \in 0..n /\ c - 1 \in 0..n
                        /\ Owner[c] \in Proc /\ c \in Local(Owner[c])
    BY <1>0, PartsAssumption
  <1>2. \A c \in Cell : Applied(Owner[c], c) \in Int /\ Applied(Owner[c], c - 1) \in Int
    BY <1>0, <1>1, AppliedIsInt
  <1>3. h \in [0..n -> Int] /\ h[0] = 0
    BY <1>0, <1>2
  <1>4. h[n] = 0
    <2>1. CASE n = 0
      BY <1>3, <2>1
    <2>2. CASE n # 0
      <3>1. n \in Cell /\ Owner[n] \in Proc /\ Last[Owner[n]] \in Cell
        BY <1>0, <1>1, <2>2, PartsAssumption
      <3>2. ~(n < Last[Owner[n]])
        BY <1>0, <3>1
      <3> QED BY <1>0, <2>2, <3>2 DEF Applied
    <2> QED BY <2>1, <2>2
  <1>5. ASSUME NEW c \in Cell PROVE Applied(Owner[c], c - 1) = h[c - 1]
    <2>1. CASE c = 1
      <3>1. Owner[c] \in Proc /\ First[Owner[c]] \in Nat
        BY <1>1, LocalCells
      <3>2. ~(First[Owner[c]] < c - 1)
        BY <2>1, <3>1
      <3> QED BY <1>3, <2>1, <3>2 DEF Applied
    <2>2. CASE c # 1
      <3> DEFINE k == c - 1
                 p == Owner[c]
                 q == Owner[k]
      <3>1. k \in Cell /\ k + 1 = c /\ k \in Nat /\ k # 0 /\ k \in 0..n
        BY <1>0, <1>1, <2>2
      <3>2. p \in Proc /\ q \in Proc
        BY <1>1, <3>1
      <3>3. h[k] = Applied(q, k)
        BY <3>1
      <3>4. CASE k = 1
        <4>1. ~(First[p] < k) /\ ~(First[q] < k)
          BY <3>2, <3>4, LocalCells
        <4> QED BY <3>3, <4>1 DEF Applied
      <3>5. CASE k # 1
        <4> HIDE DEF k
        <4>1. k + 1 \in Cell /\ k > 1 /\ c = k + 1
          BY <3>1, <3>5
        <4>2. \A r \in {Owner[k], Owner[k + 1]} : First[r] < k /\ k < Last[r]
          BY <3>1, <4>1, PartsAssumption
        <4>3. ASSUME NEW r \in {p, q}
              PROVE  /\ k \in Local(r) /\ k + 1 \in Local(r)
                     /\ Applied(r, k) = Flux(Base(r, k + 1) - Base(r, k), k)
          <5>1. r \in Proc /\ First[r] < k /\ k < Last[r]
            BY <3>2, <4>1, <4>2
          <5>2. k \in Local(r) /\ k + 1 \in Local(r)
            BY <3>1, <5>1, LocalCells DEF Local
          <5>3. k < i[r]
            <6>1. i[r] >= Last[r] /\ i[r] \in Nat /\ Last[r] \in Nat
              BY <1>0, <5>1, LocalCells DEF QuietInv, SweptAll, TypeOK
            <6> QED BY <3>1, <5>1, <6>1
          <5>4. dzbdx[r][k] = Base(r, k + 1) - Base(r, k)
            BY <5>1, <5>2 DEF BaseSlopes
          <5> QED BY <5>1, <5>2, <5>3, <5>4 DEF Applied
        <4>4. Base(p, k) = Base(q, k) /\ Base(p, k + 1) = Base(q, k + 1)
          BY <3>2, <4>3 DEF BaseSame
        <4>5. Applied(p, k) = Applied(q, k)
          BY <4>3, <4>4
        <4>6. h[k] = Applied(p, k)
          BY <3>3, <4>5
        <4> QED BY <4>6 DEF k
      <3> QED BY <3>4, <3>5
    <2> QED BY <2>1, <2>2
  <1>6. ASSUME NEW c \in Cell
        PROVE  f[c] \in Int /\ g[c] \in Int /\ g[c] = f[c] + h[c] - h[c - 1]
    <2>1. g[c] = zb[Owner[c]][c] /\ g[c] \in Int
      BY <1>0, <1>1 DEF TypeOK
    <2>2. h[c] = Applied(Owner[c], c) /\ h[c] \in Int
      BY <1>1, <1>2
    <2>3. h[c - 1] = Applied(Owner[c], c - 1) /\ h[c - 1] \in Int
      BY <1>2, <1>5
    <2>4. f[c] = g[c] - h[c] + h[c - 1]
      BY <2>1, <2>2, <2>3 DEF Base
    <2> HIDE DEF f, g, h
    <2> QED BY <2>1, <2>2, <2>3, <2>4
  <1>7. Exchanged(f, g, h, n)
    BY <1>0, <1>3, <1>6 DEF Exchanged
  <1> HIDE DEF h
  <1>8. SumOver(g, 1..n) = SumOver(f, 1..n) + h[n] - h[0]
    BY <1>0, <1>7, SumTelescopes
  <1>9. SumOver(f, 1..n) \in Int
    <2> HIDE DEF f
    <2>1. IsFiniteSet(1..n)
      BY <1>0, FS_Interval
    <2>2. \A c \in 1..n : f[c] \in Int
      BY <1>0, <1>6, Zenon
    <2> QED BY <2>1, <2>2, SumOfInts
  <1>10. SumOver(g, Cell) = SumOver(f, Cell)
    BY <1>0, <1>3, <1>4, <1>8, <1>9
  <1>11. Total(f) = SumOver(f, Cell) /\ Total(g) = SumOver(g, Cell)
    <2> HIDE DEF f, g
    <2> QED BY DEF Total, SumOver
  <1>12. Total(f) = Total(bed.level)
    BY DEF BaseTotal
  <1> HIDE DEF f, g
  <1>13. Total(g) = Total(bed.level)
    BY <1>10, <1>11, <1>12
  <1> QED BY <1>13 DEF g

LEMMA ReduceDeep ==
    ASSUME QuietInv, QuietInv', SandLeft, BaseSame, BaseSlopes, BaseTotal, Reduce
    PROVE  SandLeft' /\ BaseSame' /\ BaseSlopes' /\ BaseTotal'
  <1>0. TypeOK /\ TypeOK'
    BY DEF QuietInv, IInv
  <1>1. /\ \A p \in Proc : pc[p] = "reduce"
        /\ zb' = [p \in Proc |-> [c \in Local(p) |-> zb[Owner[c]][c]]]
        /\ ii' = ii + 1
        /\ UNCHANGED <<structdepth, dzbdx, i, bed, water>>
    BY DEF Reduce, HaloRefreshed
  <1>2. \A p \in Proc : pc'[p] \in {"slopes", "done"} /\ (pc'[p] = "slopes" => ii < Iterations)
    BY DEF Reduce
  <1>3. \A c \in Cell : Owner[c] \in Proc /\ c \in Local(Owner[c])
    BY PartsAssumption
  <1>4. ASSUME NEW p \in Proc, NEW x \in Local(p) PROVE Base(p, x)' = zb[Owner[x]][x]
    <2>1. Applied(p, x)' = 0 /\ Applied(p, x - 1)' = 0
      BY <1>2 DEF Applied
    <2>2. zb'[p][x] = zb[Owner[x]][x]
      BY <1>1
    <2>3. zb'[p][x] \in Int
      BY <1>0 DEF TypeOK
    <2> QED BY <2>1, <2>2, <2>3 DEF Base
  <1>5. BaseSame'
    BY <1>4 DEF BaseSame
  <1>6. BaseSlopes'
    BY <1>2 DEF BaseSlopes
  <1>7. BaseTotal'
    <2> DEFINE f == [c \in Cell |-> Base(Owner[c], c)]
               g == [c \in Cell |-> zb[Owner[c]][c]]
    <2>1. \A c \in Cell : Base(Owner[c], c)' = zb[Owner[c]][c]
      BY <1>3, <1>4
    <2>2. f' = g
      BY <2>1
    <2>3. Total(g) = Total(bed.level)
      BY <1>1, SlidesCancel
    <2> HIDE DEF f, g
    <2>4. Total(f') = Total(bed'.level)
      BY <1>1, <2>2, <2>3
    <2> QED BY <2>4 DEF BaseTotal, f
  <1>8. SandLeft'
    <2> SUFFICES ASSUME NEW p \in Proc, pc'[p] # "done"
                 PROVE  /\ ii' \in 1..Iterations
                        /\ \A x \in Local(p) :
                             structdepth'[p][x] >= bed'.sand[x] - (Spent(ii') + Worn(p, x)')
      BY DEF SandLeft
    <2>1. ii \in 1..Iterations /\ ii < Iterations /\ pc'[p] = "slopes"
      BY <1>1, <1>2 DEF SandLeft
    <2>2. ii' \in 1..Iterations
      BY <1>1, <2>1, BedAssumption
    <2>3. ASSUME NEW x \in Local(p)
          PROVE  structdepth[p][x] >= bed.sand[x] - (Spent(ii + 1) + Worn(p, x)')
      <3> DEFINE sd == structdepth[p][x]
                 had == bed.sand[x]
                 sp == Spent(ii)
                 next == Spent(ii + 1)
      <3>1. sd >= had - (sp + Worn(p, x)) /\ Worn(p, x) = 2 * MaxMove /\ Worn(p, x)' = 0
        BY <1>1, <2>1 DEF SandLeft, Worn
      <3>2. sp \in Nat /\ next = sp + 2 * MaxMove /\ MaxMove \in Nat
        BY <2>1, SpentBound, BedAssumption
      <3> HIDE DEF sd, had, sp, next
      <3>3. sd >= had - (next + 0)
        BY <3>1, <3>2
      <3> QED BY <3>1, <3>3 DEF sd, had, next
    <2> QED BY <1>1, <2>2, <2>3
  <1> QED BY <1>5, <1>6, <1>7, <1>8

LEMMA InitSand == Init => SandInv
  <1> SUFFICES ASSUME Init PROVE SandInv
    OBVIOUS
  <1>0. QuietInv /\ TypeOK
    BY InitQuiet DEF QuietInv, IInv
  <1>1. ASSUME NEW p \in Proc, NEW x \in Local(p)
        PROVE  Base(p, x) = bed.level[x] /\ structdepth[p][x] = bed.sand[x]
    <2>1. zb[p][x] = bed.level[x] /\ structdepth[p][x] = bed.sand[x] /\ pc[p] = "slopes"
      BY DEF Init
    <2> QED BY <1>0, <2>1, BaseIsLevel
  <1>2. BaseSame /\ BaseSlopes
    BY <1>1 DEF BaseSame, BaseSlopes, Init
  <1>3. BaseTotal
    <2>1. \A c \in Cell : Base(Owner[c], c) = bed.level[c]
      BY <1>1, PartsAssumption
    <2>2. [c \in Cell |-> Base(Owner[c], c)] = bed.level
      BY <2>1, BedAssumption DEF Init
    <2> QED BY <2>2 DEF BaseTotal
  <1>4. SandLeft
    <2>1. ii \in 1..Iterations /\ \A p \in Proc : pc[p] = "slopes"
      BY BedAssumption DEF Init
    <2>2. ASSUME NEW p \in Proc, NEW x \in Local(p)
          PROVE  structdepth[p][x] >= bed.sand[x] - (Spent(ii) + Worn(p, x))
      <3>1. Spent(ii) \in Nat /\ Worn(p, x) = 0
        BY <2>1, SpentBound DEF Worn
      <3>2. structdepth[p][x] = bed.sand[x] /\ bed.sand[x] \in Nat
        BY <1>0, <1>1 DEF TypeOK
      <3> QED BY <3>1, <3>2
    <2> QED BY <2>1, <2>2 DEF SandLeft
  <1>5. TrueDepths
    BY DEF Init, TrueDepths
  <1> QED BY <1>0, <1>2, <1>3, <1>4, <1>5 DEF SandInv, DeepInv

LEMMA NextDepths == IInv /\ TrueDepths /\ [Next]_vars => TrueDepths'
  <1> SUFFICES ASSUME IInv, TrueDepths, [Next]_vars, ~water'.swrunup,
                      NEW q \in Proc, pc'[q] \in {"sweep", "reduce"}, NEW x \in Local(q)
               PROVE  hav'[q][x] = water'.depth[x]
    BY DEF TrueDepths
  <1>0. DOMAIN hav = Proc /\ DOMAIN pc = Proc
    BY DEF IInv, TypeOK
  <1>1. water' = water
    BY DEF Next, Process, Reduce, Slopes, Visit, SweepDone, vars
  <1>2. ASSUME NEW p \in Proc, Slopes(p) PROVE hav'[q][x] = water'.depth[x]
    <2>1. /\ hav' = [hav EXCEPT ![p] = [c \in Local(p) |-> Hav(p, c)]]
          /\ pc' = [pc EXCEPT ![p] = "sweep"]
      BY <1>2 DEF Slopes
    <2>2. CASE q = p
      <3>1. hav'[p][x] = Hav(p, x)
        BY <1>0, <2>1, <2>2
      <3> QED BY <1>1, <2>2, <3>1 DEF Hav
    <2>3. CASE q # p
      <3>1. hav'[q] = hav[q] /\ pc'[q] = pc[q]
        BY <1>0, <2>1, <2>3
      <3> QED BY <1>1, <3>1 DEF TrueDepths
    <2> QED BY <2>2, <2>3
  <1>3. ASSUME NEW p \in Proc, Visit(p) PROVE hav'[q][x] = water'.depth[x]
    BY <1>1, <1>3 DEF Visit, TrueDepths
  <1>4. ASSUME NEW p \in Proc, SweepDone(p) PROVE hav'[q][x] = water'.depth[x]
    <2>1. hav' = hav /\ pc[p] = "sweep" /\ pc' = [pc EXCEPT ![p] = "reduce"]
      BY <1>4 DEF SweepDone
    <2>2. pc[q] \in {"sweep", "reduce"}
      BY <1>0, <2>1
    <2> QED BY <1>1, <2>1, <2>2 DEF TrueDepths
  <1>5. CASE Reduce
    BY <1>5 DEF Reduce
  <1>6. CASE UNCHANGED vars
    BY <1>1, <1>6 DEF TrueDepths, vars
  <1> QED BY <1>2, <1>3, <1>4, <1>5, <1>6 DEF Next, Process

LEMMA NextSand == SandInv /\ [Next]_vars => SandInv'
  <1> SUFFICES ASSUME SandInv, [Next]_vars PROVE SandInv'
    OBVIOUS
  <1>0. QuietInv /\ QuietInv' /\ TrueDepths /\ TrueDepths'
    BY NextQuiet, NextDepths DEF SandInv, QuietInv
  <1> SUFFICES ASSUME DeepSand', ~water'.swrunup PROVE SandLeft' /\ BaseSame' /\ BaseSlopes' /\ BaseTotal'
    BY <1>0 DEF SandInv, DeepInv
  <1>1. bed' = bed /\ water' = water
    BY DEF Next, Process, Reduce, Slopes, Visit, SweepDone, vars
  <1>2. DeepSand /\ ~water.swrunup /\ SandLeft /\ BaseSame /\ BaseSlopes /\ BaseTotal
    BY <1>1 DEF DeepSand, SandInv, DeepInv
  <1>3. ASSUME NEW p \in Proc, Slopes(p)
        PROVE  SandLeft' /\ BaseSame' /\ BaseSlopes' /\ BaseTotal'
    BY <1>0, <1>2, <1>3, SlopesDeep
  <1>4. ASSUME NEW p \in Proc, Visit(p)
        PROVE  SandLeft' /\ BaseSame' /\ BaseSlopes' /\ BaseTotal'
    BY <1>0, <1>2, <1>4, VisitDeep
  <1>5. ASSUME NEW p \in Proc, SweepDone(p)
        PROVE  SandLeft' /\ BaseSame' /\ BaseSlopes' /\ BaseTotal'
    BY <1>0, <1>2, <1>5, SweepDoneDeep
  <1>6. CASE Reduce
    BY <1>0, <1>2, <1>6, ReduceDeep
  <1>7. CASE UNCHANGED vars
    <2>1. SandLeft' /\ BaseSlopes'
      BY <1>2, <1>7 DEF SandLeft, BaseSlopes, Base, Applied, Flux, Steepest, Worn, vars
    <2>2. \A p \in Proc : \A x \in Local(p) : Base(p, x)' = Base(p, x)
      BY <1>7 DEF Base, Applied, Flux, Steepest, vars
    <2> QED BY <1>1, <1>2, <2>1, <2>2, BaseKept
  <1> QED BY <1>3, <1>4, <1>5, <1>6, <1>7 DEF Next, Process

LEMMA SandInvKept == SandInv => SandKept
  <1> SUFFICES ASSUME SandInv, AllAre("slopes") \/ AllAre("done"), DeepSand, ~water.swrunup
               PROVE  Total([c \in Cell |-> zb[Owner[c]][c]]) = Total(bed.level)
    BY DEF SandKept
  <1>1. TypeOK /\ BaseTotal
    BY DEF SandInv, DeepInv, QuietInv, IInv
  <1>2. \A c \in Cell : Owner[c] \in Proc /\ c \in Local(Owner[c])
    BY PartsAssumption
  <1>3. \A c \in Cell : Base(Owner[c], c) = zb[Owner[c]][c]
    BY <1>1, <1>2, BaseIsLevel DEF AllAre
  <1>4. [c \in Cell |-> Base(Owner[c], c)] = [c \in Cell |-> zb[Owner[c]][c]]
    BY <1>3
  <1> QED BY <1>1, <1>4 DEF BaseTotal

\* Sand that slides over the border of two parts is taken out by one process
\* and put in by the other, so that between two iterations the whole grid holds
\* what it began with, wherever the hard layer is deep and the processes judge
\* a slope by the depth of the water, not by a run-up of their own: bed_update.
THEOREM SandIsKept == Spec => []SandKept
  BY InitSand, NextSand, SandInvKept, PTL DEF Spec
=============================================================================
