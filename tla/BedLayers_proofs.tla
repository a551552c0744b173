-------------------------- MODULE BedLayers_proofs --------------------------
(***************************************************************************)
(* The layers of the bed neither lose sand nor move the surface when they  *)
(* merge and split, for any number of layers, any thicknesses and any      *)
(* changes that fit into one pass of update_fractions.                     *)
(***************************************************************************)
EXTENDS BedLayers, FoldLemmas

\* What there is, and what the call under way has still to take out of it.
Owed == IF pc = "loop" /\ dzb_loc # 0 THEN change ELSE NoChange

\* As long as no call needed a second pass.
Level  == zb = asked.all + Owed.all
Mass   == ~clipped => Sum(coarse) = asked.coarse + Owed.coarse + below
Single == pc = "loop" /\ dzb_loc # 0 => dzb_loc = change.all

Typed ==
    /\ dz \in [Layer -> Int] /\ coarse \in [Layer -> Int]
    /\ z0bed \in Int /\ below \in Int /\ dzb_loc \in Int
    /\ asked \in [coarse : Int, all : Int] /\ change \in [coarse : Int, all : Int]
    /\ repeated \in BOOLEAN /\ clipped \in BOOLEAN

IInv ==
    /\ TypeOK /\ Typed
    /\ pc = "idle" => dzb_loc = 0
    /\ ~repeated => Level /\ Mass /\ Single
    /\ VariableLayerBounded
-----------------------------------------------------------------------------
(* Shares of a mass *)

\* Rounded either way, a share is a whole number.
LEMMA QuotientsAreInts ==
    ASSUME NEW a \in Int, NEW b \in Int, NEW c \in Int, c # 0
    PROVE  Quotients(a, b, c) \subseteq Int
  <1> DEFINE ab == a * b
  <1>1. ab \in Int
    OBVIOUS
  <1> HIDE DEF ab
  <1>2. CASE c > 0
    <2>1. ab \div c \in Int /\ -((-ab) \div c) \in Int
      BY <1>1, <1>2
    <2> QED BY <1>2, <2>1 DEF Quotients, ab
  <1>3. CASE c < 0
    <2>1. -c \in Nat \ {0}
      BY <1>3
    <2>2. (-ab) \div (-c) \in Int /\ -(ab \div (-c)) \in Int
      BY <1>1, <2>1
    <2>3. ~(c > 0)
      BY <1>3
    <2> QED BY <2>2, <2>3 DEF Quotients, ab
  <1> QED BY <1>2, <1>3

\* All of it, if the part is the whole.
LEMMA QuotientOfAll ==
    ASSUME NEW a \in Int, NEW c \in Int, c # 0
    PROVE  Quotients(a, c, c) = {a}
  <1>1. CASE c > 0
    <2>1. (a * c) \div c = a /\ (-(a * c)) \div c = -a
      BY <1>1, SMT
    <2> QED BY <1>1, <2>1 DEF Quotients
  <1>2. CASE c < 0
    <2> DEFINE b == -c
    <2>1. b \in Int /\ b > 0 /\ -(a * c) = a * b /\ a * c = -(a * b)
      BY <1>2
    <2> HIDE DEF b
    <2>2. (a * b) \div b = a /\ (-(a * b)) \div b = -a
      BY <2>1, SMT
    <2>3. ~(c > 0) /\ (-(a * c)) \div (-c) = a /\ (a * c) \div (-c) = -a
      BY <1>2, <2>1, <2>2 DEF b
    <2> QED BY <2>3 DEF Quotients
  <1> QED BY <1>1, <1>2

LEMMA LimitedIsInt ==
    ASSUME Typed, NEW x \in Int
    PROVE  /\ Limited(x) \in Int
           /\ Limited(x) <= dz[NdVar] \/ Limited(x) = -FracDz
           /\ Limited(x) >= -FracDz
  BY LayersAssumption DEF Typed, Limited, Layer

LEMMA RisingAreInts ==
    ASSUME Typed, NEW k \in Layer, NEW all \in Int
    PROVE  Rising(k, all) \subseteq Int
  <1>1. ASSUME NEW j \in Layer, NEW part \in Int PROVE Shares(j, part) \subseteq Int
    <2>1. coarse[j] \in Int /\ dz[j] \in Int
      BY DEF Typed
    <2>2. dz[j] > 0 => Quotients(part, coarse[j], dz[j]) \subseteq Int
      BY <2>1, QuotientsAreInts
    <2> QED BY <2>1, <2>2 DEF Shares
  <1>2. k \in 1..(NdVar - 1) => k + 1 \in Layer
    BY LayersAssumption DEF Layer
  <1>3. CASE k \notin 1..(NdVar - 1)
    BY <1>3 DEF Rising
  <1>4. CASE k \in 1..(NdVar - 1) /\ all >= 0
    BY <1>1, <1>2, <1>4 DEF Rising
  <1>5. CASE k \in 1..(NdVar - 1) /\ ~(all >= 0)
    <2>1. \A x \in Shares(k, -all) : -x \in Int
      BY <1>1
    <2>2. Rising(k, all) = {-x : x \in Shares(k, -all)}
      BY <1>5 DEF Rising
    <2> QED BY <2>1, <2>2
  <1> QED BY <1>3, <1>4, <1>5
-----------------------------------------------------------------------------
(* Sums over the layers *)

LEMMA SumOfLayers ==
    ASSUME NEW f \in [Layer -> Int]
    PROVE  Sum(f) \in Int /\ Sum(f) = SumOver(f, 1..Nd)
  <1>1. IsFiniteSet(1..Nd) /\ \A k \in 1..Nd : f[k] \in Int
    BY FS_Interval, LayersAssumption DEF Layer
  <1>2. SumOver(f, 1..Nd) \in Int
    BY <1>1, SumOfInts
  <1>3. Sum(f) = SumOver(f, 1..Nd)
    BY DEF Sum, SumOver, Layer
  <1> QED BY <1>2, <1>3

\* What the layers exchange, and what goes through the top and the bottom.
LEMMA LayersExchange ==
    ASSUME NEW f \in [Layer -> Int], NEW g \in [Layer -> Int], NEW h \in [0..Nd -> Int],
           \A k \in Layer : g[k] = f[k] + h[k] - h[k - 1]
    PROVE  Sum(g) = Sum(f) + h[Nd] - h[0]
  <1>1. /\ Nd \in Nat
        /\ \A k \in 1..Nd : f[k] \in Int /\ g[k] \in Int /\ g[k] = f[k] + h[k] - h[k - 1]
        /\ \A k \in 0..Nd : h[k] \in Int
    BY LayersAssumption DEF Layer
  <1>2. SumOver(g, 1..Nd) = SumOver(f, 1..Nd) + h[Nd] - h[0]
    <2>1. Exchanged(f, g, h, Nd)
      BY <1>1 DEF Exchanged
    <2> QED BY <1>1, <2>1, SumTelescopes
  <1> QED BY <1>2, SumOfLayers

LEMMA LayerChanged ==
    ASSUME NEW f \in [Layer -> Int], NEW v \in Layer, NEW x \in Int
    PROVE  Sum([f EXCEPT ![v] = x]) = Sum(f) + x - f[v]
  <1>1. Nd \in Nat /\ f \in [1..Nd -> Int] /\ v \in 1..Nd
    BY LayersAssumption DEF Layer
  <1>2. SumOver([f EXCEPT ![v] = x], 1..Nd) = SumOver(f, 1..Nd) + x - f[v]
    BY <1>1, SumChanged
  <1> QED BY <1>2, SumOfLayers

\* A pass takes part out at the top and leaves the rest in the layers.
LEMMA MovedKeepsMass ==
    ASSUME Typed, NEW part \in Int, NEW up \in [Layer -> Int]
    PROVE  /\ [k \in Layer |-> Moved(k, part, up)] \in [Layer -> Int]
           /\ Sum([k \in Layer |-> Moved(k, part, up)]) = Sum(coarse) - part
  <1> DEFINE g == [k \in Layer |-> Moved(k, part, up)]
             h == [k \in 0..Nd |-> IF k = 0 THEN part ELSE IF k < NdVar THEN up[k] ELSE 0]
  <1>0. Nd \in Nat /\ NdVar \in Nat /\ 2 <= NdVar /\ NdVar < Nd /\ Layer = 1..Nd
    BY LayersAssumption DEF Layer
  <1>1. g \in [Layer -> Int]
    <2>1. \A k \in Layer : Moved(k, part, up) \in Int
      <3> TAKE k \in Layer
      <3>1. coarse[k] \in Int /\ up[k] \in Int /\ (k # 1 => up[k - 1] \in Int)
        BY <1>0 DEF Typed
      <3> QED BY <1>0, <3>1 DEF Moved
    <2> QED BY <2>1
  <1>2. h \in [0..Nd -> Int]
    BY <1>0
  <1>3. ASSUME NEW k \in Layer PROVE g[k] = coarse[k] + h[k] - h[k - 1]
    <2>1. /\ k \in Int /\ coarse[k] \in Int /\ up[k] \in Int
          /\ (k # 1 => up[k - 1] \in Int) /\ k \in 0..Nd /\ k - 1 \in 0..Nd /\ k >= 1
      BY <1>0 DEF Typed
    <2> QED BY <1>0, <2>1 DEF Moved
  <1>4. h[Nd] = 0 /\ h[0] = part
    BY <1>0
  <1> HIDE DEF g, h
  <1>5. Sum(g) = Sum(coarse) + h[Nd] - h[0]
    BY <1>1, <1>2, <1>3, LayersExchange DEF Typed
  <1>6. Sum(coarse) \in Int
    BY SumOfLayers DEF Typed
  <1> QED BY <1>1, <1>4, <1>5, <1>6 DEF g
-----------------------------------------------------------------------------
(* Merging and splitting *)

Stacks == [dz : [Layer -> Int], coarse : [Layer -> Int], z0bed : Int, below : Int]

\* The level of the surface, and the coarse mass without what came from below.
SameSand(s, u) ==
    /\ u \in Stacks
    /\ \A k \in Layer : k # NdVar => u.dz[k] = s.dz[k]
    /\ u.z0bed + Sum(u.dz) = s.z0bed + Sum(s.dz)
    /\ Sum(u.coarse) - u.below = Sum(s.coarse) - s.below

LEMMA MergeKeepsSand ==
    ASSUME NEW s \in Stacks
    PROVE  /\ SameSand(s, Merge(s))
           /\ Merge(s).dz[NdVar] = IF s.dz[NdVar] >= MergeAt THEN s.dz[NdVar]
                                   ELSE s.dz[NdVar] + D
  <1>0. /\ Nd \in Nat /\ NdVar \in Nat /\ 2 <= NdVar /\ NdVar < Nd /\ Layer = 1..Nd
        /\ D \in Nat /\ MergeAt \in Nat
        /\ s.dz \in [Layer -> Int] /\ s.coarse \in [Layer -> Int]
        /\ s.z0bed \in Int /\ s.below \in Int
    BY LayersAssumption DEF Layer, Stacks
  <1>1. Sum(s.dz) \in Int /\ Sum(s.coarse) \in Int
    BY <1>0, SumOfLayers
  <1>2. CASE s.dz[NdVar] >= MergeAt
    BY <1>1, <1>2 DEF Merge, SameSand
  <1>3. CASE ~(s.dz[NdVar] >= MergeAt)
    <2> DEFINE thick == [s.dz EXCEPT ![NdVar] = s.dz[NdVar] + D]
               mass == [k \in Layer |->
                   IF k = NdVar THEN s.coarse[k] + s.coarse[k + 1]
                   ELSE IF k > NdVar /\ k < Nd THEN s.coarse[k + 1] ELSE s.coarse[k]]
               h == [k \in 0..Nd |-> IF k < NdVar THEN 0
                                     ELSE IF k < Nd THEN s.coarse[k + 1] ELSE s.coarse[Nd]]
    <2>1. Merge(s) = [dz |-> thick, coarse |-> mass, z0bed |-> s.z0bed - D,
                      below |-> s.below + s.coarse[Nd]]
      BY <1>3 DEF Merge, Stack
    <2>2. thick \in [Layer -> Int] /\ Sum(thick) = Sum(s.dz) + D
      <3>1. NdVar \in Layer /\ s.dz[NdVar] \in Int
        BY <1>0
      <3>2. Sum(thick) = Sum(s.dz) + (s.dz[NdVar] + D) - s.dz[NdVar]
        <4> DEFINE f == s.dz
                   x == s.dz[NdVar] + D
        <4>1. f \in [Layer -> Int] /\ x \in Int
          BY <1>0, <3>1
        <4> HIDE DEF f, x
        <4>2. Sum([f EXCEPT ![NdVar] = x]) = Sum(f) + x - f[NdVar]
          BY <3>1, <4>1, LayerChanged
        <4> QED BY <4>2 DEF f, x
      <3> QED BY <1>0, <1>1, <3>1, <3>2
    <2>3. mass \in [Layer -> Int] /\ h \in [0..Nd -> Int]
      <3>1. \A k \in Layer : s.coarse[k] \in Int /\ (k < Nd => s.coarse[k + 1] \in Int)
        BY <1>0
      <3>2. ASSUME NEW k \in Layer PROVE mass[k] \in Int
        <4>1. k = NdVar => k < Nd
          BY <1>0
        <4>2. s.coarse[k] \in Int /\ (k < Nd => s.coarse[k + 1] \in Int)
          BY <3>1
        <4> QED BY <4>1, <4>2
      <3>3. ASSUME NEW k \in 0..Nd PROVE h[k] \in Int
        <4>1. k < NdVar \/ k \in Layer
          BY <1>0
        <4>2. Nd \in Layer
          BY <1>0
        <4> QED BY <1>0, <3>1, <4>1, <4>2
      <3> QED BY <3>2, <3>3, Zenon
    <2>4. ASSUME NEW k \in Layer PROVE mass[k] = s.coarse[k] + h[k] - h[k - 1]
      <3>1. /\ k \in 0..Nd /\ k - 1 \in 0..Nd /\ s.coarse[k] \in Int
            /\ (k < Nd => s.coarse[k + 1] \in Int)
        BY <1>0
      <3>2. h[k] = (IF k < NdVar THEN 0 ELSE IF k < Nd THEN s.coarse[k + 1] ELSE s.coarse[k])
        BY <1>0, <3>1
      <3>3. h[k - 1] = (IF k - 1 < NdVar THEN 0 ELSE s.coarse[k])
        BY <1>0, <3>1
      <3>4. mass[k] = IF k = NdVar THEN s.coarse[k] + s.coarse[k + 1]
                      ELSE IF k > NdVar /\ k < Nd THEN s.coarse[k + 1] ELSE s.coarse[k]
        OBVIOUS
      <3> HIDE DEF h, mass
      <3>5. k \in Int /\ (k < Nd \/ k = Nd)
        BY <1>0
      <3>6. CASE k < NdVar
        BY <1>0, <3>1, <3>2, <3>3, <3>4, <3>5, <3>6
      <3>7. CASE k = NdVar
        BY <1>0, <3>1, <3>2, <3>3, <3>4, <3>5, <3>7
      <3>8. CASE k > NdVar
        BY <1>0, <3>1, <3>2, <3>3, <3>4, <3>5, <3>8
      <3> QED BY <1>0, <3>5, <3>6, <3>7, <3>8
    <2>5. h[Nd] = s.coarse[Nd] /\ h[0] = 0 /\ s.coarse[Nd] \in Int
      BY <1>0
    <2>6. thick[NdVar] = s.dz[NdVar] + D /\ \A k \in Layer : k # NdVar => thick[k] = s.dz[k]
      BY <1>0
    <2> HIDE DEF thick, mass, h
    <2>7. Sum(mass) = Sum(s.coarse) + s.coarse[Nd]
      <3>1. Sum(mass) = Sum(s.coarse) + h[Nd] - h[0]
        BY <1>0, <2>3, <2>4, LayersExchange
      <3> QED BY <1>1, <2>5, <3>1
    <2> DEFINE u == Merge(s)
    <2>8. /\ u \in Stacks /\ u.dz = thick /\ u.coarse = mass
          /\ u.z0bed = s.z0bed - D /\ u.below = s.below + s.coarse[Nd]
      BY <1>0, <2>1, <2>2, <2>3, <2>5 DEF Stacks
    <2> HIDE DEF u
    <2>9. u.z0bed + Sum(u.dz) = s.z0bed + Sum(s.dz)
      BY <1>0, <1>1, <2>2, <2>8
    <2>10. Sum(u.coarse) - u.below = Sum(s.coarse) - s.below
      BY <1>0, <1>1, <2>5, <2>7, <2>8
    <2>11. SameSand(s, u)
      BY <2>6, <2>8, <2>9, <2>10 DEF SameSand
    <2>12. u.dz[NdVar] = s.dz[NdVar] + D
      BY <2>6, <2>8
    <2> QED BY <1>3, <2>11, <2>12 DEF u
  <1> QED BY <1>2, <1>3

LEMMA SplitKeepsSand ==
    ASSUME NEW s \in Stacks, NEW part \in Int
    PROVE  /\ SameSand(s, Split(s, part))
           /\ Split(s, part).dz[NdVar] = IF s.dz[NdVar] <= SplitAt THEN s.dz[NdVar]
                                         ELSE s.dz[NdVar] - D
  <1>0. /\ Nd \in Nat /\ NdVar \in Nat /\ 2 <= NdVar /\ NdVar < Nd /\ Layer = 1..Nd
        /\ D \in Nat /\ SplitAt \in Nat
        /\ s.dz \in [Layer -> Int] /\ s.coarse \in [Layer -> Int]
        /\ s.z0bed \in Int /\ s.below \in Int
    BY LayersAssumption DEF Layer, Stacks
  <1>1. Sum(s.dz) \in Int /\ Sum(s.coarse) \in Int
    BY <1>0, SumOfLayers
  <1>2. CASE s.dz[NdVar] <= SplitAt
    BY <1>1, <1>2 DEF Split, SameSand
  <1>3. CASE ~(s.dz[NdVar] <= SplitAt)
    <2> DEFINE thick == [s.dz EXCEPT ![NdVar] = s.dz[NdVar] - D]
               mass == [k \in Layer |->
                   IF k = NdVar THEN s.coarse[k] - part
                   ELSE IF k = NdVar + 1 THEN part
                   ELSE IF k > NdVar THEN s.coarse[k - 1] ELSE s.coarse[k]]
               h == [k \in 0..Nd |-> IF k < NdVar THEN 0
                                     ELSE IF k = NdVar THEN -part ELSE -s.coarse[k]]
    <2>1. Split(s, part) = [dz |-> thick, coarse |-> mass, z0bed |-> s.z0bed + D,
                            below |-> s.below - s.coarse[Nd]]
      BY <1>3 DEF Split, Stack
    <2>2. thick \in [Layer -> Int] /\ Sum(thick) = Sum(s.dz) - D
      <3>1. NdVar \in Layer /\ s.dz[NdVar] \in Int
        BY <1>0
      <3>2. Sum(thick) = Sum(s.dz) + (s.dz[NdVar] - D) - s.dz[NdVar]
        <4> DEFINE f == s.dz
                   x == s.dz[NdVar] - D
        <4>1. f \in [Layer -> Int] /\ x \in Int
          BY <1>0, <3>1
        <4> HIDE DEF f, x
        <4>2. Sum([f EXCEPT ![NdVar] = x]) = Sum(f) + x - f[NdVar]
          BY <3>1, <4>1, LayerChanged
        <4> QED BY <4>2 DEF f, x
      <3> QED BY <1>0, <1>1, <3>1, <3>2
    <2>3. mass \in [Layer -> Int] /\ h \in [0..Nd -> Int]
      <3>1. \A k \in Layer : s.coarse[k] \in Int /\ (k > NdVar => s.coarse[k - 1] \in Int)
        BY <1>0
      <3>2. ASSUME NEW k \in Layer PROVE mass[k] \in Int
        BY <3>1
      <3>3. ASSUME NEW k \in 0..Nd PROVE h[k] \in Int
        <4>1. k < NdVar \/ k \in Layer
          BY <1>0
        <4> QED BY <3>1, <4>1
      <3> QED BY <3>2, <3>3, Zenon
    <2>4. ASSUME NEW k \in Layer PROVE mass[k] = s.coarse[k] + h[k] - h[k - 1]
      <3>1. k \in 0..Nd /\ k - 1 \in 0..Nd /\ s.coarse[k] \in Int
            /\ (k > NdVar => s.coarse[k - 1] \in Int)
        BY <1>0
      <3>2. h[k] = IF k < NdVar THEN 0 ELSE IF k = NdVar THEN -part ELSE -s.coarse[k]
        BY <3>1
      <3>3. h[k - 1] = IF k - 1 < NdVar THEN 0
                       ELSE IF k - 1 = NdVar THEN -part ELSE -s.coarse[k - 1]
        BY <3>1
      <3>4. mass[k] = IF k = NdVar THEN s.coarse[k] - part
                      ELSE IF k = NdVar + 1 THEN part
                      ELSE IF k > NdVar THEN s.coarse[k - 1] ELSE s.coarse[k]
        OBVIOUS
      <3> HIDE DEF h, mass
      <3>5. CASE k < NdVar
        BY <1>0, <3>1, <3>2, <3>3, <3>4, <3>5
      <3>6. CASE k = NdVar
        BY <1>0, <3>1, <3>2, <3>3, <3>4, <3>6
      <3>7. CASE k = NdVar + 1
        BY <1>0, <3>1, <3>2, <3>3, <3>4, <3>7
      <3>8. CASE k > NdVar + 1
        <4>1. /\ ~(k < NdVar) /\ k # NdVar /\ k # NdVar + 1 /\ k > NdVar
              /\ ~(k - 1 < NdVar) /\ k - 1 # NdVar
          BY <1>0, <3>1, <3>8
        <4>2. h[k] = -s.coarse[k] /\ h[k - 1] = -s.coarse[k - 1] /\ mass[k] = s.coarse[k - 1]
          BY <3>2, <3>3, <3>4, <4>1
        <4>3. s.coarse[k] \in Int /\ s.coarse[k - 1] \in Int
          BY <3>1, <4>1
        <4> QED BY <4>2, <4>3
      <3> QED BY <1>0, <3>1, <3>5, <3>6, <3>7, <3>8
    <2>5. h[Nd] = -s.coarse[Nd] /\ h[0] = 0 /\ s.coarse[Nd] \in Int
      BY <1>0
    <2>6. thick[NdVar] = s.dz[NdVar] - D /\ \A k \in Layer : k # NdVar => thick[k] = s.dz[k]
      BY <1>0
    <2> HIDE DEF thick, mass, h
    <2>7. Sum(mass) = Sum(s.coarse) - s.coarse[Nd]
      <3>1. Sum(mass) = Sum(s.coarse) + h[Nd] - h[0]
        BY <1>0, <2>3, <2>4, LayersExchange
      <3> QED BY <1>1, <2>5, <3>1
    <2> DEFINE u == Split(s, part)
    <2>8. /\ u \in Stacks /\ u.dz = thick /\ u.coarse = mass
          /\ u.z0bed = s.z0bed + D /\ u.below = s.below - s.coarse[Nd]
      <3>1. s.z0bed + D \in Int /\ s.below - s.coarse[Nd] \in Int
        BY <1>0, <2>5
      <3> QED BY <2>1, <2>2, <2>3, <3>1 DEF Stacks
    <2> HIDE DEF u
    <2>9. u.z0bed + Sum(u.dz) = s.z0bed + Sum(s.dz)
      BY <1>0, <1>1, <2>2, <2>8
    <2>10. Sum(u.coarse) - u.below = Sum(s.coarse) - s.below
      BY <1>0, <1>1, <2>5, <2>7, <2>8
    <2>11. SameSand(s, u)
      BY <2>6, <2>8, <2>9, <2>10 DEF SameSand
    <2>12. u.dz[NdVar] = s.dz[NdVar] - D
      BY <2>6, <2>8
    <2> QED BY <1>3, <2>11, <2>12 DEF u
  <1> QED BY <1>2, <1>3
-----------------------------------------------------------------------------
(* One pass of the loop *)

\* The layers after the erosion at the top, before they merge or split.
Taken(all, part, up) ==
    Stack([dz EXCEPT ![NdVar] = @ - all], [k \in Layer |-> Moved(k, part, up)], z0bed, below)

LEMMA TakenTakes ==
    ASSUME Typed, NEW all \in Int, NEW part \in Int, NEW up \in [Layer -> Int]
    PROVE  LET s == Taken(all, part, up) IN
           /\ s \in Stacks /\ s.z0bed = z0bed /\ s.below = below
           /\ \A k \in Layer : k # NdVar => s.dz[k] = dz[k]
           /\ s.dz[NdVar] = dz[NdVar] - all
           /\ Sum(s.dz) = Sum(dz) - all
           /\ Sum(s.coarse) = Sum(coarse) - part
  <1> DEFINE x == dz[NdVar] - all
             mass == [k \in Layer |-> Moved(k, part, up)]
             thick == [dz EXCEPT ![NdVar] = x]
             s == Taken(all, part, up)
  <1>0. NdVar \in Layer /\ dz \in [Layer -> Int] /\ z0bed \in Int /\ below \in Int
    BY LayersAssumption DEF Layer, Typed
  <1>1. dz[NdVar] \in Int /\ x \in Int
    BY <1>0
  <1>2. mass \in [Layer -> Int] /\ Sum(mass) = Sum(coarse) - part
    BY MovedKeepsMass
  <1>3. thick \in [Layer -> Int] /\ thick[NdVar] = x /\ \A k \in Layer : k # NdVar => thick[k] = dz[k]
    BY <1>0, <1>1
  <1>4. s = [dz |-> thick, coarse |-> mass, z0bed |-> z0bed, below |-> below]
    BY DEF Taken, Stack
  <1>5. Sum(thick) = Sum(dz) - all
    <2>1. Sum(dz) \in Int
      BY <1>0, SumOfLayers
    <2> HIDE DEF x
    <2>2. Sum(thick) = Sum(dz) + x - dz[NdVar]
      BY <1>0, <1>1, LayerChanged
    <2> QED BY <1>1, <2>1, <2>2 DEF x
  <1> HIDE DEF thick, mass, s
  <1>6. s \in Stacks
    BY <1>0, <1>2, <1>3, <1>4 DEF Stacks
  <1>7. s.dz = thick /\ s.coarse = mass /\ s.z0bed = z0bed /\ s.below = below
    BY <1>4
  <1>8. Sum(s.dz) = Sum(dz) - all /\ Sum(s.coarse) = Sum(coarse) - part
    BY <1>2, <1>5, <1>7
  <1> QED BY <1>3, <1>6, <1>7, <1>8 DEF s

\* Layers that merge and split after a pass keep what it left, and the
\* variable layer between nothing and the threshold.
LEMMA PassKeepsSand ==
    ASSUME Typed, NEW all \in Int, NEW part \in Int, NEW up \in [Layer -> Int],
           NEW split \in Int
    PROVE  LET s == Split(Merge(Taken(all, part, up)), split) IN
           /\ s \in Stacks
           /\ \A k \in Layer : k # NdVar => s.dz[k] = dz[k]
           /\ s.z0bed + Sum(s.dz) = z0bed + Sum(dz) - all
           /\ Sum(s.coarse) = Sum(coarse) - part + (s.below - below)
           /\ dz[NdVar] - all \in 0..(SplitAt + FracDz) => s.dz[NdVar] \in 1..SplitAt
  <1> DEFINE t == Taken(all, part, up)
             m == Merge(t)
             s == Split(m, split)
  <1>1. /\ t \in Stacks /\ t.z0bed = z0bed /\ t.below = below
        /\ \A k \in Layer : k # NdVar => t.dz[k] = dz[k]
        /\ t.dz[NdVar] = dz[NdVar] - all
        /\ Sum(t.dz) = Sum(dz) - all
        /\ Sum(t.coarse) = Sum(coarse) - part
    BY TakenTakes
  <1> HIDE DEF t
  <1>2. /\ SameSand(t, m)
        /\ m.dz[NdVar] = IF t.dz[NdVar] >= MergeAt THEN t.dz[NdVar] ELSE t.dz[NdVar] + D
    BY <1>1, MergeKeepsSand
  <1>3. m \in Stacks
    BY <1>2 DEF SameSand
  <1> HIDE DEF m
  <1>4. /\ SameSand(m, s)
        /\ s.dz[NdVar] = IF m.dz[NdVar] <= SplitAt THEN m.dz[NdVar] ELSE m.dz[NdVar] - D
    BY <1>3, SplitKeepsSand
  <1> HIDE DEF s
  <1>5. /\ s \in Stacks
        /\ \A k \in Layer : k # NdVar => s.dz[k] = dz[k]
        /\ s.z0bed + Sum(s.dz) = t.z0bed + Sum(t.dz)
        /\ Sum(s.coarse) - s.below = Sum(t.coarse) - t.below
    BY <1>1, <1>2, <1>4 DEF SameSand
  <1>6. /\ z0bed \in Int /\ below \in Int /\ Sum(dz) \in Int /\ Sum(coarse) \in Int
        /\ s.below \in Int /\ s.z0bed \in Int /\ Sum(s.dz) \in Int /\ Sum(s.coarse) \in Int
    BY <1>5, SumOfLayers DEF Typed, Stacks
  <1>7. s.z0bed + Sum(s.dz) = z0bed + Sum(dz) - all
    BY <1>1, <1>5, <1>6
  <1>8. Sum(s.coarse) = Sum(coarse) - part + (s.below - below)
    BY <1>1, <1>5, <1>6
  <1>9. ASSUME dz[NdVar] - all \in 0..(SplitAt + FracDz) PROVE s.dz[NdVar] \in 1..SplitAt
    <2>1. t.dz[NdVar] \in 0..(SplitAt + FracDz)
      BY <1>1, <1>9
    <2> DEFINE x == t.dz[NdVar]
    <2> HIDE DEF x
    <2>2. /\ x \in Int /\ 0 <= x /\ x <= SplitAt + FracDz
          /\ D \in Int /\ SplitAt \in Int /\ MergeAt \in Int /\ FracDz \in Int
          /\ FracDz <= D /\ 1 <= MergeAt /\ MergeAt <= D /\ D <= SplitAt
      BY <2>1, LayersAssumption DEF x
    <2>3. CASE x >= MergeAt
      BY <1>2, <1>4, <2>2, <2>3 DEF x
    <2>4. CASE ~(x >= MergeAt)
      BY <1>2, <1>4, <2>2, <2>4 DEF x
    <2> QED BY <2>3, <2>4
  <1> QED BY <1>5, <1>7, <1>8, <1>9 DEF s, m, t
-----------------------------------------------------------------------------
(* The invariant *)

LEMMA InitIInv == Init => IInv
  <1> SUFFICES ASSUME Init PROVE IInv
    OBVIOUS
  <1> USE DEF Init
  <1>0. /\ NdVar \in Layer /\ \A k \in Layer : Thickness(k) \in Nat \ {0}
        /\ Thickness(NdVar) = Start /\ Start \in 1..SplitAt
    BY LayersAssumption DEF Layer, Thickness
  <1>1. dz \in [Layer -> Int] /\ coarse \in [Layer -> Int] /\ \A k \in Layer : coarse[k] \in 0..dz[k]
    <2>1. coarse \in [Layer -> Nat]
      BY LayersAssumption
    <2> QED BY <1>0, <2>1
  <1>2. Sum(dz) \in Int /\ Sum(coarse) \in Int
    BY <1>1, SumOfLayers
  <1>3. Typed
    <2>1. change \in [coarse : Int, all : Int]
      BY DEF NoChange
    <2>2. asked \in [coarse : Int, all : Int]
      BY <1>2
    <2>3. z0bed \in Int /\ below \in Int /\ dzb_loc \in Int
      BY SMT
    <2>4. repeated \in BOOLEAN /\ clipped \in BOOLEAN
      BY Zenon
    <2> HIDE DEF Init
    <2> QED BY <1>1, <2>1, <2>2, <2>3, <2>4 DEF Typed
  <1>4. TypeOK
    <2>1. MaxCalls \in Nat /\ MaxSubsteps \in Nat
      BY LayersAssumption
    <2> QED BY <1>1, <2>1 DEF TypeOK
  <1>5. Level /\ Mass /\ Single
    BY <1>2 DEF Level, Mass, Single, Owed, NoChange, zb
  <1>6. VariableLayerBounded
    BY <1>0 DEF VariableLayerBounded
  <1> QED BY <1>3, <1>4, <1>5, <1>6 DEF IInv

LEMMA CallIInv == IInv /\ Call => IInv'
  <1> SUFFICES ASSUME IInv, Call PROVE IInv'
    OBVIOUS
  <1> USE DEF Call, bedVars
  <1>1. /\ change' \in [coarse : Int, all : Int \ {0}]
        /\ asked \in [coarse : Int, all : Int] /\ change \in [coarse : Int, all : Int]
    BY LayersAssumption DEF IInv, Typed
  <1>2. Typed'
    <2>1. change' \in [coarse : Int, all : Int] /\ dzb_loc' \in Int
      BY <1>1
    <2>2. asked' \in [coarse : Int, all : Int]
      BY <1>1
    <2> QED BY <2>1, <2>2 DEF IInv, Typed
  <1>3. TypeOK'
    <2>1. calls' \in 0..MaxCalls /\ substeps' \in 0..MaxSubsteps
      BY LayersAssumption DEF IInv, TypeOK
    <2> QED BY <2>1 DEF IInv, TypeOK
  <1>4. ASSUME ~repeated' PROVE Level' /\ Mass' /\ Single'
    <2>1. Level /\ Mass /\ Owed = NoChange
      BY <1>4 DEF IInv, Owed
    <2>2. Owed' = change' /\ zb' = zb /\ Sum(coarse)' = Sum(coarse)
      BY <1>1 DEF Owed, zb
    <2>3. Level'
      BY <1>1, <2>1, <2>2 DEF Level, NoChange
    <2>4. Mass'
      <3>1. below \in Int
        BY DEF IInv, Typed
      <3> QED BY <1>1, <2>1, <2>2, <3>1 DEF Mass, NoChange
    <2>5. Single'
      BY DEF Single
    <2> QED BY <2>3, <2>4, <2>5
  <1>5. VariableLayerBounded'
    BY DEF IInv, VariableLayerBounded
  <1> QED BY <1>2, <1>3, <1>4, <1>5 DEF IInv

LEMMA SubstepIInv == IInv /\ Substep => IInv'
  <1> SUFFICES ASSUME IInv, Substep PROVE IInv'
    OBVIOUS
  <1> DEFINE dzbt == Limited(dzb_loc)
  <1>0. Typed /\ dzb_loc \in Int /\ dzb_loc # 0 /\ pc = "loop" /\ pc' = "loop"
    BY DEF IInv, Typed, Substep
  <1>1. dzbt \in Int /\ (dzbt <= dz[NdVar] \/ dzbt = -FracDz) /\ dzbt >= -FracDz
    BY <1>0, LimitedIsInt
  <1>2. change.all \in Int /\ change.coarse \in Int /\ change \in [coarse : Int, all : Int]
    BY <1>0 DEF Typed
  <1>3. PICK all \in Quotients(change.all, dzbt, dzb_loc),
             part \in Quotients(change.coarse, dzbt, dzb_loc) :
          \E up \in [Layer -> UNION {Rising(k, all) : k \in Layer}] :
            /\ \A k \in Layer : up[k] \in Rising(k, all)
            /\ \E split \in SplitParts(Merge(Taken(all, part, up))) :
                 LET s == Split(Merge(Taken(all, part, up)), split) IN
                 /\ dz' = s.dz /\ coarse' = s.coarse
                 /\ z0bed' = s.z0bed /\ below' = s.below
            /\ dzb_loc' = dzb_loc - dzbt
    BY DEF Substep, Taken
  <1>4. all \in Int /\ part \in Int
    BY <1>0, <1>1, <1>2, QuotientsAreInts
  <1>5. PICK up \in [Layer -> UNION {Rising(k, all) : k \in Layer}] :
            /\ \A k \in Layer : up[k] \in Rising(k, all)
            /\ \E split \in SplitParts(Merge(Taken(all, part, up))) :
                 LET s == Split(Merge(Taken(all, part, up)), split) IN
                 /\ dz' = s.dz /\ coarse' = s.coarse
                 /\ z0bed' = s.z0bed /\ below' = s.below
            /\ dzb_loc' = dzb_loc - dzbt
    BY <1>3
  <1>6. up \in [Layer -> Int]
    BY <1>0, <1>4, <1>5, RisingAreInts
  <1> DEFINE new == Merge(Taken(all, part, up))
  <1>7. PICK split \in SplitParts(new) :
                 LET s == Split(new, split) IN
                 /\ dz' = s.dz /\ coarse' = s.coarse
                 /\ z0bed' = s.z0bed /\ below' = s.below
    BY <1>5
  <1>8. split \in Int
    <2>1. Taken(all, part, up) \in Stacks
      BY <1>0, <1>4, <1>6, TakenTakes
    <2>2. new \in Stacks
      BY <2>1, MergeKeepsSand DEF SameSand
    <2> HIDE DEF new
    <2>3. NdVar \in Layer /\ D \in Int /\ SplitAt \in Nat
      BY LayersAssumption DEF Layer
    <2>4. new.dz[NdVar] \in Int /\ new.coarse[NdVar] \in Int
      BY <2>2, <2>3 DEF Stacks
    <2>5. CASE new.dz[NdVar] <= SplitAt
      BY <1>7, <2>5 DEF SplitParts
    <2>6. CASE ~(new.dz[NdVar] <= SplitAt)
      <3>1. new.dz[NdVar] # 0
        BY <2>3, <2>4, <2>6
      <3>2. Quotients(D, new.coarse[NdVar], new.dz[NdVar]) \subseteq Int
        BY <2>3, <2>4, <3>1, QuotientsAreInts
      <3> QED BY <1>7, <2>6, <3>2 DEF SplitParts
    <2> QED BY <2>5, <2>6
  <1> DEFINE s == Split(new, split)
  <1>9. /\ s \in Stacks
        /\ \A k \in Layer : k # NdVar => s.dz[k] = dz[k]
        /\ s.z0bed + Sum(s.dz) = z0bed + Sum(dz) - all
        /\ Sum(s.coarse) = Sum(coarse) - part + (s.below - below)
        /\ dz[NdVar] - all \in 0..(SplitAt + FracDz) => s.dz[NdVar] \in 1..SplitAt
    BY <1>0, <1>4, <1>6, <1>8, PassKeepsSand
  <1>10. dz' = s.dz /\ coarse' = s.coarse /\ z0bed' = s.z0bed /\ below' = s.below
    BY <1>7
  <1>11. dzb_loc' = dzb_loc - dzbt
    BY <1>5
  <1> HIDE DEF s, new, dzbt
  <1>12. /\ UNCHANGED <<change, asked, clipped, pc, calls>> /\ substeps' = substeps + 1
         /\ substeps < MaxSubsteps /\ repeated' = (repeated \/ dzb_loc' # 0)
    BY DEF Substep
  <1>13. Typed'
    <2>1. dz' \in [Layer -> Int] /\ coarse' \in [Layer -> Int] /\ z0bed' \in Int /\ below' \in Int
      BY <1>9, <1>10 DEF Stacks
    <2>2. dzb_loc' \in Int
      BY <1>0, <1>1, <1>11
    <2> QED BY <1>0, <1>12, <2>1, <2>2 DEF Typed
  <1>14. TypeOK'
    <2>1. substeps' \in 0..MaxSubsteps
      BY <1>12, LayersAssumption DEF IInv, TypeOK
    <2>2. \A k \in Layer : k # NdVar => dz'[k] = Thickness(k)
      BY <1>9, <1>10 DEF IInv, TypeOK
    <2> QED BY <1>0, <1>12, <2>1, <2>2 DEF IInv, TypeOK
  <1>15. ASSUME ~repeated'
         PROVE  /\ ~repeated /\ dzb_loc' = 0 /\ dzbt = dzb_loc /\ dzb_loc = change.all
                /\ all = change.all /\ part = change.coarse
    <2>1. ~repeated /\ dzb_loc' = 0
      BY <1>12, <1>15
    <2>2. dzbt = dzb_loc
      BY <1>0, <1>1, <1>11, <2>1
    <2>3. dzb_loc = change.all
      BY <1>0, <2>1 DEF IInv, Single
    <2>4. all \in {change.all} /\ part \in {change.coarse}
      BY <1>0, <1>2, <1>3, <2>2, QuotientOfAll
    <2> QED BY <2>1, <2>2, <2>3, <2>4
  <1>16. ASSUME ~repeated' PROVE Level' /\ Mass' /\ Single'
    <2>1. Level /\ Mass /\ Owed = change
      BY <1>0, <1>15, <1>16 DEF IInv, Owed
    <2>2. Owed' = NoChange
      BY <1>15, <1>16 DEF Owed
    <2>3. zb' = s.z0bed + Sum(s.dz) /\ Sum(coarse)' = Sum(s.coarse)
      BY <1>10 DEF zb
    <2>4. /\ z0bed \in Int /\ below \in Int /\ s.below \in Int
          /\ Sum(dz) \in Int /\ Sum(coarse) \in Int
          /\ asked.all \in Int /\ asked.coarse \in Int
      BY <1>0, <1>9, SumOfLayers DEF Typed, Stacks
    <2>5. Level'
      <3>1. zb = asked.all + change.all
        BY <2>1 DEF Level
      <3>2. zb' = zb - change.all
        <4>1. s.z0bed + Sum(s.dz) = z0bed + Sum(dz) - change.all
          BY <1>9, <1>15, <1>16
        <4> QED BY <1>2, <2>3, <2>4, <4>1 DEF zb
      <3>3. zb' = asked.all
        BY <1>2, <2>4, <3>1, <3>2
      <3> QED BY <1>12, <2>2, <2>4, <3>3 DEF Level, NoChange
    <2>6. Mass'
      <3> SUFFICES ASSUME ~clipped' PROVE Sum(coarse)' = (asked.coarse + Owed.coarse + below)'
        BY DEF Mass
      <3>1. Sum(coarse) = asked.coarse + change.coarse + below
        BY <1>12, <2>1 DEF Mass
      <3>2. Sum(coarse)' = Sum(coarse) - change.coarse + (s.below - below)
        BY <1>9, <1>15, <1>16, <2>3
      <3>3. Sum(coarse)' = asked.coarse + s.below
        BY <1>2, <2>4, <3>1, <3>2
      <3> QED BY <1>10, <1>12, <2>2, <2>4, <3>3 DEF NoChange
    <2>7. Single'
      BY <1>15, <1>16 DEF Single
    <2> QED BY <2>5, <2>6, <2>7
  <1>17. VariableLayerBounded'
    <2> SUFFICES ASSUME ~repeated' PROVE dz'[NdVar] \in 1..SplitAt
      BY DEF VariableLayerBounded
    <2>1. dz[NdVar] \in 1..SplitAt
      BY <1>15 DEF IInv, VariableLayerBounded
    <2>2. all = dzbt
      BY <1>15
    <2>3. dz[NdVar] - all \in 0..(SplitAt + FracDz)
      BY <1>1, <2>1, <2>2, LayersAssumption
    <2> QED BY <1>9, <1>10, <2>3
  <1>18. pc' # "idle"
    BY <1>0
  <1> QED BY <1>13, <1>14, <1>16, <1>17, <1>18 DEF IInv

LEMMA ReturnIInv == IInv /\ Return => IInv'
  <1> SUFFICES ASSUME IInv, Return PROVE IInv'
    OBVIOUS
  <1> USE DEF Return
  <1>1. /\ dz \in [Layer -> Int] /\ coarse \in [Layer -> Int]
        /\ dz' = dz /\ z0bed' = z0bed /\ asked' = asked /\ below' = below
        /\ repeated' = repeated /\ dzb_loc' = 0
    BY DEF IInv, Typed
  <1>2. ASSUME NEW k \in Layer
        PROVE  coarse'[k] \in Int /\ (dz[k] >= 0 => coarse'[k] \in 0..dz[k])
    <2>1. dz[k] \in Int /\ coarse[k] \in Int
      BY <1>1
    <2> QED BY <2>1 DEF Clip
  <1>3. coarse' \in [Layer -> Int]
    <2>1. coarse' = [k \in Layer |-> coarse'[k]]
      OBVIOUS
    <2> QED BY <1>2, <2>1
  <1>4. Typed'
    <2>1. change' \in [coarse : Int, all : Int]
      BY DEF NoChange
    <2> QED BY <1>1, <1>3, <2>1 DEF IInv, Typed
  <1>5. TypeOK'
    <2>1. dz'[NdVar] >= 0 => \A k \in Layer : coarse'[k] \in 0..dz'[k]
      <3> SUFFICES ASSUME dz[NdVar] >= 0, NEW k \in Layer PROVE coarse'[k] \in 0..dz[k]
        BY <1>1
      <3>1. dz[k] >= 0
        <4>1. k # NdVar => dz[k] = Thickness(k) /\ Thickness(k) \in Nat
          BY LayersAssumption DEF IInv, TypeOK, Thickness
        <4> QED BY <4>1
      <3> QED BY <1>2, <3>1
    <2>2. substeps' \in 0..MaxSubsteps
      BY LayersAssumption
    <2> QED BY <2>1, <2>2 DEF IInv, TypeOK
  <1>6. ASSUME ~repeated' PROVE Level' /\ Mass' /\ Single'
    <2>1. Level /\ Mass /\ Owed = NoChange
      BY <1>6 DEF IInv, Owed
    <2>2. Owed' = NoChange /\ zb' = zb
      BY DEF Owed, zb
    <2>3. Mass'
      <3> SUFFICES ASSUME ~clipped' PROVE Sum(coarse)' = (asked.coarse + Owed.coarse + below)'
        BY DEF Mass
      <3>1. ~clipped /\ coarse' = coarse
        OBVIOUS
      <3>2. Sum(coarse)' = Sum(coarse)
        BY <3>1
      <3> QED BY <2>1, <2>2, <3>1, <3>2 DEF Mass
    <2>4. Level' /\ Single'
      BY <2>1, <2>2 DEF Level, Single
    <2> QED BY <2>3, <2>4
  <1>7. VariableLayerBounded'
    BY DEF IInv, VariableLayerBounded
  <1> QED BY <1>1, <1>4, <1>5, <1>6, <1>7 DEF IInv

LEMMA NextIInv == IInv /\ [Next]_vars => IInv'
  <1> SUFFICES ASSUME IInv, [Next]_vars PROVE IInv'
    OBVIOUS
  <1>1. CASE Call
    BY <1>1, CallIInv
  <1>2. CASE Substep
    BY <1>2, SubstepIInv
  <1>3. CASE Return
    BY <1>3, ReturnIInv
  <1>4. CASE UNCHANGED vars
    <2> USE <1>4 DEF vars, bedVars, callVars, ghosts
    <2>1. Typed' /\ TypeOK'
      BY DEF IInv, Typed, TypeOK
    <2>2. Level' = Level /\ Mass' = Mass /\ Single' = Single
      BY DEF Level, Mass, Single, Owed, zb
    <2>3. VariableLayerBounded'
      BY DEF IInv, VariableLayerBounded
    <2> QED BY <2>1, <2>2, <2>3 DEF IInv
  <1> QED BY <1>1, <1>2, <1>3, <1>4 DEF Next

LEMMA Invariant == Spec => []IInv
  BY InitIInv, NextIInv, PTL DEF Spec
-----------------------------------------------------------------------------
(* The theorems *)

\* Only the variable layer changes its thickness, and after every call the
\* fractions of all layers lie between nothing and all of the layer.
THEOREM LayersTypes == Spec => []TypeOK
  <1>1. IInv => TypeOK
    BY DEF IInv
  <1> QED BY <1>1, Invariant, PTL

\* The surface of the bed is where the changes asked for put it, whatever the
\* layers below it did, as long as every change fits into one pass.
THEOREM SurfaceFollows == Spec => []BedFollows
  <1>1. IInv => BedFollows
    <2> SUFFICES ASSUME IInv, ~repeated, pc = "idle" PROVE zb = asked.all
      BY DEF BedFollows, BedFollowsChange
    <2>1. Level /\ Owed = NoChange /\ asked.all \in Int
      BY DEF IInv, Owed, Typed
    <2> QED BY <2>1 DEF Level, NoChange
  <1> QED BY <1>1, Invariant, PTL

\* Sand of a fraction is neither made nor lost by the exchange between the
\* layers, however the shares are rounded.
THEOREM FractionsStay == Spec => []FractionsKept
  <1>1. IInv => FractionsKept
    <2> SUFFICES ASSUME IInv, pc = "idle", ~repeated, ~clipped
                 PROVE  Sum(coarse) = asked.coarse + below
      BY DEF FractionsKept
    <2>1. Mass /\ Owed = NoChange /\ asked.coarse \in Int
      BY DEF IInv, Owed, Typed
    <2> QED BY <2>1 DEF Mass, NoChange
  <1> QED BY <1>1, Invariant, PTL

\* The variable layer never runs empty and never grows over the threshold at
\* which it is split.
THEOREM VariableLayerStays == Spec => []VariableLayerBounded
  <1>1. IInv => VariableLayerBounded
    BY DEF IInv
  <1> QED BY <1>1, Invariant, PTL
=============================================================================
