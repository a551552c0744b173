----------------------------- MODULE Avalanche -----------------------------
(***************************************************************************)
(* Avalanching of a cross-shore profile of one sand fraction: the loop of  *)
(* bed_update in morphevolution.F90 that moves sand down slopes that are   *)
(* too steep, on one process or on several.                                *)
(*                                                                         *)
(* A process has the cells of its own part and two more at a border, the   *)
(* halo, and sweeps through all of them.  Levels are integers, cells are   *)
(* one unit wide, so that a slope is a difference of levels.               *)
(*                                                                         *)
(* With short-wave run-up (swrunup) a slope is judged by how far the water *)
(* runs up, which every process has from hybrid for its own part only.     *)
(***************************************************************************)
EXTENDS Integers, FiniteSets, FiniteSetsExt

CONSTANTS Proc,              \* the processes
          Cell,              \* the cells 1..nx+1 of the whole grid
          First, Last,       \* the cells a process has, halo included
          Owner,             \* the process whose part a cell is
          Beds,              \* bed levels and sand thicknesses to start from
          Waters,            \* depths and run-up to start from
          Hswitch,           \* par%hswitch
          WetSlope, DrySlope,  \* par%wetslp, par%dryslp
          StructSlope,       \* 0.03, beyond the toe of a revetment
          MaxMove,           \* par%dzmax * par%dt / dsu
          Eps,               \* par%eps
          Iterations         \* nint(par%morfac)

Local(p) == First[p]..Last[p]

ASSUME PartsAssumption ==
    /\ IsFiniteSet(Cell) /\ Cell \subseteq Nat /\ Cell = 1..Cardinality(Cell)
    /\ First \in [Proc -> Cell] /\ Last \in [Proc -> Cell]
    /\ \A p \in Proc : Local(p) \subseteq Cell
    /\ Owner \in [Cell -> Proc] /\ \A c \in Cell : c \in Local(Owner[c])
    (* the halo is wide enough: the owners of two neighbours both sweep them *)
    /\ \A c \in Cell : (c > 1 /\ c + 1 \in Cell) =>
          \A p \in {Owner[c], Owner[c + 1]} : First[p] < c /\ c < Last[p]

ASSUME BedAssumption ==
    /\ Beds \subseteq [level : [Cell -> Int], sand : [Cell -> Nat]]
    /\ WetSlope \in Nat /\ DrySlope \in Nat /\ StructSlope \in Nat
    /\ MaxMove \in Nat /\ Eps \in Nat /\ Hswitch \in Nat /\ Iterations \in Nat \ {0}

\* depth is s%hh, wet the cells that had s%wetz before the flow of the time step
\* was computed.  runup, the water line iwl and the toe istruct are what hybrid
\* has found in the part of each process, numbered as in the whole grid.  Until
\* a process has had a dry cell behind a wet one, istruct is beyond its cells
\* and iwl, which nothing has set yet, may be any cell.
ASSUME WaterAssumption ==
    /\ Waters \subseteq [swrunup : BOOLEAN, depth : [Cell -> Nat], wet : SUBSET Cell,
                         runup : [Proc -> Int], iwl : [Proc -> Cell], istruct : [Proc -> Nat]]
    /\ \A w \in Waters, p \in Proc :
          /\ w.iwl[p] \in Local(p)
          /\ ~w.swrunup => w.istruct[p] >= Last[p]

VARIABLES zb,           \* bed level, on each process
          zs,           \* water level, on each process
          structdepth,  \* sand above the hard layer, on each process
          dzbdx,        \* slopes at the beginning of the iteration
          hav,          \* water depths at the beginning of the iteration
          i,            \* where the sweep of a process is
          n_aval,       \* slides of a process in this iteration
          ii,           \* iterations
          pc,
          bed,          \* the bed the loop started from
          water         \* and the water

vars == <<zb, zs, structdepth, dzbdx, hav, i, n_aval, ii, pc, bed, water>>

Init ==
    /\ bed \in Beds /\ water \in Waters
    /\ zb = [p \in Proc |-> [c \in Local(p) |-> bed.level[c]]]
    /\ zs = [p \in Proc |-> [c \in Local(p) |-> bed.level[c] + water.depth[c]]]
    /\ structdepth = [p \in Proc |-> [c \in Local(p) |-> bed.sand[c]]]
    /\ dzbdx = [p \in Proc |-> [c \in Local(p) |-> 0]]
    /\ hav = [p \in Proc |-> [c \in Local(p) |-> water.depth[c]]]
    /\ i = [p \in Proc |-> 0] /\ n_aval = [p \in Proc |-> 0]
    /\ ii = 1
    /\ pc = [p \in Proc |-> "slopes"]
-----------------------------------------------------------------------------
Abs(x) == IF x >= 0 THEN x ELSE -x
Smaller(a, b) == IF a <= b THEN a ELSE b
Larger(a, b) == IF a >= b THEN a ELSE b

\* How far up the water runs, and which cells are behind the first one that
\* stands out of it.
RunupLevel(p) == water.runup[p] + zs[p][water.iwl[p]]

Hinterland(p, c) == \E x \in First[p]..c : RunupLevel(p) < zb[p][x] + Eps

\* The water depth a process sees in a cell.
Hav(p, c) ==
    IF ~water.swrunup THEN water.depth[c]
    ELSE IF c \in water.wet THEN Larger(Eps, water.depth[c] + water.runup[p])
    ELSE IF ~Hinterland(p, c) THEN Larger(Eps, RunupLevel(p) - zb[p][c])
    ELSE Eps

\* Mutant of FirstPair: the sweep takes the boundary cell along.
FirstPairOfAll(p) == First[p]

FirstPair(p) == First[p] + 1                    \* i = 2

\* All slopes and depths are computed before any sand moves.
Slopes(p) ==
    /\ pc[p] = "slopes"
    /\ dzbdx' = [dzbdx EXCEPT ![p] = [c \in Local(p) |->
                     IF c < Last[p] THEN zb[p][c + 1] - zb[p][c] ELSE 0]]
    /\ hav' = [hav EXCEPT ![p] = [c \in Local(p) |-> Hav(p, c)]]
    /\ n_aval' = [n_aval EXCEPT ![p] = 0]
    /\ i' = [i EXCEPT ![p] = FirstPair(p)]
    /\ pc' = [pc EXCEPT ![p] = "sweep"]
    /\ UNCHANGED <<zb, zs, structdepth, ii, bed, water>>

\* dzmax, the steepest slope between c and c + 1 that stands in so much water.
\* Beyond the toe of a revetment it follows the slope, 0.99 of it.
Dzmax(p, c, slope, depth) ==
    IF depth <= Hswitch + Eps THEN DrySlope
    ELSE IF c > water.istruct[p] THEN Larger(StructSlope, (99 * Abs(slope)) \div 100)
    ELSE WetSlope

Threshold(p, c) == Dzmax(p, c, dzbdx[p][c], Larger(hav[p][c], hav[p][c + 1]))

\* Sand leaves the higher of two neighbours for the lower one.
Higher(p, c) == IF dzbdx[p][c] >= 0 THEN c + 1 ELSE c
Lower(p, c)  == IF dzbdx[p][c] >= 0 THEN c ELSE c + 1

Steep(p, c) ==
    /\ Abs(dzbdx[p][c]) > Threshold(p, c)
    /\ structdepth[p][Higher(p, c)] > Eps

\* Mutant of Moved: the hard layer does not limit the slide.
MovedFreely(p, c) == Smaller(Abs(dzbdx[p][c]) - Threshold(p, c), MaxMove)

\* No more than a step may move, no more than there is.
Moved(p, c) ==
    Smaller(Smaller(Abs(dzbdx[p][c]) - Threshold(p, c), MaxMove),
            structdepth[p][Higher(p, c)])

\* Mutant of Gain: the cell below gets a bit more than the one above loses.
GainMore(p, c, x) ==
    IF x = Lower(p, c) THEN Moved(p, c) + 1
    ELSE IF x = Higher(p, c) THEN -Moved(p, c) ELSE 0

\* What a cell gains when the pair c, c + 1 slides.
Gain(p, c, x) ==
    IF x = Lower(p, c) THEN Moved(p, c)
    ELSE IF x = Higher(p, c) THEN -Moved(p, c) ELSE 0

AtLeastZero(x) == IF x >= 0 THEN x ELSE 0

Slide(p, c) ==
    /\ zb' = [zb EXCEPT ![p] = [x \in Local(p) |-> @[x] + Gain(p, c, x)]]
    /\ zs' = [zs EXCEPT ![p] = [x \in Local(p) |-> @[x] + Gain(p, c, x)]]
    /\ structdepth' = [structdepth EXCEPT ![p] =
                          [x \in Local(p) |-> AtLeastZero(@[x] + Gain(p, c, x))]]
    /\ n_aval' = [n_aval EXCEPT ![p] = @ + 1]

\* One pair of neighbours of the sweep i = 2..nx.
Visit(p) ==
    /\ pc[p] = "sweep" /\ i[p] < Last[p]
    /\ IF Steep(p, i[p]) THEN Slide(p, i[p])
       ELSE UNCHANGED <<zb, zs, structdepth, n_aval>>
    /\ i' = [i EXCEPT ![p] = @ + 1]
    /\ UNCHANGED <<dzbdx, hav, ii, pc, bed, water>>

SweepDone(p) ==
    /\ pc[p] = "sweep" /\ i[p] >= Last[p]
    /\ pc' = [pc EXCEPT ![p] = "reduce"]
    /\ UNCHANGED <<zb, zs, structdepth, dzbdx, hav, i, n_aval, ii, bed, water>>

\* Mutant of HaloRefreshed: no exchange.
HaloStale == zb

\* xmpi_shift_ee(zb): the halo gets the level of the owner, but not its sand
\* and not its water level.
HaloRefreshed ==
    [p \in Proc |-> [c \in Local(p) |-> zb[Owner[c]][c]]]

\* Mutant of Slides: every process looks at its own slides only.
SlidesHere(p) == n_aval[p]

Slides(p) == MapThenSumSet(LAMBDA q : n_aval[q], Proc)

\* The sum of n_aval over all processes decides for all of them, so that all
\* take part in the next exchange.  Another exchange follows the loop.
Reduce ==
    /\ \A p \in Proc : pc[p] = "reduce"
    /\ zb' = HaloRefreshed
    /\ pc' = [p \in Proc |-> IF Slides(p) > 0 /\ ii < Iterations THEN "slopes" ELSE "done"]
    /\ ii' = ii + 1
    /\ UNCHANGED <<zs, structdepth, dzbdx, hav, i, n_aval, bed, water>>

Process(p) == Slopes(p) \/ Visit(p) \/ SweepDone(p)

Next == Reduce \/ \E p \in Proc : Process(p)

Spec == Init /\ [][Next]_vars

\* Every process runs on, and the collective calls return once all are there.
FairSpec == Spec /\ WF_vars(Reduce) /\ \A p \in Proc : WF_vars(Process(p))
-----------------------------------------------------------------------------
(* Properties *)

TypeOK ==
    /\ bed \in Beds /\ water \in Waters
    /\ DOMAIN zb = Proc /\ DOMAIN zs = Proc /\ DOMAIN structdepth = Proc
    /\ DOMAIN dzbdx = Proc /\ DOMAIN hav = Proc
    /\ \A p \in Proc : /\ zb[p] \in [Local(p) -> Int]
                       /\ zs[p] \in [Local(p) -> Int]
                       /\ hav[p] \in [Local(p) -> Int]
                       /\ structdepth[p] \in [Local(p) -> Nat]
                       /\ dzbdx[p] \in [Local(p) -> Int]
    /\ i \in [Proc -> Nat] /\ n_aval \in [Proc -> Nat]
    /\ \A p \in Proc : pc[p] = "sweep" => i[p] > First[p]
    /\ ii \in Nat
    /\ pc \in [Proc -> {"slopes", "sweep", "reduce", "done"}]

\* The hard layer stays where it is: on the process that owns a cell the level
\* and the thickness of the sand change together, and the level never drops
\* below the hard layer, although structdepth in the halo goes stale and slides
\* are limited by it.
HardLayerKept ==
    \A c \in Cell :
        /\ zb[Owner[c]][c] - structdepth[Owner[c]][c] = bed.level[c] - bed.sand[c]
        /\ zb[Owner[c]][c] >= bed.level[c] - bed.sand[c]

AllAre(where) == \A p \in Proc : pc[p] = where

\* So much sand that the hard layer cannot limit a slide.
DeepSand == \A c \in Cell : bed.sand[c] > 2 * MaxMove * Iterations + Eps

Total(f) == MapThenSumSet(LAMBDA c : f[c], Cell)

\* Between two iterations, all parts put together hold the sand the bed began
\* with: what one process takes out of a cell at the border the other one puts
\* into the neighbour.  It needs deep sand: where the hard layer limits slides
\* the two may move different amounts between the same two cells.  And it needs
\* a run without short-wave run-up: with it each process has a run-up, a water
\* line and a toe of its own, and the two may judge the same slope differently.
SandKept ==
    ((AllAre("slopes") \/ AllAre("done")) /\ DeepSand /\ ~water.swrunup) =>
        Total([c \in Cell |-> zb[Owner[c]][c]]) = Total(bed.level)

\* Sand of a cell could still slide to a neighbour, by what the process that
\* has the cell holds too steep.
Unstable(c) ==
    LET here == zb[Owner[c]][c]  there == zb[Owner[c + 1]][c + 1]
        top  == IF there >= here THEN c + 1 ELSE c
        p    == Owner[top]
    IN  /\ Abs(there - here) > Dzmax(p, c, there - here, Larger(Hav(p, c), Hav(p, c + 1)))
        /\ structdepth[p][top] > Eps

\* When the loop is left because nothing slid any more, nothing can: no slope
\* on the whole grid is too steep, whichever processes its two cells are on.
StableWhenQuiet ==
    (AllAre("done") /\ \A p \in Proc : n_aval[p] = 0) =>
        \A c \in Cell : (c > 1 /\ c + 1 \in Cell) => ~Unstable(c)

\* "Dano fix for MPI": all processes leave the loop, none waits in the exchange
\* of an iteration that another one does not make.
AllLeave == <>AllAre("done")
=============================================================================
