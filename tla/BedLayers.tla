----------------------------- MODULE BedLayers -----------------------------
(***************************************************************************)
(* The layers of the bed of one cell with several sand fractions:          *)
(* update_fractions of morphevolution.F90, called by bed_update for the    *)
(* transport of a step and for every slide of an avalanche.                *)
(*                                                                         *)
(* The layers above nd_var keep their thickness, layer nd_var takes up     *)
(* what is eroded and deposited, and the layers below it have thickness D. *)
(* Thicknesses and masses are integers in the same unit, and one of two    *)
(* fractions is followed, the coarse one.  A share of a mass in proportion *)
(* to a thickness is rounded either way.                                   *)
(***************************************************************************)
EXTENDS Integers, FiniteSetsExt

CONSTANTS Nd, NdVar,        \* par%nd, par%nd_var
          Top, Start, D,    \* par%dzg1, par%dzg2, par%dzg3
          FracDz,           \* par%frac_dz * D
          MergeAt, SplitAt, \* par%merge * D, par%split * D
          Beds,             \* the coarse mass in each layer at the start
          Changes,          \* what a call may take out of the bed (or add, < 0)
          MaxCalls,         \* bound: calls of update_fractions
          MaxSubsteps       \* bound: passes of the loop in one call

Layer == 1..Nd

ASSUME LayersAssumption ==
    /\ Nd \in Nat /\ NdVar \in 2..(Nd - 1)
    /\ Top \in Nat \ {0} /\ Start \in Nat \ {0} /\ D \in Nat \ {0}
    /\ FracDz \in 1..D
    /\ MergeAt \in 1..D /\ SplitAt \in Nat /\ SplitAt >= D /\ Start <= SplitAt
    /\ Beds \subseteq [Layer -> Nat]
    /\ \A c \in Changes : c \in [coarse : Int, all : Int \ {0}]
    /\ MaxCalls \in Nat /\ MaxSubsteps \in Nat

VARIABLES dz,       \* thickness of the layers
          coarse,   \* coarse mass in the layers (pb * dz)
          z0bed,    \* level of the bottom of the layers
          change,   \* edg and dzb of the call
          dzb_loc,  \* what the loop has still to do
          pc, calls, substeps,
          (* kept for the properties only *)
          asked,    \* the changes asked for until now
          below,    \* coarse mass that came in through the bottom
          repeated, \* a call needed more than one pass of the loop
          clipped   \* a fraction was set to 0 or 1

bedVars  == <<dz, coarse, z0bed>>
callVars == <<change, dzb_loc, substeps>>
ghosts   == <<asked, below, repeated, clipped>>
vars == <<bedVars, callVars, ghosts, pc, calls>>

Thickness(k) == IF k < NdVar THEN Top ELSE IF k = NdVar THEN Start ELSE D

Sum(f) == MapThenSumSet(LAMBDA k : f[k], Layer)

NoChange == [coarse |-> 0, all |-> 0]

Init ==
    /\ dz = [k \in Layer |-> Thickness(k)]
    /\ coarse \in {b \in Beds : \A k \in Layer : b[k] <= Thickness(k)}
    /\ z0bed = 0
    /\ change = NoChange /\ dzb_loc = 0 /\ pc = "idle"
    /\ calls = 0 /\ substeps = 0
    /\ asked = [coarse |-> Sum(coarse), all |-> Sum(dz)]
    /\ below = 0 /\ repeated = FALSE /\ clipped = FALSE
-----------------------------------------------------------------------------
\* a * b / c, rounded down or up.
Quotients(a, b, c) ==
    IF c > 0 THEN {(a * b) \div c, -((-(a * b)) \div c)}
             ELSE {(-(a * b)) \div (-c), -((a * b) \div (-c))}

\* The coarse mass in a part of a layer.
Shares(k, part) == IF dz[k] <= 0 THEN {0} ELSE Quotients(part, coarse[k], dz[k])

Call ==
    /\ pc = "idle" /\ calls < MaxCalls
    /\ change' \in Changes
    /\ dzb_loc' = change'.all
    /\ pc' = "loop" /\ calls' = calls + 1 /\ substeps' = 0
    /\ asked' = [coarse |-> asked.coarse - change'.coarse, all |-> asked.all - change'.all]
    /\ UNCHANGED <<bedVars, below, repeated, clipped>>

\* dzbt: no more than the variable layer, no more than a part of the next one.
Limited(x) ==
    LET y == IF x < dz[NdVar] THEN x ELSE dz[NdVar]
    IN  IF y < -FracDz THEN -FracDz ELSE y

\* What goes up from layer k + 1 to layer k when all is taken out at the top;
\* it goes down when the bed grows.
Rising(k, all) ==
    IF k \notin 1..(NdVar - 1) THEN {0}
    ELSE IF all >= 0 THEN Shares(k + 1, all)
    ELSE {-x : x \in Shares(k, -all)}

\* Mutant of Moved: the layers pass on nothing to layer nd_var.
MovedOnTop(k, part, up) ==
    coarse[k] + (IF k < NdVar THEN up[k] ELSE 0) - (IF k = 1 THEN part ELSE 0)

\* Sm: the erosion at the top and what the neighbours exchange.
Moved(k, part, up) ==
    coarse[k] + (IF k = 1 THEN -part ELSE IF k <= NdVar THEN -up[k - 1] ELSE 0)
              + (IF k < NdVar THEN up[k] ELSE 0)

\* A layer of the bed with its thickness and coarse mass, and the bottom.
Stack(thick, mass, bottom, in) ==
    [dz |-> thick, coarse |-> mass, z0bed |-> bottom, below |-> in]

\* Mutant of Merge: only a layer that has been used up beyond its end.
MergeLate(s) ==
    IF s.dz[NdVar] >= 0 THEN s
    ELSE Stack([s.dz EXCEPT ![NdVar] = @ + D],
               [k \in Layer |->
                   IF k = NdVar THEN s.coarse[k] + s.coarse[k + 1]
                   ELSE IF k > NdVar /\ k < Nd THEN s.coarse[k + 1] ELSE s.coarse[k]],
               s.z0bed - D, s.below + s.coarse[Nd])

\* The variable layer has become too thin: it takes the next one in, the last
\* one is there twice.
Merge(s) ==
    IF s.dz[NdVar] >= MergeAt THEN s
    ELSE Stack([s.dz EXCEPT ![NdVar] = @ + D],
               [k \in Layer |->
                   IF k = NdVar THEN s.coarse[k] + s.coarse[k + 1]
                   ELSE IF k > NdVar /\ k < Nd THEN s.coarse[k + 1] ELSE s.coarse[k]],
               s.z0bed - D, s.below + s.coarse[Nd])

\* Mutant of Split: the bottom stays where it was.
SplitInPlace(s, part) ==
    IF s.dz[NdVar] <= SplitAt THEN s
    ELSE Stack([s.dz EXCEPT ![NdVar] = @ - D],
               [k \in Layer |->
                   IF k = NdVar THEN s.coarse[k] - part
                   ELSE IF k = NdVar + 1 THEN part
                   ELSE IF k > NdVar THEN s.coarse[k - 1] ELSE s.coarse[k]],
               s.z0bed, s.below - s.coarse[Nd])

\* It has become too thick: a layer of thickness D is split off, the last one
\* is left behind.
Split(s, part) ==
    IF s.dz[NdVar] <= SplitAt THEN s
    ELSE Stack([s.dz EXCEPT ![NdVar] = @ - D],
               [k \in Layer |->
                   IF k = NdVar THEN s.coarse[k] - part
                   ELSE IF k = NdVar + 1 THEN part
                   ELSE IF k > NdVar THEN s.coarse[k - 1] ELSE s.coarse[k]],
               s.z0bed + D, s.below - s.coarse[Nd])

SplitParts(s) ==
    IF s.dz[NdVar] <= SplitAt THEN {0} ELSE Quotients(D, s.coarse[NdVar], s.dz[NdVar])

\* One pass of the loop.  fac is dzbt over what is left to do, and all of edg
\* is multiplied with it.
Substep ==
    /\ pc = "loop" /\ dzb_loc # 0 /\ substeps < MaxSubsteps
    /\ LET dzbt == Limited(dzb_loc) IN
       \E all \in Quotients(change.all, dzbt, dzb_loc),
          part \in Quotients(change.coarse, dzbt, dzb_loc) :
       \E up \in [Layer -> UNION {Rising(k, all) : k \in Layer}] :
          /\ \A k \in Layer : up[k] \in Rising(k, all)
          /\ LET new == Merge(Stack([dz EXCEPT ![NdVar] = @ - all],
                                    [k \in Layer |-> Moved(k, part, up)],
                                    z0bed, below))
             IN  \E split \in SplitParts(new) :
                   LET s == Split(new, split) IN
                   /\ dz' = s.dz /\ coarse' = s.coarse
                   /\ z0bed' = s.z0bed /\ below' = s.below
          /\ dzb_loc' = dzb_loc - dzbt
    /\ substeps' = substeps + 1
    /\ repeated' = (repeated \/ dzb_loc' # 0)
    /\ UNCHANGED <<change, asked, clipped, pc, calls>>

\* Mutant of Clip: only from above.
ClipAbove(x, most) == IF x > most THEN most ELSE x

Clip(x, most) == IF x < 0 THEN 0 ELSE IF x > most THEN most ELSE x

\* pb = max(0, min(pb, 1)).
Return ==
    /\ pc = "loop" /\ dzb_loc = 0
    /\ coarse' = [k \in Layer |-> IF dz[k] < 0 THEN coarse[k] ELSE Clip(coarse[k], dz[k])]
    /\ clipped' = (clipped \/ coarse' # coarse)
    /\ change' = NoChange /\ pc' = "idle" /\ substeps' = 0
    /\ UNCHANGED <<dz, z0bed, dzb_loc, calls, asked, below, repeated>>

Next == Call \/ Substep \/ Return

Spec == Init /\ [][Next]_vars

zb == z0bed + Sum(dz)
-----------------------------------------------------------------------------
(* Properties *)

\* Only the variable layer changes its thickness, and the fractions stay
\* between nothing and all of a layer.
TypeOK ==
    /\ \A k \in Layer : k # NdVar => dz[k] = Thickness(k)
    /\ (pc = "idle" /\ dz[NdVar] >= 0) => \A k \in Layer : coarse[k] \in 0..dz[k]
    /\ pc \in {"idle", "loop"} /\ calls \in 0..MaxCalls /\ substeps \in 0..MaxSubsteps

\* The bed level follows what the calls asked for: layers that merge and split
\* move its parts, not its surface.
BedFollowsChange == pc = "idle" => zb = asked.all

\* As long as every change fits into one pass of the loop it does.
BedFollows == ~repeated => BedFollowsChange

\* Nothing of a fraction gets lost between the layers: what is in them is what
\* was there, less what the calls took out, plus what came in from below.
FractionsKept ==
    (pc = "idle" /\ ~repeated /\ ~clipped) => Sum(coarse) = asked.coarse + below

\* While changes fit into one pass the variable layer always has some sand and
\* never more than the threshold: were it empty, the next erosion would divide
\* nothing by what is left to do, for ever.
VariableLayerBounded == ~repeated => dz[NdVar] \in 1..SplitAt
=============================================================================
