---------------------------- MODULE DrifterTrack ----------------------------
(***************************************************************************)
(* What a run promises about its drifters, on however many processes: in   *)
(* every time step a released drifter goes, once, with the flow of the     *)
(* cell of the whole grid that it is in, and a drifter that has left the   *)
(* grid never comes back.                                                  *)
(***************************************************************************)
EXTENDS Integers

CONSTANTS Drifter,
          NX, NY,      \* s%nx, s%ny of the whole grid
          Unit,        \* positions count parts of a cell, Unit of them
          Window,      \* tdriftb and tdrifte of each drifter
          Starts,      \* where the drifters may be put into the water
          Flows,       \* displacements in a time step by uu and vv of a cell
          Gone,
          MaxT         \* bound: time steps

VARIABLES at,          \* position of each drifter, in parts of a cell
          t, flow,
          left         \* drifters the time step has still to come to

trackVars == <<at, t, flow, left>>

Init ==
    /\ at \in [Drifter -> Starts]
    /\ t = 0 /\ flow \in Flows /\ left = {}

Active(n) == t > Window[n].from /\ t < Window[n].to

\* nint rounds halves up: the cell a drifter is in.
Near(x)  == (x + Unit \div 2) \div Unit
Point(x) == <<Near(x.i), Near(x.j)>>

Inside(x) == Point(x) \in (1..NX) \X (1..NY)

Moved(x) == [i |-> x.i + flow.u[Point(x)], j |-> x.j + flow.v[Point(x)]]

Timestep ==
    /\ left = {} /\ t < MaxT
    /\ t' = t + 1 /\ flow' \in Flows /\ left' = Drifter
    /\ UNCHANGED at

Drift(n) ==
    /\ n \in left /\ left' = left \ {n}
    /\ \/ /\ Active(n) /\ Inside(at[n])
          /\ at' = [at EXCEPT ![n] = Moved(at[n])]
       \/ /\ Active(n) /\ ~Inside(at[n])
          /\ at' = [at EXCEPT ![n] = Gone]
       \/ /\ ~(Active(n) /\ Inside(at[n])) /\ UNCHANGED at
    /\ UNCHANGED <<t, flow>>

Next == Timestep \/ \E n \in Drifter : Drift(n)

Spec == Init /\ [][Next]_trackVars
=============================================================================
