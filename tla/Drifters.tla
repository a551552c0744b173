------------------------------ MODULE Drifters ------------------------------
(***************************************************************************)
(* The drifters of a run on several processes: drifters.F90, built with    *)
(* USEMPI.  Every process knows the position of every drifter in the whole *)
(* grid.  Those that have it in their part move it, the others set it to a *)
(* huge number, and the minimum over all processes is the new position.    *)
(***************************************************************************)
EXTENDS Integers, FiniteSetsExt

CONSTANTS Proc,
          Drifters,      \* par%ndrifter
          Is, Js,        \* s%is, s%js: where the part of a process begins
          Nx, Ny,        \* s%nx, s%ny of a process
          NX, NY,        \* and of the whole grid
          Unit, Window, Starts, Flows,
          Huge,          \* huge(0.0d0) - 10000
          MaxT           \* bound: time steps

Drifter == 1..Drifters

\* The parts cover the grid: some process has the cell a drifter is in.
ASSUME PartsAssumption ==
    /\ Proc # {}
    /\ Is \in [Proc -> Nat \ {0}] /\ Js \in [Proc -> Nat \ {0}]
    /\ Nx \in [Proc -> Nat] /\ Ny \in [Proc -> Nat]
    /\ \A p \in Proc : Is[p] + Nx[p] - 1 <= NX /\ Js[p] + Ny[p] - 1 <= NY
    /\ \A i \in 1..NX, j \in 1..NY : \E p \in Proc :
          i \in Is[p]..(Is[p] + Nx[p] - 1) /\ j \in Js[p]..(Js[p] + Ny[p] - 1)

ASSUME DriftersAssumption ==
    /\ Drifters \in Nat /\ Unit \in Nat \ {0} /\ MaxT \in Nat
    /\ NX \in Nat /\ NY \in Nat
    /\ Window \in [Drifter -> [from : Nat, to : Nat]]
    /\ Starts \subseteq [i : Int, j : Int]
    /\ Flows \subseteq [u : [(1..NX) \X (1..NY) -> Int], v : [(1..NX) \X (1..NY) -> Int]]
    /\ Huge \in Int

\* A number larger than any index a drifter in the grid can get in a time step.
ASSUME HugeAssumption ==
    \A f \in Flows : \A x \in (1..NX) \X (1..NY) :
        f.u[x] + (NX + 1) * Unit <= Huge /\ f.v[x] + (NY + 1) * Unit <= Huge

VARIABLES t,         \* par%t, the same everywhere
          flow,      \* uu / dsu * dt and vv / dnv * dt of this time step
          drift,     \* idrift and jdrift on each process
          d,         \* the drifter a process is at
          pc

vars == <<t, flow, drift, d, pc>>

Init ==
    /\ t = 0 /\ flow \in Flows
    /\ \E start \in [Drifter -> Starts] : drift = [p \in Proc |-> start]
    /\ d = [p \in Proc |-> Drifters + 1] /\ pc = [p \in Proc |-> "loop"]
-----------------------------------------------------------------------------
\* The common time step, after which every process has the flow in its part
\* and in the rows and columns it shares.
Timestep ==
    /\ t < MaxT /\ \A p \in Proc : d[p] > Drifters
    /\ t' = t + 1 /\ flow' \in Flows
    /\ d' = [p \in Proc |-> 1]
    /\ UNCHANGED <<drift, pc>>

\* Mutant of Active: a process looks only at the drifters it has.
ActiveHere(p, n) ==
    /\ t > Window[n].from /\ t < Window[n].to
    /\ drift[p][n].i \div Unit <= Is[p] + Nx[p] - 1

Active(p, n) == t > Window[n].from /\ t < Window[n].to

Near(x) == (x + Unit \div 2) \div Unit      \* nint(x)

\* (iu, ju) and (iv, jv), local indices.  The code sets out to "determine closest
\* u- and v-points" and means to subtract a half from the positions for iu and
\* jv, but its 0.d5 is the number 0.0: both are the cell that the drifter is in,
\* and in the lower half of a cell that is not the closest point.
Point(p, x) == <<Near(x.i - (Is[p] - 1) * Unit), Near(x.j - (Js[p] - 1) * Unit)>>

Local(p) == (1..Nx[p]) \X (1..Ny[p])

Inside(p, x) == Point(p, x) \in Local(p)

\* A local index in the whole grid.
Global(p, point) == <<point[1] + Is[p] - 1, point[2] + Js[p] - 1>>

\* Mutant of MovedHere: what a process does not have stays where it was.
MovedOrKept(p, x) ==
    IF Inside(p, x)
    THEN [i |-> x.i + flow.u[Global(p, Point(p, x))],
          j |-> x.j + flow.v[Global(p, Point(p, x))]]
    ELSE x

MovedHere(p, x) ==
    IF Inside(p, x)
    THEN [i |-> x.i + flow.u[Global(p, Point(p, x))],
          j |-> x.j + flow.v[Global(p, Point(p, x))]]
    ELSE [i |-> Huge, j |-> Huge]

Move(p) ==
    /\ pc[p] = "loop" /\ d[p] \in Drifter /\ Active(p, d[p])
    /\ drift' = [drift EXCEPT ![p][d[p]] = MovedHere(p, @)]
    /\ pc' = [pc EXCEPT ![p] = "reduce_i"]
    /\ UNCHANGED <<t, flow, d>>

Skip(p) ==
    /\ pc[p] = "loop" /\ d[p] \in Drifter /\ ~Active(p, d[p])
    /\ d' = [d EXCEPT ![p] = @ + 1]
    /\ UNCHANGED <<t, flow, drift, pc>>

\* xmpi_allreduce of idrift, and of jdrift: each process brings the drifter it
\* is at, all get the minimum.
ReduceI ==
    /\ \A p \in Proc : pc[p] = "reduce_i"
    /\ drift' = [p \in Proc |->
          [drift[p] EXCEPT ![d[p]].i = Min({drift[q][d[q]].i : q \in Proc})]]
    /\ pc' = [p \in Proc |-> "reduce_j"]
    /\ UNCHANGED <<t, flow, d>>

\* Mutant of ReduceJ: only one of the two coordinates is exchanged.
ReduceNothing ==
    /\ \A p \in Proc : pc[p] = "reduce_j"
    /\ d' = [p \in Proc |-> d[p] + 1]
    /\ pc' = [p \in Proc |-> "loop"]
    /\ UNCHANGED <<t, flow, drift>>

ReduceJ ==
    /\ \A p \in Proc : pc[p] = "reduce_j"
    /\ drift' = [p \in Proc |->
          [drift[p] EXCEPT ![d[p]].j = Min({drift[q][d[q]].j : q \in Proc})]]
    /\ d' = [p \in Proc |-> d[p] + 1]
    /\ pc' = [p \in Proc |-> "loop"]
    /\ UNCHANGED <<t, flow>>

Process(p) == Move(p) \/ Skip(p)

Collective == Timestep \/ ReduceI \/ ReduceJ

Next == Collective \/ \E p \in Proc : Process(p)

Spec == Init /\ [][Next]_vars

\* Every process runs on, and a collective call returns once all are in it.
FairSpec == Spec /\ WF_vars(Collective) /\ \A p \in Proc : WF_vars(Process(p))
-----------------------------------------------------------------------------
(* Properties *)

TypeOK ==
    /\ t \in Nat /\ flow \in Flows
    /\ d \in [Proc -> 1..(Drifters + 1)]
    /\ pc \in [Proc -> {"loop", "reduce_i", "reduce_j"}]
    /\ drift \in [Proc -> [Drifter -> [i : Int, j : Int]]]

\* A process has not come to a drifter in this time step.
Before(p, n) == d[p] < n \/ (d[p] = n /\ pc[p] = "loop")
ToMove(n)    == {p \in Proc : Before(p, n)}

\* Where a drifter is: as long as a process has still to move it, where it was;
\* then the minimum over the processes.
Position(n) ==
    IF ToMove(n) # {} THEN drift[CHOOSE p \in ToMove(n) : TRUE][n]
    ELSE [i |-> Min({drift[p][n].i : p \in Proc}), j |-> Min({drift[p][n].j : p \in Proc})]

Track == INSTANCE DrifterTrack
    WITH at <- [n \in Drifter |-> Position(n)],
         left <- {n \in Drifter : ToMove(n) # {}},
         Gone <- [i |-> Huge, j |-> Huge]

\* The processes together move every drifter as one process with the whole grid
\* would, by the flow of the cell it is in: a drifter in the overlap is not moved
\* twice, one that goes from a part to the next is not lost.
TrackFollowed == Track!Spec

\* Whoever is not in the middle of moving a drifter has the same positions of
\* all of them, those that had a drifter in their part and those that did not.
SameEverywhere ==
    \A p, q \in Proc :
        (pc[p] = "loop" /\ pc[q] = "loop") => drift[p] = drift[q]

\* No process waits in a reduction the others do not come to: all time steps
\* are made.
AllStepsMade == <>(t = MaxT /\ \A p \in Proc : d[p] > Drifters)
=============================================================================
