------------------------------ MODULE GridSetup ------------------------------
(***************************************************************************)
(* Start-up of the parallel program: xmpi_initialize, the choice of the    *)
(* processor grid on every process, writelog_mpi's stop on a bad grid, and *)
(* the division that xmaster makes and space_distribute_space broadcasts   *)
(* (init in libxbeach.F90).  Processes carry their rank in xmpi_ocomm:     *)
(* 0 is xomaster, 1 is xmaster, the computing processes are 1 .. size.     *)
(***************************************************************************)
EXTENDS Decomposition

CONSTANT Inputs    \* grids with the MPI settings: see InputsAssumption

ASSUME InputsAssumption ==
    Inputs \subseteq [nx : Nat \ {0}, ny : Nat, size : Nat, cyclic : BOOLEAN,
                      div : {"x", "y", "auto", "man"},
                      mmpi : Nat \ {0}, nmpi : Nat \ {0}]

VARIABLES in,        \* the input, the same for all processes
          pc,        \* per process: where it is in init
          grid,      \* xmpi_m, xmpi_n
          err,       \* the error of xmpi_determine_processor_grid
          near,      \* xmpi_left, xmpi_right, xmpi_top, xmpi_bot
          dom,       \* icgs, icge, jcgs, jcge of every rank, once received
          halted     \* somebody called MPI_Abort

vars == <<in, pc, grid, err, near, dom, halted>>

xomaster == 0
xmaster  == 1
Proc     == 0..in.size              \* xmpi_osize = size + 1
Compute  == 1..in.size

NoGrid == [m |-> 0, n |-> 0]
NoNear == [left |-> ProcNull, right |-> ProcNull, top |-> ProcNull, bot |-> ProcNull]
-----------------------------------------------------------------------------
Init ==
    /\ in \in Inputs
    /\ pc = [p \in Proc |-> "start"]
    /\ grid = [p \in Proc |-> NoGrid] /\ err = [p \in Proc |-> 0]
    /\ near = [p \in Proc |-> NoNear] /\ dom = [p \in Proc |-> <<>>]
    /\ halted = FALSE

\* xmpi_initialize: a run needs a computing process next to xomaster.
Initialize(p) ==
    /\ pc[p] = "start"
    /\ IF in.size + 1 < 2
       THEN halted' = TRUE /\ UNCHANGED pc
       ELSE pc' = [pc EXCEPT ![p] = "grid"] /\ UNCHANGED halted
    /\ UNCHANGED <<in, grid, err, near, dom>>

\* The neighbours are set after the checks only.
Neighbours(g, r) ==
    [left  |-> Left(g.m, g.n, in.cyclic, r), right |-> Right(g.m, g.n, in.cyclic, r),
     top   |-> Top(g.m, r), bot |-> Bot(g.m, r)]

\* The first barrier (toall) lies between the two: nobody is behind.
DetermineGrid(p) ==
    /\ pc[p] = "grid"
    /\ \A q \in Proc : pc[q] # "start"
    /\ LET e == GridError(in.nx, in.ny, in, in.size)
           g == ProcessorGrid(in.nx, in.ny, in, in.size)
       IN  /\ err' = [err EXCEPT ![p] = e]
           /\ grid' = IF e = 2 THEN grid ELSE [grid EXCEPT ![p] = g]
           /\ near' = IF Fatal(e) THEN near
                      ELSE [near EXCEPT ![p] = Neighbours(g, OrankToRank(p))]
    /\ pc' = [pc EXCEPT ![p] = "log"]
    /\ UNCHANGED <<in, dom, halted>>

\* Mutant of WritelogMpi: xmaster stops for itself only.
WritelogStops(p) ==
    /\ pc[p] = "log" /\ ~(p = xmaster /\ Fatal(err[p]))
    /\ pc' = [pc EXCEPT ![p] = "sync"]
    /\ UNCHANGED <<in, grid, err, near, dom, halted>>

\* Only xmaster looks at the error, and stops everybody.
WritelogMpi(p) ==
    /\ pc[p] = "log"
    /\ IF p = xmaster /\ Fatal(err[p])
       THEN halted' = TRUE /\ UNCHANGED pc
       ELSE pc' = [pc EXCEPT ![p] = "sync"] /\ UNCHANGED halted
    /\ UNCHANGED <<in, grid, err, near, dom>>

Domains(g) ==
    [r \in 0..(in.size - 1) |->
        [icgs |-> DomStart(in.nx + 1, g.m, RowPart(g.m, r)),
         icge |-> DomEnd(in.nx + 1, g.m, RowPart(g.m, r)),
         jcgs |-> DomStart(in.ny + 1, g.n, ColPart(g.m, r)),
         jcge |-> DomEnd(in.ny + 1, g.n, ColPart(g.m, r))]]

\* Mutant of Divide: the tables are made for the computing processes only.
DivideCompute ==
    /\ pc[xmaster] = "sync"
    /\ dom' = [p \in Compute |-> IF p = xmaster THEN Domains(grid[p]) ELSE dom[p]]
    /\ pc' = [pc EXCEPT ![xmaster] = "ready"]
    /\ UNCHANGED <<in, grid, err, near, halted>>

\* xmaster divides the grid and is the root of the broadcasts to all.
Divide ==
    /\ pc[xmaster] = "sync"
    /\ dom' = [dom EXCEPT ![xmaster] = Domains(grid[xmaster])]
    /\ pc' = [pc EXCEPT ![xmaster] = "ready"]
    /\ UNCHANGED <<in, grid, err, near, halted>>

\* Mutant of ReceiveDomains: the tables are taken before they are made.
ReceiveEarly(p) ==
    /\ p # xmaster /\ pc[p] = "sync"
    /\ dom' = [dom EXCEPT ![p] = dom[xmaster]]
    /\ pc' = [pc EXCEPT ![p] = "ready"]
    /\ UNCHANGED <<in, grid, err, near, halted>>

ReceiveDomains(p) ==
    /\ p # xmaster /\ pc[p] = "sync" /\ pc[xmaster] = "ready"
    /\ dom' = [dom EXCEPT ![p] = dom[xmaster]]
    /\ pc' = [pc EXCEPT ![p] = "ready"]
    /\ UNCHANGED <<in, grid, err, near, halted>>

Next ==
    /\ ~halted
    /\ \/ \E p \in Proc : Initialize(p) \/ DetermineGrid(p) \/ WritelogMpi(p)
                                        \/ ReceiveDomains(p)
       \/ xmaster \in Proc /\ Divide

Spec == Init /\ [][Next]_vars

FairSpec == Spec /\ WF_vars(Next)
-----------------------------------------------------------------------------
(* Properties *)

Ready(p) == pc[p] = "ready"

TypeOK ==
    /\ in \in Inputs /\ halted \in BOOLEAN
    /\ pc \in [Proc -> {"start", "grid", "log", "sync", "ready"}]
    /\ grid \in [Proc -> Dims] /\ err \in [Proc -> {0, 2, 3, 4, 5, 6}]
    /\ DOMAIN near = Proc /\ DOMAIN dom = Proc

\* Rows and columns in the domain of one rank, by the tables of a process.
Holds(d, i, j) == d.icgs <= i /\ i <= d.icge /\ d.jcgs <= j /\ j <= d.jcge

\* A process gets past init only with a grid that xmaster accepted, though
\* every process draws its own conclusion and only xmaster stops the run.
NobodyPastBadGrid ==
    \A p \in Proc : Ready(p) =>
        /\ ~Fatal(err[p])
        /\ grid[p] = grid[xmaster] /\ grid[p].m * grid[p].n = in.size
        /\ dom[p] = dom[xmaster]

\* Every point of the global grid is computed and collected by exactly one
\* process: the domains tile the grid (det_submatrices, space_distribute_space),
\* and space_who_has finds that process for the point output.
DomainsTile ==
    \A p \in Compute : (Ready(p) /\ (in.ny > 2 \/ grid[p].n = 1)) =>
        \A i \in 1..(in.nx + 1), j \in 1..(in.ny + 1) :
            /\ \E r \in DOMAIN dom[p] :
                 /\ Holds(dom[p][r], i, j)
                 /\ \A q \in DOMAIN dom[p] : Holds(dom[p][q], i, j) => q = r
                 /\ WhoHas(in.nx + 1, in.ny + 1, grid[p].m, grid[p].n, i, j) = r

\* The neighbour relation is mutual, with cyclic boundaries as well: what one
\* process sends to its right, the other one expects from its left.
NeighboursMutual ==
    \A p, q \in Compute : (Ready(p) /\ Ready(q)) =>
        /\ near[p].right = OrankToRank(q) <=> near[q].left = OrankToRank(p)
        /\ near[p].bot = OrankToRank(q) <=> near[q].top = OrankToRank(p)

\* ranges_init on all processes together: every index the serial program
\* computes is computed by exactly one of the parts of that dimension.  With
\* cyclic boundaries the last part continues where the first one starts: the
\* grid closes on itself after size - nover indices.
EachComputedOnce(kind, dim, size, procs, cyclic) ==
    LET from(part) == ComputedFrom(kind, dim, size, procs, part, First(part) /\ ~cyclic)
        to(part)   == ComputedTo(kind, dim, size, procs, part, Last(procs, part) /\ ~cyclic)
    IN  /\ \A part \in 0..(procs - 2) : from(part + 1) = to(part) + 1
        /\ IF cyclic THEN from(0) + size - nover = to(procs - 1) + 1
           ELSE /\ from(0) = RangeLow(kind, dim, size, TRUE)
                /\ to(procs - 1) = size - RangeGap(kind, dim, size, TRUE)

RangesTile ==
    \A p \in Compute : Ready(p) =>
        \A kind \in Kind :
            /\ EachComputedOnce(kind, "row", in.nx + 1, grid[p].m, FALSE)
            /\ in.ny > 2 => EachComputedOnce(kind, "col", in.ny + 1, grid[p].n, in.cyclic)

\* Everybody gets through init, or the run is stopped; nobody is left waiting.
SettlesOrStops == <>(halted \/ \A p \in Proc : Ready(p))
=============================================================================
