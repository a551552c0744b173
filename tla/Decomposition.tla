---------------------------- MODULE Decomposition ----------------------------
(***************************************************************************)
(* The division of the global grid over the compute processes: decomp and  *)
(* det_submatrices of general_mpi.F90, the processor grid and neighbours   *)
(* of xmpi.F90, the computational domains of spaceparams.F90.              *)
(*                                                                         *)
(* A global matrix has M = nx+1 rows and N = ny+1 columns.  mp * np        *)
(* processes of rank 0 .. mp*np-1 share it, numbered down the columns of   *)
(* the processor grid.                                                     *)
(***************************************************************************)
EXTENDS Integers, FiniteSetsExt

nover == 4          \* rows (columns) that two neighbours have in common
nbord == 2          \* of which each keeps two to be filled by the other
ProcNull == -1      \* MPI_PROC_NULL
Nowhere  == -123    \* the rank of the output process, and "nobody has it"
-----------------------------------------------------------------------------
(* decomp *)

\* Integer division of Fortran: towards zero.
Quot(a, b) == IF a >= 0 THEN a \div b ELSE -((-a) \div b)
Rem(a, b)  == a - b * Quot(a, b)

Least(a, b) == IF a < b THEN a ELSE b

DecompStart(n, procs, id) == id * Quot(n, procs) + 1 + Least(id, Rem(n, procs))

DecompSize(n, procs, id) ==
    Quot(n, procs) + (IF id < Rem(n, procs) THEN 1 ELSE 0)

DecompEnd(n, procs, id) ==
    LET e == DecompStart(n, procs, id) + DecompSize(n, procs, id) - 1
    IN  IF e > n \/ id = procs - 1 THEN n ELSE e
-----------------------------------------------------------------------------
(* det_submatrices, for one of the two dimensions: parts 0 .. procs-1 *)

SubStart(size, procs, part) == DecompStart(size - nover, procs, part)

SubLength(size, procs, part) ==
    DecompEnd(size - nover, procs, part) - SubStart(size, procs, part) + nover + 1

SubEnd(size, procs, part) ==
    SubStart(size, procs, part) + SubLength(size, procs, part) - 1

First(part) == part = 0                     \* istop, isleft
Last(procs, part) == part = procs - 1       \* isbot, isright

(* The computational domain of a part: without the border, except where    *)
(* the part touches the edge of the global matrix.                         *)

DomStart(size, procs, part) ==
    SubStart(size, procs, part) + (IF First(part) THEN 0 ELSE nbord)

\* Mutant of DomEnd: the border is left out at the edge as well.
DomEndInside(size, procs, part) == SubEnd(size, procs, part) - nbord

DomEnd(size, procs, part) ==
    SubEnd(size, procs, part) - (IF Last(procs, part) THEN 0 ELSE nbord)

LocalIndex(size, procs, part, g)  == g - SubStart(size, procs, part) + 1
GlobalIndex(size, procs, part, l) == l + SubStart(size, procs, part) - 1

RowPart(mp, rank) == rank % mp              \* xmpi_prow - 1
ColPart(mp, rank) == rank \div mp           \* xmpi_pcol - 1

\* space_who_has: the first rank whose domain contains the point.
Holders(M, N, mp, np, i, j) ==
    {r \in 0..(mp * np - 1) :
        /\ DomStart(M, mp, RowPart(mp, r)) <= i
        /\ i <= DomEnd(M, mp, RowPart(mp, r))
        /\ DomStart(N, np, ColPart(mp, r)) <= j
        /\ j <= DomEnd(N, np, ColPart(mp, r))}

WhoHas(M, N, mp, np, i, j) ==
    LET h == Holders(M, N, mp, np, i, j) IN IF h = {} THEN Nowhere ELSE Min(h)
-----------------------------------------------------------------------------
(* xmpi_determine_processor_grid *)

Dims == [m : Nat, n : Nat]

\* Total length of the internal borders.
BorderLength(nx, ny, mm, nn) == (mm - 1) * ny + (nn - 1) * nx

\* The shortest border; of equally short ones the first found.
Shortest(nx, ny, size) ==
    LET fits == {mm \in 1..size : size % mm = 0}
        len(mm) == BorderLength(nx, ny, mm, size \div mm)
    IN  Min({mm \in fits : \A k \in fits : len(mm) <= len(k)})

\* c: the division asked for, mmpi and nmpi when it is made by hand.
ProcessorGrid(nx, ny, c, size) ==
    CASE c.div = "y"    -> [m |-> size, n |-> 1]
      [] c.div = "x"    -> [m |-> 1, n |-> size]
      [] c.div = "auto" -> LET mm == Shortest(nx, ny, size)
                           IN  [m |-> mm, n |-> size \div mm]
      [] c.div = "man"  -> [m |-> c.mmpi, n |-> c.nmpi]

\* 0, an error (2, 3, 4) or a warning (5, 6); 1, an unknown division, is
\* excluded by the names that params.F90 accepts.
GridError(nx, ny, c, size) ==
    LET g == ProcessorGrid(nx, ny, c, size) IN
    IF c.div = "man" /\ g.m * g.n # size THEN 2
    ELSE IF nx + 1 < 4 * g.m THEN 3
    ELSE IF ny + 1 < 4 * g.n /\ ny > 2 THEN 4
    ELSE IF ny + 1 < 8 * g.n /\ ny > 2 THEN 6
    ELSE IF nx + 1 < 8 * g.m THEN 5
    ELSE 0

Fatal(e) == e \in 1..4      \* writelog_mpi halts the program for these

Left(mp, np, cyclic, rank) ==
    IF rank - mp >= 0 THEN rank - mp
    ELSE IF cyclic THEN rank - mp + mp * np ELSE ProcNull

\* Mutant of Right: cyclic boundaries are closed on one side only.
RightOpen(mp, np, cyclic, rank) == IF rank + mp < mp * np THEN rank + mp ELSE ProcNull

Right(mp, np, cyclic, rank) ==
    IF rank + mp < mp * np THEN rank + mp
    ELSE IF cyclic THEN rank + mp - mp * np ELSE ProcNull

Top(mp, rank) == IF rank % mp = 0 THEN ProcNull ELSE rank - 1
Bot(mp, rank) == IF (rank + 1) % mp = 0 THEN ProcNull ELSE rank + 1

\* xmpi_orank_to_rank and xmpi_rank_to_orank: process 0 is the output process.
OrankToRank(o) == IF o - 1 < 0 THEN Nowhere ELSE o - 1
RankToOrank(r) == IF r = Nowhere THEN 0 ELSE r + 1
-----------------------------------------------------------------------------
(* ranges_init: the rows and columns a process computes of a variable at    *)
(* cell corners with wave directions (ee), of u-, v- and water level points *)

Kind == {"ee", "uu", "vv", "zs"}
Dim  == {"row", "col"}

\* First local index: inside the border, or where the serial program starts.
RangeLow(kind, dim, size, first) ==
    IF dim = "col" /\ size = 1 THEN (IF first THEN 1 ELSE IF kind = "vv" THEN 2 ELSE 3)
    ELSE IF first THEN (IF kind = "ee" /\ dim = "col" THEN 1 ELSE 2)
    ELSE IF <<kind, dim>> \in {<<"uu", "row">>, <<"vv", "col">>} THEN 2 ELSE 3

\* Mutant of RangeGap: the border at an inner edge is taken one too narrow.
RangeGapNarrow(kind, dim, size, last) ==
    IF <<kind, dim>> \in {<<"uu", "row">>, <<"vv", "col">>} THEN 2 ELSE 1

\* How far the last local index stays from the end of the local array.
RangeGap(kind, dim, size, last) ==
    IF dim = "col" /\ size = 1 /\ last THEN 0
    ELSE LET gap == CASE <<kind, dim>> = <<"ee", "col">> -> 0
                      [] <<kind, dim>> \in {<<"uu", "row">>, <<"vv", "col">>} -> 2
                      [] OTHER -> 1
         IN  IF last THEN gap
             ELSE IF <<kind, dim>> = <<"ee", "col">> THEN 2 ELSE gap + 1

\* The same range in global indices, for a part of a dimension of that size;
\* first and last are xmpi_istop, xmpi_isbot, xmpi_isleft, xmpi_isright.
ComputedFrom(kind, dim, size, procs, part, first) ==
    GlobalIndex(size, procs, part, RangeLow(kind, dim, size, first))

ComputedTo(kind, dim, size, procs, part, last) ==
    SubEnd(size, procs, part) - RangeGap(kind, dim, size, last)
=============================================================================
