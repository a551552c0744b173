-------------------------- MODULE Decomposition_proofs -----------------------
(***************************************************************************)
(* The division of the grid is right for every grid and every number of    *)
(* processes that the start-up lets through, and the exchange of borders   *)
(* brings every process the values of its neighbours of the same round.    *)
(***************************************************************************)
EXTENDS GridSetup, HaloExchange, FoldLemmas, TLAPS

(* decomp *)

LEMMA QuotRem ==
    ASSUME NEW n \in Nat, NEW p \in Nat \ {0}
    PROVE  /\ Quot(n, p) \in Nat
           /\ Rem(n, p) \in 0..(p - 1)
           /\ n = p * Quot(n, p) + Rem(n, p)
  <1> DEFINE q == n \div p
  <1>1. Quot(n, p) = q
    BY DEF Quot
  <1>2. q \in Nat /\ p * q <= n /\ n < p * q + p
    BY SMT
  <1>3. p * q \in Int
    BY <1>2
  <1> HIDE DEF q
  <1> QED BY <1>1, <1>2, <1>3 DEF Rem

\* The parts follow each other without a gap from 1 to n (decomp).
LEMMA DecompTiles ==
    ASSUME NEW n \in Nat, NEW p \in Nat \ {0}, NEW id \in 0..(p - 1)
    PROVE  /\ DecompStart(n, p, id) \in Nat /\ DecompEnd(n, p, id) \in Nat
           /\ DecompStart(n, p, 0) = 1
           /\ DecompEnd(n, p, p - 1) = n
           /\ id < p - 1 => DecompStart(n, p, id + 1) = DecompEnd(n, p, id) + 1
           /\ DecompStart(n, p, id) <= DecompEnd(n, p, id) + 1
           /\ \A j \in 0..(p - 1) : id <= j => DecompStart(n, p, id) <= DecompStart(n, p, j)
           /\ DecompEnd(n, p, id) + 1 >= DecompStart(n, p, id) + Quot(n, p)
  <1> DEFINE q == Quot(n, p)
             r == Rem(n, p)
  <1>1. q \in Nat /\ r \in 0..(p - 1) /\ n = p * q + r
    BY QuotRem
  <1>2. ASSUME NEW i \in 0..p
        PROVE  /\ i * q \in Nat
               /\ DecompStart(n, p, i) = i * q + 1 + Least(i, r)
               /\ DecompSize(n, p, i) = q + (IF i < r THEN 1 ELSE 0)
    BY <1>1 DEF DecompStart, DecompSize
  <1> HIDE DEF q, r
  <1>3. ASSUME NEW i \in 0..(p - 1)
        PROVE  /\ (i + 1) * q = i * q + q
               /\ p * q = i * q + (p - i) * q
               /\ (p - i) * q >= q
    BY <1>1
  <1>4. ASSUME NEW i \in 0..(p - 1)
        PROVE  DecompStart(n, p, i) + DecompSize(n, p, i) - 1 = (i + 1) * q + Least(i + 1, r)
    BY <1>1, <1>2, <1>3 DEF Least
  <1>5. ASSUME NEW i \in 0..(p - 1)
        PROVE  DecompEnd(n, p, i) = (i + 1) * q + Least(i + 1, r)
    <2>1. (i + 1) * q <= p * q /\ (i + 1) * q \in Nat /\ p * q \in Nat
      BY <1>1, <1>2, <1>3
    <2>2. CASE i = p - 1
      BY <1>1, <2>1, <2>2 DEF DecompEnd, Least
    <2>3. CASE i # p - 1
      BY <1>1, <1>4, <2>1, <2>3 DEF DecompEnd, Least
    <2> QED BY <2>2, <2>3
  <1>6. DecompStart(n, p, id) \in Nat /\ DecompEnd(n, p, id) \in Nat
    BY <1>1, <1>2, <1>5 DEF Least
  <1>7. DecompStart(n, p, 0) = 1
    BY <1>1, <1>2 DEF Least
  <1>8. DecompEnd(n, p, p - 1) = n
    BY <1>1, <1>5 DEF Least
  <1>9. id < p - 1 => DecompStart(n, p, id + 1) = DecompEnd(n, p, id) + 1
    BY <1>1, <1>2, <1>5 DEF Least
  <1>10. DecompStart(n, p, id) <= DecompEnd(n, p, id) + 1
    BY <1>1, <1>2, <1>3, <1>5 DEF Least
  <1>11. ASSUME NEW j \in 0..(p - 1), id <= j
         PROVE  DecompStart(n, p, id) <= DecompStart(n, p, j)
    <2>1. id * q <= j * q
      <3>1. j * q = id * q + (j - id) * q /\ (j - id) * q \in Nat
        BY <1>1, <1>11
      <3> QED BY <3>1, <1>2
    <2> QED BY <1>1, <1>2, <1>11, <2>1 DEF Least
  <1>12. DecompEnd(n, p, id) + 1 >= DecompStart(n, p, id) + q
    BY <1>1, <1>2, <1>3, <1>5 DEF Least
  <1> QED BY <1>6, <1>7, <1>8, <1>9, <1>10, <1>11, <1>12 DEF q
-----------------------------------------------------------------------------
(* det_submatrices and the computational domains *)

Parted(size, procs) == size \in Nat /\ procs \in Nat \ {0} /\ (size >= nover \/ procs = 1)

\* Two neighbouring submatrices have exactly nover rows (columns) in common,
\* and together the submatrices reach from the first index to the last.
LEMMA SubmatricesOverlap ==
    ASSUME NEW size, NEW procs, Parted(size, procs), NEW part \in 0..(procs - 1)
    PROVE  /\ SubStart(size, procs, part) \in Int /\ SubEnd(size, procs, part) \in Int
           /\ SubStart(size, procs, 0) = 1
           /\ SubEnd(size, procs, procs - 1) = size
           /\ part < procs - 1 =>
                SubStart(size, procs, part + 1) = SubEnd(size, procs, part) - (nover - 1)
           /\ \A j \in 0..(procs - 1) :
                part <= j => SubStart(size, procs, part) <= SubStart(size, procs, j)
  <1>1. CASE size >= nover
    <2>1. size - nover \in Nat /\ procs \in Nat \ {0} /\ procs - 1 \in 0..(procs - 1)
      BY <1>1 DEF Parted, nover
    <2> DEFINE n == size - nover
    <2>2. \A i \in 0..(procs - 1) : SubEnd(size, procs, i) = DecompEnd(n, procs, i) + nover
      <3> TAKE i \in 0..(procs - 1)
      <3>1. DecompStart(n, procs, i) \in Nat /\ DecompEnd(n, procs, i) \in Nat
        BY <2>1, DecompTiles
      <3> QED BY <3>1 DEF SubEnd, SubLength, SubStart, nover
    <2>3. SubEnd(size, procs, procs - 1) = size
      <3>1. DecompEnd(n, procs, procs - 1) = n
        BY <2>1, DecompTiles
      <3> QED BY <3>1, <2>1, <2>2 DEF nover, Parted
    <2>4. /\ DecompStart(n, procs, part) \in Nat /\ DecompEnd(n, procs, part) \in Nat
          /\ DecompStart(n, procs, 0) = 1
          /\ part < procs - 1 => DecompStart(n, procs, part + 1) = DecompEnd(n, procs, part) + 1
          /\ \A j \in 0..(procs - 1) :
               part <= j => DecompStart(n, procs, part) <= DecompStart(n, procs, j)
      BY <2>1, DecompTiles
    <2> HIDE DEF n
    <2>5. \A i : SubStart(size, procs, i) = DecompStart(n, procs, i)
      BY DEF SubStart, n
    <2> QED BY <2>2, <2>3, <2>4, <2>5 DEF nover
  <1>2. CASE procs = 1
    <2>1. size - nover \in Int /\ part = 0 /\ part = procs - 1
      BY <1>2 DEF Parted, nover
    <2>2. Rem(size - nover, 1) = 0 /\ Quot(size - nover, 1) \in Int
      BY <2>1 DEF Rem, Quot
    <2>3. DecompStart(size - nover, 1, 0) = 1 /\ DecompEnd(size - nover, 1, 0) = size - nover
      BY <2>1, <2>2 DEF DecompStart, DecompEnd, DecompSize, Least
    <2> QED BY <1>2, <2>1, <2>3 DEF Parted, SubStart, SubEnd, SubLength, nover
  <1> QED BY <1>1, <1>2 DEF Parted

\* The domains follow each other without a gap and without an overlap.
LEMMA DomainsAdjacent ==
    ASSUME NEW size, NEW procs, Parted(size, procs), NEW part \in 0..(procs - 1)
    PROVE  /\ DomStart(size, procs, part) \in Int /\ DomEnd(size, procs, part) \in Int
           /\ DomStart(size, procs, 0) = 1
           /\ DomEnd(size, procs, procs - 1) = size
           /\ part < procs - 1 =>
                DomStart(size, procs, part + 1) = DomEnd(size, procs, part) + 1
           /\ \A j \in 0..(procs - 1) :
                part < j => DomEnd(size, procs, part) < DomStart(size, procs, j)
  <1>1. procs \in Nat \ {0} /\ size \in Nat
    BY DEF Parted
  <1>2. \A i \in 0..(procs - 1) :
          /\ SubStart(size, procs, i) \in Int /\ SubEnd(size, procs, i) \in Int
          /\ i < procs - 1 => SubStart(size, procs, i + 1) = SubEnd(size, procs, i) - 3
          /\ \A j \in 0..(procs - 1) :
                i <= j => SubStart(size, procs, i) <= SubStart(size, procs, j)
    BY SubmatricesOverlap DEF nover
  <1>3. SubStart(size, procs, 0) = 1 /\ SubEnd(size, procs, procs - 1) = size
    BY SubmatricesOverlap
  <1>4. \A i \in 0..(procs - 1) :
          /\ DomStart(size, procs, i) = SubStart(size, procs, i) + (IF i = 0 THEN 0 ELSE 2)
          /\ DomEnd(size, procs, i) = SubEnd(size, procs, i) - (IF i = procs - 1 THEN 0 ELSE 2)
    BY DEF DomStart, DomEnd, First, Last, nbord
  <1>5. DomStart(size, procs, 0) = 1 /\ DomEnd(size, procs, procs - 1) = size
    BY <1>1, <1>3, <1>4
  <1>6. part < procs - 1 =>
            DomStart(size, procs, part + 1) = DomEnd(size, procs, part) + 1
    BY <1>1, <1>2, <1>4
  <1>7. ASSUME NEW j \in 0..(procs - 1), part < j
        PROVE  DomEnd(size, procs, part) < DomStart(size, procs, j)
    <2>1. SubStart(size, procs, part + 1) <= SubStart(size, procs, j)
      BY <1>1, <1>2, <1>7
    <2> QED BY <1>1, <1>2, <1>4, <1>7, <2>1
  <1> QED BY <1>1, <1>2, <1>4, <1>5, <1>6, <1>7

InPart(size, procs, part, i) == DomStart(size, procs, part) <= i /\ i <= DomEnd(size, procs, part)

\* Every index lies in the domain of exactly one part.
LEMMA OnePartHolds ==
    ASSUME NEW size, NEW procs, Parted(size, procs), NEW i \in 1..size
    PROVE  \E part \in 0..(procs - 1) :
              /\ InPart(size, procs, part, i)
              /\ \A j \in 0..(procs - 1) : InPart(size, procs, j, i) => j = part
  <1>1. procs \in Nat \ {0} /\ size \in Nat
    BY DEF Parted
  <1>2. \A k \in 0..(procs - 1) :
          /\ DomStart(size, procs, k) \in Int /\ DomEnd(size, procs, k) \in Int
          /\ k < procs - 1 => DomStart(size, procs, k + 1) = DomEnd(size, procs, k) + 1
          /\ \A j \in 0..(procs - 1) :
                k < j => DomEnd(size, procs, k) < DomStart(size, procs, j)
    BY DomainsAdjacent
  <1>3. 0 \in 0..(procs - 1) /\ procs - 1 \in 0..(procs - 1)
    BY <1>1
  <1>4. DomStart(size, procs, 0) = 1 /\ DomEnd(size, procs, procs - 1) = size
    BY <1>3, DomainsAdjacent
  <1> DEFINE T == {k \in 0..(procs - 1) : i <= DomEnd(size, procs, k)}
  <1>5. T \subseteq Nat /\ T # {}
    <2>1. procs - 1 \in T
      BY <1>1, <1>3, <1>4
    <2> QED BY <1>1, <2>1
  <1>6. PICK part \in T : \A k \in T : part <= k
    BY <1>5, LeastElement
  <1>7. part \in 0..(procs - 1) /\ i <= DomEnd(size, procs, part)
    BY <1>6
  <1>8. DomStart(size, procs, part) <= i
    <2>1. CASE part = 0
      BY <1>4, <2>1
    <2>2. CASE part # 0
      <3>1. part - 1 \in 0..(procs - 1) /\ ~ (part <= part - 1)
        BY <1>1, <1>7, <2>2
      <3>2. part - 1 \notin T
        BY <1>6, <3>1
      <3>3. ~ (i <= DomEnd(size, procs, part - 1))
        BY <3>1, <3>2
      <3>4. DomStart(size, procs, (part - 1) + 1) = DomEnd(size, procs, part - 1) + 1
        BY <1>1, <1>2, <1>7, <3>1
      <3>5. (part - 1) + 1 = part
        BY <1>1, <1>7
      <3> QED BY <1>2, <3>1, <3>3, <3>4, <3>5
    <2> QED BY <2>1, <2>2
  <1>9. ASSUME NEW j \in 0..(procs - 1), InPart(size, procs, j, i)
        PROVE  j = part
    <2>1. ~ (j < part) /\ ~ (part < j)
      BY <1>2, <1>7, <1>8, <1>9 DEF InPart
    <2> QED BY <1>1, <1>7, <2>1
  <1> QED BY <1>7, <1>8, <1>9 DEF InPart

\* A rank is its place in the processor grid, numbered down the columns.
LEMMA RankOfPlace ==
    ASSUME NEW mp \in Nat \ {0}, NEW np \in Nat \ {0}
    PROVE  /\ \A r \in 0..(mp * np - 1) :
                /\ RowPart(mp, r) \in 0..(mp - 1) /\ ColPart(mp, r) \in 0..(np - 1)
                /\ r = RowPart(mp, r) + mp * ColPart(mp, r)
           /\ \A a \in 0..(mp - 1), b \in 0..(np - 1) :
                /\ a + mp * b \in 0..(mp * np - 1)
                /\ RowPart(mp, a + mp * b) = a /\ ColPart(mp, a + mp * b) = b
  <1>1. ASSUME NEW r \in 0..(mp * np - 1)
        PROVE  /\ RowPart(mp, r) \in 0..(mp - 1) /\ ColPart(mp, r) \in 0..(np - 1)
               /\ r = RowPart(mp, r) + mp * ColPart(mp, r)
    <2> DEFINE a == r % mp
               b == r \div mp
    <2>1. mp * np \in Nat /\ r \in Nat /\ r < mp * np
      BY SMT
    <2>2. a \in 0..(mp - 1) /\ b \in Nat /\ r = mp * b + a
      BY <2>1, SMT
    <2> HIDE DEF a, b
    <2>3. b < np
      <3>1. SUFFICES ASSUME b >= np PROVE FALSE
        BY <2>2
      <3>2. mp * b = mp * np + mp * (b - np) /\ mp * (b - np) \in Nat /\ mp * b \in Nat
        BY <2>2, <3>1
      <3> QED BY <2>1, <2>2, <3>2
    <2> QED BY <2>2, <2>3 DEF RowPart, ColPart, a, b
  <1>2. ASSUME NEW a \in 0..(mp - 1), NEW b \in 0..(np - 1)
        PROVE  /\ a + mp * b \in 0..(mp * np - 1)
               /\ RowPart(mp, a + mp * b) = a /\ ColPart(mp, a + mp * b) = b
    <2>1. /\ mp * b \in Nat /\ mp * np \in Nat
          /\ mp * np = mp * b + mp * (np - b) /\ mp * (np - b) >= mp
      BY SMT
    <2>2. a + mp * b \in 0..(mp * np - 1)
      BY <2>1
    <2>3. (a + mp * b) % mp = a /\ (a + mp * b) \div mp = b
      BY <2>1, SMT
    <2> QED BY <2>2, <2>3 DEF RowPart, ColPart
  <1> QED BY <1>1, <1>2
-----------------------------------------------------------------------------
(* ranges_init *)

\* Together the processes compute the range of the serial program, each index
\* once; a closed grid closes on itself.
LEMMA RangesFit ==
    ASSUME NEW sort \in Kind, NEW dim \in Dim, NEW size, NEW procs,
           Parted(size, procs), NEW closed \in BOOLEAN,
           dim = "row" => ~closed, dim = "col" => size > 1
    PROVE  EachComputedOnce(sort, dim, size, procs, closed)
  <1>1. procs \in Nat \ {0} /\ size \in Nat
    BY DEF Parted
  <1>2. \A i \in 0..(procs - 1) :
          /\ SubStart(size, procs, i) \in Int /\ SubEnd(size, procs, i) \in Int
          /\ i < procs - 1 => SubStart(size, procs, i + 1) = SubEnd(size, procs, i) - 3
    BY SubmatricesOverlap DEF nover
  <1>3. SubStart(size, procs, 0) = 1 /\ SubEnd(size, procs, procs - 1) = size
    BY <1>1, SubmatricesOverlap
  <1> DEFINE lowIn == RangeLow(sort, dim, size, FALSE)
             gapIn == RangeGap(sort, dim, size, FALSE)
             lowEdge == RangeLow(sort, dim, size, TRUE)
             gapEdge == RangeGap(sort, dim, size, TRUE)
  <1>4. /\ lowIn \in Int /\ gapIn \in Int /\ lowEdge \in Int /\ gapEdge \in Int
        /\ lowIn + gapIn = 5
    BY DEF Kind, Dim, RangeLow, RangeGap
  <1> HIDE DEF lowIn, gapIn, lowEdge, gapEdge
  <1>5. ASSUME NEW i \in 0..(procs - 1)
        PROVE  /\ ComputedFrom(sort, dim, size, procs, i, FALSE)
                    = lowIn + SubStart(size, procs, i) - 1
               /\ ComputedFrom(sort, dim, size, procs, i, TRUE)
                    = lowEdge + SubStart(size, procs, i) - 1
               /\ ComputedTo(sort, dim, size, procs, i, FALSE)
                    = SubEnd(size, procs, i) - gapIn
               /\ ComputedTo(sort, dim, size, procs, i, TRUE)
                    = SubEnd(size, procs, i) - gapEdge
    BY ZenonT(30) DEF ComputedFrom, ComputedTo, GlobalIndex, lowIn, gapIn, lowEdge, gapEdge
  <1>6. ASSUME NEW i \in 0..(procs - 2)
        PROVE  ComputedFrom(sort, dim, size, procs, i + 1, First(i + 1) /\ ~closed)
                 = ComputedTo(sort, dim, size, procs, i, Last(procs, i) /\ ~closed) + 1
    <2>1. /\ i \in 0..(procs - 1) /\ i + 1 \in 0..(procs - 1) /\ i < procs - 1
          /\ (First(i + 1) /\ ~closed) = FALSE /\ (Last(procs, i) /\ ~closed) = FALSE
      BY <1>1 DEF First, Last
    <2>2. /\ ComputedFrom(sort, dim, size, procs, i + 1, FALSE)
               = lowIn + SubStart(size, procs, i + 1) - 1
          /\ ComputedTo(sort, dim, size, procs, i, FALSE) = SubEnd(size, procs, i) - gapIn
      BY <1>5, <2>1
    <2>3. lowIn + SubStart(size, procs, i + 1) - 1 = (SubEnd(size, procs, i) - gapIn) + 1
      BY <1>2, <1>4, <2>1
    <2> QED BY <2>1, <2>2, <2>3, Zenon
  <1>7. 0 \in 0..(procs - 1) /\ procs - 1 \in 0..(procs - 1)
    BY <1>1
  <1>8. CASE closed
    <2>1. (First(0) /\ ~closed) = FALSE /\ (Last(procs, procs - 1) /\ ~closed) = FALSE
      BY <1>8
    <2>2. /\ ComputedFrom(sort, dim, size, procs, 0, FALSE) = lowIn
          /\ ComputedTo(sort, dim, size, procs, procs - 1, FALSE) = size - gapIn
      <3>1. lowIn + 1 - 1 = lowIn
        BY <1>4
      <3> QED BY <1>3, <1>5, <1>7, <3>1, Zenon
    <2>3. lowIn + size - nover = (size - gapIn) + 1
      BY <1>1, <1>4 DEF nover
    <2> QED BY <1>6, <1>8, <2>1, <2>2, <2>3, Zenon DEF EachComputedOnce
  <1>9. CASE ~closed
    <2>1. (First(0) /\ ~closed) = TRUE /\ (Last(procs, procs - 1) /\ ~closed) = TRUE
      BY <1>1, <1>9 DEF First, Last
    <2>2. /\ ComputedFrom(sort, dim, size, procs, 0, TRUE) = lowEdge
          /\ ComputedTo(sort, dim, size, procs, procs - 1, TRUE) = size - gapEdge
      <3>1. lowEdge + 1 - 1 = lowEdge
        BY <1>4
      <3> QED BY <1>3, <1>5, <1>7, <3>1, Zenon
    <2> QED BY <1>6, <1>9, <2>1, <2>2, Zenon DEF EachComputedOnce, lowEdge, gapEdge
  <1> QED BY <1>8, <1>9
-----------------------------------------------------------------------------
(* xmpi_determine_processor_grid *)

\* What every process concludes from the same input.
TheGrid  == ProcessorGrid(in.nx, in.ny, in, in.size)
TheError == GridError(in.nx, in.ny, in, in.size)

LEMMA ShortestDivides ==
    ASSUME NEW nx \in Nat, NEW ny \in Nat, NEW size \in Nat \ {0}
    PROVE  Shortest(nx, ny, size) \in 1..size /\ size % Shortest(nx, ny, size) = 0
  <1> DEFINE fits == {mm \in 1..size : size % mm = 0}
             len(mm) == BorderLength(nx, ny, mm, size \div mm)
             T == {mm \in fits : \A k \in fits : len(mm) <= len(k)}
  <1>1. 1 \in fits
    BY SMT
  <1>2. \A mm \in fits : len(mm) \in Nat
    <2> SUFFICES ASSUME NEW mm \in fits PROVE len(mm) \in Nat
      OBVIOUS
    <2>1. mm \in 1..size /\ size % mm = 0
      OBVIOUS
    <2>2. size \div mm \in Nat /\ size \div mm >= 1
      <3>1. size \div mm \in Int /\ size = mm * (size \div mm) + (size % mm)
        BY <2>1, SMT
      <3> DEFINE q == size \div mm
      <3>2. size = mm * q /\ q \in Int
        BY <2>1, <3>1
      <3> HIDE DEF q
      <3>3. q >= 1
        BY <2>1, <3>2, SMT
      <3> QED BY <3>2, <3>3 DEF q
    <2> HIDE DEF fits
    <2>3. BorderLength(nx, ny, mm, size \div mm) \in Nat
      <3>1. (mm - 1) * ny \in Nat /\ ((size \div mm) - 1) * nx \in Nat
        <4> DEFINE q == size \div mm
        <4>1. mm - 1 \in Nat /\ q - 1 \in Nat
          BY <2>1, <2>2
        <4> HIDE DEF q
        <4>2. \A x, y \in Nat : x * y \in Nat
          BY SMT
        <4>3. (mm - 1) * ny \in Nat /\ (q - 1) * nx \in Nat
          BY <4>1, <4>2
        <4> QED BY <4>3 DEF q
      <3> QED BY <3>1 DEF BorderLength
    <2> QED BY <2>3
  <1> DEFINE L == {len(mm) : mm \in fits}
  <1>3. L \subseteq Nat /\ L # {}
    BY <1>1, <1>2
  <1>4. PICK l \in L : \A k \in L : l <= k
    BY <1>3, LeastElement
  <1>5. PICK mm \in fits : l = len(mm)
    BY <1>4
  <1>6. \A k \in fits : len(mm) <= len(k)
    BY <1>4, <1>5
  <1>7. T # {} /\ T \subseteq Nat /\ T \subseteq fits
    BY <1>5, <1>6
  <1>8. Min(T) \in T
    BY <1>7, MinIsLeast
  <1>9. Shortest(nx, ny, size) = Min(T)
    BY DEF Shortest
  <1>10. Min(T) \in fits
    BY <1>7, <1>8
  <1> HIDE DEF T
  <1> QED BY <1>9, <1>10

LEMMA GridFits ==
    ASSUME in \in Inputs, in.size >= 1
    PROVE  /\ TheGrid \in Dims /\ TheError \in {0, 2, 3, 4, 5, 6}
           /\ ~Fatal(TheError) =>
                /\ TheGrid.m \in Nat \ {0} /\ TheGrid.n \in Nat \ {0}
                /\ TheGrid.m * TheGrid.n = in.size
                /\ in.nx + 1 >= 4 * TheGrid.m
                /\ in.ny > 2 => in.ny + 1 >= 4 * TheGrid.n
  <1>1. /\ in.nx \in Nat \ {0} /\ in.ny \in Nat /\ in.size \in Nat \ {0}
        /\ in.div \in {"x", "y", "auto", "man"}
        /\ in.mmpi \in Nat \ {0} /\ in.nmpi \in Nat \ {0}
    BY InputsAssumption
  <1>2. TheError \in {0, 2, 3, 4, 5, 6}
    BY DEF TheError, GridError
  <1> DEFINE m == TheGrid.m
             n == TheGrid.n
  <1>3. /\ TheGrid = [m |-> m, n |-> n] /\ m \in Nat \ {0} /\ n \in Nat \ {0}
        /\ in.div # "man" => m * n = in.size
    <2>1. CASE in.div \in {"y", "x"}
      BY <1>1, <2>1 DEF TheGrid, ProcessorGrid
    <2>2. CASE in.div = "auto"
      <3> DEFINE s == Shortest(in.nx, in.ny, in.size)
      <3>1. s \in 1..in.size /\ in.size % s = 0
        BY <1>1, ShortestDivides
      <3>2. TheGrid = [m |-> s, n |-> in.size \div s]
        BY <2>2 DEF TheGrid, ProcessorGrid
      <3> HIDE DEF s
      <3> DEFINE q == in.size \div s
      <3>3. q \in Int /\ in.size = s * q
        <4>1. in.size = s * (in.size \div s) + (in.size % s) /\ in.size \div s \in Int
          BY <1>1, <3>1, SMT
        <4> QED BY <1>1, <3>1, <4>1
      <3>4. TheGrid = [m |-> s, n |-> q]
        BY <3>2
      <3> HIDE DEF q
      <3>5. q \in Nat \ {0}
        BY <1>1, <3>1, <3>3, SMT
      <3> QED BY <2>2, <3>1, <3>3, <3>4, <3>5
    <2>3. CASE in.div = "man"
      BY <1>1, <2>3 DEF TheGrid, ProcessorGrid
    <2> QED BY <1>1, <2>1, <2>2, <2>3
  <1>4. ASSUME ~Fatal(TheError)
        PROVE  /\ m * n = in.size
               /\ in.nx + 1 >= 4 * m
               /\ in.ny > 2 => in.ny + 1 >= 4 * n
    <2>1. TheError \notin {2, 3, 4}
      BY <1>4 DEF Fatal
    <2>2. ~ (in.div = "man" /\ m * n # in.size)
      BY <2>1 DEF TheError, GridError, TheGrid
    <2>3. ~ (in.nx + 1 < 4 * m)
      BY <2>1, <2>2 DEF TheError, GridError, TheGrid
    <2>4. ~ (in.ny + 1 < 4 * n /\ in.ny > 2)
      BY <2>1, <2>2, <2>3 DEF TheError, GridError, TheGrid
    <2> QED BY <1>1, <1>3, <2>2, <2>3, <2>4
  <1> QED BY <1>2, <1>3, <1>4 DEF Dims
-----------------------------------------------------------------------------
(* The invariant: all processes draw the same conclusion, and xmaster passes *)
(* the first synchronisation only when it is not fatal.                      *)

Concluded(p) ==
    pc[p] \in {"log", "sync", "ready"} =>
        /\ err[p] = TheError
        /\ ~Fatal(TheError) => /\ grid[p] = TheGrid
                               /\ near[p] = Neighbours(TheGrid, OrankToRank(p))

Accepted == pc[xmaster] \in {"sync", "ready"} => ~Fatal(TheError)

Told(p) == Ready(p) => Ready(xmaster) /\ dom[p] = Domains(TheGrid)

IInv ==
    /\ TypeOK
    /\ \A p \in Proc : pc[p] # "start" => in.size >= 1
    /\ \A p \in Proc : Concluded(p)
    /\ in.size >= 1 => Accepted
    /\ \A p \in Proc : Told(p)

LEMMA InitIInv == Init => IInv
  <1> SUFFICES ASSUME Init PROVE IInv
    OBVIOUS
  <1>1. in \in Inputs /\ in.size \in Nat
    BY InputsAssumption DEF Init
  <1>2. TypeOK
    BY <1>1 DEF Init, TypeOK, NoGrid, Dims, Proc
  <1>3. \A p \in Proc : pc[p] = "start"
    BY DEF Init
  <1>4. in.size >= 1 => Accepted
    <2>1. in.size >= 1 => xmaster \in Proc
      BY <1>1 DEF xmaster, Proc
    <2> QED BY <1>3, <2>1 DEF Accepted
  <1> QED BY <1>2, <1>3, <1>4 DEF IInv, Concluded, Told, Ready

LEMMA NextIInv == IInv /\ [Next]_vars => IInv'
  <1> SUFFICES ASSUME IInv, [Next]_vars PROVE IInv'
    OBVIOUS
  <1>1. /\ in \in Inputs /\ in.size \in Nat
        /\ in.size >= 1 => xmaster \in Proc
        /\ \A p \in Proc : p # 0 => in.size >= 1
    BY InputsAssumption DEF IInv, TypeOK, xmaster, Proc
  <1>2. CASE UNCHANGED vars
    BY <1>2 DEF vars, IInv, TypeOK, Proc, Concluded, Accepted, Told, Ready, TheGrid,
                TheError, Neighbours, Domains
  <1>3. ASSUME in' = in
        PROVE  /\ Proc' = Proc /\ TheGrid' = TheGrid /\ TheError' = TheError
               /\ \A g : Domains(g)' = Domains(g)
               /\ \A g, r : Neighbours(g, r)' = Neighbours(g, r)
    BY <1>3 DEF Proc, TheGrid, TheError, Domains, Neighbours
  <1>4. ASSUME NEW p \in Proc, Initialize(p)
        PROVE  IInv'
    <2>1. in' = in /\ UNCHANGED <<grid, err, near, dom>> /\ pc[p] = "start"
      BY <1>4 DEF Initialize
    <2>2. CASE in.size + 1 < 2
      <3>1. halted' = TRUE /\ pc' = pc
        BY <1>4, <2>2 DEF Initialize
      <3> QED BY <1>3, <2>1, <3>1 DEF IInv, TypeOK, Concluded, Accepted, Told, Ready
    <2>3. CASE ~ (in.size + 1 < 2)
      <3>1. halted' = halted /\ pc' = [pc EXCEPT ![p] = "grid"]
        BY <1>4, <2>3 DEF Initialize
      <3>2. TypeOK'
        BY <1>3, <2>1, <3>1 DEF IInv, TypeOK
      <3>3. \A q \in Proc : /\ pc'[q] # "start" => in.size >= 1
                            /\ pc'[q] \in {"log", "sync", "ready"} => pc'[q] = pc[q]
                            /\ pc[q] \in {"log", "sync", "ready"} => pc'[q] = pc[q]
        BY <1>1, <2>1, <2>3, <3>1 DEF IInv, TypeOK
      <3> QED BY <1>1, <1>3, <2>1, <3>2, <3>3 DEF IInv, Concluded, Accepted, Told, Ready
    <2> QED BY <2>2, <2>3
  <1>5. ASSUME NEW p \in Proc, DetermineGrid(p)
        PROVE  IInv'
    <2>1. /\ in' = in /\ UNCHANGED <<dom, halted>> /\ pc[p] = "grid"
          /\ pc' = [pc EXCEPT ![p] = "log"] /\ err' = [err EXCEPT ![p] = TheError]
          /\ grid' = IF TheError = 2 THEN grid ELSE [grid EXCEPT ![p] = TheGrid]
          /\ near' = IF Fatal(TheError) THEN near
                     ELSE [near EXCEPT ![p] = Neighbours(TheGrid, OrankToRank(p))]
      BY <1>5 DEF DetermineGrid, TheError, TheGrid
    <2>2. in.size >= 1
      BY <2>1 DEF IInv
    <2>3. TheGrid \in Dims /\ TheError \in {0, 2, 3, 4, 5, 6}
      BY <1>1, <2>2, GridFits
    <2>4. TypeOK'
      BY <1>3, <2>1, <2>3 DEF IInv, TypeOK
    <2>5. \A q \in Proc : Concluded(q)'
      BY <1>3, <2>1 DEF IInv, TypeOK, Concluded, Fatal
    <2>6. /\ \A q \in Proc : pc'[q] \in {"sync", "ready"} => pc'[q] = pc[q]
          /\ \A q \in Proc : pc[q] \in {"sync", "ready"} => pc'[q] = pc[q]
      BY <2>1 DEF IInv, TypeOK
    <2>7. Accepted'
      BY <1>1, <1>3, <2>1, <2>2, <2>6 DEF IInv, Accepted
    <2>8. \A q \in Proc : Told(q)'
      BY <1>1, <1>3, <2>1, <2>2, <2>6 DEF IInv, Told, Ready
    <2> QED BY <1>3, <2>1, <2>2, <2>4, <2>5, <2>7, <2>8 DEF IInv
  <1>6. ASSUME NEW p \in Proc, WritelogMpi(p)
        PROVE  IInv'
    <2>1. in' = in /\ UNCHANGED <<grid, err, near, dom>> /\ pc[p] = "log"
      BY <1>6 DEF WritelogMpi
    <2>2. CASE p = xmaster /\ Fatal(err[p])
      <3>1. halted' = TRUE /\ pc' = pc
        BY <1>6, <2>2 DEF WritelogMpi
      <3> QED BY <1>3, <2>1, <3>1 DEF IInv, TypeOK, Concluded, Accepted, Told, Ready
    <2>3. CASE ~ (p = xmaster /\ Fatal(err[p]))
      <3>1. halted' = halted /\ pc' = [pc EXCEPT ![p] = "sync"]
        BY <1>6, <2>3 DEF WritelogMpi
      <3>2. TypeOK'
        BY <1>3, <2>1, <3>1 DEF IInv, TypeOK
      <3>3. in.size >= 1
        BY <2>1 DEF IInv
      <3>4. \A q \in Proc : Concluded(q)'
        BY <1>3, <2>1, <3>1 DEF IInv, TypeOK, Concluded
      <3>5. Accepted'
        <4>1. CASE p = xmaster
          BY <1>3, <2>1, <2>3, <4>1 DEF IInv, Concluded, Accepted
        <4>2. CASE p # xmaster
          BY <1>1, <1>3, <2>1, <3>1, <3>3, <4>2 DEF IInv, TypeOK, Accepted
        <4> QED BY <4>1, <4>2
      <3>6. \A q \in Proc : Ready(q)' <=> Ready(q)
        BY <2>1, <3>1 DEF IInv, TypeOK, Ready
      <3>7. \A q \in Proc : Told(q)'
        BY <1>1, <1>3, <2>1, <3>3, <3>6 DEF IInv, Told
      <3> QED BY <1>3, <2>1, <3>2, <3>3, <3>4, <3>5, <3>7 DEF IInv
    <2> QED BY <2>2, <2>3
  <1>7. ASSUME NEW p \in Proc, ReceiveDomains(p)
        PROVE  IInv'
    <2>1. /\ in' = in /\ UNCHANGED <<grid, err, near, halted>> /\ pc[p] = "sync"
          /\ p # xmaster /\ Ready(xmaster)
          /\ pc' = [pc EXCEPT ![p] = "ready"] /\ dom' = [dom EXCEPT ![p] = dom[xmaster]]
      BY <1>7 DEF ReceiveDomains, Ready
    <2>2. in.size >= 1 /\ xmaster \in Proc
      BY <1>1, <2>1 DEF IInv
    <2>3. TypeOK'
      BY <1>3, <2>1 DEF IInv, TypeOK
    <2>4. \A q \in Proc : Concluded(q)'
      BY <1>3, <2>1 DEF IInv, TypeOK, Concluded
    <2>5. pc'[xmaster] = pc[xmaster] /\ Accepted'
      BY <1>3, <2>1, <2>2 DEF IInv, TypeOK, Accepted
    <2>6. dom[xmaster] = Domains(TheGrid)
      BY <2>1, <2>2 DEF IInv, Told
    <2>7. \A q \in Proc : Told(q)'
      BY <1>3, <2>1, <2>5, <2>6 DEF IInv, TypeOK, Told, Ready
    <2> QED BY <1>3, <2>1, <2>2, <2>3, <2>4, <2>5, <2>7 DEF IInv
  <1>8. ASSUME xmaster \in Proc, Divide
        PROVE  IInv'
    <2>1. /\ in' = in /\ UNCHANGED <<grid, err, near, halted>> /\ pc[xmaster] = "sync"
          /\ pc' = [pc EXCEPT ![xmaster] = "ready"]
          /\ dom' = [dom EXCEPT ![xmaster] = Domains(grid[xmaster])]
      BY <1>8 DEF Divide
    <2>2. in.size >= 1
      BY <1>8, <2>1 DEF IInv
    <2>3. TypeOK'
      BY <1>3, <1>8, <2>1 DEF IInv, TypeOK
    <2>4. \A q \in Proc : Concluded(q)'
      BY <1>3, <1>8, <2>1 DEF IInv, TypeOK, Concluded
    <2>5. Accepted' /\ ~Fatal(TheError)
      BY <1>3, <1>8, <2>1, <2>2 DEF IInv, TypeOK, Accepted
    <2>6. grid[xmaster] = TheGrid
      BY <1>8, <2>1, <2>5 DEF IInv, Concluded
    <2>7. \A q \in Proc : Told(q)'
      BY <1>3, <1>8, <2>1, <2>6 DEF IInv, TypeOK, Told, Ready
    <2> QED BY <1>3, <2>1, <2>2, <2>3, <2>4, <2>5, <2>7 DEF IInv
  <1> QED BY <1>2, <1>4, <1>5, <1>6, <1>7, <1>8 DEF Next

LEMMA Invariant == Spec => []IInv
  BY InitIInv, NextIInv, PTL DEF Spec
-----------------------------------------------------------------------------
(* Theorems *)

\* The state of start-up has the types declared: the error of the processor
\* grid is one that xmpi_determine_processor_grid knows.
THEOREM TypeCorrect == Spec => []TypeOK
  <1>1. IInv => TypeOK
    BY DEF IInv
  <1> QED BY <1>1, Invariant, PTL

\* What the invariant says of a process that is through init.
LEMMA ReadyKnows ==
    ASSUME IInv, NEW p \in Proc, Ready(p)
    PROVE  /\ in.size >= 1 /\ ~Fatal(TheError) /\ err[p] = TheError
           /\ grid[p] = TheGrid /\ near[p] = Neighbours(TheGrid, OrankToRank(p))
           /\ dom[p] = Domains(TheGrid)
           /\ Parted(in.nx + 1, TheGrid.m)
           /\ in.ny > 2 \/ TheGrid.n = 1 => Parted(in.ny + 1, TheGrid.n)
           /\ TheGrid.m \in Nat \ {0} /\ TheGrid.n \in Nat \ {0}
           /\ TheGrid.m * TheGrid.n = in.size
           /\ in.nx \in Nat \ {0} /\ in.ny \in Nat /\ in.size \in Nat \ {0}
           /\ in.cyclic \in BOOLEAN
  <1>1. in \in Inputs /\ in.nx \in Nat \ {0} /\ in.ny \in Nat /\ in.size \in Nat
        /\ in.cyclic \in BOOLEAN
    BY InputsAssumption DEF IInv, TypeOK
  <1>2. in.size >= 1
    BY DEF IInv, Ready
  <1>3. ~Fatal(TheError)
    <2>1. xmaster \in Proc
      BY <1>1, <1>2 DEF xmaster, Proc
    <2> QED BY <1>2, <2>1 DEF IInv, Told, Ready, Accepted
  <1>4. /\ err[p] = TheError
        /\ grid[p] = TheGrid /\ near[p] = Neighbours(TheGrid, OrankToRank(p))
        /\ dom[p] = Domains(TheGrid)
    BY <1>3 DEF IInv, Concluded, Told, Ready
  <1>5. /\ TheGrid.m \in Nat \ {0} /\ TheGrid.n \in Nat \ {0}
        /\ TheGrid.m * TheGrid.n = in.size
        /\ in.nx + 1 >= 4 * TheGrid.m
        /\ in.ny > 2 => in.ny + 1 >= 4 * TheGrid.n
    BY <1>1, <1>2, <1>3, GridFits
  <1> QED BY <1>1, <1>2, <1>3, <1>4, <1>5 DEF Parted, nover

\* Nobody gets past init on a grid that does not fit, though only xmaster looks.
THEOREM BadGridStops == Spec => []NobodyPastBadGrid
  <1>1. IInv => NobodyPastBadGrid
    <2> SUFFICES ASSUME IInv, NEW p \in Proc, Ready(p)
                 PROVE  /\ ~Fatal(err[p])
                        /\ grid[p] = grid[xmaster] /\ grid[p].m * grid[p].n = in.size
                        /\ dom[p] = dom[xmaster]
      BY DEF NobodyPastBadGrid
    <2>1. xmaster \in Proc /\ Ready(xmaster)
      BY ReadyKnows DEF IInv, Told, xmaster, Proc
    <2> QED BY <2>1, ReadyKnows
  <1> QED BY <1>1, Invariant, PTL

\* One rank and only one has a point in its domain.
LEMMA OneRankHolds ==
    ASSUME NEW m, NEW n, NEW mp, NEW np, Parted(m, mp), Parted(n, np),
           NEW i \in 1..m, NEW j \in 1..n
    PROVE  \E r \in 0..(mp * np - 1) : Holders(m, n, mp, np, i, j) = {r}
  <1>1. mp \in Nat \ {0} /\ np \in Nat \ {0}
    BY DEF Parted
  <1>2. PICK a \in 0..(mp - 1) :
            /\ InPart(m, mp, a, i)
            /\ \A k \in 0..(mp - 1) : InPart(m, mp, k, i) => k = a
    BY OnePartHolds
  <1>3. PICK b \in 0..(np - 1) :
            /\ InPart(n, np, b, j)
            /\ \A k \in 0..(np - 1) : InPart(n, np, k, j) => k = b
    BY OnePartHolds
  <1> DEFINE r == a + mp * b
  <1>4. r \in 0..(mp * np - 1) /\ RowPart(mp, r) = a /\ ColPart(mp, r) = b
    <2>1. \A x \in 0..(mp - 1), y \in 0..(np - 1) :
             /\ x + mp * y \in 0..(mp * np - 1)
             /\ RowPart(mp, x + mp * y) = x /\ ColPart(mp, x + mp * y) = y
      BY <1>1, RankOfPlace
    <2> QED BY <1>2, <1>3, <2>1, Zenon
  <1>5. \A q \in 0..(mp * np - 1) :
            /\ RowPart(mp, q) \in 0..(mp - 1) /\ ColPart(mp, q) \in 0..(np - 1)
            /\ q = RowPart(mp, q) + mp * ColPart(mp, q)
    BY <1>1, RankOfPlace
  <1> HIDE DEF r
  <1>6. r \in Holders(m, n, mp, np, i, j)
    BY <1>2, <1>3, <1>4 DEF Holders, InPart
  <1>7. ASSUME NEW q \in Holders(m, n, mp, np, i, j)
        PROVE  q = r
    <2>1. /\ q \in 0..(mp * np - 1)
          /\ InPart(m, mp, RowPart(mp, q), i) /\ InPart(n, np, ColPart(mp, q), j)
      BY <1>7 DEF Holders, InPart
    <2>2. RowPart(mp, q) = a /\ ColPart(mp, q) = b
      BY <1>2, <1>3, <1>5, <2>1
    <2>3. q = a + mp * b
      BY <1>5, <2>1, <2>2
    <2> QED BY <2>3 DEF r
  <1> QED BY <1>4, <1>6, <1>7

\* The computational domains tile the global grid, for every grid and every
\* division that start-up lets through (cut along y only where ny > 2).
THEOREM DomainsTileAlways == Spec => []DomainsTile
  <1>1. IInv => DomainsTile
    <2> SUFFICES ASSUME IInv, NEW p \in Compute, Ready(p), in.ny > 2 \/ grid[p].n = 1,
                        NEW i \in 1..(in.nx + 1), NEW j \in 1..(in.ny + 1)
                 PROVE  \E r \in DOMAIN dom[p] :
                          /\ Holds(dom[p][r], i, j)
                          /\ \A q \in DOMAIN dom[p] : Holds(dom[p][q], i, j) => q = r
                          /\ WhoHas(in.nx + 1, in.ny + 1, grid[p].m, grid[p].n, i, j) = r
      BY DEF DomainsTile
    <2>1. p \in Proc
      BY InputsAssumption DEF IInv, TypeOK, Compute, Proc
    <2> DEFINE m == in.nx + 1
               n == in.ny + 1
               mp == TheGrid.m
               np == TheGrid.n
    <2>2. /\ dom[p] = Domains(TheGrid) /\ grid[p] = TheGrid
          /\ Parted(m, mp) /\ Parted(n, np) /\ mp * np = in.size
      BY <2>1, ReadyKnows
    <2> HIDE DEF m, n, mp, np
    <2>3. PICK r \in 0..(mp * np - 1) : Holders(m, n, mp, np, i, j) = {r}
      BY <2>2, OneRankHolds DEF m, n
    <2>4. DOMAIN dom[p] = 0..(mp * np - 1)
      BY <2>2 DEF Domains
    <2>5. \A q \in DOMAIN dom[p] :
             Holds(dom[p][q], i, j) <=> q \in Holders(m, n, mp, np, i, j)
      BY <2>2, <2>4 DEF Domains, Holds, Holders, m, n, mp, np
    <2>6. WhoHas(m, n, mp, np, i, j) = r
      <3>1. r \in Nat /\ {r} \subseteq Nat /\ {r} # {}
        <4>1. mp * np \in Nat
          BY <2>1, <2>2, ReadyKnows
        <4> QED BY <2>3, <4>1
      <3>2. Min({r}) = r
        BY <3>1, MinIsLeast
      <3> QED BY <2>3, <3>2 DEF WhoHas
    <2> QED BY <2>2, <2>3, <2>4, <2>5, <2>6 DEF m, n, mp, np
  <1> QED BY <1>1, Invariant, PTL

\* Right and left, bottom and top are each other's inverse, cyclic or not.
THEOREM NeighboursAlwaysMutual == Spec => []NeighboursMutual
  <1>1. IInv => NeighboursMutual
    <2> SUFFICES ASSUME IInv, NEW p \in Compute, NEW q \in Compute, Ready(p), Ready(q)
                 PROVE  /\ near[p].right = OrankToRank(q) <=> near[q].left = OrankToRank(p)
                        /\ near[p].bot = OrankToRank(q) <=> near[q].top = OrankToRank(p)
      BY DEF NeighboursMutual
    <2>1. p \in Proc /\ q \in Proc /\ in.size \in Nat
      BY InputsAssumption DEF IInv, TypeOK, Compute, Proc
    <2> DEFINE mp == TheGrid.m
               np == TheGrid.n
               r == OrankToRank(p)
               s == OrankToRank(q)
    <2>2. /\ mp \in Nat \ {0} /\ mp * np = in.size /\ in.cyclic \in BOOLEAN
          /\ near[p] = Neighbours(TheGrid, r) /\ near[q] = Neighbours(TheGrid, s)
      BY <2>1, ReadyKnows
    <2>3. r \in 0..(in.size - 1) /\ s \in 0..(in.size - 1)
      BY <2>1 DEF Compute, OrankToRank
    <2>4. /\ near[p].right = Right(mp, np, in.cyclic, r)
          /\ near[q].left = Left(mp, np, in.cyclic, s)
          /\ near[p].bot = Bot(mp, r) /\ near[q].top = Top(mp, s)
      BY <2>2 DEF Neighbours
    <2> HIDE DEF mp, np, r, s
    <2>5. Right(mp, np, in.cyclic, r) = s <=> Left(mp, np, in.cyclic, s) = r
      <3>1. /\ Right(mp, np, in.cyclic, r)
                 = IF r + mp < in.size THEN r + mp
                   ELSE IF in.cyclic THEN r + mp - in.size ELSE -1
            /\ Left(mp, np, in.cyclic, s)
                 = IF s - mp >= 0 THEN s - mp
                   ELSE IF in.cyclic THEN s - mp + in.size ELSE -1
        BY <2>2 DEF Right, Left, ProcNull
      <3> QED BY <2>1, <2>2, <2>3, <3>1
    <2>6. Bot(mp, r) = s <=> Top(mp, s) = r
      <3>1. s = r + 1 <=> r = s - 1
        BY <2>1, <2>3
      <3>2. r # -1 /\ s # -1
        BY <2>1, <2>3
      <3> QED BY <3>1, <3>2 DEF Bot, Top, ProcNull
    <2> QED BY <2>4, <2>5, <2>6 DEF r, s
  <1> QED BY <1>1, Invariant, PTL

\* The ranges of ranges_init leave no index out and compute none twice.
THEOREM RangesTileAlways == Spec => []RangesTile
  <1>1. IInv => RangesTile
    <2> SUFFICES ASSUME IInv, NEW p \in Compute, Ready(p), NEW sort \in Kind
                 PROVE  /\ EachComputedOnce(sort, "row", in.nx + 1, grid[p].m, FALSE)
                        /\ in.ny > 2 =>
                             EachComputedOnce(sort, "col", in.ny + 1, grid[p].n, in.cyclic)
      BY DEF RangesTile
    <2>1. p \in Proc
      BY InputsAssumption DEF IInv, TypeOK, Compute, Proc
    <2>2. /\ grid[p] = TheGrid /\ Parted(in.nx + 1, TheGrid.m)
          /\ in.ny > 2 => Parted(in.ny + 1, TheGrid.n)
          /\ in.ny \in Nat /\ in.cyclic \in BOOLEAN
      BY <2>1, ReadyKnows
    <2>3. EachComputedOnce(sort, "row", in.nx + 1, TheGrid.m, FALSE)
      BY <2>2, RangesFit DEF Dim
    <2>4. in.ny > 2 => EachComputedOnce(sort, "col", in.ny + 1, TheGrid.n, in.cyclic)
      BY <2>2, RangesFit DEF Dim
    <2> QED BY <2>2, <2>3, <2>4
  <1> QED BY <1>1, Invariant, PTL
-----------------------------------------------------------------------------
(* The partners of the shifts *)

\* Whom a process sends to in shift k, and whom it receives from.
DestOf(c, p, k) ==
    CASE k = 1 -> Right(MP, NP, c, p) [] k = 2 -> Left(MP, NP, c, p)
      [] k = 3 -> Top(MP, p)          [] k = 4 -> Bot(MP, p)

\* The shift in the opposite direction.
Back(k) == CASE k = 1 -> 2 [] k = 2 -> 1 [] k = 3 -> 4 [] k = 4 -> 3

SourceOf(c, p, k) == DestOf(c, p, Back(k))

LEMMA RankFacts ==
    /\ MP \in Nat \ {0} /\ NP \in Nat \ {0} /\ MP * NP \in Nat /\ MP * NP >= MP
    /\ Rank = 0..(MP * NP - 1) /\ Rank \subseteq Nat /\ ProcNull \notin Rank
  <1>1. MP \in Nat \ {0} /\ NP \in Nat \ {0}
    BY ExchangeAssumption
  <1>2. MP * NP = MP + MP * (NP - 1) /\ MP * (NP - 1) \in Nat
    BY <1>1
  <1>3. MP * NP \in Nat /\ MP * NP >= MP
    BY <1>1, <1>2
  <1> QED BY <1>1, <1>3 DEF Rank, ProcNull

\* The places of two partners in the processor grid.
LEMMA PartnerPlaces ==
    ASSUME NEW c \in BOOLEAN, NEW p \in Rank, NEW q \in Rank
    PROVE  /\ Right(MP, NP, c, p) = q =>
                /\ RowPart(MP, q) = RowPart(MP, p)
                /\ \/ ColPart(MP, q) = ColPart(MP, p) + 1
                   \/ c /\ ColPart(MP, p) = NP - 1 /\ ColPart(MP, q) = 0
           /\ Bot(MP, p) = q =>
                /\ ColPart(MP, q) = ColPart(MP, p)
                /\ RowPart(MP, q) = RowPart(MP, p) + 1
  <1>1. /\ MP \in Nat \ {0} /\ NP \in Nat \ {0} /\ MP * NP \in Nat
        /\ p \in 0..(MP * NP - 1) /\ q \in 0..(MP * NP - 1)
    BY RankFacts
  <1> DEFINE a == RowPart(MP, p)
             b == ColPart(MP, p)
  <1>2. a \in 0..(MP - 1) /\ b \in 0..(NP - 1) /\ p = a + MP * b
    BY <1>1, RankOfPlace
  <1>3. \A x \in 0..(MP - 1), y \in 0..(NP - 1) :
           /\ x + MP * y \in 0..(MP * NP - 1)
           /\ RowPart(MP, x + MP * y) = x /\ ColPart(MP, x + MP * y) = y
    BY <1>1, RankOfPlace
  <1> HIDE DEF a, b
  <1>4. /\ MP * b \in Nat /\ MP * (b + 1) = MP * b + MP
        /\ MP * NP = MP * b + MP * (NP - b)
    BY <1>1, <1>2
  <1>5. ASSUME Right(MP, NP, c, p) = q
        PROVE  /\ RowPart(MP, q) = a
               /\ ColPart(MP, q) = b + 1 \/ (c /\ b = NP - 1 /\ ColPart(MP, q) = 0)
    <2>1. CASE b = NP - 1
      <3>1. MP * NP = MP * b + MP
        BY <1>1, <1>2, <1>4, <2>1
      <3>2. ~ (p + MP < MP * NP)
        BY <1>1, <1>2, <1>4, <3>1
      <3>3. c /\ q = p + MP - MP * NP
        BY <1>1, <1>5, <3>2 DEF Right, ProcNull
      <3>4. q = a + MP * 0
        BY <1>1, <1>2, <1>4, <3>1, <3>3
      <3>5. 0 \in 0..(NP - 1)
        BY <1>1
      <3>6. RowPart(MP, q) = a /\ ColPart(MP, q) = 0
        BY <1>2, <1>3, <3>4, <3>5
      <3> QED BY <2>1, <3>3, <3>6
    <2>2. CASE b # NP - 1
      <3>1. b + 1 \in 0..(NP - 1)
        BY <1>1, <1>2, <2>2
      <3>2. MP * (NP - b) = MP + MP * (NP - b - 1) /\ MP * (NP - b - 1) >= MP
        <4>1. NP - b - 1 \in Nat \ {0}
          BY <1>1, <1>2, <3>1
        <4>2. \A y \in Nat \ {0} : MP * (y + 1) = MP + MP * y /\ MP * y >= MP
          BY <1>1
        <4> QED BY <1>1, <1>2, <4>1, <4>2
      <3>3. p + MP < MP * NP
        BY <1>1, <1>2, <1>4, <3>2
      <3>4. q = p + MP
        BY <1>5, <3>3 DEF Right
      <3>5. q = a + MP * (b + 1)
        BY <1>1, <1>2, <1>4, <3>4
      <3> QED BY <1>2, <1>3, <3>1, <3>5
    <2> QED BY <2>1, <2>2
  <1>6. ASSUME Bot(MP, p) = q
        PROVE  ColPart(MP, q) = b /\ RowPart(MP, q) = a + 1
    <2>1. (p + 1) % MP # 0 /\ q = p + 1
      BY <1>1, <1>6 DEF Bot, ProcNull
    <2>2. a + 1 # MP
      <3>1. SUFFICES ASSUME a + 1 = MP PROVE (p + 1) % MP = 0
        BY <2>1
      <3>2. p + 1 = MP * (b + 1)
        BY <1>1, <1>2, <1>4, <3>1
      <3>3. b + 1 \in Nat
        BY <1>2
      <3> HIDE <1>4
      <3> QED BY <1>1, <3>2, <3>3, SMT
    <2>3. a + 1 \in 0..(MP - 1) /\ q = (a + 1) + MP * b
      BY <1>1, <1>2, <1>4, <2>1, <2>2
    <2> QED BY <1>2, <1>3, <2>3
  <1> QED BY <1>5, <1>6 DEF a, b

\* What p sends to q in shift k is what q expects from p.
LEMMA Partners ==
    ASSUME NEW c \in BOOLEAN, NEW p \in Rank, NEW k \in 1..4
    PROVE  /\ DestOf(c, p, k) \in Rank \cup {ProcNull}
           /\ \A q \in Rank : DestOf(c, p, k) = q <=> SourceOf(c, q, k) = p
           /\ Back(k) \in 1..4 /\ Back(Back(k)) = k
  <1>1. /\ MP \in Nat \ {0} /\ MP * NP \in Nat /\ MP * NP >= MP
        /\ Rank = 0..(MP * NP - 1) /\ p \in 0..(MP * NP - 1)
    BY RankFacts
  <1> DEFINE n == MP * NP
  <1>2. n \in Nat /\ n >= MP /\ MP \in Nat \ {0} /\ p \in 0..(n - 1)
    BY <1>1
  <1>3. \A q \in 0..(n - 1) :
          /\ Right(MP, NP, c, q) = IF q + MP < n THEN q + MP ELSE IF c THEN q + MP - n ELSE -1
          /\ Left(MP, NP, c, q) = IF q - MP >= 0 THEN q - MP ELSE IF c THEN q - MP + n ELSE -1
          /\ Top(MP, q) = IF q % MP = 0 THEN -1 ELSE q - 1
          /\ Bot(MP, q) = IF (q + 1) % MP = 0 THEN -1 ELSE q + 1
    BY DEF Right, Left, Top, Bot, ProcNull
  <1> HIDE DEF n
  <1>4. \A q \in 0..(n - 1) : Right(MP, NP, c, p) = q <=> Left(MP, NP, c, q) = p
    BY <1>2, <1>3
  <1>5. \A q \in 0..(n - 1) : Left(MP, NP, c, p) = q <=> Right(MP, NP, c, q) = p
    BY <1>2, <1>3
  <1>6. \A q \in 0..(n - 1) : Bot(MP, p) = q <=> Top(MP, q) = p
    <2> TAKE q \in 0..(n - 1)
    <2>1. q # -1 /\ p # -1 /\ (q = p + 1 <=> q - 1 = p)
      BY <1>2
    <2>2. q = p + 1 => (q % MP = 0 <=> (p + 1) % MP = 0)
      OBVIOUS
    <2> QED BY <1>2, <1>3, <2>1, <2>2
  <1>7. \A q \in 0..(n - 1) : Top(MP, p) = q <=> Bot(MP, q) = p
    <2> TAKE q \in 0..(n - 1)
    <2>1. q # -1 /\ p # -1 /\ (q + 1 = p <=> q = p - 1)
      BY <1>2
    <2>2. q + 1 = p => (p % MP = 0 <=> (q + 1) % MP = 0)
      OBVIOUS
    <2> QED BY <1>2, <1>3, <2>1, <2>2
  <1>8. /\ Right(MP, NP, c, p) \in 0..(n - 1) \cup {-1}
        /\ Left(MP, NP, c, p) \in 0..(n - 1) \cup {-1}
    BY <1>2, <1>3
  <1>9. Top(MP, p) \in 0..(n - 1) \cup {-1} /\ Bot(MP, p) \in 0..(n - 1) \cup {-1}
    <2>1. p % MP # 0 => p # 0
      BY <1>1, SMT
    <2>2. (p + 1) % MP # 0 => p + 1 # n
      <3>1. SUFFICES ASSUME p + 1 = n PROVE (p + 1) % MP = 0
        OBVIOUS
      <3>2. NP \in Nat /\ p + 1 = MP * NP
        BY <3>1, RankFacts DEF n
      <3>3. \A x \in Nat : (MP * x) % MP = 0
        BY <1>2, SMT
      <3>4. (MP * NP) % MP = 0
        BY <3>2, <3>3
      <3> QED BY <3>2, <3>4, Zenon
    <2>3. Top(MP, p) = -1 \/ (p # 0 /\ Top(MP, p) = p - 1)
      BY <1>2, <1>3, <2>1, Zenon
    <2>4. Bot(MP, p) = -1 \/ (p + 1 # n /\ Bot(MP, p) = p + 1)
      BY <1>2, <1>3, <2>2, Zenon
    <2> QED BY <1>2, <2>3, <2>4
  <1>10. /\ DestOf(c, p, 1) = Right(MP, NP, c, p) /\ DestOf(c, p, 2) = Left(MP, NP, c, p)
         /\ DestOf(c, p, 3) = Top(MP, p) /\ DestOf(c, p, 4) = Bot(MP, p)
         /\ \A q \in Rank :
              /\ SourceOf(c, q, 1) = Left(MP, NP, c, q)
              /\ SourceOf(c, q, 2) = Right(MP, NP, c, q)
              /\ SourceOf(c, q, 3) = Bot(MP, q) /\ SourceOf(c, q, 4) = Top(MP, q)
    BY DEF DestOf, SourceOf, Back
  <1>11. Rank = 0..(n - 1) /\ ProcNull = -1
    BY <1>1 DEF n, ProcNull
  <1>12. DestOf(c, p, k) \in Rank \cup {ProcNull}
    <2>1. \A j \in 1..4 : j = 1 \/ j = 2 \/ j = 3 \/ j = 4
      OBVIOUS
    <2> QED BY <1>8, <1>9, <1>10, <1>11, <2>1
  <1>13. ASSUME NEW q \in Rank
         PROVE  DestOf(c, p, k) = q <=> SourceOf(c, q, k) = p
    <2>1. k = 1 \/ k = 2 \/ k = 3 \/ k = 4
      OBVIOUS
    <2> QED BY <1>4, <1>5, <1>6, <1>7, <1>10, <1>11, <2>1
  <1> QED BY <1>12, <1>13 DEF Back

\* The partners along a row are never the partners along a column.
LEMMA Axes ==
    ASSUME NEW c \in BOOLEAN, NEW p \in Rank, NEW q \in Rank,
           NEW k \in 1..4, NEW j \in 1..4, DestOf(c, p, k) = q, DestOf(c, p, j) = q
    PROVE  k \in {1, 2} <=> j \in {1, 2}
  <1>1. ASSUME NEW i \in 1..4, DestOf(c, p, i) = q
        PROVE  i \in {1, 2} <=> RowPart(MP, q) = RowPart(MP, p)
    <2>1. RowPart(MP, p) \in Int /\ RowPart(MP, q) \in Int
      <3>1. \A r \in 0..(MP * NP - 1) :
              /\ RowPart(MP, r) \in 0..(MP - 1) /\ ColPart(MP, r) \in 0..(NP - 1)
              /\ r = RowPart(MP, r) + MP * ColPart(MP, r)
        BY RankFacts, RankOfPlace
      <3> QED BY <3>1, RankFacts
    <2>2. SourceOf(c, q, i) = p
      BY <1>1, Partners
    <2>3. CASE i = 1
      BY <1>1, <2>3, PartnerPlaces DEF DestOf
    <2>4. CASE i = 2
      BY <2>2, <2>4, PartnerPlaces DEF DestOf, SourceOf, Back
    <2>5. CASE i = 3
      BY <2>1, <2>2, <2>5, PartnerPlaces DEF DestOf, SourceOf, Back
    <2>6. CASE i = 4
      BY <1>1, <2>1, <2>6, PartnerPlaces DEF DestOf
    <2> QED BY <2>3, <2>4, <2>5, <2>6
  <1> QED BY <1>1
-----------------------------------------------------------------------------
(* What a process knows of its submatrix, and what a block carries.  The    *)
(* exchanges of all rounds are numbered: exchange n is shift ShiftOf(n) of   *)
(* round RoundOf(n).  c and kd stand for cyclic and kind.                    *)

ShiftOf(n) == ((n - 1) % 4) + 1
RoundOf(n) == ((n - 1) \div 4) + 1

\* The offsets sent and filled in shift k, and what they are relative to.
Offsets(kd, k) ==
    CASE kd = "ee" -> (CASE k \in {1, 4} -> 1..2 [] k \in {2, 3} -> 3..4)
      [] kd = "uu" -> (CASE k = 1 -> 1..2 [] k = 2 -> 3..4 [] k = 3 -> 2..3 [] k = 4 -> 1..1)
      [] kd = "vv" -> (CASE k = 1 -> 1..1 [] k = 2 -> 2..3 [] k = 3 -> 3..4 [] k = 4 -> 1..2)
      [] kd = "zs" -> (CASE k \in {1, 4} -> 2..2 [] k \in {2, 3} -> 3..3)

FromAt(p, k) == CASE k = 1 -> ln[p] - nover [] k = 4 -> lm[p] - nover [] k \in {2, 3} -> 0
ToAt(p, k)   == CASE k = 2 -> ln[p] - nover [] k = 3 -> lm[p] - nover [] k \in {1, 4} -> 0

RowsOf(kd, p) ==
    RangeLow(kd, "row", M, istop(p))..(lm[p] - RangeGap(kd, "row", M, isbot(p)))
ColsOf(c, kd, p) ==
    RangeLow(kd, "col", N, First(ColPart(MP, p)) /\ ~c)
      ..(ln[p] - RangeGap(kd, "col", N, Last(NP, ColPart(MP, p)) /\ ~c))

\* The rows or columns filled in shift h, by those that have a partner.
Filled(c, kd, p, h) ==
    IF SourceOf(c, p, h) = ProcNull THEN {} ELSE {ToAt(p, h) + o : o \in Offsets(kd, h)}

\* The rows and columns that are up to date after shift k, corners included.
FreshRows(c, kd, p, k) ==
    RowsOf(kd, p) \cup (IF k >= 3 THEN Filled(c, kd, p, 3) ELSE {})
                  \cup (IF k >= 4 THEN Filled(c, kd, p, 4) ELSE {})
FreshCols(c, kd, p, k) ==
    ColsOf(c, kd, p) \cup (IF k >= 1 THEN Filled(c, kd, p, 1) ELSE {})
                     \cup (IF k >= 2 THEN Filled(c, kd, p, 2) ELSE {})

PointOf(c, p, i, j) ==
    <<GlobalIndex(M, MP, RowPart(MP, p), i), Wrapped(c, GlobalIndex(N, NP, ColPart(MP, p), j))>>

\* A cyclic grid on one processor column needs six columns: with less, the
\* columns it fills are among those it sends.
Wide(c) == ~c \/ NP > 1 \/ N > 5

\* The block of exchange n from process s: the values of that very round, in
\* the rows (columns) that the receiver relies on.
BlockOK(c, kd, s, n, b) ==
    LET k == ShiftOf(n) IN
    /\ DOMAIN b = Offsets(kd, k)
    /\ Wide(c) => \A o \in Offsets(kd, k) :
         /\ k \in {1, 2} => \A i \in RowsOf(kd, s) :
              b[o][i] = <<RoundOf(n), PointOf(c, s, i, FromAt(s, k) + o)>>
         /\ k \in {3, 4} => \A j \in FreshCols(c, kd, s, 2) :
              b[o][j] = <<RoundOf(n), PointOf(c, s, FromAt(s, k) + o, j)>>

\* A channel holds the blocks of the exchanges in S, in their order.
Labelled(c, kd, s, C, S) ==
    \E A : \E L \in Seq(Nat) :
        /\ C \in Seq(A) /\ Len(L) = Len(C)
        /\ \A i, j \in 1..Len(C) : i < j => L[i] < L[j]
        /\ \A n : n \in S <=> \E i \in 1..Len(C) : L[i] = n
        /\ \A i \in 1..Len(C) : BlockOK(c, kd, s, L[i], C[i])
-----------------------------------------------------------------------------
(* Channels *)

\* A new block comes last.
LEMMA LabelAppend ==
    ASSUME NEW c, NEW kd, NEW s, NEW C, NEW S, Labelled(c, kd, s, C, S),
           NEW n \in Nat, \A m \in S : m < n, NEW b, BlockOK(c, kd, s, n, b)
    PROVE  Labelled(c, kd, s, Append(C, b), S \cup {n})
  <1>1. PICK A0 : \E L \in Seq(Nat) :
            /\ C \in Seq(A0) /\ Len(L) = Len(C)
            /\ \A i, j \in 1..Len(C) : i < j => L[i] < L[j]
            /\ \A m : m \in S <=> \E i \in 1..Len(C) : L[i] = m
            /\ \A i \in 1..Len(C) : BlockOK(c, kd, s, L[i], C[i])
    BY DEF Labelled
  <1>2. PICK L \in Seq(Nat) :
            /\ C \in Seq(A0) /\ Len(L) = Len(C)
            /\ \A i, j \in 1..Len(C) : i < j => L[i] < L[j]
            /\ \A m : m \in S <=> \E i \in 1..Len(C) : L[i] = m
            /\ \A i \in 1..Len(C) : BlockOK(c, kd, s, L[i], C[i])
    BY <1>1
  <1> DEFINE A == A0 \cup {b}
             D == Append(C, b)
             K == Append(L, n)
  <1>3. ASSUME NEW T, NEW f \in Seq(T), NEW x \in T
        PROVE  /\ Append(f, x) \in Seq(T) /\ Len(Append(f, x)) = Len(f) + 1 /\ Len(f) \in Nat
               /\ Append(f, x)[Len(f) + 1] = x
               /\ \A i \in 1..Len(f) : Append(f, x)[i] = f[i]
    OBVIOUS
  <1>4. C \in Seq(A) /\ b \in A
    <2>1. ASSUME NEW T, NEW U, T \subseteq U, NEW f \in Seq(T)
          PROVE  f \in Seq(U)
      BY <2>1
    <2> QED BY <1>2, <2>1
  <1>5. /\ D \in Seq(A) /\ Len(D) = Len(C) + 1 /\ Len(C) \in Nat /\ D[Len(C) + 1] = b
        /\ \A i \in 1..Len(C) : D[i] = C[i]
    BY <1>3, <1>4
  <1>6. /\ K \in Seq(Nat) /\ Len(K) = Len(C) + 1 /\ K[Len(C) + 1] = n
        /\ \A i \in 1..Len(C) : K[i] = L[i]
    BY <1>2, <1>3
  <1> HIDE DEF A, D, K
  <1> DEFINE e == Len(C)
  <1>7. e \in Nat /\ Len(D) = e + 1 /\ Len(K) = e + 1 /\ e + 1 \in 1..(e + 1)
        /\ \A i \in 1..(e + 1) : i \in 1..e \/ i = e + 1
    BY <1>5, <1>6
  <1>8. /\ D[e + 1] = b /\ K[e + 1] = n
        /\ \A i \in 1..e : D[i] = C[i] /\ K[i] = L[i] /\ i \in 1..(e + 1) /\ L[i] \in S
    BY <1>2, <1>5, <1>6, <1>7
  <1>9. \A i, j \in 1..e : i < j => L[i] < L[j]
    BY <1>2
  <1>10. \A m : m \in S <=> \E i \in 1..e : L[i] = m
    BY <1>2
  <1>11. \A i \in 1..e : BlockOK(c, kd, s, L[i], C[i])
    BY <1>2
  <1> HIDE DEF e
  <1>12. \A i \in 1..(e + 1) : BlockOK(c, kd, s, K[i], D[i])
    BY <1>7, <1>8, <1>11, Zenon
  <1>13. \A m : m \in S \cup {n} <=> \E i \in 1..(e + 1) : K[i] = m
    BY <1>7, <1>8, <1>10, Zenon
  <1>14. ASSUME NEW i \in 1..(e + 1), NEW j \in 1..(e + 1), i < j
         PROVE  K[i] < K[j]
    <2>1. i \in 1..e
      BY <1>7, <1>14
    <2>2. CASE j \in 1..e
      BY <1>8, <1>9, <1>14, <2>1, <2>2
    <2>3. CASE j = e + 1
      BY <1>8, <2>1, <2>3
    <2> QED BY <1>7, <2>2, <2>3
  <1>15. /\ D \in Seq(A) /\ Len(K) = Len(D) /\ K \in Seq(Nat) /\ Len(D) = e + 1
    BY <1>5, <1>6, <1>7
  <1>16. 1..(e + 1) = 1..Len(D)
    BY <1>15
  <1>17. /\ \A i, j \in 1..Len(D) : i < j => K[i] < K[j]
         /\ \A m : m \in S \cup {n} <=> \E i \in 1..Len(D) : K[i] = m
         /\ \A i \in 1..Len(D) : BlockOK(c, kd, s, K[i], D[i])
    BY <1>12, <1>13, <1>14, <1>16
  <1>18. Labelled(c, kd, s, D, S \cup {n})
    BY <1>15, <1>17, Zenon DEF Labelled
  <1> QED BY <1>18 DEF D

\* The first of the exchanges comes first.
LEMMA LabelHead ==
    ASSUME NEW c, NEW kd, NEW s, NEW C, NEW S, Labelled(c, kd, s, C, S),
           NEW n \in S, \A m \in S : n <= m
    PROVE  /\ BlockOK(c, kd, s, n, Head(C))
           /\ Labelled(c, kd, s, Tail(C), S \ {n})
  <1>1. PICK A : \E L \in Seq(Nat) :
            /\ C \in Seq(A) /\ Len(L) = Len(C)
            /\ \A i, j \in 1..Len(C) : i < j => L[i] < L[j]
            /\ \A m : m \in S <=> \E i \in 1..Len(C) : L[i] = m
            /\ \A i \in 1..Len(C) : BlockOK(c, kd, s, L[i], C[i])
    BY DEF Labelled
  <1>2. PICK L \in Seq(Nat) :
            /\ C \in Seq(A) /\ Len(L) = Len(C)
            /\ \A i, j \in 1..Len(C) : i < j => L[i] < L[j]
            /\ \A m : m \in S <=> \E i \in 1..Len(C) : L[i] = m
            /\ \A i \in 1..Len(C) : BlockOK(c, kd, s, L[i], C[i])
    BY <1>1
  <1>3. ASSUME NEW T, NEW f \in Seq(T)
        PROVE  /\ Len(f) \in Nat
               /\ 1 <= Len(f) => /\ f # <<>> /\ Head(f) = f[1]
                                 /\ Tail(f) \in Seq(T) /\ Len(Tail(f)) = Len(f) - 1
                                 /\ \A i \in 1..(Len(f) - 1) : Tail(f)[i] = f[i + 1]
               /\ \A i \in 1..Len(f) : f[i] \in T
    OBVIOUS
  <1>4. PICK h \in 1..Len(C) : L[h] = n
    BY <1>2
  <1> DEFINE e == Len(C)
  <1>5. e \in Nat /\ 1 <= e /\ e = Len(L)
    BY <1>2, <1>3, <1>4
  <1>6. /\ Head(C) = C[1] /\ Tail(C) \in Seq(A) /\ Len(Tail(C)) = e - 1
        /\ \A i \in 1..(e - 1) : Tail(C)[i] = C[i + 1]
    BY <1>2, <1>3, <1>5
  <1>7. /\ Tail(L) \in Seq(Nat) /\ Len(Tail(L)) = e - 1
        /\ \A i \in 1..(e - 1) : Tail(L)[i] = L[i + 1]
        /\ \A i \in 1..e : L[i] \in Nat
    BY <1>2, <1>3, <1>5
  <1>8. \A i, j \in 1..e : i < j => L[i] < L[j]
    BY <1>2
  <1>9. \A m : m \in S <=> \E i \in 1..e : L[i] = m
    BY <1>2
  <1>10. \A i \in 1..e : BlockOK(c, kd, s, L[i], C[i])
    BY <1>2
  <1>11. h \in 1..e
    BY <1>4
  <1> DEFINE D == Tail(C)
             K == Tail(L)
  <1>12. /\ D \in Seq(A) /\ K \in Seq(Nat) /\ Len(D) = e - 1 /\ Len(K) = Len(D)
         /\ \A i \in 1..(e - 1) : D[i] = C[i + 1] /\ K[i] = L[i + 1]
    BY <1>6, <1>7
  <1> HIDE DEF e, D, K
  <1>13. 1 \in 1..e /\ L[1] = n
    <2>1. 1 \in 1..e
      BY <1>5
    <2>2. L[1] \in S
      BY <1>9, <2>1
    <2>3. CASE h = 1
      BY <1>4, <2>1, <2>3
    <2>4. CASE h # 1
      <3>1. 1 < h
        BY <1>5, <1>11, <2>4
      <3>2. L[1] < L[h]
        BY <1>8, <1>11, <2>1, <3>1
      <3>3. n <= L[1] /\ n \in Nat /\ L[1] \in Nat
        BY <1>4, <1>7, <1>11, <2>1, <2>2
      <3> QED BY <1>4, <3>2, <3>3
    <2> QED BY <2>1, <2>3, <2>4
  <1>14. BlockOK(c, kd, s, n, Head(C))
    BY <1>6, <1>10, <1>13
  <1>15. \A i \in 1..(e - 1) : i + 1 \in 1..e /\ 1 < i + 1
    BY <1>5
  <1>16. \A i \in 1..(e - 1) : BlockOK(c, kd, s, K[i], D[i])
    BY <1>10, <1>12, <1>15, Zenon
  <1>17. ASSUME NEW i \in 1..(e - 1), NEW j \in 1..(e - 1), i < j
         PROVE  K[i] < K[j]
    <2>1. i + 1 < j + 1
      BY <1>5, <1>17
    <2> QED BY <1>8, <1>12, <1>15, <2>1
  <1>18. ASSUME NEW m
         PROVE  m \in S \ {n} <=> \E i \in 1..(e - 1) : K[i] = m
    <2>1. ASSUME m \in S \ {n}
          PROVE  \E i \in 1..(e - 1) : K[i] = m
      <3>1. PICK j \in 1..e : L[j] = m
        BY <1>9, <2>1
      <3>2. j # 1
        BY <1>13, <2>1, <3>1
      <3>3. j - 1 \in 1..(e - 1) /\ (j - 1) + 1 = j
        BY <1>5, <3>1, <3>2
      <3>4. K[j - 1] = m
        BY <1>12, <3>1, <3>3
      <3> QED BY <3>3, <3>4
    <2>2. ASSUME NEW i \in 1..(e - 1), K[i] = m
          PROVE  m \in S \ {n}
      <3>1. L[i + 1] = m /\ i + 1 \in 1..e /\ 1 < i + 1
        BY <1>12, <1>15, <2>2
      <3>2. m \in S
        BY <1>9, <3>1
      <3>3. L[1] < L[i + 1] /\ L[1] \in Nat
        BY <1>7, <1>8, <1>13, <3>1
      <3>4. n < m /\ n \in Nat
        BY <1>13, <3>1, <3>3
      <3>5. m # n
        BY <3>4
      <3> QED BY <3>2, <3>5
    <2> QED BY <2>1, <2>2
  <1>19. 1..(e - 1) = 1..Len(D)
    BY <1>12
  <1>20. /\ \A i, j \in 1..Len(D) : i < j => K[i] < K[j]
         /\ \A m : m \in S \ {n} <=> \E i \in 1..Len(D) : K[i] = m
         /\ \A i \in 1..Len(D) : BlockOK(c, kd, s, K[i], D[i])
    BY <1>16, <1>17, <1>18, <1>19
  <1>21. Labelled(c, kd, s, D, S \ {n})
    BY <1>12, <1>20, Zenon DEF Labelled
  <1> QED BY <1>14, <1>21 DEF D

\* An empty channel carries nothing; three blocks are of three exchanges.
LEMMA LabelCount ==
    ASSUME NEW c, NEW kd, NEW s, NEW C, NEW S, Labelled(c, kd, s, C, S)
    PROVE  /\ Len(C) \in Nat
           /\ C # <<>> => S # {}
           /\ Len(C) > 2 => \E x, y, z \in S : x < y /\ y < z
  <1>1. PICK A : \E L \in Seq(Nat) :
            /\ C \in Seq(A) /\ Len(L) = Len(C)
            /\ \A i, j \in 1..Len(C) : i < j => L[i] < L[j]
            /\ \A m : m \in S <=> \E i \in 1..Len(C) : L[i] = m
            /\ \A i \in 1..Len(C) : BlockOK(c, kd, s, L[i], C[i])
    BY DEF Labelled
  <1>2. PICK L \in Seq(Nat) :
            /\ C \in Seq(A) /\ Len(L) = Len(C)
            /\ \A i, j \in 1..Len(C) : i < j => L[i] < L[j]
            /\ \A m : m \in S <=> \E i \in 1..Len(C) : L[i] = m
    BY <1>1
  <1>3. ASSUME NEW T, NEW f \in Seq(T)
        PROVE  Len(f) \in Nat /\ (f # <<>> => 1 <= Len(f))
    OBVIOUS
  <1>4. Len(C) \in Nat /\ (C # <<>> => 1 <= Len(C))
    BY <1>2, <1>3
  <1>5. ASSUME C # <<>>
        PROVE  S # {}
    <2>1. 1 \in 1..Len(C)
      BY <1>4, <1>5
    <2>2. L[1] \in S
      BY <1>2, <2>1
    <2> QED BY <2>2
  <1>6. ASSUME Len(C) > 2
        PROVE  \E x, y, z \in S : x < y /\ y < z
    <2>1. 1 \in 1..Len(C) /\ 2 \in 1..Len(C) /\ 3 \in 1..Len(C) /\ 1 < 2 /\ 2 < 3
      BY <1>4, <1>6
    <2>2. L[1] \in S /\ L[2] \in S /\ L[3] \in S
      BY <1>2, <2>1
    <2>3. L[1] < L[2] /\ L[2] < L[3]
      BY <1>2, <2>1
    <2> QED BY <2>2, <2>3
  <1> QED BY <1>4, <1>5, <1>6

LEMMA LabelEmpty ==
    ASSUME NEW c, NEW kd, NEW s
    PROVE  Labelled(c, kd, s, <<>>, {})
  <1>1. <<>> \in Seq(Nat) /\ Len(<<>>) = 0 /\ 1..0 = {}
    OBVIOUS
  <1>2. \A i \in 1..0 : FALSE
    BY <1>1
  <1> QED BY <1>1, <1>2, Zenon DEF Labelled
-----------------------------------------------------------------------------
(* The invariant of the exchange *)

\* How many exchanges a process has completed, and to how many it gave.
Taken(p) == IF phase[p] = 0 THEN 4 * round[p] ELSE 4 * (round[p] - 1) + phase[p] - 1
Given(p) == Taken(p) + (IF sent[p] THEN 1 ELSE 0)

UnderWay(s, d) ==
    {n \in Nat : Taken(d) < n /\ n <= Given(s) /\ DestOf(cyclic, s, ShiftOf(n)) = d}

Shape ==
    /\ cyclic \in BOOLEAN /\ kind \in Kind
    /\ round \in [Rank -> Nat] /\ phase \in [Rank -> 0..4] /\ sent \in [Rank -> BOOLEAN]
    /\ DOMAIN chan = Rank /\ \A p \in Rank : DOMAIN chan[p] = Rank

\* A process is in a shift only in a round, and gives only in a shift.
Begun == \A p \in Rank : IF phase[p] = 0 THEN ~sent[p] ELSE round[p] > 0

\* What has been taken was given before.
TakenWasGiven ==
    \A s, d \in Rank : \A n \in 1..Taken(d) :
        DestOf(cyclic, s, ShiftOf(n)) = d => n <= Given(s)

\* Between two processes is what the one gave and the other has not taken.
Channels ==
    \A s, d \in Rank : Labelled(cyclic, kind, s, chan[s][d], UnderWay(s, d))

Protocol == Shape /\ Begun /\ TakenWasGiven /\ Channels
-----------------------------------------------------------------------------
(* Exchanges in order *)

LEMMA ExchangeNumber ==
    ASSUME NEW r \in Nat \ {0}, NEW k \in 1..4
    PROVE  /\ 4 * (r - 1) + k \in Nat \ {0}
           /\ ShiftOf(4 * (r - 1) + k) = k /\ RoundOf(4 * (r - 1) + k) = r
  <1>1. (4 * (r - 1) + k - 1) % 4 = k - 1 /\ (4 * (r - 1) + k - 1) \div 4 = r - 1
    OBVIOUS
  <1> QED BY <1>1 DEF ShiftOf, RoundOf

LEMMA NumberExchange ==
    ASSUME NEW n \in Nat \ {0}
    PROVE  /\ ShiftOf(n) \in 1..4 /\ RoundOf(n) \in Nat \ {0}
           /\ n = 4 * (RoundOf(n) - 1) + ShiftOf(n)
  BY DEF ShiftOf, RoundOf

\* A process gives ahead of what it takes, by the shift it is in.
LEMMA Counts ==
    ASSUME Shape, Begun, NEW p \in Rank
    PROVE  /\ Taken(p) \in Nat /\ Given(p) \in Nat /\ round[p] \in Nat /\ phase[p] \in 0..4
           /\ Taken(p) <= Given(p) /\ Given(p) <= Taken(p) + 1
           /\ 4 * (round[p] - 1) <= Taken(p) /\ Given(p) <= 4 * round[p]
           /\ phase[p] # 0 =>
                /\ round[p] \in Nat \ {0} /\ Taken(p) + 1 = 4 * (round[p] - 1) + phase[p]
                /\ ShiftOf(Taken(p) + 1) = phase[p] /\ RoundOf(Taken(p) + 1) = round[p]
  <1>1. round[p] \in Nat /\ phase[p] \in 0..4
    BY DEF Shape
  <1>2. IF phase[p] = 0 THEN ~sent[p] ELSE round[p] > 0
    BY DEF Begun
  <1>3. phase[p] # 0 =>
          /\ round[p] \in Nat \ {0} /\ phase[p] \in 1..4
          /\ Taken(p) + 1 = 4 * (round[p] - 1) + phase[p]
    BY <1>1, <1>2 DEF Taken
  <1>4. phase[p] # 0 =>
          ShiftOf(Taken(p) + 1) = phase[p] /\ RoundOf(Taken(p) + 1) = round[p]
    BY <1>3, ExchangeNumber
  <1>5. Taken(p) \in Nat /\ 4 * (round[p] - 1) <= Taken(p) /\ Taken(p) <= 4 * round[p]
        /\ (phase[p] # 0 => Taken(p) + 1 <= 4 * round[p])
    BY <1>1, <1>2 DEF Taken
  <1>6. /\ Given(p) \in Nat /\ Taken(p) <= Given(p) /\ Given(p) <= Taken(p) + 1
        /\ Given(p) <= 4 * round[p]
    <2>1. CASE sent[p]
      BY <1>2, <1>5, <2>1 DEF Given
    <2>2. CASE ~sent[p]
      BY <1>5, <2>2 DEF Given
    <2> QED BY <2>1, <2>2
  <1> QED BY <1>1, <1>3, <1>4, <1>5, <1>6

\* Who takes from another is at most one round ahead of it.
LEMMA OneRoundAhead ==
    ASSUME Protocol, NEW s \in Rank, NEW d \in Rank, NEW k \in 1..4, DestOf(cyclic, s, k) = d
    PROVE  round[d] <= round[s] + 1
  <1>1. /\ round[d] \in Nat /\ round[s] \in Nat /\ Taken(d) \in Nat /\ Given(s) \in Nat
        /\ 4 * (round[d] - 1) <= Taken(d) /\ Given(s) <= 4 * round[s]
    BY Counts DEF Protocol
  <1>2. SUFFICES ASSUME round[d] > 1 PROVE round[d] <= round[s] + 1
    BY <1>1
  <1> DEFINE n == 4 * ((round[d] - 1) - 1) + k
  <1>3. n \in Nat \ {0} /\ ShiftOf(n) = k
    <2>1. round[d] - 1 \in Nat \ {0}
      BY <1>1, <1>2
    <2> QED BY <2>1, ExchangeNumber
  <1>4. n <= 4 * (round[d] - 1) /\ 4 * (round[d] - 2) < n
    BY <1>1
  <1> HIDE DEF n
  <1>5. n \in 1..Taken(d)
    BY <1>1, <1>3, <1>4
  <1>6. n <= Given(s)
    BY <1>3, <1>5 DEF Protocol, TakenWasGiven
  <1> QED BY <1>1, <1>3, <1>4, <1>6

\* Of each shift one block at most is between two processes: before it gives
\* the next one, the sender takes what the receiver gives in between.
LEMMA OnePerShift ==
    ASSUME Protocol, NEW s \in Rank, NEW d \in Rank,
           NEW n \in UnderWay(s, d), NEW m \in UnderWay(s, d), n < m
    PROVE  ShiftOf(n) # ShiftOf(m)
  <1> SUFFICES ASSUME ShiftOf(n) = ShiftOf(m) PROVE FALSE
    OBVIOUS
  <1> DEFINE k == ShiftOf(n)
             r == RoundOf(n)
             t == RoundOf(m)
             b == Back(k)
  <1>1. /\ Taken(d) \in Nat /\ Given(d) \in Nat /\ Given(d) <= Taken(d) + 1
        /\ Taken(s) \in Nat /\ Given(s) \in Nat /\ Given(s) <= Taken(s) + 1
    BY Counts DEF Protocol
  <1>2. /\ n \in Nat /\ m \in Nat /\ Taken(d) < n /\ m <= Given(s)
        /\ DestOf(cyclic, s, k) = d
    BY DEF UnderWay
  <1>3. n \in Nat \ {0} /\ m \in Nat \ {0}
    BY <1>1, <1>2
  <1>4. /\ k \in 1..4 /\ r \in Nat \ {0} /\ t \in Nat \ {0}
        /\ n = 4 * (r - 1) + k /\ m = 4 * (t - 1) + k
    BY <1>3, NumberExchange
  <1>5. b \in 1..4 /\ b # k /\ DestOf(cyclic, d, b) = s
    <2>1. cyclic \in BOOLEAN
      BY DEF Protocol, Shape
    <2>2. SourceOf(cyclic, d, k) = s
      BY <1>2, <1>4, <2>1, Partners
    <2>3. k \in {1, 2, 3, 4}
      BY <1>4
    <2> QED BY <2>2, <2>3 DEF SourceOf, Back
  <1> HIDE DEF k, r, t, b
  <1>6. PICK q \in Nat \ {0} : n < 4 * (q - 1) + b /\ 4 * (q - 1) + b < m
    <2>1. r < t
      BY <1>4
    <2>2. CASE k < b
      BY <1>4, <1>5, <2>1, <2>2
    <2>3. CASE b < k
      <3>1. r + 1 \in Nat \ {0} /\ n < 4 * ((r + 1) - 1) + b /\ 4 * ((r + 1) - 1) + b < m
        BY <1>4, <1>5, <2>1, <2>3
      <3> QED BY <3>1
    <2> QED BY <1>4, <1>5, <2>2, <2>3
  <1> DEFINE o == 4 * (q - 1) + b
  <1>7. o \in Nat \ {0} /\ ShiftOf(o) = b
    BY <1>5, ExchangeNumber
  <1>8. n < o /\ o < m
    BY <1>6
  <1> HIDE DEF o
  <1>9. o \in 1..Taken(s)
    BY <1>1, <1>2, <1>7, <1>8
  <1>10. o <= Given(d)
    BY <1>5, <1>7, <1>9 DEF Protocol, TakenWasGiven
  <1> QED BY <1>1, <1>2, <1>7, <1>8, <1>10

LEMMA TwoUnderWay ==
    ASSUME Protocol, NEW s \in Rank, NEW d \in Rank
    PROVE  Len(chan[s][d]) \in Nat /\ Len(chan[s][d]) <= 2
  <1>1. Labelled(cyclic, kind, s, chan[s][d], UnderWay(s, d))
    BY DEF Protocol, Channels
  <1>2. Len(chan[s][d]) \in Nat
    BY <1>1, LabelCount
  <1>3. ASSUME Len(chan[s][d]) > 2
        PROVE  FALSE
    <2>1. \E x, y, z \in UnderWay(s, d) : x < y /\ y < z
      BY <1>1, <1>3, LabelCount
    <2>2. PICK x \in UnderWay(s, d), y \in UnderWay(s, d), z \in UnderWay(s, d) : x < y /\ y < z
      BY <2>1
    <2>3. /\ x \in Nat \ {0} /\ y \in Nat \ {0} /\ z \in Nat \ {0}
          /\ DestOf(cyclic, s, ShiftOf(x)) = d /\ DestOf(cyclic, s, ShiftOf(y)) = d
          /\ DestOf(cyclic, s, ShiftOf(z)) = d
      <3>1. Taken(d) \in Nat
        BY Counts DEF Protocol
      <3> QED BY <3>1 DEF UnderWay
    <2>4. x < z
      BY <2>2, <2>3
    <2>5. ShiftOf(x) # ShiftOf(y) /\ ShiftOf(y) # ShiftOf(z) /\ ShiftOf(x) # ShiftOf(z)
      BY <2>2, <2>4, OnePerShift
    <2>6. ShiftOf(x) \in 1..4 /\ ShiftOf(y) \in 1..4 /\ ShiftOf(z) \in 1..4
      BY <2>3, NumberExchange
    <2>7. cyclic \in BOOLEAN
      BY DEF Protocol, Shape
    <2>8. /\ ShiftOf(x) \in {1, 2} <=> ShiftOf(y) \in {1, 2}
          /\ ShiftOf(x) \in {1, 2} <=> ShiftOf(z) \in {1, 2}
      BY <2>3, <2>6, <2>7, Axes
    <2> QED BY <2>5, <2>6, <2>8
  <1> QED BY <1>2, <1>3

LEMMA ProtocolSkew == Protocol => SkewBounded
  <1> SUFFICES ASSUME Protocol, NEW p \in Rank, NEW q \in Rank
               PROVE  /\ q \in {Left(MP, NP, cyclic, p), Top(MP, p)} =>
                            round[p] - round[q] \in -1..1
                      /\ Len(chan[p][q]) <= 2
    BY DEF SkewBounded
  <1>1. cyclic \in BOOLEAN /\ round[p] \in Nat /\ round[q] \in Nat
    BY DEF Protocol, Shape
  <1>2. ASSUME NEW k \in 1..4, DestOf(cyclic, p, k) = q
        PROVE  round[p] - round[q] \in -1..1
    <2>1. SourceOf(cyclic, q, k) = p /\ Back(k) \in 1..4
      BY <1>1, <1>2, Partners
    <2>2. DestOf(cyclic, q, Back(k)) = p
      BY <2>1 DEF SourceOf
    <2>3. round[q] <= round[p] + 1 /\ round[p] <= round[q] + 1
      BY <1>2, <2>1, <2>2, OneRoundAhead
    <2> QED BY <1>1, <2>3
  <1>3. DestOf(cyclic, p, 2) = Left(MP, NP, cyclic, p) /\ DestOf(cyclic, p, 3) = Top(MP, p)
    BY DEF DestOf
  <1>4. 2 \in 1..4 /\ 3 \in 1..4
    OBVIOUS
  <1> QED BY <1>2, <1>3, <1>4, TwoUnderWay
-----------------------------------------------------------------------------
(* The steps of the exchange *)

\* The shift a process is in, by its number.
LEMMA ShiftFacts ==
    ASSUME Shape, NEW p \in Rank, phase[p] # 0
    PROVE  /\ phase[p] \in 1..4 /\ Len(Shifts) = 4
           /\ Dest(p) = DestOf(cyclic, p, phase[p])
           /\ Source(p) = SourceOf(cyclic, p, phase[p])
           /\ SendFrom(p) = FromAt(p, phase[p]) /\ FillFrom(p) = ToAt(p, phase[p])
           /\ Shift(p)[2]..Shift(p)[3] = Offsets(kind, phase[p])
           /\ Shift(p)[1] \in {"YR", "YL"} <=> phase[p] \in {1, 2}
  <1> DEFINE k == phase[p]
             D == <<"YR", "YL", "XU", "XD">>
  <1>1. k \in 1..4 /\ kind \in Kind
    BY DEF Shape
  <1>2. k = 1 \/ k = 2 \/ k = 3 \/ k = 4
    BY <1>1
  <1>3. kind = "ee" \/ kind = "uu" \/ kind = "vv" \/ kind = "zs"
    BY <1>1 DEF Kind
  <1>4. Shift(p) = Shifts[k]
    BY DEF Shift
  <1> HIDE DEF k
  <1>5. Len(Shifts) = 4 /\ Shifts[k][1] = D[k]
    BY <1>2, <1>3 DEF Shifts
  <1>6. Shifts[k][2]..Shifts[k][3] = Offsets(kind, k)
    <2>1. CASE kind = "ee"
      <3>1. Shifts = << <<"YR", 1, 2>>, <<"YL", 3, 4>>, <<"XU", 3, 4>>, <<"XD", 1, 2>> >>
        BY <2>1 DEF Shifts
      <3>2. Shifts[1][2]..Shifts[1][3] = 1..2 /\ Shifts[2][2]..Shifts[2][3] = 3..4
        BY <3>1
      <3>3. Shifts[3][2]..Shifts[3][3] = 3..4 /\ Shifts[4][2]..Shifts[4][3] = 1..2
        BY <3>1
      <3>4. /\ Offsets(kind, 1) = 1..2 /\ Offsets(kind, 2) = 3..4
            /\ Offsets(kind, 3) = 3..4 /\ Offsets(kind, 4) = 1..2
        BY <2>1 DEF Offsets
      <3> QED BY <1>2, <3>2, <3>3, <3>4
    <2>2. CASE kind = "uu"
      <3>1. Shifts = << <<"YR", 1, 2>>, <<"YL", 3, 4>>, <<"XU", 2, 3>>, <<"XD", 1, 1>> >>
        BY <2>2 DEF Shifts
      <3>2. Shifts[1][2]..Shifts[1][3] = 1..2 /\ Shifts[2][2]..Shifts[2][3] = 3..4
        BY <3>1
      <3>3. Shifts[3][2]..Shifts[3][3] = 2..3 /\ Shifts[4][2]..Shifts[4][3] = 1..1
        BY <3>1
      <3>4. /\ Offsets(kind, 1) = 1..2 /\ Offsets(kind, 2) = 3..4
            /\ Offsets(kind, 3) = 2..3 /\ Offsets(kind, 4) = 1..1
        BY <2>2 DEF Offsets
      <3> QED BY <1>2, <3>2, <3>3, <3>4
    <2>3. CASE kind = "vv"
      <3>1. Shifts = << <<"YR", 1, 1>>, <<"YL", 2, 3>>, <<"XU", 3, 4>>, <<"XD", 1, 2>> >>
        BY <2>3 DEF Shifts
      <3>2. Shifts[1][2]..Shifts[1][3] = 1..1 /\ Shifts[2][2]..Shifts[2][3] = 2..3
        BY <3>1
      <3>3. Shifts[3][2]..Shifts[3][3] = 3..4 /\ Shifts[4][2]..Shifts[4][3] = 1..2
        BY <3>1
      <3>4. /\ Offsets(kind, 1) = 1..1 /\ Offsets(kind, 2) = 2..3
            /\ Offsets(kind, 3) = 3..4 /\ Offsets(kind, 4) = 1..2
        BY <2>3 DEF Offsets
      <3> QED BY <1>2, <3>2, <3>3, <3>4
    <2>4. CASE kind = "zs"
      <3>1. Shifts = << <<"YR", 2, 2>>, <<"YL", 3, 3>>, <<"XU", 3, 3>>, <<"XD", 2, 2>> >>
        BY <2>4 DEF Shifts
      <3>2. Shifts[1][2]..Shifts[1][3] = 2..2 /\ Shifts[2][2]..Shifts[2][3] = 3..3
        BY <3>1
      <3>3. Shifts[3][2]..Shifts[3][3] = 3..3 /\ Shifts[4][2]..Shifts[4][3] = 2..2
        BY <3>1
      <3>4. /\ Offsets(kind, 1) = 2..2 /\ Offsets(kind, 2) = 3..3
            /\ Offsets(kind, 3) = 3..3 /\ Offsets(kind, 4) = 2..2
        BY <2>4 DEF Offsets
      <3> QED BY <1>2, <3>2, <3>3, <3>4
    <2> QED BY <1>3, <2>1, <2>2, <2>3, <2>4
  <1>7. Dest(p) = DestOf(cyclic, p, k) /\ Source(p) = SourceOf(cyclic, p, k)
    BY <1>2, <1>4, <1>5 DEF Dest, Source, DestOf, SourceOf, Back
  <1>8. /\ SendFrom(p) = FromAt(p, k) /\ FillFrom(p) = ToAt(p, k)
        /\ Shift(p)[1] \in {"YR", "YL"} <=> k \in {1, 2}
    BY <1>2, <1>4, <1>5 DEF SendFrom, FillFrom, FarEnd, FromAt, ToAt
  <1> QED BY <1>1, <1>4, <1>5, <1>6, <1>7, <1>8 DEF k

LEMMA UpdateProtocol ==
    ASSUME Protocol, NEW p \in Rank, Update(p)
    PROVE  Protocol' /\ \A q \in Rank : Taken(q)' = Taken(q) /\ Given(q)' = Given(q)
  <1>1. /\ phase[p] = 0 /\ round' = [round EXCEPT ![p] = @ + 1]
        /\ phase' = [phase EXCEPT ![p] = 1]
        /\ cyclic' = cyclic /\ kind' = kind /\ sent' = sent /\ chan' = chan
    BY DEF Update
  <1>2. Shape'
    BY <1>1 DEF Protocol, Shape
  <1>3. \A q \in Rank : /\ q # p => round'[q] = round[q] /\ phase'[q] = phase[q]
                        /\ round'[p] = round[p] + 1 /\ phase'[p] = 1
                        /\ round[q] \in Nat /\ phase[q] \in 0..4
    BY <1>1 DEF Protocol, Shape
  <1>4. Begun'
    BY <1>1, <1>3 DEF Protocol, Begun
  <1>5. \A q \in Rank : Taken(q)' = Taken(q)
    BY <1>1, <1>3 DEF Taken
  <1>6. \A q \in Rank : Given(q)' = Given(q)
    BY <1>1, <1>5 DEF Given
  <1>7. TakenWasGiven'
    BY <1>1, <1>5, <1>6 DEF Protocol, TakenWasGiven
  <1>8. \A s, d \in Rank : UnderWay(s, d)' = UnderWay(s, d)
    BY <1>1, <1>5, <1>6 DEF UnderWay
  <1>9. Channels'
    BY <1>1, <1>8 DEF Protocol, Channels
  <1> QED BY <1>2, <1>4, <1>5, <1>6, <1>7, <1>9 DEF Protocol

LEMMA SendProtocol ==
    ASSUME Protocol, NEW p \in Rank, SendHalf(p),
           Dest(p) # ProcNull => BlockOK(cyclic, kind, p, Taken(p) + 1, Block(p))
    PROVE  Protocol'
  <1>1. /\ phase[p] > 0 /\ ~sent[p] /\ sent' = [sent EXCEPT ![p] = TRUE]
        /\ cyclic' = cyclic /\ kind' = kind /\ round' = round /\ phase' = phase
        /\ chan' = IF Dest(p) = ProcNull THEN chan
                   ELSE [chan EXCEPT ![p][Dest(p)] = Append(@, Block(p))]
    BY DEF SendHalf
  <1>2. Shape /\ Begun /\ TakenWasGiven /\ Channels
    BY DEF Protocol
  <1> DEFINE k == phase[p]
             n == Taken(p) + 1
             e == Dest(p)
             b == Block(p)
  <1>3. k \in 1..4 /\ e = DestOf(cyclic, p, k) /\ cyclic \in BOOLEAN
    BY <1>1, <1>2, ShiftFacts DEF Shape
  <1>4. n \in Nat \ {0} /\ ShiftOf(n) = k
    BY <1>1, <1>2, Counts
  <1>5. e \in Rank \cup {ProcNull}
    BY <1>3, Partners
  <1>6. e # ProcNull => BlockOK(cyclic, kind, p, n, b)
    OBVIOUS
  <1>7. \A q \in Rank : Taken(q)' = Taken(q) /\ Taken(q) \in Nat
    BY <1>1, <1>2, Counts DEF Taken
  <1>8. Given(p) = n - 1 /\ Given(p)' = n
    <2>1. sent'[p] = TRUE
      BY <1>1, <1>2 DEF Shape
    <2> QED BY <1>1, <1>2, <1>7, <2>1, Counts DEF Given
  <1>9. \A q \in Rank : q # p => Given(q)' = Given(q)
    BY <1>1, <1>2, <1>7 DEF Given, Shape
  <1> HIDE DEF k, n, e, b
  <1>10. ProcNull \notin Rank
    BY RankFacts
  <1>11. Shape'
    <2>1. e # ProcNull => DOMAIN chan' = Rank /\ \A q \in Rank : DOMAIN chan'[q] = Rank
      BY <1>1, <1>2 DEF Shape, e
    <2>2. DOMAIN chan' = Rank /\ \A q \in Rank : DOMAIN chan'[q] = Rank
      BY <1>1, <1>2, <2>1 DEF Shape, e
    <2> QED BY <1>1, <1>2, <2>2 DEF Shape
  <1>12. Begun'
    <2> SUFFICES ASSUME NEW q \in Rank PROVE IF phase[q] = 0 THEN ~sent'[q] ELSE round[q] > 0
      BY <1>1 DEF Begun
    <2>1. q # p => sent'[q] = sent[q]
      BY <1>1, <1>2 DEF Shape
    <2> QED BY <1>1, <1>2, <2>1 DEF Begun
  <1>13. TakenWasGiven'
    <2> SUFFICES ASSUME NEW s \in Rank, NEW d \in Rank, NEW m \in 1..Taken(d),
                        DestOf(cyclic, s, ShiftOf(m)) = d
                 PROVE  m <= Given(s)'
      BY <1>1, <1>7 DEF TakenWasGiven
    <2>1. m <= Given(s) /\ m \in Nat
      BY <1>2, <1>7 DEF TakenWasGiven
    <2>2. s = p => m <= n
      BY <1>4, <1>8, <2>1
    <2> QED BY <1>8, <1>9, <2>1, <2>2
  <1>14. ASSUME NEW s \in Rank, NEW d \in Rank
         PROVE  Labelled(cyclic, kind, s, chan'[s][d], UnderWay(s, d)')
    <2>1. UnderWay(s, d)' =
             {m \in Nat : Taken(d) < m /\ m <= Given(s)' /\ DestOf(cyclic, s, ShiftOf(m)) = d}
      BY <1>1, <1>7 DEF UnderWay
    <2>2. Labelled(cyclic, kind, s, chan[s][d], UnderWay(s, d))
      BY <1>2 DEF Channels
    <2>3. CASE s = p /\ d = e
      <3>1. Taken(d) < n
        <4>1. SUFFICES ASSUME n <= Taken(d) PROVE FALSE
          BY <1>4, <1>7
        <4>2. n \in 1..Taken(d)
          BY <1>4, <1>7, <4>1
        <4>3. n <= Given(p)
          BY <1>2, <1>3, <1>4, <2>3, <4>2 DEF TakenWasGiven
        <4> QED BY <1>4, <1>8, <4>3
      <3>2. UnderWay(s, d)' = UnderWay(s, d) \cup {n}
        <4>1. ASSUME NEW m \in Nat
              PROVE  m <= n <=> (m <= n - 1 \/ m = n)
          BY <1>4
        <4>2. \A m \in Nat : m \in UnderWay(s, d)' <=> m \in UnderWay(s, d) \cup {n}
          BY <1>3, <1>4, <1>8, <2>1, <2>3, <3>1, <4>1 DEF UnderWay
        <4> QED BY <1>4, <2>1, <4>2 DEF UnderWay
      <3>3. chan'[s][d] = Append(chan[s][d], b)
        BY <1>1, <1>2, <1>10, <2>3 DEF Shape, e, b
      <3>4. \A m \in UnderWay(s, d) : m < n
        BY <1>4, <1>8, <2>3 DEF UnderWay
      <3>5. Labelled(cyclic, kind, s, Append(chan[s][d], b), UnderWay(s, d) \cup {n})
        <4>1. n \in Nat
          BY <1>4
        <4> QED BY <1>6, <1>10, <2>2, <2>3, <3>4, <4>1, LabelAppend
      <3> QED BY <3>2, <3>3, <3>5
    <2>4. CASE ~(s = p /\ d = e)
      <3>1. chan'[s][d] = chan[s][d]
        <4>1. CASE e = ProcNull
          BY <1>1, <4>1 DEF e
        <4>2. CASE e # ProcNull
          BY <1>1, <1>2, <1>5, <2>4, <4>2 DEF Shape, e
        <4> QED BY <4>1, <4>2
      <3>2. UnderWay(s, d)' = UnderWay(s, d)
        <4>1. CASE s # p
          BY <1>9, <2>1, <4>1 DEF UnderWay
        <4>2. CASE s = p
          <5>1. DestOf(cyclic, s, ShiftOf(n)) # d
            BY <1>3, <1>4, <2>4, <4>2
          <5>2. \A m \in Nat : m <= n <=> (m <= n - 1 \/ m = n)
            BY <1>4
          <5>3. Given(s)' = n /\ Given(s) = n - 1
            BY <1>8, <4>2
          <5> QED BY <2>1, <5>1, <5>2, <5>3 DEF UnderWay
        <4> QED BY <4>1, <4>2
      <3> QED BY <2>2, <3>1, <3>2
    <2> QED BY <2>3, <2>4
  <1>15. Channels'
    BY <1>1, <1>14 DEF Channels
  <1> QED BY <1>11, <1>12, <1>13, <1>15 DEF Protocol

\* The block taken is the one of the shift that the process is in.
LEMMA HeadIsDue ==
    ASSUME Protocol, NEW p \in Rank, phase[p] # 0, Source(p) # ProcNull,
           chan[Source(p)][p] # <<>>
    PROVE  /\ Source(p) \in Rank
           /\ Taken(p) + 1 \in UnderWay(Source(p), p)
           /\ BlockOK(cyclic, kind, Source(p), Taken(p) + 1, Head(chan[Source(p)][p]))
           /\ Labelled(cyclic, kind, Source(p), Tail(chan[Source(p)][p]),
                       UnderWay(Source(p), p) \ {Taken(p) + 1})
  <1> DEFINE s == Source(p)
             k == phase[p]
             n == Taken(p) + 1
             S == UnderWay(s, p)
  <1>1. Shape /\ Begun /\ Channels /\ cyclic \in BOOLEAN
    BY DEF Protocol, Shape
  <1>2. k \in 1..4 /\ s = SourceOf(cyclic, p, k)
    BY <1>1, ShiftFacts
  <1>3. Back(k) \in 1..4
    BY <1>1, <1>2, Partners
  <1>4. s \in Rank
    BY <1>1, <1>2, <1>3, Partners DEF SourceOf
  <1>5. DestOf(cyclic, s, k) = p
    BY <1>1, <1>2, <1>4, Partners
  <1>6. n \in Nat \ {0} /\ ShiftOf(n) = k /\ Taken(p) \in Nat /\ n = Taken(p) + 1
    BY <1>1, Counts
  <1>7. Given(s) \in Nat
    BY <1>1, <1>4, Counts
  <1>8. Labelled(cyclic, kind, s, chan[s][p], S)
    BY <1>1, <1>4 DEF Channels
  <1>9. PICK x \in S : TRUE
    BY <1>8, LabelCount
  <1>10. x \in Nat /\ Taken(p) < x /\ x <= Given(s)
    BY <1>9 DEF UnderWay
  <1>11. \A m \in S : m \in Nat /\ Taken(p) < m
    BY DEF UnderWay
  <1>12. UnderWay(s, p)
           = {m \in Nat : Taken(p) < m /\ m <= Given(s) /\ DestOf(cyclic, s, ShiftOf(m)) = p}
    BY DEF UnderWay
  <1> HIDE DEF s, k, n
  <1>13. n \in S
    BY <1>5, <1>6, <1>7, <1>10, <1>12
  <1> HIDE DEF S
  <1>14. \A m \in S : n <= m
    BY <1>6, <1>11
  <1>15. /\ BlockOK(cyclic, kind, s, n, Head(chan[s][p]))
         /\ Labelled(cyclic, kind, s, Tail(chan[s][p]), S \ {n})
    BY <1>8, <1>13, <1>14, LabelHead
  <1> QED BY <1>4, <1>13, <1>15 DEF s, n, S

LEMMA ReceiveProtocol ==
    ASSUME Protocol, NEW p \in Rank, ReceiveHalf(p)
    PROVE  Protocol'
  <1>1. /\ phase[p] > 0 /\ sent[p] /\ sent' = [sent EXCEPT ![p] = FALSE]
        /\ phase' = [phase EXCEPT ![p] = IF @ = Len(Shifts) THEN 0 ELSE @ + 1]
        /\ cyclic' = cyclic /\ kind' = kind /\ round' = round
        /\ IF Source(p) = ProcNull THEN chan' = chan
           ELSE /\ chan[Source(p)][p] # <<>>
                /\ chan' = [chan EXCEPT ![Source(p)][p] = Tail(@)]
    BY DEF ReceiveHalf
  <1>2. Shape /\ Begun /\ TakenWasGiven /\ Channels /\ cyclic \in BOOLEAN
    BY DEF Protocol, Shape
  <1> DEFINE k == phase[p]
             n == Taken(p) + 1
             e == Source(p)
  <1>3. k \in 1..4 /\ e = SourceOf(cyclic, p, k) /\ Len(Shifts) = 4 /\ k # 0
    BY <1>1, <1>2, ShiftFacts DEF Shape
  <1>4. /\ n \in Nat \ {0} /\ ShiftOf(n) = k /\ round[p] \in Nat \ {0} /\ Taken(p) \in Nat
        /\ n = 4 * (round[p] - 1) + k /\ n = Taken(p) + 1
    BY <1>1, <1>2, <1>3, Counts
  <1>5. \A s \in Rank : DestOf(cyclic, s, k) = p <=> e = s
    BY <1>2, <1>3, Partners
  <1>6. phase'[p] = (IF k = 4 THEN 0 ELSE k + 1) /\ sent'[p] = FALSE
    BY <1>1, <1>2, <1>3 DEF Shape
  <1>7. \A q \in Rank : q # p => phase'[q] = phase[q] /\ sent'[q] = sent[q]
    BY <1>1, <1>2 DEF Shape
  <1>8. Taken(p)' = n
    BY <1>1, <1>3, <1>4, <1>6 DEF Taken
  <1>9. \A q \in Rank : q # p => Taken(q)' = Taken(q)
    BY <1>1, <1>7 DEF Taken
  <1>10. Given(p) = n
    BY <1>1, <1>4 DEF Given
  <1>11. Given(p)' = n
    BY <1>4, <1>6, <1>8 DEF Given
  <1>12. \A q \in Rank : Given(q)' = Given(q)
    BY <1>7, <1>9, <1>10, <1>11 DEF Given
  <1>13. e # ProcNull => e \in Rank /\ n \in UnderWay(e, p)
    BY <1>1, <1>3, HeadIsDue
  <1>14. e # ProcNull => Labelled(cyclic, kind, e, Tail(chan[e][p]), UnderWay(e, p) \ {n})
    BY <1>1, <1>3, HeadIsDue
  <1>15. \A q \in Rank : Taken(q) \in Nat /\ Given(q) \in Nat
    BY <1>2, Counts
  <1>16. chan' = IF e = ProcNull THEN chan ELSE [chan EXCEPT ![e][p] = Tail(@)]
    BY <1>1
  <1> HIDE DEF k, n, e
  <1>17. ProcNull \notin Rank
    BY RankFacts
  <1>18. Shape'
    <2>1. DOMAIN chan' = Rank /\ \A q \in Rank : DOMAIN chan'[q] = Rank
      BY <1>2, <1>16 DEF Shape
    <2>2. phase' \in [Rank -> 0..4]
      <3>1. (IF k = 4 THEN 0 ELSE k + 1) \in 0..4
        BY <1>3
      <3>2. phase' = [phase EXCEPT ![p] = IF k = 4 THEN 0 ELSE k + 1]
        BY <1>1, <1>3 DEF k
      <3> QED BY <1>2, <3>1, <3>2 DEF Shape
    <2> QED BY <1>1, <1>2, <2>1, <2>2 DEF Shape
  <1>19. Begun'
    <2> SUFFICES ASSUME NEW q \in Rank
                 PROVE  IF phase'[q] = 0 THEN ~sent'[q] ELSE round[q] > 0
      BY <1>1 DEF Begun
    <2> QED BY <1>2, <1>4, <1>6, <1>7 DEF Begun
  <1>20. TakenWasGiven'
    <2> SUFFICES ASSUME NEW s \in Rank, NEW d \in Rank, NEW m \in 1..Taken(d)',
                        DestOf(cyclic, s, ShiftOf(m)) = d
                 PROVE  m <= Given(s)
      BY <1>1, <1>12 DEF TakenWasGiven
    <2>1. CASE m \in 1..Taken(d)
      BY <1>2, <2>1 DEF TakenWasGiven
    <2>2. CASE m \notin 1..Taken(d)
      <3>1. d = p /\ m = n
        <4>1. d # p => FALSE
          BY <1>9, <2>2
        <4> QED BY <1>4, <1>8, <2>2, <4>1
      <3>2. e = s
        BY <1>4, <1>5, <3>1
      <3>3. n \in UnderWay(s, p)
        BY <1>13, <1>17, <3>2
      <3> QED BY <3>1, <3>3 DEF UnderWay
    <2> QED BY <2>1, <2>2
  <1>21. ASSUME NEW s \in Rank, NEW d \in Rank
         PROVE  Labelled(cyclic, kind, s, chan'[s][d], UnderWay(s, d)')
    <2>1. UnderWay(s, d)' =
             {m \in Nat : Taken(d)' < m /\ m <= Given(s) /\ DestOf(cyclic, s, ShiftOf(m)) = d}
      BY <1>1, <1>12 DEF UnderWay
    <2>2. Labelled(cyclic, kind, s, chan[s][d], UnderWay(s, d))
      BY <1>2 DEF Channels
    <2>3. ASSUME NEW m \in Nat
          PROVE  n < m <=> (Taken(p) < m /\ m # n)
      BY <1>4
    <2>4. CASE s = e /\ d = p
      <3>1. UnderWay(s, d)' = UnderWay(s, d) \ {n}
        BY <1>8, <2>1, <2>3, <2>4 DEF UnderWay
      <3>2. chan'[s][d] = Tail(chan[s][d])
        BY <1>2, <1>16, <1>17, <2>4 DEF Shape
      <3> QED BY <1>14, <1>17, <2>4, <3>1, <3>2
    <2>5. CASE ~(s = e /\ d = p)
      <3>1. chan'[s][d] = chan[s][d]
        <4>1. CASE e = ProcNull
          BY <1>16, <4>1
        <4>2. CASE e # ProcNull
          BY <1>2, <1>13, <1>16, <2>5, <4>2 DEF Shape
        <4> QED BY <4>1, <4>2
      <3>2. UnderWay(s, d)' = UnderWay(s, d)
        <4>1. CASE d # p
          BY <1>9, <2>1, <4>1 DEF UnderWay
        <4>2. CASE d = p
          <5>1. DestOf(cyclic, s, ShiftOf(n)) # d
            BY <1>4, <1>5, <2>5, <4>2
          <5>2. Taken(d)' = n
            BY <1>8, <4>2
          <5> QED BY <2>1, <2>3, <4>2, <5>1, <5>2 DEF UnderWay
        <4> QED BY <4>1, <4>2
      <3> QED BY <2>2, <3>1, <3>2
    <2> QED BY <2>4, <2>5
  <1>22. Channels'
    BY <1>1, <1>21 DEF Channels
  <1> QED BY <1>18, <1>19, <1>20, <1>22 DEF Protocol
-----------------------------------------------------------------------------
(* Where the parts lie *)

\* One dimension cut into parts: with two or more, each has six at least.
LEMMA Segments ==
    ASSUME NEW size \in Nat, NEW procs \in Nat \ {0}, size >= 4 * procs,
           NEW part \in 0..(procs - 1)
    PROVE  /\ SubLength(size, procs, part) \in Nat /\ SubLength(size, procs, part) >= 4
           /\ procs > 1 => SubLength(size, procs, part) >= 6
           /\ procs = 1 => SubLength(size, procs, part) = size
           /\ SubStart(size, procs, part) \in Nat \ {0}
           /\ SubStart(size, procs, part) + SubLength(size, procs, part) - 1 <= size
           /\ part < procs - 1 => SubStart(size, procs, part + 1)
                = SubStart(size, procs, part) + SubLength(size, procs, part) - 4
           /\ part = 0 => SubStart(size, procs, part) = 1
           /\ part = procs - 1 =>
                SubStart(size, procs, part) + SubLength(size, procs, part) - 1 = size
  <1> DEFINE n == size - 4
             q == Quot(n, procs)
             L == SubLength(size, procs, part)
             A == SubStart(size, procs, part)
  <1>1. n \in Nat /\ Parted(size, procs) /\ nover = 4 /\ procs - 1 \in 0..(procs - 1)
        /\ part <= procs - 1
    BY DEF Parted, nover
  <1>2. /\ q \in Nat /\ Rem(n, procs) \in 0..(procs - 1) /\ n = procs * q + Rem(n, procs)
    BY <1>1, QuotRem
  <1>3. procs > 1 => q >= 2
    <2> SUFFICES ASSUME procs > 1, q < 2 PROVE FALSE
      BY <1>2
    <2>1. q = 0 \/ q = 1
      BY <1>2
    <2>2. procs * q <= procs
      BY <2>1
    <2>3. n >= 2 * procs
      BY <1>1
    <2> QED BY <1>1, <1>2, <2>2, <2>3
  <1>4. /\ DecompStart(n, procs, part) \in Nat /\ DecompEnd(n, procs, part) \in Nat
        /\ DecompStart(n, procs, 0) = 1
        /\ DecompEnd(n, procs, part) + 1 >= DecompStart(n, procs, part) + Quot(n, procs)
    BY <1>1, DecompTiles
  <1>5. /\ A = DecompStart(n, procs, part)
        /\ L = DecompEnd(n, procs, part) - A + 4 + 1
    BY <1>1 DEF SubStart, SubLength
  <1>6. L \in Nat /\ L >= 4 + q
    BY <1>2, <1>4, <1>5
  <1>7. /\ SubStart(size, procs, part) \in Int /\ SubEnd(size, procs, part) \in Int
        /\ SubStart(size, procs, 0) = 1
        /\ SubEnd(size, procs, procs - 1) = size
        /\ part < procs - 1 =>
             SubStart(size, procs, part + 1) = SubEnd(size, procs, part) - (nover - 1)
    BY <1>1, SubmatricesOverlap
  <1>8. SubEnd(size, procs, part) = A + L - 1
    BY DEF SubEnd
  <1>9. A \in Nat /\ (part = 0 => A = 1)
    BY <1>4, <1>5, <1>7
  <1>10. 1 <= A
    <2>1. 0 \in 0..(procs - 1) /\ 0 <= part
      OBVIOUS
    <2>2. \A j \in 0..(procs - 1) : 0 <= j => SubStart(size, procs, 0) <= SubStart(size, procs, j)
      BY <1>1, <2>1, SubmatricesOverlap
    <2> QED BY <1>7, <2>1, <2>2
  <1>11. A + L - 1 <= size
    <2>1. \A j \in 0..(procs - 1) : DecompEnd(n, procs, j) \in Nat
      BY <1>1, DecompTiles
    <2>2. DecompEnd(n, procs, part) <= n
      <3>1. DecompEnd(n, procs, part) = n \/ (\E e : e = DecompEnd(n, procs, part) /\ ~ (e > n))
        BY DEF DecompEnd
      <3> QED BY <1>1, <1>4, <3>1
    <2> QED BY <1>1, <1>4, <1>5, <2>2
  <1>12. part = procs - 1 => A + L - 1 = size
    BY <1>7, <1>8
  <1>13. part < procs - 1 => SubStart(size, procs, part + 1) = A + L - 4
    BY <1>1, <1>6, <1>7, <1>8, <1>9
  <1>14. procs = 1 => L = size
    <2>1. procs = 1 => part = 0
      OBVIOUS
    <2> QED BY <1>6, <1>9, <1>12, <2>1
  <1> QED BY <1>2, <1>3, <1>6, <1>9, <1>10, <1>11, <1>12, <1>13, <1>14

\* The ranges of the four kinds in rows, and in columns on more than one.
RowLow(kd, e) == IF e \/ kd = "uu" THEN 2 ELSE 3
RowGap(kd, e) == (IF kd = "uu" THEN 2 ELSE 1) + (IF e THEN 0 ELSE 1)
ColLow(kd, e) == IF e THEN (IF kd = "ee" THEN 1 ELSE 2) ELSE IF kd = "vv" THEN 2 ELSE 3
ColGap(kd, e) ==
    IF e THEN (CASE kd = "ee" -> 0 [] kd = "vv" -> 2 [] kd \in {"uu", "zs"} -> 1)
    ELSE IF kd = "vv" THEN 3 ELSE 2

LEMMA RangeTable ==
    ASSUME NEW kd \in Kind, NEW e \in BOOLEAN, NEW size \in Nat, size > 1
    PROVE  /\ RangeLow(kd, "row", size, e) = RowLow(kd, e)
           /\ RangeGap(kd, "row", size, e) = RowGap(kd, e)
           /\ RangeLow(kd, "col", size, e) = ColLow(kd, e)
           /\ RangeGap(kd, "col", size, e) = ColGap(kd, e)
  <1>1. kd = "ee" \/ kd = "uu" \/ kd = "vv" \/ kd = "zs"
    BY DEF Kind
  <1>2. size # 1 /\ (e = TRUE \/ e = FALSE)
    OBVIOUS
  <1>3. RangeLow(kd, "row", size, e) = RowLow(kd, e) /\ RangeLow(kd, "col", size, e) = ColLow(kd, e)
    BY <1>1, <1>2 DEF RangeLow, RowLow, ColLow
  <1>4. RangeGap(kd, "row", size, e) = RowGap(kd, e)
    BY <1>1, <1>2 DEF RangeGap, RowGap
  <1>5. RangeGap(kd, "col", size, e) = ColGap(kd, e)
    BY <1>1, <1>2 DEF RangeGap, ColGap
  <1> QED BY <1>3, <1>4, <1>5
-----------------------------------------------------------------------------
(* Where the processes lie *)

\* A process has no partner at an edge of the grid, and only there.
LEMMA EdgePartners ==
    ASSUME NEW c \in BOOLEAN, NEW p \in Rank
    PROVE  /\ SourceOf(c, p, 1) = ProcNull <=> ColPart(MP, p) = 0 /\ ~c
           /\ SourceOf(c, p, 2) = ProcNull <=> ColPart(MP, p) = NP - 1 /\ ~c
           /\ SourceOf(c, p, 3) = ProcNull <=> RowPart(MP, p) = MP - 1
           /\ SourceOf(c, p, 4) = ProcNull <=> RowPart(MP, p) = 0
  <1>1. /\ MP \in Nat \ {0} /\ NP \in Nat \ {0} /\ MP * NP \in Nat /\ MP * NP >= MP
        /\ p \in 0..(MP * NP - 1)
    BY RankFacts
  <1> DEFINE a == RowPart(MP, p)
             b == ColPart(MP, p)
             n == MP * NP
  <1>2. a \in 0..(MP - 1) /\ b \in 0..(NP - 1) /\ p = a + MP * b
    BY <1>1, RankOfPlace
  <1>3. a = p % MP
    BY DEF RowPart
  <1> HIDE DEF a, b
  <1>4. n = MP * b + MP * (NP - b) /\ MP * b \in Nat /\ NP - b \in Nat \ {0}
    BY <1>1, <1>2
  <1>5. \A x \in Nat \ {0} : MP * x >= MP /\ (x # 1 => MP * x >= 2 * MP)
    <2> TAKE x \in Nat \ {0}
    <2>1. x - 1 \in Nat /\ MP * x = MP + MP * (x - 1)
      BY <1>1
    <2>2. MP * (x - 1) \in Nat
      BY <1>1, <2>1
    <2>3. x # 1 => MP * (x - 1) = MP + MP * (x - 2) /\ x - 2 \in Nat
      BY <1>1
    <2>4. x # 1 => MP * (x - 2) \in Nat
      BY <1>1, <2>3
    <2> QED BY <1>1, <2>1, <2>2, <2>3, <2>4
  <1>6. b = 0 <=> p < MP
    <2>1. b = 0 => MP * b = 0
      BY <1>1
    <2>2. b # 0 => b \in Nat \ {0}
      BY <1>2
    <2>3. b # 0 => MP * b >= MP
      BY <1>5, <2>2
    <2> QED BY <1>1, <1>2, <1>4, <2>1, <2>3
  <1>7. b = NP - 1 <=> ~ (p + MP < n)
    <2>1. b = NP - 1 => MP * (NP - b) = MP
      BY <1>1, <1>2
    <2>2. b # NP - 1 => MP * (NP - b) >= 2 * MP
      BY <1>1, <1>2, <1>4, <1>5
    <2>3. MP * (NP - b) \in Int
      BY <1>1, <1>2
    <2> HIDE DEF n
    <2> QED BY <1>1, <1>2, <1>4, <2>1, <2>2, <2>3
  <1>8. a = MP - 1 <=> (p + 1) % MP = 0
    <2>1. a = MP - 1 => p + 1 = MP * (b + 1)
      BY <1>1, <1>2
    <2>2. b + 1 \in Nat /\ \A x \in Nat : (MP * x) % MP = 0
      BY <1>1, <1>2, SMT
    <2>3. a = MP - 1 => (p + 1) % MP = 0
      BY <2>1, <2>2
    <2>4. ASSUME a # MP - 1
          PROVE  (p + 1) % MP # 0
      <3>1. a + 1 \in 0..(MP - 1) /\ b \in 0..(NP - 1) /\ p + 1 = (a + 1) + MP * b
        BY <1>1, <1>2, <1>4, <2>4
      <3>2. \A x \in 0..(MP - 1), y \in 0..(NP - 1) :
               /\ x + MP * y \in 0..(MP * NP - 1)
               /\ RowPart(MP, x + MP * y) = x /\ ColPart(MP, x + MP * y) = y
        BY <1>1, RankOfPlace
      <3>3. RowPart(MP, (a + 1) + MP * b) = a + 1
        BY <3>1, <3>2
      <3>4. (p + 1) % MP = a + 1
        BY <3>1, <3>3 DEF RowPart
      <3> QED BY <1>2, <3>4
    <2> QED BY <2>3, <2>4
  <1>9. n \in Nat /\ n >= MP /\ MP \in Nat \ {0} /\ p \in 0..(n - 1)
    BY <1>1
  <1>10. Left(MP, NP, c, p) = (IF p - MP >= 0 THEN p - MP ELSE IF c THEN p - MP + n ELSE -1)
    BY DEF Left, ProcNull
  <1>11. Right(MP, NP, c, p) = (IF p + MP < n THEN p + MP ELSE IF c THEN p + MP - n ELSE -1)
    BY DEF Right, ProcNull
  <1> HIDE DEF n
  <1>12. Left(MP, NP, c, p) = -1 <=> (p < MP /\ ~c)
    BY <1>9, <1>10
  <1>13. Right(MP, NP, c, p) = -1 <=> (~ (p + MP < n) /\ ~c)
    BY <1>9, <1>11
  <1>14. Top(MP, p) = -1 <=> a = 0
    <2>1. p = 0 => a = 0
      BY <1>1, <1>3, SMT
    <2>2. p # 0 => p - 1 # -1
      BY <1>9
    <2> QED BY <1>3, <2>1, <2>2, Zenon DEF Top, ProcNull
  <1>15. Bot(MP, p) = -1 <=> (p + 1) % MP = 0
    <2>1. p + 1 # -1
      BY <1>9
    <2> QED BY <2>1, Zenon DEF Bot, ProcNull
  <1>16. /\ SourceOf(c, p, 1) = Left(MP, NP, c, p) /\ SourceOf(c, p, 2) = Right(MP, NP, c, p)
         /\ SourceOf(c, p, 3) = Bot(MP, p) /\ SourceOf(c, p, 4) = Top(MP, p)
    BY DEF SourceOf, DestOf, Back
  <1>17. ProcNull = -1
    BY DEF ProcNull
  <1> QED BY <1>6, <1>7, <1>8, <1>12, <1>13, <1>14, <1>15, <1>16, <1>17, Zenon DEF a, b
-----------------------------------------------------------------------------
(* What is up to date, and what is sent *)

Row(p) == RowPart(MP, p)
Col(p) == ColPart(MP, p)
RowStart(p) == SubStart(M, MP, Row(p))
ColStart(p) == SubStart(N, NP, Col(p))

LEMMA PartFacts ==
    ASSUME NEW p \in Rank
    PROVE  /\ M \in Nat /\ N \in Nat /\ M > 1 /\ N > 1
           /\ Row(p) \in 0..(MP - 1) /\ Col(p) \in 0..(NP - 1)
           /\ lm[p] \in Nat /\ lm[p] >= 4 /\ (MP > 1 => lm[p] >= 6)
           /\ ln[p] \in Nat /\ ln[p] >= 4 /\ (NP > 1 => ln[p] >= 6) /\ (NP = 1 => ln[p] = N)
           /\ RowStart(p) \in Nat \ {0} /\ RowStart(p) + lm[p] - 1 <= M
           /\ ColStart(p) \in Nat \ {0} /\ ColStart(p) + ln[p] - 1 <= N
           /\ Row(p) = 0 => RowStart(p) = 1
           /\ Row(p) = MP - 1 => RowStart(p) + lm[p] - 1 = M
           /\ Col(p) = 0 => ColStart(p) = 1
           /\ Col(p) = NP - 1 => ColStart(p) + ln[p] - 1 = N
  <1>1. /\ M \in Nat /\ N \in Nat /\ M >= 4 * MP /\ N >= 4 * NP /\ M > 1 /\ N > 1
        /\ MP \in Nat \ {0} /\ NP \in Nat \ {0}
    BY ExchangeAssumption
  <1>2. Row(p) \in 0..(MP - 1) /\ Col(p) \in 0..(NP - 1)
    <2>1. \A r \in 0..(MP * NP - 1) :
            /\ RowPart(MP, r) \in 0..(MP - 1) /\ ColPart(MP, r) \in 0..(NP - 1)
            /\ r = RowPart(MP, r) + MP * ColPart(MP, r)
      BY <1>1, RankOfPlace
    <2> QED BY <2>1, RankFacts DEF Row, Col
  <1>3. lm[p] = SubLength(M, MP, Row(p)) /\ ln[p] = SubLength(N, NP, Col(p))
    BY DEF lm, ln, Row, Col
  <1>4. /\ lm[p] \in Nat /\ lm[p] >= 4 /\ (MP > 1 => lm[p] >= 6)
        /\ RowStart(p) \in Nat \ {0} /\ RowStart(p) + lm[p] - 1 <= M
        /\ Row(p) = 0 => RowStart(p) = 1
        /\ Row(p) = MP - 1 => RowStart(p) + lm[p] - 1 = M
    BY <1>1, <1>2, <1>3, Segments DEF RowStart
  <1>5. /\ ln[p] \in Nat /\ ln[p] >= 4 /\ (NP > 1 => ln[p] >= 6) /\ (NP = 1 => ln[p] = N)
        /\ ColStart(p) \in Nat \ {0} /\ ColStart(p) + ln[p] - 1 <= N
        /\ Col(p) = 0 => ColStart(p) = 1
        /\ Col(p) = NP - 1 => ColStart(p) + ln[p] - 1 = N
    BY <1>1, <1>2, <1>3, Segments DEF ColStart
  <1> QED BY <1>1, <1>2, <1>4, <1>5

LEMMA RangesOf ==
    ASSUME NEW c \in BOOLEAN, NEW kd \in Kind, NEW p \in Rank
    PROVE  /\ RowsOf(kd, p) = RowLow(kd, Row(p) = 0)..(lm[p] - RowGap(kd, Row(p) = MP - 1))
           /\ ColsOf(c, kd, p) = ColLow(kd, Col(p) = 0 /\ ~c)
                                   ..(ln[p] - ColGap(kd, Col(p) = NP - 1 /\ ~c))
  <1>1. M \in Nat /\ N \in Nat /\ M > 1 /\ N > 1
    BY PartFacts
  <1>2. /\ istop(p) = (Row(p) = 0) /\ isbot(p) = (Row(p) = MP - 1)
        /\ First(ColPart(MP, p)) = (Col(p) = 0) /\ Last(NP, ColPart(MP, p)) = (Col(p) = NP - 1)
    BY DEF istop, isbot, First, Last, Row, Col
  <1>3. /\ (Row(p) = 0) \in BOOLEAN /\ (Row(p) = MP - 1) \in BOOLEAN
        /\ (Col(p) = 0 /\ ~c) \in BOOLEAN /\ (Col(p) = NP - 1 /\ ~c) \in BOOLEAN
    OBVIOUS
  <1>4. /\ RangeLow(kd, "row", M, Row(p) = 0) = RowLow(kd, Row(p) = 0)
        /\ RangeGap(kd, "row", M, Row(p) = MP - 1) = RowGap(kd, Row(p) = MP - 1)
    BY <1>1, <1>3, RangeTable
  <1>5. /\ RangeLow(kd, "col", N, Col(p) = 0 /\ ~c) = ColLow(kd, Col(p) = 0 /\ ~c)
        /\ RangeGap(kd, "col", N, Col(p) = NP - 1 /\ ~c) = ColGap(kd, Col(p) = NP - 1 /\ ~c)
    BY <1>1, <1>3, RangeTable
  <1>6. RowsOf(kd, p) = RowLow(kd, Row(p) = 0)..(lm[p] - RowGap(kd, Row(p) = MP - 1))
    BY <1>2, <1>4, Zenon DEF RowsOf
  <1>7. ColsOf(c, kd, p) = ColLow(kd, Col(p) = 0 /\ ~c)
                                   ..(ln[p] - ColGap(kd, Col(p) = NP - 1 /\ ~c))
    BY <1>2, <1>5, Zenon DEF ColsOf
  <1> QED BY <1>6, <1>7

\* The bounds as numbers, and the offsets of the four kinds.
LEMMA RangeBounds ==
    ASSUME NEW kd \in Kind, NEW e \in BOOLEAN
    PROVE  /\ RowLow(kd, e) \in {2, 3} /\ RowGap(kd, e) \in 1..3
           /\ ColLow(kd, e) \in {1, 2, 3} /\ ColGap(kd, e) \in 0..3
           /\ \A k \in 1..4 : Offsets(kd, k) \subseteq 1..4
  <1>1. kd = "ee" \/ kd = "uu" \/ kd = "vv" \/ kd = "zs"
    BY DEF Kind
  <1>2. RowLow(kd, e) \in {2, 3} /\ RowGap(kd, e) \in 1..3
    BY <1>1 DEF RowLow, RowGap
  <1>3. ColLow(kd, e) \in {1, 2, 3} /\ ColGap(kd, e) \in 0..3
    BY <1>1 DEF ColLow, ColGap
  <1>4. ASSUME NEW k \in 1..4
        PROVE  Offsets(kd, k) \subseteq 1..4
    <2>1. k = 1 \/ k = 2 \/ k = 3 \/ k = 4
      OBVIOUS
    <2> QED BY <1>1, <2>1 DEF Offsets
  <1> QED BY <1>2, <1>3, <1>4

LEMMA FreshInside ==
    ASSUME NEW c \in BOOLEAN, NEW kd \in Kind, NEW p \in Rank, NEW k \in 0..4
    PROVE  FreshRows(c, kd, p, k) \subseteq 1..lm[p] /\ FreshCols(c, kd, p, k) \subseteq 1..ln[p]
  <1>1. lm[p] \in Nat /\ lm[p] >= 4 /\ ln[p] \in Nat /\ ln[p] >= 4
    BY PartFacts
  <1>2. \A h \in 1..4 : Offsets(kd, h) \subseteq 1..4
    BY RangeBounds
  <1>3. RowsOf(kd, p) \subseteq 1..lm[p]
    <2>1. RowLow(kd, Row(p) = 0) \in {2, 3} /\ RowGap(kd, Row(p) = MP - 1) \in 1..3
      BY RangeBounds
    <2> QED BY <1>1, <2>1, RangesOf
  <1>4. ColsOf(c, kd, p) \subseteq 1..ln[p]
    <2>1. /\ ColLow(kd, Col(p) = 0 /\ ~c) \in {1, 2, 3}
          /\ ColGap(kd, Col(p) = NP - 1 /\ ~c) \in 0..3
      BY RangeBounds
    <2> QED BY <1>1, <2>1, RangesOf
  <1>5. /\ ToAt(p, 1) = 0 /\ ToAt(p, 2) = ln[p] - 4
        /\ ToAt(p, 3) = lm[p] - 4 /\ ToAt(p, 4) = 0
    BY DEF ToAt, nover
  <1>6. /\ Filled(c, kd, p, 1) \subseteq 1..ln[p] /\ Filled(c, kd, p, 2) \subseteq 1..ln[p]
        /\ Filled(c, kd, p, 3) \subseteq 1..lm[p] /\ Filled(c, kd, p, 4) \subseteq 1..lm[p]
    <2>1. \A h \in 1..4 : Filled(c, kd, p, h) \subseteq {ToAt(p, h) + o : o \in Offsets(kd, h)}
      BY DEF Filled
    <2>2. \A h \in 1..4 : Filled(c, kd, p, h) \subseteq {ToAt(p, h) + o : o \in 1..4}
      BY <1>2, <2>1
    <2> QED BY <1>1, <1>5, <2>2
  <1> QED BY <1>3, <1>4, <1>6 DEF FreshRows, FreshCols

\* Processes of one row have the same rows, of one column the same columns.
LEMMA SameRanges ==
    ASSUME NEW c \in BOOLEAN, NEW kd \in Kind, NEW p \in Rank, NEW q \in Rank
    PROVE  /\ Row(p) = Row(q) => /\ lm[p] = lm[q] /\ RowsOf(kd, p) = RowsOf(kd, q)
                                 /\ RowStart(p) = RowStart(q)
           /\ Col(p) = Col(q) => /\ ln[p] = ln[q] /\ ColStart(p) = ColStart(q)
                                 /\ FreshCols(c, kd, p, 2) = FreshCols(c, kd, q, 2)
  <1>1. /\ lm[p] = SubLength(M, MP, Row(p)) /\ lm[q] = SubLength(M, MP, Row(q))
        /\ ln[p] = SubLength(N, NP, Col(p)) /\ ln[q] = SubLength(N, NP, Col(q))
    BY DEF lm, ln, Row, Col
  <1>2. ASSUME Row(p) = Row(q)
        PROVE  lm[p] = lm[q] /\ RowsOf(kd, p) = RowsOf(kd, q) /\ RowStart(p) = RowStart(q)
    <2>1. lm[p] = lm[q]
      BY <1>1, <1>2
    <2> QED BY <1>2, <2>1, RangesOf DEF RowStart
  <1>3. ASSUME Col(p) = Col(q)
        PROVE  /\ ln[p] = ln[q] /\ ColStart(p) = ColStart(q)
               /\ FreshCols(c, kd, p, 2) = FreshCols(c, kd, q, 2)
    <2>1. ln[p] = ln[q]
      BY <1>1, <1>3
    <2>2. ColsOf(c, kd, p) = ColsOf(c, kd, q)
      BY <1>3, <2>1, RangesOf
    <2>3. /\ SourceOf(c, p, 1) = ProcNull <=> SourceOf(c, q, 1) = ProcNull
          /\ SourceOf(c, p, 2) = ProcNull <=> SourceOf(c, q, 2) = ProcNull
      BY <1>3, EdgePartners DEF Col
    <2>4. ToAt(p, 1) = ToAt(q, 1) /\ ToAt(p, 2) = ToAt(q, 2)
      BY <2>1 DEF ToAt
    <2>5. Filled(c, kd, p, 1) = Filled(c, kd, q, 1) /\ Filled(c, kd, p, 2) = Filled(c, kd, q, 2)
      BY <2>3, <2>4, Zenon DEF Filled
    <2> QED BY <1>3, <2>1, <2>2, <2>5 DEF FreshCols, ColStart
  <1> QED BY <1>2, <1>3

\* Neighbouring submatrices have nover rows (columns) in common; on a cyclic
\* grid the last columns are those before the first ones.
LEMMA Adjacent ==
    ASSUME NEW c \in BOOLEAN, NEW s \in Rank, NEW p \in Rank
    PROVE  /\ DestOf(c, s, 1) = p =>
                /\ Row(s) = Row(p)
                /\ \/ /\ Col(p) = Col(s) + 1
                      /\ ColStart(p) = ColStart(s) + ln[s] - 4
                   \/ /\ c /\ Col(s) = NP - 1 /\ Col(p) = 0
                      /\ ColStart(p) = 1 /\ ColStart(s) + ln[s] - 1 = N
           /\ DestOf(c, s, 4) = p =>
                /\ Col(s) = Col(p) /\ Row(p) = Row(s) + 1
                /\ RowStart(p) = RowStart(s) + lm[s] - 4
  <1>1. /\ M \in Nat /\ N \in Nat /\ M >= 4 * MP /\ N >= 4 * NP
        /\ MP \in Nat \ {0} /\ NP \in Nat \ {0}
    BY ExchangeAssumption
  <1>2. /\ Row(s) \in 0..(MP - 1) /\ Row(p) \in 0..(MP - 1)
        /\ Col(s) \in 0..(NP - 1) /\ Col(p) \in 0..(NP - 1)
    BY PartFacts
  <1>3. DestOf(c, s, 1) = Right(MP, NP, c, s) /\ DestOf(c, s, 4) = Bot(MP, s)
    BY DEF DestOf
  <1>4. lm[s] = SubLength(M, MP, Row(s)) /\ ln[s] = SubLength(N, NP, Col(s))
    BY DEF lm, ln, Row, Col
  <1>5. ASSUME DestOf(c, s, 1) = p
        PROVE  /\ Row(s) = Row(p)
               /\ \/ /\ Col(p) = Col(s) + 1
                     /\ ColStart(p) = ColStart(s) + ln[s] - 4
                  \/ /\ c /\ Col(s) = NP - 1 /\ Col(p) = 0
                     /\ ColStart(p) = 1 /\ ColStart(s) + ln[s] - 1 = N
    <2>1. /\ Row(p) = Row(s)
          /\ Col(p) = Col(s) + 1 \/ (c /\ Col(s) = NP - 1 /\ Col(p) = 0)
      BY <1>3, <1>5, PartnerPlaces DEF Row, Col
    <2>2. CASE Col(p) = Col(s) + 1
      <3>1. Col(s) < NP - 1
        BY <1>1, <1>2, <2>2
      <3>2. SubStart(N, NP, Col(s) + 1) = SubStart(N, NP, Col(s)) + SubLength(N, NP, Col(s)) - 4
        BY <1>1, <1>2, <3>1, Segments
      <3> QED BY <1>4, <2>1, <2>2, <3>2 DEF ColStart
    <2>3. CASE c /\ Col(s) = NP - 1 /\ Col(p) = 0
      BY <2>1, <2>3, PartFacts
    <2> QED BY <2>1, <2>2, <2>3
  <1>6. ASSUME DestOf(c, s, 4) = p
        PROVE  /\ Col(s) = Col(p) /\ Row(p) = Row(s) + 1
               /\ RowStart(p) = RowStart(s) + lm[s] - 4
    <2>1. Col(p) = Col(s) /\ Row(p) = Row(s) + 1
      BY <1>3, <1>6, PartnerPlaces DEF Row, Col
    <2>2. Row(s) < MP - 1
      BY <1>1, <1>2, <2>1
    <2>3. SubStart(M, MP, Row(s) + 1) = SubStart(M, MP, Row(s)) + SubLength(M, MP, Row(s)) - 4
      BY <1>1, <1>2, <2>2, Segments
    <2> QED BY <1>4, <2>1, <2>3 DEF RowStart
  <1> QED BY <1>5, <1>6

\* What a shift sends from the far end, or from the near end, is computed by
\* the sender where it has six rows or columns and no edge there.
LEMMA OffsetTable ==
    ASSUME NEW kd \in Kind, NEW e \in BOOLEAN
    PROVE  /\ \A o \in Offsets(kd, 1) : 1 <= o /\ o <= 4 - ColGap(kd, FALSE)
           /\ \A o \in Offsets(kd, 2) : ColLow(kd, FALSE) <= o /\ o <= 6 - ColGap(kd, e)
           /\ \A o \in Offsets(kd, 3) : RowLow(kd, FALSE) <= o /\ o <= 6 - RowGap(kd, e)
           /\ \A o \in Offsets(kd, 4) : 1 <= o /\ o <= 4 - RowGap(kd, FALSE)
  <1>1. kd = "ee" \/ kd = "uu" \/ kd = "vv" \/ kd = "zs"
    BY DEF Kind
  <1>2. \A o \in Offsets(kd, 1) : 1 <= o /\ o <= 4 - ColGap(kd, FALSE)
    BY <1>1 DEF Offsets, ColGap
  <1>3. \A o \in Offsets(kd, 2) : ColLow(kd, FALSE) <= o /\ o <= 6 - ColGap(kd, e)
    BY <1>1 DEF Offsets, ColLow, ColGap
  <1>4. \A o \in Offsets(kd, 3) : RowLow(kd, FALSE) <= o /\ o <= 6 - RowGap(kd, e)
    BY <1>1 DEF Offsets, RowLow, RowGap
  <1>5. \A o \in Offsets(kd, 4) : 1 <= o /\ o <= 4 - RowGap(kd, FALSE)
    BY <1>1 DEF Offsets, RowGap
  <1> QED BY <1>2, <1>3, <1>4, <1>5

LEMMA Modulo ==
    ASSUME NEW x \in Nat, NEW m \in Nat \ {0}
    PROVE  (x + m) % m = x % m
  <1> DEFINE r == x % m
             q == x \div m
             np == q + 2
  <1>1. r \in 0..(m - 1) /\ q \in Nat /\ x = m * q + r
    BY SMT
  <1> HIDE DEF r, q
  <1>2. np \in Nat \ {0} /\ q \in 0..(np - 1) /\ q + 1 \in 0..(np - 1)
    BY <1>1
  <1> HIDE DEF np
  <1>3. \A a \in 0..(m - 1), b \in 0..(np - 1) :
          /\ a + m * b \in 0..(m * np - 1)
          /\ RowPart(m, a + m * b) = a /\ ColPart(m, a + m * b) = b
    BY <1>2, RankOfPlace
  <1>4. (r + m * (q + 1)) % m = r
    BY <1>1, <1>2, <1>3 DEF RowPart
  <1>5. r + m * (q + 1) = x + m
    <2>1. m * (q + 1) = m * q + m /\ m * q \in Nat
      BY <1>1
    <2> QED BY <1>1, <2>1
  <1> QED BY <1>4, <1>5 DEF r

\* The right neighbour's first columns are the last but four of the left one.
LEMMA SameColumns ==
    ASSUME NEW c \in BOOLEAN, Wide(c), NEW s \in Rank, NEW p \in Rank,
           DestOf(c, s, 1) = p, NEW o \in 1..4
    PROVE  Wrapped(c, GlobalIndex(N, NP, ColPart(MP, s), ln[s] - 4 + o))
             = Wrapped(c, GlobalIndex(N, NP, ColPart(MP, p), o))
  <1>1. /\ ln[s] \in Nat /\ ColStart(s) \in Nat \ {0} /\ ColStart(p) \in Nat \ {0}
        /\ N \in Nat /\ NP \in Nat \ {0} /\ N >= 4 * NP
    BY PartFacts, ExchangeAssumption
  <1>2. /\ GlobalIndex(N, NP, ColPart(MP, s), ln[s] - 4 + o) = ln[s] - 4 + o + ColStart(s) - 1
        /\ GlobalIndex(N, NP, ColPart(MP, p), o) = o + ColStart(p) - 1
    BY DEF GlobalIndex, ColStart, Col
  <1>3. CASE ColStart(p) = ColStart(s) + ln[s] - 4
    <2>1. ln[s] - 4 + o + ColStart(s) - 1 = o + ColStart(p) - 1
      BY <1>1, <1>3
    <2> QED BY <1>2, <2>1
  <1>4. CASE c /\ ColStart(p) = 1 /\ ColStart(s) + ln[s] - 1 = N
    <2>1. N - 4 \in Nat \ {0}
      BY <1>1, <1>4 DEF Wide
    <2> DEFINE g == ln[s] - 4 + o + ColStart(s) - 1
               h == o + ColStart(p) - 1
    <2>2. g - 1 = (o - 1) + (N - 4) /\ h - 1 = o - 1 /\ o - 1 \in Nat
      BY <1>1, <1>4
    <2>3. ((o - 1) + (N - 4)) % (N - 4) = (o - 1) % (N - 4)
      BY <2>1, <2>2, Modulo
    <2> HIDE DEF g, h
    <2>4. Wrapped(c, g) = ((g - 1) % (N - 4)) + 1 /\ Wrapped(c, h) = ((h - 1) % (N - 4)) + 1
      BY <1>4 DEF Wrapped, nover
    <2>5. Wrapped(c, g) = Wrapped(c, h)
      BY <2>2, <2>3, <2>4, Zenon
    <2> QED BY <1>2, <2>5 DEF g, h
  <1> QED BY <1>3, <1>4, Adjacent

\* The lower neighbour's first rows are the last but four of the upper one.
LEMMA SameRows ==
    ASSUME NEW c \in BOOLEAN, NEW s \in Rank, NEW p \in Rank,
           DestOf(c, s, 4) = p, NEW o \in 1..4
    PROVE  GlobalIndex(M, MP, RowPart(MP, s), lm[s] - 4 + o)
             = GlobalIndex(M, MP, RowPart(MP, p), o)
  <1>1. /\ lm[s] \in Nat /\ RowStart(s) \in Nat \ {0} /\ RowStart(p) \in Nat \ {0}
    BY PartFacts
  <1>2. /\ GlobalIndex(M, MP, RowPart(MP, s), lm[s] - 4 + o) = lm[s] - 4 + o + RowStart(s) - 1
        /\ GlobalIndex(M, MP, RowPart(MP, p), o) = o + RowStart(p) - 1
    BY DEF GlobalIndex, RowStart, Row
  <1>3. RowStart(p) = RowStart(s) + lm[s] - 4
    BY Adjacent
  <1>4. lm[s] - 4 + o + RowStart(s) - 1 = o + RowStart(p) - 1
    BY <1>1, <1>3
  <1> QED BY <1>2, <1>4

\* The columns a process sends are its own, and the receiver fills the same
\* points with them.
LEMMA SentColumns ==
    ASSUME NEW c \in BOOLEAN, Wide(c), NEW kd \in Kind, NEW s \in Rank, NEW p \in Rank,
           NEW k \in {1, 2}, DestOf(c, s, k) = p, NEW o \in Offsets(kd, k)
    PROVE  /\ lm[s] = lm[p] /\ RowsOf(kd, s) = RowsOf(kd, p)
           /\ FromAt(s, k) + o \in ColsOf(c, kd, s)
           /\ \A i : PointOf(c, s, i, FromAt(s, k) + o) = PointOf(c, p, i, ToAt(p, k) + o)
  <1>1. o \in 1..4
    BY RangeBounds
  <1>2. /\ Col(s) \in 0..(NP - 1) /\ Col(p) \in 0..(NP - 1) /\ NP \in Nat \ {0}
        /\ ln[s] \in Nat /\ (NP > 1 => ln[s] >= 6) /\ (NP = 1 => ln[s] = N) /\ N \in Nat
    BY PartFacts, ExchangeAssumption
  <1>3. /\ ColsOf(c, kd, s) = ColLow(kd, Col(s) = 0 /\ ~c)
                                ..(ln[s] - ColGap(kd, Col(s) = NP - 1 /\ ~c))
        /\ ColLow(kd, Col(s) = 0 /\ ~c) \in {1, 2, 3}
        /\ ColGap(kd, Col(s) = NP - 1 /\ ~c) \in 0..3
    <2>1. /\ ColLow(kd, Col(s) = 0 /\ ~c) \in {1, 2, 3}
          /\ ColGap(kd, Col(s) = NP - 1 /\ ~c) \in 0..3
      BY RangeBounds
    <2> QED BY <2>1, RangesOf
  <1>4. ASSUME Row(s) = Row(p)
        PROVE  /\ lm[s] = lm[p] /\ RowsOf(kd, s) = RowsOf(kd, p)
               /\ \A i : GlobalIndex(M, MP, RowPart(MP, s), i) = GlobalIndex(M, MP, RowPart(MP, p), i)
    BY <1>4, SameRanges DEF Row
  <1>5. CASE k = 1
    <2>1. DestOf(c, s, 1) = p /\ FromAt(s, k) = ln[s] - 4 /\ ToAt(p, k) = 0
      BY <1>5 DEF FromAt, ToAt, nover
    <2>2. /\ Row(s) = Row(p)
          /\ (Col(s) = NP - 1 /\ ~c) = FALSE /\ ln[s] >= 6
      BY <1>2, <2>1, Adjacent DEF Wide
    <2>3. 1 <= o /\ o <= 4 - ColGap(kd, FALSE)
      BY <1>5, OffsetTable
    <2>4. FromAt(s, k) + o \in ColsOf(c, kd, s)
      <3> DEFINE lo == ColLow(kd, Col(s) = 0 /\ ~c)
                 gap == ColGap(kd, FALSE)
      <3>1. ColsOf(c, kd, s) = lo..(ln[s] - gap)
        BY <1>3, <2>2
      <3>2. lo \in {1, 2, 3} /\ gap \in 0..3
        BY RangeBounds
      <3>3. 1 <= o /\ o <= 4 - gap
        BY <2>3
      <3> HIDE DEF lo, gap
      <3>4. FromAt(s, k) + o \in lo..(ln[s] - gap)
        BY <1>1, <1>2, <2>1, <2>2, <3>2, <3>3
      <3> QED BY <3>1, <3>4
    <2>5. Wrapped(c, GlobalIndex(N, NP, ColPart(MP, s), ln[s] - 4 + o))
             = Wrapped(c, GlobalIndex(N, NP, ColPart(MP, p), o))
      BY <1>1, <2>1, SameColumns
    <2>6. FromAt(s, k) + o = ln[s] - 4 + o /\ ToAt(p, k) + o = o
      BY <1>1, <2>1
    <2> QED BY <1>4, <2>2, <2>4, <2>5, <2>6, Zenon DEF PointOf
  <1>6. CASE k = 2
    <2>1. DestOf(c, p, 1) = s /\ FromAt(s, k) = 0 /\ ToAt(p, k) = ln[p] - 4
      <3>1. SourceOf(c, p, 2) = s
        BY <1>6, Partners
      <3> QED BY <1>6, <3>1 DEF FromAt, ToAt, nover, SourceOf, Back
    <2>2. /\ Row(s) = Row(p)
          /\ (Col(s) = 0 /\ ~c) = FALSE /\ ln[s] >= 6
      BY <1>2, <2>1, Adjacent DEF Wide
    <2>3. ColLow(kd, FALSE) <= o /\ o <= 6 - ColGap(kd, Col(s) = NP - 1 /\ ~c)
      BY <1>6, OffsetTable
    <2>4. FromAt(s, k) + o \in ColsOf(c, kd, s)
      <3> DEFINE lo == ColLow(kd, FALSE)
                 gap == ColGap(kd, Col(s) = NP - 1 /\ ~c)
      <3>1. ColsOf(c, kd, s) = lo..(ln[s] - gap)
        BY <1>3, <2>2
      <3>2. lo \in {1, 2, 3} /\ gap \in 0..3
        BY RangeBounds
      <3>3. lo <= o /\ o <= 6 - gap
        BY <2>3
      <3> HIDE DEF lo, gap
      <3>4. FromAt(s, k) + o \in lo..(ln[s] - gap)
        BY <1>1, <1>2, <2>1, <2>2, <3>2, <3>3
      <3> QED BY <3>1, <3>4
    <2>5. Wrapped(c, GlobalIndex(N, NP, ColPart(MP, p), ln[p] - 4 + o))
             = Wrapped(c, GlobalIndex(N, NP, ColPart(MP, s), o))
      BY <1>1, <2>1, SameColumns
    <2>6. FromAt(s, k) + o = o /\ ToAt(p, k) + o = ln[p] - 4 + o
      BY <1>1, <2>1
    <2> QED BY <1>4, <2>2, <2>4, <2>5, <2>6, Zenon DEF PointOf
  <1> QED BY <1>5, <1>6

\* The same for the rows, corners included.
LEMMA SentRows ==
    ASSUME NEW c \in BOOLEAN, NEW kd \in Kind, NEW s \in Rank, NEW p \in Rank,
           NEW k \in {3, 4}, DestOf(c, s, k) = p, NEW o \in Offsets(kd, k)
    PROVE  /\ ln[s] = ln[p] /\ FreshCols(c, kd, s, 2) = FreshCols(c, kd, p, 2)
           /\ FromAt(s, k) + o \in RowsOf(kd, s)
           /\ \A j : PointOf(c, s, FromAt(s, k) + o, j) = PointOf(c, p, ToAt(p, k) + o, j)
  <1>1. o \in 1..4
    BY RangeBounds
  <1>2. /\ Row(s) \in 0..(MP - 1) /\ Row(p) \in 0..(MP - 1) /\ MP \in Nat \ {0}
        /\ lm[s] \in Nat /\ (MP > 1 => lm[s] >= 6)
    BY PartFacts, ExchangeAssumption
  <1>3. /\ RowsOf(kd, s) = RowLow(kd, Row(s) = 0)..(lm[s] - RowGap(kd, Row(s) = MP - 1))
        /\ RowLow(kd, Row(s) = 0) \in {2, 3} /\ RowGap(kd, Row(s) = MP - 1) \in 1..3
    BY RangesOf, RangeBounds
  <1>4. ASSUME Col(s) = Col(p)
        PROVE  /\ ln[s] = ln[p] /\ FreshCols(c, kd, s, 2) = FreshCols(c, kd, p, 2)
               /\ \A j : GlobalIndex(N, NP, ColPart(MP, s), j) = GlobalIndex(N, NP, ColPart(MP, p), j)
    BY <1>4, SameRanges DEF Col
  <1>5. CASE k = 4
    <2>1. DestOf(c, s, 4) = p /\ FromAt(s, k) = lm[s] - 4 /\ ToAt(p, k) = 0
      BY <1>5 DEF FromAt, ToAt, nover
    <2>2. Col(s) = Col(p) /\ (Row(s) = MP - 1) = FALSE /\ lm[s] >= 6
      BY <1>2, <2>1, Adjacent
    <2>3. 1 <= o /\ o <= 4 - RowGap(kd, FALSE)
      BY <1>5, OffsetTable
    <2>4. FromAt(s, k) + o \in RowsOf(kd, s)
      <3> DEFINE lo == RowLow(kd, Row(s) = 0)
                 gap == RowGap(kd, FALSE)
      <3>1. RowsOf(kd, s) = lo..(lm[s] - gap)
        BY <1>3, <2>2
      <3>2. lo \in {2, 3} /\ gap \in 1..3
        BY RangeBounds
      <3>3. 1 <= o /\ o <= 4 - gap
        BY <2>3
      <3> HIDE DEF lo, gap
      <3>4. FromAt(s, k) + o \in lo..(lm[s] - gap)
        BY <1>1, <1>2, <2>1, <2>2, <3>2, <3>3
      <3> QED BY <3>1, <3>4
    <2>5. GlobalIndex(M, MP, RowPart(MP, s), lm[s] - 4 + o)
             = GlobalIndex(M, MP, RowPart(MP, p), o)
      BY <1>1, <2>1, SameRows
    <2>6. FromAt(s, k) + o = lm[s] - 4 + o /\ ToAt(p, k) + o = o
      BY <1>1, <2>1
    <2> QED BY <1>4, <2>2, <2>4, <2>5, <2>6, Zenon DEF PointOf
  <1>6. CASE k = 3
    <2>1. DestOf(c, p, 4) = s /\ FromAt(s, k) = 0 /\ ToAt(p, k) = lm[p] - 4
      <3>1. SourceOf(c, p, 3) = s
        BY <1>6, Partners
      <3> QED BY <1>6, <3>1 DEF FromAt, ToAt, nover, SourceOf, Back
    <2>2. Col(s) = Col(p) /\ (Row(s) = 0) = FALSE /\ lm[s] >= 6
      BY <1>2, <2>1, Adjacent
    <2>3. RowLow(kd, FALSE) <= o /\ o <= 6 - RowGap(kd, Row(s) = MP - 1)
      BY <1>6, OffsetTable
    <2>4. FromAt(s, k) + o \in RowsOf(kd, s)
      <3> DEFINE lo == RowLow(kd, FALSE)
                 gap == RowGap(kd, Row(s) = MP - 1)
      <3>1. RowsOf(kd, s) = lo..(lm[s] - gap)
        BY <1>3, <2>2
      <3>2. lo \in {2, 3} /\ gap \in 1..3
        BY RangeBounds
      <3>3. lo <= o /\ o <= 6 - gap
        BY <2>3
      <3> HIDE DEF lo, gap
      <3>4. FromAt(s, k) + o \in lo..(lm[s] - gap)
        BY <1>1, <1>2, <2>1, <2>2, <3>2, <3>3
      <3> QED BY <3>1, <3>4
    <2>5. GlobalIndex(M, MP, RowPart(MP, p), lm[p] - 4 + o)
             = GlobalIndex(M, MP, RowPart(MP, s), o)
      BY <1>1, <2>1, SameRows
    <2>6. FromAt(s, k) + o = o /\ ToAt(p, k) + o = lm[p] - 4 + o
      BY <1>1, <2>1
    <2> QED BY <1>4, <2>2, <2>4, <2>5, <2>6, Zenon DEF PointOf
  <1> QED BY <1>5, <1>6
-----------------------------------------------------------------------------
(* The values *)

\* After its shift k the rows and columns of p are of the round p is in.
UpToDate(p, k) ==
    \A i \in FreshRows(cyclic, kind, p, k), j \in FreshCols(cyclic, kind, p, k) :
        val[p][i][j] = <<round[p], PointOf(cyclic, p, i, j)>>

\* The last shift that p has made: before the first update all is right.
LastShift(p) == IF phase[p] = 0 THEN 4 ELSE phase[p] - 1

Sized ==
    /\ DOMAIN val = Rank
    /\ \A p \in Rank : /\ DOMAIN val[p] = 1..lm[p]
                       /\ \A i \in 1..lm[p] : DOMAIN val[p][i] = 1..ln[p]

Values == Sized /\ (Wide(cyclic) => \A p \in Rank : UpToDate(p, LastShift(p)))

LEMMA PointIs ==
    ASSUME cyclic \in BOOLEAN, NEW p \in Rank, NEW i \in 1..lm[p], NEW j \in 1..ln[p]
    PROVE  Point[p][i][j] = PointOf(cyclic, p, i, j)
  BY DEF Point, Points, PointOf

\* What each shift adds.
LEMMA FreshSteps ==
    ASSUME NEW c, NEW kd, NEW p
    PROVE  /\ FreshRows(c, kd, p, 0) = RowsOf(kd, p) /\ FreshCols(c, kd, p, 0) = ColsOf(c, kd, p)
           /\ \A k \in {1, 2} :
                /\ FreshRows(c, kd, p, k) = RowsOf(kd, p)
                /\ FreshRows(c, kd, p, k - 1) = RowsOf(kd, p)
                /\ ColsOf(c, kd, p) \subseteq FreshCols(c, kd, p, k - 1)
                /\ FreshCols(c, kd, p, k) = FreshCols(c, kd, p, k - 1) \cup Filled(c, kd, p, k)
           /\ \A k \in {3, 4} :
                /\ FreshCols(c, kd, p, k) = FreshCols(c, kd, p, 2)
                /\ FreshCols(c, kd, p, k - 1) = FreshCols(c, kd, p, 2)
                /\ RowsOf(kd, p) \subseteq FreshRows(c, kd, p, k - 1)
                /\ FreshRows(c, kd, p, k) = FreshRows(c, kd, p, k - 1) \cup Filled(c, kd, p, k)
  <1>1. /\ FreshRows(c, kd, p, 0) = RowsOf(kd, p) /\ FreshRows(c, kd, p, 1) = RowsOf(kd, p)
        /\ FreshRows(c, kd, p, 2) = RowsOf(kd, p)
        /\ FreshRows(c, kd, p, 3) = RowsOf(kd, p) \cup Filled(c, kd, p, 3)
        /\ FreshRows(c, kd, p, 4) = RowsOf(kd, p) \cup Filled(c, kd, p, 3) \cup Filled(c, kd, p, 4)
    BY DEF FreshRows
  <1>2. /\ FreshCols(c, kd, p, 0) = ColsOf(c, kd, p)
        /\ FreshCols(c, kd, p, 1) = ColsOf(c, kd, p) \cup Filled(c, kd, p, 1)
        /\ FreshCols(c, kd, p, 2)
             = ColsOf(c, kd, p) \cup Filled(c, kd, p, 1) \cup Filled(c, kd, p, 2)
        /\ FreshCols(c, kd, p, 3) = FreshCols(c, kd, p, 2)
        /\ FreshCols(c, kd, p, 4) = FreshCols(c, kd, p, 2)
    BY DEF FreshCols
  <1> QED BY <1>1, <1>2

\* What a process sends is of the round it is in, in the points that the
\* receiver relies on.
LEMMA SentBlockOK ==
    ASSUME Protocol, Values, NEW p \in Rank, phase[p] # 0, Dest(p) # ProcNull
    PROVE  BlockOK(cyclic, kind, p, Taken(p) + 1, Block(p))
  <1> DEFINE k == phase[p]
             n == Taken(p) + 1
             b == Block(p)
             q == Dest(p)
             r == round[p]
             off == Offsets(kind, k)
  <1>1. Shape /\ Begun /\ cyclic \in BOOLEAN /\ kind \in Kind
    BY DEF Protocol, Shape
  <1>2. /\ k \in 1..4 /\ q = DestOf(cyclic, p, k) /\ SendFrom(p) = FromAt(p, k)
        /\ Shift(p)[2]..Shift(p)[3] = off
        /\ Shift(p)[1] \in {"YR", "YL"} <=> k \in {1, 2}
    BY <1>1, ShiftFacts
  <1>3. ShiftOf(n) = k /\ RoundOf(n) = r
    BY <1>1, Counts
  <1>4. q \in Rank
    BY <1>1, <1>2, Partners
  <1>5. b = IF k \in {1, 2}
            THEN [o \in off |-> [i \in 1..lm[p] |-> val[p][i][FromAt(p, k) + o]]]
            ELSE [o \in off |-> [j \in 1..ln[p] |-> val[p][FromAt(p, k) + o][j]]]
    BY <1>2, Zenon DEF Block
  <1>6. LastShift(p) = k - 1 /\ k - 1 \in 0..4
    BY <1>2 DEF LastShift
  <1>7. Wide(cyclic) => UpToDate(p, k - 1)
    BY <1>6 DEF Values
  <1>8. /\ FreshRows(cyclic, kind, p, k - 1) \subseteq 1..lm[p]
        /\ FreshCols(cyclic, kind, p, k - 1) \subseteq 1..ln[p]
    BY <1>1, <1>6, FreshInside
  <1> HIDE DEF k, n, b, q, r, off
  <1>9. DOMAIN b = off
    BY <1>5
  <1>10. ASSUME Wide(cyclic), NEW o \in off, k \in {1, 2}, NEW i \in RowsOf(kind, p)
         PROVE  b[o][i] = <<r, PointOf(cyclic, p, i, FromAt(p, k) + o)>>
    <2>1. FromAt(p, k) + o \in ColsOf(cyclic, kind, p)
      BY <1>1, <1>2, <1>4, <1>10, SentColumns DEF off
    <2>2. /\ i \in FreshRows(cyclic, kind, p, k - 1)
          /\ FromAt(p, k) + o \in FreshCols(cyclic, kind, p, k - 1)
      BY <1>10, <2>1, FreshSteps
    <2>3. val[p][i][FromAt(p, k) + o] = <<r, PointOf(cyclic, p, i, FromAt(p, k) + o)>>
      BY <1>7, <1>10, <2>2 DEF UpToDate, r
    <2>4. i \in 1..lm[p]
      BY <1>8, <2>2
    <2>5. b[o][i] = val[p][i][FromAt(p, k) + o]
      BY <1>5, <1>10, <2>4
    <2> QED BY <2>3, <2>5
  <1>11. ASSUME Wide(cyclic), NEW o \in off, k \in {3, 4}, NEW j \in FreshCols(cyclic, kind, p, 2)
         PROVE  b[o][j] = <<r, PointOf(cyclic, p, FromAt(p, k) + o, j)>>
    <2>1. FromAt(p, k) + o \in RowsOf(kind, p)
      BY <1>1, <1>2, <1>4, <1>11, SentRows DEF off
    <2>2. /\ j \in FreshCols(cyclic, kind, p, k - 1)
          /\ FromAt(p, k) + o \in FreshRows(cyclic, kind, p, k - 1)
      BY <1>11, <2>1, FreshSteps
    <2>3. val[p][FromAt(p, k) + o][j] = <<r, PointOf(cyclic, p, FromAt(p, k) + o, j)>>
      BY <1>7, <1>11, <2>2 DEF UpToDate, r
    <2>4. j \in 1..ln[p]
      BY <1>8, <2>2
    <2>5. k \notin {1, 2}
      BY <1>11
    <2>6. b[o][j] = val[p][FromAt(p, k) + o][j]
      BY <1>5, <1>11, <2>4, <2>5
    <2> QED BY <2>3, <2>6
  <1>12. BlockOK(cyclic, kind, p, n, b)
    BY <1>3, <1>9, <1>10, <1>11, Zenon DEF BlockOK, off
  <1> QED BY <1>12 DEF n, b

\* The values of the others are not touched by a step.
LEMMA OthersKeep ==
    ASSUME Values, NEW p \in Rank, cyclic' = cyclic, kind' = kind,
           \A q \in Rank : q # p => /\ val'[q] = val[q] /\ round'[q] = round[q]
                                    /\ phase'[q] = phase[q],
           Sized', Wide(cyclic) => UpToDate(p, LastShift(p))'
    PROVE  Values'
  <1>1. ASSUME Wide(cyclic), NEW q \in Rank, q # p
        PROVE  UpToDate(q, LastShift(q))'
    <2>1. UpToDate(q, LastShift(q))
      BY <1>1 DEF Values
    <2>2. LastShift(q)' = LastShift(q)
      BY <1>1 DEF LastShift
    <2> DEFINE k == LastShift(q)
               l == LastShift(q)'
    <2>3. l = k /\ UpToDate(q, k)
      BY <2>1, <2>2
    <2> HIDE DEF k, l
    <2>4. \A i \in FreshRows(cyclic', kind', q, l), j \in FreshCols(cyclic', kind', q, l) :
            val'[q][i][j] = <<round'[q], PointOf(cyclic', q, i, j)>>
      BY <1>1, <2>3 DEF UpToDate
    <2> QED BY <2>4 DEF UpToDate, l
  <1>2. Wide(cyclic)' = Wide(cyclic)
    BY DEF Wide
  <1> QED BY <1>1, <1>2 DEF Values

LEMMA UpdateValues ==
    ASSUME Protocol, Values, NEW p \in Rank, Update(p)
    PROVE  Values'
  <1>1. /\ phase[p] = 0 /\ round' = [round EXCEPT ![p] = @ + 1]
        /\ phase' = [phase EXCEPT ![p] = 1]
        /\ cyclic' = cyclic /\ kind' = kind
        /\ val' = [val EXCEPT ![p] = [i \in 1..lm[p] |-> [j \in 1..ln[p] |->
                 IF i \in Rows(p) /\ j \in Cols(p)
                 THEN <<round[p] + 1, Point[p][i][j]>> ELSE val[p][i][j]]]]
    BY DEF Update
  <1>2. Shape /\ cyclic \in BOOLEAN /\ kind \in Kind /\ Sized
    BY DEF Protocol, Shape, Values
  <1>3. \A q \in Rank : q # p => /\ val'[q] = val[q] /\ round'[q] = round[q]
                                 /\ phase'[q] = phase[q]
    BY <1>1, <1>2 DEF Shape, Sized
  <1>4. /\ round'[p] = round[p] + 1 /\ phase'[p] = 1
        /\ val'[p] = [i \in 1..lm[p] |-> [j \in 1..ln[p] |->
                 IF i \in Rows(p) /\ j \in Cols(p)
                 THEN <<round[p] + 1, Point[p][i][j]>> ELSE val[p][i][j]]]
    BY <1>1, <1>2 DEF Shape, Sized
  <1>5. Rows(p) = RowsOf(kind, p) /\ Cols(p) = ColsOf(cyclic, kind, p)
    BY Zenon DEF Rows, Cols, RowsOf, ColsOf, isleft, isright
  <1>6. Sized'
    <2>1. DOMAIN val' = Rank
      BY <1>1, <1>2 DEF Sized
    <2>2. DOMAIN val'[p] = 1..lm[p] /\ \A i \in 1..lm[p] : DOMAIN val'[p][i] = 1..ln[p]
      BY <1>4
    <2> QED BY <1>2, <1>3, <2>1, <2>2 DEF Sized
  <1>7. LastShift(p)' = 0
    BY <1>4 DEF LastShift
  <1>8. ASSUME NEW i \in RowsOf(kind, p), NEW j \in ColsOf(cyclic, kind, p)
        PROVE  val'[p][i][j] = <<round'[p], PointOf(cyclic, p, i, j)>>
    <2>1. i \in 1..lm[p] /\ j \in 1..ln[p]
      <3>1. 0 \in 0..4
        OBVIOUS
      <3> QED BY <1>2, <1>8, <3>1, FreshInside, FreshSteps
    <2>2. Point[p][i][j] = PointOf(cyclic, p, i, j)
      BY <1>2, <2>1, PointIs
    <2>3. val'[p][i][j] = <<round[p] + 1, Point[p][i][j]>>
      BY <1>4, <1>5, <1>8, <2>1
    <2> QED BY <1>4, <2>2, <2>3
  <1>9. UpToDate(p, LastShift(p))'
    <2>1. /\ FreshRows(cyclic', kind', p, LastShift(p)') = RowsOf(kind, p)
          /\ FreshCols(cyclic', kind', p, LastShift(p)') = ColsOf(cyclic, kind, p)
      BY <1>1, <1>7, FreshSteps
    <2>2. \A i \in FreshRows(cyclic', kind', p, LastShift(p)'),
             j \in FreshCols(cyclic', kind', p, LastShift(p)') :
            val'[p][i][j] = <<round'[p], PointOf(cyclic', p, i, j)>>
      <3>1. cyclic' = cyclic
        BY <1>1
      <3> QED BY <1>8, <2>1, <3>1
    <2> QED BY <2>2 DEF UpToDate
  <1> QED BY <1>1, <1>3, <1>6, <1>9, OthersKeep

LEMMA SendValues ==
    ASSUME Values, NEW p \in Rank, SendHalf(p)
    PROVE  Values'
  <1>1. UNCHANGED <<cyclic, kind, val, round, phase>>
    BY DEF SendHalf
  <1>2. Sized'
    BY <1>1 DEF Values, Sized
  <1>3. Wide(cyclic)' = Wide(cyclic)
    BY <1>1 DEF Wide
  <1>4. ASSUME NEW q \in Rank, UpToDate(q, LastShift(q))
        PROVE  UpToDate(q, LastShift(q))'
    <2>1. LastShift(q)' = LastShift(q)
      BY <1>1 DEF LastShift
    <2> QED BY <1>1, <1>4, <2>1 DEF UpToDate
  <1> QED BY <1>2, <1>3, <1>4 DEF Values

\* What is filled in is what the process would have computed itself.
LEMMA FilledUpToDate ==
    ASSUME Protocol, Values, Wide(cyclic), NEW p \in Rank, phase[p] # 0, Source(p) \in Rank,
           NEW b, BlockOK(cyclic, kind, Source(p), Taken(p) + 1, b),
           NEW i \in FreshRows(cyclic, kind, p, phase[p]),
           NEW j \in FreshCols(cyclic, kind, p, phase[p])
    PROVE  Fill(p, b)[i][j] = <<round[p], PointOf(cyclic, p, i, j)>>
  <1> DEFINE k == phase[p]
             s == Source(p)
             n == Taken(p) + 1
             r == round[p]
             off == Offsets(kind, k)
             z == ToAt(p, k)
  <1>1. Shape /\ Begun /\ cyclic \in BOOLEAN /\ kind \in Kind
    BY DEF Protocol, Shape
  <1>2. /\ k \in 1..4 /\ s = SourceOf(cyclic, p, k) /\ FillFrom(p) = z
        /\ Shift(p)[1] \in {"YR", "YL"} <=> k \in {1, 2}
    BY <1>1, ShiftFacts
  <1>3. ShiftOf(n) = k /\ RoundOf(n) = r
    BY <1>1, Counts
  <1>4. s \in Rank /\ s # ProcNull
    BY RankFacts
  <1>5. DestOf(cyclic, s, k) = p
    BY <1>1, <1>2, <1>4, Partners
  <1>6. /\ FreshRows(cyclic, kind, p, k) \subseteq 1..lm[p]
        /\ FreshCols(cyclic, kind, p, k) \subseteq 1..ln[p]
    BY <1>1, <1>2, FreshInside
  <1>7. i \in 1..lm[p] /\ j \in 1..ln[p]
    BY <1>6
  <1>8. Fill(p, b)[i][j] =
          IF k \in {1, 2} THEN IF j - z \in DOMAIN b THEN b[j - z][i] ELSE val[p][i][j]
          ELSE IF i - z \in DOMAIN b THEN b[i - z][j] ELSE val[p][i][j]
    BY <1>2, <1>7 DEF Fill
  <1>9. /\ DOMAIN b = off
        /\ \A o \in off :
             /\ k \in {1, 2} => \A x \in RowsOf(kind, s) :
                  b[o][x] = <<r, PointOf(cyclic, s, x, FromAt(s, k) + o)>>
             /\ k \in {3, 4} => \A y \in FreshCols(cyclic, kind, s, 2) :
                  b[o][y] = <<r, PointOf(cyclic, s, FromAt(s, k) + o, y)>>
    BY <1>3, Zenon DEF BlockOK
  <1>10. UpToDate(p, k - 1)
    <2>1. LastShift(p) = k - 1
      BY <1>2 DEF LastShift
    <2>2. UpToDate(p, LastShift(p))
      BY DEF Values
    <2> QED BY <2>1, <2>2
  <1>11. z \in Int
    <2>1. ln[p] \in Nat /\ lm[p] \in Nat
      BY PartFacts
    <2> QED BY <1>2, <2>1 DEF ToAt, nover
  <1>12. Filled(cyclic, kind, p, k) = {z + o : o \in off}
    BY <1>2, <1>4 DEF Filled
  <1>13. off \subseteq Int
    BY <1>1, <1>2, RangeBounds
  <1>14. i \in FreshRows(cyclic, kind, p, k) /\ j \in FreshCols(cyclic, kind, p, k)
    OBVIOUS
  <1> HIDE DEF k, s, n, r, off, z
  <1>15. CASE k \in {1, 2}
    <2>1. i \in RowsOf(kind, p) /\ i \in FreshRows(cyclic, kind, p, k - 1)
      BY <1>14, <1>15, FreshSteps
    <2>2. CASE j - z \in off
      <3> DEFINE o == j - z
      <3>1. /\ RowsOf(kind, s) = RowsOf(kind, p)
            /\ \A x : PointOf(cyclic, s, x, FromAt(s, k) + o) = PointOf(cyclic, p, x, z + o)
        BY <1>1, <1>4, <1>5, <1>15, <2>2, SentColumns DEF off, z
      <3>2. b[o][i] = <<r, PointOf(cyclic, s, i, FromAt(s, k) + o)>>
        BY <1>9, <1>15, <2>1, <2>2, <3>1
      <3>3. z + o = j
        BY <1>7, <1>11
      <3>4. Fill(p, b)[i][j] = b[o][i]
        BY <1>8, <1>9, <1>15, <2>2
      <3> HIDE DEF o
      <3>5. PointOf(cyclic, s, i, FromAt(s, k) + o) = PointOf(cyclic, p, i, j)
        BY <3>1, <3>3
      <3> QED BY <3>2, <3>4, <3>5 DEF r
    <2>3. CASE j - z \notin off
      <3>1. j \notin Filled(cyclic, kind, p, k)
        <4>1. SUFFICES ASSUME NEW o \in off, j = z + o PROVE FALSE
          BY <1>12
        <4>2. j - z = o
          BY <1>11, <1>13, <4>1
        <4> QED BY <2>3, <4>2
      <3>2. j \in FreshCols(cyclic, kind, p, k - 1)
        BY <1>14, <1>15, <3>1, FreshSteps
      <3>3. Fill(p, b)[i][j] = val[p][i][j]
        BY <1>8, <1>9, <1>15, <2>3
      <3> QED BY <1>10, <2>1, <3>2, <3>3 DEF UpToDate, r
    <2> QED BY <2>2, <2>3
  <1>16. CASE k \in {3, 4}
    <2>1. /\ j \in FreshCols(cyclic, kind, p, 2) /\ j \in FreshCols(cyclic, kind, p, k - 1)
          /\ k \notin {1, 2}
      BY <1>14, <1>16, FreshSteps
    <2>2. CASE i - z \in off
      <3> DEFINE o == i - z
      <3>1. /\ FreshCols(cyclic, kind, s, 2) = FreshCols(cyclic, kind, p, 2)
            /\ \A y : PointOf(cyclic, s, FromAt(s, k) + o, y) = PointOf(cyclic, p, z + o, y)
        BY <1>1, <1>4, <1>5, <1>16, <2>2, SentRows DEF off, z
      <3>2. b[o][j] = <<r, PointOf(cyclic, s, FromAt(s, k) + o, j)>>
        BY <1>9, <1>16, <2>1, <2>2, <3>1
      <3>3. z + o = i
        BY <1>7, <1>11
      <3>4. Fill(p, b)[i][j] = b[o][j]
        BY <1>8, <1>9, <2>1, <2>2
      <3> HIDE DEF o
      <3>5. PointOf(cyclic, s, FromAt(s, k) + o, j) = PointOf(cyclic, p, i, j)
        BY <3>1, <3>3
      <3> QED BY <3>2, <3>4, <3>5 DEF r
    <2>3. CASE i - z \notin off
      <3>1. i \notin Filled(cyclic, kind, p, k)
        <4>1. SUFFICES ASSUME NEW o \in off, i = z + o PROVE FALSE
          BY <1>12
        <4>2. i - z = o
          BY <1>11, <1>13, <4>1
        <4> QED BY <2>3, <4>2
      <3>2. i \in FreshRows(cyclic, kind, p, k - 1)
        BY <1>14, <1>16, <3>1, FreshSteps
      <3>3. Fill(p, b)[i][j] = val[p][i][j]
        BY <1>8, <1>9, <2>1, <2>3
      <3> QED BY <1>10, <2>1, <3>2, <3>3 DEF UpToDate, r
    <2> QED BY <2>2, <2>3
  <1> QED BY <1>2, <1>15, <1>16 DEF k

LEMMA ReceiveValues ==
    ASSUME Protocol, Values, NEW p \in Rank, ReceiveHalf(p)
    PROVE  Values'
  <1>1. /\ phase[p] > 0 /\ cyclic' = cyclic /\ kind' = kind /\ round' = round
        /\ phase' = [phase EXCEPT ![p] = IF @ = Len(Shifts) THEN 0 ELSE @ + 1]
        /\ Source(p) = ProcNull => val' = val
        /\ Source(p) # ProcNull =>
             /\ chan[Source(p)][p] # <<>>
             /\ val' = [val EXCEPT ![p] = Fill(p, Head(chan[Source(p)][p]))]
    BY DEF ReceiveHalf
  <1>2. Shape /\ Sized /\ cyclic \in BOOLEAN /\ kind \in Kind
    BY DEF Protocol, Shape, Values
  <1>3. /\ phase[p] \in 1..4 /\ phase[p] # 0 /\ Len(Shifts) = 4
        /\ Source(p) = SourceOf(cyclic, p, phase[p])
    BY <1>1, <1>2, ShiftFacts DEF Shape
  <1>4. \A q \in Rank : q # p => /\ val'[q] = val[q] /\ round'[q] = round[q]
                                 /\ phase'[q] = phase[q]
    BY <1>1, <1>2 DEF Shape, Sized
  <1>5. phase'[p] = IF phase[p] = 4 THEN 0 ELSE phase[p] + 1
    BY <1>1, <1>2, <1>3 DEF Shape
  <1>6. LastShift(p)' = phase[p]
    BY <1>3, <1>5 DEF LastShift
  <1>7. Source(p) # ProcNull => val'[p] = Fill(p, Head(chan[Source(p)][p]))
    BY <1>1, <1>2 DEF Sized
  <1>8. Sized'
    <2>1. DOMAIN val' = Rank
      BY <1>1, <1>2 DEF Sized
    <2>2. Source(p) = ProcNull => val'[p] = val[p]
      BY <1>1
    <2>3. \A x : DOMAIN Fill(p, x) = 1..lm[p] /\ \A i \in 1..lm[p] : DOMAIN Fill(p, x)[i] = 1..ln[p]
      BY DEF Fill
    <2>4. DOMAIN val'[p] = 1..lm[p] /\ \A i \in 1..lm[p] : DOMAIN val'[p][i] = 1..ln[p]
      BY <1>2, <1>7, <2>2, <2>3 DEF Sized
    <2> QED BY <1>2, <1>4, <2>1, <2>4 DEF Sized
  <1>9. ASSUME Wide(cyclic), NEW i \in FreshRows(cyclic, kind, p, phase[p]),
               NEW j \in FreshCols(cyclic, kind, p, phase[p])
        PROVE  val'[p][i][j] = <<round[p], PointOf(cyclic, p, i, j)>>
    <2>1. CASE Source(p) = ProcNull
      <3> DEFINE k == phase[p]
      <3>1. UpToDate(p, k - 1)
        <4>1. LastShift(p) = k - 1
          BY <1>3 DEF LastShift
        <4>2. UpToDate(p, LastShift(p))
          BY <1>9 DEF Values
        <4> QED BY <4>1, <4>2
      <3>2. Filled(cyclic, kind, p, k) = {}
        BY <1>3, <2>1 DEF Filled
      <3>3. k \in {1, 2} \/ k \in {3, 4}
        BY <1>3
      <3>4. i \in FreshRows(cyclic, kind, p, k) /\ j \in FreshCols(cyclic, kind, p, k)
        BY <1>9
      <3> HIDE DEF k
      <3>5. i \in FreshRows(cyclic, kind, p, k - 1) /\ j \in FreshCols(cyclic, kind, p, k - 1)
        BY <3>2, <3>3, <3>4, FreshSteps
      <3>6. val'[p][i][j] = val[p][i][j]
        BY <1>1, <2>1
      <3> QED BY <3>1, <3>5, <3>6 DEF UpToDate
    <2>2. CASE Source(p) # ProcNull
      <3>1. /\ Source(p) \in Rank
            /\ BlockOK(cyclic, kind, Source(p), Taken(p) + 1, Head(chan[Source(p)][p]))
        BY <1>1, <1>3, <2>2, HeadIsDue
      <3>2. Fill(p, Head(chan[Source(p)][p]))[i][j] = <<round[p], PointOf(cyclic, p, i, j)>>
        BY <1>3, <1>9, <3>1, FilledUpToDate
      <3> QED BY <1>7, <2>2, <3>2
    <2> QED BY <2>1, <2>2
  <1>10. Wide(cyclic) => UpToDate(p, LastShift(p))'
    <2> SUFFICES ASSUME Wide(cyclic) PROVE UpToDate(p, LastShift(p))'
      OBVIOUS
    <2>1. /\ FreshRows(cyclic', kind', p, LastShift(p)') = FreshRows(cyclic, kind, p, phase[p])
          /\ FreshCols(cyclic', kind', p, LastShift(p)') = FreshCols(cyclic, kind, p, phase[p])
          /\ cyclic' = cyclic /\ round' = round
      BY <1>1, <1>6
    <2>2. \A i \in FreshRows(cyclic', kind', p, LastShift(p)'),
             j \in FreshCols(cyclic', kind', p, LastShift(p)') :
            val'[p][i][j] = <<round'[p], PointOf(cyclic', p, i, j)>>
      BY <1>9, <2>1
    <2> QED BY <2>2 DEF UpToDate
  <1> QED BY <1>1, <1>4, <1>8, <1>10, OthersKeep
-----------------------------------------------------------------------------
(* The border after an exchange *)

\* A range of a part that starts at s and has l rows, seen in the whole grid.
LEMMA PartInWhole ==
    ASSUME NEW i \in Int, NEW s \in Nat \ {0}, NEW l \in Nat, NEW m \in Nat, s + l - 1 <= m,
           NEW low \in Int, NEW gap \in Int, i \in low..(l - gap),
           NEW below \in Int, below <= low, NEW above \in Int, above <= gap
    PROVE  i + s - 1 \in Int /\ below <= i + s - 1 /\ i + s - 1 <= m - above
  OBVIOUS

\* The rows and columns computed by anybody lie off the edges of the grid.
LEMMA ComputedInside ==
    ASSUME kind \in Kind, cyclic \in BOOLEAN, NEW x \in Computed
    PROVE  /\ x[1] \in Int /\ 2 <= x[1] /\ x[1] <= M - RowGap(kind, TRUE)
           /\ ~cyclic => /\ x[2] \in Int /\ ColLow(kind, TRUE) <= x[2]
                         /\ x[2] <= N - ColGap(kind, TRUE)
  <1>1. PICK q \in Rank : x \in {Point[q][i][j] : i \in Rows(q), j \in Cols(q)}
    BY DEF Computed
  <1>2. PICK i \in Rows(q), j \in Cols(q) : x = Point[q][i][j]
    BY <1>1
  <1>3. Rows(q) = RowsOf(kind, q) /\ Cols(q) = ColsOf(cyclic, kind, q)
    BY Zenon DEF Rows, Cols, RowsOf, ColsOf, isleft, isright
  <1>4. i \in 1..lm[q] /\ j \in 1..ln[q]
    <2>1. 0 \in 0..4
      OBVIOUS
    <2> QED BY <1>2, <1>3, <2>1, FreshInside, FreshSteps
  <1>5. x = PointOf(cyclic, q, i, j)
    BY <1>2, <1>4, PointIs
  <1>6. /\ x[1] = i + RowStart(q) - 1
        /\ ~cyclic => x[2] = j + ColStart(q) - 1
    BY <1>5 DEF PointOf, GlobalIndex, Wrapped, RowStart, ColStart, Row, Col
  <1>7. /\ lm[q] \in Nat /\ RowStart(q) \in Nat \ {0} /\ RowStart(q) + lm[q] - 1 <= M
        /\ ln[q] \in Nat /\ ColStart(q) \in Nat \ {0} /\ ColStart(q) + ln[q] - 1 <= N
        /\ M \in Nat /\ N \in Nat
    BY PartFacts
  <1> DEFINE re == (Row(q) = MP - 1)
             ce == (Col(q) = NP - 1 /\ ~cyclic)
             rf == (Row(q) = 0)
             cf == (Col(q) = 0 /\ ~cyclic)
  <1>8. /\ i \in RowLow(kind, rf)..(lm[q] - RowGap(kind, re))
        /\ j \in ColLow(kind, cf)..(ln[q] - ColGap(kind, ce))
    BY <1>2, <1>3, RangesOf
  <1>9. /\ rf \in BOOLEAN /\ re \in BOOLEAN /\ cf \in BOOLEAN /\ ce \in BOOLEAN
    OBVIOUS
  <1> HIDE DEF rf, re, cf, ce
  <1>10. /\ RowLow(kind, rf) \in {2, 3} /\ RowGap(kind, re) \in 1..3
         /\ ColLow(kind, cf) \in {1, 2, 3} /\ ColGap(kind, ce) \in 0..3
         /\ RowGap(kind, TRUE) \in 1..3
         /\ ColLow(kind, TRUE) \in {1, 2, 3} /\ ColGap(kind, TRUE) \in 0..3
    BY <1>9, RangeBounds
  <1>11. RowGap(kind, TRUE) <= RowGap(kind, re)
    BY <1>9 DEF RowGap
  <1>12. ColLow(kind, TRUE) <= ColLow(kind, cf)
    BY <1>9 DEF ColLow
  <1>13. ColGap(kind, TRUE) <= ColGap(kind, ce)
    <2>1. kind = "ee" \/ kind = "uu" \/ kind = "vv" \/ kind = "zs"
      BY DEF Kind
    <2> QED BY <1>9, <2>1 DEF ColGap
  <1>14. 2 <= RowLow(kind, rf) /\ RowLow(kind, rf) \in Int
    BY <1>10
  <1>15. /\ RowGap(kind, re) \in Int /\ ColLow(kind, cf) \in Int /\ ColGap(kind, ce) \in Int
         /\ RowGap(kind, TRUE) \in Int /\ ColLow(kind, TRUE) \in Int
         /\ ColGap(kind, TRUE) \in Int
    <2>1. 1..3 \subseteq Int /\ 0..3 \subseteq Int /\ {1, 2, 3} \subseteq Int
      OBVIOUS
    <2> QED BY <1>10, <2>1, Zenon
  <1>16. i \in Int /\ j \in Int /\ 2 \in Int
    BY <1>4, <1>7
  <1>17. /\ i + RowStart(q) - 1 \in Int /\ 2 <= i + RowStart(q) - 1
         /\ i + RowStart(q) - 1 <= M - RowGap(kind, TRUE)
    BY ONLY <1>7, <1>8, <1>11, <1>14, <1>15, <1>16, PartInWhole
  <1>18. /\ j + ColStart(q) - 1 \in Int /\ ColLow(kind, TRUE) <= j + ColStart(q) - 1
         /\ j + ColStart(q) - 1 <= N - ColGap(kind, TRUE)
    BY ONLY <1>7, <1>8, <1>12, <1>13, <1>15, <1>16, PartInWhole
  <1> QED BY <1>6, <1>17, <1>18, Zenon

\* What a process may use and does not have up to date, nobody computes.
LEMMA UsableIsFresh ==
    ASSUME kind \in Kind, cyclic \in BOOLEAN, NEW p \in Rank,
           NEW i \in UsableRows(p), NEW j \in UsableCols(p), Point[p][i][j] \in Computed
    PROVE  /\ i \in FreshRows(cyclic, kind, p, 4) /\ i \in 1..lm[p]
           /\ j \in FreshCols(cyclic, kind, p, 4) /\ j \in 1..ln[p]
  <1>1. kind = "ee" \/ kind = "uu" \/ kind = "vv" \/ kind = "zs"
    BY DEF Kind
  <1>2. /\ lm[p] \in Nat /\ lm[p] >= 4 /\ ln[p] \in Nat /\ ln[p] >= 4
        /\ RowStart(p) \in Nat \ {0} /\ ColStart(p) \in Nat \ {0}
        /\ Row(p) = 0 => RowStart(p) = 1
        /\ Row(p) = MP - 1 => RowStart(p) + lm[p] - 1 = M
        /\ Col(p) = 0 => ColStart(p) = 1
        /\ Col(p) = NP - 1 => ColStart(p) + ln[p] - 1 = N
        /\ M \in Nat /\ N \in Nat
    BY PartFacts
  <1>3. i \in 1..lm[p] /\ j \in 1..ln[p]
    BY <1>1, <1>2 DEF UsableRows, UsableCols
  <1>4. Point[p][i][j] = PointOf(cyclic, p, i, j)
    BY <1>3, PointIs
  <1> DEFINE x == PointOf(cyclic, p, i, j)
  <1>5. x[1] = i + RowStart(p) - 1 /\ (~cyclic => x[2] = j + ColStart(p) - 1)
    BY DEF PointOf, GlobalIndex, Wrapped, RowStart, ColStart, Row, Col
  <1>6. /\ x[1] \in Int /\ 2 <= x[1] /\ x[1] <= M - RowGap(kind, TRUE)
        /\ ~cyclic => /\ x[2] \in Int /\ ColLow(kind, TRUE) <= x[2]
                      /\ x[2] <= N - ColGap(kind, TRUE)
    BY <1>4, ComputedInside
  <1> HIDE DEF x
  <1>7. /\ SourceOf(cyclic, p, 1) = ProcNull <=> Col(p) = 0 /\ ~cyclic
        /\ SourceOf(cyclic, p, 2) = ProcNull <=> Col(p) = NP - 1 /\ ~cyclic
        /\ SourceOf(cyclic, p, 3) = ProcNull <=> Row(p) = MP - 1
        /\ SourceOf(cyclic, p, 4) = ProcNull <=> Row(p) = 0
    BY EdgePartners DEF Row, Col
  <1>8. /\ ToAt(p, 1) = 0 /\ ToAt(p, 2) = ln[p] - 4
        /\ ToAt(p, 3) = lm[p] - 4 /\ ToAt(p, 4) = 0
    BY DEF ToAt, nover
  <1>9. /\ RowGap(kind, TRUE) \in 1..3 /\ RowGap(kind, FALSE) \in 1..3
        /\ ColGap(kind, TRUE) \in 0..3 /\ ColGap(kind, FALSE) \in 0..3
        /\ ColLow(kind, TRUE) \in {1, 2, 3} /\ ColLow(kind, FALSE) \in {1, 2, 3}
        /\ RowLow(kind, TRUE) = 2 /\ RowLow(kind, FALSE) \in {2, 3}
    BY RangeBounds DEF RowLow
  <1>14. RowGap(kind, TRUE) \in Int /\ ColGap(kind, TRUE) \in Int /\ ColLow(kind, TRUE) \in Int
    <2>1. 1..3 \subseteq Int /\ 0..3 \subseteq Int /\ {1, 2, 3} \subseteq Int
      OBVIOUS
    <2> QED BY <1>9, <2>1, Zenon
  <1>10. i \in FreshRows(cyclic, kind, p, 4)
    <2>1. CASE i < RowLow(kind, Row(p) = 0)
      <3>1. Row(p) # 0
        <4>1. SUFFICES ASSUME Row(p) = 0 PROVE FALSE
          OBVIOUS
        <4>2. (Row(p) = 0) = TRUE
          BY <4>1
        <4>3. i < 2
          BY <1>9, <2>1, <4>2
        <4> QED BY <1>2, <1>3, <1>5, <1>6, <4>1, <4>3
      <3>2. (Row(p) = 0) = FALSE
        BY <3>1
      <3>3. i < RowLow(kind, FALSE)
        BY <2>1, <3>2
      <3>4. i \in Offsets(kind, 4)
        BY <1>1, <1>2, <1>3, <3>3 DEF UsableRows, RowLow, Offsets
      <3>5. i \in Filled(cyclic, kind, p, 4)
        BY <1>3, <1>7, <1>8, <3>1, <3>4 DEF Filled
      <3> QED BY <3>5 DEF FreshRows
    <2>2. CASE i > lm[p] - RowGap(kind, Row(p) = MP - 1)
      <3>1. Row(p) # MP - 1
        <4>1. SUFFICES ASSUME Row(p) = MP - 1 PROVE FALSE
          OBVIOUS
        <4>2. (Row(p) = MP - 1) = TRUE
          BY <4>1
        <4>3. i > lm[p] - RowGap(kind, TRUE)
          BY <2>2, <4>2
        <4> DEFINE gap == RowGap(kind, TRUE)
        <4>4. gap \in Int /\ x[1] <= M - gap /\ i > lm[p] - gap
          <5>1. gap \in Int
            BY <1>14, Zenon
          <5>2. x[1] <= M - gap
            BY <1>6, Zenon
          <5>3. i > lm[p] - gap
            BY <4>3, Zenon
          <5> QED BY <5>1, <5>2, <5>3, Zenon
        <4> HIDE DEF gap
        <4>5. RowStart(p) + lm[p] - 1 = M /\ i \in Int /\ RowStart(p) \in Nat /\ lm[p] \in Nat
          BY <1>2, <1>3, <4>1
        <4> QED BY <1>5, <4>4, <4>5
      <3>2. (Row(p) = MP - 1) = FALSE
        BY <3>1
      <3>3. i > lm[p] - RowGap(kind, FALSE)
        BY <2>2, <3>2
      <3> DEFINE o == i - (lm[p] - 4)
      <3>4. o \in Offsets(kind, 3)
        BY <1>1, <1>2, <1>3, <3>3 DEF UsableRows, RowGap, Offsets
      <3>5. i = lm[p] - 4 + o
        BY <1>2, <1>3
      <3> HIDE DEF o
      <3>6. i \in Filled(cyclic, kind, p, 3)
        BY <1>7, <1>8, <3>1, <3>4, <3>5 DEF Filled
      <3> QED BY <3>6 DEF FreshRows
    <2>3. CASE /\ ~(i < RowLow(kind, Row(p) = 0))
               /\ ~(i > lm[p] - RowGap(kind, Row(p) = MP - 1))
      <3> DEFINE lo == RowLow(kind, Row(p) = 0)
                 gap == RowGap(kind, Row(p) = MP - 1)
      <3>1. lo \in {2, 3} /\ gap \in 1..3
        BY RangeBounds
      <3>2. ~(i < lo) /\ ~(i > lm[p] - gap)
        BY <2>3
      <3>3. RowsOf(kind, p) = lo..(lm[p] - gap)
        BY RangesOf
      <3> HIDE DEF lo, gap
      <3>4. i \in RowsOf(kind, p)
        BY <1>2, <1>3, <3>1, <3>2, <3>3
      <3> QED BY <3>4 DEF FreshRows
    <2> QED BY <2>1, <2>2, <2>3
  <1>11. j \in FreshCols(cyclic, kind, p, 4)
    <2> DEFINE cf == (Col(p) = 0 /\ ~cyclic)
               ce == (Col(p) = NP - 1 /\ ~cyclic)
    <2>1. CASE j < ColLow(kind, cf)
      <3>1. ~cf
        <4>1. SUFFICES ASSUME cf PROVE FALSE
          OBVIOUS
        <4>2. cf = TRUE
          BY <4>1
        <4>3. j < ColLow(kind, TRUE)
          BY <2>1, <4>2
        <4> DEFINE low == ColLow(kind, TRUE)
        <4>4. Col(p) = 0 /\ ~cyclic
          BY <4>1
        <4>5. low \in Int /\ low <= x[2] /\ j < low /\ x[2] = j + ColStart(p) - 1
          <5>1. low \in Int
            BY <1>14, Zenon
          <5>2. low <= x[2]
            BY <1>6, <4>4, Zenon
          <5>3. j < low
            BY <4>3, Zenon
          <5>4. x[2] = j + ColStart(p) - 1
            BY <1>5, <4>4, Zenon
          <5> QED BY <5>1, <5>2, <5>3, <5>4, Zenon
        <4> HIDE DEF low
        <4>6. ColStart(p) = 1 /\ j \in Int
          BY <1>2, <1>3, <4>4
        <4> QED BY <4>5, <4>6
      <3>2. cf = FALSE
        BY <3>1
      <3>3. j < ColLow(kind, FALSE)
        BY <2>1, <3>2
      <3>4. j \in Offsets(kind, 1)
        BY <1>1, <1>2, <1>3, <3>3 DEF UsableCols, ColLow, Offsets
      <3>5. j \in Filled(cyclic, kind, p, 1)
        BY <1>3, <1>7, <1>8, <3>1, <3>4 DEF Filled
      <3> QED BY <3>5 DEF FreshCols
    <2>2. CASE j > ln[p] - ColGap(kind, ce)
      <3>1. ~ce
        <4>1. SUFFICES ASSUME ce PROVE FALSE
          OBVIOUS
        <4>2. ce = TRUE
          BY <4>1
        <4>3. j > ln[p] - ColGap(kind, TRUE)
          BY <2>2, <4>2
        <4> DEFINE gap == ColGap(kind, TRUE)
        <4>4. Col(p) = NP - 1 /\ ~cyclic
          BY <4>1
        <4>5. gap \in Int /\ x[2] <= N - gap /\ j > ln[p] - gap /\ x[2] = j + ColStart(p) - 1
          <5>1. gap \in Int
            BY <1>14, Zenon
          <5>2. x[2] <= N - gap
            BY <1>6, <4>4, Zenon
          <5>3. j > ln[p] - gap
            BY <4>3, Zenon
          <5>4. x[2] = j + ColStart(p) - 1
            BY <1>5, <4>4, Zenon
          <5> QED BY <5>1, <5>2, <5>3, <5>4, Zenon
        <4> HIDE DEF gap
        <4>6. ColStart(p) + ln[p] - 1 = N /\ j \in Int /\ ColStart(p) \in Nat /\ ln[p] \in Nat
          BY <1>2, <1>3, <4>4
        <4> QED BY <4>5, <4>6
      <3>2. ce = FALSE
        BY <3>1
      <3>3. j > ln[p] - ColGap(kind, FALSE)
        BY <2>2, <3>2
      <3> DEFINE o == j - (ln[p] - 4)
      <3>4. o \in Offsets(kind, 2)
        BY <1>1, <1>2, <1>3, <3>3 DEF UsableCols, ColGap, Offsets
      <3>5. j = ln[p] - 4 + o
        BY <1>2, <1>3
      <3> HIDE DEF o
      <3>6. j \in Filled(cyclic, kind, p, 2)
        BY <1>7, <1>8, <3>1, <3>4, <3>5 DEF Filled
      <3> QED BY <3>6 DEF FreshCols
    <2>3. CASE ~(j < ColLow(kind, cf)) /\ ~(j > ln[p] - ColGap(kind, ce))
      <3> DEFINE lo == ColLow(kind, cf)
                 gap == ColGap(kind, ce)
      <3>1. lo \in {1, 2, 3} /\ gap \in 0..3
        BY RangeBounds
      <3>2. ~(j < lo) /\ ~(j > ln[p] - gap)
        BY <2>3
      <3>3. ColsOf(cyclic, kind, p) = lo..(ln[p] - gap)
        BY RangesOf
      <3> HIDE DEF lo, gap
      <3>4. j \in ColsOf(cyclic, kind, p)
        BY <1>2, <1>3, <3>1, <3>2, <3>3
      <3> QED BY <3>4 DEF FreshCols
    <2> QED BY <2>1, <2>2, <2>3
  <1> QED BY <1>3, <1>10, <1>11

LEMMA ValuesComplete ==
    ASSUME Protocol, Values, Wide(cyclic)
    PROVE  HaloComplete
  <1>1. cyclic \in BOOLEAN /\ kind \in Kind
    BY DEF Protocol, Shape
  <1> SUFFICES ASSUME NEW p \in Rank, phase[p] = 0, NEW i \in UsableRows(p),
                      NEW j \in UsableCols(p), Point[p][i][j] \in Computed
               PROVE  val[p][i][j] = <<round[p], Point[p][i][j]>>
    BY DEF HaloComplete
  <1>2. /\ i \in FreshRows(cyclic, kind, p, 4) /\ i \in 1..lm[p]
        /\ j \in FreshCols(cyclic, kind, p, 4) /\ j \in 1..ln[p]
    BY <1>1, UsableIsFresh
  <1>3. UpToDate(p, 4)
    <2>1. LastShift(p) = 4
      BY DEF LastShift
    <2>2. UpToDate(p, LastShift(p))
      BY DEF Values
    <2> QED BY <2>1, <2>2
  <1>4. val[p][i][j] = <<round[p], PointOf(cyclic, p, i, j)>>
    BY <1>2, <1>3 DEF UpToDate
  <1>5. Point[p][i][j] = PointOf(cyclic, p, i, j)
    BY <1>1, <1>2, PointIs
  <1> QED BY <1>4, <1>5
-----------------------------------------------------------------------------
(* The theorems *)

HaloIInv == HaloTypeOK /\ Protocol /\ Values

LEMMA HaloInitInv == HaloInit => HaloIInv
  <1> SUFFICES ASSUME HaloInit PROVE HaloIInv
    OBVIOUS
  <1>1. /\ cyclic \in BOOLEAN /\ kind \in Kinds
        /\ val = [p \in Rank |-> [i \in 1..lm[p] |-> [j \in 1..ln[p] |-> <<0, Point[p][i][j]>>]]]
        /\ round = [p \in Rank |-> 0] /\ phase = [p \in Rank |-> 0]
        /\ sent = [p \in Rank |-> FALSE]
        /\ chan = [p \in Rank |-> [q \in Rank |-> <<>>]]
    BY DEF HaloInit
  <1>2. kind \in Kind /\ Rounds \in Nat
    BY <1>1, ExchangeAssumption
  <1>3. /\ \A p \in Rank : round[p] = 0 /\ phase[p] = 0 /\ sent[p] = FALSE
        /\ \A p, q \in Rank : chan[p][q] = <<>>
    BY <1>1
  <1>4. Sized
    BY <1>1 DEF Sized
  <1>5. HaloTypeOK
    <2>1. /\ sent \in [Rank -> BOOLEAN]
          /\ round \in [Rank -> 0..Rounds] /\ phase \in [Rank -> 0..4]
      BY <1>1, <1>2
    <2> QED BY <1>1, <1>4, <2>1 DEF HaloTypeOK, Sized
  <1>6. Shape
    BY <1>1, <1>2 DEF Shape
  <1>7. \A p \in Rank : Taken(p) = 0 /\ Given(p) = 0
    BY <1>3 DEF Taken, Given
  <1>8. Begun /\ TakenWasGiven
    BY <1>3, <1>7 DEF Begun, TakenWasGiven
  <1>9. ASSUME NEW s \in Rank, NEW d \in Rank
        PROVE  Labelled(cyclic, kind, s, chan[s][d], UnderWay(s, d))
    <2>1. UnderWay(s, d) = {}
      BY <1>7 DEF UnderWay
    <2> QED BY <1>3, <2>1, LabelEmpty
  <1>10. ASSUME NEW p \in Rank
         PROVE  UpToDate(p, LastShift(p))
    <2> SUFFICES ASSUME NEW i \in FreshRows(cyclic, kind, p, LastShift(p)),
                        NEW j \in FreshCols(cyclic, kind, p, LastShift(p))
                 PROVE  val[p][i][j] = <<round[p], PointOf(cyclic, p, i, j)>>
      BY DEF UpToDate
    <2>1. LastShift(p) \in 0..4
      BY <1>3 DEF LastShift
    <2>2. i \in 1..lm[p] /\ j \in 1..ln[p]
      BY <1>1, <1>2, <2>1, FreshInside
    <2>3. val[p][i][j] = <<0, Point[p][i][j]>>
      BY <1>1, <2>2
    <2>4. Point[p][i][j] = PointOf(cyclic, p, i, j)
      BY <1>1, <2>2, PointIs
    <2> QED BY <1>3, <2>3, <2>4
  <1>11. Protocol
    BY <1>6, <1>8, <1>9 DEF Protocol, Channels
  <1>12. Values
    BY <1>4, <1>10 DEF Values
  <1> QED BY <1>5, <1>11, <1>12 DEF HaloIInv

\* Rounds end at the bound; the rest of the type is that of the protocol.
LEMMA HaloTypeStep ==
    ASSUME HaloTypeOK, Shape', Sized', [HaloNext]_haloVars
    PROVE  HaloTypeOK'
  <1>1. /\ cyclic' \in BOOLEAN /\ sent' \in [Rank -> BOOLEAN] /\ phase' \in [Rank -> 0..4]
        /\ round' \in [Rank -> Nat]
    BY DEF Shape
  <1>2. kind' = kind
    BY DEF HaloNext, Step, Update, SendHalf, ReceiveHalf, haloVars
  <1>3. \A q \in Rank : round'[q] \in 0..Rounds
    <2>1. round \in [Rank -> 0..Rounds] /\ Rounds \in Nat
      BY ExchangeAssumption DEF HaloTypeOK
    <2>2. CASE round' = round
      BY <2>1, <2>2
    <2>3. ASSUME NEW p \in Rank, Update(p)
          PROVE  \A q \in Rank : round'[q] \in 0..Rounds
      BY <2>1, <2>3 DEF Update
    <2>4. round' = round \/ \E p \in Rank : Update(p)
      BY DEF HaloNext, Step, SendHalf, ReceiveHalf, haloVars
    <2> QED BY <2>2, <2>3, <2>4
  <1>4. round' \in [Rank -> 0..Rounds]
    BY <1>1, <1>3
  <1> QED BY <1>1, <1>2, <1>4 DEF HaloTypeOK, Sized

LEMMA HaloNextInv == HaloIInv /\ [HaloNext]_haloVars => HaloIInv'
  <1> SUFFICES ASSUME HaloTypeOK, Protocol, Values, [HaloNext]_haloVars PROVE HaloIInv'
    BY DEF HaloIInv
  <1>1. ASSUME NEW p \in Rank, Update(p)
        PROVE  Protocol' /\ Values'
    BY <1>1, UpdateProtocol, UpdateValues
  <1>2. ASSUME NEW p \in Rank, SendHalf(p)
        PROVE  Protocol' /\ Values'
    <2>1. phase[p] # 0
      <3>1. phase[p] > 0
        BY <1>2 DEF SendHalf
      <3> QED BY <3>1
    <2>2. Dest(p) # ProcNull => BlockOK(cyclic, kind, p, Taken(p) + 1, Block(p))
      BY <2>1, SentBlockOK
    <2> QED BY <1>2, <2>2, SendProtocol, SendValues
  <1>3. ASSUME NEW p \in Rank, ReceiveHalf(p)
        PROVE  Protocol' /\ Values'
    BY <1>3, ReceiveProtocol, ReceiveValues
  <1>4. ASSUME UNCHANGED haloVars
        PROVE  Protocol' /\ Values'
    <2>1. /\ cyclic' = cyclic /\ kind' = kind /\ val' = val /\ round' = round
          /\ phase' = phase /\ sent' = sent /\ chan' = chan
      BY <1>4 DEF haloVars
    <2>2. Shape' /\ Begun' /\ Sized'
      BY <2>1 DEF Protocol, Values, Shape, Begun, Sized
    <2>3. \A q : Taken(q)' = Taken(q) /\ Given(q)' = Given(q)
      BY <2>1 DEF Taken, Given
    <2>4. TakenWasGiven'
      BY <2>1, <2>3 DEF Protocol, TakenWasGiven
    <2>5. \A s, d : UnderWay(s, d)' = UnderWay(s, d)
      BY <2>1, <2>3 DEF UnderWay
    <2>6. Channels'
      BY <2>1, <2>5 DEF Protocol, Channels
    <2>7. \A q : UpToDate(q, LastShift(q))' = UpToDate(q, LastShift(q))
      BY <2>1 DEF UpToDate, LastShift
    <2>8. Values'
      BY <2>1, <2>2, <2>7 DEF Values
    <2> QED BY <2>2, <2>4, <2>6, <2>8 DEF Protocol
  <1>5. Protocol' /\ Values'
    BY <1>1, <1>2, <1>3, <1>4 DEF HaloNext, Step
  <1>6. HaloTypeOK'
    BY <1>5, HaloTypeStep DEF Protocol, Values
  <1> QED BY <1>5, <1>6 DEF HaloIInv

LEMMA HaloInvariant == HaloSpec => []HaloIInv
  BY HaloInitInv, HaloNextInv, PTL DEF HaloSpec

\* The submatrices keep their sizes and every process goes through the shifts
\* of at most Rounds exchanges.
THEOREM HaloTypeCorrect == HaloSpec => []HaloTypeOK
  <1>1. HaloIInv => HaloTypeOK
    BY DEF HaloIInv
  <1> QED BY <1>1, HaloInvariant, PTL

\* On every grid of processes, without any barrier, neighbours are at most one
\* round apart, and of the blocks that one process sends to another with the
\* same tag at most two are under way, of different shifts (xmpi.F90).
THEOREM SkewAlwaysBounded == HaloSpec => []SkewBounded
  <1>1. HaloIInv => SkewBounded
    BY ProtocolSkew DEF HaloIInv
  <1> QED BY <1>1, HaloInvariant, PTL

\* On every grid and for every kind of field, the border has after an exchange
\* the values that their owners computed in that very round, corners included.
\* It holds for all grids that the check of the size admits but those of four
\* or five columns that are closed on themselves on one processor column.
THEOREM HaloCompleteWide == HaloSpec => [](Wide(cyclic) => HaloComplete)
  <1>1. HaloIInv => (Wide(cyclic) => HaloComplete)
    BY ValuesComplete DEF HaloIInv
  <1> QED BY <1>1, HaloInvariant, PTL
=============================================================================
