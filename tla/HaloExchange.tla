---------------------------- MODULE HaloExchange ----------------------------
(***************************************************************************)
(* A field on its submatrices: every process computes its own range of it, *)
(* and xmpi_shift_ee, _uu, _vv or _zs fills the border from the neighbours *)
(* (xmpi.F90), round after round and without a barrier in between.  Values *)
(* are the round and the global point they were computed in and for.      *)
(***************************************************************************)
EXTENDS Decomposition, Sequences

CONSTANTS M, N,        \* rows and columns of the global grid
          MP, NP,      \* the processor grid
          Kinds,       \* the kinds of fields to exchange
          Rounds       \* bound: how often

ASSUME ExchangeAssumption ==
    /\ MP \in Nat \ {0} /\ NP \in Nat \ {0} /\ M \in Nat /\ N \in Nat
    /\ M >= 4 * MP /\ N >= 4 * NP /\ N > 3       \* the checked grid, ny > 2
    /\ Kinds \subseteq Kind /\ Rounds \in Nat

VARIABLES cyclic,  \* par%cyclic
          kind,    \* of the field, the same for all
          val,     \* val[p][i][j]: the submatrices, local indices
          round,   \* rounds a process has begun
          phase,   \* 0 between two exchanges, else the shift it is in
          sent,    \* the sending half of that shift is done
          chan     \* blocks under way, all with one tag: FIFO for each pair

haloVars == <<cyclic, kind, val, round, phase, sent, chan>>

Rank == 0..(MP * NP - 1)

\* The sizes of the submatrices.
lm == [p \in Rank |-> SubLength(M, MP, RowPart(MP, p))]
ln == [p \in Rank |-> SubLength(N, NP, ColPart(MP, p))]

\* The global point of a local one; a cyclic grid closes on itself.
Wrapped(c, g) == IF c THEN ((g - 1) % (N - nover)) + 1 ELSE g

Points ==
    [c \in BOOLEAN |-> [p \in Rank |-> [i \in 1..lm[p] |-> [j \in 1..ln[p] |->
        <<GlobalIndex(M, MP, RowPart(MP, p), i),
          Wrapped(c, GlobalIndex(N, NP, ColPart(MP, p), j))>>]]]]

Point == Points[cyclic]

istop(p)   == First(RowPart(MP, p))
isbot(p)   == Last(MP, RowPart(MP, p))
isleft(p)  == First(ColPart(MP, p)) /\ ~cyclic
isright(p) == Last(NP, ColPart(MP, p)) /\ ~cyclic

\* The range a process computes (ranges_init).
Rows(p) == RangeLow(kind, "row", M, istop(p))..(lm[p] - RangeGap(kind, "row", M, isbot(p)))
Cols(p) == RangeLow(kind, "col", N, isleft(p))..(ln[p] - RangeGap(kind, "col", N, isright(p)))
-----------------------------------------------------------------------------
(* The shifts *)

\* Mutant of Shifts: the columns sent to the left are one off.
ShiftsOff ==
    CASE kind = "ee" -> << <<"YR", 1, 2>>, <<"YL", 2, 3>>, <<"XU", 3, 4>>, <<"XD", 1, 2>> >>
      [] kind = "uu" -> << <<"YR", 1, 2>>, <<"YL", 3, 4>>, <<"XU", 2, 3>>, <<"XD", 1, 1>> >>
      [] kind = "vv" -> << <<"YR", 1, 1>>, <<"YL", 2, 3>>, <<"XU", 3, 4>>, <<"XD", 1, 2>> >>
      [] kind = "zs" -> << <<"YR", 2, 2>>, <<"YL", 3, 3>>, <<"XU", 3, 3>>, <<"XD", 2, 2>> >>

\* Direction, first and last of the rows or columns to be filled.
Shifts ==
    CASE kind = "ee" -> << <<"YR", 1, 2>>, <<"YL", 3, 4>>, <<"XU", 3, 4>>, <<"XD", 1, 2>> >>
      [] kind = "uu" -> << <<"YR", 1, 2>>, <<"YL", 3, 4>>, <<"XU", 2, 3>>, <<"XD", 1, 1>> >>
      [] kind = "vv" -> << <<"YR", 1, 1>>, <<"YL", 2, 3>>, <<"XU", 3, 4>>, <<"XD", 1, 2>> >>
      [] kind = "zs" -> << <<"YR", 2, 2>>, <<"YL", 3, 3>>, <<"XU", 3, 3>>, <<"XD", 2, 2>> >>

Shift(p) == Shifts[phase[p]]

\* Mutant of Dest: the shift up goes down.
DestDown(p) ==
    LET d == Shift(p)[1] IN
    CASE d = "YR" -> Right(MP, NP, cyclic, p) [] d = "YL" -> Left(MP, NP, cyclic, p)
      [] d \in {"XU", "XD"} -> Bot(MP, p)

Dest(p) ==
    LET d == Shift(p)[1] IN
    CASE d = "YR" -> Right(MP, NP, cyclic, p) [] d = "YL" -> Left(MP, NP, cyclic, p)
      [] d = "XU" -> Top(MP, p)               [] d = "XD" -> Bot(MP, p)

Source(p) ==
    LET d == Shift(p)[1] IN
    CASE d = "YR" -> Left(MP, NP, cyclic, p) [] d = "YL" -> Right(MP, NP, cyclic, p)
      [] d = "XU" -> Bot(MP, p)              [] d = "XD" -> Top(MP, p)

\* Y_R and X_D send from the far end and fill at the near end.
FarEnd(p)   == IF Shift(p)[1] \in {"YR", "YL"} THEN ln[p] - nover ELSE lm[p] - nover
SendFrom(p) == IF Shift(p)[1] \in {"YR", "XD"} THEN FarEnd(p) ELSE 0
FillFrom(p) == IF Shift(p)[1] \in {"YR", "XD"} THEN 0 ELSE FarEnd(p)

\* Offsets i1 .. i2 of the block, in the direction of the shift.
Block(p) ==
    LET o == Shift(p)[2]..Shift(p)[3] IN
    IF Shift(p)[1] \in {"YR", "YL"}
    THEN [k \in o |-> [i \in 1..lm[p] |-> val[p][i][SendFrom(p) + k]]]
    ELSE [k \in o |-> [j \in 1..ln[p] |-> val[p][SendFrom(p) + k][j]]]

Fill(p, block) ==
    LET at(x) == x - FillFrom(p) IN
    [i \in 1..lm[p] |-> [j \in 1..ln[p] |->
        IF Shift(p)[1] \in {"YR", "YL"}
        THEN IF at(j) \in DOMAIN block THEN block[at(j)][i] ELSE val[p][i][j]
        ELSE IF at(i) \in DOMAIN block THEN block[at(i)][j] ELSE val[p][i][j]]]
-----------------------------------------------------------------------------
HaloInit ==
    /\ cyclic \in BOOLEAN /\ kind \in Kinds
    /\ val = [p \in Rank |-> [i \in 1..lm[p] |-> [j \in 1..ln[p] |-> <<0, Point[p][i][j]>>]]]
    /\ round = [p \in Rank |-> 0] /\ phase = [p \in Rank |-> 0]
    /\ sent = [p \in Rank |-> FALSE]
    /\ chan = [p \in Rank |-> [q \in Rank |-> <<>>]]

\* The computation between two exchanges.
Update(p) ==
    /\ phase[p] = 0 /\ round[p] < Rounds
    /\ round' = [round EXCEPT ![p] = @ + 1]
    /\ val' = [val EXCEPT ![p] = [i \in 1..lm[p] |-> [j \in 1..ln[p] |->
                 IF i \in Rows(p) /\ j \in Cols(p)
                 THEN <<round[p] + 1, Point[p][i][j]>> ELSE @[i][j]]]]
    /\ phase' = [phase EXCEPT ![p] = 1]
    /\ UNCHANGED <<cyclic, kind, sent, chan>>

\* MPI_Sendrecv, its two halves; MPI_PROC_NULL takes and gives nothing.
SendHalf(p) ==
    /\ phase[p] > 0 /\ ~sent[p]
    /\ chan' = IF Dest(p) = ProcNull THEN chan
               ELSE [chan EXCEPT ![p][Dest(p)] = Append(@, Block(p))]
    /\ sent' = [sent EXCEPT ![p] = TRUE]
    /\ UNCHANGED <<cyclic, kind, val, round, phase>>

\* Mutant of ReceiveHalf: it does not wait for the block.
ReceiveHasty(p) ==
    /\ phase[p] > 0 /\ sent[p]
    /\ IF Source(p) = ProcNull \/ chan[Source(p)][p] = <<>> THEN UNCHANGED <<val, chan>>
       ELSE /\ val' = [val EXCEPT ![p] = Fill(p, Head(chan[Source(p)][p]))]
            /\ chan' = [chan EXCEPT ![Source(p)][p] = Tail(@)]
    /\ sent' = [sent EXCEPT ![p] = FALSE]
    /\ phase' = [phase EXCEPT ![p] = IF @ = Len(Shifts) THEN 0 ELSE @ + 1]
    /\ UNCHANGED <<cyclic, kind, round>>

ReceiveHalf(p) ==
    /\ phase[p] > 0 /\ sent[p]
    /\ IF Source(p) = ProcNull THEN UNCHANGED <<val, chan>>
       ELSE /\ chan[Source(p)][p] # <<>>
            /\ val' = [val EXCEPT ![p] = Fill(p, Head(chan[Source(p)][p]))]
            /\ chan' = [chan EXCEPT ![Source(p)][p] = Tail(@)]
    /\ sent' = [sent EXCEPT ![p] = FALSE]
    /\ phase' = [phase EXCEPT ![p] = IF @ = Len(Shifts) THEN 0 ELSE @ + 1]
    /\ UNCHANGED <<cyclic, kind, round>>

Step(p) == Update(p) \/ SendHalf(p) \/ ReceiveHalf(p)

HaloNext == \E p \in Rank : Step(p)

HaloSpec == HaloInit /\ [][HaloNext]_haloVars

HaloFairSpec == HaloSpec /\ \A p \in Rank : WF_haloVars(Step(p))
-----------------------------------------------------------------------------
(* Properties *)

HaloTypeOK ==
    /\ cyclic \in BOOLEAN /\ kind \in Kinds /\ sent \in [Rank -> BOOLEAN]
    /\ round \in [Rank -> 0..Rounds] /\ phase \in [Rank -> 0..4]
    /\ \A p \in Rank : DOMAIN val[p] = 1..lm[p] /\ \A i \in 1..lm[p] : DOMAIN val[p][i] = 1..ln[p]

\* The points a process may use after an exchange: those beyond the last u-
\* and v-point, and the outermost ones of a water level, are never filled.
UsableRows(p) == CASE kind \in {"ee", "vv"} -> 1..lm[p] [] kind = "uu" -> 1..(lm[p] - 1)
                   [] kind = "zs" -> 2..(lm[p] - 1)
UsableCols(p) == CASE kind \in {"ee", "uu"} -> 1..ln[p] [] kind = "vv" -> 1..(ln[p] - 1)
                   [] kind = "zs" -> 2..(ln[p] - 1)

Computed == UNION {{Point[p][i][j] : i \in Rows(p), j \in Cols(p)} : p \in Rank}

\* After an exchange every point of the border that anybody computes, corners
\* included, has the value its owner gave it in this very round: neither an
\* older one nor one of a neighbour that is ahead, nor that of another point.
HaloComplete ==
    LET computed == Computed IN
    \A p \in Rank : (phase[p] = 0 /\ round[p] > 0) =>
        \A i \in UsableRows(p), j \in UsableCols(p) :
            Point[p][i][j] \in computed => val[p][i][j] = <<round[p], Point[p][i][j]>>

\* A neighbour is never more than one round away, so that at most the shifts
\* of one exchange are under way.
SkewBounded ==
    \A p, q \in Rank :
        /\ q \in {Left(MP, NP, cyclic, p), Top(MP, p)} =>
             round[p] - round[q] \in -1..1
        /\ Len(chan[p][q]) <= 2

\* No shift waits for ever: all rounds are completed by everybody.
Completes == <>(\A p \in Rank : round[p] = Rounds /\ phase[p] = 0)
=============================================================================
