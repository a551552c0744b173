---------------------------- MODULE WaveBoundary ----------------------------
(***************************************************************************)
(* The sequence of wave boundary conditions: wave_bc of                    *)
(* boundaryconditions.F90 and spectral_wave_bc of waveparamsnew.F90.       *)
(*                                                                         *)
(* executestep calls wave_bc after it moved the clock, so this module      *)
(* builds on TimeStep.  A condition is valid until bcendtime; then the     *)
(* next one is read, generated from a spectrum, or taken from the list of  *)
(* a former run.  The signal of a condition is a file of records dtbc      *)
(* apart, two of which are in memory.  Spectra and signals are left out: a *)
(* record is its number.                                                   *)
(*                                                                         *)
(*   "table"   jons_table with stationary waves                            *)
(*   "spectra" parametric, jons_table, swan or vardens with surfbeat       *)
(*   "reuse"   the lists of a former run with surfbeat                     *)
(*   "series"  ts_nonh: velocities from boun_U.bcf                         *)
(***************************************************************************)
EXTENDS TimeStep, VelocitySeries

CONSTANTS Waves,      \* the wave input a run may have
          Taper,      \* par%taper
          InParallel  \* USEMPI: the records are distributed over processes

\* huge(0.0d0), the end time before there is a condition: past every run.
Huge == 1000000

\* There is a condition, and a series has a record: the program stops when it
\* cannot read the first one.
ASSUME WavesAssumption ==
    /\ InParallel \in BOOLEAN /\ Taper \in Nat
    /\ \A c \in Pars : c.tstop < Huge
    /\ \A w \in Waves : IF w.kind = "series" THEN w.file # <<>>
                         ELSE w.dur # <<>> /\ \A l \in DOMAIN w.dur : w.dur[l] # <<>>
    /\ Waves \subseteq
        [kind : {"table", "spectra", "reuse", "series"},
         dur  : Seq(Seq(Nat \ {0})),   \* durations, for each location
         keep : BOOLEAN,               \* one spectrum: no FILELIST, no table
         dtbc : Nat \ {0},
         file : Seq(Int)]              \* times of the records of boun_U.bcf

VARIABLES wave,    \* the input, one of Waves
          bc,      \* the condition and where its input has been read to
          sig,     \* the records of the signal in memory
          srs,     \* the window of the series
          taper,   \* par%taper on xmaster and on the other processes
          halted   \* "no", or what report_file_read_error stopped it for

waveVars == <<wave, bc, sig, srs, taper, halted>>

NoSignal == [old |-> 0, recpos |-> 0, e |-> <<0, 0>>, q |-> <<0, 0>>]

\* A line of ebcflist.bcf and qbcflist.bcf: end and duration of a condition.
Line(end, rt) == [end |-> end, rt |-> rt]

SumUpTo(f, n) == MapThenSumSet(LAMBDA k : f[k], 1..n)
EndOf(w, n)   == SumUpTo(w.dur[1], n)

\* The lists a former run left behind.
FormerList(w) ==
    IF w.kind = "reuse"
    THEN [i \in 1..Len(w.dur[1]) |-> Line(EndOf(w, i), w.dur[1][i])] ELSE <<>>

\* bcendtime is huge until the first condition is there.
WaveInit ==
    /\ Init
    /\ wave \in Waves
    /\ bc = [created |-> FALSE, end |-> Huge, count |-> 0, line |-> 0,
             list |-> FormerList(wave), specend |-> 0, rt |-> 0,
             read |-> [l \in 1..Len(wave.dur) |-> 0],
             reuseall |-> FALSE, startbcf |-> FALSE]
    /\ sig = NoSignal /\ srs = NoSeries
    /\ taper = [master |-> Taper, rest |-> Taper]
    /\ halted = "no"
-----------------------------------------------------------------------------
(* spectral_wave_bc *)

\* The k-th duration of a location, and how long n more of them take.
Duration(l, k) == IF wave.keep THEN wave.dur[l][1] ELSE wave.dur[l][k]
More(b, l, n) ==
    SumUpTo([i \in Nat |-> Duration(l, b.read[l] + i)], n)

\* The numbers of spectra of a location there are to read.
Left(b, l, now) == 0..(IF wave.keep THEN now + 1 ELSE Len(wave.dur[l]) - b.read[l])

\* Spectra are read until their end is past the clock.
Enough(b, l, now) == {n \in Left(b, l, now) : now < b.specend + More(b, l, n)}

\* Mutant of Reads: one spectrum a call.
ReadsOne(b, l, now) == IF b.specend > now THEN 0 ELSE 1

Reads(b, l, now) == Min(Enough(b, l, now))

\* All locations start from the end time of the first; the duration of the
\* last spectrum read is the length of the new signal.
ReadSpectra(b, now) ==
    LET n    == [l \in DOMAIN b.read |-> Reads(b, l, now)]
        last == {l \in DOMAIN b.read : n[l] > 0}
    IN  [b EXCEPT !.specend = @ + More(b, 1, n[1]),
                  !.read = [l \in DOMAIN @ |-> @[l] + n[l]],
                  !.rt = IF last = {} THEN @
                         ELSE Duration(Max(last), b.read[Max(last)] + n[Max(last)]),
                  !.reuseall = wave.keep]

Another(b, now) ==
    LET c == IF b.reuseall THEN [b EXCEPT !.specend = @ + b.rt] ELSE ReadSpectra(b, now)
    IN  [c EXCEPT !.list = Append(@, Line(c.specend, c.rt)), !.line = c.count]

\* "check if this is the last computational timestep": its length is taken to
\* be that of the step that led here.  The call is counted all the same.
LastStep(now, d) == now > par.tstop - d

\* Mutant of SpectralWaveBc: only the calls that return early are counted.
SpectralUncounted(b, now, d) ==
    IF LastStep(now, d) THEN [b EXCEPT !.count = @ + 1] ELSE Another(b, now)

SpectralWaveBc(b, now, d) ==
    LET c == [b EXCEPT !.count = @ + 1]
    IN  IF LastStep(now, d) THEN c ELSE Another(c, now)

\* A spectrum is needed that the input does not have.
NoSpectrum(b, now, d) ==
    /\ wave.kind = "spectra" /\ ~b.reuseall /\ ~LastStep(now, d)
    /\ \E l \in DOMAIN b.read : Enough(b, l, now) = {}
-----------------------------------------------------------------------------
(* wave_bc, blocks I and II: generate and read conditions *)

\* jons_table: the lines of the table up to one that ends after now.
TableLines(now) == {n \in 1..Len(wave.dur[1]) : now < EndOf(wave, n)}

ReadTable(b, n) == [b EXCEPT !.end = EndOf(wave, n), !.line = n]

CreateBc(b, now, d) ==
    LET c == [b EXCEPT !.created = TRUE, !.startbcf = TRUE]
    IN  CASE wave.kind = "table"   -> ReadTable(c, 1)
          [] wave.kind = "spectra" -> SpectralWaveBc(c, now, d)
          [] wave.kind = "reuse"   -> [c EXCEPT !.line = 1]
          [] wave.kind = "series"  -> c

RenewBc(b, now, d) ==
    CASE wave.kind = "table"   -> ReadTable(b, Min(TableLines(now)))
      [] wave.kind = "spectra" -> [SpectralWaveBc(b, now, d) EXCEPT !.startbcf = TRUE]
      [] wave.kind = "reuse"   ->
            [b EXCEPT !.startbcf = TRUE, !.line = IF now <= par.tstop - d THEN @ + 1 ELSE @]
      [] wave.kind = "series"  -> b

\* Mutant of Expired: a condition ends a tick early.
ExpiredEarly(b, now) == b.created /\ now + 1 >= b.end

Expired(b, now) == b.created /\ now >= b.end

CreatedBc(now, d) ==
    LET b == [bc EXCEPT !.startbcf = FALSE]
    IN  IF b.created THEN b ELSE CreateBc(b, now, d)

\* Reading beyond the end of the input stops the program.
InputEnds(now, d) ==
    \/ wave.kind = "spectra" /\ NoSpectrum(bc, now, d) /\ (~bc.created \/ Expired(bc, now))
    \/ wave.kind = "table" /\ Expired(CreatedBc(now, d), now) /\ TableLines(now) = {}

\* A condition that was read a moment ago may have expired already.
CurrentBc(now, d) ==
    LET b == CreatedBc(now, d) IN IF Expired(b, now) THEN RenewBc(b, now, d) ELSE b

\* Only xmaster reads the table, and only it puts an end to the tapering.
TaperAfter(now, d) ==
    IF wave.kind = "table" /\ Expired(CreatedBc(now, d), now)
    THEN [taper EXCEPT !.master = 0] ELSE taper
-----------------------------------------------------------------------------
(* wave_bc, block III: the conditions of this step *)

Surfbeat == wave.kind \in {"spectra", "reuse"}

\* Read the lists from the top up to the line of the condition.
Listed(b) == b.line \in 1..Len(b.list)
StartOf(b) == b.list[b.line].end - b.list[b.line].rt

\* Mutant of SignalRecords: no record beyond the duration.
SignalRecordsExact(b) == (2 * b.list[b.line].rt + wave.dtbc) \div (2 * wave.dtbc) + 1

\* tslenbc of generate_wave_time_axis, and one more record (generate_ebcf).
SignalRecords(b) == (2 * b.list[b.line].rt + wave.dtbc) \div (2 * wave.dtbc) + 2

Slot(now) == now \div wave.dtbc + 1          \* old and new of wave_bc

FirstRecords(now) == [old |-> Slot(now), recpos |-> 1, e |-> <<1, 2>>, q |-> <<1, 2>>]

\* Mutant of NextRecords: one record further, however far the clock went.
NextRecordOnly(now) ==
    LET pos == sig.recpos + 1
    IN  IF Slot(now) = sig.old THEN sig
        ELSE [old |-> Slot(now), recpos |-> pos, e |-> <<sig.e[2], pos + 1>>,
              q |-> <<sig.q[2], pos + 1>>]

\* Mutant of NextRecords: the long waves stay where they were.
NextShortRecords(now) ==
    LET pos  == sig.recpos + Slot(now) - sig.old
        pair == <<pos, pos + 1>>
    IN  IF Slot(now) = sig.old THEN sig
        ELSE [old |-> Slot(now), recpos |-> pos, e |-> pair, q |-> <<sig.q[2], pos + 1>>]

\* More than one record further on, a program without MPI takes the later
\* record of the long waves for the earlier one.
NextRecords(now) ==
    LET pos  == sig.recpos + Slot(now) - sig.old
        pair == <<pos, pos + 1>>
    IN  IF Slot(now) = sig.old THEN sig
        ELSE IF Slot(now) > sig.old + 1
             THEN [old |-> Slot(now), recpos |-> pos, e |-> pair,
                   q |-> IF InParallel THEN pair ELSE <<pos + 1, pos + 1>>]
             ELSE [old |-> Slot(now), recpos |-> pos,
                   e |-> <<sig.e[2], pos + 1>>, q |-> <<sig.q[2], pos + 1>>]

CurrentRecords(b, now) == IF b.startbcf THEN FirstRecords(now) ELSE NextRecords(now)

\* ts_nonh: the first call of wave_bc calls velocity_Boundary twice.
CurrentSeries(now) ==
    LET s == IF bc.created THEN srs ELSE OpenSeries(wave.file, srs)
    IN  ReadSeries(wave.file, s, now)

WaveBc(now, d) ==
    LET b == CurrentBc(now, d) IN
    /\ taper' = TaperAfter(now, d)
    /\ IF Surfbeat /\ ~Listed(b)
       THEN halted' = "line" /\ bc' = b /\ sig' = sig
       ELSE IF Surfbeat
       THEN /\ bc' = [b EXCEPT !.end = IF b.startbcf THEN b.list[b.line].end ELSE @]
            /\ sig' = CurrentRecords(b, now)
            /\ halted' = IF sig'.recpos + 1 > SignalRecords(b) THEN "record" ELSE "no"
       ELSE bc' = b /\ sig' = sig /\ halted' = "no"
    /\ srs' = IF wave.kind = "series" THEN CurrentSeries(now) ELSE srs
    /\ UNCHANGED wave
-----------------------------------------------------------------------------
Running == halted = "no"

WaveFirstOutput == Running /\ FirstOutput /\ UNCHANGED waveVars

\* executestep: the clock, and the wave boundary unless the step exploded.
WaveStep ==
    /\ Running /\ ExecuteStep
    /\ IF error' = 1 THEN UNCHANGED waveVars
       ELSE IF InputEnds(t', dt')
            THEN halted' = "input" /\ UNCHANGED <<wave, bc, sig, srs, taper>>
            ELSE WaveBc(t', dt')

WaveOutputExt == Running /\ OutputExt /\ UNCHANGED waveVars
WaveFinal     == Running /\ Final /\ UNCHANGED waveVars

WaveNext == WaveFirstOutput \/ WaveStep \/ WaveOutputExt \/ WaveFinal

WaveSpec == WaveInit /\ [][WaveNext]_<<vars, waveVars>>
-----------------------------------------------------------------------------
(* Properties *)

\* The lists and the input are never read backwards or past what they hold.
WaveTypeOK ==
    /\ wave \in Waves
    /\ bc.count \in Nat /\ bc.line \in Nat
    /\ (wave.kind = "spectra" => Len(bc.list) <= bc.count)
    /\ \A l \in DOMAIN wave.dur : ~wave.keep => bc.read[l] \in 0..Len(wave.dur[l])
    /\ sig.recpos \in Nat /\ srs.pos \in 0..Len(wave.file)
    /\ taper.master \in {0, Taper} /\ taper.rest = Taper
    /\ halted \in {"no", "input", "line", "record"}

InForce == bc.created /\ Running /\ error = 0

\* Every call takes one condition further only: they have to outlast a step,
\* and the first one of a former run the step before it is looked at.
OneByOne == wave.kind = "reuse" \/ wave.keep
Outlast  == \A c \in CflSteps :
                /\ \A k \in DOMAIN wave.dur[1] : c <= wave.dur[1][k]
                /\ wave.kind = "reuse" => c < wave.dur[1][1]

\* The list of a former run is not followed within the last step; a condition
\* that is followed after all, by a shorter step, comes late.
Behind == wave.kind = "reuse" /\ \E c \in CflSteps : par.tstop < StartOf(bc) + 2 * c

\* The spectra of all locations change together.
SameDurations == \A l \in DOMAIN wave.dur : wave.dur[l] = wave.dur[1]

\* "read input files until endtime exceeds current time": the condition in use
\* is the one the clock is in, whatever the steps; it may only be past its end
\* when the test for the last computational timestep held.
ConditionCoversClock ==
    InForce =>
        CASE wave.kind = "table" ->
                EndOf(wave, bc.line - 1) <= t /\ t < EndOf(wave, bc.line)
          [] Surfbeat /\ SameDurations /\ (OneByOne => Outlast) /\ ~Behind ->
                StartOf(bc) <= t /\ (t < bc.end \/ LastStep(t, dt))
          [] OTHER -> TRUE

\* The signal is that of the clock: it runs ahead by less than a record and
\* lags by no more than a step, the one that led into the condition.
SignalOnClock ==
    (InForce /\ Surfbeat /\ t < bc.end /\ SameDurations /\ (OneByOne => Outlast) /\ ~Behind) =>
        LET clock  == t - StartOf(bc)
            signal == (sig.recpos - 1) * wave.dtbc + (t % wave.dtbc)
        IN  /\ signal < clock + wave.dtbc
            /\ \E c \in CflSteps : clock <= signal + c

\* "Earlier in time", "Later in time": the records in memory are neighbours,
\* those of the short waves and those of the long waves the same ones; without
\* MPI as long as no step is longer than the time between two records.
RecordsAdjacent ==
    (InForce /\ Surfbeat) =>
        /\ sig.e = <<sig.recpos, sig.recpos + 1>>
        /\ (InParallel \/ \A c \in CflSteps : c <= wave.dtbc) => sig.q = sig.e

\* The records of a signal, counted by nint, reach the end of its condition.
WholeRecords ==
    \A k \in DOMAIN wave.dur[1] :
        LET rest == wave.dur[1][k] % wave.dtbc IN rest = 0 \/ 2 * rest >= wave.dtbc

\* A signal is long enough for every step of its condition, wherever between
\* two records the condition starts, as long as nint does not cut it short.
SignalLongEnough == SameDurations /\ WholeRecords => halted # "record"

\* All processes taper alike: when the table takes xmaster to a new condition
\* the others must be past the tapering.
TaperAgrees ==
    (wave.kind = "table" /\ wave.dur[1][1] >= Taper) =>
        taper.master = taper.rest \/ t >= taper.rest

\* A series that starts with the run is interpolated between the two records
\* around the clock, and it is at its end only when the clock is.
SeriesFollows ==
    (InForce /\ wave.kind = "series" /\ Len(wave.file) > 1 /\ wave.file[1] <= 0) =>
        IF srs.eof THEN t >= wave.file[Len(wave.file)]
        ELSE \E k \in 1..(Len(wave.file) - 1) :
                /\ wave.file[k] <= t /\ t < wave.file[k + 1]
                /\ srs.ug = <<k, k + 1>>

\* "Set output of the correct line": the line of the list that wave_bc is told
\* to read is there.
LineListed == wave.kind = "spectra" => halted # "line"

\* "If end of file the last value which was available is used until the end of
\* the computation".
LastValueHeld == srs.eof => srs.ug = <<Len(wave.file), Len(wave.file)>>
=============================================================================
