----------------------------- MODULE MeanOutput -----------------------------
(***************************************************************************)
(* Time averages: makeaverage and clearaverage of varianceupdate.F90, the  *)
(* calls output.F90 makes of them and the averaging period par%tintm that  *)
(* ncoutput.F90 moves on.  The steps are those of TimeStep.                *)
(*                                                                         *)
(* A mean is a sum of values weighted with dt/tintm.  The values are left  *)
(* out: what matters is the time the weights of a record add up to, and    *)
(* the period they were divided by.                                        *)
(***************************************************************************)
EXTENDS TimeStep

CONSTANTS Format,    \* par%outputformat: "fortran", "netcdf" or "debug"
          Parallel   \* built with USEMPI: only xomaster runs the writing part

ASSUME FormatAssumption ==
    Format \in {"fortran", "netcdf", "debug"} /\ Parallel \in BOOLEAN

VARIABLES tintm,   \* par%tintm where makeaverage reads it
          acc,     \* time summed since clearaverage: mean2d, variance2d, ...
          means    \* what was written: one record per averaging period

meanVars == <<tintm, acc, means>>

Unset == -1        \* the default -123.d0 of par%tintm: every weight is zero
-----------------------------------------------------------------------------
\* params.F90 reads tintm only when no file lists the mean times.
InitialPeriod(c) == IF c.file["m"] = <<>> THEN c.tint["m"] ELSE Unset

MeanInit ==
    /\ Init
    /\ tintm = InitialPeriod(par)
    /\ acc = 0 /\ means = <<>>

\* Mutant of Averaging: the step up to the first mean time counts.
AveragingEarly ==
    LET m == tp["m"] IN Len(m) > 0 /\ t >= m[1] /\ t <= m[Len(m)]

\* The clock is inside the span of the mean times.
Averaging ==
    LET m == tp["m"] IN Len(m) > 0 /\ t > m[1] /\ t <= m[Len(m)]

Accumulated(sum) == IF Averaging THEN sum + dt ELSE sum

\* ncoutput with fortran output: the period that starts now.  A driver that
\* goes on after the last mean time makes it read beyond tpm: any value.
NextPeriods(index) ==
    LET m == tp["m"]
        k == index - 1                      \* the local counter itm
    IN  IF k + 1 <= Len(m) THEN {m[IF k + 2 <= Len(m) THEN k + 2 ELSE k + 1] - m[k + 1]}
                           ELSE {0, Unset}

PeriodsAfter(index) ==
    IF Format # "netcdf" /\ ~Parallel THEN NextPeriods(index) ELSE {tintm}

\* Mutant of Average: the means are never cleared.
AverageOn(reached, index) ==
    LET due == "m" \in Records(reached, index)
    IN  /\ acc' = Accumulated(acc)
        /\ means' = IF due THEN Append(means, [sum |-> acc', period |-> tintm])
                           ELSE means
        /\ tintm' \in IF due THEN PeriodsAfter(index["m"]) ELSE {tintm}

\* output: add the step, write the means when they are due, clear them.
\* The sums behind thetamean are not cleared; they are left out.
Average(reached, index) ==
    LET sum == Accumulated(acc)
        due == "m" \in Records(reached, index)
    IN  /\ acc' = IF due THEN 0 ELSE sum
        /\ means' = IF due THEN Append(means, [sum |-> sum, period |-> tintm])
                           ELSE means
        /\ tintm' \in IF due THEN PeriodsAfter(index["m"]) ELSE {tintm}

MeanFirstOutput == FirstOutput /\ Average(out', it')
MeanOutputExt   == OutputExt /\ Average(out, it)
MeanStep        == ExecuteStep /\ UNCHANGED meanVars
MeanFinal       == Final /\ UNCHANGED meanVars

MeanNext == MeanFirstOutput \/ MeanStep \/ MeanOutputExt \/ MeanFinal

MeanSpec == MeanInit /\ [][MeanNext]_<<vars, meanVars>>

\* Program xbeach keeps calling until tstop: its loop is the fairness.
MeanFairSpec == MeanSpec /\ WF_<<vars, meanVars>>(MeanNext)
-----------------------------------------------------------------------------
(* Properties *)

\* The sums never exceed the time that has passed.
MeanTypeOK ==
    /\ acc \in 0..t /\ tintm \in Int
    /\ means \in Seq([sum : 0..t, period : Int])

\* Every record of program xbeach covers its averaging period, all of it and
\* nothing else, to the tolerance of the clock: the steps cut at the mean times,
\* the span test of output and clearaverage fit.  (A record beyond the
\* last period comes from serving the last time twice, see RecordsOnTime.)
PeriodsCovered ==
    (~par.embedded /\ error = 0 /\ Separated(tp)) =>
        \A k \in 1..Len(means) : k < Len(tp["m"]) =>
            Dist(means[k].sum, tp["m"][k + 1] - tp["m"][k]) <= Tol

\* "updated in varoutput, not needed to calculate here": the divisor of the
\* weights is the length of the period, so that they add up to one.
WeightsNormalised ==
    (error = 0 /\ Separated(tp)) =>
        \A k \in 1..Len(means) : k < Len(tp["m"]) =>
            Dist(means[k].period, means[k].sum) <= Tol

\* With periods of one length, as tintm asks for them, it is, whatever the
\* steps and the outputs in between.
EvenWeights ==
    (~par.embedded /\ par.file["m"] = <<>>) => WeightsNormalised
=============================================================================
