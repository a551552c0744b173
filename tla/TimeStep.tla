------------------------------ MODULE TimeStep ------------------------------
(***************************************************************************)
(* The clock of a simulation and its output times: timestep.F90, and the   *)
(* calls libxbeach.F90 and xbeach.F90 make of it.                          *)
(*                                                                         *)
(* Time is counted in integer ticks.  The flow state limits a step through *)
(* the Courant number; the limit is a value of CflSteps, chosen anew for   *)
(* every step.  The real quotients of the code become integers rounded     *)
(* either way, and Tol is the tolerance of 1.0d-7 s in ticks.              *)
(***************************************************************************)
EXTENDS Integers, Sequences, FiniteSetsExt

CONSTANTS Pars,        \* the parameter sets (params.F90) a run may start with
          CflSteps,    \* the steps the Courant criterion may allow
          GivenSteps,  \* the dt a driver may pass to update(dt) of the BMI
          MaxIdle,     \* bound: calls of the BMI that leave the clock alone
          Tol,         \* tolerance when a time is compared with the clock
          MaxDtFac,    \* par%maxdtfac
          Defuse       \* par%defuse == 1

Timed  == {"g", "p", "m"}         \* streams with a file or an interval
Stream == Timed \cup {"w"}        \* global, point, mean output; wave points

ASSUME StepsAssumption ==
    /\ CflSteps \subseteq Nat \ {0}
    /\ GivenSteps \subseteq Nat
    /\ Tol \in Nat /\ MaxDtFac \in Nat \ {0} /\ MaxIdle \in Nat
    /\ Defuse \in BOOLEAN

ASSUME ParsAssumption ==
    Pars \subseteq [tstop : Nat, tstart : Nat, tint : [Timed -> Nat \ {0}],
                    file : [Timed -> Seq(Nat)], wants : SUBSET Stream,
                    wavint : Nat \ {0}, morfac : Nat, morfacopt : {0, 1},
                    embedded : BOOLEAN]

VARIABLES par,      \* the parameters, fixed once read; embedded says that a
                    \* driver calls through the BMI, not program xbeach
          tp,       \* tpg, tpp, tpm, tpw: the output times of each stream
          it,       \* itg, itp, itm, itw: how many of them were reached
          out,      \* outputg, outputp, outputm, outputw
          t, dt, dtref, tnext,
          cfl,      \* the limit the last dt was computed under
          error, pc,
          written,  \* the times of the records of each stream in the files
          idle      \* calls of the BMI that left the clock alone

vars == <<par, tp, it, out, t, dt, dtref, tnext, cfl, error, pc, written, idle>>
-----------------------------------------------------------------------------
(* timestep_init *)

Morfac(c) == IF c.morfac > 1 THEN c.morfac ELSE 1

\* The list of a file, or a time every interval from tstart until tstop.
TimePoints(c, s) ==
    IF s \notin c.wants THEN <<>>
    ELSE IF c.file[s] # <<>>
         THEN [i \in 1..Len(c.file[s]) |-> c.file[s][i] \div Morfac(c)]
         ELSE [i \in 1..((c.tstop - c.tstart) \div c.tint[s] + 1)
                 |-> c.tstart + c.tint[s] * (i - 1)]

\* The times at which the stationary wave module wants to be called.
WavePoints(c) ==
    IF "w" \notin c.wants THEN <<>>
    ELSE [i \in 1..((c.tstop + c.wavint - 1) \div c.wavint) |-> i * c.wavint]

OutputPoints(c) ==
    [s \in Stream |-> IF s = "w" THEN WavePoints(c) ELSE TimePoints(c, s)]

\* The run stops in timestep_init when one averaging period does not fit.
MeansFit(c) ==
    ("m" \in c.wants /\ c.file["m"] = <<>>) => Len(TimePoints(c, "m")) > 1
-----------------------------------------------------------------------------
(* outputtimes_update *)

Dist(a, b) == IF a >= b THEN a - b ELSE b - a
NextIndex(points, i) == IF i + 1 <= Len(points) THEN i + 1 ELSE Len(points)

Due(points, i, now) == Dist(points[NextIndex(points, i)], now) <= Tol

Reached(points, i, old, now) ==
    [s \in Stream |-> IF Len(points[s]) > 0 THEN Due(points[s], i[s], now)
                                            ELSE old[s]]

Advance(i, reached) == [s \in Stream |-> IF reached[s] THEN i[s] + 1 ELSE i[s]]

\* Mutant of Ahead: the point output is forgotten.
AheadWithoutPoints(points, now) ==
    {x \in UNION {{points[s][i] : i \in 1..Len(points[s])} : s \in Stream \ {"p"}} :
        x > now + Tol}

\* Mutant of Ahead: the present is still ahead.
AheadOrHere(points, now) ==
    {x \in UNION {{points[s][i] : i \in 1..Len(points[s])} : s \in Stream} : x >= now}

Ahead(points, now) ==
    {x \in UNION {{points[s][i] : i \in 1..Len(points[s])} : s \in Stream} :
        x > now + Tol}

\* Mutant of NextStop: tstop counts only when no output time is left.
NextStopPastEnd(points, now) ==
    Min(IF Ahead(points, now) = {} THEN {par.tstop} ELSE Ahead(points, now))

NextStop(points, now) == Min(Ahead(points, now) \cup {par.tstop})

OutputTimesUpdate(points, old, now) ==
    /\ out' = Reached(points, it, old, now)
    /\ it' = Advance(it, out')
    /\ tnext' = NextStop(points, now)
-----------------------------------------------------------------------------
(* compute_dt *)

\* Mutant of Smoothed: as far as the limit allows, and a rest.
CutOff(gap, limit) == {IF gap < limit THEN gap ELSE limit}

\* A whole number of equal steps up to the next output time.
Smoothed(gap, limit) ==
    LET n == (gap + limit - 1) \div limit
    IN  {gap \div n, (gap + n - 1) \div n}

DtChoices(limit) ==
    IF t <= 0 THEN IF tnext > limit THEN Smoothed(tnext - t, limit) ELSE {limit}
              ELSE IF tnext > t THEN Smoothed(tnext - t, limit) ELSE {limit}

Capped(d, given) == {d} \cup {IF g < d THEN g ELSE d : g \in given}

(* timestep *)

\* The first step sets dtref; afterwards it follows dt with weight 1/5000,
\* here a tick or nothing.
Reference(chosen) == IF t <= 0 \/ dtref = 0 THEN chosen ELSE dtref

Filtered(ref, d) ==
    {ref} \cup (IF d > ref THEN {ref + 1} ELSE {})
          \cup (IF d < ref /\ ref > 1 THEN {ref - 1} ELSE {})

\* dt imploded or exploded with respect to dtref.
Unstable(ref, d, now) ==
    /\ Defuse
    /\ \/ ref > MaxDtFac * d /\ now < tnext
       \/ d > MaxDtFac * ref

\* Output is forced: every time still to come is moved to the present.
Forced(points, now) ==
    [s \in Stream |-> IF s = "w" THEN points[s]
                      ELSE [i \in 1..Len(points[s]) |->
                                IF points[s][i] < now THEN points[s][i] ELSE now]]

ForcedOut(old) ==
    [s \in Stream |-> IF s = "w" THEN old[s] ELSE Len(tp[s]) > 0]
-----------------------------------------------------------------------------
(* The driver: init, executestep, outputext and final *)

Init ==
    /\ par \in {c \in Pars : MeansFit(c)}
    /\ tp = OutputPoints(par)
    /\ it = [s \in Stream |-> 0]
    /\ out = [s \in Stream |-> FALSE]
    /\ t = 0 /\ dt = 0 /\ dtref = 0 /\ tnext = 0 /\ cfl = 0
    /\ error = 0 /\ pc = "init"
    /\ written = [s \in Stream |-> <<>>]
    /\ idle = 0

\* Mutant of Records: the first mean time has a record too.
RecordsAlways(reached, index) == {s \in Timed : reached[s]}

\* ncoutput: one record for every stream that is due.  The first mean time
\* only starts the averaging, wave points write nothing.
Records(reached, index) ==
    {s \in Timed : reached[s] /\ (s = "m" => index[s] > 1)}

WriteRecords(reached, index) ==
    written' = [s \in Stream |->
        IF s \in Records(reached, index) THEN Append(written[s], t)
                                         ELSE written[s]]

\* output(...) called by init: it brings the output times up to date itself.
FirstOutput ==
    /\ pc = "init"
    /\ OutputTimesUpdate(tp, out, t)
    /\ WriteRecords(out', it')
    /\ pc' = "step"
    /\ UNCHANGED <<par, tp, t, dt, dtref, cfl, error, idle>>

MayStep == IF par.embedded THEN idle < MaxIdle ELSE t < par.tstop

ExecuteStep ==
    /\ pc = "step" /\ MayStep
    /\ \E limit \in CflSteps : \E chosen \in DtChoices(limit) :
       \E step \in (IF par.embedded THEN Capped(chosen, GivenSteps) ELSE {chosen}) :
         LET arrived == t + step >= tnext
             now     == IF arrived THEN tnext ELSE t + step
             d       == IF arrived THEN tnext - t ELSE step
         IN  \E ref \in Filtered(Reference(chosen), d) :
               LET bad == Unstable(ref, d, now) IN
               /\ t' = now /\ dt' = d /\ dtref' = ref /\ cfl' = limit
               /\ tp' = IF bad THEN Forced(tp, now) ELSE tp
               /\ error' = IF bad THEN 1 ELSE 0
               /\ OutputTimesUpdate(tp', IF bad THEN ForcedOut(out) ELSE out, now)
               /\ idle' = IF par.embedded /\ now = t THEN idle + 1 ELSE idle
    /\ pc' = "out"
    /\ UNCHANGED <<par, written>>

\* output(..., update=.false.), and output_error's halt after an error.
OutputExt ==
    /\ pc = "out"
    /\ WriteRecords(out, it)
    /\ pc' = IF error = 1 THEN "halted" ELSE "step"
    /\ UNCHANGED <<par, tp, it, out, t, dt, dtref, tnext, cfl, error, idle>>

Final ==
    /\ pc = "step"
    /\ par.embedded \/ t >= par.tstop
    /\ pc' = "done"
    /\ UNCHANGED <<par, tp, it, out, t, dt, dtref, tnext, cfl, error, written, idle>>

Next == FirstOutput \/ ExecuteStep \/ OutputExt \/ Final

Spec == Init /\ [][Next]_vars
-----------------------------------------------------------------------------
(* Properties *)

Ended == pc \in {"done", "halted"}

\* The clock stays between 0 and tstop, and the next stop is never behind it.
TypeOK ==
    /\ par \in Pars
    /\ tp \in [Stream -> Seq(Nat)] /\ DOMAIN written = Stream
    /\ it \in [Stream -> Nat] /\ out \in [Stream -> BOOLEAN]
    /\ t \in 0..par.tstop /\ tnext \in t..par.tstop
    /\ dt \in Nat /\ dtref \in Nat /\ cfl \in CflSteps \cup {0}
    /\ error \in {0, 1} /\ idle \in 0..MaxIdle
    /\ pc \in {"init", "step", "out", "done", "halted"}

\* Output times that a run can be expected to serve: ascending, further apart
\* than the tolerance.  The files of tsglobal, tspoints and tsmean are read as
\* they are, so this is up to their author.
Separated(points) ==
    \A s \in Stream : \A i, j \in 1..Len(points[s]) :
        i < j => points[s][j] > points[s][i] + Tol

\* However the steps fall, the counter of a stream tells exactly which of its
\* times the clock has reached: the loop never steps over an output time, and
\* never counts one ahead of time (outputtimes_update against timestep).
NoOutputLost ==
    (pc # "init" /\ error = 0 /\ Separated(tp)) =>
        \A s \in Stream : \A i \in 1..Len(tp[s]) :
            i <= it[s] <=> tp[s][i] <= t + Tol

\* The first mean time starts the averaging and has no record of its own.
RecordOf(s, k) == IF s = "m" THEN k + 1 ELSE k

\* The files of program xbeach hold one record for each output time reached, in
\* order, none missing, stamped within the tolerance of it and no two alike.
\* (Past the last time of a stream a step shorter than the tolerance would write
\* that time again.)
RecordsOnTime ==
    (~par.embedded /\ error = 0 /\ pc \in {"step", "done"}) =>
        \A s \in Timed :
            /\ RecordOf(s, Len(written[s])) =
                   IF s = "m" /\ it[s] = 0 THEN 1 ELSE it[s]
            /\ \A k \in 1..Len(written[s]) :
                 /\ Dist(written[s][k], tp[s][NextIndex(tp[s], RecordOf(s, k) - 1)]) <= Tol
                 /\ k > 1 => written[s][k - 1] < written[s][k]

\* A step obeys the Courant limit, and the approach of an output time does not
\* make it smaller than the one before, but for rounding: compute_dt spreads
\* the remaining time evenly "to avoid large timestep differences due to output".
StepsSmooth ==
    [][(pc = "step" /\ pc' = "out") =>
        /\ dt' <= cfl'
        /\ (t > 0 /\ ~par.embedded /\ cfl' >= cfl /\ Separated(tp) /\ \A s \in Stream : ~out[s])
             => dt' >= dt - 1]_vars

\* The clock moves on with every step, and the loop of program xbeach ends.
Terminates == par.embedded \/ <>Ended
=============================================================================
