--------------------------- MODULE TimeStep_proofs ---------------------------
(***************************************************************************)
(* The clock, the output times and the time averages, for every choice of  *)
(* output times, time steps and tolerance, under program xbeach and under  *)
(* a BMI driver: the clock never steps over an output time, records are    *)
(* complete and on time, steps are smooth, and every average is taken over *)
(* its own period.                                                         *)
(***************************************************************************)
EXTENDS MeanOutput, FoldLemmas, TLAPS

\* The indices of a list whose length may come out negative.
LEMMA NoIndices == \A n \in Int : n < 0 => 1..n = 1..0
  OBVIOUS

LEMMA ProductOfNats == \A x, y \in Nat : x * y \in Nat
  BY SMT

\* timestep_init makes lists of times.
LEMMA PointsAreTimes ==
    ASSUME NEW c \in Pars
    PROVE  OutputPoints(c) \in [Stream -> Seq(Nat)]
  <1>1. /\ c.tstop \in Nat /\ c.tstart \in Nat /\ c.wavint \in Nat \ {0} /\ c.morfac \in Nat
        /\ \A s \in Timed : c.tint[s] \in Nat \ {0} /\ c.file[s] \in Seq(Nat)
    BY ParsAssumption
  <1>2. Morfac(c) \in Nat \ {0}
    BY <1>1 DEF Morfac
  <1>3. ASSUME NEW s \in Timed
        PROVE  TimePoints(c, s) \in Seq(Nat)
    <2>1. CASE s \notin c.wants
      BY <2>1 DEF TimePoints
    <2>2. CASE s \in c.wants /\ c.file[s] # <<>>
      <3> DEFINE list == c.file[s]
                 mf == Morfac(c)
      <3>1. list \in Seq(Nat) /\ mf \in Nat \ {0}
        BY <1>1, <1>2
      <3> HIDE DEF list, mf
      <3>2. \A i \in 1..Len(list) : list[i] \div mf \in Nat
        <4> TAKE i \in 1..Len(list)
        <4>1. list[i] \in Nat
          BY <3>1
        <4> QED BY <3>1, <4>1
      <3>3. [i \in 1..Len(list) |-> list[i] \div mf] \in Seq(Nat)
        BY <3>1, <3>2
      <3> QED BY <2>2, <3>3 DEF TimePoints, list, mf
    <2>3. CASE s \in c.wants /\ c.file[s] = <<>>
      <3> DEFINE gap == c.tint[s]
                 n == (c.tstop - c.tstart) \div gap + 1
      <3>1. gap \in Nat \ {0} /\ n \in Int
        <4>1. gap \in Nat \ {0} /\ c.tstop - c.tstart \in Int
          BY <1>1
        <4> HIDE DEF gap
        <4> QED BY <4>1
      <3> HIDE DEF n, gap
      <3>2. \A i \in 1..n : c.tstart + gap * (i - 1) \in Nat
        <4> TAKE i \in 1..n
        <4>1. i - 1 \in Nat
          BY <3>1
        <4>2. gap * (i - 1) \in Nat
          BY <3>1, <4>1, ProductOfNats
        <4> QED BY <1>1, <4>2
      <3>3. [i \in 1..n |-> c.tstart + gap * (i - 1)] \in Seq(Nat)
        <4>1. CASE n >= 0
          BY <3>1, <3>2, <4>1
        <4>2. CASE n < 0
          <5>1. [i \in 1..0 |-> c.tstart + gap * (i - 1)] \in Seq(Nat)
            OBVIOUS
          <5> QED BY <3>1, <4>2, <5>1, NoIndices
        <4> QED BY <3>1, <4>1, <4>2
      <3> QED BY <2>3, <3>3 DEF TimePoints, gap, n
    <2> QED BY <2>1, <2>2, <2>3
  <1>4. WavePoints(c) \in Seq(Nat)
    <2>1. CASE "w" \notin c.wants
      BY <2>1 DEF WavePoints
    <2>2. CASE "w" \in c.wants
      <3> DEFINE gap == c.wavint
                 n == (c.tstop + gap - 1) \div gap
      <3>1. gap \in Nat \ {0} /\ n \in Int
        <4>1. gap \in Nat \ {0} /\ c.tstop + gap - 1 \in Int
          BY <1>1
        <4> HIDE DEF gap
        <4> QED BY <4>1
      <3> HIDE DEF n, gap
      <3>2. \A i \in 1..n : i * gap \in Nat
        BY <3>1, ProductOfNats
      <3>3. [i \in 1..n |-> i * gap] \in Seq(Nat)
        <4>1. CASE n >= 0
          BY <3>1, <3>2, <4>1
        <4>2. CASE n < 0
          <5>1. [i \in 1..0 |-> i * gap] \in Seq(Nat)
            OBVIOUS
          <5> QED BY <3>1, <4>2, <5>1, NoIndices
        <4> QED BY <3>1, <4>1, <4>2
      <3> QED BY <2>2, <3>3 DEF WavePoints, gap, n
    <2> QED BY <2>1, <2>2
  <1> QED BY <1>3, <1>4 DEF OutputPoints, Stream
-----------------------------------------------------------------------------
(* outputtimes_update *)

\* The next stop is ahead of the clock, or the end of the run; no output time
\* lies between.
LEMMA NextStopIsNext ==
    ASSUME NEW points \in [Stream -> Seq(Nat)], NEW now \in Nat,
           par.tstop \in Nat, now <= par.tstop, Tol \in Nat
    PROVE  /\ NextStop(points, now) \in now..par.tstop
           /\ now < par.tstop => now < NextStop(points, now)
           /\ \A s \in Stream : \A i \in 1..Len(points[s]) :
                points[s][i] > now + Tol => NextStop(points, now) <= points[s][i]
  <1> DEFINE T == Ahead(points, now) \cup {par.tstop}
  <1>1. Ahead(points, now) \subseteq Nat
    BY DEF Ahead
  <1>2. T \subseteq Nat /\ T # {}
    BY <1>1
  <1>3. Min(T) \in T /\ \A y \in T : Min(T) <= y
    BY <1>2, MinIsLeast
  <1>4. NextStop(points, now) = Min(T)
    BY DEF NextStop
  <1>5. \A x \in Ahead(points, now) : x > now + Tol
    BY DEF Ahead
  <1>6. \A s \in Stream : \A i \in 1..Len(points[s]) :
            points[s][i] > now + Tol => points[s][i] \in T
    BY DEF Ahead
  <1>7. par.tstop \in T /\ \A x \in T : x > now + Tol \/ x = par.tstop
    BY <1>5
  <1> DEFINE m == Min(T)
  <1>8. m \in Nat /\ m <= par.tstop /\ (m > now + Tol \/ m = par.tstop)
    BY <1>2, <1>3, <1>7
  <1>9. \A y \in T : m <= y
    BY <1>3
  <1> HIDE DEF T, m
  <1>10. m \in now..par.tstop /\ (now < par.tstop => now < m)
    BY <1>8
  <1> QED BY <1>4, <1>6, <1>9, <1>10 DEF m

\* The counter of one stream, kept up to date over one step of the clock.
Counts(points, i, now) == \A k \in 1..Len(points) : k <= i <=> points[k] <= now + Tol

Apart(points) == \A i, j \in 1..Len(points) : i < j => points[j] > points[i] + Tol

LEMMA CounterStarts ==
    ASSUME NEW points \in Seq(Nat), Tol \in Nat, Len(points) > 0, Apart(points)
    PROVE  Counts(points, IF Due(points, 0, 0) THEN 0 + 1 ELSE 0, 0)
  <1> DEFINE n == Len(points)
  <1>1. n \in Nat \ {0} /\ \A k \in 1..n : points[k] \in Nat
    OBVIOUS
  <1>2. Due(points, 0, 0) <=> points[1] <= Tol
    BY <1>1 DEF Due, NextIndex, Dist
  <1>3. \A k \in 2..n : points[k] > points[1] + Tol
    BY <1>1 DEF Apart
  <1>4. \A k \in 1..n : k <= 0 <=> FALSE
    BY <1>1
  <1>5. \A k \in 1..n : k <= 0 + 1 <=> k = 1
    BY <1>1
  <1>6. \A k \in 1..n : k # 1 => ~ (points[k] <= 0 + Tol)
    BY <1>1, <1>3
  <1>7. CASE points[1] <= Tol
    BY <1>1, <1>2, <1>5, <1>6, <1>7 DEF Counts
  <1>8. CASE ~ (points[1] <= Tol)
    BY <1>1, <1>2, <1>4, <1>6, <1>8 DEF Counts
  <1> QED BY <1>7, <1>8

LEMMA CounterFollows ==
    ASSUME NEW points \in Seq(Nat), NEW i \in Nat, NEW before \in Nat, NEW now \in Nat,
           Tol \in Nat, Len(points) > 0, Apart(points), before <= now,
           Counts(points, i, before),
           \A k \in 1..Len(points) : points[k] > before + Tol => now <= points[k]
    PROVE  Counts(points, IF Due(points, i, now) THEN i + 1 ELSE i, now)
  <1> DEFINE n == Len(points)
  <1>1. n \in Nat \ {0} /\ \A k \in 1..n : points[k] \in Nat
    OBVIOUS
  <1>2. \A k \in 1..n : k <= i => points[k] <= now + Tol
    BY <1>1 DEF Counts
  <1>3. CASE i + 1 <= n
    <2>1. i + 1 \in 1..n /\ NextIndex(points, i) = i + 1
      BY <1>1, <1>3 DEF NextIndex
    <2>2. now <= points[i + 1]
      BY <1>1, <2>1 DEF Counts
    <2>3. Due(points, i, now) <=> points[i + 1] <= now + Tol
      BY <1>1, <2>1, <2>2 DEF Due, Dist
    <2>4. \A k \in 1..n : k > i + 1 => points[k] > points[i + 1] + Tol
      BY <1>1, <2>1 DEF Apart
    <2>5. \A k \in 1..n : k > i + 1 => ~ (points[k] <= now + Tol)
      BY <1>1, <2>1, <2>2, <2>4
    <2>6. CASE points[i + 1] <= now + Tol
      BY <1>1, <1>2, <2>1, <2>3, <2>5, <2>6 DEF Counts
    <2>7. CASE ~ (points[i + 1] <= now + Tol)
      BY <1>1, <1>2, <2>1, <2>3, <2>5, <2>7 DEF Counts
    <2> QED BY <2>6, <2>7
  <1>4. CASE ~ (i + 1 <= n)
    <2>1. \A k \in 1..n : k <= i /\ k <= i + 1
      BY <1>1, <1>4
    <2> QED BY <1>2, <2>1 DEF Counts
  <1> QED BY <1>3, <1>4
-----------------------------------------------------------------------------
(* The invariant: the next stop is computed from the times and the clock, so *)
(* that the step after it cannot pass one; an error ends the run.            *)

IInv ==
    /\ TypeOK
    /\ pc = "init" => t = 0 /\ error = 0 /\ it = [s \in Stream |-> 0]
    /\ pc # "init" => tnext = NextStop(tp, t)
    /\ error = 1 => pc \in {"out", "halted"}
    /\ NoOutputLost

LEMMA InitIInv == Init => IInv
  <1> SUFFICES ASSUME Init PROVE IInv
    OBVIOUS
  <1>1. par \in Pars
    BY DEF Init
  <1>2. par.tstop \in Nat
    BY <1>1, ParsAssumption
  <1>3. tp \in [Stream -> Seq(Nat)]
    BY <1>1, PointsAreTimes DEF Init
  <1>4. TypeOK
    BY <1>1, <1>2, <1>3, StepsAssumption DEF Init, TypeOK
  <1> QED BY <1>4 DEF Init, IInv, NoOutputLost

\* outputtimes_update keeps every counter right, whatever step was made, as
\* long as the step did not pass the next stop.
LEMMA CountersFollow ==
    ASSUME IInv, NEW now \in Nat, NEW old, error = 0, Separated(tp), t <= now,
           OutputTimesUpdate(tp, old, now),
           pc = "init" => now = 0,
           pc # "init" => now <= tnext
    PROVE  \A s \in Stream : \A k \in 1..Len(tp[s]) : k <= it'[s] <=> tp[s][k] <= now + Tol
  <1> SUFFICES ASSUME NEW s \in Stream, NEW k \in 1..Len(tp[s])
               PROVE  k <= it'[s] <=> tp[s][k] <= now + Tol
    OBVIOUS
  <1>1. /\ tp \in [Stream -> Seq(Nat)] /\ tp[s] \in Seq(Nat) /\ it \in [Stream -> Nat]
        /\ it[s] \in Nat /\ t \in Nat
        /\ par.tstop \in Nat /\ t <= par.tstop /\ Tol \in Nat
    <2>1. par.tstop \in Nat
      BY ParsAssumption DEF IInv, TypeOK
    <2> QED BY <2>1, StepsAssumption DEF IInv, TypeOK
  <1> Len(tp[s]) > 0
    BY <1>1
  <1>2. it'[s] = IF Due(tp[s], it[s], now) THEN it[s] + 1 ELSE it[s]
    BY DEF OutputTimesUpdate, Reached, Advance
  <1>3. Apart(tp[s])
    BY DEF Separated, Apart
  <1>4. CASE pc = "init"
    <2>1. it[s] = 0 /\ now = 0
      BY <1>4 DEF IInv
    <2>2. Counts(tp[s], it'[s], now)
      BY <1>1, <1>2, <1>3, <2>1, CounterStarts
    <2> QED BY <2>2 DEF Counts
  <1>5. CASE pc # "init"
    <2>1. Counts(tp[s], it[s], t)
      BY <1>5 DEF IInv, NoOutputLost, Counts
    <2>2. \A j \in 1..Len(tp[s]) : tp[s][j] > t + Tol => now <= tp[s][j]
      <3>1. tnext = NextStop(tp, t) /\ tnext \in Nat /\ now <= tnext
        BY <1>5, <1>1 DEF IInv, TypeOK
      <3>2. \A j \in 1..Len(tp[s]) : tp[s][j] > t + Tol => tnext <= tp[s][j]
        BY <1>1, <3>1, NextStopIsNext
      <3>3. \A j \in 1..Len(tp[s]) : tp[s][j] \in Nat
        BY <1>1
      <3> QED BY <1>1, <3>1, <3>2, <3>3
    <2>3. Counts(tp[s], it'[s], now)
      BY <1>1, <1>2, <1>3, <2>1, <2>2, CounterFollows
    <2> QED BY <2>3 DEF Counts
  <1> QED BY <1>4, <1>5

\* What one step of the clock can be.
LEMMA SmoothedIsStep ==
    ASSUME NEW gap \in Nat \ {0}, NEW limit \in Nat \ {0}, NEW d \in Smoothed(gap, limit)
    PROVE  d \in Nat \ {0}
  <1> DEFINE n == (gap + limit - 1) \div limit
  <1>1. n \in Nat \ {0} /\ n <= gap
    <2>1. /\ n \in Int /\ limit * n <= gap + limit - 1 /\ gap + limit - 1 < limit * n + limit
      BY SMT
    <2> HIDE DEF n
    <2>2. n >= 1
      <3>1. SUFFICES ASSUME n <= 0 PROVE FALSE
        BY <2>1
      <3>2. limit * n <= 0
        BY <2>1, <3>1
      <3> QED BY <2>1, <3>2
    <2>3. n <= gap
      <3>1. SUFFICES ASSUME n >= gap + 1 PROVE FALSE
        BY <2>1
      <3>2. limit * n = limit * (gap + 1) + limit * (n - (gap + 1))
            /\ limit * (n - (gap + 1)) \in Nat
            /\ limit * (gap + 1) = gap + limit + (limit - 1) * gap
            /\ (limit - 1) * gap \in Nat
        BY <2>1, <3>1
      <3> QED BY <2>1, <3>2
    <2> QED BY <2>1, <2>2, <2>3
  <1>2. d = gap \div n \/ d = (gap + n - 1) \div n
    BY DEF Smoothed
  <1> HIDE DEF n
  <1>3. ASSUME NEW g \in Nat, g >= n
        PROVE  g \div n \in Nat \ {0}
    <2> DEFINE q == g \div n
    <2>1. q \in Int /\ g < n * q + n
      BY <1>1, <1>3, SMT
    <2> HIDE DEF q
    <2>2. q >= 1
      <3>1. SUFFICES ASSUME q <= 0 PROVE FALSE
        BY <2>1
      <3>2. n * q <= 0
        BY <1>1, <2>1, <3>1
      <3> QED BY <1>1, <1>3, <2>1, <3>2
    <2>3. q \in Nat \ {0}
      BY <2>1, <2>2
    <2> QED BY <2>3 DEF q
  <1>4. gap \in Nat /\ gap >= n /\ gap + n - 1 \in Nat /\ gap + n - 1 >= n
    BY <1>1
  <1> QED BY <1>2, <1>3, <1>4

LEMMA ChosenIsStep ==
    ASSUME t \in Nat, tnext \in Nat, t <= tnext, NEW limit \in CflSteps,
           NEW d \in DtChoices(limit)
    PROVE  d \in Nat \ {0}
  <1>1. limit \in Nat \ {0}
    BY StepsAssumption
  <1>2. CASE d = limit
    BY <1>1, <1>2
  <1>3. CASE d \in Smoothed(tnext - t, limit) /\ tnext - t \in Nat \ {0}
    BY <1>1, <1>3, SmoothedIsStep
  <1>4. d = limit \/ (d \in Smoothed(tnext - t, limit) /\ tnext - t \in Nat \ {0})
    BY <1>1 DEF DtChoices
  <1> QED BY <1>2, <1>3, <1>4

LEMMA GivenIsStep ==
    ASSUME NEW d \in Nat, NEW step \in Capped(d, GivenSteps)
    PROVE  step \in Nat
  <1>1. GivenSteps \subseteq Nat
    BY StepsAssumption
  <1> QED BY <1>1 DEF Capped

LEMMA ReferenceIsStep ==
    ASSUME NEW ref \in Nat, NEW d \in Nat, NEW r \in Filtered(ref, d)
    PROVE  r \in Nat
  BY DEF Filtered

\* Whatever forced the output, the times stay times.
LEMMA ForcedAreTimes ==
    ASSUME NEW points \in [Stream -> Seq(Nat)], NEW now \in Nat
    PROVE  Forced(points, now) \in [Stream -> Seq(Nat)]
  <1>1. ASSUME NEW s \in Stream
        PROVE  [i \in 1..Len(points[s]) |->
                    IF points[s][i] < now THEN points[s][i] ELSE now] \in Seq(Nat)
    <2> DEFINE list == points[s]
    <2>1. list \in Seq(Nat)
      OBVIOUS
    <2> HIDE DEF list
    <2>2. [i \in 1..Len(list) |-> IF list[i] < now THEN list[i] ELSE now] \in Seq(Nat)
      BY <2>1
    <2> QED BY <2>2 DEF list
  <1> QED BY <1>1 DEF Forced

LEMMA ForcedOutIsAnswer ==
    ASSUME NEW old \in [Stream -> BOOLEAN]
    PROVE  ForcedOut(old) \in [Stream -> BOOLEAN]
  <1>1. ASSUME NEW s \in Stream
        PROVE  (IF s = "w" THEN old[s] ELSE Len(tp[s]) > 0) \in BOOLEAN
    <2>1. (Len(tp[s]) > 0) \in BOOLEAN
      OBVIOUS
    <2>2. old[s] \in BOOLEAN
      OBVIOUS
    <2> QED BY <2>1, <2>2, Zenon
  <1> QED BY <1>1, Zenon DEF ForcedOut

LEMMA UpdateTypes ==
    ASSUME NEW points \in [Stream -> Seq(Nat)], NEW old \in [Stream -> BOOLEAN],
           NEW now \in Nat, par.tstop \in Nat, now <= par.tstop, Tol \in Nat,
           it \in [Stream -> Nat], OutputTimesUpdate(points, old, now)
    PROVE  /\ out' \in [Stream -> BOOLEAN]
           /\ it' \in [Stream -> Nat]
           /\ tnext' = NextStop(points, now)
           /\ tnext' \in now..par.tstop
  <1>1. out' = Reached(points, it, old, now) /\ it' = Advance(it, out')
        /\ tnext' = NextStop(points, now)
    BY DEF OutputTimesUpdate
  <1>2. \A s \in Stream : Due(points[s], it[s], now) \in BOOLEAN
    BY DEF Due
  <1>3. out' \in [Stream -> BOOLEAN]
    BY <1>1, <1>2 DEF Reached
  <1>4. it' \in [Stream -> Nat]
    BY <1>1 DEF Advance
  <1> QED BY <1>1, <1>3, <1>4, NextStopIsNext

\* One call of executestep, with its choices named.
LEMMA StepKeepsIInv ==
    ASSUME IInv, ExecuteStep
    PROVE  IInv'
  <1> DEFINE Body(limit, chosen, step) ==
             LET arrived == t + step >= tnext
                 now     == IF arrived THEN tnext ELSE t + step
                 d       == IF arrived THEN tnext - t ELSE step
             IN  \E ref \in Filtered(Reference(chosen), d) :
                   LET bad == Unstable(ref, d, now) IN
                   /\ t' = now /\ dt' = d /\ dtref' = ref /\ cfl' = limit
                   /\ tp' = IF bad THEN Forced(tp, now) ELSE tp
                   /\ error' = IF bad THEN 1 ELSE 0
                   /\ OutputTimesUpdate(tp', IF bad THEN ForcedOut(out) ELSE out, now)
                   /\ idle' = IF par.embedded /\ now = t THEN idle + 1 ELSE idle
             Steps(chosen) == IF par.embedded THEN Capped(chosen, GivenSteps) ELSE {chosen}
  <1>0. \E limit \in CflSteps : \E chosen \in DtChoices(limit) :
            \E step \in Steps(chosen) : Body(limit, chosen, step)
    BY DEF ExecuteStep
  <1> HIDE DEF Body
  <1>a. PICK limit \in CflSteps : \E chosen \in DtChoices(limit) :
            \E step \in Steps(chosen) : Body(limit, chosen, step)
    BY <1>0
  <1>b. PICK chosen \in DtChoices(limit) : \E step \in Steps(chosen) : Body(limit, chosen, step)
    BY <1>a
  <1>1. PICK step \in Steps(chosen) : Body(limit, chosen, step)
    BY <1>b
  <1> DEFINE now == IF t + step >= tnext THEN tnext ELSE t + step
             d   == IF t + step >= tnext THEN tnext - t ELSE step
  <1>2. PICK ref \in Filtered(Reference(chosen), d) :
             LET bad == Unstable(ref, d, now) IN
             /\ t' = now /\ dt' = d /\ dtref' = ref /\ cfl' = limit
             /\ tp' = IF bad THEN Forced(tp, now) ELSE tp
             /\ error' = IF bad THEN 1 ELSE 0
             /\ OutputTimesUpdate(tp', IF bad THEN ForcedOut(out) ELSE out, now)
             /\ idle' = IF par.embedded /\ now = t THEN idle + 1 ELSE idle
    BY <1>1 DEF Body
  <1> DEFINE bad == Unstable(ref, d, now)
             old == IF bad THEN ForcedOut(out) ELSE out
  <1>3. /\ pc = "step" /\ MayStep /\ pc' = "out"
        /\ par' = par /\ written' = written
    BY DEF ExecuteStep
  <1>4. /\ par \in Pars /\ par.tstop \in Nat /\ Tol \in Nat /\ MaxIdle \in Nat
        /\ tp \in [Stream -> Seq(Nat)] /\ DOMAIN written = Stream
        /\ it \in [Stream -> Nat] /\ out \in [Stream -> BOOLEAN]
        /\ t \in Nat /\ t <= par.tstop /\ tnext \in Nat /\ t <= tnext /\ tnext <= par.tstop
        /\ dtref \in Nat /\ idle \in 0..MaxIdle
    <2>1. par.tstop \in Nat
      BY ParsAssumption DEF IInv, TypeOK
    <2> QED BY <2>1, StepsAssumption DEF IInv, TypeOK
  <1>5. chosen \in Nat \ {0}
    BY <1>4, ChosenIsStep
  <1>6. step \in Nat /\ (~par.embedded => step = chosen)
    BY <1>5, GivenIsStep
  <1>7. now \in Nat /\ t <= now /\ now <= tnext /\ now <= par.tstop /\ d \in Nat
    BY <1>4, <1>6
  <1>8. ref \in Nat
    <2>1. Reference(chosen) \in Nat
      BY <1>4, <1>5 DEF Reference
    <2> HIDE DEF d, now
    <2> QED BY <1>7, <2>1, ReferenceIsStep
  <1>9. /\ ~par.embedded => t < now
        /\ idle' \in 0..MaxIdle
    <2>1. ~par.embedded => t < now
      <3>1. SUFFICES ASSUME ~par.embedded PROVE t < now
        OBVIOUS
      <3>2. t < par.tstop
        BY <1>3, <3>1 DEF MayStep
      <3>3. tnext = NextStop(tp, t)
        BY <1>3 DEF IInv
      <3>4. t < tnext
        BY <1>4, <3>2, <3>3, NextStopIsNext
      <3> QED BY <1>4, <1>5, <1>6, <3>1, <3>4
    <2>2. idle' = IF par.embedded /\ now = t THEN idle + 1 ELSE idle
      BY <1>2
    <2>3. par.embedded => idle < MaxIdle
      BY <1>3 DEF MayStep
    <2> HIDE DEF now
    <2> QED BY <1>4, <1>7, <2>1, <2>2, <2>3
  <1> HIDE DEF d, now
  <1>10. tp' \in [Stream -> Seq(Nat)]
    <2>1. tp' = Forced(tp, now) \/ tp' = tp
      BY <1>2
    <2>2. Forced(tp, now) \in [Stream -> Seq(Nat)]
      BY <1>4, <1>7, ForcedAreTimes, Zenon
    <2> QED BY <1>4, <2>1, <2>2, Zenon
  <1>11. old \in [Stream -> BOOLEAN]
    <2>1. ForcedOut(out) \in [Stream -> BOOLEAN]
      BY <1>4, ForcedOutIsAnswer, Zenon
    <2> QED BY <1>4, <2>1, Zenon
  <1>12. OutputTimesUpdate(tp', old, now)
    BY <1>2
  <1>13. error' = (IF bad THEN 1 ELSE 0) /\ (~bad => tp' = tp)
    BY <1>2
  <1> HIDE DEF old, bad
  <1>14. /\ out' \in [Stream -> BOOLEAN] /\ it' \in [Stream -> Nat]
         /\ tnext' = NextStop(tp', now) /\ tnext' \in now..par.tstop
    BY <1>4, <1>7, <1>10, <1>11, <1>12, UpdateTypes
  <1>15. t' = now /\ dt' = d /\ dtref' = ref /\ cfl' = limit
    BY <1>2
  <1>16. TypeOK'
    BY <1>3, <1>4, <1>7, <1>8, <1>9, <1>10, <1>13, <1>14, <1>15 DEF TypeOK
  <1>17. tnext' = NextStop(tp, t)'
    BY <1>3, <1>14, <1>15 DEF NextStop, Ahead
  <1>18. NoOutputLost'
    <2>1. SUFFICES ASSUME error' = 0, Separated(tp')
                   PROVE  \A s \in Stream : \A k \in 1..Len(tp'[s]) :
                              k <= it'[s] <=> tp'[s][k] <= t' + Tol
      BY DEF NoOutputLost, Separated
    <2>2. tp' = tp /\ ~bad
      BY <1>13, <2>1
    <2>3. error = 0
      BY <1>3 DEF IInv, TypeOK
    <2>4. Separated(tp) /\ OutputTimesUpdate(tp, old, now)
      BY <1>12, <2>1, <2>2
    <2>5. \A s \in Stream : \A k \in 1..Len(tp[s]) : k <= it'[s] <=> tp[s][k] <= now + Tol
      BY <1>3, <1>7, <2>3, <2>4, CountersFollow
    <2> QED BY <1>15, <2>2, <2>5
  <1> QED BY <1>3, <1>16, <1>17, <1>18 DEF IInv

LEMMA FirstOutputKeepsIInv ==
    ASSUME IInv, FirstOutput
    PROVE  IInv'
  <1>1. /\ pc = "init" /\ pc' = "step" /\ OutputTimesUpdate(tp, out, t)
        /\ WriteRecords(out', it')
        /\ par' = par /\ tp' = tp /\ t' = t /\ dt' = dt /\ dtref' = dtref /\ cfl' = cfl
        /\ error' = error /\ idle' = idle
    BY DEF FirstOutput
  <1>2. /\ par \in Pars /\ par.tstop \in Nat /\ Tol \in Nat
        /\ tp \in [Stream -> Seq(Nat)]
        /\ it \in [Stream -> Nat] /\ out \in [Stream -> BOOLEAN]
        /\ t = 0 /\ error = 0
    <2>1. par.tstop \in Nat
      BY ParsAssumption DEF IInv, TypeOK
    <2> QED BY <1>1, <2>1, StepsAssumption DEF IInv, TypeOK
  <1>3. /\ out' \in [Stream -> BOOLEAN] /\ it' \in [Stream -> Nat]
        /\ tnext' = NextStop(tp, t) /\ tnext' \in t..par.tstop
    BY <1>1, <1>2, UpdateTypes
  <1>4. DOMAIN written' = Stream
    BY <1>1 DEF WriteRecords
  <1>5. TypeOK'
    BY <1>1, <1>2, <1>3, <1>4 DEF TypeOK, IInv
  <1>6. tnext' = NextStop(tp, t)'
    BY <1>1, <1>3 DEF NextStop, Ahead
  <1>7. NoOutputLost'
    <2>1. SUFFICES ASSUME Separated(tp)
                   PROVE  \A s \in Stream : \A k \in 1..Len(tp[s]) :
                              k <= it'[s] <=> tp[s][k] <= t + Tol
      BY <1>1 DEF NoOutputLost, Separated
    <2>2. t \in Nat /\ t <= t /\ (pc = "init" => t = 0) /\ (pc # "init" => t <= tnext)
      BY <1>1, <1>2
    <2>3. OutputTimesUpdate(tp, out, t) /\ error = 0
      BY <1>1, <1>2
    <2> QED BY <2>1, <2>2, <2>3, CountersFollow, Zenon
  <1> QED BY <1>1, <1>2, <1>5, <1>6, <1>7 DEF IInv

LEMMA NextIInv == IInv /\ [Next]_vars => IInv'
  <1> SUFFICES ASSUME IInv, [Next]_vars PROVE IInv'
    OBVIOUS
  <1>1. CASE FirstOutput
    BY <1>1, FirstOutputKeepsIInv
  <1>2. CASE ExecuteStep
    BY <1>2, StepKeepsIInv
  <1>3. ASSUME UNCHANGED <<par, tp, it, out, t, dt, dtref, tnext, cfl, error, idle>>,
               DOMAIN written' = Stream, pc # "init", pc' # "init",
               pc' \in {"init", "step", "out", "done", "halted"},
               error = 1 => pc' \in {"out", "halted"}
        PROVE  IInv'
    <2>1. TypeOK'
      BY <1>3 DEF IInv, TypeOK
    <2>2. tnext' = NextStop(tp, t)'
      BY <1>3 DEF IInv, NextStop, Ahead
    <2>3. NoOutputLost'
      BY <1>3 DEF IInv, NoOutputLost, Separated
    <2> QED BY <1>3, <2>1, <2>2, <2>3 DEF IInv
  <1>4. CASE OutputExt
    <2>1. DOMAIN written' = Stream
      BY <1>4 DEF OutputExt, WriteRecords
    <2>2. error = 1 => pc' = "halted"
      BY <1>4 DEF OutputExt
    <2> QED BY <1>3, <1>4, <2>1, <2>2 DEF OutputExt
  <1>5. CASE Final
    <2>1. error # 1
      BY <1>5 DEF Final, IInv
    <2> QED BY <1>3, <1>5, <2>1 DEF Final, IInv, TypeOK
  <1>6. CASE UNCHANGED vars
    <2>1. TypeOK' /\ (NextStop(tp, t))' = NextStop(tp, t) /\ NoOutputLost'
      BY <1>6 DEF vars, IInv, TypeOK, NextStop, Ahead, NoOutputLost, Separated
    <2> QED BY <1>6, <2>1 DEF vars, IInv
  <1> QED BY <1>1, <1>2, <1>4, <1>5, <1>6 DEF Next

LEMMA Invariant == Spec => []IInv
  BY InitIInv, NextIInv, PTL DEF Spec
-----------------------------------------------------------------------------
(* What the invariant shows *)

\* The clock of timestep.F90 stays between 0 and tstop and the next stop is
\* never behind it, whatever steps the flow or a BMI driver asks for.
THEOREM ClockInRange == Spec => []TypeOK
  <1>1. IInv => TypeOK
    BY DEF IInv
  <1> QED BY <1>1, Invariant, PTL

\* For every list of output times a run can serve, every choice of steps and
\* every tolerance, the counters of outputtimes_update agree with the clock:
\* no output time is stepped over and none is counted early.
THEOREM OutputNeverLost == Spec => []NoOutputLost
  <1>1. IInv => NoOutputLost
    BY DEF IInv
  <1> QED BY <1>1, Invariant, PTL
-----------------------------------------------------------------------------
(* What one call of executestep does to the clock *)

LEMMA ClockTypes ==
    ASSUME IInv
    PROVE  /\ par \in Pars /\ par.tstop \in Nat /\ Tol \in Nat
           /\ tp \in [Stream -> Seq(Nat)] /\ it \in [Stream -> Nat]
           /\ out \in [Stream -> BOOLEAN]
           /\ t \in Nat /\ tnext \in Nat /\ t <= tnext /\ tnext <= par.tstop
           /\ dt \in Nat /\ error \in {0, 1}
  <1>1. par.tstop \in Nat
    BY ParsAssumption DEF IInv, TypeOK
  <1> QED BY <1>1, StepsAssumption DEF IInv, TypeOK

\* The step is the one compute_dt chose, or a shorter one a driver gave, cut
\* at the next stop.
StepTaken(limit, chosen, step) ==
    /\ cfl' = limit
    /\ step <= chosen /\ (~par.embedded => step = chosen)
    /\ t' = IF t + step >= tnext THEN tnext ELSE t + step
    /\ dt' = IF t + step >= tnext THEN tnext - t ELSE step
    /\ error' = 0 => tp' = tp /\ OutputTimesUpdate(tp, out, t')

LEMMA SomeStepTaken ==
    ASSUME IInv, ExecuteStep
    PROVE  \E limit \in CflSteps : \E chosen \in DtChoices(limit) : \E step \in Nat :
               StepTaken(limit, chosen, step)
  <1> DEFINE Body(limit, chosen, step) ==
             LET arrived == t + step >= tnext
                 now     == IF arrived THEN tnext ELSE t + step
                 d       == IF arrived THEN tnext - t ELSE step
             IN  \E ref \in Filtered(Reference(chosen), d) :
                   LET bad == Unstable(ref, d, now) IN
                   /\ t' = now /\ dt' = d /\ dtref' = ref /\ cfl' = limit
                   /\ tp' = IF bad THEN Forced(tp, now) ELSE tp
                   /\ error' = IF bad THEN 1 ELSE 0
                   /\ OutputTimesUpdate(tp', IF bad THEN ForcedOut(out) ELSE out, now)
                   /\ idle' = IF par.embedded /\ now = t THEN idle + 1 ELSE idle
             Steps(chosen) == IF par.embedded THEN Capped(chosen, GivenSteps) ELSE {chosen}
  <1>0. \E limit \in CflSteps : \E chosen \in DtChoices(limit) :
            \E step \in Steps(chosen) : Body(limit, chosen, step)
    BY DEF ExecuteStep
  <1> HIDE DEF Body
  <1>1. PICK limit \in CflSteps : \E chosen \in DtChoices(limit) :
            \E step \in Steps(chosen) : Body(limit, chosen, step)
    BY <1>0
  <1>2. PICK chosen \in DtChoices(limit) : \E step \in Steps(chosen) : Body(limit, chosen, step)
    BY <1>1
  <1>3. PICK step \in Steps(chosen) : Body(limit, chosen, step)
    BY <1>2
  <1>4. chosen \in Nat \ {0}
    BY ClockTypes, ChosenIsStep
  <1>5. step \in Nat /\ step <= chosen /\ (~par.embedded => step = chosen)
    <2>1. GivenSteps \subseteq Nat
      BY StepsAssumption
    <2> QED BY <1>4, <2>1 DEF Capped
  <1>6. StepTaken(limit, chosen, step)
    <2> DEFINE now == IF t + step >= tnext THEN tnext ELSE t + step
               d   == IF t + step >= tnext THEN tnext - t ELSE step
    <2>1. PICK ref \in Filtered(Reference(chosen), d) :
             LET bad == Unstable(ref, d, now) IN
             /\ t' = now /\ dt' = d /\ dtref' = ref /\ cfl' = limit
             /\ tp' = IF bad THEN Forced(tp, now) ELSE tp
             /\ error' = IF bad THEN 1 ELSE 0
             /\ OutputTimesUpdate(tp', IF bad THEN ForcedOut(out) ELSE out, now)
             /\ idle' = IF par.embedded /\ now = t THEN idle + 1 ELSE idle
      BY <1>3 DEF Body
    <2> DEFINE bad == Unstable(ref, d, now)
    <2>2. t' = now /\ dt' = d /\ cfl' = limit
      BY <2>1
    <2>3. /\ tp' = IF bad THEN Forced(tp, now) ELSE tp
          /\ error' = IF bad THEN 1 ELSE 0
          /\ OutputTimesUpdate(tp', IF bad THEN ForcedOut(out) ELSE out, now)
      BY <2>1
    <2> HIDE DEF bad, now
    <2>4. error' = 0 => ~bad
      BY <2>3
    <2>5. error' = 0 => tp' = tp /\ OutputTimesUpdate(tp, out, t')
      BY <2>2, <2>3, <2>4
    <2> QED BY <1>5, <2>2, <2>5 DEF StepTaken, now
  <1> QED BY <1>5, <1>6

\* The clock of program xbeach moves with every step, by dt and never past the
\* next stop.
LEMMA ClockMoves ==
    ASSUME IInv, ExecuteStep
    PROVE  /\ pc = "step" /\ pc' = "out" /\ error = 0
           /\ par' = par /\ written' = written
           /\ t' = t + dt' /\ t <= t' /\ t' <= tnext /\ dt' \in Nat
           /\ ~par.embedded => t < par.tstop /\ t < tnext /\ t < t'
           /\ error' = 0 => tp' = tp /\ OutputTimesUpdate(tp, out, t')
  <1>1. /\ pc = "step" /\ pc' = "out" /\ par' = par /\ written' = written
        /\ ~par.embedded => t < par.tstop
    BY DEF ExecuteStep, MayStep
  <1>2. error = 0
    BY <1>1, ClockTypes DEF IInv
  <1>3. PICK limit \in CflSteps : \E chosen \in DtChoices(limit) : \E step \in Nat :
            StepTaken(limit, chosen, step)
    BY SomeStepTaken
  <1>4. PICK chosen \in DtChoices(limit) : \E step \in Nat : StepTaken(limit, chosen, step)
    BY <1>3
  <1>5. PICK step \in Nat : StepTaken(limit, chosen, step)
    BY <1>4
  <1>6. chosen \in Nat \ {0}
    BY ClockTypes, ChosenIsStep
  <1>7. ~par.embedded => t < tnext
    <2>1. pc # "init" => tnext = NextStop(tp, t)
      BY DEF IInv
    <2>2. t < par.tstop => t < NextStop(tp, t)
      BY ClockTypes, NextStopIsNext
    <2> QED BY <1>1, <2>1, <2>2
  <1>8. t' = t + dt' /\ t <= t' /\ t' <= tnext /\ dt' \in Nat
    BY <1>5, ClockTypes DEF StepTaken
  <1>9. ~par.embedded => t < t'
    BY <1>5, <1>6, <1>7, ClockTypes DEF StepTaken
  <1>10. error' = 0 => tp' = tp /\ OutputTimesUpdate(tp, out, t')
    BY <1>5 DEF StepTaken
  <1> QED BY <1>1, <1>2, <1>7, <1>8, <1>9, <1>10
-----------------------------------------------------------------------------
(* The records of a stream: one for each time served, ascending. *)

RecordsFit(s, w, served, points, now) ==
    /\ w \in Seq(Nat)
    /\ RecordOf(s, Len(w)) = IF s = "m" /\ served = 0 THEN 1 ELSE served
    /\ \A k \in 1..Len(w) :
         /\ Dist(w[k], points[NextIndex(points, RecordOf(s, k) - 1)]) <= Tol
         /\ w[k] <= now
         /\ k > 1 => w[k - 1] < w[k]

LEMMA RecordAdded ==
    ASSUME NEW s \in Timed, NEW w, NEW served \in Nat, NEW points \in Seq(Nat),
           NEW before \in Int, NEW now \in Nat, before < now, Tol \in Nat,
           Len(points) > 0, RecordsFit(s, w, served, points, before),
           Dist(points[NextIndex(points, served)], now) <= Tol
    PROVE  RecordsFit(s, IF s = "m" /\ ~(served + 1 > 1) THEN w ELSE Append(w, now),
                      served + 1, points, now)
  <1>1. w \in Seq(Nat) /\ Len(w) \in Nat
    BY DEF RecordsFit
  <1>2. CASE s = "m" /\ served = 0
    <2>1. Len(w) = 0
      BY <1>1, <1>2 DEF RecordsFit, RecordOf
    <2> QED BY <1>1, <1>2, <2>1 DEF RecordsFit, RecordOf
  <1>3. CASE ~(s = "m" /\ served = 0)
    <2> DEFINE v == Append(w, now)
    <2>1. v \in Seq(Nat) /\ Len(v) = Len(w) + 1 /\ v[Len(w) + 1] = now
          /\ \A k \in 1..Len(w) : v[k] = w[k] /\ w[k] \in Nat
      BY <1>1
    <2>2. RecordOf(s, Len(w)) = served /\ RecordOf(s, Len(w) + 1) = served + 1
      BY <1>1, <1>3 DEF RecordsFit, RecordOf
    <2>3. NextIndex(points, served) \in 1..Len(points)
      BY DEF NextIndex
    <2>4. Dist(now, points[NextIndex(points, served)]) <= Tol
      BY <2>3 DEF Dist
    <2> HIDE DEF v
    <2>5. ASSUME NEW k \in 1..Len(v)
          PROVE  /\ Dist(v[k], points[NextIndex(points, RecordOf(s, k) - 1)]) <= Tol
                 /\ v[k] <= now
                 /\ k > 1 => v[k - 1] < v[k]
      <3>1. CASE k = Len(w) + 1
        <4>1. RecordOf(s, k) - 1 = served
          BY <2>2, <3>1
        <4>2. k > 1 => v[k - 1] < v[k]
          <5>1. k > 1 => Len(w) \in 1..Len(w)
            BY <1>1, <3>1
          <5>2. k > 1 => w[Len(w)] <= before /\ v[Len(w)] = w[Len(w)] /\ w[Len(w)] \in Nat
            BY <2>1, <5>1 DEF RecordsFit
          <5>3. k > 1 => v[k - 1] = w[Len(w)]
            BY <1>1, <3>1, <5>2
          <5> QED BY <2>1, <3>1, <5>2, <5>3
        <4> QED BY <2>1, <2>4, <3>1, <4>1, <4>2
      <3>2. CASE k # Len(w) + 1
        <4>1. k \in 1..Len(w) /\ (k > 1 => k - 1 \in 1..Len(w))
          BY <1>1, <2>1, <3>2
        <4>2. /\ Dist(w[k], points[NextIndex(points, RecordOf(s, k) - 1)]) <= Tol
              /\ w[k] <= before /\ (k > 1 => w[k - 1] < w[k])
          BY <4>1 DEF RecordsFit
        <4>3. v[k] = w[k] /\ (k > 1 => v[k - 1] = w[k - 1]) /\ w[k] \in Nat
          BY <2>1, <4>1
        <4> QED BY <4>2, <4>3
      <3> QED BY <3>1, <3>2
    <2>6. RecordOf(s, Len(v)) = IF s = "m" /\ served + 1 = 0 THEN 1 ELSE served + 1
      BY <2>1, <2>2
    <2>7. RecordsFit(s, v, served + 1, points, now)
      BY <2>1, <2>5, <2>6 DEF RecordsFit
    <2>8. (IF s = "m" /\ ~(served + 1 > 1) THEN w ELSE Append(w, now)) = v
      BY <1>3 DEF v
    <2> QED BY <2>7, <2>8
  <1> QED BY <1>2, <1>3

LEMMA RecordsKeep ==
    ASSUME NEW s, NEW w, NEW served, NEW points, NEW before \in Int, NEW now \in Int,
           before <= now, RecordsFit(s, w, served, points, before)
    PROVE  RecordsFit(s, w, served, points, now)
  <1>1. \A k \in 1..Len(w) : w[k] \in Nat
    BY DEF RecordsFit
  <1> QED BY <1>1 DEF RecordsFit

\* Between a step and its output the time just reached is not yet recorded.
Served(s) == IF pc = "out" /\ out[s] THEN it[s] - 1 ELSE it[s]
Recorded  == IF pc = "out" THEN t - 1 ELSE t

StreamFits(s) ==
    /\ RecordsFit(s, written[s], Served(s), tp[s], Recorded)
    /\ pc = "out" /\ out[s] => /\ it[s] > 0
                               /\ Dist(tp[s][NextIndex(tp[s], it[s] - 1)], t) <= Tol

RecInv ==
    /\ pc = "init" => \A s \in Stream : written[s] = <<>>
    /\ error = 0 => \A s \in Stream : out[s] => Len(tp[s]) > 0
    /\ (pc # "init" /\ error = 0 /\ ~par.embedded) => \A s \in Timed : StreamFits(s)

\* A stream is told to write only when it has a time, and one that is due.
LEMMA DueIsNear ==
    ASSUME IInv, NEW now \in Nat, NEW s \in Stream, OutputTimesUpdate(tp, out, now),
           out[s] => Len(tp[s]) > 0
    PROVE  /\ out'[s] => /\ Len(tp[s]) > 0 /\ it'[s] = it[s] + 1
                         /\ Dist(tp[s][NextIndex(tp[s], it[s])], now) <= Tol
           /\ ~out'[s] => it'[s] = it[s]
  <1>1. out' = Reached(tp, it, out, now) /\ it' = Advance(it, out')
    BY DEF OutputTimesUpdate
  <1>2. tp[s] \in Seq(Nat) /\ Len(tp[s]) \in Nat
    BY ClockTypes
  <1>3. out'[s] = IF Len(tp[s]) > 0 THEN Due(tp[s], it[s], now) ELSE out[s]
    BY <1>1, Zenon DEF Reached
  <1>4. it'[s] = IF out'[s] THEN it[s] + 1 ELSE it[s]
    BY <1>1, Zenon DEF Advance
  <1>5. out'[s] => Len(tp[s]) > 0 /\ Due(tp[s], it[s], now)
    BY <1>3, Zenon
  <1> QED BY <1>4, <1>5, Zenon DEF Due

LEMMA InitRecInv == Init => RecInv
  BY DEF Init, RecInv, Stream, Timed

LEMMA FirstOutputKeepsRecords ==
    ASSUME IInv, RecInv, FirstOutput
    PROVE  RecInv'
  <1>1. /\ pc = "init" /\ pc' = "step" /\ OutputTimesUpdate(tp, out, t)
        /\ WriteRecords(out', it') /\ tp' = tp /\ t' = t
    BY DEF FirstOutput
  <1>2. t = 0 /\ error = 0 /\ it = [s \in Stream |-> 0] /\ error' = error
    BY <1>1 DEF IInv, FirstOutput
  <1>3. \A s \in Stream : out'[s] => Len(tp[s]) > 0
    BY <1>1, <1>2, ClockTypes, DueIsNear DEF RecInv
  <1>4. ASSUME NEW s \in Timed
        PROVE  RecordsFit(s, written'[s], it'[s], tp[s], t)
    <2>1. s \in Stream
      BY DEF Stream
    <2>2. tp[s] \in Seq(Nat) /\ Tol \in Nat
      BY <2>1, ClockTypes
    <2>3. written[s] = <<>> /\ it[s] = 0
      BY <1>1, <1>2, <2>1 DEF RecInv
    <2>4. RecordsFit(s, <<>>, 0, tp[s], -1)
      BY DEF RecordsFit, RecordOf
    <2>5. /\ out'[s] => /\ Len(tp[s]) > 0 /\ it'[s] = 0 + 1
                        /\ Dist(tp[s][NextIndex(tp[s], 0)], 0) <= Tol
          /\ ~out'[s] => it'[s] = 0
      BY <1>1, <1>2, <2>1, <2>3, DueIsNear DEF RecInv
    <2>6. written'[s] = IF out'[s] /\ (s = "m" => it'[s] > 1) THEN Append(written[s], 0)
                                                              ELSE written[s]
      BY <1>1, <1>2, <2>1 DEF WriteRecords, Records
    <2>7. CASE out'[s]
      <3>1. RecordsFit(s, IF s = "m" /\ ~(0 + 1 > 1) THEN <<>> ELSE Append(<<>>, 0),
                       0 + 1, tp[s], 0)
        <4> DEFINE none == <<>>
                   zero == 0
                   past == -1
        <4>1. RecordsFit(s, none, zero, tp[s], past) /\ Len(tp[s]) > 0
              /\ Dist(tp[s][NextIndex(tp[s], zero)], zero) <= Tol
              /\ zero \in Nat /\ past \in Int /\ past < zero
          BY <2>4, <2>5, <2>7
        <4> HIDE DEF none, zero, past
        <4>2. RecordsFit(s, IF s = "m" /\ ~(zero + 1 > 1) THEN none ELSE Append(none, zero),
                         zero + 1, tp[s], zero)
          BY <2>2, <4>1, RecordAdded
        <4> QED BY <4>2 DEF none, zero
      <3>2. written'[s] = IF s = "m" /\ ~(0 + 1 > 1) THEN <<>> ELSE Append(<<>>, 0)
        BY <2>3, <2>5, <2>6, <2>7
      <3> QED BY <1>2, <2>5, <2>7, <3>1, <3>2
    <2>8. CASE ~out'[s]
      <3>1. written'[s] = <<>> /\ it'[s] = 0
        BY <2>3, <2>5, <2>6, <2>8
      <3>2. RecordsFit(s, <<>>, 0, tp[s], 0)
        BY <2>4, RecordsKeep
      <3> QED BY <1>2, <3>1, <3>2
    <2> QED BY <2>7, <2>8
  <1>5. \A s \in Timed : StreamFits(s)'
    BY <1>1, <1>4 DEF StreamFits, Served, Recorded, RecordsFit, Dist, NextIndex, RecordOf
  <1> QED BY <1>1, <1>3, <1>5 DEF RecInv

LEMMA StepKeepsRecords ==
    ASSUME IInv, RecInv, ExecuteStep
    PROVE  RecInv'
  <1>1. /\ pc = "step" /\ pc' = "out" /\ error = 0 /\ par' = par /\ written' = written
        /\ t \in Nat /\ t' \in Nat
        /\ ~par.embedded => t < t'
        /\ error' = 0 => tp' = tp /\ OutputTimesUpdate(tp, out, t')
    BY ClockMoves, ClockTypes
  <1> SUFFICES ASSUME error' = 0 PROVE RecInv'
    BY <1>1 DEF RecInv
  <1>2. ASSUME NEW s \in Stream
        PROVE  /\ out'[s] => /\ Len(tp[s]) > 0 /\ it'[s] = it[s] + 1
                             /\ Dist(tp[s][NextIndex(tp[s], it[s])], t') <= Tol
               /\ ~out'[s] => it'[s] = it[s]
    BY <1>1, DueIsNear DEF RecInv
  <1>3. ASSUME NEW s \in Timed, ~par.embedded
        PROVE  StreamFits(s)'
    <2>1. s \in Stream /\ it[s] \in Nat
      BY ClockTypes DEF Stream
    <2>2. RecordsFit(s, written[s], it[s], tp[s], t)
      BY <1>1, <1>3 DEF RecInv, StreamFits, Served, Recorded
    <2>3. RecordsFit(s, written[s], it[s], tp[s], t' - 1)
      BY <1>1, <1>3, <2>2, RecordsKeep
    <2>4. Served(s)' = it[s] /\ Recorded' = t' - 1
      BY <1>1, <1>2, <2>1 DEF Served, Recorded
    <2>5. RecordsFit(s, written[s], Served(s), tp[s], Recorded)'
      BY <1>1, <2>3, <2>4 DEF RecordsFit, Dist, NextIndex, RecordOf
    <2>6. out'[s] => /\ it'[s] > 0
                     /\ Dist(tp'[s][NextIndex(tp'[s], it'[s] - 1)], t') <= Tol
      <3>1. out'[s] => it'[s] - 1 = it[s] /\ it'[s] > 0
        BY <1>2, <2>1
      <3> QED BY <1>1, <1>2, <2>1, <3>1
    <2> QED BY <2>5, <2>6 DEF StreamFits, Dist, NextIndex
  <1> QED BY <1>1, <1>2, <1>3 DEF RecInv

LEMMA OutputKeepsRecords ==
    ASSUME IInv, RecInv, OutputExt
    PROVE  RecInv'
  <1>1. /\ pc = "out" /\ pc' # "init" /\ pc' # "out" /\ WriteRecords(out, it)
        /\ par' = par /\ tp' = tp /\ it' = it /\ out' = out /\ t' = t /\ error' = error
    BY DEF OutputExt
  <1>2. ASSUME NEW s \in Timed, ~par.embedded, error = 0
        PROVE  StreamFits(s)'
    <2>1. /\ s \in Stream /\ it[s] \in Nat /\ tp[s] \in Seq(Nat) /\ t \in Nat /\ Tol \in Nat
          /\ out[s] \in BOOLEAN
      BY ClockTypes DEF Stream
    <2>2. /\ RecordsFit(s, written[s], IF out[s] THEN it[s] - 1 ELSE it[s], tp[s], t - 1)
          /\ out[s] => it[s] > 0 /\ Dist(tp[s][NextIndex(tp[s], it[s] - 1)], t) <= Tol
      BY <1>1, <1>2 DEF RecInv, StreamFits, Served, Recorded
    <2>3. written'[s] = IF out[s] /\ (s = "m" => it[s] > 1) THEN Append(written[s], t)
                                                            ELSE written[s]
      BY <1>1, <2>1 DEF WriteRecords, Records
    <2>4. RecordsFit(s, written'[s], it[s], tp[s], t)
      <3>1. CASE out[s]
        <4> DEFINE served == it[s] - 1
        <4>1. served \in Nat /\ served + 1 = it[s]
          BY <2>1, <2>2, <3>1
        <4>2. Len(tp[s]) > 0
          BY <1>2, <2>1, <3>1 DEF RecInv
        <4>3. RecordsFit(s, written[s], served, tp[s], t - 1)
          BY <2>2, <3>1
        <4>4. Dist(tp[s][NextIndex(tp[s], served)], t) <= Tol
          BY <2>2, <3>1
        <4> HIDE DEF served
        <4>5. RecordsFit(s, IF s = "m" /\ ~(served + 1 > 1) THEN written[s]
                                                            ELSE Append(written[s], t),
                         served + 1, tp[s], t)
          BY <2>1, <4>1, <4>2, <4>3, <4>4, RecordAdded
        <4>6. written'[s] = IF s = "m" /\ ~(served + 1 > 1) THEN written[s]
                                                            ELSE Append(written[s], t)
          BY <2>3, <3>1, <4>1
        <4> QED BY <4>1, <4>5, <4>6
      <3>2. CASE ~out[s]
        <4>1. RecordsFit(s, written[s], it[s], tp[s], t)
          BY <2>1, <2>2, <3>2, RecordsKeep
        <4> QED BY <2>3, <3>2, <4>1
      <3> QED BY <2>1, <3>1, <3>2
    <2>5. Served(s)' = it[s] /\ Recorded' = t
      BY <1>1 DEF Served, Recorded
    <2>6. RecordsFit(s, written[s], Served(s), tp[s], Recorded)'
      BY <1>1, <2>4, <2>5 DEF RecordsFit, Dist, NextIndex, RecordOf
    <2> QED BY <1>1, <2>6 DEF StreamFits
  <1> QED BY <1>1, <1>2 DEF RecInv

LEMMA NextRecInv == IInv /\ RecInv /\ [Next]_vars => RecInv'
  <1> SUFFICES ASSUME IInv, RecInv, [Next]_vars PROVE RecInv'
    OBVIOUS
  <1>1. CASE FirstOutput
    BY <1>1, FirstOutputKeepsRecords
  <1>2. CASE ExecuteStep
    BY <1>2, StepKeepsRecords
  <1>3. CASE OutputExt
    BY <1>3, OutputKeepsRecords
  <1>4. ASSUME UNCHANGED <<par, tp, it, out, t, error, written>>, pc = "out" <=> pc' = "out",
               pc = "init" <=> pc' = "init"
        PROVE  RecInv'
    <2>1. \A s \in Timed : StreamFits(s) = StreamFits(s)'
      BY <1>4 DEF StreamFits, Served, Recorded, RecordsFit, Dist, NextIndex, RecordOf
    <2> QED BY <1>4, <2>1 DEF RecInv
  <1>5. CASE Final
    BY <1>4, <1>5 DEF Final
  <1>6. CASE UNCHANGED vars
    BY <1>4, <1>6 DEF vars
  <1> QED BY <1>1, <1>2, <1>3, <1>5, <1>6 DEF Next

LEMMA RecordsInvariant == Spec => []RecInv
  BY InitRecInv, NextRecInv, Invariant, PTL DEF Spec

\* For every list of output times, every choice of steps and every tolerance,
\* the files of program xbeach hold one record per time reached (outputtimes_update,
\* ncoutput), stamped within the tolerance, and no two alike.
THEOREM RecordsComplete == Spec => []RecordsOnTime
  <1>1. RecInv => RecordsOnTime
    <2> SUFFICES ASSUME RecInv, ~par.embedded, error = 0, pc \in {"step", "done"},
                        NEW s \in Timed
                 PROVE  /\ RecordOf(s, Len(written[s])) =
                               IF s = "m" /\ it[s] = 0 THEN 1 ELSE it[s]
                        /\ \A k \in 1..Len(written[s]) :
                             /\ Dist(written[s][k],
                                     tp[s][NextIndex(tp[s], RecordOf(s, k) - 1)]) <= Tol
                             /\ k > 1 => written[s][k - 1] < written[s][k]
      BY DEF RecordsOnTime
    <2>1. RecordsFit(s, written[s], it[s], tp[s], t)
      BY DEF RecInv, StreamFits, Served, Recorded
    <2> QED BY <2>1 DEF RecordsFit
  <1> QED BY <1>1, RecordsInvariant, PTL
-----------------------------------------------------------------------------
(* compute_dt: equal steps up to the next output time *)

LEMMA Division ==
    ASSUME NEW a \in Nat, NEW n \in Nat \ {0}
    PROVE  /\ a \div n \in Nat
           /\ n * (a \div n) \in Nat /\ n * (a \div n) <= a /\ a < n * (a \div n) + n
  <1> DEFINE q == a \div n
  <1>1. q \in Int /\ n * q <= a /\ a < n * q + n
    BY SMT
  <1> HIDE DEF q
  <1>2. q >= 0
    <2>1. SUFFICES ASSUME q <= -1 PROVE FALSE
      BY <1>1
    <2>2. n * q <= n * (-1)
      BY <1>1, <2>1
    <2> QED BY <1>1, <2>2
  <1>3. q \in Nat /\ n * q \in Nat
    BY <1>1, <1>2, ProductOfNats
  <1> QED BY <1>1, <1>3 DEF q

LEMMA ProductOrder ==
    ASSUME NEW n \in Nat, NEW a \in Int, NEW b \in Int, a <= b
    PROVE  n * a <= n * b
  <1>1. n * (b - a) \in Nat /\ n * (b - a) = n * b - n * a /\ n * b \in Int /\ n * a \in Int
    BY ProductOfNats
  <1> QED BY <1>1

\* The number of steps is the least that keeps each below the limit, and a step
\* is the distance divided by it, rounded either way.
LEMMA SmoothedSteps ==
    ASSUME NEW gap \in Nat \ {0}, NEW limit \in Nat \ {0}, NEW d \in Smoothed(gap, limit)
    PROVE  \E n \in Nat \ {0} :
             /\ gap <= n * limit /\ limit * (n - 1) < gap
             /\ d \in Nat /\ n * d < gap + n /\ gap < n * d + n
             /\ gap - d <= (n - 1) * limit
  <1> DEFINE n == (gap + limit - 1) \div limit
             low == gap \div n
             high == (gap + n - 1) \div n
  <1>1. gap + limit - 1 \in Nat
    OBVIOUS
  <1>2. n \in Nat /\ limit * n \in Nat /\ limit * n <= gap + limit - 1
        /\ gap + limit - 1 < limit * n + limit
    BY <1>1, Division
  <1>3. d = low \/ d = high
    BY DEF Smoothed
  <1> HIDE DEF n
  <1>4. n # 0
    BY <1>2
  <1>5. gap <= n * limit /\ limit * (n - 1) < gap
    <2>1. limit * n = n * limit /\ limit * (n - 1) = limit * n - limit
      BY <1>2
    <2> QED BY <1>2, <2>1
  <1>6. low \in Nat /\ n * low \in Nat /\ n * low <= gap /\ gap < n * low + n
    BY <1>2, <1>4, Division
  <1>7. high \in Nat /\ n * high \in Nat /\ n * high <= gap + n - 1
        /\ gap + n - 1 < n * high + n
    <2>1. gap + n - 1 \in Nat
      BY <1>2, <1>4
    <2> QED BY <1>2, <1>4, <2>1, Division
  <1> HIDE DEF low, high
  <1>8. low <= high
    <2>1. SUFFICES ASSUME high + 1 <= low PROVE FALSE
      BY <1>6, <1>7
    <2>2. n * (high + 1) <= n * low
      BY <1>2, <1>6, <1>7, <2>1, ProductOrder
    <2>3. n * (high + 1) = n * high + n
      BY <1>2, <1>7
    <2> QED BY <1>2, <1>6, <1>7, <2>2, <2>3
  <1>9. gap - low <= (n - 1) * limit
    <2>0. n - 1 \in Nat /\ (n - 1) * limit = n * limit - limit /\ n * limit \in Nat
      BY <1>2, <1>4, ProductOfNats
    <2>1. CASE low >= limit
      BY <1>5, <1>6, <2>0, <2>1
    <2>2. CASE low + 1 <= limit
      <3>1. (n - 1) * (low + 1) <= (n - 1) * limit
        BY <1>6, <2>0, <2>2, ProductOrder
      <3>2. (n - 1) * (low + 1) = n * low + n - (low + 1)
        BY <1>2, <1>6
      <3> HIDE DEF low
      <3>3. gap - low <= n * low + n - (low + 1)
        BY <1>2, <1>6
      <3>4. (n - 1) * (low + 1) \in Int /\ (n - 1) * limit \in Int
        BY <1>6, <2>0
      <3> QED BY <1>6, <3>1, <3>2, <3>3, <3>4
    <2> QED BY <1>6, <2>1, <2>2
  <1>10. d \in Nat /\ n * d < gap + n /\ gap < n * d + n
    <2>1. CASE d = low
      BY <1>2, <1>4, <1>6, <2>1
    <2>2. CASE d = high
      BY <1>2, <1>4, <1>7, <2>2
    <2> QED BY <1>3, <2>1, <2>2
  <1>11. gap - d <= (n - 1) * limit
    <2>1. low <= d
      BY <1>3, <1>6, <1>7, <1>8
    <2>2. (n - 1) * limit \in Int
      BY <1>2
    <2> QED BY <1>6, <1>9, <1>10, <2>1, <2>2
  <1> QED BY <1>2, <1>4, <1>5, <1>10, <1>11

LEMMA SmoothedBelowLimit ==
    ASSUME NEW gap \in Nat \ {0}, NEW limit \in Nat \ {0}, NEW d \in Smoothed(gap, limit)
    PROVE  d <= limit
  <1>1. PICK n \in Nat \ {0} : d \in Nat /\ n * d < gap + n /\ gap <= n * limit
    BY SmoothedSteps
  <1> SUFFICES ASSUME limit + 1 <= d PROVE FALSE
    BY <1>1
  <1>2. n * (limit + 1) <= n * d
    BY <1>1, ProductOrder
  <1>3. n * (limit + 1) = n * limit + n /\ n * limit \in Nat /\ n * d \in Nat
    BY <1>1, ProductOfNats
  <1> QED BY <1>1, <1>2, <1>3

\* What is left after one of the steps is divided into steps as long, but for
\* rounding, when the limit has not become smaller.
LEMMA SmoothedAgain ==
    ASSUME NEW gap \in Nat \ {0}, NEW d \in Nat \ {0}, NEW limit \in Nat \ {0},
           NEW after \in Nat \ {0}, limit <= after,
           d \in Smoothed(gap + d, limit), NEW e \in Smoothed(gap, after)
    PROVE  e >= d - 1
  <1>0. gap + d \in Nat \ {0}
    OBVIOUS
  <1>1. PICK n \in Nat \ {0} :
            n * d < gap + d + n /\ gap + d - d <= (n - 1) * limit
    <2> DEFINE G == gap + d
    <2>1. G \in Nat \ {0} /\ d \in Smoothed(G, limit)
      BY <1>0
    <2> HIDE DEF G
    <2>2. \E n \in Nat \ {0} : n * d < G + n /\ G - d <= (n - 1) * limit
      BY <2>1, SmoothedSteps
    <2> QED BY <2>2 DEF G
  <1>2. PICK m \in Nat \ {0} :
            after * (m - 1) < gap /\ e \in Nat /\ gap < m * e + m
    BY SmoothedSteps
  <1>3. n - 1 \in Nat /\ m - 1 \in Nat
    OBVIOUS
  <1>4. m <= n - 1
    <2>1. SUFFICES ASSUME n - 1 <= m - 1 PROVE FALSE
      BY <1>3
    <2>2. (n - 1) * limit <= (n - 1) * after
      BY <1>3, ProductOrder
    <2>3. after * (n - 1) <= after * (m - 1)
      BY <1>3, <2>1, ProductOrder
    <2>4. (n - 1) * after = after * (n - 1)
      BY <1>3
    <2>5. (n - 1) * limit \in Nat /\ (n - 1) * after \in Nat /\ after * (m - 1) \in Nat
      BY <1>3, ProductOfNats
    <2>6. gap <= (n - 1) * limit
      BY <1>1, <2>5
    <2> QED BY <1>2, <2>2, <2>3, <2>4, <2>5, <2>6
  <1>5. SUFFICES ASSUME e + 1 <= d - 1 PROVE FALSE
    BY <1>2
  <1>6. m * (e + 1) <= m * (d - 1) /\ m * (e + 1) = m * e + m
    BY <1>2, <1>5, ProductOrder
  <1>7. (d - 1) * m <= (d - 1) * (n - 1) /\ (d - 1) * m = m * (d - 1)
    BY <1>3, <1>4, ProductOrder
  <1>8. (d - 1) * (n - 1) = n * d - n - d + 1 /\ n * d \in Nat
    BY <1>3, ProductOfNats
  <1>9. m * e \in Nat /\ m * (d - 1) \in Nat
    BY <1>2, ProductOfNats
  <1>10. n * d - n - d + 1 <= gap
    BY <1>1, <1>8
  <1> QED BY <1>2, <1>6, <1>7, <1>8, <1>9, <1>10

\* A step that brings no output leaves the next stop where it was.
LEMMA StopStays ==
    ASSUME IInv, IInv', ExecuteStep, error' = 0, Separated(tp), ~par.embedded,
           \A s \in Stream : ~out'[s], t' < par.tstop
    PROVE  t' < tnext /\ tnext' = tnext
  <1>1. /\ pc = "step" /\ pc' = "out" /\ error = 0 /\ tp' = tp /\ par' = par
        /\ t <= t' /\ OutputTimesUpdate(tp, out, t')
        /\ t \in Nat /\ t' \in Nat /\ Tol \in Nat /\ par.tstop \in Nat
        /\ tp \in [Stream -> Seq(Nat)]
    BY ClockMoves, ClockTypes
  <1>2. \A s \in Stream : it'[s] = it[s]
    BY <1>1 DEF OutputTimesUpdate, Advance
  <1>3. /\ \A s \in Stream : \A i \in 1..Len(tp[s]) : i <= it[s] <=> tp[s][i] <= t + Tol
        /\ \A s \in Stream : \A i \in 1..Len(tp[s]) : i <= it'[s] <=> tp[s][i] <= t' + Tol
    <2>1. Separated(tp')
      BY <1>1
    <2>2. NoOutputLost'
      BY DEF IInv
    <2>3. \A s \in Stream : \A i \in 1..Len(tp'[s]) : i <= it'[s] <=> tp'[s][i] <= t' + Tol
      BY <1>1, <2>1, <2>2 DEF NoOutputLost, Separated
    <2>4. \A s \in Stream : \A i \in 1..Len(tp[s]) : i <= it[s] <=> tp[s][i] <= t + Tol
      BY <1>1 DEF IInv, NoOutputLost
    <2> QED BY <1>1, <2>3, <2>4
  <1>4. \A s \in Stream : \A i \in 1..Len(tp[s]) :
            tp[s][i] \in Nat /\ (tp[s][i] > t + Tol <=> tp[s][i] > t' + Tol)
    <2> TAKE s \in Stream
    <2> TAKE i \in 1..Len(tp[s])
    <2>1. tp[s][i] \in Nat
      BY <1>1
    <2>2. tp[s][i] <= t + Tol <=> tp[s][i] <= t' + Tol
      BY <1>2, <1>3
    <2> QED BY <1>1, <2>1, <2>2
  <1>5. Ahead(tp, t) = Ahead(tp, t')
    <2> DEFINE times == UNION {{tp[s][i] : i \in 1..Len(tp[s])} : s \in Stream}
    <2>1. ASSUME NEW x \in times
          PROVE  x > t + Tol <=> x > t' + Tol
      <3>1. PICK s \in Stream : x \in {tp[s][i] : i \in 1..Len(tp[s])}
        OBVIOUS
      <3>2. PICK i \in 1..Len(tp[s]) : x = tp[s][i]
        BY <3>1
      <3> QED BY <1>4, <3>2
    <2>2. Ahead(tp, t) = {x \in times : x > t + Tol} /\ Ahead(tp, t') = {x \in times : x > t' + Tol}
      BY DEF Ahead
    <2> HIDE DEF times
    <2> QED BY <2>1, <2>2
  <1>6. tnext = NextStop(tp, t) /\ tnext' = NextStop(tp, t')
    <2>1. tnext = NextStop(tp, t)
      BY <1>1 DEF IInv
    <2> QED BY <1>1, <2>1 DEF OutputTimesUpdate
  <1>7. NextStop(tp, t) = NextStop(tp, t')
    BY <1>5 DEF NextStop
  <1>8. t' < NextStop(tp, t')
    BY <1>1, NextStopIsNext
  <1> QED BY <1>6, <1>7, <1>8

\* Away from output times the last step is one of the equal steps that reach
\* the next stop.
Approach ==
    (/\ pc \in {"out", "step"} /\ 0 < t /\ t < par.tstop
     /\ ~par.embedded /\ error = 0 /\ Separated(tp) /\ \A s \in Stream : ~out[s]) =>
        /\ cfl \in CflSteps /\ t < tnext /\ dt > 0
        /\ dt \in Smoothed(tnext - t + dt, cfl)

LEMMA StepKeepsApproach ==
    ASSUME IInv, IInv', ExecuteStep
    PROVE  Approach'
  <1>1. /\ pc = "step" /\ pc' = "out" /\ par' = par /\ t' = t + dt' /\ dt' \in Nat
        /\ t \in Nat /\ tnext \in Nat
        /\ error' = 0 => tp' = tp
        /\ ~par.embedded => t < t'
    BY ClockMoves, ClockTypes
  <1> SUFFICES ASSUME t' < par.tstop, ~par.embedded, error' = 0, Separated(tp'),
                      \A s \in Stream : ~out'[s]
               PROVE  /\ cfl' \in CflSteps /\ t' < tnext' /\ dt' > 0
                      /\ dt' \in Smoothed(tnext' - t' + dt', cfl')
    BY <1>1 DEF Approach, Separated
  <1>2. t' < tnext /\ tnext' = tnext
    BY <1>1, StopStays
  <1>3. PICK limit \in CflSteps : \E chosen \in DtChoices(limit) : \E step \in Nat :
            StepTaken(limit, chosen, step)
    BY SomeStepTaken
  <1>4. PICK chosen \in DtChoices(limit) : \E step \in Nat : StepTaken(limit, chosen, step)
    BY <1>3
  <1>5. PICK step \in Nat : StepTaken(limit, chosen, step)
    BY <1>4
  <1>6. limit \in Nat \ {0} /\ cfl' = limit
    BY <1>5, StepsAssumption DEF StepTaken
  <1>7. dt' = chosen /\ t + chosen < tnext /\ chosen \in Nat
    BY <1>1, <1>2, <1>5 DEF StepTaken
  <1>8. chosen \in Smoothed(tnext - t, limit)
    BY <1>1, <1>6, <1>7 DEF DtChoices
  <1>9. tnext' - t' + dt' = tnext - t
    BY <1>1, <1>2, <1>7
  <1> QED BY <1>1, <1>2, <1>6, <1>7, <1>8, <1>9

LEMMA NextApproach == IInv /\ IInv' /\ Approach /\ [Next]_vars => Approach'
  <1> SUFFICES ASSUME IInv, IInv', Approach, [Next]_vars PROVE Approach'
    OBVIOUS
  <1>1. CASE FirstOutput
    <2>1. t' = 0
      BY <1>1 DEF FirstOutput, IInv
    <2> QED BY <2>1 DEF Approach
  <1>2. CASE ExecuteStep
    BY <1>2, StepKeepsApproach
  <1>3. CASE OutputExt
    BY <1>3 DEF OutputExt, Approach, Separated, Smoothed
  <1>4. CASE Final
    BY <1>4 DEF Final, Approach
  <1>5. CASE UNCHANGED vars
    BY <1>5 DEF vars, Approach, Separated, Smoothed
  <1> QED BY <1>1, <1>2, <1>3, <1>4, <1>5 DEF Next

SmoothStep ==
    (pc = "step" /\ pc' = "out") =>
        /\ dt' <= cfl'
        /\ (t > 0 /\ ~par.embedded /\ cfl' >= cfl /\ Separated(tp) /\ \A s \in Stream : ~out[s])
             => dt' >= dt - 1

LEMMA StepIsSmooth == IInv /\ Approach /\ [Next]_vars => [SmoothStep]_vars
  <1> SUFFICES ASSUME IInv, Approach, ExecuteStep PROVE SmoothStep
    BY DEF Next, FirstOutput, OutputExt, Final, SmoothStep, vars
  <1>1. PICK limit \in CflSteps : \E chosen \in DtChoices(limit) : \E step \in Nat :
            StepTaken(limit, chosen, step)
    BY SomeStepTaken
  <1>2. PICK chosen \in DtChoices(limit) : \E step \in Nat : StepTaken(limit, chosen, step)
    BY <1>1
  <1>3. PICK step \in Nat : StepTaken(limit, chosen, step)
    BY <1>2
  <1>4. /\ limit \in Nat \ {0} /\ cfl' = limit
        /\ t \in Nat /\ tnext \in Nat /\ t <= tnext /\ dt \in Nat
    BY <1>3, ClockTypes, StepsAssumption DEF StepTaken
  <1>5. chosen \in Nat \ {0} /\ chosen <= limit
    <2>1. chosen \in Nat \ {0}
      BY <1>4, ChosenIsStep
    <2>2. \/ chosen = limit
          \/ tnext - t \in Nat \ {0} /\ chosen \in Smoothed(tnext - t, limit)
      BY <1>4 DEF DtChoices
    <2> QED BY <1>4, <2>1, <2>2, SmoothedBelowLimit
  <1>6. dt' <= cfl'
    BY <1>3, <1>4, <1>5 DEF StepTaken
  <1>7. ASSUME t > 0, ~par.embedded, cfl' >= cfl, Separated(tp), \A s \in Stream : ~out[s]
        PROVE  dt' >= dt - 1
    <2>1. pc = "step" /\ error = 0 /\ t < par.tstop
      BY <1>7, ClockMoves
    <2>2. cfl \in CflSteps /\ t < tnext /\ dt > 0 /\ dt \in Smoothed(tnext - t + dt, cfl)
      BY <1>7, <2>1 DEF Approach
    <2> DEFINE gap == tnext - t
    <2>3. gap \in Nat \ {0} /\ dt \in Nat \ {0} /\ cfl \in Nat \ {0} /\ cfl <= limit
      BY <1>4, <1>7, <2>2, StepsAssumption
    <2>4. dt \in Smoothed(gap + dt, cfl)
      BY <2>2
    <2>5. chosen \in Smoothed(gap, limit)
      BY <1>4, <1>7, <2>2 DEF DtChoices
    <2> HIDE DEF gap
    <2>6. chosen >= dt - 1
      BY <1>4, <2>3, <2>4, <2>5, SmoothedAgain
    <2>7. gap >= dt - 1
      <3>1. gap + dt \in Nat \ {0}
        BY <2>3
      <3> DEFINE G == gap + dt
      <3>2. G \in Nat \ {0} /\ dt \in Smoothed(G, cfl)
        BY <2>4, <3>1
      <3> HIDE DEF G
      <3>3. PICK n \in Nat \ {0} :
                n * dt < G + n /\ G - dt <= (n - 1) * cfl
        BY <2>3, <3>2, SmoothedSteps
      <3>4. n - 1 \in Nat /\ n - 1 # 0
        <4>1. SUFFICES ASSUME n = 1 PROVE FALSE
          OBVIOUS
        <4>2. (n - 1) * cfl = 0
          BY <2>3, <4>1
        <4> QED BY <2>3, <3>3, <4>2 DEF G
      <3>5. 2 * dt - 2 < gap + dt
        <4>1. (dt - 1) * 2 <= (dt - 1) * n
          <5>1. dt - 1 \in Nat /\ 2 <= n
            BY <2>3, <3>4
          <5> QED BY <5>1, ProductOrder
        <4>2. (dt - 1) * n = n * dt - n /\ n * dt \in Nat
          BY <2>3, ProductOfNats
        <4> QED BY <2>3, <3>3, <4>1, <4>2 DEF G
      <3> QED BY <2>3, <3>5
    <2>8. dt' = IF t + step >= tnext THEN gap ELSE step
      BY <1>3 DEF StepTaken, gap
    <2>9. step = chosen
      BY <1>3, <1>7 DEF StepTaken
    <2> QED BY <1>5, <2>3, <2>6, <2>7, <2>8, <2>9
  <1> QED BY <1>6, <1>7 DEF SmoothStep

\* For every choice of Courant limits and output times a step obeys the limit,
\* and the approach of an output time shortens no step of program xbeach by
\* more than the rounding (compute_dt).
THEOREM StepsStaySmooth == Spec => StepsSmooth
  <1>1. Init => Approach
    BY DEF Init, Approach
  <1>2. Spec => []Approach
    BY <1>1, NextApproach, Invariant, PTL DEF Spec
  <1>3. Spec => [][SmoothStep]_vars
    BY <1>2, StepIsSmooth, Invariant, PTL DEF Spec
  <1> QED BY <1>3 DEF StepsSmooth, SmoothStep
-----------------------------------------------------------------------------
(* Time averages *)

LEMMA MeanIsClock == MeanSpec => Spec
  <1>1. MeanInit => Init
    BY DEF MeanInit
  <1>2. [MeanNext]_<<vars, meanVars>> => [Next]_vars
    BY DEF MeanNext, MeanFirstOutput, MeanStep, MeanOutputExt, MeanFinal, Next
  <1> QED BY <1>1, <1>2, PTL DEF MeanSpec, Spec

LEMMA MeanClockInvariant == MeanSpec => []IInv
  BY MeanIsClock, Invariant, PTL

\* The periods that end at the first j mean times have been written, and the
\* sum has run since the last of them was served, or since the first of all.
Periods(m, j, now) ==
    /\ Len(means) = IF j > 0 THEN j - 1 ELSE 0
    /\ \A k \in 1..Len(means) : k < Len(m) => Dist(means[k].sum, m[k + 1] - m[k]) <= Tol
    /\ j < Len(m) => IF j = 0 \/ now <= m[1] THEN acc = 0
                                             ELSE now - acc \in (m[j] - Tol)..m[j]

\* Between a step and its output the step still has to be added.
AtStep(m, j) ==
    /\ 0 < dt /\ dt <= t
    /\ Periods(m, j, t - dt)
    /\ \A k \in 1..Len(m) : k <= j <=> m[k] <= t - dt + Tol
    /\ j < Len(m) => t <= m[j + 1]
    /\ out["m"] /\ j < Len(m) => m[j + 1] <= t + Tol

MeanInv ==
    (~par.embedded /\ error = 0 /\ Separated(tp)) =>
        IF pc = "out" THEN AtStep(tp["m"], Served("m")) ELSE Periods(tp["m"], it["m"], t)

LEMMA InitMeanInv == MeanInit => MeanInv
  <1> SUFFICES ASSUME MeanInit PROVE MeanInv
    OBVIOUS
  <1>1. it["m"] = 0 /\ pc = "init"
    BY DEF MeanInit, Init, Stream, Timed
  <1>2. Periods(tp["m"], 0, t)
    BY DEF MeanInit, Periods
  <1> QED BY <1>1, <1>2 DEF MeanInv

\* Where the sum starts, after the step is added: at the mean time served last.
LEMMA SumStart ==
    ASSUME NEW m \in Seq(Nat), NEW j \in Nat, AtStep(m, j), t \in Nat, dt \in Nat, acc \in Nat,
           Tol \in Nat, 0 < j, j < Len(m), tp["m"] = m, Apart(m)
    PROVE  /\ t <= m[1] => ~out["m"] /\ Accumulated(acc) = 0
           /\ t > m[1] => /\ Accumulated(acc) = acc + dt
                          /\ t - (acc + dt) \in (m[j] - Tol)..m[j]
  <1> DEFINE L == Len(m)
             P == t - dt
  <1>1. L \in Nat /\ 1 \in 1..L /\ 2 \in 1..L /\ j \in 1..L /\ j + 1 \in 1..L /\ L \in 1..L
    OBVIOUS
  <1>2. P \in Nat /\ P < t
    BY DEF AtStep
  <1>3. /\ \A k \in 1..L : k <= j <=> m[k] <= P + Tol
        /\ t <= m[j + 1]
        /\ out["m"] => m[j + 1] <= t + Tol
        /\ IF P <= m[1] THEN acc = 0 ELSE P - acc \in (m[j] - Tol)..m[j]
    BY DEF AtStep, Periods
  <1>4. \A k \in 1..L : m[k] \in Nat
    OBVIOUS
  <1>5. Accumulated(acc) = IF L > 0 /\ t > m[1] /\ t <= m[L] THEN acc + dt ELSE acc
    BY DEF Accumulated, Averaging
  <1>6. P - acc = t - (acc + dt)
    OBVIOUS
  <1>7. \A a, b \in 1..L : a < b => m[b] > m[a] + Tol
    BY DEF Apart
  <1> DEFINE first == m[1]
             second == m[2]
             here == m[j]
             there == m[j + 1]
             last == m[L]
  <1> HIDE DEF L, P
  <1>8. first \in Nat /\ second \in Nat /\ here \in Nat /\ there \in Nat /\ last \in Nat
    BY <1>1, <1>4
  <1>9. /\ first + Tol < second /\ (2 < j => second + Tol < here)
        /\ (j + 1 < L => there + Tol < last)
        /\ (j = 2 => second = here) /\ (j + 1 = L => there = last)
        /\ (j = 1 => first = here /\ second = there)
    BY <1>1, <1>7
  <1>10. here <= P + Tol /\ t <= there /\ (out["m"] => there <= t + Tol)
         /\ IF P <= first THEN acc = 0 ELSE P - acc \in (here - Tol)..here
    BY <1>1, <1>3
  <1>11. Accumulated(acc) = IF t > first /\ t <= last THEN acc + dt ELSE acc
    BY <1>1, <1>5
  <1> HIDE DEF first, second, here, there, last
  <1>12. P <= first => j = 1
    <2>1. j = 1 \/ j = 2 \/ 2 < j
      BY <1>1
    <2>2. j # 1 => second <= here
      BY <1>8, <1>9, <2>1
    <2> QED BY <1>2, <1>8, <1>9, <1>10, <2>2
  <1>13. ASSUME t <= first
         PROVE  ~out["m"] /\ Accumulated(acc) = 0
    <2>1. P <= first /\ ~(t > first)
      BY <1>2, <1>8, <1>13
    <2>2. j = 1 /\ acc = 0
      BY <1>10, <1>12, <2>1
    <2>3. ~(there <= t + Tol)
      BY <1>8, <1>9, <1>13, <2>2
    <2> QED BY <1>10, <1>11, <2>1, <2>2, <2>3
  <1>14. ASSUME t > first
         PROVE  /\ Accumulated(acc) = acc + dt
                /\ P - acc \in (here - Tol)..here
    <2>1. t <= last
      <3>1. j + 1 = L \/ j + 1 < L
        BY <1>1
      <3>2. there <= last
        BY <1>8, <1>9, <3>1
      <3> QED BY <1>8, <1>10, <3>2
    <2>2. Accumulated(acc) = acc + dt
      BY <1>11, <1>14, <2>1
    <2>3. CASE P <= first
      <3>1. acc = 0 /\ here = first
        BY <1>9, <1>10, <1>12, <2>3
      <3>2. P - acc = P /\ P \in (here - Tol)..here
        BY <1>2, <1>8, <1>10, <2>3, <3>1
      <3> QED BY <2>2, <3>2
    <2>4. CASE ~(P <= first)
      BY <1>10, <2>2, <2>4
    <2> QED BY <2>3, <2>4
  <1> QED BY <1>6, <1>13, <1>14 DEF first, here

\* The output of the mean times: add the step, write and clear when due.
LEMMA PeriodGrows ==
    ASSUME NEW m \in Seq(Nat), NEW j \in Nat, AtStep(m, j), tp["m"] = m, t \in Nat, dt \in Nat,
           acc \in Nat, Tol \in Nat, means \in Seq([sum : 0..t, period : Int]),
           NEW i \in Nat, i = it["m"], out["m"] => i = j + 1, ~out["m"] => i = j,
           Average(out, it), Apart(m)
    PROVE  /\ Len(means') = IF i > 0 THEN i - 1 ELSE 0
           /\ \A k \in 1..Len(means') :
                  k < Len(m) => Dist(means'[k].sum, m[k + 1] - m[k]) <= Tol
           /\ i < Len(m) => IF i = 0 \/ t <= m[1] THEN acc' = 0
                                                  ELSE t - acc' \in (m[i] - Tol)..m[i]
  <1> DEFINE L == Len(m)
             due == out["m"] /\ i > 1
             sum == Accumulated(acc)
             r == [sum |-> sum, period |-> tintm]
  <1>1. L \in Nat /\ \A k \in 1..L : m[k] \in Nat
    OBVIOUS
  <1>2. /\ 0 < dt /\ dt <= t
        /\ \A k \in 1..L : k <= j <=> m[k] <= t - dt + Tol
        /\ j < L => t <= m[j + 1]
        /\ out["m"] /\ j < L => m[j + 1] <= t + Tol
    BY DEF AtStep
  <1>3. /\ Len(means) = IF j > 0 THEN j - 1 ELSE 0
        /\ \A k \in 1..Len(means) : k < L => Dist(means[k].sum, m[k + 1] - m[k]) <= Tol
        /\ j < L /\ j = 0 => acc = 0
    BY DEF AtStep, Periods
  <1>4. "m" \in Records(out, it) <=> due
    BY DEF Records, Timed
  <1>5. /\ acc' = IF due THEN 0 ELSE sum
        /\ means' = IF due THEN Append(means, r) ELSE means
    BY <1>4 DEF Average
  <1>6. r.sum = sum
    OBVIOUS
  <1>7. /\ 0 < j /\ j < L /\ t <= m[1] => ~out["m"] /\ sum = 0
        /\ 0 < j /\ j < L /\ t > m[1] => /\ sum = acc + dt
                                         /\ t - sum \in (m[j] - Tol)..m[j]
    BY SumStart
  <1>8. (L > 0 /\ t <= m[1] => sum = acc) /\ (sum = acc \/ sum = acc + dt)
    <2>1. sum = IF L > 0 /\ t > m[1] /\ t <= m[L] THEN acc + dt ELSE acc
      BY DEF Accumulated, Averaging
    <2>2. L > 0 => m[1] \in Nat
      BY <1>1
    <2> HIDE DEF sum, L
    <2> QED BY <2>1, <2>2
  <1>9. sum \in Nat
    <2> HIDE DEF sum
    <2> QED BY <1>8
  <1> HIDE DEF due, sum, L, r
  <1>10. due <=> out["m"] /\ j > 0
    BY DEF due
  <1>11. due /\ j < L => Dist(sum, m[j + 1] - m[j]) <= Tol
    <2> SUFFICES ASSUME due, j < L PROVE Dist(sum, m[j + 1] - m[j]) <= Tol
      OBVIOUS
    <2>1. j \in 1..L /\ j + 1 \in 1..L /\ 1 \in 1..L
      BY <1>1, <1>10
    <2>2. m[j] \in Nat /\ m[j + 1] \in Nat /\ m[1] \in Nat
      BY <1>1, <2>1
    <2> DEFINE here == m[j]
               there == m[j + 1]
    <2>3. t - sum \in (here - Tol)..here /\ t <= there /\ there <= t + Tol
      BY <1>2, <1>7, <1>10, <2>2
    <2>4. here \in Nat /\ there \in Nat
      BY <2>2
    <2> HIDE DEF here, there
    <2>5. Dist(sum, there - here) <= Tol
      BY <1>9, <2>3, <2>4 DEF Dist
    <2> QED BY <2>5 DEF here, there
  <1>12. Len(means') = IF i > 0 THEN i - 1 ELSE 0
    <2>1. CASE due
      <3>1. Len(means') = Len(means) + 1 /\ i = j + 1 /\ j > 0
        BY <1>5, <1>10, <2>1
      <3> QED BY <1>3, <3>1
    <2>2. CASE ~due /\ out["m"]
      <3>1. means' = means /\ i = 1 /\ j = 0
        BY <1>5, <1>10, <2>2
      <3> QED BY <1>3, <3>1
    <2>3. CASE ~out["m"]
      BY <1>3, <1>5, <1>10, <2>3
    <2> QED BY <2>1, <2>2, <2>3
  <1>13. ASSUME NEW k \in 1..Len(means'), k < L
         PROVE  Dist(means'[k].sum, m[k + 1] - m[k]) <= Tol
    <2>1. CASE ~due
      BY <1>3, <1>5, <1>13, <2>1
    <2>2. CASE due /\ k \in 1..Len(means)
      <3>1. means'[k] = means[k]
        BY <1>5, <2>2
      <3> QED BY <1>3, <1>13, <2>2, <3>1
    <2>3. CASE due /\ k \notin 1..Len(means)
      <3>1. k = Len(means) + 1 /\ means'[k] = r
        BY <1>5, <2>3
      <3>2. k = j
        BY <1>3, <1>10, <2>3, <3>1
      <3> QED BY <1>6, <1>11, <1>13, <2>3, <3>1, <3>2
    <2> QED BY <2>1, <2>2, <2>3
  <1>14. ASSUME i < L
         PROVE  IF i = 0 \/ t <= m[1] THEN acc' = 0 ELSE t - acc' \in (m[i] - Tol)..m[i]
    <2>1. j < L /\ L > 0 /\ m[1] \in Nat
      BY <1>1, <1>14
    <2>2. CASE j = 0
      <3>1. t <= m[1] /\ sum = 0
        BY <1>2, <1>3, <1>8, <2>1, <2>2
      <3>2. acc' = 0
        BY <1>5, <3>1
      <3> QED BY <3>1, <3>2
    <2>3. CASE j > 0 /\ t <= m[1]
      <3>1. acc' = 0
        BY <1>5, <1>7, <2>1, <2>3
      <3> QED BY <2>3, <3>1
    <2>4. CASE j > 0 /\ t > m[1] /\ out["m"]
      <3>1. i = j + 1 /\ due /\ i \in 1..L
        BY <1>1, <1>10, <1>14, <2>4
      <3>2. acc' = 0 /\ m[i] \in Nat /\ t <= m[i] /\ m[i] <= t + Tol
        BY <1>1, <1>2, <1>5, <2>1, <2>4, <3>1
      <3>3. t - acc' \in (m[i] - Tol)..m[i]
        BY <3>2
      <3> QED BY <2>1, <2>4, <3>1, <3>3
    <2>5. CASE j > 0 /\ t > m[1] /\ ~out["m"]
      <3>1. i = j /\ acc' = sum
        BY <1>5, <1>10, <2>5
      <3>2. t - sum \in (m[j] - Tol)..m[j]
        BY <1>7, <2>1, <2>5
      <3> QED BY <2>1, <2>5, <3>1, <3>2
    <2> QED BY <2>1, <2>2, <2>3, <2>4, <2>5
  <1> QED BY <1>12, <1>13, <1>14 DEF L

\* The sums stay within the time that has passed, the step not yet added
\* included.
MeanTypes ==
    /\ MeanTypeOK
    /\ pc = "out" => acc + dt <= t

LEMMA OlderSums ==
    ASSUME NEW a \in Nat, NEW b \in Nat, a <= b, NEW r \in Seq([sum : 0..a, period : Int])
    PROVE  r \in Seq([sum : 0..b, period : Int])
  <1>1. [sum : 0..a, period : Int] \subseteq [sum : 0..b, period : Int]
    OBVIOUS
  <1> DEFINE A == [sum : 0..a, period : Int]
             B == [sum : 0..b, period : Int]
  <1>2. r \in Seq(A) /\ A \subseteq B
    BY <1>1
  <1> HIDE DEF A, B
  <1>3. r \in Seq(B)
    BY <1>2
  <1> QED BY <1>3 DEF B

LEMMA AverageTypes ==
    ASSUME IInv, MeanTypeOK, NEW reached, NEW index \in [Stream -> Nat], Average(reached, index),
           Averaging => acc + dt <= t, t' = t
    PROVE  MeanTypeOK'
  <1> DEFINE sum == Accumulated(acc)
             due == "m" \in Records(reached, index)
             T == [sum : 0..t, period : Int]
  <1>1. /\ acc' = IF due THEN 0 ELSE sum
        /\ means' = IF due THEN Append(means, [sum |-> sum, period |-> tintm]) ELSE means
        /\ tintm' \in IF due THEN PeriodsAfter(index["m"]) ELSE {tintm}
    BY DEF Average
  <1>2. t \in Nat /\ dt \in Nat /\ acc \in 0..t /\ tintm \in Int /\ means \in Seq(T)
    BY ClockTypes DEF MeanTypeOK
  <1>3. sum \in 0..t
    BY <1>2 DEF Accumulated
  <1>4. due => index["m"] \in Nat /\ index["m"] > 1
    BY DEF Records, Stream, Timed
  <1> HIDE DEF sum, due
  <1>5. due => PeriodsAfter(index["m"]) \subseteq Int
    <2> SUFFICES ASSUME due PROVE PeriodsAfter(index["m"]) \subseteq Int
      OBVIOUS
    <2> DEFINE m == tp["m"]
               i == index["m"]
    <2>1. m \in Seq(Nat)
      BY ClockTypes DEF Stream, Timed
    <2>2. i \in Nat /\ i > 1
      BY <1>4
    <2>3. NextPeriods(i) =
             IF i <= Len(m) THEN {m[IF i + 1 <= Len(m) THEN i + 1 ELSE i] - m[i]}
                            ELSE {0, Unset}
      <3>1. i - 1 + 1 = i /\ i - 1 + 2 = i + 1
        BY <2>2
      <3> HIDE DEF i
      <3> QED BY <3>1 DEF NextPeriods
    <2> HIDE DEF m, i
    <2>4. \A k \in 1..Len(m) : m[k] \in Nat
      BY <2>1
    <2>5. i <= Len(m) => /\ i \in 1..Len(m)
                         /\ (IF i + 1 <= Len(m) THEN i + 1 ELSE i) \in 1..Len(m)
      BY <2>1, <2>2
    <2>6. NextPeriods(i) \subseteq Int
      BY <2>3, <2>4, <2>5 DEF Unset
    <2>7. PeriodsAfter(i) \subseteq Int
      BY <1>2, <2>6 DEF PeriodsAfter
    <2> QED BY <2>7 DEF i
  <1>6. tintm' \in Int
    BY <1>1, <1>2, <1>5
  <1>7. acc' \in 0..t
    BY <1>1, <1>2, <1>3
  <1>8. means' \in Seq(T)
    <2>1. [sum |-> sum, period |-> tintm] \in T
      BY <1>2, <1>3
    <2> HIDE DEF T
    <2> QED BY <1>1, <1>2, <2>1
  <1> QED BY <1>6, <1>7, <1>8 DEF MeanTypeOK

LEMMA StepKeepsMeanTypes ==
    ASSUME IInv, MeanTypes, MeanStep
    PROVE  MeanTypes'
  <1>0. dt' \in Nat /\ t \in Nat /\ t' \in Nat /\ t <= t' /\ t + dt' <= t'
    BY ClockMoves, ClockTypes DEF MeanStep
  <1>1. acc' = acc /\ means' = means /\ tintm' = tintm
    BY DEF MeanStep, meanVars
  <1>2. acc \in 0..t /\ tintm \in Int /\ means \in Seq([sum : 0..t, period : Int])
    BY DEF MeanTypes, MeanTypeOK
  <1>3. means' \in Seq([sum : 0..t', period : Int])
    <2>1. means \in Seq([sum : 0..t', period : Int])
      BY <1>0, <1>2, OlderSums
    <2> QED BY <1>1, <2>1
  <1>4. acc' \in 0..t' /\ tintm' \in Int /\ acc' + dt' <= t'
    <2>1. acc \in Int /\ 0 <= acc /\ acc <= t
      BY <1>0, <1>2
    <2>2. acc' \in Int /\ 0 <= acc' /\ acc' <= t
      BY <1>1, <2>1
    <2>3. acc' \in 0..t'
      BY <1>0, <2>2
    <2>4. \A a, b, c, d \in Int : a <= b /\ b + d <= c => a + d <= c
      OBVIOUS
    <2>5. t \in Int /\ t' \in Int /\ dt' \in Int
      BY <1>0
    <2>6. acc' + dt' <= t'
      BY <1>0, <2>2, <2>4, <2>5, Zenon
    <2> QED BY <1>1, <1>2, <2>3, <2>6
  <1> QED BY <1>3, <1>4 DEF MeanTypes, MeanTypeOK

LEMMA NextMeanTypes ==
    IInv /\ MeanTypes /\ [MeanNext]_<<vars, meanVars>> => MeanTypes'
  <1> SUFFICES ASSUME IInv, MeanTypes, [MeanNext]_<<vars, meanVars>> PROVE MeanTypes'
    OBVIOUS
  <1>1. CASE MeanFirstOutput
    <2>1. t = 0 /\ t' = t /\ pc' = "step" /\ tp["m"] \in Seq(Nat) /\ Average(out', it')
          /\ OutputTimesUpdate(tp, out, t)
      BY <1>1, ClockTypes DEF MeanFirstOutput, FirstOutput, IInv, Stream, Timed
    <2>2. ~Averaging
      <3> DEFINE m == tp["m"]
      <3>1. Len(m) > 0 => m[1] \in Nat
        BY <2>1
      <3> HIDE DEF m
      <3> QED BY <2>1, <3>1 DEF Averaging, m
    <2>3. it' \in [Stream -> Nat]
      BY <2>1, ClockTypes DEF OutputTimesUpdate, Advance
    <2>4. MeanTypeOK'
      BY <2>1, <2>2, <2>3, AverageTypes DEF MeanTypes
    <2> QED BY <2>1, <2>4 DEF MeanTypes
  <1>2. CASE MeanStep
    BY <1>2, StepKeepsMeanTypes
  <1>3. CASE MeanOutputExt
    <2>1. pc = "out" /\ pc' # "out" /\ t' = t /\ Average(out, it)
      BY <1>3 DEF MeanOutputExt, OutputExt
    <2>2. MeanTypeOK'
      BY <2>1, ClockTypes, AverageTypes DEF MeanTypes
    <2> QED BY <2>1, <2>2 DEF MeanTypes
  <1>4. CASE MeanFinal
    BY <1>4 DEF MeanFinal, Final, meanVars, MeanTypes, MeanTypeOK
  <1>5. CASE UNCHANGED <<vars, meanVars>>
    BY <1>5 DEF vars, meanVars, MeanTypes, MeanTypeOK
  <1> QED BY <1>1, <1>2, <1>3, <1>4, <1>5 DEF MeanNext

LEMMA MeanTypesInvariant == MeanSpec => []MeanTypes
  <1>1. MeanInit => MeanTypes
    <2> SUFFICES ASSUME MeanInit PROVE MeanTypes
      OBVIOUS
    <2>1. tintm \in Int
      <3>1. par.tint["m"] \in Nat
        BY ParsAssumption DEF MeanInit, Init, Timed
      <3> QED BY <3>1 DEF MeanInit, InitialPeriod, Unset
    <2> QED BY <2>1 DEF MeanInit, Init, MeanTypes, MeanTypeOK
  <1> QED BY <1>1, NextMeanTypes, MeanClockInvariant, PTL DEF MeanSpec

\* Whatever times a file lists and whatever steps a driver asks for, the sums of
\* makeaverage never exceed the time that has passed, nor does what is written.
THEOREM SumsWithinTime == MeanSpec => []MeanTypeOK
  <1>1. MeanTypes => MeanTypeOK
    BY DEF MeanTypes
  <1> QED BY <1>1, MeanTypesInvariant, PTL

\* The mean times and the counter, in the terms of the proofs below.
LEMMA MeanTimes ==
    ASSUME IInv
    PROVE  /\ "m" \in Stream /\ "m" \in Timed
           /\ tp["m"] \in Seq(Nat) /\ it["m"] \in Nat /\ out["m"] \in BOOLEAN
           /\ par.tint["m"] \in Nat \ {0}
  <1>1. "m" \in Stream /\ "m" \in Timed
    BY DEF Stream, Timed
  <1>2. tp["m"] \in Seq(Nat) /\ it["m"] \in Nat
    BY <1>1, ClockTypes
  <1>3. out["m"] \in BOOLEAN
    BY <1>1, ClockTypes, Zenon
  <1>4. par.tint["m"] \in Nat \ {0}
    BY <1>1, ClockTypes, ParsAssumption
  <1> QED BY <1>1, <1>2, <1>3, <1>4

LEMMA FirstOutputKeepsMeans ==
    ASSUME IInv, MeanInv, MeanFirstOutput
    PROVE  MeanInv'
  <1> DEFINE m == tp["m"]
  <1>1. /\ pc = "init" /\ pc' = "step" /\ OutputTimesUpdate(tp, out, t)
        /\ tp' = tp /\ t' = t /\ par' = par /\ error' = error /\ Average(out', it')
    BY DEF MeanFirstOutput, FirstOutput
  <1>2. t = 0 /\ error = 0 /\ it["m"] = 0
    BY <1>1, MeanTimes DEF IInv
  <1> SUFFICES ASSUME ~par.embedded, Separated(tp)
               PROVE  Periods(m, it["m"], t)'
    BY <1>1 DEF MeanInv, Separated
  <1>3. m \in Seq(Nat) /\ Periods(m, 0, 0)
    BY <1>1, <1>2, MeanTimes DEF MeanInv
  <1>4. it'["m"] = 0 \/ it'["m"] = 1
    <2>1. it'["m"] = IF out'["m"] THEN it["m"] + 1 ELSE it["m"]
      BY <1>1, MeanTimes DEF OutputTimesUpdate, Advance
    <2> QED BY <1>2, <2>1
  <1>5. "m" \notin Records(out', it')
    BY <1>4 DEF Records
  <1>6. ~Averaging
    <2>1. Len(m) > 0 => m[1] \in Nat
      BY <1>3
    <2> HIDE DEF m
    <2> QED BY <1>2, <2>1 DEF Averaging, m
  <1>7. acc' = acc /\ means' = means
    <2> DEFINE sum == Accumulated(acc)
    <2>1. /\ acc' = IF "m" \in Records(out', it') THEN 0 ELSE sum
          /\ means' = IF "m" \in Records(out', it')
                        THEN Append(means, [sum |-> sum, period |-> tintm]) ELSE means
      BY <1>1 DEF Average
    <2>2. sum = acc
      BY <1>6 DEF Accumulated
    <2> HIDE DEF sum
    <2> QED BY <1>5, <2>1, <2>2
  <1>8. 0 < Len(m) => acc = 0 /\ 0 <= m[1]
    BY <1>3 DEF Periods
  <1>9. Len(means) = 0
    BY <1>3 DEF Periods
  <1> DEFINE i == it'["m"]
  <1>10. m' = m /\ t' = 0 /\ Len(m) \in Nat
    BY <1>1, <1>2, <1>3
  <1> HIDE DEF i, m
  <1>11. /\ Len(means') = IF i > 0 THEN i - 1 ELSE 0
         /\ \A k \in 1..Len(means') : k < Len(m) => Dist(means'[k].sum, m[k + 1] - m[k]) <= Tol
         /\ i < Len(m) => IF i = 0 \/ 0 <= m[1] THEN acc' = 0
                                                ELSE 0 - acc' \in (m[i] - Tol)..m[i]
    BY <1>4, <1>7, <1>8, <1>9, <1>10 DEF i
  <1> QED BY <1>10, <1>11, Zenon DEF Periods, i

LEMMA StepKeepsMeans ==
    ASSUME IInv, RecInv, MeanInv, MeanStep
    PROVE  MeanInv'
  <1> DEFINE m == tp["m"]
             j == it["m"]
  <1>1. /\ pc = "step" /\ pc' = "out" /\ error = 0 /\ par' = par
        /\ t \in Nat /\ t' \in Nat /\ dt' \in Nat /\ tnext \in Nat
        /\ t <= t' /\ t' <= tnext
        /\ ~par.embedded => t < t'
        /\ error' = 0 => tp' = tp /\ OutputTimesUpdate(tp, out, t')
    BY ClockMoves, ClockTypes DEF MeanStep
  <1>2. acc' = acc /\ means' = means
    BY DEF MeanStep, meanVars
  <1>3. t' - dt' = t
    BY ClockMoves, ClockTypes DEF MeanStep
  <1> SUFFICES ASSUME ~par.embedded, error' = 0, Separated(tp)
               PROVE  AtStep(m, Served("m"))'
    BY <1>1 DEF MeanInv, Separated
  <1>4. Periods(m, j, t)
    BY <1>1 DEF MeanInv
  <1>5. m \in Seq(Nat) /\ j \in Nat /\ Len(m) \in Nat
    BY MeanTimes
  <1>6. \A k \in 1..Len(m) : m[k] \in Nat
    BY <1>5
  <1>7. \A k \in 1..Len(m) : k <= j <=> m[k] <= t + Tol
    BY <1>1, MeanTimes DEF IInv, NoOutputLost
  <1>8. \A k \in 1..Len(m) : m[k] > t + Tol => tnext <= m[k]
    <2>1. tnext = NextStop(tp, t)
      BY <1>1 DEF IInv
    <2>2. \A s \in Stream : \A i \in 1..Len(tp[s]) :
              tp[s][i] > t + Tol => NextStop(tp, t) <= tp[s][i]
      <3>1. /\ tp \in [Stream -> Seq(Nat)] /\ t \in Nat /\ par.tstop \in Nat
            /\ t <= par.tstop /\ Tol \in Nat
        BY ClockTypes
      <3> QED BY <3>1, NextStopIsNext
    <2> QED BY MeanTimes, <2>1, <2>2
  <1>9. /\ out'["m"] => Len(m) > 0 /\ it'["m"] = j + 1 /\ Dist(m[NextIndex(m, j)], t') <= Tol
        /\ ~out'["m"] => it'["m"] = j
    BY <1>1, MeanTimes, DueIsNear DEF RecInv
  <1>10. Served("m")' = j
    <2>1. j + 1 - 1 = j
      BY <1>5
    <2>2. Served("m")' = IF out'["m"] THEN it'["m"] - 1 ELSE it'["m"]
      BY <1>1 DEF Served
    <2>3. CASE out'["m"]
      <3>1. Served("m")' = it'["m"] - 1
        BY <2>2, <2>3
      <3>2. it'["m"] = j + 1
        BY <1>9, <2>3
      <3>3. \A b \in Nat : \A a : a = b + 1 => a - 1 = b
        OBVIOUS
      <3>4. it'["m"] - 1 = j
        BY <1>5, <3>2, <3>3, Zenon
      <3> QED BY <3>1, <3>4
    <2>4. CASE ~out'["m"]
      BY <1>9, <2>2, <2>4
    <2> QED BY <2>3, <2>4
  <1> HIDE DEF m, j
  <1>11. j < Len(m) => m[j + 1] \in Nat /\ t' <= m[j + 1]
    <2> HAVE j < Len(m)
    <2> DEFINE there == m[j + 1]
    <2>1. j + 1 \in 1..Len(m) /\ ~(j + 1 <= j)
      BY <1>5
    <2>2. there \in Nat /\ ~(there <= t + Tol) /\ (there > t + Tol => tnext <= there)
      BY <1>6, <1>7, <1>8, <2>1
    <2>3. Tol \in Nat
      BY StepsAssumption
    <2> HIDE DEF there
    <2>4. t' <= there
      BY <1>1, <2>2, <2>3
    <2> QED BY <2>2, <2>4 DEF there
  <1>12. out'["m"] /\ j < Len(m) => m[j + 1] <= t' + Tol
    <2> HAVE out'["m"] /\ j < Len(m)
    <2> DEFINE there == m[j + 1]
    <2>1. NextIndex(m, j) = j + 1
      BY <1>5 DEF NextIndex
    <2>2. Dist(there, t') <= Tol /\ there \in Nat /\ t' <= there
      BY <1>9, <1>11, <2>1
    <2>3. Tol \in Nat
      BY StepsAssumption
    <2> HIDE DEF there
    <2>4. \A a, b, c \in Nat : Dist(a, b) <= c => a <= b + c
      BY DEF Dist
    <2>5. there <= t' + Tol
      BY <1>1, <2>2, <2>3, <2>4, Zenon
    <2> QED BY <2>5 DEF there
  <1>13. 0 < dt' /\ dt' <= t'
    <2>1. t' = t + dt'
      BY ClockMoves DEF MeanStep
    <2>2. \A a, b, c \in Nat : a = b + c /\ b < a => 0 < c /\ c <= a
      OBVIOUS
    <2>3. t < t'
      BY <1>1
    <2> QED BY <1>1, <2>1, <2>2, <2>3, Zenon
  <1>14. m' = m
    BY <1>1 DEF m
  <1>15. Periods(m, Served("m"), t - dt)'
    <2>1. Len(means') = IF j > 0 THEN j - 1 ELSE 0
      BY <1>2, <1>4 DEF Periods
    <2>2. \A k \in 1..Len(means') : k < Len(m) => Dist(means'[k].sum, m[k + 1] - m[k]) <= Tol
      BY <1>2, <1>4, Zenon DEF Periods
    <2>3. j < Len(m) => IF j = 0 \/ t <= m[1] THEN acc' = 0
                                              ELSE t - acc' \in (m[j] - Tol)..m[j]
      BY <1>2, <1>4, Zenon DEF Periods
    <2> QED BY <1>3, <1>10, <1>14, <2>1, <2>2, <2>3, Zenon DEF Periods
  <1>16. \A k \in 1..Len(m) : k <= j <=> m[k] <= t' - dt' + Tol
    BY <1>3, <1>7, Zenon
  <1> QED BY <1>10, <1>11, <1>12, <1>13, <1>14, <1>15, <1>16, Zenon DEF AtStep

LEMMA OutputKeepsMeans ==
    ASSUME IInv, RecInv, MeanTypes, MeanInv, MeanOutputExt
    PROVE  MeanInv'
  <1> DEFINE m == tp["m"]
             j == Served("m")
  <1>1. /\ pc = "out" /\ pc' # "out" /\ Average(out, it)
        /\ tp' = tp /\ t' = t /\ par' = par /\ error' = error /\ it' = it
    BY DEF MeanOutputExt, OutputExt
  <1> SUFFICES ASSUME ~par.embedded, error = 0, Separated(tp)
               PROVE  Periods(m, it["m"], t)'
    BY <1>1 DEF MeanInv, Separated
  <1>2. AtStep(m, j)
    BY <1>1 DEF MeanInv
  <1>3. m \in Seq(Nat) /\ out["m"] \in BOOLEAN /\ t \in Nat /\ dt \in Nat /\ Tol \in Nat
    BY MeanTimes, ClockTypes
  <1>4. Apart(m)
    BY MeanTimes DEF Separated, Apart
  <1> DEFINE i == it["m"]
  <1>5. i \in Nat /\ (out["m"] => i = j + 1) /\ (~out["m"] => i = j) /\ j \in Nat
    <2>1. it["m"] \in Nat
      BY MeanTimes
    <2>2. out["m"] => it["m"] > 0
      BY <1>1, MeanTimes DEF RecInv, StreamFits
    <2> QED BY <1>1, <2>1, <2>2 DEF Served
  <1>6. means \in Seq([sum : 0..t, period : Int]) /\ acc \in Nat
    BY <1>3 DEF MeanTypes, MeanTypeOK
  <1>7. tp["m"] = m /\ i = it["m"]
    OBVIOUS
  <1> HIDE DEF m, j, i
  <1>8. /\ Len(means') = IF i > 0 THEN i - 1 ELSE 0
        /\ \A k \in 1..Len(means') : k < Len(m) => Dist(means'[k].sum, m[k + 1] - m[k]) <= Tol
        /\ i < Len(m) => IF i = 0 \/ t <= m[1] THEN acc' = 0
                                               ELSE t - acc' \in (m[i] - Tol)..m[i]
    BY <1>1, <1>2, <1>3, <1>4, <1>5, <1>6, <1>7, PeriodGrows
  <1>9. m' = m /\ it'["m"] = i
    BY <1>1 DEF m, i
  <1> QED BY <1>1, <1>8, <1>9, Zenon DEF Periods

LEMMA NextMeanInv ==
    IInv /\ RecInv /\ MeanTypes /\ MeanInv /\ [MeanNext]_<<vars, meanVars>> => MeanInv'
  <1> SUFFICES ASSUME IInv, RecInv, MeanTypes, MeanInv,
                      [MeanNext]_<<vars, meanVars>>
               PROVE  MeanInv'
    OBVIOUS
  <1>1. CASE MeanFirstOutput
    BY <1>1, FirstOutputKeepsMeans
  <1>2. CASE MeanStep
    BY <1>2, StepKeepsMeans
  <1>3. CASE MeanOutputExt
    BY <1>3, OutputKeepsMeans
  <1>4. CASE MeanFinal
    <2>1. /\ pc = "step" /\ pc' = "done" /\ acc' = acc /\ means' = means
          /\ tp' = tp /\ t' = t /\ par' = par /\ error' = error /\ it' = it
      BY <1>4 DEF MeanFinal, Final, meanVars
    <2> QED BY <2>1 DEF MeanInv, Separated, Periods
  <1>5. CASE UNCHANGED <<vars, meanVars>>
    <2>1. /\ pc' = pc /\ acc' = acc /\ means' = means /\ dt' = dt /\ out' = out
          /\ tp' = tp /\ t' = t /\ par' = par /\ error' = error /\ it' = it
      BY <1>5 DEF vars, meanVars
    <2> QED BY <2>1 DEF MeanInv, Separated, Periods, AtStep, Served
  <1> QED BY <1>1, <1>2, <1>3, <1>4, <1>5 DEF MeanNext

LEMMA MeanInvariant == MeanSpec => []MeanInv
  <1>1. MeanSpec => []RecInv
    BY MeanIsClock, RecordsInvariant, PTL
  <1> QED BY <1>1, NextMeanInv, InitMeanInv, MeanClockInvariant, MeanTypesInvariant, PTL
         DEF MeanSpec

\* For every list of mean times a run can serve, every choice of steps and every
\* tolerance, each record of the mean output covers its averaging period, all of
\* it and nothing else (makeaverage, clearaverage and the span test of output).
THEOREM MeansCoverPeriods == MeanSpec => []PeriodsCovered
  <1>1. MeanInv => PeriodsCovered
    <2> SUFFICES ASSUME MeanInv, ~par.embedded, error = 0, Separated(tp),
                        NEW k \in 1..Len(means), k < Len(tp["m"])
                 PROVE  Dist(means[k].sum, tp["m"][k + 1] - tp["m"][k]) <= Tol
      BY Zenon DEF PeriodsCovered
    <2>1. AtStep(tp["m"], Served("m")) \/ Periods(tp["m"], it["m"], t)
      BY Zenon DEF MeanInv
    <2> QED BY <2>1, Zenon DEF AtStep, Periods
  <1> QED BY <1>1, MeanInvariant, PTL

\* Without a file the mean times lie one interval apart.
LEMMA EvenTimes ==
    ASSUME NEW c \in Pars, c.file["m"] = <<>>, NEW k \in Nat \ {0},
           k < Len(OutputPoints(c)["m"])
    PROVE  OutputPoints(c)["m"][k + 1] - OutputPoints(c)["m"][k] = c.tint["m"]
  <1> DEFINE m == OutputPoints(c)["m"]
             gap == c.tint["m"]
             n == (c.tstop - c.tstart) \div gap + 1
             start == c.tstart
  <1>1. "m" \in Stream /\ "m" \in Timed
    BY DEF Stream, Timed
  <1>2. c.tstop \in Nat /\ start \in Nat /\ gap \in Nat \ {0}
    BY <1>1, ParsAssumption
  <1>3. m = TimePoints(c, "m")
    BY <1>1 DEF OutputPoints
  <1>4. n \in Int
    <2>1. c.tstop - c.tstart \in Int
      BY <1>2
    <2> HIDE DEF gap
    <2> QED BY <1>2, <2>1
  <1> HIDE DEF n
  <1>5. m = <<>> \/ m = [i \in 1..n |-> start + gap * (i - 1)]
    BY <1>3 DEF TimePoints, n
  <1>6. m \in Seq(Nat)
    BY <1>1, PointsAreTimes
  <1>7. k < Len(m)
    OBVIOUS
  <1> HIDE DEF m, gap, start
  <1>8. m = [i \in 1..n |-> start + gap * (i - 1)] /\ k + 1 \in DOMAIN m /\ k \in DOMAIN m
    BY <1>5, <1>6, <1>7
  <1>9. k \in 1..n /\ k + 1 \in 1..n
    BY <1>8
  <1>10. m[k] = start + gap * (k - 1) /\ m[k + 1] = start + gap * (k + 1 - 1)
    BY <1>8, <1>9
  <1>11. gap * (k + 1 - 1) = gap * (k - 1) + gap /\ gap * (k - 1) \in Int /\ gap * (k + 1 - 1) \in Int
    BY <1>2
  <1>12. m[k + 1] - m[k] = gap
    <2> DEFINE below == gap * (k - 1)
               above == gap * (k + 1 - 1)
    <2>1. below \in Int /\ above = below + gap /\ m[k] = start + below /\ m[k + 1] = start + above
      BY <1>10, <1>11
    <2> HIDE DEF below, above
    <2> QED BY <1>2, <2>1
  <1> QED BY <1>12, Zenon DEF m, gap

\* The divisor of the weights is the length of the period that runs.
EvenInv ==
    /\ error = 0 => tp = OutputPoints(par)
    /\ (~par.embedded /\ error = 0 /\ Separated(tp) /\ par.file["m"] = <<>>) =>
         /\ Served("m") < Len(tp["m"]) => tintm = par.tint["m"]
         /\ \A k \in 1..Len(means) : k < Len(tp["m"]) => means[k].period = par.tint["m"]

LEMMA OutputKeepsEven ==
    ASSUME IInv, RecInv, MeanTypes, MeanInv, EvenInv, MeanOutputExt
    PROVE  EvenInv'
  <1> DEFINE m == tp["m"]
             j == Served("m")
             i == it["m"]
             due == "m" \in Records(out, it)
             L == Len(m)
             gap == par.tint["m"]
  <1>1. /\ pc = "out" /\ pc' # "out" /\ Average(out, it)
        /\ tp' = tp /\ par' = par /\ error' = error /\ it' = it
    BY DEF MeanOutputExt, OutputExt
  <1>2. error' = 0 => tp' = OutputPoints(par)'
    BY <1>1 DEF EvenInv, OutputPoints, TimePoints, WavePoints, Morfac
  <1> SUFFICES ASSUME ~par.embedded, error = 0, Separated(tp), par.file["m"] = <<>>
               PROVE  /\ i < L => tintm' = gap
                      /\ \A k \in 1..Len(means') : k < L => means'[k].period = gap
    BY <1>1, <1>2, Zenon DEF EvenInv, Separated, Served
  <1>3. AtStep(m, j)
    BY <1>1 DEF MeanInv
  <1>4. /\ j < L => tintm = gap
        /\ \A k \in 1..Len(means) : k < L => means[k].period = gap
    BY DEF EvenInv
  <1>5. m \in Seq(Nat) /\ L \in Nat /\ out["m"] \in BOOLEAN /\ i \in Nat
    BY MeanTimes
  <1>6. i = IF out["m"] THEN j + 1 ELSE j
    BY <1>1, <1>5 DEF Served
  <1>7. j \in Nat
    <2>1. out["m"] => it["m"] > 0
      BY <1>1, MeanTimes DEF RecInv, StreamFits
    <2> QED BY <1>1, <1>5, <2>1 DEF Served
  <1>8. due <=> out["m"] /\ i > 1
    BY MeanTimes DEF Records
  <1>9. \A k \in 1..L : k < L => m[k + 1] - m[k] = gap
    <2> TAKE k \in 1..L
    <2> HAVE k < L
    <2>1. tp = OutputPoints(par) /\ par \in Pars
      BY ClockTypes DEF EvenInv
    <2>2. k \in Nat \ {0} /\ k < Len(OutputPoints(par)["m"])
      BY <1>5, <2>1
    <2> QED BY <2>1, <2>2, EvenTimes
  <1>10. Len(means) = IF j > 0 THEN j - 1 ELSE 0
    BY <1>3 DEF AtStep, Periods
  <1> DEFINE r == [sum |-> Accumulated(acc), period |-> tintm]
  <1>11. /\ means' = IF due THEN Append(means, r) ELSE means
         /\ tintm' \in IF due THEN PeriodsAfter(i) ELSE {tintm}
    BY <1>1 DEF Average
  <1>12. r.period = tintm
    OBVIOUS
  <1>13. means \in Seq([sum : 0..t, period : Int])
    BY DEF MeanTypes, MeanTypeOK
  <1>14. due /\ i < L => PeriodsAfter(i) = {gap}
    <2> HAVE due /\ i < L
    <2>1. i > 1 /\ i \in 1..L /\ i <= L /\ i + 1 <= L
      BY <1>5, <1>8
    <2>2. NextPeriods(i) = {m[i + 1] - m[i]}
      <3>1. i - 1 + 1 = i /\ i - 1 + 2 = i + 1
        BY <1>5
      <3> QED BY <2>1, <3>1 DEF NextPeriods
    <2>3. m[i + 1] - m[i] = gap
      BY <1>9, <2>1
    <2>4. tintm = gap
      BY <1>4, <1>5, <1>6, <1>7
    <2> HIDE DEF i, gap
    <2> QED BY <2>2, <2>3, <2>4 DEF PeriodsAfter
  <1> HIDE DEF due, i, j, L, r, gap
  <1>15. i < L => tintm' = gap
    <2> HAVE i < L
    <2>1. j < L
      BY <1>5, <1>6, <1>7
    <2>2. CASE due
      BY <1>11, <1>14, <2>2
    <2>3. CASE ~due
      BY <1>4, <1>11, <2>1, <2>3
    <2> QED BY <2>2, <2>3
  <1>16. ASSUME NEW k \in 1..Len(means'), k < L
         PROVE  means'[k].period = gap
    <2>1. CASE ~due
      BY <1>4, <1>11, <1>16, <2>1
    <2>2. CASE due /\ k \in 1..Len(means)
      <3>1. means'[k] = means[k]
        BY <1>11, <1>13, <2>2
      <3> QED BY <1>4, <1>16, <2>2, <3>1
    <2>3. CASE due /\ k \notin 1..Len(means)
      <3>1. k = Len(means) + 1 /\ means'[k] = r
        BY <1>11, <1>13, <2>3
      <3>2. j > 0
        BY <1>6, <1>7, <1>8, <2>3
      <3>3. k = j
        BY <1>7, <1>10, <3>1, <3>2
      <3> QED BY <1>4, <1>12, <1>16, <3>1, <3>3
    <2> QED BY <2>1, <2>2, <2>3
  <1> QED BY <1>15, <1>16

LEMMA NextEvenInv ==
    IInv /\ RecInv /\ MeanTypes /\ MeanInv /\ EvenInv /\ [MeanNext]_<<vars, meanVars>> => EvenInv'
  <1> SUFFICES ASSUME IInv, RecInv, MeanTypes, MeanInv, EvenInv,
                      [MeanNext]_<<vars, meanVars>>
               PROVE  EvenInv'
    OBVIOUS
  <1>1. CASE MeanFirstOutput
    <2>1. /\ pc = "init" /\ pc' = "step" /\ tp' = tp /\ par' = par /\ error' = error
          /\ Average(out', it') /\ OutputTimesUpdate(tp, out, t)
      BY <1>1 DEF MeanFirstOutput, FirstOutput
    <2>2. error' = 0 => tp' = OutputPoints(par)'
      BY <2>1 DEF EvenInv, OutputPoints, TimePoints, WavePoints, Morfac
    <2> SUFFICES ASSUME ~par.embedded, error = 0, Separated(tp), par.file["m"] = <<>>
                 PROVE  /\ it'["m"] < Len(tp["m"]) => tintm' = par.tint["m"]
                        /\ means' = <<>>
      BY <2>1, <2>2 DEF EvenInv, Separated, Served
    <2>3. it["m"] = 0
      BY <2>1, MeanTimes DEF IInv
    <2>4. it'["m"] = 0 \/ it'["m"] = 1
      <3>1. it'["m"] = IF out'["m"] THEN it["m"] + 1 ELSE it["m"]
        BY <2>1, MeanTimes DEF OutputTimesUpdate, Advance
      <3> QED BY <2>3, <3>1
    <2>5. "m" \notin Records(out', it')
      BY <2>4 DEF Records
    <2>6. tintm' = tintm /\ means' = means
      BY <2>1, <2>5 DEF Average
    <2>7. Len(means) = 0 /\ means \in Seq([sum : 0..t, period : Int])
      BY <2>1, <2>3 DEF MeanInv, Periods, MeanTypes, MeanTypeOK
    <2>8. means = <<>>
      BY <2>7
    <2>9. Len(tp["m"]) > 0 => tintm = par.tint["m"]
      BY <2>1, <2>3 DEF EvenInv, Served
    <2>10. it'["m"] < Len(tp["m"]) => Len(tp["m"]) > 0
      BY <2>4, MeanTimes
    <2> QED BY <2>6, <2>8, <2>9, <2>10
  <1>2. CASE MeanStep
    <2>1. /\ pc = "step" /\ pc' = "out" /\ error = 0 /\ par' = par
          /\ error' = 0 => tp' = tp /\ OutputTimesUpdate(tp, out, t')
          /\ t' \in Nat
      BY <1>2, ClockMoves, ClockTypes DEF MeanStep
    <2>2. tintm' = tintm /\ means' = means
      BY <1>2 DEF MeanStep, meanVars
    <2>3. error' = 0 => tp' = OutputPoints(par)'
      BY <2>1 DEF EvenInv, OutputPoints, TimePoints, WavePoints, Morfac
    <2> SUFFICES ASSUME ~par.embedded, error' = 0, Separated(tp), par.file["m"] = <<>>
                 PROVE  /\ Served("m")' < Len(tp["m"]) => tintm = par.tint["m"]
                        /\ \A k \in 1..Len(means) :
                               k < Len(tp["m"]) => means[k].period = par.tint["m"]
      BY <2>1, <2>2, <2>3 DEF EvenInv, Separated
    <2>4. Served("m")' = it["m"]
      <3>1. it'["m"] = IF out'["m"] THEN it["m"] + 1 ELSE it["m"]
        BY <2>1, MeanTimes DEF OutputTimesUpdate, Advance
      <3>2. Served("m")' = IF out'["m"] THEN it'["m"] - 1 ELSE it'["m"]
        BY <2>1 DEF Served
      <3> DEFINE i == it["m"]
      <3>3. it'["m"] = (IF out'["m"] THEN i + 1 ELSE i) /\ i \in Nat
        BY <3>1, MeanTimes
      <3> HIDE DEF i
      <3>4. Served("m")' = i
        BY <3>2, <3>3
      <3> QED BY <3>4 DEF i
    <2>5. Served("m") = it["m"]
      BY <2>1 DEF Served
    <2> QED BY <2>1, <2>4, <2>5 DEF EvenInv
  <1>3. CASE MeanOutputExt
    BY <1>3, OutputKeepsEven
  <1>4. ASSUME pc' = pc \/ (pc = "step" /\ pc' = "done"),
               UNCHANGED <<par, tp, it, out, error, tintm, means>>
        PROVE  EvenInv'
    <2>1. Served("m")' = Served("m")
      BY <1>4 DEF Served
    <2>2. OutputPoints(par)' = OutputPoints(par)
      BY <1>4 DEF OutputPoints, TimePoints, WavePoints, Morfac
    <2> QED BY <1>4, <2>1, <2>2 DEF EvenInv, Separated
  <1>5. CASE MeanFinal
    BY <1>4, <1>5 DEF MeanFinal, Final, meanVars
  <1>6. CASE UNCHANGED <<vars, meanVars>>
    BY <1>4, <1>6 DEF vars, meanVars
  <1> QED BY <1>1, <1>2, <1>3, <1>5, <1>6 DEF MeanNext

LEMMA EvenInvariant == MeanSpec => []EvenInv
  <1>1. MeanInit => EvenInv
    <2> SUFFICES ASSUME MeanInit PROVE EvenInv
      OBVIOUS
    <2>1. tp = OutputPoints(par) /\ means = <<>> /\ (par.file["m"] = <<>> => tintm = par.tint["m"])
      BY DEF MeanInit, Init, InitialPeriod
    <2> QED BY <2>1 DEF EvenInv
  <1>2. MeanSpec => []RecInv
    BY MeanIsClock, RecordsInvariant, PTL
  <1> QED BY <1>1, <1>2, NextEvenInv, MeanInvariant, MeanClockInvariant, MeanTypesInvariant, PTL
         DEF MeanSpec

\* With periods of one length, for every interval, step and tolerance, the
\* weights of makeaverage are divided by the length of the period they cover:
\* par%tintm, moved on by ncoutput or not, is right whenever it is read.
THEOREM WeightsEven == MeanSpec => []EvenWeights
  <1>1. IInv /\ MeanTypes /\ MeanInv /\ EvenInv => EvenWeights
    <2> SUFFICES ASSUME IInv, MeanTypes, MeanInv, EvenInv, ~par.embedded, par.file["m"] = <<>>,
                        error = 0, Separated(tp),
                        NEW k \in 1..Len(means), k < Len(tp["m"])
                 PROVE  Dist(means[k].period, means[k].sum) <= Tol
      BY Zenon DEF EvenWeights, WeightsNormalised
    <2> DEFINE gap == par.tint["m"]
               total == means[k].sum
    <2>1. AtStep(tp["m"], Served("m")) \/ Periods(tp["m"], it["m"], t)
      BY Zenon DEF MeanInv
    <2>2. Dist(total, tp["m"][k + 1] - tp["m"][k]) <= Tol
      BY <2>1, Zenon DEF AtStep, Periods
    <2>3. means[k].period = gap
      BY Zenon DEF EvenInv
    <2>4. tp["m"][k + 1] - tp["m"][k] = gap
      <3>1. tp = OutputPoints(par) /\ par \in Pars
        BY ClockTypes DEF EvenInv
      <3>2. k \in Nat \ {0} /\ k < Len(OutputPoints(par)["m"])
        BY <3>1
      <3> QED BY <3>1, <3>2, EvenTimes
    <2>5. gap \in Int /\ total \in Int
      <3> DEFINE Sums == [sum : 0..t, period : Int]
      <3>1. means \in Seq(Sums)
        BY Zenon DEF MeanTypes, MeanTypeOK
      <3>2. means[k] \in Sums
        <4> HIDE DEF Sums
        <4> QED BY <3>1
      <3>3. means[k].sum \in 0..t
        BY <3>2
      <3> QED BY <3>3, MeanTimes
    <2>6. \A a, b \in Int : Dist(a, b) = Dist(b, a)
      BY DEF Dist
    <2> HIDE DEF gap, total
    <2>7. Dist(gap, total) <= Tol
      BY <2>2, <2>4, <2>5, <2>6, Zenon
    <2> QED BY <2>3, <2>7 DEF total
  <1> QED BY <1>1, EvenInvariant, MeanInvariant, MeanClockInvariant, MeanTypesInvariant, PTL
=============================================================================
