------------------------ MODULE WaveBoundary_proofs ------------------------
(***************************************************************************)
(* The wave boundary follows the clock, for every input, choice of steps   *)
(* and time between two records: the condition in force, the records of    *)
(* its signal, the window of a velocity series and the tapering.           *)
(***************************************************************************)
EXTENDS WaveBoundary, TimeStep_proofs

(* Sums of durations *)

LEMMA SumUpToNone == \A f : SumUpTo(f, 0) = 0
  <1>1. 1..0 = {}
    OBVIOUS
  <1>2. \A f : SumOver(f, {}) = 0
    BY SumOfNothing
  <1>3. \A f : SumUpTo(f, 0) = SumOver(f, 1..0)
    BY Zenon DEF SumUpTo, SumOver
  <1> QED BY <1>1, <1>2, <1>3

LEMMA SumUpToNext ==
    ASSUME NEW n \in Nat, NEW f, \A k \in 1..(n + 1) : f[k] \in Int
    PROVE  SumUpTo(f, n + 1) = SumUpTo(f, n) + f[n + 1]
  <1>1. SumOver(f, 1..(n + 1)) = SumOver(f, 1..n) + f[n + 1]
    BY SumOneMore
  <1> QED BY <1>1, Zenon DEF SumUpTo, SumOver

\* A sum of natural numbers grows with the number of its terms.
LEMMA SumUpToGrows ==
    ASSUME NEW n \in Nat, NEW f, \A k \in 1..n : f[k] \in Nat
    PROVE  /\ \A m \in 0..n : SumUpTo(f, m) \in Nat
           /\ \A m \in 0..n : \A i \in 0..m : SumUpTo(f, i) <= SumUpTo(f, m)
           /\ \A m \in 1..n : SumUpTo(f, m) = SumUpTo(f, m - 1) + f[m]
  <1> DEFINE Grown(m) == \A i \in 0..m : /\ SumUpTo(f, i) \in Nat
                                         /\ SumUpTo(f, i) <= SumUpTo(f, m)
             G == {m \in Nat : m <= n => Grown(m)}
  <1>1. 0 \in G
    <2>1. SumUpTo(f, 0) \in Nat
      BY SumUpToNone
    <2>2. 0..0 = {0}
      OBVIOUS
    <2> QED BY <2>1, <2>2
  <1>2. ASSUME NEW m \in Nat, m \in G
        PROVE  m + 1 \in G
    <2>1. ASSUME m + 1 <= n PROVE Grown(m + 1)
      <3>1. Grown(m) /\ m \in 0..m
        BY <1>2, <2>1
      <3>2. f[m + 1] \in Nat /\ \A k \in 1..(m + 1) : f[k] \in Int
        BY <2>1
      <3>3. SumUpTo(f, m + 1) = SumUpTo(f, m) + f[m + 1]
        BY <3>2, SumUpToNext
      <3>4. SumUpTo(f, m) \in Nat
        BY <3>1
      <3>5. SumUpTo(f, m + 1) \in Nat /\ SumUpTo(f, m) <= SumUpTo(f, m + 1)
        BY <3>2, <3>3, <3>4
      <3>6. ASSUME NEW i \in 0..(m + 1)
            PROVE  SumUpTo(f, i) \in Nat /\ SumUpTo(f, i) <= SumUpTo(f, m + 1)
        <4>1. CASE i = m + 1
          BY <3>5, <4>1
        <4>2. CASE i \in 0..m
          BY <3>1, <3>4, <3>5, <4>2
        <4> QED BY <4>1, <4>2
      <3> QED BY <3>6
    <2> HIDE DEF Grown
    <2> QED BY <2>1
  <1>3. Nat \subseteq G
    <2> HIDE DEF G
    <2> QED BY <1>1, <1>2, NaturalInduction
  <1>4. \A m \in 0..n : Grown(m)
    <2> HIDE DEF Grown
    <2> QED BY <1>3
  <1>5. \A m \in 1..n : SumUpTo(f, m) = SumUpTo(f, m - 1) + f[m]
    <2> TAKE m \in 1..n
    <2>1. m - 1 \in Nat /\ (m - 1) + 1 = m /\ \A k \in 1..((m - 1) + 1) : f[k] \in Int
      OBVIOUS
    <2> QED BY <2>1, SumUpToNext
  <1> QED BY <1>4, <1>5
-----------------------------------------------------------------------------
(* The input *)

LEMMA WaveSound ==
    ASSUME NEW w \in Waves
    PROVE  /\ w.kind \in {"table", "spectra", "reuse", "series"} /\ w.keep \in BOOLEAN
           /\ w.dur \in Seq(Seq(Nat \ {0})) /\ w.dtbc \in Nat \ {0} /\ w.file \in Seq(Int)
           /\ w.kind = "series" => Len(w.file) > 0
           /\ w.kind # "series" =>
                 1 \in DOMAIN w.dur /\ \A l \in DOMAIN w.dur : Len(w.dur[l]) > 0
           /\ \A l \in DOMAIN w.dur : w.dur[l] \in Seq(Nat \ {0})
  <1>1. w \in [kind : {"table", "spectra", "reuse", "series"},
               dur : Seq(Seq(Nat \ {0})), keep : BOOLEAN, dtbc : Nat \ {0}, file : Seq(Int)]
    BY WavesAssumption
  <1>2. IF w.kind = "series" THEN w.file # <<>>
        ELSE w.dur # <<>> /\ \A l \in DOMAIN w.dur : w.dur[l] # <<>>
    BY WavesAssumption
  <1>3. \A l \in DOMAIN w.dur : w.dur[l] \in Seq(Nat \ {0})
    BY <1>1
  <1>4. \A s : s \in Seq(Int) /\ s # <<>> => Len(s) > 0
    OBVIOUS
  <1>5. \A s : s \in Seq(Nat \ {0}) /\ s # <<>> => Len(s) > 0
    OBVIOUS
  <1>6. \A s : s \in Seq(Seq(Nat \ {0})) /\ s # <<>> => 1 \in DOMAIN s
    OBVIOUS
  <1>7. w.kind \in {"table", "spectra", "reuse", "series"} /\ w.keep \in BOOLEAN
        /\ w.dur \in Seq(Seq(Nat \ {0})) /\ w.dtbc \in Nat \ {0} /\ w.file \in Seq(Int)
    BY <1>1
  <1> QED BY <1>2, <1>3, <1>4, <1>5, <1>6, <1>7, Zenon

\* Where the conditions of the first location end.
LEMMA EndsGrow ==
    ASSUME NEW w \in Waves, w.kind # "series"
    PROVE  /\ Len(w.dur[1]) \in Nat \ {0} /\ \A k \in 1..Len(w.dur[1]) : w.dur[1][k] \in Nat \ {0}
           /\ EndOf(w, 0) = 0 /\ \A n \in 0..Len(w.dur[1]) : EndOf(w, n) \in Nat
           /\ \A n \in 0..Len(w.dur[1]) : \A i \in 0..n : EndOf(w, i) <= EndOf(w, n)
           /\ \A n \in 1..Len(w.dur[1]) : EndOf(w, n) = EndOf(w, n - 1) + w.dur[1][n]
  <1> DEFINE f == w.dur[1]
  <1>1. f \in Seq(Nat \ {0}) /\ Len(f) > 0
    BY WaveSound, Zenon
  <1> HIDE DEF f
  <1>2. Len(f) \in Nat \ {0} /\ \A k \in 1..Len(f) : f[k] \in Nat \ {0} /\ f[k] \in Nat
    BY <1>1
  <1>3. SumUpTo(f, 0) = 0
    BY SumUpToNone
  <1>4. Len(f) \in Nat /\ \A k \in 1..Len(f) : f[k] \in Nat
    BY <1>2
  <1>5. /\ \A m \in 0..Len(f) : SumUpTo(f, m) \in Nat
        /\ \A m \in 0..Len(f) : \A i \in 0..m : SumUpTo(f, i) <= SumUpTo(f, m)
        /\ \A m \in 1..Len(f) : SumUpTo(f, m) = SumUpTo(f, m - 1) + f[m]
    BY <1>4, SumUpToGrows
  <1> QED BY <1>2, <1>3, <1>5, Zenon DEF EndOf, f
-----------------------------------------------------------------------------
(* The invariant *)

Lines == [end : Int, rt : Nat]

BcStates == [created : BOOLEAN, end : Int, count : Nat, line : Nat, list : Seq(Lines),
             specend : Int, rt : Nat, read : [DOMAIN wave.dur -> Nat],
             reuseall : BOOLEAN, startbcf : BOOLEAN]

\* The list may be behind the count of the calls, never ahead; no location is
\* read past its end.
BcSound(b) ==
    /\ b \in BcStates /\ (~b.created => b.end = Huge)
    /\ wave.kind = "spectra" => Len(b.list) <= b.count
    /\ wave.kind = "reuse" => b.list = FormerList(wave)
    /\ ~wave.keep => ~b.reuseall /\ \A l \in DOMAIN wave.dur : b.read[l] <= Len(wave.dur[l])

SrsStates(file) == [pos : 0..Len(file), t0 : Int, t1 : Int, u0 : Nat, u1 : Nat,
                    eof : BOOLEAN, ug : Nat \X Nat]

WaveTypes ==
    /\ wave \in Waves /\ BcSound(bc) /\ srs \in SrsStates(wave.file)
    /\ sig.recpos \in Nat /\ sig.old \in Nat /\ sig.old <= Slot(t)
    /\ wave.kind = "series" /\ bc.created => srs.pos > 0
    /\ taper \in [master : {0, Taper}, rest : {Taper}]
    /\ halted \in {"no", "input", "line", "record"}

Going == Running /\ error = 0

\* The first condition is there after the first step.
FirstInv == Going /\ ~bc.created => t = 0

\* The line of a table is the one the clock is in.
TableFits(b, now) ==
    /\ b.line \in 1..Len(wave.dur[1]) /\ b.end = EndOf(wave, b.line)
    /\ EndOf(wave, b.line - 1) <= now

TableInv ==
    wave.kind = "table" =>
        /\ bc.created => TableFits(bc, t) /\ (Going => t < bc.end)
        /\ taper.master = Taper \/ wave.dur[1][1] <= t

\* The window of a series, unless all of it has passed.
SeriesFits(file, s, now) ==
    IF s.eof THEN file[Len(file)] <= now
    ELSE \E k \in 1..(Len(file) - 1) :
             s = Window(file, k) /\ file[k] <= now /\ now < file[k + 1]

Following == wave.kind = "series" /\ Len(wave.file) > 1 /\ wave.file[1] <= 0

SeriesInv == Going /\ bc.created /\ Following => SeriesFits(wave.file, srs, t)

\* The records in memory.
ShortSteps == \A c \in CflSteps : c <= wave.dtbc

Neighbours(s, now) ==
    /\ s.old = Slot(now)
    /\ s.e = <<s.recpos, s.recpos + 1>>
    /\ InParallel \/ ShortSteps => s.q = s.e

RecordsInv == Going /\ bc.created /\ Surfbeat => Neighbours(sig, t)

\* All locations have been read equally far.
Reader(b) ==
    /\ \A l \in DOMAIN wave.dur : b.read[l] = b.read[1]
    /\ b.reuseall => b.rt \in {wave.dur[1][k] : k \in DOMAIN wave.dur[1]}

\* What spectral_wave_bc has left: its last line is the condition.
Spectral(b) ==
    /\ IF b.created THEN b.list[b.line] = Line(b.specend, b.rt) /\ b.end = b.specend
                    ELSE b.line = 0 /\ b.specend = 0 /\ b.reuseall = FALSE
    /\ Reader(b)

SpectraInv == Going /\ wave.kind = "spectra" /\ SameDurations => Spectral(bc)

\* Less than two steps are left after e.
Late(e) == \E c \in CflSteps : par.tstop < e + 2 * c

\* The condition has started, with a duration of the input.
Started(b, now) ==
    /\ Listed(b) /\ b.list[b.line].rt \in {wave.dur[1][k] : k \in DOMAIN wave.dur[1]}
    /\ StartOf(b) <= now

Delayed(b) == wave.kind = "reuse" /\ Late(StartOf(b))

\* A condition that has ended is kept in the last step only: spectral_wave_bc
\* has then counted a call for which there is no line.
Kept(b, now, d) ==
    /\ LastStep(now, d)
    /\ wave.kind = "spectra" => Len(b.list) < b.count
    /\ wave.kind = "reuse" => Late(b.end)

Covers(b, now, d) ==
    (OneByOne => Outlast) => now < b.end \/ Delayed(b) \/ Kept(b, now, d)

\* The signal was started at the time e.
Entered(b, s, now, e) ==
    /\ StartOf(b) <= e /\ e <= now /\ s.recpos = Slot(now) - Slot(e) + 1
    /\ now < b.end \/ e = now
    /\ (OneByOne => Outlast) =>
           b.end <= now \/ Delayed(b) \/ \E c \in CflSteps : e <= StartOf(b) + c

ConditionInv ==
    Going /\ bc.created /\ Surfbeat /\ SameDurations =>
        /\ Started(bc, t) /\ bc.end = bc.list[bc.line].end
        /\ Covers(bc, t, dt)
        /\ \E e \in 0..t : Entered(bc, sig, t, e)

LengthInv == SameDurations /\ WholeRecords => halted # "record"
-----------------------------------------------------------------------------
(* spectral_wave_bc *)

LEMMA MaxIsMember ==
    ASSUME NEW n \in Nat, NEW T, T \subseteq 1..n, T # {}
    PROVE  Max(T) \in T /\ \A y \in T : y <= Max(T)
  <1> DEFINE D == {n - x : x \in T}
  <1>0. \A x \in T : n - x \in Nat
    OBVIOUS
  <1>1. D \subseteq Nat /\ D # {}
    BY <1>0, Zenon
  <1>2. PICK z \in D : \A y \in D : z <= y
    BY <1>1, LeastElement
  <1>3. PICK x \in T : z = n - x
    OBVIOUS
  <1>4. \A y \in T : n - x <= n - y
    BY <1>2, <1>3
  <1>5. \A y \in T : y <= x
    <2> TAKE y \in T
    <2>1. n - x <= n - y /\ x \in Nat /\ y \in Nat
      BY <1>4
    <2> QED BY <2>1
  <1>6. \E m \in T : \A y \in T : m >= y
    BY <1>5
  <1>7. Max(T) = CHOOSE m \in T : \A y \in T : m >= y
    BY Zenon DEF Max
  <1>8. Max(T) \in T /\ \A y \in T : Max(T) >= y
    BY <1>6, <1>7
  <1> QED BY <1>8

LEMMA DurationSound ==
    ASSUME wave \in Waves, wave.kind # "series", NEW l \in DOMAIN wave.dur, NEW k \in Nat \ {0},
           wave.keep \/ k <= Len(wave.dur[l])
    PROVE  /\ Duration(l, k) \in Nat \ {0}
           /\ Duration(l, k) \in {wave.dur[l][j] : j \in DOMAIN wave.dur[l]}
           /\ ~wave.keep => Duration(l, k) = wave.dur[l][k]
  <1> DEFINE f == wave.dur[l]
  <1>1. f \in Seq(Nat \ {0}) /\ Len(f) > 0
    BY WaveSound, Zenon
  <1>2. Duration(l, k) = IF wave.keep THEN f[1] ELSE f[k]
    BY Zenon DEF Duration
  <1> HIDE DEF f
  <1>3. DOMAIN f = 1..Len(f) /\ 1 \in DOMAIN f /\ \A j \in DOMAIN f : f[j] \in Nat \ {0}
    BY <1>1
  <1>4. k <= Len(f) => k \in DOMAIN f
    BY <1>3
  <1>5. CASE wave.keep
    BY <1>2, <1>3, <1>5, Zenon DEF f
  <1>6. CASE ~wave.keep
    BY <1>2, <1>3, <1>4, <1>6, Zenon DEF f
  <1> QED BY <1>5, <1>6

\* What is known of a condition before a location is read on.
Readable(b, l) ==
    /\ b.read[l] \in Nat /\ b.specend \in Int
    /\ ~wave.keep => b.read[l] <= Len(wave.dur[l])

LEMMA MoreSound ==
    ASSUME wave \in Waves, wave.kind # "series", NEW l \in DOMAIN wave.dur, NEW b, Readable(b, l),
           NEW n \in Nat, wave.keep \/ b.read[l] + n <= Len(wave.dur[l])
    PROVE  /\ More(b, l, 0) = 0 /\ More(b, l, n) \in Nat
           /\ n > 0 => /\ More(b, l, n - 1) \in Nat
                       /\ More(b, l, n) = More(b, l, n - 1) + Duration(l, b.read[l] + n)
                       /\ Duration(l, b.read[l] + n) \in Nat \ {0}
                       /\ Duration(l, b.read[l] + n)
                             \in {wave.dur[l][j] : j \in DOMAIN wave.dur[l]}
  <1> DEFINE f == [i \in Nat |-> Duration(l, b.read[l] + i)]
  <1>0. b.read[l] \in Nat
    BY DEF Readable
  <1>1. ASSUME NEW i \in 1..n
        PROVE  /\ Duration(l, b.read[l] + i) \in Nat \ {0}
               /\ Duration(l, b.read[l] + i) \in {wave.dur[l][j] : j \in DOMAIN wave.dur[l]}
    <2> DEFINE k == b.read[l] + i
    <2>1. k \in Nat \ {0} /\ k <= b.read[l] + n
      BY <1>0
    <2>2. Len(wave.dur[l]) \in Nat
      <3>1. wave.dur[l] \in Seq(Nat \ {0})
        BY WaveSound, Zenon
      <3> QED BY <3>1
    <2>3. wave.keep \/ k <= Len(wave.dur[l])
      BY <1>0, <2>1, <2>2
    <2> HIDE DEF k
    <2>4. Duration(l, k) \in Nat \ {0} /\ Duration(l, k) \in {wave.dur[l][j] : j \in DOMAIN wave.dur[l]}
      BY <2>1, <2>3, DurationSound, Zenon
    <2> QED BY <2>4 DEF k
  <1>2. \A i \in 1..n : f[i] \in Nat
    BY <1>1
  <1>3. \A m : More(b, l, m) = SumUpTo(f, m)
    BY Zenon DEF More
  <1>4. n > 0 => n \in 1..n /\ f[n] = Duration(l, b.read[l] + n)
    OBVIOUS
  <1> HIDE DEF f
  <1>5. /\ \A m \in 0..n : SumUpTo(f, m) \in Nat
        /\ \A m \in 1..n : SumUpTo(f, m) = SumUpTo(f, m - 1) + f[m]
    BY <1>2, SumUpToGrows, Zenon
  <1>6. SumUpTo(f, 0) = 0
    BY SumUpToNone
  <1>7. SumUpTo(f, n) \in Nat
    BY <1>5
  <1>8. n > 0 => SumUpTo(f, n - 1) \in Nat /\ SumUpTo(f, n) = SumUpTo(f, n - 1) + f[n]
    BY <1>5
  <1> QED BY <1>1, <1>3, <1>4, <1>6, <1>7, <1>8, Zenon

\* Spectra are read until the clock is passed, and not one more.
LEMMA ReadsSound ==
    ASSUME wave \in Waves, wave.kind # "series", NEW l \in DOMAIN wave.dur, NEW b, Readable(b, l),
           NEW now \in Nat, Enough(b, l, now) # {}
    PROVE  LET n == Reads(b, l, now)
           IN  /\ n \in Nat /\ (wave.keep \/ b.read[l] + n <= Len(wave.dur[l]))
               /\ now < b.specend + More(b, l, n)
               /\ n > 0 => b.specend + More(b, l, n - 1) <= now
               /\ b.specend <= now => n > 0
  <1> DEFINE n == Reads(b, l, now)
             L == Left(b, l, now)
  <1>1. b.read[l] \in Nat /\ b.specend \in Int /\ (~wave.keep => b.read[l] <= Len(wave.dur[l]))
    BY DEF Readable
  <1>2. Len(wave.dur[l]) \in Nat
    <2>1. wave.dur[l] \in Seq(Nat \ {0})
      BY WaveSound, Zenon
    <2> QED BY <2>1
  <1>3. \A m \in L : m \in Nat /\ (wave.keep \/ b.read[l] + m <= Len(wave.dur[l]))
    BY <1>1, <1>2 DEF Left
  <1>4. \A m \in L : m > 0 => m - 1 \in L
    BY <1>1, <1>2 DEF Left
  <1>5. Enough(b, l, now) \subseteq Nat
    BY <1>3 DEF Enough
  <1>6. n \in Enough(b, l, now) /\ \A m \in Enough(b, l, now) : n <= m
    BY <1>5, MinIsLeast, Zenon DEF Reads
  <1>7. n \in L /\ now < b.specend + More(b, l, n)
    BY <1>6 DEF Enough
  <1>8. n \in Nat /\ (wave.keep \/ b.read[l] + n <= Len(wave.dur[l]))
    BY <1>3, <1>7
  <1>9. ASSUME n > 0 PROVE b.specend + More(b, l, n - 1) <= now
    <2>1. n - 1 \in L /\ ~(n <= n - 1)
      BY <1>4, <1>7, <1>8, <1>9
    <2>2. n - 1 \notin Enough(b, l, now)
      BY <1>6, <2>1
    <2>3. ~(now < b.specend + More(b, l, n - 1))
      BY <2>1, <2>2 DEF Enough
    <2>4. More(b, l, n - 1) \in Nat
      BY <1>8, <1>9, MoreSound
    <2> HIDE DEF n
    <2> QED BY <1>1, <2>3, <2>4
  <1>10. ASSUME b.specend <= now PROVE n > 0
    <2>1. n # 0
      <3> SUFFICES ASSUME n = 0 PROVE FALSE
        OBVIOUS
      <3>1. More(b, l, 0) = 0
        BY <1>8, MoreSound
      <3>2. now < b.specend + 0
        BY <1>7, <3>1, Zenon
      <3> QED BY <1>1, <1>10, <3>2
    <2> QED BY <1>8, <2>1
  <1> QED BY <1>7, <1>8, <1>9, <1>10

\* A call that has to read spectra finds them.
Supplied(b, now) == \A l \in DOMAIN wave.dur : Enough(b, l, now) # {}

LEMMA ReadSpectraSound ==
    ASSUME wave \in Waves, wave.kind = "spectra", NEW b \in BcStates, NEW now \in Nat,
           \A l \in DOMAIN wave.dur : Readable(b, l), Supplied(b, now)
    PROVE  LET c == ReadSpectra(b, now)
           IN  /\ c \in BcStates
               /\ c.created = b.created /\ c.end = b.end /\ c.count = b.count /\ c.list = b.list
               /\ c.startbcf = b.startbcf /\ c.reuseall = wave.keep /\ c.line = b.line
               /\ c.specend = b.specend + More(b, 1, Reads(b, 1, now))
               /\ \A l \in DOMAIN wave.dur :
                     /\ c.read[l] = b.read[l] + Reads(b, l, now)
                     /\ ~wave.keep => c.read[l] <= Len(wave.dur[l])
               /\ (\A l \in DOMAIN wave.dur : Reads(b, l, now) > 0) =>
                     c.rt = Duration(Len(wave.dur), b.read[Len(wave.dur)] + Reads(b, Len(wave.dur), now))
  <1> DEFINE n == [l \in DOMAIN b.read |-> Reads(b, l, now)]
             last == {l \in DOMAIN b.read : n[l] > 0}
             specend == b.specend + More(b, 1, n[1])
             read == [l \in DOMAIN b.read |-> b.read[l] + n[l]]
             rt == IF last = {} THEN b.rt
                   ELSE Duration(Max(last), b.read[Max(last)] + n[Max(last)])
             L == Len(wave.dur)
  <1>1. /\ wave.dur \in Seq(Seq(Nat \ {0})) /\ 1 \in DOMAIN wave.dur /\ wave.keep \in BOOLEAN
    BY WaveSound, Zenon
  <1>2. L \in Nat \ {0} /\ DOMAIN wave.dur = 1..L
    BY <1>1
  <1>3. b.read \in [DOMAIN wave.dur -> Nat] /\ DOMAIN b.read = DOMAIN wave.dur
    BY DEF BcStates
  <1>4. b.specend \in Int /\ b.rt \in Nat
    BY DEF BcStates
  <1>5. ASSUME NEW l \in DOMAIN wave.dur
        PROVE  /\ n[l] = Reads(b, l, now) /\ n[l] \in Nat
               /\ wave.keep \/ b.read[l] + n[l] <= Len(wave.dur[l])
    <2>1. Readable(b, l) /\ Enough(b, l, now) # {}
      BY Zenon DEF Supplied
    <2>2. Reads(b, l, now) \in Nat /\ (wave.keep \/ b.read[l] + Reads(b, l, now) <= Len(wave.dur[l]))
      BY <2>1, ReadsSound, Zenon
    <2>3. n[l] = Reads(b, l, now)
      BY <1>3, Zenon
    <2> QED BY <2>2, <2>3, Zenon
  <1> HIDE DEF n
  <1>6. specend \in Int
    <2>1. Readable(b, 1) /\ n[1] \in Nat /\ (wave.keep \/ b.read[1] + n[1] <= Len(wave.dur[1]))
      BY <1>1, <1>5
    <2>2. More(b, 1, n[1]) \in Nat
      BY <1>1, <2>1, MoreSound
    <2> QED BY <1>4, <2>2
  <1>7. read \in [DOMAIN wave.dur -> Nat] /\ \A l \in DOMAIN wave.dur : read[l] = b.read[l] + n[l]
    BY <1>3, <1>5
  <1>8. ASSUME last # {} PROVE Max(last) \in last /\ \A y \in last : y <= Max(last)
    <2>1. last \subseteq 1..L
      BY <1>2, <1>3
    <2> HIDE DEF last
    <2> QED BY <1>2, <1>8, <2>1, MaxIsMember
  <1>9. rt \in Nat
    <2>1. CASE last = {}
      BY <1>4, <2>1
    <2>2. CASE last # {}
      <3> DEFINE m == Max(last)
      <3>1. m \in DOMAIN wave.dur /\ n[m] > 0
        BY <1>3, <1>8, <2>2
      <3>2. rt = Duration(m, b.read[m] + n[m])
        BY <2>2
      <3> HIDE DEF m, rt, last
      <3>3. Readable(b, m) /\ n[m] \in Nat /\ (wave.keep \/ b.read[m] + n[m] <= Len(wave.dur[m]))
        BY <3>1, <1>5
      <3>4. Duration(m, b.read[m] + n[m]) \in Nat \ {0}
        BY <3>1, <3>3, MoreSound
      <3> QED BY <3>2, <3>4
    <2> QED BY <2>1, <2>2
  <1>10. ReadSpectra(b, now) = [b EXCEPT !.specend = specend, !.read = read, !.rt = rt,
                                         !.reuseall = wave.keep]
    BY DEF ReadSpectra, n
  <1>11. (\A l \in DOMAIN wave.dur : Reads(b, l, now) > 0) => rt = Duration(L, b.read[L] + n[L])
    <2> SUFFICES ASSUME \A l \in DOMAIN wave.dur : Reads(b, l, now) > 0
                 PROVE  rt = Duration(L, b.read[L] + n[L])
      OBVIOUS
    <2>1. last = 1..L
      BY <1>2, <1>3, <1>5
    <2>2. last # {} /\ L \in last
      BY <1>2, <2>1
    <2>3. Max(last) = L
      <3>1. Max(last) \in 1..L /\ L <= Max(last)
        BY <1>8, <2>1, <2>2
      <3> QED BY <1>2, <3>1
    <2> HIDE DEF last
    <2> QED BY <2>2, <2>3
  <1> HIDE DEF specend, read, rt, last
  <1> DEFINE c == [b EXCEPT !.specend = specend, !.read = read, !.rt = rt, !.reuseall = wave.keep]
  <1>12. c \in BcStates
    BY <1>1, <1>6, <1>7, <1>9 DEF BcStates
  <1>13. /\ c.created = b.created /\ c.end = b.end /\ c.count = b.count /\ c.list = b.list
         /\ c.startbcf = b.startbcf /\ c.reuseall = wave.keep /\ c.line = b.line
         /\ c.specend = specend /\ c.read = read /\ c.rt = rt
    BY DEF BcStates
  <1> HIDE DEF c
  <1>14. specend = b.specend + More(b, 1, Reads(b, 1, now))
    BY <1>1, <1>5 DEF specend
  <1>15. \A l \in DOMAIN wave.dur : /\ read[l] = b.read[l] + Reads(b, l, now)
                                    /\ ~wave.keep => read[l] <= Len(wave.dur[l])
    BY <1>5, <1>7
  <1>16. (\A l \in DOMAIN wave.dur : Reads(b, l, now) > 0) =>
              rt = Duration(L, b.read[L] + Reads(b, L, now))
    BY <1>2, <1>5, <1>11
  <1>17. ReadSpectra(b, now) = c
    BY <1>10 DEF c
  <1> QED BY <1>12, <1>13, <1>14, <1>15, <1>16, <1>17, Zenon

\* With the same durations everywhere, all locations read the same number.
LEMMA SameReads ==
    ASSUME SameDurations, NEW l \in DOMAIN wave.dur, 1 \in DOMAIN wave.dur,
           NEW b, b.read[l] = b.read[1], NEW now
    PROVE  /\ Enough(b, l, now) = Enough(b, 1, now)
           /\ Reads(b, l, now) = Reads(b, 1, now)
           /\ \A k : Duration(l, k) = Duration(1, k)
  <1>1. wave.dur[l] = wave.dur[1]
    BY DEF SameDurations
  <1>2. \A k : Duration(l, k) = Duration(1, k)
    BY <1>1, Zenon DEF Duration
  <1>3. \A n : More(b, l, n) = More(b, 1, n)
    <2>1. [i \in Nat |-> Duration(l, b.read[l] + i)] = [i \in Nat |-> Duration(1, b.read[1] + i)]
      BY <1>2
    <2> QED BY <2>1, Zenon DEF More
  <1>4. Left(b, l, now) = Left(b, 1, now)
    BY <1>1, Zenon DEF Left
  <1>5. Enough(b, l, now) = Enough(b, 1, now)
    <2> DEFINE M(n) == now < b.specend + More(b, 1, n)
    <2>1. Enough(b, l, now) = {n \in Left(b, l, now) : M(n)}
      BY <1>3 DEF Enough
    <2>2. Enough(b, 1, now) = {n \in Left(b, 1, now) : M(n)}
      BY DEF Enough
    <2> QED BY <1>4, <2>1, <2>2, Zenon
  <1> QED BY <1>2, <1>5, Zenon DEF Reads

\* What is read depends on how far the input has been read, on nothing else.
LEMMA EnoughSame ==
    ASSUME NEW b, NEW c, b.read = c.read, b.specend = c.specend, NEW now
    PROVE  \A l : Enough(b, l, now) = Enough(c, l, now)
  <1>1. \A l, n : More(b, l, n) = More(c, l, n)
    BY Zenon DEF More
  <1>2. \A l : Left(b, l, now) = Left(c, l, now)
    BY Zenon DEF Left
  <1> TAKE l
  <1> DEFINE M(n) == now < c.specend + More(c, l, n)
  <1>3. Enough(b, l, now) = {n \in Left(b, l, now) : M(n)}
    BY <1>1 DEF Enough
  <1>4. Enough(c, l, now) = {n \in Left(c, l, now) : M(n)}
    BY DEF Enough
  <1> QED BY <1>2, <1>3, <1>4, Zenon

\* The condition after one more: it follows the one before, or is the first
\* whose end is past the clock.
Follows(c, b, now) ==
    /\ b.specend <= c.specend - c.rt
    /\ c.rt \in {wave.dur[1][k] : k \in DOMAIN wave.dur[1]}
    /\ c.reuseall = wave.keep
    /\ \A l \in DOMAIN wave.dur : c.read[l] = c.read[1]
    /\ IF b.reuseall THEN c.specend - c.rt = b.specend /\ c.rt = b.rt
                     ELSE c.specend - c.rt <= now /\ now < c.specend

LEMMA AnotherSound ==
    ASSUME wave \in Waves, wave.kind = "spectra", NEW b, BcSound(b), Len(b.list) < b.count,
           NEW now \in Nat, b.reuseall \/ Supplied(b, now)
    PROVE  LET c == Another(b, now)
           IN  /\ BcSound(c)
               /\ c.created = b.created /\ c.end = b.end /\ c.count = b.count
               /\ c.startbcf = b.startbcf /\ c.line = c.count
               /\ c.list = Append(b.list, Line(c.specend, c.rt)) /\ Len(c.list) = Len(b.list) + 1
               /\ SameDurations /\ Reader(b) /\ b.specend <= now => Follows(c, b, now)
  <1> DEFINE r == IF b.reuseall THEN [b EXCEPT !.specend = @ + b.rt] ELSE ReadSpectra(b, now)
             c == [r EXCEPT !.list = Append(@, Line(r.specend, r.rt)), !.line = r.count]
  <1>1. /\ b \in BcStates /\ (~wave.keep => ~b.reuseall)
        /\ ~wave.keep => \A l \in DOMAIN wave.dur : b.read[l] <= Len(wave.dur[l])
    BY DEF BcSound
  <1>2. wave.keep \in BOOLEAN /\ 1 \in DOMAIN wave.dur /\ wave.dur \in Seq(Seq(Nat \ {0}))
    BY WaveSound, Zenon
  <1>3. \A l \in DOMAIN wave.dur : Readable(b, l)
    BY <1>1 DEF Readable, BcStates
  <1>4. /\ r \in BcStates /\ r.created = b.created /\ r.end = b.end /\ r.count = b.count
        /\ r.list = b.list /\ r.startbcf = b.startbcf
        /\ r.reuseall = wave.keep
        /\ ~wave.keep => \A l \in DOMAIN wave.dur : r.read[l] <= Len(wave.dur[l])
    <2>1. CASE b.reuseall
      <3>1. r = [b EXCEPT !.specend = @ + b.rt]
        BY <2>1
      <3>2. wave.keep = TRUE /\ b.reuseall = TRUE
        BY <1>1, <1>2, <2>1 DEF BcStates
      <3>0. b.specend + b.rt \in Int
        BY <1>1 DEF BcStates
      <3> DEFINE sum == b.specend + b.rt
      <3>4. r = [b EXCEPT !.specend = sum] /\ sum \in Int
        BY <3>0, <3>1
      <3> HIDE DEF r, sum
      <3>3. /\ r \in BcStates /\ r.created = b.created /\ r.end = b.end /\ r.count = b.count
            /\ r.list = b.list /\ r.startbcf = b.startbcf /\ r.reuseall = b.reuseall
        BY <1>1, <3>4 DEF BcStates
      <3> QED BY <1>1, <3>2, <3>3, Zenon
    <2>2. CASE ~b.reuseall
      <3>1. r = ReadSpectra(b, now)
        BY <2>2
      <3>2. Supplied(b, now)
        BY <2>2
      <3> HIDE DEF r
      <3> QED BY <1>1, <1>3, <3>1, <3>2, ReadSpectraSound, Zenon
    <2> QED BY <2>1, <2>2
  <1>5. ASSUME SameDurations, Reader(b), b.specend <= now PROVE Follows(r, b, now)
    <2>1. CASE b.reuseall
      <3>1. r = [b EXCEPT !.specend = @ + b.rt]
        BY <2>1
      <3>2. /\ r.specend = b.specend + b.rt /\ r.rt = b.rt /\ r.read = b.read
            /\ b.specend \in Int /\ b.rt \in Nat
        BY <1>1, <3>1 DEF BcStates
      <3> HIDE DEF r
      <3>3. r.specend - r.rt = b.specend
        BY <3>2
      <3> QED BY <1>4, <1>5, <2>1, <3>2, <3>3 DEF Follows, Reader
    <2>2. CASE ~b.reuseall
      <3> DEFINE n == Reads(b, 1, now)
                 L == Len(wave.dur)
                 last == Duration(1, b.read[1] + n)
      <3>1. r = ReadSpectra(b, now) /\ Supplied(b, now)
        BY <2>2
      <3> HIDE DEF r, c
      <3>2. /\ r.specend = b.specend + More(b, 1, n)
            /\ \A l \in DOMAIN wave.dur : r.read[l] = b.read[l] + Reads(b, l, now)
            /\ (\A l \in DOMAIN wave.dur : Reads(b, l, now) > 0) =>
                    r.rt = Duration(L, b.read[L] + Reads(b, L, now))
        BY <1>1, <1>3, <3>1, ReadSpectraSound, Zenon
      <3>3. \A l \in DOMAIN wave.dur : /\ b.read[l] = b.read[1] /\ Reads(b, l, now) = n
                                       /\ \A k : Duration(l, k) = Duration(1, k)
        <4>1. \A l \in DOMAIN wave.dur : b.read[l] = b.read[1]
          BY <1>5 DEF Reader
        <4> QED BY <1>2, <1>5, <4>1, SameReads
      <3>4. L \in DOMAIN wave.dur
        BY <1>2
      <3>5. Readable(b, 1) /\ Enough(b, 1, now) # {}
        BY <1>2, <1>3, <3>1 DEF Supplied
      <3>6. /\ n \in Nat /\ (wave.keep \/ b.read[1] + n <= Len(wave.dur[1]))
            /\ now < b.specend + More(b, 1, n)
            /\ n > 0 => b.specend + More(b, 1, n - 1) <= now
            /\ b.specend <= now => n > 0
        BY <1>2, <3>5, ReadsSound
      <3>7. n > 0
        BY <1>5, <3>6
      <3>8. r.rt = last
        <4>1. \A l \in DOMAIN wave.dur : Reads(b, l, now) > 0
          BY <3>3, <3>7
        <4>2. r.rt = Duration(L, b.read[L] + Reads(b, L, now))
          BY <3>2, <4>1
        <4> QED BY <3>3, <3>4, <4>2
      <3>9. /\ More(b, 1, n - 1) \in Nat /\ More(b, 1, n) = More(b, 1, n - 1) + last
            /\ last \in Nat \ {0}
            /\ last \in {wave.dur[1][j] : j \in DOMAIN wave.dur[1]}
        BY <1>2, <3>5, <3>6, <3>7, MoreSound
      <3>10. \A l \in DOMAIN wave.dur : r.read[l] = r.read[1]
        BY <1>2, <3>2, <3>3
      <3> DEFINE more == More(b, 1, n)
                 before == More(b, 1, n - 1)
      <3>11. b.specend \in Int
        BY <1>1 DEF BcStates
      <3>12. b.specend + before <= now /\ now < b.specend + more
        BY <3>6, <3>7
      <3>13. more \in Nat
        BY <3>9
      <3>14. r.specend = b.specend + more
        BY <3>2
      <3> HIDE DEF more, before, last, n
      <3>15. b.specend <= r.specend - r.rt /\ r.specend - r.rt <= now /\ now < r.specend
        <4>1. more = before + last /\ before \in Nat /\ last \in Nat
          BY <3>9 DEF more, before
        <4>2. (b.specend + more) - last = b.specend + before
          BY <3>11, <4>1
        <4>3. r.specend - r.rt = b.specend + before
          BY <3>8, <3>14, <4>2, Zenon
        <4> QED BY <3>11, <3>12, <3>14, <4>1, <4>3
      <3>16. r.rt \in {wave.dur[1][k] : k \in DOMAIN wave.dur[1]}
        BY <3>8, <3>9
      <3> QED BY <1>4, <2>2, <3>10, <3>15, <3>16 DEF Follows
    <2> QED BY <2>1, <2>2
  <1>6. c = Another(b, now)
    BY DEF Another
  <1> HIDE DEF r
  <1>7. Line(r.specend, r.rt) \in Lines /\ r.list \in Seq(Lines)
    BY <1>4 DEF Line, Lines, BcStates
  <1>8. Append(r.list, Line(r.specend, r.rt)) \in Seq(Lines)
        /\ Len(Append(r.list, Line(r.specend, r.rt))) = Len(r.list) + 1
    BY <1>7
  <1> DEFINE list == Append(r.list, Line(r.specend, r.rt))
  <1>9. list \in Seq(Lines) /\ Len(list) = Len(r.list) + 1
    BY <1>8
  <1>10. c = [r EXCEPT !.list = list, !.line = r.count]
    BY <1>4 DEF BcStates
  <1> HIDE DEF list, c
  <1>11. c \in BcStates
    BY <1>4, <1>9, <1>10 DEF BcStates
  <1>12. /\ c.created = r.created /\ c.end = r.end /\ c.count = r.count /\ c.startbcf = r.startbcf
         /\ c.line = r.count /\ c.list = list /\ c.specend = r.specend /\ c.rt = r.rt
         /\ c.read = r.read /\ c.reuseall = r.reuseall
    BY <1>4, <1>10 DEF BcStates
  <1>13. Len(c.list) <= c.count
    <2>1. Len(b.list) \in Nat /\ b.count \in Nat
      BY <1>1 DEF BcStates
    <2> QED BY <1>4, <1>9, <1>12, <2>1
  <1>14. BcSound(c)
    BY <1>4, <1>11, <1>12, <1>13 DEF BcSound
  <1>15. c.list = Append(b.list, Line(c.specend, c.rt)) /\ Len(c.list) = Len(b.list) + 1
    BY <1>4, <1>9, <1>12, Zenon DEF list
  <1>16. SameDurations /\ Reader(b) /\ b.specend <= now => Follows(c, b, now)
    BY <1>5, <1>12 DEF Follows
  <1>17. c.created = b.created /\ c.end = b.end /\ c.count = b.count /\ c.startbcf = b.startbcf
         /\ c.line = c.count
    BY <1>4, <1>12
  <1> QED BY <1>6, <1>14, <1>15, <1>16, <1>17, Zenon

\* spectral_wave_bc called on b: in the last step the call is counted, and in
\* any other there is one line more.
Called(c, b, now, d) ==
    /\ c.count = b.count + 1
    /\ IF LastStep(now, d)
       THEN /\ c.line = b.line /\ c.list = b.list /\ c.specend = b.specend /\ c.rt = b.rt
            /\ c.read = b.read /\ c.reuseall = b.reuseall
       ELSE /\ c.line = c.count /\ c.list = Append(b.list, Line(c.specend, c.rt))
            /\ Len(c.list) = Len(b.list) + 1
            /\ SameDurations /\ Reader(b) /\ b.specend <= now => Follows(c, b, now)

LEMMA SpectralSound ==
    ASSUME wave \in Waves, wave.kind = "spectra", NEW b, BcSound(b), NEW now \in Nat, NEW d,
           LastStep(now, d) \/ b.reuseall \/ Supplied(b, now)
    PROVE  LET c == SpectralWaveBc(b, now, d)
           IN  /\ BcSound(c) /\ Called(c, b, now, d)
               /\ c.created = b.created /\ c.end = b.end /\ c.startbcf = b.startbcf
  <1> DEFINE count == b.count + 1
             e == [b EXCEPT !.count = count]
             c == SpectralWaveBc(b, now, d)
  <1>1. b \in BcStates /\ Len(b.list) \in Nat /\ Len(b.list) <= b.count /\ b.count \in Nat
    BY DEF BcSound, BcStates
  <1>2. count \in Nat /\ Len(b.list) < count
    BY <1>1
  <1>3. c = IF LastStep(now, d) THEN e ELSE Another(e, now)
    BY <1>1 DEF SpectralWaveBc, BcStates
  <1> HIDE DEF count, c
  <1>4. e \in BcStates
    BY <1>1, <1>2 DEF BcStates
  <1>5. /\ e.count = count /\ e.line = b.line /\ e.list = b.list /\ e.specend = b.specend
        /\ e.rt = b.rt /\ e.read = b.read /\ e.reuseall = b.reuseall
        /\ e.created = b.created /\ e.end = b.end /\ e.startbcf = b.startbcf
    BY <1>1 DEF BcStates
  <1> HIDE DEF e
  <1>6. BcSound(e)
    <2>1. Len(e.list) <= e.count
      BY <1>1, <1>2, <1>5
    <2> QED BY <1>4, <1>5, <2>1 DEF BcSound
  <1>7. CASE LastStep(now, d)
    <2>1. c = e
      BY <1>3, <1>7
    <2>2. e.count = b.count + 1
      BY <1>5, Zenon DEF count
    <2>3. Called(e, b, now, d)
      BY <1>5, <1>7, <2>2 DEF Called
    <2> QED BY <1>5, <1>6, <2>1, <2>3 DEF c
  <1>8. CASE ~LastStep(now, d)
    <2>1. c = Another(e, now)
      BY <1>3, <1>8
    <2>2. e.reuseall \/ Supplied(e, now)
      <3>1. Supplied(b, now) => Supplied(e, now)
        <4>1. \A l : Enough(b, l, now) = Enough(e, l, now)
          BY <1>5, EnoughSame
        <4> QED BY <4>1 DEF Supplied
      <3> QED BY <1>5, <1>8, <3>1, Zenon
    <2>3. /\ BcSound(c)
          /\ c.created = e.created /\ c.end = e.end /\ c.count = e.count
          /\ c.startbcf = e.startbcf /\ c.line = c.count
          /\ c.list = Append(e.list, Line(c.specend, c.rt)) /\ Len(c.list) = Len(e.list) + 1
          /\ SameDurations /\ Reader(e) /\ e.specend <= now => Follows(c, e, now)
      BY <1>2, <1>5, <1>6, <2>1, <2>2, AnotherSound, Zenon
    <2>4. Reader(b) => Reader(e)
      BY <1>5, Zenon DEF Reader
    <2>5. Follows(c, e, now) => Follows(c, b, now)
      BY <1>5 DEF Follows
    <2>6. c.count = b.count + 1
      BY <1>5, <2>3 DEF count
    <2>7. c.line = c.count /\ c.list = Append(b.list, Line(c.specend, c.rt))
          /\ Len(c.list) = Len(b.list) + 1
      BY <1>5, <2>3
    <2>8. SameDurations /\ Reader(b) /\ b.specend <= now => Follows(c, b, now)
      BY <1>5, <2>3, <2>4, <2>5
    <2>9. Called(c, b, now, d)
      BY <1>8, <2>6, <2>7, <2>8, Zenon DEF Called
    <2> QED BY <1>5, <2>3, <2>9, Zenon DEF c
  <1> QED BY <1>7, <1>8 DEF c
-----------------------------------------------------------------------------
(* wave_bc, blocks I and II *)

\* The condition stays, or spectral_wave_bc is called.
LEMMA CurrentSpectra ==
    ASSUME wave \in Waves, wave.kind = "spectra", BcSound(bc), NEW now \in Nat, now < Huge,
           NEW d, ~InputEnds(now, d)
    PROVE  LET b == CurrentBc(now, d)
           IN  /\ BcSound(b) /\ b.created = TRUE /\ b.end = bc.end
               /\ \/ bc.created /\ now < bc.end /\ b = [bc EXCEPT !.startbcf = FALSE]
                  \/ ~(bc.created /\ now < bc.end) /\ b.startbcf = TRUE /\ Called(b, bc, now, d)
  <1> DEFINE b == CurrentBc(now, d)
             still == [bc EXCEPT !.startbcf = FALSE]
             new == [still EXCEPT !.created = TRUE, !.startbcf = TRUE]
  <1>1. bc \in BcStates /\ bc.created \in BOOLEAN /\ bc.end \in Int /\ (~bc.created => bc.end = Huge)
    BY DEF BcSound, BcStates
  <1>2. /\ still \in BcStates /\ still.created = bc.created /\ still.end = bc.end
        /\ still.count = bc.count /\ still.line = bc.line /\ still.list = bc.list
        /\ still.specend = bc.specend /\ still.rt = bc.rt /\ still.read = bc.read
        /\ still.reuseall = bc.reuseall
    BY <1>1 DEF BcStates
  <1>3. /\ new \in BcStates /\ new.created = TRUE /\ new.end = bc.end /\ new.startbcf = TRUE
        /\ new.count = bc.count /\ new.line = bc.line /\ new.list = bc.list
        /\ new.specend = bc.specend /\ new.rt = bc.rt /\ new.read = bc.read
        /\ new.reuseall = bc.reuseall
    BY <1>1 DEF BcStates
  <1>4. BcSound(still) /\ BcSound(new)
    BY <1>2, <1>3 DEF BcSound
  <1>5. CreatedBc(now, d) = IF bc.created THEN still ELSE SpectralWaveBc(new, now, d)
    BY <1>2, Zenon DEF CreatedBc, CreateBc
  <1> HIDE DEF still, new
  <1>6. ASSUME ~bc.created \/ Expired(bc, now)
        PROVE  LastStep(now, d) \/ bc.reuseall \/ Supplied(bc, now)
    <2>1. ~NoSpectrum(bc, now, d)
      BY <1>6, Zenon DEF InputEnds
    <2>2. DOMAIN bc.read = DOMAIN wave.dur
      BY <1>1 DEF BcStates
    <2> QED BY <2>1, <2>2, Zenon DEF NoSpectrum, Supplied
  <1>7. \A e : e.read = bc.read /\ e.specend = bc.specend /\ Supplied(bc, now) => Supplied(e, now)
    <2> SUFFICES ASSUME NEW e, e.read = bc.read, e.specend = bc.specend, Supplied(bc, now)
                 PROVE  Supplied(e, now)
      OBVIOUS
    <2>1. \A l : Enough(e, l, now) = Enough(bc, l, now)
      BY EnoughSame
    <2> QED BY <2>1 DEF Supplied
  <1>8. \A c : c.created = TRUE => (Expired(c, now) <=> now >= c.end)
    BY DEF Expired
  <1>9. \A c, e : (/\ e.count = bc.count /\ e.line = bc.line /\ e.list = bc.list
                   /\ e.specend = bc.specend /\ e.rt = bc.rt /\ e.read = bc.read
                   /\ e.reuseall = bc.reuseall /\ Called(c, e, now, d)) => Called(c, bc, now, d)
    <2> TAKE c, e
    <2> SUFFICES ASSUME e.count = bc.count, e.line = bc.line, e.list = bc.list,
                        e.specend = bc.specend, e.rt = bc.rt, e.read = bc.read,
                        e.reuseall = bc.reuseall, Called(c, e, now, d)
                 PROVE  Called(c, bc, now, d)
      OBVIOUS
    <2>1. Reader(bc) => Reader(e)
      BY Zenon DEF Reader
    <2>2. Follows(c, e, now) => Follows(c, bc, now)
      BY DEF Follows
    <2> QED BY <2>1, <2>2, Zenon DEF Called
  <1>10. CASE bc.created /\ now < bc.end
    <2>1. CreatedBc(now, d) = still
      BY <1>5, <1>10
    <2>2. ~Expired(still, now)
      BY <1>1, <1>2, <1>10 DEF Expired
    <2>3. b = still
      BY <2>1, <2>2, Zenon DEF CurrentBc
    <2> HIDE DEF b
    <2>4. bc.created = TRUE
      BY <1>1, <1>10
    <2> QED BY <1>2, <1>4, <1>10, <2>3, <2>4, Zenon DEF still, b
  <1>11. CASE ~bc.created
    <2> DEFINE c == SpectralWaveBc(new, now, d)
    <2>1. LastStep(now, d) \/ new.reuseall \/ Supplied(new, now)
      BY <1>3, <1>6, <1>7, <1>11, Zenon
    <2>2. /\ BcSound(c) /\ Called(c, new, now, d)
          /\ c.created = new.created /\ c.end = new.end /\ c.startbcf = new.startbcf
      BY <1>4, <2>1, SpectralSound, Zenon
    <2>3. CreatedBc(now, d) = c
      BY <1>5, <1>11
    <2> HIDE DEF c
    <2>4. Called(c, bc, now, d)
      BY <1>3, <1>9, <2>2, Zenon
    <2>5. ~Expired(c, now)
      <3>1. c.created = TRUE /\ c.end = Huge /\ Huge \in Nat
        BY <1>1, <1>3, <1>11, <2>2 DEF Huge
      <3> QED BY <1>8, <3>1
    <2>6. b = c
      BY <2>3, <2>5, Zenon DEF CurrentBc
    <2> HIDE DEF b
    <2> QED BY <1>3, <1>11, <2>2, <2>4, <2>6, Zenon DEF b
  <1>12. CASE bc.created /\ ~(now < bc.end)
    <2> DEFINE c == SpectralWaveBc(still, now, d)
    <2>1. Expired(bc, now) /\ Expired(still, now)
      BY <1>1, <1>2, <1>12 DEF Expired
    <2>2. LastStep(now, d) \/ still.reuseall \/ Supplied(still, now)
      BY <1>2, <1>6, <1>7, <2>1, Zenon
    <2>3. /\ BcSound(c) /\ Called(c, still, now, d)
          /\ c.created = still.created /\ c.end = still.end
      BY <1>4, <2>2, SpectralSound, Zenon
    <2>4. b = [c EXCEPT !.startbcf = TRUE]
      <3>1. CreatedBc(now, d) = still
        BY <1>5, <1>12
      <3>2. b = RenewBc(still, now, d)
        BY <2>1, <3>1, Zenon DEF CurrentBc
      <3> HIDE DEF b
      <3> QED BY <3>2, Zenon DEF RenewBc
    <2> HIDE DEF b, c
    <2>5. c \in BcStates
      BY <2>3 DEF BcSound
    <2>6. /\ b \in BcStates /\ b.created = c.created /\ b.end = c.end /\ b.startbcf = TRUE
          /\ b.count = c.count /\ b.line = c.line /\ b.list = c.list
          /\ b.specend = c.specend /\ b.rt = c.rt /\ b.read = c.read
          /\ b.reuseall = c.reuseall
      BY <2>4, <2>5 DEF BcStates
    <2>7. BcSound(b)
      BY <2>3, <2>6 DEF BcSound
    <2>8. Called(b, bc, now, d)
      <3>1. Called(c, bc, now, d)
        BY <1>2, <1>9, <2>3, Zenon
      <3>2. Follows(c, bc, now) => Follows(b, bc, now)
        BY <2>6 DEF Follows
      <3> QED BY <2>6, <3>1, <3>2, Zenon DEF Called
    <2>9. bc.created = TRUE
      BY <1>1, <1>12
    <2> QED BY <1>2, <1>12, <2>3, <2>6, <2>7, <2>8, <2>9, Zenon DEF b
  <1> QED BY <1>10, <1>11, <1>12, Zenon

LEMMA CurrentReuse ==
    ASSUME wave \in Waves, wave.kind = "reuse", BcSound(bc), par.tstop \in Nat,
           NEW now \in Nat, now < Huge, NEW d \in Nat
    PROVE  LET b == CurrentBc(now, d)
           IN  /\ BcSound(b) /\ b.created = TRUE /\ b.end = bc.end /\ b.list = bc.list
               /\ \/ ~bc.created /\ b.startbcf = TRUE /\ b.line = 1
                  \/ bc.created /\ now < bc.end /\ b = [bc EXCEPT !.startbcf = FALSE]
                  \/ /\ bc.created /\ ~(now < bc.end) /\ b.startbcf = TRUE
                     /\ b.line = IF LastStep(now, d) THEN bc.line ELSE bc.line + 1
  <1> DEFINE b == CurrentBc(now, d)
             still == [bc EXCEPT !.startbcf = FALSE]
             new == [still EXCEPT !.created = TRUE, !.startbcf = TRUE, !.line = 1]
             next == IF now <= par.tstop - d THEN bc.line + 1 ELSE bc.line
             later == [still EXCEPT !.startbcf = TRUE, !.line = next]
  <1>1. /\ bc \in BcStates /\ bc.created \in BOOLEAN /\ bc.end \in Int /\ bc.line \in Nat
        /\ ~bc.created => bc.end = Huge
    BY DEF BcSound, BcStates
  <1>2. /\ still \in BcStates /\ still.created = bc.created /\ still.end = bc.end
        /\ still.count = bc.count /\ still.line = bc.line /\ still.list = bc.list
        /\ still.read = bc.read /\ still.reuseall = bc.reuseall
    BY <1>1 DEF BcStates
  <1>3. /\ new \in BcStates /\ new.created = TRUE /\ new.end = bc.end
        /\ new.startbcf = TRUE /\ new.line = 1 /\ new.list = bc.list
        /\ new.read = bc.read /\ new.reuseall = bc.reuseall
    BY <1>1 DEF BcStates
  <1>4. next \in Nat
    BY <1>1
  <1>5. CreatedBc(now, d) = IF bc.created THEN still ELSE new
    <2>1. [[still EXCEPT !.created = TRUE, !.startbcf = TRUE] EXCEPT !.line = 1] = new
      BY <1>2 DEF BcStates
    <2> HIDE DEF new
    <2> QED BY <1>2, <2>1, Zenon DEF CreatedBc, CreateBc
  <1> HIDE DEF new
  <1>6. CASE bc.created /\ now < bc.end
    <2>1. CreatedBc(now, d) = still /\ ~Expired(still, now)
      BY <1>1, <1>2, <1>5, <1>6 DEF Expired
    <2>2. b = still
      BY <2>1, Zenon DEF CurrentBc
    <2>3. BcSound(still) /\ bc.created = TRUE
      BY <1>1, <1>2, <1>6 DEF BcSound
    <2> HIDE DEF b
    <2> QED BY <1>2, <1>6, <2>2, <2>3, Zenon DEF b
  <1>7. CASE ~bc.created
    <2>1. CreatedBc(now, d) = new /\ ~Expired(new, now)
      BY <1>1, <1>3, <1>5, <1>7 DEF Expired, Huge
    <2>2. b = new
      BY <2>1, Zenon DEF CurrentBc
    <2>3. BcSound(new)
      BY <1>3 DEF BcSound
    <2> HIDE DEF b
    <2> QED BY <1>3, <1>7, <2>2, <2>3, Zenon DEF b
  <1>8. CASE bc.created /\ ~(now < bc.end)
    <2>1. CreatedBc(now, d) = still /\ Expired(still, now)
      BY <1>1, <1>2, <1>5, <1>8 DEF Expired
    <2>2. RenewBc(still, now, d) = later
      BY <1>2 DEF RenewBc
    <2>3. b = later
      BY <2>1, <2>2, Zenon DEF CurrentBc
    <2> HIDE DEF next
    <2>4. /\ later \in BcStates /\ later.created = bc.created /\ later.end = bc.end
          /\ later.startbcf = TRUE /\ later.line = next /\ later.list = bc.list
          /\ later.read = bc.read /\ later.reuseall = bc.reuseall
      BY <1>2, <1>4 DEF BcStates
    <2> HIDE DEF b, later, still
    <2>5. BcSound(later) /\ bc.created = TRUE
      BY <1>1, <1>8, <2>4 DEF BcSound
    <2>6. next = IF LastStep(now, d) THEN bc.line ELSE bc.line + 1
      <3>1. LastStep(now, d) <=> now > par.tstop - d
        BY Zenon DEF LastStep
      <3>2. now > par.tstop - d <=> ~(now <= par.tstop - d)
        OBVIOUS
      <3> QED BY <3>1, <3>2, Zenon DEF next
    <2> QED BY <1>8, <2>3, <2>4, <2>5, <2>6, Zenon DEF b
  <1> QED BY <1>6, <1>7, <1>8, Zenon

LEMMA CurrentSeriesBc ==
    ASSUME wave \in Waves, wave.kind = "series", BcSound(bc), NEW now, NEW d
    PROVE  BcSound(CurrentBc(now, d)) /\ CurrentBc(now, d).created = TRUE
  <1> DEFINE b == CurrentBc(now, d)
             still == [bc EXCEPT !.startbcf = FALSE]
             new == [still EXCEPT !.created = TRUE, !.startbcf = TRUE]
  <1>1. bc \in BcStates /\ bc.created \in BOOLEAN /\ (~bc.created => bc.end = Huge)
    BY DEF BcSound, BcStates
  <1>2. /\ still \in BcStates /\ still.created = bc.created /\ still.end = bc.end
        /\ still.list = bc.list /\ still.read = bc.read /\ still.reuseall = bc.reuseall
    BY <1>1 DEF BcStates
  <1>3. /\ new \in BcStates /\ new.created = TRUE
        /\ new.list = bc.list /\ new.read = bc.read /\ new.reuseall = bc.reuseall
    BY <1>1 DEF BcStates
  <1>4. CreatedBc(now, d) = IF bc.created THEN still ELSE new
    BY <1>2, Zenon DEF CreatedBc, CreateBc
  <1>5. \A c : RenewBc(c, now, d) = c
    BY Zenon DEF RenewBc
  <1>6. b = IF bc.created THEN still ELSE new
    BY <1>4, <1>5, Zenon DEF CurrentBc
  <1> HIDE DEF b, still, new
  <1>7. b \in BcStates /\ b.created = TRUE /\ b.list = bc.list /\ b.read = bc.read
        /\ b.reuseall = bc.reuseall
    BY <1>1, <1>2, <1>3, <1>6
  <1> QED BY <1>7 DEF BcSound, b

\* The table is read up to the first line that ends after the clock.
LEMMA CurrentTable ==
    ASSUME wave \in Waves, wave.kind = "table", BcSound(bc), NEW now \in Nat, NEW d,
           ~InputEnds(now, d), NEW before \in Nat, before <= now,
           bc.created => TableFits(bc, before)
    PROVE  LET b == CurrentBc(now, d)
           IN  /\ BcSound(b) /\ b.created = TRUE /\ TableFits(b, now) /\ now < b.end
               /\ Expired(CreatedBc(now, d), now) => wave.dur[1][1] <= now
  <1> DEFINE b == CurrentBc(now, d)
             still == [bc EXCEPT !.startbcf = FALSE]
             first == EndOf(wave, 1)
             new == [still EXCEPT !.created = TRUE, !.startbcf = TRUE, !.end = first, !.line = 1]
             c == IF bc.created THEN still ELSE new
             L == Len(wave.dur[1])
  <1>1. bc \in BcStates /\ bc.created \in BOOLEAN
    BY DEF BcSound, BcStates
  <1>2. /\ L \in Nat \ {0} /\ wave.dur[1][1] \in Nat \ {0}
        /\ EndOf(wave, 0) = 0 /\ \A n \in 0..L : EndOf(wave, n) \in Nat
        /\ \A n \in 0..L : \A i \in 0..n : EndOf(wave, i) <= EndOf(wave, n)
        /\ \A n \in 1..L : EndOf(wave, n) = EndOf(wave, n - 1) + wave.dur[1][n]
    BY EndsGrow
  <1>3. EndOf(wave, 1) = wave.dur[1][1]
    BY <1>2
  <1>4. /\ still \in BcStates /\ still.created = bc.created /\ still.end = bc.end
        /\ still.line = bc.line
        /\ still.list = bc.list /\ still.read = bc.read /\ still.reuseall = bc.reuseall
    BY <1>1 DEF BcStates
  <1>5. /\ new \in BcStates /\ new.created = TRUE /\ new.end = EndOf(wave, 1) /\ new.line = 1
        /\ new.list = bc.list /\ new.read = bc.read /\ new.reuseall = bc.reuseall
    <2>1. first \in Int
      BY <1>2, <1>3
    <2> HIDE DEF first
    <2>2. /\ new \in BcStates /\ new.created = TRUE /\ new.end = first /\ new.line = 1
          /\ new.list = bc.list /\ new.read = bc.read /\ new.reuseall = bc.reuseall
      BY <1>1, <2>1 DEF BcStates
    <2> QED BY <2>2 DEF first
  <1>6. CreatedBc(now, d) = c
    <2>1. [[still EXCEPT !.created = TRUE, !.startbcf = TRUE] EXCEPT !.end = EndOf(wave, 1),
                                                                     !.line = 1] = new
      BY <1>4 DEF BcStates
    <2> HIDE DEF new
    <2> QED BY <1>4, <2>1, Zenon DEF CreatedBc, CreateBc, ReadTable
  <1> HIDE DEF new, still
  <1>7. /\ c \in BcStates /\ c.created = TRUE /\ c.list = bc.list /\ c.read = bc.read
        /\ c.reuseall = bc.reuseall
    BY <1>1, <1>4, <1>5
  <1>8. TableFits(c, now)
    <2>1. CASE bc.created
      <3>1. /\ bc.line \in 1..L /\ bc.end = EndOf(wave, bc.line) /\ EndOf(wave, bc.line - 1) <= before
        BY <2>1 DEF TableFits
      <3>2. bc.line - 1 \in 0..L
        BY <1>2, <3>1
      <3>3. EndOf(wave, bc.line - 1) \in Nat
        BY <1>2, <3>2
      <3>4. EndOf(wave, bc.line - 1) <= now
        BY <3>1, <3>3
      <3> QED BY <1>4, <2>1, <3>1, <3>4 DEF TableFits
    <2>2. CASE ~bc.created
      <3>1. c.line = 1 /\ c.end = EndOf(wave, 1)
        BY <1>5, <2>2
      <3>2. 1 \in 1..L /\ EndOf(wave, 1 - 1) <= now
        BY <1>2
      <3> QED BY <3>1, <3>2 DEF TableFits
    <2> QED BY <2>1, <2>2
  <1> HIDE DEF c
  <1>9. c.line \in 1..L /\ c.end = EndOf(wave, c.line) /\ c.end \in Nat
    <2>1. c.line \in 1..L /\ c.end = EndOf(wave, c.line)
      BY <1>8 DEF TableFits
    <2> QED BY <1>2, <2>1
  <1>10. BcSound(c)
    BY <1>7 DEF BcSound
  <1>11. Expired(c, now) <=> c.end <= now
    BY <1>7, <1>9 DEF Expired
  <1>12. CASE ~Expired(c, now)
    <2>1. b = c /\ now < c.end
      BY <1>6, <1>9, <1>11, <1>12 DEF CurrentBc
    <2> HIDE DEF b
    <2> QED BY <1>6, <1>7, <1>8, <1>10, <1>12, <2>1, Zenon DEF b
  <1>13. CASE Expired(c, now)
    <2> DEFINE n == Min(TableLines(now))
    <2>1. TableLines(now) # {} /\ TableLines(now) \subseteq 1..L
      BY <1>6, <1>13, Zenon DEF InputEnds, TableLines
    <2>2. n \in TableLines(now) /\ \A m \in TableLines(now) : n <= m
      <3>1. TableLines(now) \subseteq Nat
        BY <1>2, <2>1
      <3> QED BY <2>1, <3>1, MinIsLeast, Zenon
    <2> HIDE DEF n
    <2>3. n \in 1..L /\ now < EndOf(wave, n)
      BY <2>2 DEF TableLines
    <2>4. EndOf(wave, n - 1) <= now
      <3>1. n - 1 \notin TableLines(now)
        BY <2>2, <2>3
      <3>2. n - 1 \in 0..L /\ EndOf(wave, n - 1) \in Nat
        BY <1>2, <2>3
      <3>3. CASE n - 1 = 0
        BY <1>2, <3>3
      <3>4. CASE n - 1 \in 1..L
        <4>1. ~(now < EndOf(wave, n - 1))
          BY <3>1, <3>4 DEF TableLines
        <4> QED BY <3>2, <4>1
      <3> QED BY <2>3, <3>3, <3>4
    <2>5. b = [c EXCEPT !.end = EndOf(wave, n), !.line = n]
      <3>1. b = RenewBc(c, now, d)
        BY <1>6, <1>13, Zenon DEF CurrentBc
      <3> QED BY <3>1 DEF RenewBc, ReadTable, n
    <2> HIDE DEF b
    <2>6. EndOf(wave, n) \in Nat /\ n \in Nat
      BY <1>2, <2>3
    <2>7. /\ b \in BcStates /\ b.created = TRUE /\ b.list = bc.list /\ b.read = bc.read
          /\ b.reuseall = bc.reuseall /\ b.line = n /\ b.end = EndOf(wave, n)
      <3> DEFINE end == EndOf(wave, n)
      <3>1. b = [c EXCEPT !.end = end, !.line = n] /\ end \in Int
        BY <2>5, <2>6
      <3> HIDE DEF end
      <3>2. /\ b \in BcStates /\ b.created = TRUE /\ b.list = bc.list /\ b.read = bc.read
            /\ b.reuseall = bc.reuseall /\ b.line = n /\ b.end = end
        BY <1>7, <2>6, <3>1 DEF BcStates
      <3> QED BY <3>2 DEF end
    <2>8. BcSound(b)
      BY <2>7 DEF BcSound
    <2>9. TableFits(b, now)
      BY <2>3, <2>4, <2>7 DEF TableFits
    <2>10. wave.dur[1][1] <= now
      <3>1. 1 \in 0..c.line /\ c.line \in 0..L
        BY <1>9
      <3>2. EndOf(wave, 1) <= EndOf(wave, c.line)
        BY <1>2, <3>1
      <3> QED BY <1>2, <1>3, <1>9, <1>11, <1>13, <3>2
    <2> QED BY <2>3, <2>7, <2>8, <2>9, <2>10, Zenon DEF b
  <1> QED BY <1>12, <1>13
-----------------------------------------------------------------------------
(* What a call of executestep does *)

\* The Courant limit bounds the step, whatever the driver gives.
LEMMA StepObeys ==
    ASSUME IInv, ExecuteStep
    PROVE  \E c \in CflSteps : c \in Nat \ {0} /\ dt' <= c
  <1>1. PICK limit \in CflSteps : \E chosen \in DtChoices(limit) : \E step \in Nat :
            StepTaken(limit, chosen, step)
    BY SomeStepTaken
  <1>2. PICK chosen \in DtChoices(limit) : \E step \in Nat : StepTaken(limit, chosen, step)
    BY <1>1
  <1>3. PICK step \in Nat : StepTaken(limit, chosen, step)
    BY <1>2
  <1>4. limit \in Nat \ {0} /\ t \in Nat /\ tnext \in Nat /\ t <= tnext
    BY <1>3, ClockTypes, StepsAssumption
  <1>5. chosen \in Nat \ {0} /\ chosen <= limit
    <2>1. chosen \in Nat \ {0}
      BY <1>4, ChosenIsStep
    <2>2. \/ chosen = limit
          \/ tnext - t \in Nat \ {0} /\ chosen \in Smoothed(tnext - t, limit)
      BY <1>4 DEF DtChoices
    <2> QED BY <1>4, <2>1, <2>2, SmoothedBelowLimit
  <1>6. dt' <= limit
    BY <1>3, <1>4, <1>5 DEF StepTaken
  <1> QED BY <1>4, <1>6

LEMMA StepMoves ==
    ASSUME IInv, WaveStep
    PROVE  /\ t \in Nat /\ t' \in Nat /\ dt' \in Nat /\ t <= t' /\ t' <= t + dt'
           /\ t' < Huge /\ par.tstop \in Nat /\ par' = par /\ t' <= par.tstop
           /\ Going /\ (\E c \in CflSteps : c \in Nat \ {0} /\ dt' <= c)
           /\ \/ error' = 1 /\ UNCHANGED waveVars
              \/ error' # 1 /\ halted' = "input" /\ UNCHANGED <<wave, bc, sig, srs, taper>>
              \/ error' # 1 /\ ~InputEnds(t', dt') /\ WaveBc(t', dt')
  <1>1. Running /\ ExecuteStep
    BY DEF WaveStep
  <1>2. /\ error = 0 /\ par' = par /\ t' = t + dt' /\ t <= t' /\ t' <= tnext /\ dt' \in Nat
    BY <1>1, ClockMoves
  <1>3. /\ par \in Pars /\ par.tstop \in Nat /\ t \in Nat /\ tnext \in Nat /\ tnext <= par.tstop
    BY ClockTypes
  <1>4. par.tstop < Huge /\ Huge \in Nat
    BY <1>3, WavesAssumption DEF Huge
  <1>5. t' \in Nat /\ t' < Huge /\ t' <= t + dt' /\ t' <= par.tstop
    <2>1. \A a, b, n, stop \in Nat :
              a + b <= n /\ n <= stop /\ stop < Huge => a + b \in Nat /\ a + b < Huge /\ a + b <= stop
      BY <1>4
    <2>2. \A a, b \in Nat : a + b <= a + b
      OBVIOUS
    <2>3. t + dt' <= tnext
      BY <1>2, Zenon
    <2>4. tnext <= par.tstop /\ par.tstop \in Nat
      BY <1>3
    <2> QED BY <1>2, <1>3, <1>4, <2>1, <2>2, <2>3, <2>4, Zenon
  <1>6. \/ error' = 1 /\ UNCHANGED waveVars
        \/ error' # 1 /\ halted' = "input" /\ UNCHANGED <<wave, bc, sig, srs, taper>>
        \/ error' # 1 /\ ~InputEnds(t', dt') /\ WaveBc(t', dt')
    BY Zenon DEF WaveStep
  <1> QED BY <1>1, <1>2, <1>3, <1>5, <1>6, StepObeys DEF Going

\* The other steps leave the clock and the conditions alone.
LEMMA OtherSteps ==
    ASSUME [WaveNext]_<<vars, waveVars>>, ~WaveStep
    PROVE  UNCHANGED <<par, t, dt, error>> /\ UNCHANGED waveVars
  BY Zenon DEF WaveNext, WaveFirstOutput, WaveOutputExt, WaveFinal, FirstOutput, OutputExt, Final,
               vars
-----------------------------------------------------------------------------
(* Records and durations *)

\* The number of records of length k that begin after a and not after b.
LEMMA SlotsBetween ==
    ASSUME NEW k \in Nat \ {0}, NEW a \in Nat, NEW b \in Nat, a <= b
    PROVE  /\ a \div k \in Nat /\ b \div k \in Nat /\ a \div k <= b \div k
           /\ k * (b \div k - a \div k) <= b - a + k - 1
           /\ b - a <= k => b \div k <= a \div k + 1
  <1> DEFINE p == a \div k
             q == b \div k
  <1>1. p \in Nat /\ k * p \in Nat /\ k * p <= a /\ a < k * p + k
    BY Division
  <1>2. q \in Nat /\ k * q \in Nat /\ k * q <= b /\ b < k * q + k
    BY Division
  <1> HIDE DEF p, q
  <1>3. ~(q <= p - 1)
    <2> SUFFICES ASSUME q <= p - 1 PROVE FALSE
      OBVIOUS
    <2>1. k * q <= k * (p - 1)
      BY <1>1, <1>2, ProductOrder
    <2>2. k * (p - 1) = k * p - k
      BY <1>1
    <2> QED BY <1>1, <1>2, <2>1, <2>2
  <1>4. k * (q - p) = k * q - k * p
    BY <1>1, <1>2
  <1>5. k * (q - p) <= b - a + k - 1
    BY <1>1, <1>2, <1>4
  <1>6. ASSUME b - a <= k PROVE q <= p + 1
    <2> SUFFICES ASSUME p + 2 <= q PROVE FALSE
      BY <1>1, <1>2
    <2>1. k * (p + 2) <= k * q
      BY <1>1, <1>2, ProductOrder
    <2>2. k * (p + 2) = k * p + 2 * k
      BY <1>1
    <2> QED BY <1>1, <1>2, <1>6, <2>1, <2>2
  <1> QED BY <1>1, <1>2, <1>3, <1>5, <1>6 DEF p, q

LEMMA SlotsGrow ==
    ASSUME wave \in Waves, NEW a \in Nat, NEW b \in Nat, a <= b
    PROVE  /\ Slot(a) \in Nat \ {0} /\ Slot(b) \in Nat \ {0} /\ Slot(a) <= Slot(b)
           /\ b - a <= wave.dtbc => Slot(b) <= Slot(a) + 1
           /\ Slot(b) - Slot(a) = b \div wave.dtbc - a \div wave.dtbc
  <1> DEFINE k == wave.dtbc
             p == a \div k
             q == b \div k
  <1>1. k \in Nat \ {0}
    BY WaveSound, Zenon
  <1> HIDE DEF k
  <1>2. p \in Nat /\ q \in Nat /\ p <= q /\ (b - a <= k => q <= p + 1)
    BY <1>1, SlotsBetween
  <1>3. Slot(a) = p + 1 /\ Slot(b) = q + 1
    BY DEF Slot, k
  <1> HIDE DEF p, q
  <1>4. /\ p + 1 \in Nat \ {0} /\ q + 1 \in Nat \ {0} /\ p + 1 <= q + 1 /\ (q + 1) - (p + 1) = q - p
        /\ b - a <= k => q + 1 <= (p + 1) + 1
    BY <1>1, <1>2
  <1> QED BY <1>3, <1>4, Zenon DEF k, p, q

\* The next records, and how many of them the clock has moved on by.
LEMMA NextRecordsSound ==
    ASSUME sig.recpos \in Nat, sig.old \in Nat, NEW now, Slot(now) \in Nat, sig.old <= Slot(now)
    PROVE  LET s == NextRecords(now)
           IN  /\ s.old = Slot(now) /\ s.recpos \in Nat
               /\ s.recpos = sig.recpos + (Slot(now) - sig.old)
               /\ \A before : /\ Neighbours(sig, before)
                              /\ ShortSteps => Slot(now) <= sig.old + 1
                              => Neighbours(s, now)
  <1> DEFINE s == NextRecords(now)
             pos == sig.recpos + Slot(now) - sig.old
  <1>1. pos \in Nat /\ pos = sig.recpos + (Slot(now) - sig.old)
    OBVIOUS
  <1>2. CASE Slot(now) = sig.old
    <2>1. s = sig
      BY <1>2, Zenon DEF NextRecords
    <2>2. sig.recpos = sig.recpos + (Slot(now) - sig.old)
      BY <1>2
    <2> HIDE DEF s
    <2> QED BY <1>2, <2>1, <2>2, Zenon DEF Neighbours, s
  <1>3. CASE Slot(now) > sig.old + 1
    <2>1. s = [old |-> Slot(now), recpos |-> pos, e |-> <<pos, pos + 1>>,
               q |-> IF InParallel THEN <<pos, pos + 1>> ELSE <<pos + 1, pos + 1>>]
      BY <1>3 DEF NextRecords
    <2> HIDE DEF pos, s
    <2>2. s.old = Slot(now) /\ s.recpos = pos /\ s.e = <<pos, pos + 1>>
          /\ (InParallel => s.q = <<pos, pos + 1>>)
      BY <2>1
    <2>3. ~(Slot(now) <= sig.old + 1)
      BY <1>3
    <2> QED BY <1>1, <2>2, <2>3, Zenon DEF Neighbours, s
  <1>4. CASE Slot(now) = sig.old + 1
    <2>1. s = [old |-> Slot(now), recpos |-> pos, e |-> <<sig.e[2], pos + 1>>,
               q |-> <<sig.q[2], pos + 1>>]
      BY <1>4 DEF NextRecords
    <2>2. pos = sig.recpos + 1
      BY <1>4
    <2> HIDE DEF pos, s
    <2>3. s.old = Slot(now) /\ s.recpos = pos /\ s.e = <<sig.e[2], pos + 1>>
          /\ s.q = <<sig.q[2], pos + 1>>
      BY <2>1
    <2>4. ASSUME NEW before, Neighbours(sig, before) PROVE Neighbours(s, now)
      <3>1. sig.e[2] = pos
        BY <2>2, <2>4 DEF Neighbours
      <3>2. InParallel \/ ShortSteps => sig.q[2] = pos
        BY <2>2, <2>4, <3>1 DEF Neighbours
      <3> QED BY <2>3, <3>1, <3>2, Zenon DEF Neighbours
    <2> QED BY <1>1, <2>3, <2>4, Zenon DEF s
  <1> QED BY <1>2, <1>3, <1>4

LEMMA FirstRecordsSound ==
    ASSUME NEW now
    PROVE  LET s == FirstRecords(now)
           IN  s.old = Slot(now) /\ s.recpos = 1 /\ Neighbours(s, now)
  BY DEF FirstRecords, Neighbours
-----------------------------------------------------------------------------
(* velocity_Boundary *)

LEMMA WindowSound ==
    ASSUME NEW file \in Seq(Int), NEW k \in 1..(Len(file) - 1)
    PROVE  Window(file, k) \in SrsStates(file) /\ Window(file, k).pos > 0
  <1> DEFINE L == Len(file)
  <1>1. file[k] \in Int /\ file[k + 1] \in Int /\ k + 1 \in 0..L /\ k \in Nat
    OBVIOUS
  <1> DEFINE p == k + 1
             a == file[k]
             c == file[k + 1]
  <1>2. Window(file, k) = [pos |-> p, t0 |-> a, t1 |-> c, u0 |-> k, u1 |-> p,
                           eof |-> FALSE, ug |-> <<k, p>>]
    BY Zenon DEF Window
  <1>3. p \in 0..L /\ p > 0 /\ p \in Nat /\ a \in Int /\ c \in Int /\ k \in Nat
    BY <1>1
  <1> HIDE DEF p, a, c, L
  <1>4. Window(file, k).pos > 0
    BY <1>2, <1>3
  <1>5. <<k, p>> \in Nat \X Nat
    BY <1>3
  <1> DEFINE g == <<k, p>>
  <1>6. Window(file, k) = [pos |-> p, t0 |-> a, t1 |-> c, u0 |-> k, u1 |-> p,
                           eof |-> FALSE, ug |-> g] /\ g \in Nat \X Nat
    BY <1>2, <1>5
  <1> HIDE DEF g
  <1>7. Window(file, k) \in SrsStates(file)
    BY <1>3, <1>6 DEF SrsStates, L
  <1> QED BY <1>4, <1>7

LEMMA SeriesSound ==
    ASSUME NEW file \in Seq(Int), Len(file) > 0, NEW s \in SrsStates(file), NEW now \in Int
    PROVE  /\ OpenSeries(file, s) \in SrsStates(file) /\ OpenSeries(file, s).pos > 0
           /\ s.pos > 0 => /\ ReadSeries(file, s, now) \in SrsStates(file)
                           /\ ReadSeries(file, s, now).pos > 0
  <1> DEFINE L == Len(file)
  <1>1. L \in Nat \ {0} /\ \A k \in 1..L : file[k] \in Int
    OBVIOUS
  <1>2. /\ s.pos \in 0..L /\ s.t0 \in Int /\ s.t1 \in Int /\ s.u0 \in Nat /\ s.u1 \in Nat
        /\ s.eof \in BOOLEAN /\ s.ug \in Nat \X Nat
    BY DEF SrsStates
  <1>3. \A k \in 1..(L - 1) : Window(file, k) \in SrsStates(file) /\ Window(file, k).pos > 0
    BY <1>1, WindowSound
  <1>4. OpenSeries(file, s) \in SrsStates(file) /\ OpenSeries(file, s).pos > 0
    <2>1. CASE L > 1
      <3>1. file[1] \in Int /\ file[2] \in Int /\ 2 \in 0..L
        BY <1>1, <2>1
      <3>2. OpenSeries(file, s) = [pos |-> 2, t0 |-> file[1], t1 |-> file[2], u0 |-> 1, u1 |-> 2,
                                   eof |-> FALSE, ug |-> <<1, 2>>]
        BY <2>1, Zenon DEF OpenSeries
      <3> QED BY <3>1, <3>2 DEF SrsStates
    <2>2. CASE ~(L > 1)
      <3>1. file[1] \in Int /\ 1 \in 0..L
        BY <1>1
      <3>2. OpenSeries(file, s) = [pos |-> 1, t0 |-> file[1], t1 |-> s.t1, u0 |-> 1, u1 |-> 1,
                                   eof |-> TRUE, ug |-> <<1, 1>>]
        BY <2>2, Zenon DEF OpenSeries
      <3> QED BY <1>2, <3>1, <3>2 DEF SrsStates
    <2> QED BY <2>1, <2>2
  <1>5. \A u, v \in Nat : /\ [s EXCEPT !.ug = <<u, v>>] \in SrsStates(file)
                          /\ [s EXCEPT !.ug = <<u, v>>].pos = s.pos
    BY DEF SrsStates
  <1>6. AtEnd(file, s) \in SrsStates(file) /\ AtEnd(file, s).pos > 0
    <2> DEFINE last == IF s.pos = L THEN Junk ELSE L
    <2>1. last \in Nat /\ file[L] \in Int /\ L \in 0..L /\ L \in Nat
      BY <1>1 DEF Junk
    <2>2. AtEnd(file, s) = [pos |-> L, t0 |-> file[L], t1 |-> file[L], u0 |-> L, u1 |-> last,
                            eof |-> TRUE, ug |-> <<last, last>>]
      BY Zenon DEF AtEnd
    <2> HIDE DEF last
    <2> QED BY <2>1, <2>2 DEF SrsStates
  <1>7. ASSUME s.pos > 0, Stops(file, s, now) # {}
        PROVE  /\ Window(file, Min(Stops(file, s, now))) \in SrsStates(file)
               /\ Window(file, Min(Stops(file, s, now))).pos > 0
    <2> DEFINE T == Stops(file, s, now)
    <2>0. T \subseteq s.pos..(L - 1)
      BY Zenon DEF Stops
    <2>1. T \subseteq Nat /\ T \subseteq 1..(L - 1)
      <3>1. s.pos..(L - 1) \subseteq 1..(L - 1) /\ 1..(L - 1) \subseteq Nat
        BY <1>1, <1>2, <1>7
      <3> QED BY <2>0, <3>1, Zenon
    <2>2. Min(T) \in T
      <3>1. T # {}
        BY <1>7
      <3> HIDE DEF T
      <3> QED BY <2>1, <3>1, MinIsLeast
    <2> HIDE DEF T
    <2>3. Min(T) \in 1..(L - 1)
      BY <2>1, <2>2
    <2> QED BY <1>3, <2>3, Zenon DEF T
  <1>8. ASSUME s.pos > 0
        PROVE  ReadSeries(file, s, now) \in SrsStates(file) /\ ReadSeries(file, s, now).pos > 0
    <2> DEFINE r == ReadSeries(file, s, now)
    <2>1. CASE s.eof \/ InWindow(s, now)
      <3>1. PICK u, v \in Nat : r = [s EXCEPT !.ug = <<u, v>>]
        BY <1>2, <2>1, Zenon DEF ReadSeries
      <3> HIDE DEF r
      <3>2. [s EXCEPT !.ug = <<u, v>>].pos = s.pos
        BY <1>5
      <3> QED BY <1>5, <1>8, <3>1, <3>2 DEF r
    <2>2. CASE ~s.eof /\ ~InWindow(s, now) /\ Stops(file, s, now) # {}
      BY <1>7, <1>8, <2>2, Zenon DEF ReadSeries
    <2>3. CASE ~s.eof /\ ~InWindow(s, now) /\ ~(Stops(file, s, now) # {})
      BY <1>6, <2>3, Zenon DEF ReadSeries
    <2> QED BY <2>1, <2>2, <2>3
  <1> QED BY <1>4, <1>8

\* A call follows the clock on from a pair of records that is not ahead of it.
LEMMA SeriesFollowsClock ==
    ASSUME NEW file \in Seq(Int), Len(file) > 1, NEW k \in 1..(Len(file) - 1), NEW now \in Int,
           file[k] <= now
    PROVE  SeriesFits(file, ReadSeries(file, Window(file, k), now), now)
  <1> DEFINE L == Len(file)
             s == Window(file, k)
             r == ReadSeries(file, s, now)
  <1>1. L \in Nat /\ \A j \in 1..L : file[j] \in Int
    OBVIOUS
  <1>2. /\ s.pos = k + 1 /\ s.t0 = file[k] /\ s.t1 = file[k + 1] /\ s.u0 = k /\ s.u1 = k + 1
        /\ s.eof = FALSE
    BY DEF Window
  <1>3. [s EXCEPT !.ug = <<k, k + 1>>] = s
    <2>1. s.ug = <<k, k + 1>>
      BY DEF Window
    <2>2. s \in SrsStates(file)
      BY <1>1, WindowSound
    <2> HIDE DEF s
    <2>3. [s EXCEPT !.ug = s.ug] = s
      BY <2>2 DEF SrsStates
    <2> QED BY <2>1, <2>3
  <1> HIDE DEF s
  <1>4. CASE InWindow(s, now)
    <2>1. r = s
      BY <1>2, <1>3, <1>4, Zenon DEF ReadSeries
    <2>2. now < file[k + 1]
      BY <1>2, <1>4 DEF InWindow
    <2> HIDE DEF r
    <2>3. s.eof = FALSE /\ s = Window(file, k)
      BY <1>2 DEF s
    <2> QED BY <2>1, <2>2, <2>3 DEF SeriesFits, r
  <1>5. CASE ~InWindow(s, now) /\ Stops(file, s, now) # {}
    <2> DEFINE T == Stops(file, s, now)
               m == Min(T)
    <2>1. \A j \in T : j \in 1..(L - 1) /\ file[j] <= now /\ now < file[j + 1]
      BY <1>2 DEF Stops
    <2>2. T \subseteq Nat /\ T # {}
      BY <1>5, <2>1
    <2>3. m \in T
      <3> HIDE DEF T
      <3> QED BY <2>2, MinIsLeast
    <2>4. r = Window(file, m)
      BY <1>2, <1>5, Zenon DEF ReadSeries
    <2> HIDE DEF m, T, r
    <2>5. m \in 1..(L - 1) /\ file[m] <= now /\ now < file[m + 1]
      BY <2>1, <2>3
    <2>6. r.eof = FALSE
      BY <2>4 DEF Window
    <2>7. \E i \in 1..(L - 1) : r = Window(file, i) /\ file[i] <= now /\ now < file[i + 1]
      BY <2>4, <2>5, Zenon
    <2>8. SeriesFits(file, r, now)
      BY <2>6, <2>7, Zenon DEF SeriesFits
    <2> QED BY <2>8 DEF r, s
  <1>6. CASE ~InWindow(s, now) /\ Stops(file, s, now) = {}
    <2>1. file[k + 1] <= now
      <3>1. ~(now < file[k + 1])
        BY <1>2, <1>6, Zenon DEF InWindow
      <3> QED BY <1>1, <3>1
    <2>2. \A j \in (k + 1)..(L - 1) : file[j] <= now => file[j + 1] <= now
      <3> TAKE j \in (k + 1)..(L - 1)
      <3>1. j \notin Stops(file, s, now)
        BY <1>6
      <3>2. ~(file[j] <= now /\ now < file[j + 1])
        BY <1>2, <3>1 DEF Stops
      <3>3. file[j + 1] \in Int
        BY <1>1
      <3> QED BY <3>2, <3>3
    <2> DEFINE G == {i \in Nat : k + 1 + i <= L => file[k + 1 + i] <= now}
    <2>3. 0 \in G
      BY <2>1
    <2>4. ASSUME NEW i \in Nat, i \in G PROVE i + 1 \in G
      <3> SUFFICES ASSUME k + 1 + (i + 1) <= L PROVE file[k + 1 + (i + 1)] <= now
        OBVIOUS
      <3> DEFINE j == k + 1 + i
      <3>1. j \in (k + 1)..(L - 1) /\ file[j] <= now /\ j + 1 = k + 1 + (i + 1)
        BY <1>1, <2>4
      <3> HIDE DEF j
      <3> QED BY <2>2, <3>1
    <2>5. Nat \subseteq G
      <3> HIDE DEF G
      <3> QED BY <2>3, <2>4, NaturalInduction
    <2>6. file[L] <= now
      <3>1. L - (k + 1) \in Nat /\ k + 1 + (L - (k + 1)) = L
        BY <1>1
      <3>2. L - (k + 1) \in G
        BY <2>5, <3>1
      <3> QED BY <1>1, <3>1, <3>2
    <2>7. r = AtEnd(file, s)
      BY <1>2, <1>6, Zenon DEF ReadSeries
    <2>8. r.eof = TRUE
      BY <2>7 DEF AtEnd
    <2> HIDE DEF r
    <2>9. SeriesFits(file, r, now)
      BY <2>6, <2>8, Zenon DEF SeriesFits
    <2> QED BY <2>9 DEF r, s
  <1> QED BY <1>4, <1>5, <1>6
-----------------------------------------------------------------------------
(* wave_bc as a whole *)

LEMMA CurrentSound ==
    ASSUME WaveTypes, TableInv, t \in Nat, par.tstop \in Nat, NEW now \in Nat, t <= now, now < Huge,
           NEW d \in Nat, ~InputEnds(now, d)
    PROVE  BcSound(CurrentBc(now, d)) /\ CurrentBc(now, d).created = TRUE
  <1>1. wave \in Waves /\ BcSound(bc)
    BY DEF WaveTypes
  <1>2. CASE wave.kind = "table"
    <2>1. bc.created => TableFits(bc, t)
      BY <1>2, Zenon DEF TableInv
    <2> QED BY <1>1, <1>2, <2>1, CurrentTable, Zenon
  <1>3. CASE wave.kind = "spectra"
    BY <1>1, <1>3, CurrentSpectra, Zenon
  <1>4. CASE wave.kind = "reuse"
    BY <1>1, <1>4, CurrentReuse, Zenon
  <1>5. CASE wave.kind = "series"
    BY <1>1, <1>5, CurrentSeriesBc, Zenon
  <1> QED BY <1>1, <1>2, <1>3, <1>4, <1>5, WaveSound

\* The end of a condition is read from its line.
WithEnd(b) == [b EXCEPT !.end = IF b.startbcf THEN b.list[b.line].end ELSE @]

LEMMA WithEndSound ==
    ASSUME NEW b, BcSound(b), b.created = TRUE, Listed(b)
    PROVE  LET c == WithEnd(b)
           IN  /\ BcSound(c) /\ c.created = TRUE /\ c.count = b.count /\ c.line = b.line
               /\ c.list = b.list /\ c.specend = b.specend /\ c.rt = b.rt /\ c.read = b.read
               /\ c.reuseall = b.reuseall /\ c.startbcf = b.startbcf
               /\ c.end = IF b.startbcf THEN b.list[b.line].end ELSE b.end
  <1> DEFINE end == IF b.startbcf THEN b.list[b.line].end ELSE b.end
             c == WithEnd(b)
  <1>1. b \in BcStates
    BY DEF BcSound
  <1>2. b.list[b.line].end \in Int
    <2>1. b.list \in Seq(Lines) /\ b.line \in 1..Len(b.list)
      BY <1>1 DEF BcStates, Listed
    <2>2. b.list[b.line] \in Lines
      BY <2>1
    <2> QED BY <2>2 DEF Lines
  <1>3. end \in Int
    BY <1>1, <1>2 DEF BcStates
  <1>4. c = [b EXCEPT !.end = end]
    BY DEF WithEnd
  <1> HIDE DEF end, c
  <1>5. /\ c \in BcStates /\ c.created = TRUE /\ c.count = b.count /\ c.line = b.line
        /\ c.list = b.list /\ c.specend = b.specend /\ c.rt = b.rt /\ c.read = b.read
        /\ c.reuseall = b.reuseall /\ c.startbcf = b.startbcf /\ c.end = end
    BY <1>1, <1>3, <1>4 DEF BcStates
  <1>6. BcSound(c)
    BY <1>5 DEF BcSound
  <1> QED BY <1>5, <1>6, Zenon DEF c, end

LEMMA WaveBcCases ==
    ASSUME NEW now, NEW d, WaveBc(now, d)
    PROVE  LET b == CurrentBc(now, d)
           IN  /\ wave' = wave /\ taper' = TaperAfter(now, d)
               /\ srs' = IF wave.kind = "series" THEN CurrentSeries(now) ELSE srs
               /\ \/ Surfbeat /\ ~Listed(b) /\ halted' = "line" /\ bc' = b /\ sig' = sig
                  \/ /\ Surfbeat /\ Listed(b) /\ bc' = WithEnd(b) /\ sig' = CurrentRecords(b, now)
                     /\ halted' = IF sig'.recpos + 1 > SignalRecords(b) THEN "record" ELSE "no"
                  \/ ~Surfbeat /\ bc' = b /\ sig' = sig /\ halted' = "no"
  BY Zenon DEF WaveBc, WithEnd

LEMMA WaveBcTypes ==
    ASSUME WaveTypes, TableInv, t \in Nat, par.tstop \in Nat, NEW now \in Nat, t <= now, now < Huge,
           NEW d \in Nat, ~InputEnds(now, d), WaveBc(now, d)
    PROVE  /\ wave' = wave /\ BcSound(bc') /\ bc'.created = TRUE
           /\ srs' \in SrsStates(wave.file) /\ (wave.kind = "series" => srs'.pos > 0)
           /\ sig'.recpos \in Nat /\ sig'.old \in Nat /\ sig'.old <= Slot(now)
           /\ taper' \in [master : {0, Taper}, rest : {Taper}]
           /\ halted' \in {"no", "input", "line", "record"}
  <1> DEFINE b == CurrentBc(now, d)
  <1>1. BcSound(b) /\ b.created = TRUE
    BY CurrentSound
  <1> HIDE DEF b
  <1>2. /\ wave' = wave /\ taper' = TaperAfter(now, d)
        /\ srs' = IF wave.kind = "series" THEN CurrentSeries(now) ELSE srs
        /\ \/ Surfbeat /\ ~Listed(b) /\ halted' = "line" /\ bc' = b /\ sig' = sig
           \/ /\ Surfbeat /\ Listed(b) /\ bc' = WithEnd(b) /\ sig' = CurrentRecords(b, now)
              /\ halted' = IF sig'.recpos + 1 > SignalRecords(b) THEN "record" ELSE "no"
           \/ ~Surfbeat /\ bc' = b /\ sig' = sig /\ halted' = "no"
    BY WaveBcCases DEF b
  <1>3. BcSound(bc') /\ bc'.created = TRUE
    BY <1>1, <1>2, WithEndSound, Zenon
  <1>4. halted' \in {"no", "input", "line", "record"}
    BY <1>2
  <1>5. taper' \in [master : {0, Taper}, rest : {Taper}]
    BY <1>2 DEF TaperAfter, WaveTypes
  <1>6. wave \in Waves /\ srs \in SrsStates(wave.file)
    BY DEF WaveTypes
  <1>7. srs' \in SrsStates(wave.file) /\ (wave.kind = "series" => srs'.pos > 0)
    <2>1. CASE wave.kind = "series"
      <3> DEFINE s == IF bc.created THEN srs ELSE OpenSeries(wave.file, srs)
      <3>1. wave.file \in Seq(Int) /\ Len(wave.file) > 0 /\ now \in Int
        BY <1>6, <2>1, WaveSound
      <3>2. s \in SrsStates(wave.file) /\ s.pos > 0
        <4>1. CASE bc.created
          BY <1>6, <2>1, <4>1 DEF WaveTypes
        <4>2. CASE ~bc.created
          BY <1>6, <3>1, <4>2, SeriesSound
        <4> QED BY <4>1, <4>2
      <3>3. srs' = ReadSeries(wave.file, s, now)
        BY <1>2, <2>1, Zenon DEF CurrentSeries
      <3> HIDE DEF s
      <3> QED BY <3>1, <3>2, <3>3, SeriesSound
    <2>2. CASE wave.kind # "series"
      BY <1>2, <1>6, <2>2
    <2> QED BY <2>1, <2>2
  <1>8. sig'.recpos \in Nat /\ sig'.old \in Nat /\ sig'.old <= Slot(now)
    <2>1. /\ sig.recpos \in Nat /\ sig.old \in Nat /\ Slot(t) \in Nat /\ Slot(now) \in Nat
          /\ sig.old <= Slot(now)
      BY <1>6, SlotsGrow DEF WaveTypes
    <2>2. CASE sig' = sig
      BY <2>1, <2>2
    <2>3. CASE sig' = CurrentRecords(b, now)
      <3>1. CASE b.startbcf
        <4>1. sig' = FirstRecords(now)
          BY <2>3, <3>1, Zenon DEF CurrentRecords
        <4>2. sig'.old = Slot(now) /\ sig'.recpos = 1
          BY <4>1, FirstRecordsSound
        <4> QED BY <2>1, <4>2
      <3>2. CASE ~b.startbcf
        <4>1. sig' = NextRecords(now)
          BY <2>3, <3>2, Zenon DEF CurrentRecords
        <4>2. sig'.old = Slot(now) /\ sig'.recpos \in Nat
          BY <2>1, <4>1, NextRecordsSound
        <4> QED BY <2>1, <4>2
      <3> QED BY <3>1, <3>2
    <2> QED BY <1>2, <2>2, <2>3
  <1> QED BY <1>2, <1>3, <1>4, <1>5, <1>7, <1>8

\* The input does not change.
LEMMA SoundNext ==
    ASSUME wave' = wave, BcSound(bc')
    PROVE  BcSound(bc)'
  <1>1. BcStates' = BcStates
    BY DEF BcStates
  <1>2. FormerList(wave)' = FormerList(wave)
    BY Zenon
  <1> QED BY <1>1, <1>2, Zenon DEF BcSound

LEMMA SameTypes ==
    ASSUME WaveTypes, t \in Nat, t' \in Nat, t <= t', wave' = wave, bc' = bc, srs' = srs, sig' = sig,
           taper' = taper, halted' \in {halted, "input"}
    PROVE  WaveTypes'
  <1>1. BcSound(bc)'
    <2>1. BcSound(bc')
      BY DEF WaveTypes
    <2> QED BY <2>1, SoundNext
  <1>2. Slot(t)' = Slot(t')
    BY Zenon DEF Slot
  <1>3. sig.old <= Slot(t')
    <2>1. Slot(t) \in Nat /\ Slot(t') \in Nat /\ Slot(t) <= Slot(t') /\ sig.old \in Nat
      BY SlotsGrow DEF WaveTypes
    <2> QED BY <2>1 DEF WaveTypes
  <1>4. sig'.old <= Slot(t)'
    BY <1>2, <1>3, Zenon
  <1>5. halted' \in {"no", "input", "line", "record"}
    BY DEF WaveTypes
  <1> QED BY <1>1, <1>4, <1>5, Zenon DEF WaveTypes

LEMMA NextWaveTypes ==
    ASSUME IInv, WaveTypes, TableInv, [WaveNext]_<<vars, waveVars>>
    PROVE  WaveTypes'
  <1>1. CASE WaveStep
    <2>1. /\ t \in Nat /\ t' \in Nat /\ dt' \in Nat /\ t <= t' /\ t' < Huge /\ par.tstop \in Nat
          /\ \/ error' = 1 /\ UNCHANGED waveVars
             \/ error' # 1 /\ halted' = "input" /\ UNCHANGED <<wave, bc, sig, srs, taper>>
             \/ error' # 1 /\ ~InputEnds(t', dt') /\ WaveBc(t', dt')
      BY <1>1, StepMoves
    <2>2. CASE error' = 1 /\ UNCHANGED waveVars
      BY <2>1, <2>2, SameTypes DEF waveVars
    <2>3. CASE halted' = "input" /\ UNCHANGED <<wave, bc, sig, srs, taper>>
      BY <2>1, <2>3, SameTypes
    <2>4. CASE ~InputEnds(t', dt') /\ WaveBc(t', dt')
      <3>1. /\ wave' = wave /\ BcSound(bc') /\ bc'.created = TRUE
            /\ srs' \in SrsStates(wave.file) /\ (wave.kind = "series" => srs'.pos > 0)
            /\ sig'.recpos \in Nat /\ sig'.old \in Nat /\ sig'.old <= Slot(t')
            /\ taper' \in [master : {0, Taper}, rest : {Taper}]
            /\ halted' \in {"no", "input", "line", "record"}
        BY <2>1, <2>4, WaveBcTypes
      <3>2. BcSound(bc)'
        BY <3>1, SoundNext
      <3>3. sig'.old <= Slot(t)'
        BY <3>1, Zenon DEF Slot
      <3>4. wave' \in Waves /\ srs' \in SrsStates(wave'.file)
        BY <3>1 DEF WaveTypes
      <3> QED BY <3>1, <3>2, <3>3, <3>4 DEF WaveTypes
    <2> QED BY <2>1, <2>2, <2>3, <2>4, Zenon
  <1>2. CASE ~WaveStep
    <2>1. UNCHANGED <<par, t, dt, error>> /\ UNCHANGED waveVars
      BY <1>2, OtherSteps
    <2>2. t \in Nat /\ t <= t
      BY ClockTypes
    <2> QED BY <2>1, <2>2, SameTypes DEF waveVars
  <1> QED BY <1>1, <1>2

LEMMA NextFirst ==
    ASSUME IInv, WaveTypes, TableInv, FirstInv, [WaveNext]_<<vars, waveVars>>
    PROVE  FirstInv'
  <1>1. CASE WaveStep
    <2>1. /\ t \in Nat /\ t' \in Nat /\ dt' \in Nat /\ t <= t' /\ t' < Huge /\ par.tstop \in Nat
          /\ \/ error' = 1 /\ UNCHANGED waveVars
             \/ error' # 1 /\ halted' = "input" /\ UNCHANGED <<wave, bc, sig, srs, taper>>
             \/ error' # 1 /\ ~InputEnds(t', dt') /\ WaveBc(t', dt')
      BY <1>1, StepMoves
    <2>2. CASE error' = 1
      BY <2>2 DEF FirstInv, Going
    <2>3. CASE halted' = "input"
      BY <2>3 DEF FirstInv, Going, Running
    <2>4. CASE ~InputEnds(t', dt') /\ WaveBc(t', dt')
      <3>1. bc'.created = TRUE
        BY <2>1, <2>4, WaveBcTypes
      <3> QED BY <3>1 DEF FirstInv
    <2> QED BY <2>1, <2>2, <2>3, <2>4, Zenon
  <1>2. CASE ~WaveStep
    <2>1. UNCHANGED <<par, t, dt, error>> /\ UNCHANGED waveVars
      BY <1>2, OtherSteps
    <2> QED BY <2>1 DEF FirstInv, Going, Running, waveVars
  <1> QED BY <1>1, <1>2
-----------------------------------------------------------------------------
(* Tables *)

LEMMA NextTable ==
    ASSUME IInv, WaveTypes, TableInv, [WaveNext]_<<vars, waveVars>>
    PROVE  TableInv'
  <1>1. wave \in Waves /\ taper.master \in {0, Taper} /\ t \in Nat
    BY ClockTypes DEF WaveTypes
  <1>2. ASSUME wave' = wave, bc' = bc, taper' = taper, t' \in Nat, t <= t', Going' => Going /\ t' = t
        PROVE  TableInv'
    <2> SUFFICES ASSUME wave.kind = "table"
                 PROVE  /\ bc.created => TableFits(bc, t)' /\ (Going' => t' < bc.end)
                        /\ taper.master = Taper \/ wave.dur[1][1] <= t'
      BY <1>2, Zenon DEF TableInv
    <2>1. bc.created => TableFits(bc, t) /\ (Going => t < bc.end)
      BY Zenon DEF TableInv
    <2>2. /\ Len(wave.dur[1]) \in Nat \ {0} /\ wave.dur[1][1] \in Nat \ {0}
          /\ \A n \in 0..Len(wave.dur[1]) : EndOf(wave, n) \in Nat
      BY <1>1, EndsGrow
    <2>3. ASSUME bc.created PROVE TableFits(bc, t)'
      <3>1. /\ bc.line \in 1..Len(wave.dur[1]) /\ bc.end = EndOf(wave, bc.line)
            /\ EndOf(wave, bc.line - 1) <= t
        BY <2>1, <2>3 DEF TableFits
      <3>2. bc.line - 1 \in 0..Len(wave.dur[1])
        BY <2>2, <3>1
      <3>3. EndOf(wave, bc.line - 1) \in Nat
        BY <2>2, <3>2
      <3>4. EndOf(wave, bc.line - 1) <= t'
        BY <1>1, <1>2, <3>1, <3>3
      <3> QED BY <1>2, <3>1, <3>4 DEF TableFits
    <2>4. ASSUME taper.master # Taper PROVE wave.dur[1][1] <= t'
      <3>1. wave.dur[1][1] <= t
        BY <2>4 DEF TableInv
      <3> QED BY <1>1, <1>2, <2>2, <3>1
    <2> QED BY <1>2, <2>1, <2>3, <2>4
  <1>3. CASE WaveStep
    <2>1. /\ t \in Nat /\ t' \in Nat /\ dt' \in Nat /\ t <= t' /\ t' < Huge /\ par.tstop \in Nat
          /\ \/ error' = 1 /\ UNCHANGED waveVars
             \/ error' # 1 /\ halted' = "input" /\ UNCHANGED <<wave, bc, sig, srs, taper>>
             \/ error' # 1 /\ ~InputEnds(t', dt') /\ WaveBc(t', dt')
      BY <1>3, StepMoves
    <2>2. CASE error' = 1 /\ UNCHANGED waveVars
      BY <1>2, <2>1, <2>2 DEF Going, waveVars
    <2>3. CASE halted' = "input" /\ UNCHANGED <<wave, bc, sig, srs, taper>>
      BY <1>2, <2>1, <2>3 DEF Going, Running
    <2>4. CASE ~InputEnds(t', dt') /\ WaveBc(t', dt')
      <3> DEFINE b == CurrentBc(t', dt')
      <3>1. wave' = wave /\ taper' = TaperAfter(t', dt') /\ (~Surfbeat => bc' = b)
        BY <2>4, WaveBcCases, Zenon
      <3>2. CASE wave.kind = "table"
        <4>1. bc.created => TableFits(bc, t)
          BY <3>2, Zenon DEF TableInv
        <4>2. /\ TableFits(b, t') /\ t' < b.end
              /\ Expired(CreatedBc(t', dt'), t') => wave.dur[1][1] <= t'
          BY <1>1, <2>1, <2>4, <3>2, <4>1, CurrentTable DEF WaveTypes
        <4>3. bc' = b
          BY <3>1, <3>2 DEF Surfbeat
        <4> HIDE DEF b
        <4>4. TableFits(bc, t)' /\ t' < bc'.end
          BY <3>1, <4>2, <4>3 DEF TableFits
        <4>5. taper'.master = Taper \/ wave.dur[1][1] <= t'
          <5>1. CASE Expired(CreatedBc(t', dt'), t')
            BY <4>2, <5>1
          <5>2. CASE ~Expired(CreatedBc(t', dt'), t')
            <6>1. taper' = taper
              BY <3>1, <5>2 DEF TaperAfter
            <6>2. taper.master = Taper \/ wave.dur[1][1] <= t
              BY <3>2 DEF TableInv
            <6>3. wave.dur[1][1] \in Nat \ {0}
              BY <1>1, <3>2, EndsGrow
            <6> QED BY <2>1, <6>1, <6>2, <6>3
          <5> QED BY <5>1, <5>2
        <4> QED BY <3>1, <4>4, <4>5 DEF TableInv
      <3>3. CASE wave.kind # "table"
        BY <3>1, <3>3 DEF TableInv
      <3> QED BY <3>2, <3>3
    <2> QED BY <2>1, <2>2, <2>3, <2>4, Zenon
  <1>4. CASE ~WaveStep
    <2>1. UNCHANGED <<par, t, dt, error>> /\ UNCHANGED waveVars
      BY <1>4, OtherSteps
    <2>2. t \in Nat /\ t <= t
      BY <1>1
    <2> QED BY <1>2, <2>1, <2>2 DEF waveVars, Going, Running
  <1> QED BY <1>3, <1>4

LEMMA InitWave == WaveInit => WaveTypes /\ FirstInv /\ TableInv
  <1> SUFFICES ASSUME WaveInit PROVE WaveTypes /\ FirstInv /\ TableInv
    OBVIOUS
  <1>1. t = 0 /\ wave \in Waves
    BY DEF WaveInit, Init
  <1>2. /\ wave.kind \in {"table", "spectra", "reuse", "series"} /\ wave.keep \in BOOLEAN
        /\ wave.dur \in Seq(Seq(Nat \ {0})) /\ wave.file \in Seq(Int)
        /\ \A l \in DOMAIN wave.dur : Len(wave.dur[l]) \in Nat
    <2>1. \A l \in DOMAIN wave.dur : wave.dur[l] \in Seq(Nat \ {0})
      BY <1>1, WaveSound, Zenon
    <2>2. \A l \in DOMAIN wave.dur : Len(wave.dur[l]) \in Nat
      BY <2>1
    <2> QED BY <1>1, <2>2, WaveSound, Zenon
  <1>3. FormerList(wave) \in Seq(Lines) /\ (wave.kind # "reuse" => FormerList(wave) = <<>>)
    <2>1. CASE wave.kind = "reuse"
      <3> DEFINE L == Len(wave.dur[1])
      <3>1. /\ L \in Nat /\ \A k \in 1..L : wave.dur[1][k] \in Nat
            /\ \A n \in 0..L : EndOf(wave, n) \in Nat
        BY <1>1, <2>1, EndsGrow
      <3> HIDE DEF L
      <3>2. \A i \in 1..L : Line(EndOf(wave, i), wave.dur[1][i]) \in Lines
        BY <3>1 DEF Line, Lines
      <3>3. FormerList(wave) = [i \in 1..L |-> Line(EndOf(wave, i), wave.dur[1][i])]
        BY <2>1 DEF FormerList, L
      <3> QED BY <2>1, <3>1, <3>2, <3>3
    <2>2. CASE wave.kind # "reuse"
      BY <2>2 DEF FormerList
    <2> QED BY <2>1, <2>2
  <1>4. /\ bc = [created |-> FALSE, end |-> Huge, count |-> 0, line |-> 0,
                 list |-> FormerList(wave), specend |-> 0, rt |-> 0,
                 read |-> [l \in 1..Len(wave.dur) |-> 0],
                 reuseall |-> FALSE, startbcf |-> FALSE]
        /\ sig = NoSignal /\ srs = NoSeries /\ taper = [master |-> Taper, rest |-> Taper]
        /\ halted = "no"
    BY DEF WaveInit
  <1>5. [l \in 1..Len(wave.dur) |-> 0] \in [DOMAIN wave.dur -> Nat]
    BY <1>2
  <1>6. bc \in BcStates
    BY <1>3, <1>4, <1>5 DEF BcStates, Huge
  <1>7. BcSound(bc)
    <2>1. \A l \in DOMAIN wave.dur : bc.read[l] = 0
      BY <1>2, <1>4
    <2>2. bc.created = FALSE /\ bc.end = Huge /\ bc.reuseall = FALSE /\ bc.count = 0
          /\ bc.list = FormerList(wave)
      BY <1>4
    <2>3. wave.kind = "spectra" => Len(bc.list) <= bc.count
      BY <1>3, <2>2
    <2>4. \A l \in DOMAIN wave.dur : bc.read[l] <= Len(wave.dur[l])
      BY <1>2, <2>1
    <2> QED BY <1>6, <2>2, <2>3, <2>4 DEF BcSound
  <1>8. srs \in SrsStates(wave.file)
    <2>1. Len(wave.file) \in Nat
      BY <1>2
    <2> QED BY <1>4, <2>1 DEF NoSeries, SrsStates, Junk
  <1>9. sig.old = 0 /\ sig.recpos = 0 /\ sig.old <= Slot(t)
    <2>1. Slot(0) \in Nat
      BY <1>1, SlotsGrow
    <2>2. sig.old = 0 /\ sig.recpos = 0
      BY <1>4 DEF NoSignal
    <2> QED BY <1>1, <2>1, <2>2
  <1>10. bc.created = FALSE /\ taper.master = Taper /\ taper.rest = Taper
    BY <1>4
  <1>11. taper \in [master : {0, Taper}, rest : {Taper}]
    BY <1>4
  <1>12. WaveTypes
    BY <1>1, <1>4, <1>7, <1>8, <1>9, <1>10, <1>11 DEF WaveTypes
  <1> QED BY <1>1, <1>10, <1>12 DEF FirstInv, TableInv

LEMMA WaveIsClock == WaveSpec => []IInv
  <1>1. WaveInit => Init
    BY DEF WaveInit
  <1>2. [WaveNext]_<<vars, waveVars>> => [Next]_vars
    BY Zenon DEF WaveNext, WaveFirstOutput, WaveStep, WaveOutputExt, WaveFinal, Next
  <1>3. WaveSpec => Spec
    BY <1>1, <1>2, PTL DEF WaveSpec, Spec
  <1> QED BY <1>3, Invariant, PTL

LEMMA WaveInvariant == WaveSpec => [](WaveTypes /\ FirstInv /\ TableInv)
  BY InitWave, NextWaveTypes, NextFirst, NextTable, WaveIsClock, PTL DEF WaveSpec

\* For every input and choice of steps the lists and spectra are never read
\* past what they hold.
THEOREM WaveTypesKept == WaveSpec => []WaveTypeOK
  <1>1. WaveTypes => WaveTypeOK
    <2> SUFFICES ASSUME WaveTypes PROVE WaveTypeOK
      OBVIOUS
    <2>1. bc.count \in Nat /\ bc.line \in Nat /\ \A l \in DOMAIN wave.dur : bc.read[l] \in Nat
      BY DEF WaveTypes, BcSound, BcStates
    <2>2. \A l \in DOMAIN wave.dur : Len(wave.dur[l]) \in Nat
      <3>1. \A l \in DOMAIN wave.dur : wave.dur[l] \in Seq(Nat \ {0})
        BY WaveSound, Zenon DEF WaveTypes
      <3> QED BY <3>1
    <2>3. \A l \in DOMAIN wave.dur : ~wave.keep => bc.read[l] \in 0..Len(wave.dur[l])
      BY <2>1, <2>2 DEF WaveTypes, BcSound
    <2>4. srs.pos \in 0..Len(wave.file) /\ taper.master \in {0, Taper} /\ taper.rest = Taper
      BY DEF WaveTypes, SrsStates
    <2> QED BY <2>1, <2>3, <2>4 DEF WaveTypes, WaveTypeOK, BcSound
  <1> QED BY <1>1, WaveInvariant, PTL

\* By the time a table takes xmaster to a new condition, and ends the tapering
\* there, the other processes are past it, for every table and steps.
THEOREM TaperAlike == WaveSpec => []TaperAgrees
  <1>1. IInv /\ WaveTypes /\ TableInv => TaperAgrees
    <2> SUFFICES ASSUME IInv, WaveTypes, TableInv, wave.kind = "table", wave.dur[1][1] >= Taper,
                        taper.master # taper.rest
                 PROVE  t >= taper.rest
      BY Zenon DEF TaperAgrees
    <2>1. taper.rest = Taper /\ Taper \in Nat /\ t \in Nat
      BY ClockTypes, WavesAssumption DEF WaveTypes
    <2>2. wave.dur[1][1] <= t
      BY <2>1 DEF TableInv
    <2>3. wave.dur[1][1] \in Nat \ {0}
      BY EndsGrow DEF WaveTypes
    <2> QED BY <2>1, <2>2, <2>3
  <1> QED BY <1>1, WaveInvariant, WaveIsClock, PTL
-----------------------------------------------------------------------------
(* Series *)

LEMMA NextSeriesFits ==
    ASSUME WaveTypes, SeriesInv, Following, Going, t \in Nat, NEW now \in Nat, t <= now
    PROVE  SeriesFits(wave.file, CurrentSeries(now), now)
  <1> DEFINE file == wave.file
             r == CurrentSeries(now)
  <1>1. file \in Seq(Int) /\ Len(file) > 1 /\ file[1] <= 0 /\ now \in Int
    BY WaveSound DEF Following, WaveTypes
  <1>2. srs \in SrsStates(file) /\ Len(file) \in Nat /\ \A k \in 1..Len(file) : file[k] \in Int
    BY <1>1 DEF WaveTypes
  <1>3. CASE ~bc.created
    <2>1. OpenSeries(file, srs) = Window(file, 1)
      <3>1. OpenSeries(file, srs) = [pos |-> 2, t0 |-> file[1], t1 |-> file[2], u0 |-> 1, u1 |-> 2,
                                     eof |-> FALSE, ug |-> <<1, 2>>]
        BY <1>1, Zenon DEF OpenSeries
      <3>2. Window(file, 1) = [pos |-> 1 + 1, t0 |-> file[1], t1 |-> file[1 + 1], u0 |-> 1,
                               u1 |-> 1 + 1, eof |-> FALSE, ug |-> <<1, 1 + 1>>]
        BY Zenon DEF Window
      <3>3. 1 + 1 = 2
        OBVIOUS
      <3> QED BY <3>1, <3>2, <3>3, Zenon
    <2>2. r = ReadSeries(file, Window(file, 1), now)
      BY <1>3, <2>1, Zenon DEF CurrentSeries
    <2>3. 1 \in 1..(Len(file) - 1) /\ file[1] <= now
      BY <1>1, <1>2
    <2> HIDE DEF r
    <2> QED BY <1>1, <2>2, <2>3, SeriesFollowsClock, Zenon DEF r
  <1>4. CASE bc.created
    <2>1. SeriesFits(file, srs, t)
      BY <1>4 DEF SeriesInv
    <2>2. r = ReadSeries(file, srs, now)
      BY <1>4, Zenon DEF CurrentSeries
    <2> HIDE DEF r
    <2>3. CASE srs.eof
      <3>1. file[Len(file)] <= now
        <4>1. file[Len(file)] <= t
          BY <2>1, <2>3 DEF SeriesFits
        <4>2. file[Len(file)] \in Int
          BY <1>1, <1>2
        <4> QED BY <4>1, <4>2
      <3>2. r = [srs EXCEPT !.ug = <<srs.u1, srs.u1>>]
        BY <2>2, <2>3, Zenon DEF ReadSeries
      <3>3. r.eof = srs.eof
        BY <1>2, <3>2 DEF SrsStates
      <3>4. SeriesFits(file, r, now)
        BY <2>3, <3>1, <3>3, Zenon DEF SeriesFits
      <3> QED BY <3>4 DEF r
    <2>4. CASE ~srs.eof
      <3>1. PICK k \in 1..(Len(file) - 1) : srs = Window(file, k) /\ file[k] <= t
        BY <2>1, <2>4, Zenon DEF SeriesFits
      <3>2. file[k] <= now
        <4>1. file[k] \in Int /\ file[k] <= t
          BY <1>2, <3>1
        <4> HIDE DEF file
        <4> QED BY <4>1
      <3>3. r = ReadSeries(file, Window(file, k), now)
        BY <2>2, <3>1
      <3> QED BY <1>1, <3>2, <3>3, SeriesFollowsClock, Zenon DEF r
    <2> QED BY <2>3, <2>4
  <1> QED BY <1>3, <1>4

LEMMA NextSeries ==
    ASSUME IInv, WaveTypes, SeriesInv, [WaveNext]_<<vars, waveVars>>
    PROVE  SeriesInv'
  <1>1. CASE WaveStep
    <2>1. /\ t \in Nat /\ t' \in Nat /\ t <= t' /\ Going
          /\ \/ error' = 1 /\ UNCHANGED waveVars
             \/ error' # 1 /\ halted' = "input" /\ UNCHANGED <<wave, bc, sig, srs, taper>>
             \/ error' # 1 /\ ~InputEnds(t', dt') /\ WaveBc(t', dt')
      BY <1>1, StepMoves
    <2>2. CASE error' = 1
      BY <2>2 DEF SeriesInv, Going
    <2>3. CASE halted' = "input"
      BY <2>3 DEF SeriesInv, Going, Running
    <2>4. CASE WaveBc(t', dt')
      <3>1. wave' = wave /\ srs' = IF wave.kind = "series" THEN CurrentSeries(t') ELSE srs
        BY <2>4, WaveBcCases, Zenon
      <3>2. CASE Following
        <4>1. srs' = CurrentSeries(t')
          BY <3>1, <3>2 DEF Following
        <4>2. SeriesFits(wave.file, CurrentSeries(t'), t')
          BY <2>1, <3>2, NextSeriesFits
        <4>3. SeriesFits(wave'.file, srs', t')
          BY <3>1, <4>1, <4>2, Zenon
        <4> QED BY <4>3, Zenon DEF SeriesInv, SeriesFits
      <3>3. CASE ~Following
        BY <3>1, <3>3 DEF SeriesInv, Following
      <3> QED BY <3>2, <3>3
    <2> QED BY <2>1, <2>2, <2>3, <2>4, Zenon
  <1>2. CASE ~WaveStep
    <2>1. UNCHANGED <<par, t, dt, error>> /\ UNCHANGED waveVars
      BY <1>2, OtherSteps
    <2> QED BY <2>1, Zenon DEF SeriesInv, SeriesFits, Following, Going, Running, waveVars
  <1> QED BY <1>1, <1>2

\* For every file and choice of steps a series that starts with the run is
\* interpolated between the two records around the clock.
THEOREM SeriesOnClock == WaveSpec => []SeriesFollows
  <1>1. WaveInit => SeriesInv
    BY DEF WaveInit, SeriesInv
  <1>2. SeriesInv => SeriesFollows
    <2> SUFFICES ASSUME SeriesInv, InForce, Following
                 PROVE  IF srs.eof THEN t >= wave.file[Len(wave.file)]
                        ELSE \E k \in 1..(Len(wave.file) - 1) :
                                /\ wave.file[k] <= t /\ t < wave.file[k + 1]
                                /\ srs.ug = <<k, k + 1>>
      BY Zenon DEF SeriesFollows, Following
    <2>1. SeriesFits(wave.file, srs, t)
      BY Zenon DEF SeriesInv, InForce, Going
    <2>2. CASE srs.eof
      <3>1. wave.file[Len(wave.file)] <= t
        BY <2>1, <2>2, Zenon DEF SeriesFits
      <3> QED BY <2>2, <3>1
    <2>3. CASE ~srs.eof
      <3>1. PICK k \in 1..(Len(wave.file) - 1) :
                srs = Window(wave.file, k) /\ wave.file[k] <= t /\ t < wave.file[k + 1]
        BY <2>1, <2>3, Zenon DEF SeriesFits
      <3>2. srs.ug = <<k, k + 1>>
        BY <3>1 DEF Window
      <3> QED BY <2>3, <3>1, <3>2
    <2> QED BY <2>2, <2>3
  <1>3. WaveSpec => []SeriesInv
    BY <1>1, NextSeries, WaveInvariant, WaveIsClock, PTL DEF WaveSpec
  <1> QED BY <1>2, <1>3, PTL
-----------------------------------------------------------------------------
(* Signals *)

\* A condition is new, and a new signal is opened, or it is kept.
LEMMA SurfbeatBc ==
    ASSUME WaveTypes, Surfbeat, par.tstop \in Nat, NEW now \in Nat, now < Huge, NEW d \in Nat,
           ~InputEnds(now, d)
    PROVE  LET b == CurrentBc(now, d)
           IN  /\ BcSound(b) /\ b.created = TRUE /\ b.end = bc.end
               /\ \/ b.startbcf = TRUE /\ ~(bc.created /\ now < bc.end)
                  \/ bc.created /\ now < bc.end /\ b = [bc EXCEPT !.startbcf = FALSE]
                     /\ b.startbcf = FALSE /\ b.line = bc.line /\ b.list = bc.list
  <1>1. wave \in Waves /\ BcSound(bc)
    BY DEF WaveTypes
  <1> DEFINE still == [bc EXCEPT !.startbcf = FALSE]
  <1>2. still.startbcf = FALSE /\ still.line = bc.line /\ still.list = bc.list
    BY <1>1 DEF BcSound, BcStates
  <1> HIDE DEF still
  <1>3. CASE wave.kind = "spectra"
    <2> DEFINE b == CurrentBc(now, d)
    <2>1. /\ BcSound(b) /\ b.created = TRUE /\ b.end = bc.end
          /\ \/ bc.created /\ now < bc.end /\ b = still
             \/ ~(bc.created /\ now < bc.end) /\ b.startbcf = TRUE
      BY <1>1, <1>3, CurrentSpectra, Zenon DEF still
    <2> HIDE DEF b
    <2> QED BY <1>2, <2>1, Zenon DEF b, still
  <1>4. CASE wave.kind = "reuse"
    <2> DEFINE b == CurrentBc(now, d)
    <2>1. /\ BcSound(b) /\ b.created = TRUE /\ b.end = bc.end
          /\ \/ ~bc.created /\ b.startbcf = TRUE
             \/ bc.created /\ now < bc.end /\ b = still
             \/ bc.created /\ ~(now < bc.end) /\ b.startbcf = TRUE
      BY <1>1, <1>4, CurrentReuse, Zenon DEF still
    <2> HIDE DEF b
    <2> QED BY <1>2, <2>1, Zenon DEF b, still
  <1> QED BY <1>3, <1>4 DEF Surfbeat

\* A step that finds its line in the list reads the signal.
LEMMA SurfbeatStep ==
    ASSUME IInv, WaveTypes, WaveStep, Surfbeat, error' # 1, halted' \in {"no", "record"}
    PROVE  LET b == CurrentBc(t', dt')
           IN  /\ t \in Nat /\ t' \in Nat /\ dt' \in Nat /\ t <= t' /\ t' <= t + dt' /\ t' < Huge
               /\ par.tstop \in Nat /\ par' = par /\ t' <= par.tstop /\ Going
               /\ \E c \in CflSteps : c \in Nat \ {0} /\ dt' <= c
               /\ wave' = wave /\ wave \in Waves /\ BcSound(bc) /\ BcSound(b) /\ Listed(b)
               /\ b.created = TRUE
               /\ ~InputEnds(t', dt') /\ bc' = WithEnd(b) /\ sig' = CurrentRecords(b, t')
  <1> DEFINE b == CurrentBc(t', dt')
  <1>1. /\ t \in Nat /\ t' \in Nat /\ dt' \in Nat /\ t <= t' /\ t' <= t + dt' /\ t' < Huge
        /\ par.tstop \in Nat /\ par' = par /\ t' <= par.tstop /\ Going
        /\ (\E c \in CflSteps : c \in Nat \ {0} /\ dt' <= c)
        /\ \/ error' = 1 /\ UNCHANGED waveVars
           \/ error' # 1 /\ halted' = "input" /\ UNCHANGED <<wave, bc, sig, srs, taper>>
           \/ error' # 1 /\ ~InputEnds(t', dt') /\ WaveBc(t', dt')
    BY StepMoves
  <1>2. ~InputEnds(t', dt') /\ WaveBc(t', dt')
    <2>1. halted' # "input"
      OBVIOUS
    <2> QED BY <1>1, <2>1
  <1>3. wave' = wave /\ Listed(b) /\ bc' = WithEnd(b) /\ sig' = CurrentRecords(b, t')
    <2>1. halted' # "line"
      OBVIOUS
    <2>2. /\ wave' = wave
          /\ \/ Surfbeat /\ ~Listed(b) /\ halted' = "line" /\ bc' = b /\ sig' = sig
             \/ Surfbeat /\ Listed(b) /\ bc' = WithEnd(b) /\ sig' = CurrentRecords(b, t')
             \/ ~Surfbeat /\ bc' = b /\ sig' = sig /\ halted' = "no"
      BY <1>2, WaveBcCases, Zenon
    <2> HIDE DEF b
    <2> QED BY <2>1, <2>2
  <1>4. BcSound(b) /\ b.created = TRUE
    BY <1>1, <1>2, SurfbeatBc, Zenon
  <1>5. wave \in Waves /\ BcSound(bc)
    BY DEF WaveTypes
  <1> QED BY <1>1, <1>2, <1>3, <1>4, <1>5, Zenon

\* The clock moves on by one record at most when the steps are short.
LEMMA ShortStepSlots ==
    ASSUME wave \in Waves, t \in Nat, t' \in Nat, dt' \in Nat, t <= t', t' <= t + dt',
           \E c \in CflSteps : c \in Nat \ {0} /\ dt' <= c
    PROVE  /\ Slot(t) \in Nat /\ Slot(t') \in Nat /\ Slot(t) <= Slot(t')
           /\ ShortSteps => Slot(t') <= Slot(t) + 1
  <1>1. /\ Slot(t) \in Nat /\ Slot(t') \in Nat /\ Slot(t) <= Slot(t')
        /\ t' - t <= wave.dtbc => Slot(t') <= Slot(t) + 1
    BY SlotsGrow
  <1>2. ASSUME ShortSteps PROVE t' - t <= wave.dtbc
    <2>1. PICK c \in CflSteps : c \in Nat \ {0} /\ dt' <= c
      OBVIOUS
    <2>2. c <= wave.dtbc /\ wave.dtbc \in Nat
      BY <1>2, WaveSound DEF ShortSteps
    <2>3. \A now, before, d, limit, k \in Nat :
              now <= before + d /\ d <= limit /\ limit <= k => now - before <= k
      OBVIOUS
    <2> QED BY <2>1, <2>2, <2>3, Zenon
  <1> QED BY <1>1, <1>2

LEMMA NextRecordsInv ==
    ASSUME IInv, WaveTypes, RecordsInv, [WaveNext]_<<vars, waveVars>>
    PROVE  RecordsInv'
  <1>1. CASE WaveStep /\ Going' /\ Surfbeat
    <2> DEFINE b == CurrentBc(t', dt')
    <2>1. /\ t \in Nat /\ t' \in Nat /\ dt' \in Nat /\ t <= t' /\ t' <= t + dt' /\ t' < Huge
          /\ par.tstop \in Nat /\ Going /\ (\E c \in CflSteps : c \in Nat \ {0} /\ dt' <= c)
          /\ wave' = wave /\ wave \in Waves /\ ~InputEnds(t', dt') /\ sig' = CurrentRecords(b, t')
      <3>1. error' # 1 /\ halted' \in {"no", "record"}
        BY <1>1 DEF Going, Running
      <3> QED BY <1>1, <3>1, SurfbeatStep, Zenon
    <2>2. \/ b.startbcf = TRUE
          \/ bc.created /\ b.startbcf = FALSE
      BY <1>1, <2>1, SurfbeatBc, Zenon
    <2> HIDE DEF b
    <2>3. Neighbours(sig', t')
      <3>1. CASE b.startbcf = TRUE
        <4>1. sig' = FirstRecords(t')
          BY <2>1, <3>1, Zenon DEF CurrentRecords
        <4> QED BY <4>1, FirstRecordsSound
      <3>2. CASE bc.created /\ b.startbcf = FALSE
        <4>1. sig' = NextRecords(t')
          BY <2>1, <3>2, Zenon DEF CurrentRecords
        <4>2. Neighbours(sig, t)
          BY <1>1, <2>1, <3>2 DEF RecordsInv
        <4>3. sig.old = Slot(t) /\ sig.recpos \in Nat /\ sig.old \in Nat
          BY <4>2 DEF Neighbours, WaveTypes
        <4>4. /\ Slot(t) \in Nat /\ Slot(t') \in Nat /\ Slot(t) <= Slot(t')
              /\ ShortSteps => Slot(t') <= Slot(t) + 1
          BY <2>1, ShortStepSlots
        <4>5. sig.old <= Slot(t') /\ (ShortSteps => Slot(t') <= sig.old + 1)
          BY <4>3, <4>4
        <4> QED BY <4>1, <4>2, <4>3, <4>4, <4>5, NextRecordsSound, Zenon
      <3> QED BY <2>2, <3>1, <3>2
    <2>4. Neighbours(sig, t)'
      <3>1. Slot(t)' = Slot(t')
        BY <2>1, Zenon DEF Slot
      <3>2. ShortSteps' <=> ShortSteps
        BY <2>1, Zenon DEF ShortSteps
      <3> QED BY <2>3, <3>1, <3>2, Zenon DEF Neighbours
    <2> QED BY <2>4 DEF RecordsInv
  <1>2. CASE WaveStep /\ ~(Going' /\ Surfbeat)
    <2>1. wave' = wave
      <3>1. \/ UNCHANGED waveVars
            \/ UNCHANGED <<wave, bc, sig, srs, taper>>
            \/ WaveBc(t', dt')
        BY <1>2, StepMoves
      <3> QED BY <3>1 DEF WaveBc, waveVars
    <2> QED BY <1>2, <2>1, Zenon DEF RecordsInv, Surfbeat
  <1>3. CASE ~WaveStep
    <2>1. UNCHANGED <<par, t, dt, error>> /\ UNCHANGED waveVars
      BY <1>3, OtherSteps
    <2> QED BY <2>1, Zenon DEF RecordsInv, Surfbeat, Neighbours, ShortSteps, Slot, Going, Running,
                    waveVars
  <1> QED BY <1>1, <1>2, <1>3

\* The records in memory are neighbours, for every input and choice of steps;
\* those of the long waves are the ones of the short waves, without MPI as long
\* as no step is longer than the time between two records.
THEOREM NeighboursStay == WaveSpec => []RecordsAdjacent
  <1>1. WaveInit => RecordsInv
    BY DEF WaveInit, RecordsInv
  <1>2. RecordsInv => RecordsAdjacent
    BY Zenon DEF RecordsInv, Neighbours, ShortSteps, RecordsAdjacent, InForce, Going
  <1>3. WaveSpec => []RecordsInv
    BY <1>1, NextRecordsInv, WaveInvariant, WaveIsClock, PTL DEF WaveSpec
  <1> QED BY <1>2, <1>3, PTL
-----------------------------------------------------------------------------
(* Conditions *)

LEMMA ListedLine ==
    ASSUME NEW b, BcSound(b), Listed(b)
    PROVE  /\ b.list[b.line].end \in Int /\ b.list[b.line].rt \in Nat /\ StartOf(b) \in Int
           /\ StartOf(b) = b.list[b.line].end - b.list[b.line].rt
  <1>1. b.list \in Seq(Lines) /\ b.line \in 1..Len(b.list)
    BY DEF BcSound, BcStates, Listed
  <1>2. b.list[b.line] \in Lines
    BY <1>1
  <1>3. b.list[b.line].end \in Int /\ b.list[b.line].rt \in Nat
    BY <1>2 DEF Lines
  <1> QED BY <1>3 DEF StartOf

\* The lines of the list a former run left behind follow on from each other.
LEMMA FormerLine ==
    ASSUME wave \in Waves, wave.kind = "reuse", NEW l \in 1..Len(FormerList(wave))
    PROVE  /\ FormerList(wave)[l].end = EndOf(wave, l)
           /\ FormerList(wave)[l].rt = wave.dur[1][l]
           /\ l \in DOMAIN wave.dur[1] /\ EndOf(wave, l) \in Nat /\ EndOf(wave, l - 1) \in Nat
           /\ wave.dur[1][l] \in Nat
           /\ EndOf(wave, l) - wave.dur[1][l] = EndOf(wave, l - 1)
  <1> DEFINE D == wave.dur[1]
             L == Len(D)
  <1>1. FormerList(wave) = [i \in 1..L |-> Line(EndOf(wave, i), D[i])]
    BY DEF FormerList
  <1>2. /\ L \in Nat /\ \A k \in 1..L : D[k] \in Nat
        /\ \A n \in 0..L : EndOf(wave, n) \in Nat
        /\ \A n \in 1..L : EndOf(wave, n) = EndOf(wave, n - 1) + D[n]
    BY EndsGrow
  <1>3. DOMAIN D = 1..L
    <2>1. 1 \in DOMAIN wave.dur
      BY WaveSound, Zenon
    <2>2. D \in Seq(Nat \ {0})
      BY <2>1, WaveSound, Zenon
    <2> HIDE DEF D
    <2> QED BY <2>2
  <1> HIDE DEF D, L
  <1>4. Len(FormerList(wave)) = L
    BY <1>1, <1>2
  <1>5. l \in 1..L
    BY <1>4
  <1>6. FormerList(wave)[l] = Line(EndOf(wave, l), D[l])
    BY <1>1, <1>5
  <1>7. FormerList(wave)[l].end = EndOf(wave, l) /\ FormerList(wave)[l].rt = D[l]
    BY <1>6 DEF Line
  <1>8. EndOf(wave, l) \in Nat /\ EndOf(wave, l - 1) \in Nat /\ D[l] \in Nat
        /\ EndOf(wave, l) - D[l] = EndOf(wave, l - 1)
    <2>1. l \in 0..L /\ l - 1 \in 0..L
      BY <1>2, <1>5
    <2>2. EndOf(wave, l) \in Nat /\ EndOf(wave, l - 1) \in Nat /\ D[l] \in Nat
      BY <1>2, <1>5, <2>1
    <2>3. EndOf(wave, l) = EndOf(wave, l - 1) + D[l]
      BY <1>2, <1>5
    <2> QED BY <2>2, <2>3
  <1> QED BY <1>3, <1>5, <1>7, <1>8, Zenon DEF D

LEMMA LateGrows ==
    ASSUME NEW a \in Int, NEW b \in Int, a <= b, Late(a), par.tstop \in Nat
    PROVE  Late(b)
  <1>1. PICK c \in CflSteps : par.tstop < a + 2 * c
    BY DEF Late
  <1>2. c \in Nat
    BY StepsAssumption
  <1>3. par.tstop < b + 2 * c
    BY <1>1, <1>2
  <1> QED BY <1>3 DEF Late

\* What a step makes of a condition: it goes on, it is kept although it has
\* ended, or another one starts.
Stays(b, now) ==
    /\ bc.created /\ now < bc.end
    /\ b.startbcf = FALSE /\ b.line = bc.line /\ b.list = bc.list /\ b.end = bc.end

Keeps(b, now, d) ==
    /\ bc.created /\ ~(now < bc.end) /\ LastStep(now, d)
    /\ b.startbcf = TRUE /\ b.line = bc.line /\ b.list = bc.list
    /\ wave.kind = "spectra" => Len(b.list) < b.count

Enters(b, now) ==
    /\ b.startbcf = TRUE /\ ~(bc.created /\ now < bc.end) /\ Started(b, now)
    /\ (OneByOne => Outlast) /\ ~Delayed(b) =>
           now < b.list[b.line].end /\ \E c \in CflSteps : now <= StartOf(b) + c

\* A condition that starts where the one before ended, or with the run.
LEMMA StartsInTime ==
    ASSUME t \in Nat, NEW now \in Nat, NEW d \in Nat, now <= t + d, NEW c \in Nat, d <= c,
           NEW start \in Int, NEW end \in Int, t <= end, end <= start
    PROVE  now <= start + c
  OBVIOUS

LEMMA SpectraMoves ==
    ASSUME IInv, WaveTypes, FirstInv, SpectraInv, ConditionInv, WaveStep, wave.kind = "spectra",
           error' # 1, halted' \in {"no", "record"}, SameDurations
    PROVE  LET b == CurrentBc(t', dt')
           IN  Spectral(bc') /\ (Stays(b, t') \/ Keeps(b, t', dt') \/ Enters(b, t'))
  <1> DEFINE b == CurrentBc(t', dt')
             still == [bc EXCEPT !.startbcf = FALSE]
  <1>1. /\ t \in Nat /\ t' \in Nat /\ dt' \in Nat /\ t <= t' /\ t' <= t + dt' /\ t' < Huge
        /\ par.tstop \in Nat /\ Going /\ (\E c \in CflSteps : c \in Nat \ {0} /\ dt' <= c)
        /\ wave \in Waves /\ BcSound(bc) /\ BcSound(b) /\ Listed(b) /\ b.created = TRUE
        /\ ~InputEnds(t', dt') /\ bc' = WithEnd(b)
    BY SurfbeatStep, Zenon DEF Surfbeat
  <1>2. /\ b.end = bc.end
        /\ \/ bc.created /\ t' < bc.end /\ b = still
           \/ ~(bc.created /\ t' < bc.end) /\ b.startbcf = TRUE /\ Called(b, bc, t', dt')
    BY <1>1, CurrentSpectra, Zenon
  <1> HIDE DEF b
  <1>3. /\ bc'.created = TRUE /\ bc'.line = b.line /\ bc'.list = b.list
        /\ bc'.specend = b.specend /\ bc'.rt = b.rt /\ bc'.read = b.read
        /\ bc'.reuseall = b.reuseall
        /\ bc'.end = IF b.startbcf THEN b.list[b.line].end ELSE b.end
    BY <1>1, WithEndSound, Zenon
  <1>4. Spectral(bc)
    BY <1>1 DEF SpectraInv
  <1>5. Reader(b) => Reader(bc')
    BY <1>3, Zenon DEF Reader
  <1>6. /\ bc.created \in BOOLEAN /\ bc.end \in Int /\ bc.line \in Nat /\ bc.count \in Nat
        /\ Len(bc.list) \in Nat /\ Len(bc.list) <= bc.count /\ bc.specend \in Int
        /\ b.line \in 1..Len(b.list) /\ b.specend \in Int /\ b.rt \in Nat
    BY <1>1 DEF BcSound, BcStates, Listed
  <1>7. CASE bc.created /\ t' < bc.end /\ b = still
    <2>1. /\ b.startbcf = FALSE /\ b.line = bc.line /\ b.list = bc.list /\ b.specend = bc.specend
          /\ b.rt = bc.rt /\ b.read = bc.read /\ b.reuseall = bc.reuseall
      BY <1>1, <1>7 DEF BcSound, BcStates
    <2>2. Reader(b)
      BY <1>4, <2>1 DEF Reader, Spectral
    <2>3. bc'.list[bc'.line] = Line(bc'.specend, bc'.rt) /\ bc'.end = bc'.specend
      BY <1>2, <1>3, <1>4, <1>7, <2>1, Zenon DEF Spectral
    <2>4. Spectral(bc')
      BY <1>3, <1>5, <2>2, <2>3, Zenon DEF Spectral
    <2>5. Stays(b, t')
      BY <1>2, <1>7, <2>1, Zenon DEF Stays
    <2> QED BY <2>4, <2>5 DEF b
  <1>8. CASE ~(bc.created /\ t' < bc.end) /\ b.startbcf = TRUE /\ Called(b, bc, t', dt')
             /\ LastStep(t', dt')
    <2>1. /\ b.count = bc.count + 1 /\ b.line = bc.line /\ b.list = bc.list
          /\ b.specend = bc.specend /\ b.rt = bc.rt /\ b.read = bc.read /\ b.reuseall = bc.reuseall
      BY <1>8 DEF Called
    <2>2. bc.created
      <3>1. bc.line # 0
        BY <1>6, <2>1
      <3> QED BY <1>4, <3>1 DEF Spectral
    <2>3. Reader(b)
      BY <1>4, <2>1 DEF Reader, Spectral
    <2>4. bc.list[bc.line] = Line(bc.specend, bc.rt)
      BY <1>4, <2>2, Zenon DEF Spectral
    <2>5. bc'.end = b.specend
      <3>1. b.list[b.line].end = b.specend
        BY <2>1, <2>4 DEF Line
      <3> QED BY <1>3, <1>8, <3>1
    <2>6. Spectral(bc')
      <3>1. bc'.list[bc'.line] = Line(bc'.specend, bc'.rt) /\ bc'.end = bc'.specend
        BY <1>3, <2>1, <2>4, <2>5, Zenon
      <3> QED BY <1>3, <1>5, <2>3, <3>1, Zenon DEF Spectral
    <2>7. Len(b.list) < b.count
      BY <1>6, <2>1
    <2>8. Keeps(b, t', dt')
      BY <1>8, <2>1, <2>2, <2>7, Zenon DEF Keeps
    <2> QED BY <2>6, <2>8 DEF b
  <1>9. CASE ~(bc.created /\ t' < bc.end) /\ b.startbcf = TRUE /\ Called(b, bc, t', dt')
             /\ ~LastStep(t', dt')
    <2>1. /\ b.count = bc.count + 1 /\ b.line = b.count
          /\ b.list = Append(bc.list, Line(b.specend, b.rt)) /\ Len(b.list) = Len(bc.list) + 1
          /\ Reader(bc) /\ bc.specend <= t' => Follows(b, bc, t')
      BY <1>9 DEF Called
    <2>2. bc.specend <= t' /\ (bc.created => bc.end = bc.specend) /\ (~bc.created => bc.specend = 0)
      <3>1. CASE bc.created
        <4>1. bc.end = bc.specend
          BY <1>4, <3>1, Zenon DEF Spectral
        <4> QED BY <1>1, <1>6, <1>9, <3>1, <4>1
      <3>2. CASE ~bc.created
        BY <1>1, <1>4, <3>2 DEF Spectral
      <3> QED BY <3>1, <3>2
    <2>3. Follows(b, bc, t') /\ Reader(b)
      <3>1. Follows(b, bc, t')
        BY <1>4, <2>1, <2>2, Zenon DEF Spectral
      <3> QED BY <3>1, Zenon DEF Follows, Reader
    <2>4. b.line = Len(bc.list) + 1 /\ Len(bc.list) = bc.count
      BY <1>6, <2>1
    <2>5. b.list[b.line] = Line(b.specend, b.rt)
      <3>1. bc.list \in Seq(Lines)
        BY <1>1 DEF BcSound, BcStates
      <3> DEFINE line == Line(b.specend, b.rt)
      <3>2. b.list = Append(bc.list, line)
        BY <2>1
      <3> HIDE DEF line
      <3>3. b.list[b.line] = line
        BY <2>4, <3>1, <3>2
      <3> QED BY <3>3 DEF line
    <2>6. b.list[b.line].end = b.specend /\ b.list[b.line].rt = b.rt /\ StartOf(b) = b.specend - b.rt
      BY <2>5 DEF Line, StartOf
    <2>7. Spectral(bc')
      <3>1. bc'.list[bc'.line] = Line(bc'.specend, bc'.rt)
        BY <1>3, <2>5
      <3>2. bc'.end = bc'.specend
        BY <1>3, <1>9, <2>6
      <3> QED BY <1>3, <1>5, <2>3, <3>1, <3>2, Zenon DEF Spectral
    <2>8. /\ StartOf(b) \in Int /\ bc.specend <= StartOf(b) /\ StartOf(b) <= t'
          /\ b.rt \in {wave.dur[1][k] : k \in DOMAIN wave.dur[1]}
          /\ bc.reuseall => StartOf(b) = bc.specend
          /\ ~bc.reuseall => t' < b.specend
      <3>1. StartOf(b) \in Int
        BY <1>6, <2>6
      <3>2. /\ bc.specend <= b.specend - b.rt
            /\ b.rt \in {wave.dur[1][k] : k \in DOMAIN wave.dur[1]}
            /\ IF bc.reuseall THEN b.specend - b.rt = bc.specend
                              ELSE b.specend - b.rt <= t' /\ t' < b.specend
        BY <2>3 DEF Follows
      <3>3. CASE bc.reuseall
        BY <2>2, <2>6, <3>1, <3>2, <3>3
      <3>4. CASE ~bc.reuseall
        BY <2>6, <3>1, <3>2, <3>4
      <3> QED BY <3>3, <3>4
    <2>9. Started(b, t')
      BY <1>1, <2>6, <2>8, Zenon DEF Started
    <2>10. PICK c \in CflSteps : c \in Nat \ {0} /\ dt' <= c
      BY <1>1
    <2>11. ASSUME OneByOne => Outlast
           PROVE  t <= bc.specend /\ (bc.created => t < bc.specend)
      <3>1. CASE bc.created
        <4>1. Covers(bc, t, dt)
          BY <1>1, <3>1 DEF ConditionInv, Surfbeat
        <4>2. ~Delayed(bc) /\ ~(Len(bc.list) < bc.count)
          BY <1>6, <2>4 DEF Delayed
        <4>3. t < bc.end
          BY <2>11, <4>1, <4>2, Zenon DEF Covers, Kept
        <4> QED BY <1>1, <1>6, <2>2, <3>1, <4>3
      <3>2. CASE ~bc.created
        <4>1. t = 0
          BY <1>1, <3>2 DEF FirstInv
        <4> QED BY <2>2, <3>2, <4>1
      <3> QED BY <3>1, <3>2
    <2>12. ASSUME OneByOne => Outlast
           PROVE  t' < b.specend /\ t' <= StartOf(b) + c
      <3>1. t' <= StartOf(b) + c
        <4>1. c \in Nat /\ t <= bc.specend
          BY <2>10, <2>11, <2>12
        <4> QED BY <1>1, <1>6, <2>8, <2>10, <4>1, StartsInTime
      <3>2. CASE ~bc.reuseall
        BY <2>8, <3>1, <3>2
      <3>3. CASE bc.reuseall
        <4>1. bc.created /\ wave.keep
          <5>1. wave.keep
            BY <1>1, <3>3 DEF BcSound
          <5> QED BY <1>4, <3>3, <5>1 DEF Spectral
        <4>2. \A k \in DOMAIN wave.dur[1] : c <= wave.dur[1][k]
          BY <2>12, <4>1, Zenon DEF OneByOne, Outlast
        <4>3. c <= b.rt
          BY <2>8, <4>2
        <4>4. t < bc.specend
          BY <2>11, <2>12, <4>1
        <4>5. b.specend - b.rt = bc.specend
          BY <2>6, <2>8, <3>3
        <4>6. bc.specend + b.rt <= b.specend
          BY <1>6, <4>5
        <4>7. c \in Nat /\ dt' <= c
          BY <2>10
        <4>8. t' < bc.specend + b.rt
          <5>1. \A now, before, d, limit, rt \in Nat : \A old \in Int :
                    now <= before + d /\ d <= limit /\ limit <= rt /\ before < old => now < old + rt
            OBVIOUS
          <5>2. t' \in Nat /\ t \in Nat /\ dt' \in Nat /\ t' <= t + dt'
            BY <1>1
          <5>3. b.rt \in Nat /\ bc.specend \in Int
            BY <1>6
          <5> QED BY <4>3, <4>4, <4>7, <5>1, <5>2, <5>3, Zenon
        <4>9. t' < b.specend
          BY <1>1, <1>6, <4>6, <4>8
        <4> QED BY <3>1, <4>9
      <3> QED BY <3>2, <3>3
    <2>13. Enters(b, t')
      BY <1>9, <2>6, <2>9, <2>12, Zenon DEF Enters
    <2> QED BY <2>7, <2>13 DEF b
  <1> QED BY <1>2, <1>7, <1>8, <1>9

LEMMA ReuseMoves ==
    ASSUME IInv, WaveTypes, FirstInv, ConditionInv, WaveStep, wave.kind = "reuse",
           error' # 1, halted' \in {"no", "record"}, SameDurations
    PROVE  LET b == CurrentBc(t', dt')
           IN  Stays(b, t') \/ Keeps(b, t', dt') \/ Enters(b, t')
  <1> DEFINE b == CurrentBc(t', dt')
             still == [bc EXCEPT !.startbcf = FALSE]
  <1>1. /\ t \in Nat /\ t' \in Nat /\ dt' \in Nat /\ t <= t' /\ t' <= t + dt' /\ t' < Huge
        /\ par.tstop \in Nat /\ Going /\ (\E c \in CflSteps : c \in Nat \ {0} /\ dt' <= c)
        /\ wave \in Waves /\ BcSound(bc) /\ BcSound(b) /\ Listed(b) /\ b.created = TRUE
    BY SurfbeatStep, Zenon DEF Surfbeat
  <1>2. /\ b.end = bc.end /\ b.list = bc.list
        /\ \/ ~bc.created /\ b.startbcf = TRUE /\ b.line = 1
           \/ bc.created /\ t' < bc.end /\ b = still
           \/ /\ bc.created /\ ~(t' < bc.end) /\ b.startbcf = TRUE
              /\ b.line = IF LastStep(t', dt') THEN bc.line ELSE bc.line + 1
    BY <1>1, CurrentReuse, Zenon
  <1> HIDE DEF b
  <1>3. b.list = FormerList(wave) /\ bc.list = FormerList(wave)
    BY <1>1 DEF BcSound
  <1> DEFINE l == b.line
  <1>4. /\ b.list[l].end = EndOf(wave, l) /\ b.list[l].rt = wave.dur[1][l]
        /\ l \in DOMAIN wave.dur[1] /\ EndOf(wave, l) \in Nat /\ EndOf(wave, l - 1) \in Nat
        /\ wave.dur[1][l] \in Nat /\ EndOf(wave, l) - wave.dur[1][l] = EndOf(wave, l - 1)
    <2>1. l \in 1..Len(FormerList(wave))
      BY <1>1, <1>3 DEF Listed
    <2> QED BY <1>1, <1>3, <2>1, FormerLine
  <1>5. StartOf(b) = EndOf(wave, l - 1) /\ StartOf(b) \in Nat
    BY <1>4 DEF StartOf
  <1>6. b.list[l].rt \in {wave.dur[1][k] : k \in DOMAIN wave.dur[1]}
    BY <1>4
  <1>7. PICK c \in CflSteps : c \in Nat \ {0} /\ dt' <= c
    BY <1>1
  <1>8. OneByOne
    BY DEF OneByOne
  <1>9. CASE ~bc.created /\ b.startbcf = TRUE /\ b.line = 1
    <2>1. t = 0
      BY <1>1, <1>9 DEF FirstInv
    <2>2. StartOf(b) = 0
      <3>1. EndOf(wave, 0) = 0
        BY <1>1, EndsGrow
      <3> QED BY <1>5, <1>9, <3>1
    <2>3. Started(b, t')
      <3>1. StartOf(b) <= t'
        BY <1>1, <2>2
      <3> QED BY <1>1, <1>6, <3>1, Zenon DEF Started
    <2>4. t' <= c
      <3>1. \A now, d, limit \in Nat : now <= 0 + d /\ d <= limit => now <= limit
        OBVIOUS
      <3>2. t' <= 0 + dt'
        BY <1>1, <2>1, Zenon
      <3>3. t' \in Nat /\ dt' \in Nat /\ c \in Nat /\ dt' <= c
        BY <1>1, <1>7
      <3> QED BY <3>1, <3>2, <3>3, Zenon
    <2>5. t' <= StartOf(b) + c
      BY <1>7, <2>2, <2>4
    <2>6. ASSUME Outlast PROVE t' < b.list[l].end
      <3>1. c < wave.dur[1][1]
        BY <2>6, Zenon DEF Outlast
      <3>2. b.list[l].end = wave.dur[1][1]
        BY <1>4, <1>5, <1>9, <2>2
      <3>3. wave.dur[1][1] \in Nat
        BY <1>4, <1>9
      <3>4. t' < wave.dur[1][1]
        BY <1>1, <1>7, <2>4, <3>1, <3>3
      <3> QED BY <3>2, <3>4
    <2>7. Enters(b, t')
      BY <1>8, <1>9, <2>3, <2>5, <2>6, Zenon DEF Enters
    <2> QED BY <2>7 DEF b
  <1>10. CASE bc.created /\ t' < bc.end /\ b = still
    <2>1. b.startbcf = FALSE /\ b.line = bc.line
      BY <1>1, <1>10 DEF BcSound, BcStates
    <2>2. Stays(b, t')
      BY <1>2, <1>10, <2>1, Zenon DEF Stays
    <2> QED BY <2>2 DEF b
  <1>11. CASE bc.created /\ ~(t' < bc.end) /\ b.startbcf = TRUE /\ LastStep(t', dt')
              /\ b.line = bc.line
    <2>1. Keeps(b, t', dt')
      BY <1>2, <1>11, Zenon DEF Keeps
    <2> QED BY <2>1 DEF b
  <1>12. CASE bc.created /\ ~(t' < bc.end) /\ b.startbcf = TRUE /\ b.line = bc.line + 1
    <2>1. Started(bc, t) /\ bc.end = bc.list[bc.line].end /\ Covers(bc, t, dt)
      BY <1>1, <1>12 DEF ConditionInv, Surfbeat
    <2>2. /\ bc.end \in Int /\ StartOf(bc) \in Int /\ StartOf(bc) <= bc.end
          /\ bc.line \in 1..Len(FormerList(wave))
      <3>1. Listed(bc)
        BY <2>1 DEF Started
      <3>2. /\ bc.list[bc.line].end \in Int /\ bc.list[bc.line].rt \in Nat
            /\ StartOf(bc) = bc.list[bc.line].end - bc.list[bc.line].rt
        BY <1>1, <3>1, ListedLine
      <3> QED BY <1>3, <2>1, <3>1, <3>2 DEF Listed
    <2>3. StartOf(b) = bc.end
      <3>1. bc.list[bc.line].end = EndOf(wave, bc.line)
        BY <1>1, <1>3, <2>2, FormerLine
      <3>2. l - 1 = bc.line
        BY <1>12, <2>2
      <3> QED BY <1>5, <2>1, <3>1, <3>2
    <2>4. Started(b, t')
      <3>1. StartOf(b) <= t'
        BY <1>1, <1>12, <2>2, <2>3
      <3> QED BY <1>1, <1>6, <3>1, Zenon DEF Started
    <2>5. ASSUME Outlast, ~Delayed(b)
          PROVE  t' < b.list[l].end /\ t' <= StartOf(b) + c
      <3>1. ~Late(bc.end)
        BY <2>3, <2>5, Zenon DEF Delayed
      <3>2. ~Late(StartOf(bc))
        BY <1>1, <2>2, <3>1, LateGrows
      <3>3. t < bc.end
        BY <2>1, <2>5, <3>1, <3>2, Zenon DEF Covers, Delayed, Kept
      <3>4. t' <= StartOf(b) + c
        <4>1. c \in Nat /\ t <= bc.end /\ bc.end <= StartOf(b) /\ StartOf(b) \in Int
          BY <1>1, <1>5, <1>7, <2>2, <2>3, <3>3
        <4> QED BY <1>1, <1>7, <2>2, <4>1, StartsInTime
      <3>5. c <= wave.dur[1][l]
        BY <1>4, <2>5, Zenon DEF Outlast
      <3>6. t' < b.list[l].end
        <4>1. \A now, before, d, limit, rt, end, start \in Nat :
                  (now <= before + d /\ d <= limit /\ limit <= rt /\ before < start /\ end - rt = start)
                  => now < end
          OBVIOUS
        <4>2. t' \in Nat /\ t \in Nat /\ dt' \in Nat /\ t' <= t + dt' /\ c \in Nat /\ dt' <= c
          BY <1>1, <1>7
        <4>3. t < EndOf(wave, l - 1)
          BY <1>5, <2>3, <3>3
        <4>4. t' < EndOf(wave, l)
          BY <1>4, <3>5, <4>1, <4>2, <4>3, Zenon
        <4> QED BY <1>4, <4>4
      <3> QED BY <3>4, <3>6
    <2>6. Enters(b, t')
      BY <1>8, <1>12, <2>4, <2>5, Zenon DEF Enters
    <2> QED BY <2>6 DEF b
  <1> QED BY <1>2, <1>9, <1>10, <1>11, <1>12

\* The last step after a condition that was followed in time.
LEMMA LastStepIsLate ==
    ASSUME t \in Nat, t' \in Nat, dt' \in Nat, t' <= t + dt', par.tstop \in Nat,
           NEW c \in CflSteps, c \in Nat, dt' <= c, NEW end \in Int, t < end, LastStep(t', dt')
    PROVE  Late(end)
  <1>1. \A now, before, d, limit, stop \in Nat : \A e \in Int :
            now <= before + d /\ d <= limit /\ before < e /\ now > stop - d => stop < e + 2 * limit
    OBVIOUS
  <1>2. t' > par.tstop - dt'
    BY Zenon DEF LastStep
  <1>3. par.tstop < end + 2 * c
    BY <1>1, <1>2, Zenon
  <1> QED BY <1>3, Zenon DEF Late

LEMMA NextSignal ==
    ASSUME IInv, WaveTypes, RecordsInv, ConditionInv, WaveStep, Surfbeat,
           error' # 1, halted' \in {"no", "record"}, SameDurations,
           NEW b, b = CurrentBc(t', dt'), Stays(b, t') \/ Keeps(b, t', dt') \/ Enters(b, t')
    PROVE  /\ Started(bc', t') /\ bc'.end = bc'.list[bc'.line].end /\ Covers(bc', t', dt')
           /\ \E e \in 0..t' : Entered(bc', sig', t', e)
  <1> DEFINE c == bc'
             s == sig'
  <1>1. /\ t \in Nat /\ t' \in Nat /\ dt' \in Nat /\ t <= t' /\ t' <= t + dt' /\ t' < Huge
        /\ par.tstop \in Nat /\ Going /\ (\E m \in CflSteps : m \in Nat \ {0} /\ dt' <= m)
        /\ wave \in Waves /\ BcSound(bc) /\ BcSound(b) /\ Listed(b) /\ b.created = TRUE
        /\ c = WithEnd(b) /\ s = CurrentRecords(b, t')
    BY SurfbeatStep, Zenon
  <1>2. /\ BcSound(c) /\ c.created = TRUE /\ c.line = b.line /\ c.list = b.list /\ c.count = b.count
        /\ c.end = IF b.startbcf THEN b.list[b.line].end ELSE b.end
    BY <1>1, WithEndSound, Zenon
  <1>3. StartOf(c) = StartOf(b) /\ (Delayed(c) <=> Delayed(b)) /\ Listed(c)
        /\ (\A now : Started(c, now) <=> Started(b, now))
    BY <1>1, <1>2, Zenon DEF StartOf, Delayed, Listed, Started
  <1>4. bc.created => Started(bc, t) /\ bc.end = bc.list[bc.line].end /\ Covers(bc, t, dt)
                      /\ \E e \in 0..t : Entered(bc, sig, t, e)
    BY <1>1, Zenon DEF ConditionInv
  <1> HIDE DEF c, s
  <1>5. ASSUME b.startbcf = TRUE
        PROVE  s.recpos = Slot(t') - Slot(t') + 1 /\ Slot(t') \in Nat
    <2>1. s.recpos = 1
      BY <1>1, <1>5, FirstRecordsSound, Zenon DEF CurrentRecords
    <2>2. Slot(t') \in Nat
      BY <1>1, SlotsGrow
    <2> QED BY <2>1, <2>2
  <1>6. ASSUME b.line = bc.line, b.list = bc.list, bc.created
        PROVE  /\ Listed(bc) /\ StartOf(c) = StartOf(bc) /\ StartOf(bc) \in Int /\ StartOf(bc) <= t'
               /\ bc.end \in Int /\ c.list[c.line].end = bc.end /\ Started(c, t')
               /\ Delayed(c) <=> Delayed(bc)
    <2>1. Started(bc, t) /\ bc.end = bc.list[bc.line].end
      BY <1>4, <1>6
    <2>2. Listed(bc)
      BY <2>1 DEF Started
    <2>3. StartOf(bc) \in Int /\ bc.list[bc.line].end \in Int
      BY <1>1, <2>2, ListedLine
    <2>4. StartOf(bc) <= t'
      <3>1. StartOf(bc) <= t
        BY <2>1 DEF Started
      <3> QED BY <1>1, <2>3, <3>1
    <2>5. StartOf(c) = StartOf(bc) /\ (Delayed(c) <=> Delayed(bc)) /\ c.list[c.line].end = bc.end
      BY <1>2, <1>6, <2>1, Zenon DEF StartOf, Delayed
    <2>6. Started(c, t')
      BY <1>2, <1>3, <1>6, <2>1, <2>4, <2>5, Zenon DEF Started
    <2> QED BY <2>1, <2>2, <2>3, <2>4, <2>5, <2>6, Zenon
  <1>7. CASE Stays(b, t')
    <2>1. /\ bc.created /\ t' < bc.end /\ b.startbcf = FALSE /\ b.line = bc.line
          /\ b.list = bc.list /\ b.end = bc.end
      BY <1>7 DEF Stays
    <2>2. /\ StartOf(c) = StartOf(bc) /\ bc.end \in Int /\ c.list[c.line].end = bc.end
          /\ Started(c, t') /\ (Delayed(c) <=> Delayed(bc)) /\ c.end = bc.end
      BY <1>2, <1>6, <2>1, Zenon
    <2>3. Covers(c, t', dt')
      BY <2>1, <2>2, Zenon DEF Covers
    <2>4. PICK e \in 0..t : Entered(bc, sig, t, e)
      BY <1>4, <2>1
    <2>5. s = NextRecords(t')
      BY <1>1, <2>1, Zenon DEF CurrentRecords
    <2>6. sig.old = Slot(t)
      BY <1>1, <2>1, Zenon DEF RecordsInv, Neighbours
    <2>7. Slot(t) \in Nat /\ Slot(t') \in Nat /\ Slot(t) <= Slot(t') /\ Slot(e) \in Nat
      <3>1. e \in Nat
        BY <1>1, <2>4
      <3> QED BY <1>1, <3>1, SlotsGrow
    <2>8. s.recpos = sig.recpos + (Slot(t') - sig.old)
      <3>1. sig.recpos \in Nat /\ sig.old \in Nat
        BY DEF WaveTypes
      <3>2. sig.old <= Slot(t')
        BY <2>6, <2>7
      <3> QED BY <2>5, <2>7, <3>1, <3>2, NextRecordsSound, Zenon
    <2>9. s.recpos = Slot(t') - Slot(e) + 1
      <3>1. sig.recpos = Slot(t) - Slot(e) + 1
        BY <2>4, Zenon DEF Entered
      <3> QED BY <2>6, <2>7, <2>8, <3>1
    <2>10. e \in 0..t' /\ e <= t'
      BY <1>1, <2>4
    <2>11. ~(bc.end <= t)
      BY <1>1, <2>1, <2>2
    <2>12. Entered(c, s, t', e)
      BY <2>1, <2>2, <2>4, <2>9, <2>10, <2>11, Zenon DEF Entered
    <2> QED BY <2>2, <2>3, <2>10, <2>12 DEF c, s
  <1>8. CASE Keeps(b, t', dt')
    <2>1. /\ bc.created /\ ~(t' < bc.end) /\ LastStep(t', dt') /\ b.startbcf = TRUE
          /\ b.line = bc.line /\ b.list = bc.list
          /\ wave.kind = "spectra" => Len(b.list) < b.count
      BY <1>8 DEF Keeps
    <2>2. /\ StartOf(c) = StartOf(bc) /\ bc.end \in Int /\ c.list[c.line].end = bc.end
          /\ StartOf(bc) <= t'
          /\ Started(c, t') /\ (Delayed(c) <=> Delayed(bc)) /\ c.end = bc.end
      BY <1>2, <1>6, <2>1, Zenon
    <2>3. PICK m \in CflSteps : m \in Nat /\ dt' <= m
      BY <1>1
    <2>4. ASSUME OneByOne => Outlast, wave.kind = "reuse"
          PROVE  Late(bc.end) \/ Delayed(c)
      <3>1. t < bc.end => Late(bc.end)
        BY <1>1, <2>1, <2>2, <2>3, LastStepIsLate
      <3>2. Covers(bc, t, dt)
        BY <1>4, <2>1
      <3> QED BY <2>2, <2>4, <3>1, <3>2, Zenon DEF Covers, Kept
    <2>5. Covers(c, t', dt')
      BY <1>2, <2>1, <2>2, <2>4, Zenon DEF Covers, Kept
    <2>6. StartOf(c) <= t' /\ bc.end <= t' /\ t' \in 0..t' /\ t' <= t'
      BY <1>1, <2>1, <2>2
    <2>7. Entered(c, s, t', t')
      BY <1>5, <2>1, <2>2, <2>6, Zenon DEF Entered
    <2> QED BY <2>2, <2>5, <2>6, <2>7 DEF c, s
  <1>9. CASE Enters(b, t')
    <2>1. /\ b.startbcf = TRUE /\ Started(b, t')
          /\ (OneByOne => Outlast) /\ ~Delayed(b) =>
                 t' < b.list[b.line].end /\ \E m \in CflSteps : t' <= StartOf(b) + m
      BY <1>9 DEF Enters
    <2>2. Started(c, t') /\ c.end = b.list[b.line].end /\ c.end = c.list[c.line].end
      BY <1>2, <1>3, <2>1, Zenon
    <2>3. Covers(c, t', dt')
      BY <1>3, <2>1, <2>2, Zenon DEF Covers
    <2>4. StartOf(c) <= t' /\ t' \in 0..t' /\ t' <= t'
      BY <1>1, <2>2 DEF Started
    <2>5. Entered(c, s, t', t')
      BY <1>3, <1>5, <2>1, <2>4, Zenon DEF Entered
    <2> QED BY <2>2, <2>3, <2>4, <2>5 DEF c, s
  <1> QED BY <1>7, <1>8, <1>9
-----------------------------------------------------------------------------
(* The length of a signal *)

\* nint gives every record that begins within a duration.
LEMMA RecordsReach ==
    ASSUME NEW k \in Nat \ {0}, NEW rt \in Nat, NEW a \in Nat, NEW b \in Nat, a <= b,
           b - a < rt \/ b <= a, rt % k = 0 \/ 2 * (rt % k) >= k
    PROVE  b \div k - a \div k <= (2 * rt + k) \div (2 * k)
  <1> DEFINE n == b \div k - a \div k
             m == rt \div k
             rest == rt % k
             twice == 2 * rt + k
             double == 2 * k
             R == twice \div double
  <1>1. n \in Nat /\ k * n <= b - a + k - 1 /\ k * n \in Nat
    <2>1. /\ a \div k \in Nat /\ b \div k \in Nat /\ a \div k <= b \div k
          /\ k * (b \div k - a \div k) <= b - a + k - 1
      BY SlotsBetween
    <2>2. n \in Nat
      BY <2>1
    <2> HIDE DEF n
    <2>3. k * n \in Nat
      BY <2>2, ProductOfNats
    <2> QED BY <2>1, <2>2, <2>3 DEF n
  <1>2. rest \in Nat /\ rest < k /\ m \in Nat /\ k * m \in Nat /\ rt = k * m + rest
    <2>1. m \in Nat /\ k * m \in Nat
      BY Division
    <2>2. rest \in 0..(k - 1) /\ rt = k * m + rest
      BY SMT
    <2> HIDE DEF m, rest
    <2> QED BY <2>1, <2>2
  <1>3. /\ twice \in Nat /\ double \in Nat \ {0} /\ twice = 2 * rt + k /\ double = 2 * k
    OBVIOUS
  <1> HIDE DEF twice, double
  <1>4. R \in Nat /\ double * R \in Nat /\ twice < double * R + double
    BY <1>3, Division
  <1>5. rest = 0 \/ 2 * rest >= k
    OBVIOUS
  <1> HIDE DEF n, m, rest, R
  <1>6. double * R = 2 * (k * R) /\ k * R \in Nat
    <2>1. k * R \in Nat
      BY <1>4, ProductOfNats
    <2>2. double * R = (2 * k) * R
      BY <1>3
    <2>3. (2 * k) * R = 2 * (k * R)
      BY <1>4
    <2> QED BY <2>1, <2>2, <2>3
  <1>7. ASSUME n >= R + 1 PROVE FALSE
    <2>1. k * (R + 1) <= k * n /\ k * (R + 1) = k * R + k
      <3>1. k * (R + 1) <= k * n
        BY <1>1, <1>4, <1>7, ProductOrder
      <3>2. k * (R + 1) = k * R + k
        BY <1>4
      <3> QED BY <3>1, <3>2
    <2> DEFINE kR == k * R
               km == k * m
               kn == k * n
    <2>2. kR \in Nat /\ km \in Nat /\ kn \in Nat /\ kR + k <= kn /\ kn <= b - a + k - 1
          /\ 2 * rt + k < 2 * kR + 2 * k /\ rt = km + rest
      BY <1>1, <1>2, <1>3, <1>4, <1>6, <2>1
    <2> HIDE DEF kR, km, kn
    <2>3. kR < rt
      BY <2>2
    <2>4. 2 * rt < 2 * kR + k
      BY <2>2
    <2>5. rest < k /\ rest \in Nat
      BY <1>2
    <2>6. CASE rest = 0
      <3>1. ~(R + 1 <= m)
        <4> SUFFICES ASSUME R + 1 <= m PROVE FALSE
          OBVIOUS
        <4>1. k * (R + 1) <= k * m
          BY <1>2, <1>4, ProductOrder
        <4>2. kR + k <= km
          BY <2>1, <4>1 DEF kR, km
        <4> QED BY <2>2, <2>4, <2>6, <4>2
      <3>2. ~(m <= R)
        <4> SUFFICES ASSUME m <= R PROVE FALSE
          OBVIOUS
        <4>1. km <= kR
          BY <1>2, <1>4, ProductOrder DEF kR, km
        <4> QED BY <2>2, <2>3, <2>6, <4>1
      <3> QED BY <1>2, <1>4, <3>1, <3>2
    <2>7. CASE 2 * rest >= k
      <3>1. ~(R <= m)
        <4> SUFFICES ASSUME R <= m PROVE FALSE
          OBVIOUS
        <4>1. kR <= km
          BY <1>2, <1>4, ProductOrder DEF kR, km
        <4> QED BY <2>2, <2>4, <2>5, <2>7, <4>1
      <3>2. ~(m + 1 <= R)
        <4> SUFFICES ASSUME m + 1 <= R PROVE FALSE
          OBVIOUS
        <4>1. k * (m + 1) <= k * R
          BY <1>2, <1>4, ProductOrder
        <4>2. k * (m + 1) = k * m + k
          BY <1>2
        <4>3. km + k <= kR
          BY <4>1, <4>2 DEF kR, km
        <4> QED BY <2>2, <2>3, <2>5, <4>3
      <3> QED BY <1>2, <1>4, <3>1, <3>2
    <2> QED BY <1>5, <2>6, <2>7
  <1>8. n <= R
    BY <1>1, <1>4, <1>7
  <1> QED BY <1>8 DEF n, R, twice, double

\* The record read lies within the signal of its condition.
LEMMA SignalReaches ==
    ASSUME wave \in Waves, wave.kind # "series", NEW b, BcSound(b), NEW now \in Nat,
           Started(b, now), b.end = b.list[b.line].end, WholeRecords,
           NEW s, NEW e \in 0..now, Entered(b, s, now, e)
    PROVE  ~(s.recpos + 1 > SignalRecords(b))
  <1> DEFINE rt == b.list[b.line].rt
             k == wave.dtbc
             n == now \div k - e \div k
             R == (2 * rt + k) \div (2 * k)
  <1>1. /\ Listed(b) /\ rt \in {wave.dur[1][j] : j \in DOMAIN wave.dur[1]}
    BY DEF Started
  <1>2. /\ b.list[b.line].end \in Int /\ rt \in Nat /\ StartOf(b) \in Int
        /\ StartOf(b) = b.list[b.line].end - rt
    BY <1>1, ListedLine
  <1>3. k \in Nat \ {0} /\ e \in Nat /\ e <= now
    BY WaveSound
  <1>4. rt % k = 0 \/ 2 * (rt % k) >= k
    <2>1. PICK j \in DOMAIN wave.dur[1] : rt = wave.dur[1][j]
      BY <1>1
    <2>2. wave.dur[1][j] % k = 0 \/ 2 * (wave.dur[1][j] % k) >= k
      BY DEF WholeRecords
    <2> QED BY <2>1, <2>2
  <1>5. now - e < rt \/ now <= e
    <2>1. StartOf(b) <= e /\ (now < b.end \/ e = now)
      BY Zenon DEF Entered
    <2> HIDE DEF rt
    <2> QED BY <1>2, <1>3, <2>1
  <1>6. s.recpos = Slot(now) - Slot(e) + 1 /\ Slot(now) - Slot(e) = n
    <2>1. Slot(now) - Slot(e) = n
      BY <1>3, SlotsGrow
    <2> QED BY <2>1, Zenon DEF Entered
  <1>7. SignalRecords(b) = R + 2
    BY DEF SignalRecords
  <1>8. n <= R
    <2> HIDE DEF rt, k
    <2> QED BY <1>2, <1>3, <1>4, <1>5, RecordsReach
  <1>9. n \in Nat /\ R \in Nat
    <2>1. n \in Nat
      <3>1. now \div k \in Nat /\ e \div k \in Nat /\ e \div k <= now \div k
        <4> HIDE DEF k
        <4> QED BY <1>3, SlotsBetween
      <3> QED BY <3>1
    <2>2. 2 * rt + k \in Nat /\ 2 * k \in Nat \ {0}
      BY <1>2, <1>3
    <2> QED BY <2>1, <2>2, Division
  <1> HIDE DEF n, R
  <1>10. s.recpos = n + 1
    BY <1>6
  <1> QED BY <1>7, <1>8, <1>9, <1>10
-----------------------------------------------------------------------------
(* The invariant, step by step *)

LEMMA ConditionMoves ==
    ASSUME IInv, WaveTypes, FirstInv, RecordsInv, SpectraInv, ConditionInv, WaveStep, Surfbeat,
           error' # 1, halted' \in {"no", "record"}, SameDurations
    PROVE  /\ Started(bc', t') /\ bc'.end = bc'.list[bc'.line].end /\ Covers(bc', t', dt')
           /\ \E e \in 0..t' : Entered(bc', sig', t', e)
           /\ wave.kind = "spectra" => Spectral(bc')
  <1> DEFINE b == CurrentBc(t', dt')
  <1>1. /\ Stays(b, t') \/ Keeps(b, t', dt') \/ Enters(b, t')
        /\ wave.kind = "spectra" => Spectral(bc')
    <2>1. CASE wave.kind = "spectra"
      BY <2>1, SpectraMoves, Zenon
    <2>2. CASE wave.kind = "reuse"
      BY <2>2, ReuseMoves, Zenon
    <2> QED BY <2>1, <2>2 DEF Surfbeat
  <1> HIDE DEF b
  <1>2. b = CurrentBc(t', dt')
    BY DEF b
  <1> QED BY <1>1, <1>2, NextSignal, Zenon

LEMMA SameInput ==
    ASSUME [WaveNext]_<<vars, waveVars>>, IInv
    PROVE  wave' = wave /\ par' = par
  <1>1. CASE WaveStep
    <2>1. /\ par' = par
          /\ UNCHANGED waveVars \/ UNCHANGED <<wave, bc, sig, srs, taper>> \/ WaveBc(t', dt')
      BY <1>1, StepMoves, Zenon
    <2> QED BY <2>1 DEF WaveBc, waveVars
  <1>2. CASE ~WaveStep
    BY <1>2, OtherSteps DEF waveVars
  <1> QED BY <1>1, <1>2

LEMMA NextCondition ==
    ASSUME IInv, WaveTypes, FirstInv, RecordsInv, SpectraInv, ConditionInv,
           [WaveNext]_<<vars, waveVars>>
    PROVE  SpectraInv' /\ ConditionInv'
  <1>1. wave' = wave /\ par' = par
    BY SameInput
  <1>2. (SameDurations' <=> SameDurations) /\ (Surfbeat' <=> Surfbeat)
    BY <1>1, Zenon DEF SameDurations, Surfbeat
  <1>3. CASE WaveStep /\ Going' /\ Surfbeat /\ SameDurations
    <2>1. error' # 1 /\ halted' \in {"no", "record"}
      BY <1>3 DEF Going, Running
    <2>2. /\ Started(bc', t') /\ bc'.end = bc'.list[bc'.line].end /\ Covers(bc', t', dt')
          /\ \E e \in 0..t' : Entered(bc', sig', t', e)
          /\ wave.kind = "spectra" => Spectral(bc')
      BY <1>3, <2>1, ConditionMoves, Zenon
    <2>3. Started(bc, t)'
      BY <1>1, <2>2, Zenon DEF Started, Listed, StartOf
    <2>4. Covers(bc, t, dt)'
      BY <1>1, <2>2, Zenon DEF Covers, Delayed, Kept, Late, LastStep, OneByOne, Outlast, StartOf
    <2>5. \A e : Entered(bc', sig', t', e) => Entered(bc, sig, t, e)'
      BY <1>1, Zenon DEF Entered, Slot, Delayed, Late, OneByOne, Outlast, StartOf
    <2>6. Spectral(bc') => Spectral(bc)'
      BY <1>1, Zenon DEF Spectral, Reader, Line
    <2>7. \E e \in 0..t' : Entered(bc, sig, t, e)'
      BY <2>2, <2>5, Zenon
    <2>8. ConditionInv'
      BY <2>2, <2>3, <2>4, <2>7, Zenon DEF ConditionInv
    <2>9. SpectraInv'
      BY <1>1, <2>2, <2>6, Zenon DEF SpectraInv
    <2> QED BY <2>8, <2>9
  <1>4. CASE WaveStep /\ ~(Going' /\ Surfbeat /\ SameDurations)
    <2>1. wave.kind = "spectra" => Surfbeat
      BY DEF Surfbeat
    <2> QED BY <1>1, <1>2, <1>4, <2>1, Zenon DEF SpectraInv, ConditionInv
  <1>5. CASE ~WaveStep
    <2>1. UNCHANGED <<par, t, dt, error>> /\ UNCHANGED waveVars
      BY <1>5, OtherSteps
    <2>2. bc' = bc /\ sig' = sig /\ t' = t /\ dt' = dt /\ (Going' <=> Going)
      BY <2>1 DEF waveVars, Going, Running
    <2>3. SpectraInv'
      BY <1>1, <1>2, <2>2, Zenon DEF SpectraInv, Spectral, Reader, Line
    <2>4. ConditionInv'
      <3>1. Started(bc, t)' <=> Started(bc, t)
        BY <1>1, <2>2, Zenon DEF Started, Listed, StartOf
      <3>2. Covers(bc, t, dt)' <=> Covers(bc, t, dt)
        BY <1>1, <2>2, Zenon DEF Covers, Delayed, Kept, Late, LastStep, OneByOne, Outlast, StartOf
      <3>3. \A e : Entered(bc, sig, t, e)' <=> Entered(bc, sig, t, e)
        BY <1>1, <2>2, Zenon DEF Entered, Slot, Delayed, Late, OneByOne, Outlast, StartOf
      <3> QED BY <1>2, <2>2, <3>1, <3>2, <3>3, Zenon DEF ConditionInv
    <2> QED BY <2>3, <2>4
  <1> QED BY <1>3, <1>4, <1>5

LEMMA NextLength ==
    ASSUME IInv, WaveTypes, FirstInv, RecordsInv, SpectraInv, ConditionInv, LengthInv,
           [WaveNext]_<<vars, waveVars>>
    PROVE  LengthInv'
  <1>1. wave' = wave /\ par' = par
    BY SameInput
  <1>2. (SameDurations' <=> SameDurations) /\ (WholeRecords' <=> WholeRecords)
    BY <1>1, Zenon DEF SameDurations, WholeRecords
  <1> SUFFICES ASSUME SameDurations, WholeRecords, halted' = "record" PROVE FALSE
    BY <1>2, Zenon DEF LengthInv
  <1>3. halted # "record"
    BY DEF LengthInv
  <1>4. WaveStep
    <2>1. ~WaveStep => halted' = halted
      BY OtherSteps DEF waveVars
    <2> QED BY <1>3, <2>1
  <1>5. /\ t' \in Nat /\ wave \in Waves
        /\ \/ error' = 1 /\ UNCHANGED waveVars
           \/ error' # 1 /\ halted' = "input" /\ UNCHANGED <<wave, bc, sig, srs, taper>>
           \/ error' # 1 /\ ~InputEnds(t', dt') /\ WaveBc(t', dt')
    BY <1>4, StepMoves, Zenon DEF WaveTypes
  <1>6. error' # 1 /\ WaveBc(t', dt')
    BY <1>3, <1>5 DEF waveVars
  <1> DEFINE b == CurrentBc(t', dt')
  <1>7. Surfbeat /\ sig'.recpos + 1 > SignalRecords(b)
    <2>1. \/ Surfbeat /\ halted' = "line"
          \/ Surfbeat /\ halted' = IF sig'.recpos + 1 > SignalRecords(b) THEN "record" ELSE "no"
          \/ halted' = "no"
      BY <1>6, WaveBcCases, Zenon
    <2> HIDE DEF b
    <2> QED BY <2>1
  <1>8. /\ Started(bc', t') /\ bc'.end = bc'.list[bc'.line].end
        /\ \E e \in 0..t' : Entered(bc', sig', t', e)
    BY <1>4, <1>6, <1>7, ConditionMoves
  <1>9. BcSound(b) /\ Listed(b) /\ b.created = TRUE /\ bc' = WithEnd(b)
    BY <1>4, <1>6, <1>7, SurfbeatStep
  <1> HIDE DEF b
  <1>10. BcSound(bc') /\ bc'.line = b.line /\ bc'.list = b.list
    BY <1>9, WithEndSound, Zenon
  <1>11. SignalRecords(bc') = SignalRecords(b)
    BY <1>10, Zenon DEF SignalRecords
  <1>12. wave.kind # "series"
    BY <1>7 DEF Surfbeat
  <1>13. ~(sig'.recpos + 1 > SignalRecords(bc'))
    BY <1>5, <1>8, <1>10, <1>12, SignalReaches, Zenon
  <1> QED BY <1>7, <1>11, <1>13

LEMMA InitCondition == WaveInit => RecordsInv /\ SpectraInv /\ ConditionInv /\ LengthInv
  <1> SUFFICES ASSUME WaveInit PROVE RecordsInv /\ SpectraInv /\ ConditionInv /\ LengthInv
    OBVIOUS
  <1>1. bc.created = FALSE /\ bc.line = 0 /\ bc.specend = 0 /\ bc.reuseall = FALSE
        /\ bc.read = [l \in 1..Len(wave.dur) |-> 0] /\ halted = "no" /\ wave \in Waves
    BY DEF WaveInit
  <1>2. wave.kind = "spectra" => Spectral(bc)
    <2> SUFFICES ASSUME wave.kind = "spectra" PROVE Spectral(bc)
      OBVIOUS
    <2>1. 1 \in DOMAIN wave.dur /\ wave.dur \in Seq(Seq(Nat \ {0}))
      BY <1>1, WaveSound, Zenon
    <2>2. \A l \in DOMAIN wave.dur : bc.read[l] = 0
      BY <1>1, <2>1
    <2>3. \A l \in DOMAIN wave.dur : bc.read[l] = bc.read[1]
      BY <2>1, <2>2
    <2> QED BY <1>1, <2>3, Zenon DEF Spectral, Reader
  <1> QED BY <1>1, <1>2, Zenon DEF RecordsInv, SpectraInv, ConditionInv, LengthInv

LEMMA ConditionInvariant == WaveSpec => [](RecordsInv /\ SpectraInv /\ ConditionInv /\ LengthInv)
  BY InitCondition, NextRecordsInv, NextCondition, NextLength, WaveInvariant, WaveIsClock,
     PTL DEF WaveSpec

\* For every input and choice of steps the condition in use is the one the
\* clock is in, unless the test for the last computational timestep held.
THEOREM ConditionFollows == WaveSpec => []ConditionCoversClock
  <1>1. WaveTypes /\ TableInv /\ ConditionInv => ConditionCoversClock
    <2> SUFFICES ASSUME WaveTypes, TableInv, ConditionInv, InForce PROVE ConditionCoversClock
      BY Zenon DEF ConditionCoversClock
    <2>1. Going /\ bc.created
      BY DEF InForce, Going
    <2>2. CASE wave.kind = "table"
      <3>1. TableFits(bc, t) /\ t < bc.end
        BY <2>1, <2>2, Zenon DEF TableInv
      <3>2. EndOf(wave, bc.line - 1) <= t /\ t < EndOf(wave, bc.line)
        BY <3>1, Zenon DEF TableFits
      <3> QED BY <2>2, <3>2, Zenon DEF ConditionCoversClock, Surfbeat
    <2>3. CASE Surfbeat
      <3>1. ASSUME SameDurations, OneByOne => Outlast, ~Behind
            PROVE  StartOf(bc) <= t /\ (t < bc.end \/ LastStep(t, dt))
        <4>1. Started(bc, t) /\ Covers(bc, t, dt)
          BY <2>1, <2>3, <3>1, Zenon DEF ConditionInv
        <4>2. ~Delayed(bc)
          BY <3>1, Zenon DEF Behind, Delayed, Late
        <4> QED BY <3>1, <4>1, <4>2, Zenon DEF Started, Covers, Kept
      <3>2. wave.kind # "table"
        BY <2>3 DEF Surfbeat
      <3> QED BY <3>1, <3>2, Zenon DEF ConditionCoversClock
    <2>4. CASE wave.kind # "table" /\ ~Surfbeat
      BY <2>4, Zenon DEF ConditionCoversClock
    <2> QED BY <2>2, <2>3, <2>4
  <1> QED BY <1>1, WaveInvariant, ConditionInvariant, PTL

\* The records in memory against the time the signal was started.
LEMMA SignalTime ==
    ASSUME NEW k \in Nat \ {0}, NEW now \in Nat, NEW e \in Nat, NEW start \in Int, start <= e,
           NEW n \in Int, n = now \div k - e \div k
    PROVE  /\ n * k + (now % k) < (now - start) + k
           /\ \A c \in Nat : e <= start + c => now - start <= n * k + (now % k) + c
  <1> DEFINE p == now \div k
             q == e \div k
             rest == now % k
             signal == n * k + rest
  <1>1. q \in Nat /\ k * q \in Nat /\ k * q <= e /\ e < k * q + k
    BY Division
  <1>2. p \in Nat /\ k * p \in Nat
    BY Division
  <1>3. rest \in Nat /\ now = k * p + rest
    BY SMT
  <1>4. n = p - q
    OBVIOUS
  <1> HIDE DEF p, q, rest
  <1>5. n * k = k * p - k * q
    BY <1>1, <1>2, <1>4
  <1>6. signal = now - k * q
    BY <1>1, <1>2, <1>3, <1>5
  <1> HIDE DEF signal
  <1> DEFINE floor == k * q
  <1>7. floor \in Nat /\ floor <= e /\ e < floor + k /\ signal = now - floor
    BY <1>1, <1>6
  <1> HIDE DEF floor
  <1>8. signal < (now - start) + k /\ \A c \in Nat : e <= start + c => now - start <= signal + c
    BY <1>7
  <1> QED BY <1>8 DEF signal, rest

\* For every input, time between two records and choice of steps the signal
\* runs ahead of its condition by less than a record and lags by a step at most.
THEOREM SignalFollows == WaveSpec => []SignalOnClock
  <1>1. IInv /\ WaveTypes /\ ConditionInv => SignalOnClock
    <2> SUFFICES ASSUME IInv, WaveTypes, ConditionInv, InForce, Surfbeat, t < bc.end, SameDurations,
                        OneByOne => Outlast, ~Behind
                 PROVE  /\ (sig.recpos - 1) * wave.dtbc + (t % wave.dtbc)
                              < (t - StartOf(bc)) + wave.dtbc
                        /\ \E c \in CflSteps : t - StartOf(bc)
                              <= (sig.recpos - 1) * wave.dtbc + (t % wave.dtbc) + c
      BY Zenon DEF SignalOnClock
    <2>1. Going /\ bc.created
      BY DEF InForce, Going
    <2>2. PICK e \in 0..t : Entered(bc, sig, t, e)
      BY <2>1, Zenon DEF ConditionInv
    <2>3. wave \in Waves /\ t \in Nat /\ BcSound(bc) /\ bc.end \in Int /\ e \in Nat
          /\ wave.dtbc \in Nat \ {0} /\ Listed(bc) /\ StartOf(bc) \in Int
      <3>1. wave \in Waves /\ t \in Nat /\ BcSound(bc)
        BY ClockTypes DEF WaveTypes
      <3>2. Listed(bc)
        BY <2>1, Zenon DEF ConditionInv, Started
      <3>3. bc.end \in Int
        BY <3>1 DEF BcSound, BcStates
      <3> QED BY <2>2, <3>1, <3>2, <3>3, ListedLine, WaveSound
    <2>4. ~Delayed(bc) /\ ~(bc.end <= t)
      <3>1. ~Delayed(bc)
        BY Zenon DEF Behind, Delayed, Late
      <3> QED BY <2>3, <3>1
    <2>5. StartOf(bc) <= e /\ sig.recpos = Slot(t) - Slot(e) + 1
          /\ \E c \in CflSteps : e <= StartOf(bc) + c
      BY <2>2, <2>4, Zenon DEF Entered
    <2> DEFINE n == sig.recpos - 1
               k == wave.dtbc
    <2>6. n \in Int /\ n = t \div k - e \div k
      <3>1. e <= t
        BY <2>2, <2>3
      <3>2. Slot(t) - Slot(e) = t \div k - e \div k /\ Slot(t) \in Nat /\ Slot(e) \in Nat
        BY <2>3, <3>1, SlotsGrow
      <3> QED BY <2>5, <3>2
    <2> HIDE DEF n, k
    <2>7. k \in Nat \ {0}
      BY <2>3 DEF k
    <2>8. /\ n * k + (t % k) < (t - StartOf(bc)) + k
          /\ \A c \in Nat : e <= StartOf(bc) + c => t - StartOf(bc) <= n * k + (t % k) + c
      BY <2>3, <2>5, <2>6, <2>7, SignalTime
    <2>9. \E c \in CflSteps : t - StartOf(bc) <= n * k + (t % k) + c
      <3>1. PICK c \in CflSteps : e <= StartOf(bc) + c
        BY <2>5
      <3>2. c \in Nat
        BY StepsAssumption
      <3> QED BY <2>8, <3>1, <3>2, Zenon
    <2> QED BY <2>8, <2>9, Zenon DEF n, k
  <1> QED BY <1>1, WaveInvariant, WaveIsClock, ConditionInvariant, PTL

\* No step asks for a record past the end of the signal of its condition,
\* wherever between two records the condition starts.
THEOREM SignalLasts == WaveSpec => []SignalLongEnough
  <1>1. LengthInv => SignalLongEnough
    BY Zenon DEF LengthInv, SignalLongEnough
  <1> QED BY <1>1, ConditionInvariant, PTL
=============================================================================
