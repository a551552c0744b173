--------------------------- MODULE OutputProtocol ---------------------------
(***************************************************************************)
(* The parallel program between two outputs: the computing processes 1 ..  *)
(* Size agree on a time step and compute on; process 0, xomaster, sleeps   *)
(* in output until process 1, xmpi_imaster, wakes it, collects what is due *)
(* from all of them and writes (output.F90, ncoutput.F90, libxbeach.F90).  *)
(*                                                                         *)
(* All communication of a round of output is a fixed sequence of           *)
(* operations that every process derives for itself from its own copy of   *)
(* the output flags and goes along, past those it has no part in.  An      *)
(* operation has senders and receivers; a message carries the round and    *)
(* the operation it is part of.  A field is represented by the time it was *)
(* computed for.                                                           *)
(***************************************************************************)
EXTENDS Integers, Sequences, FiniteSetsExt, Functions

CONSTANTS Size,        \* the number of computing processes
          TStop, Steps,   \* par%tstop; what a process may find as its own dt
          Bad,         \* the dt that timestep takes for an implosion
          Times,       \* the output times of each stream
          GlobalVars,  \* the fields of global output, sister fields included
          HasMean, HasPoint, HasDrifter,
          Owner        \* the process that has the output point

Stream == {"g", "p", "m", "w"}

ASSUME ProtocolAssumption ==
    /\ Size \in Nat \ {0} /\ TStop \in Nat /\ Owner \in 1..Size
    /\ Steps \subseteq Nat \ {0} /\ Bad \subseteq Steps
    /\ Times \in [Stream -> SUBSET Nat]
    /\ GlobalVars \in Seq(STRING)
    /\ Range(GlobalVars) \cap {"mean", "drift", "run", "point", "none"} = {}
    /\ {HasMean, HasPoint, HasDrifter} \subseteq BOOLEAN

VARIABLES
    eager,      \* the MPI library buffers: a send returns before it is received
    clk,        \* of each computing process: t, the streams due, itm, error
    offers,     \* what it brought into the reductions of dt so far
    pc,         \* of each process: where it is
    round, at,  \* the round of output it is in and the operation it is at; the
                \* round ahead of it and 0 when it is at none
    chan,       \* chan[p][q]: messages from p to q under way
    told,       \* the t, flags and itm that xomaster has
    collected,  \* sglobal%collected
    have,       \* what xomaster holds of each field from each process
    file,       \* the records written
    ages,       \* of each record: the times its data were computed for
    aborted     \* MPI_Abort

vars == <<eager, clk, offers, pc, round, at, chan, told, collected, have, file, ages, aborted>>

omaster == 0
imaster == 1
Compute == 1..Size
Proc    == 0..Size
Field   == Range(GlobalVars) \cup {"mean", "drift", "run", "point"}
-----------------------------------------------------------------------------
(* The operations, with their senders and receivers *)

Op(name)      == [op |-> name, of |-> "none"]
OpOf(name, v) == [op |-> name, of |-> v]

Senders(o) ==
    CASE o.op \in {"wake", "end", "tell", "drift", "relay"} -> {imaster}
      [] o.op \in {"flag", "place"} -> {omaster}
      [] o.op = "gather" -> Compute
      [] o.op = "reduce" -> Compute \ {imaster}
      [] o.op = "value"  -> {Owner}

Receivers(o) ==
    CASE o.op = "end" -> Proc \ {imaster}
      [] o.op \in {"wake", "tell", "gather", "drift", "relay", "value"} -> {omaster}
      [] o.op \in {"flag", "place"} -> Compute
      [] o.op = "reduce" -> {imaster}

Announce == <<Op("wake"), Op("end")>>       \* end: the broadcast of end_program

\* What ncoutput collects for the streams due; the first mean time has no record.
Collects == [due \in SUBSET Stream |-> [first \in BOOLEAN |->
    (IF "g" \in due
     THEN [i \in 1..(2 * Len(GlobalVars)) |->
             OpOf(IF i % 2 = 1 THEN "flag" ELSE "gather", GlobalVars[(i + 1) \div 2])]
     ELSE <<>>)
    \o (IF "m" \in due /\ ~first /\ HasMean THEN <<OpOf("gather", "mean")>> ELSE <<>>)
    \o (IF HasDrifter THEN <<OpOf("drift", "drift")>> ELSE <<>>)
    \o (IF "p" \in due /\ HasPoint
        THEN <<Op("reduce"), OpOf("relay", "run"), Op("place"), OpOf("value", "point")>>
        ELSE <<>>)]]

Rounds == [due \in SUBSET Stream |-> [first \in BOOLEAN |->
    Announce \o <<Op("tell")>> \o Collects[due][first]]]

\* A round of output, by a copy of the clock.
Plan(c) == Rounds[c.due][c.itm <= 1]

TakesPart(p, o) == p \in Senders(o) \cup Receivers(o)

\* The next operation after number i that p has a part in, 0 if there is none.
After(p, ops, i) ==
    IF \E k \in (i + 1)..Len(ops) : TakesPart(p, ops[k])
    THEN CHOOSE k \in (i + 1)..Len(ops) :
            TakesPart(p, ops[k]) /\ \A h \in (i + 1)..(k - 1) : ~TakesPart(p, ops[h])
    ELSE 0

\* A computing process has something to do in output only when it is due.
Entry(p, c) == IF c.due = {} THEN 0 ELSE After(p, Plan(c), 0)
-----------------------------------------------------------------------------
(* The clock of a computing process: timestep.F90 *)

DueAt(t) == {s \in Stream : t \in Times[s]}

\* Forced output: the streams that have an output time left.
ForcedAt(t) == {s \in Stream : IF s = "w" THEN t \in Times[s] ELSE \E u \in Times[s] : u >= t}

\* Mutant of NextTime: the clock does not stop for the point output.
NextTimeNoPoints(t) == Min({u \in Times["g"] \cup Times["m"] : u > t} \cup {TStop})

NextTime(t) == Min({u \in UNION {Times[s] : s \in Stream} : u > t} \cup {TStop})

Later(c, dt) ==
    LET t   == IF c.t + dt >= NextTime(c.t) THEN NextTime(c.t) ELSE c.t + dt
        err == dt \in Bad
        due == IF err THEN ForcedAt(t) ELSE DueAt(t)
    IN  [t |-> t, due |-> due, err |-> err,
         itm |-> IF "m" \in due THEN c.itm + 1 ELSE c.itm]

Start == [t |-> 0, due |-> DueAt(0), err |-> FALSE, itm |-> IF 0 \in Times["m"] THEN 1 ELSE 0]
-----------------------------------------------------------------------------
\* init has called output for the first time; xomaster hangs in it.
Init ==
    /\ eager \in BOOLEAN
    /\ clk = [p \in Compute |-> Start]
    /\ offers = [p \in Compute |-> <<>>]
    /\ pc = [p \in Proc |-> IF p = omaster THEN "asleep" ELSE "output"]
    /\ round = [p \in Proc |-> 1]
    /\ at = [p \in Proc |-> IF p = omaster THEN 1 ELSE Entry(p, Start)]
    /\ chan = [p \in Proc |-> [q \in Proc |-> <<>>]]
    /\ told = Start /\ collected = {}
    /\ have = [v \in Field |-> [p \in Compute |-> -1]]
    /\ file = <<>> /\ ages = <<>> /\ aborted = FALSE

\* The last send of p has returned.
Returned(p) == eager \/ \A q \in Proc : chan[p][q] = <<>>

\* The operations p goes along: the wake-up and the word that the run ends are
\* the same in every round.
Ops(p) ==
    IF p = omaster THEN Plan(told)
    ELSE IF pc[p] = "final" THEN Announce ELSE Plan(clk[p])

Here(p) == Ops(p)[at[p]]
Part(p) == [round |-> round[p], at |-> at[p], op |-> Here(p)]

\* The value an operation carries; xomaster knows what it has already.
Payload(p, o) ==
    CASE o.op = "end"  -> pc[p] = "final"
      [] o.op = "tell" -> clk[p]
      [] o.op = "flag" -> o.of \in collected
      [] o.op \in {"wake", "place"} -> 0
      [] OTHER -> clk[p].t

\* A field that was collected before is not gathered again.
Past(i, o, known) == IF o.op = "flag" /\ known THEN i + 1 ELSE i

\* From operation i of ops to the next one; after the last one p leaves the round.
Proceed(p, ops, i) ==
    /\ at' = [at EXCEPT ![p] = After(p, ops, i)]
    /\ round' = [round EXCEPT ![p] = IF at'[p] = 0 THEN @ + 1 ELSE @]

Send(p) ==
    /\ at[p] # 0 /\ Returned(p)
    /\ LET o == Here(p) IN
       /\ p \in Senders(o)
       /\ chan' = [chan EXCEPT ![p] = [q \in Proc |->
                     IF q \in Receivers(o)
                     THEN Append(chan[p][q], [part |-> Part(p), val |-> Payload(p, o)])
                     ELSE chan[p][q]]]
       /\ Proceed(p, Ops(p), Past(at[p], o, Payload(p, o)))
    /\ UNCHANGED <<eager, clk, offers, pc, told, collected, have, file, ages, aborted>>

\* Mutant of Absorb: itm is not among what xomaster is told.
AbsorbWithoutItm(o, from) ==
    /\ told' = IF o.op = "tell" THEN [from[imaster] EXCEPT !.itm = told.itm] ELSE told
    /\ collected' = CASE o.op = "tell"   -> {}
                      [] o.op = "gather" -> collected \cup {o.of}
                      [] OTHER           -> collected
    /\ have' = IF o.of \in Field /\ o.op # "place"
               THEN [have EXCEPT ![o.of] = [p \in Compute |->
                        IF p \in Senders(o) THEN from[p] ELSE @[p]]]
               ELSE have

\* Mutant of Absorb: what was collected once is taken to be collected for good.
AbsorbOnce(o, from) ==
    /\ told' = IF o.op = "tell" THEN from[imaster] ELSE told
    /\ collected' = IF o.op = "gather" THEN collected \cup {o.of} ELSE collected
    /\ have' = IF o.of \in Field /\ o.op # "place"
               THEN [have EXCEPT ![o.of] = [p \in Compute |->
                        IF p \in Senders(o) THEN from[p] ELSE @[p]]]
               ELSE have

\* xomaster takes in what it receives.  Having been told the time, it starts
\* collecting from what never changes (s%collected = s%precollected).
Absorb(o, from) ==
    /\ told' = IF o.op = "tell" THEN from[imaster] ELSE told
    /\ collected' = CASE o.op = "tell"   -> {}
                      [] o.op = "gather" -> collected \cup {o.of}
                      [] OTHER           -> collected
    /\ have' = IF o.of \in Field /\ o.op # "place"
               THEN [have EXCEPT ![o.of] = [p \in Compute |->
                        IF p \in Senders(o) THEN from[p] ELSE @[p]]]
               ELSE have

\* What xomaster goes along once it knows whether the program ends, and when
\* it has been told the time.
Following == IF pc'[omaster] = "barrier" THEN Announce ELSE Plan(told')

Receive(p) ==
    /\ at[p] # 0 /\ Returned(p)
    /\ LET o == Here(p) IN
       /\ p \in Receivers(o)
       /\ \A q \in Senders(o) : chan[q][p] # <<>>
       /\ chan' = [q \in Proc |-> IF q \in Senders(o)
                                  THEN [chan[q] EXCEPT ![p] = Tail(@)] ELSE chan[q]]
       /\ LET from == [q \in Senders(o) |-> Head(chan[q][p]).val]
              val  == from[CHOOSE q \in Senders(o) : TRUE]
          IN  IF p = omaster
              THEN /\ pc' = [pc EXCEPT ![p] =
                               IF o.op # "end" THEN @ ELSE IF val THEN "barrier" ELSE "output"]
                   /\ Absorb(o, from)
                   /\ Proceed(p, Following, at[p])
              ELSE /\ Proceed(p, Ops(p), Past(at[p], o, val))
                   /\ UNCHANGED <<pc, told, collected, have>>
    /\ UNCHANGED <<eager, clk, offers, file, ages, aborted>>
-----------------------------------------------------------------------------
(* The computing processes *)

\* compute_dt: every process has a dt of its own, the smallest is taken.
Offer(p) ==
    /\ pc[p] = "step"
    /\ \E dt \in Steps : offers' = [offers EXCEPT ![p] = Append(@, dt)]
    /\ pc' = [pc EXCEPT ![p] = "reduce"]
    /\ UNCHANGED <<eager, clk, round, at, chan, told, collected, have, file, ages, aborted>>

\* Mutant of Timestep: every process takes the dt it found itself.
TimestepOwn(p) ==
    /\ pc[p] = "reduce"
    /\ LET k == Len(offers[p]) IN
       /\ \A q \in Compute : Len(offers[q]) >= k
       /\ clk' = [clk EXCEPT ![p] = Later(@, offers[p][k])]
    /\ at' = [at EXCEPT ![p] = Entry(p, clk'[p])]
    /\ pc' = [pc EXCEPT ![p] = "output"]
    /\ UNCHANGED <<eager, offers, round, chan, told, collected, have, file, ages, aborted>>

Timestep(p) ==
    /\ pc[p] = "reduce"
    /\ LET k == Len(offers[p]) IN
       /\ \A q \in Compute : Len(offers[q]) >= k
       /\ clk' = [clk EXCEPT ![p] = Later(@, Min({offers[q][k] : q \in Compute}))]
    /\ at' = [at EXCEPT ![p] = Entry(p, clk'[p])]
    /\ pc' = [pc EXCEPT ![p] = "output"]
    /\ UNCHANGED <<eager, offers, round, chan, told, collected, have, file, ages, aborted>>

\* Mutant of Return: final does not wake xomaster.
ReturnSilent(p) ==
    /\ pc[p] = "output" /\ at[p] = 0 /\ Returned(p)
    /\ IF clk[p].err
       THEN aborted' = TRUE /\ UNCHANGED pc
       ELSE pc' = [pc EXCEPT ![p] = IF clk[p].t < TStop THEN "step" ELSE "final"]
            /\ UNCHANGED aborted
    /\ UNCHANGED <<eager, clk, offers, round, at, chan, told, collected, have, file, ages>>

\* After output: halt_program, another step, or final.
Return(p) ==
    /\ pc[p] = "output" /\ at[p] = 0 /\ Returned(p)
    /\ IF clk[p].err
       THEN aborted' = TRUE /\ UNCHANGED <<pc, at>>
       ELSE /\ pc' = [pc EXCEPT ![p] = IF clk[p].t < TStop THEN "step" ELSE "final"]
            /\ at' = [at EXCEPT ![p] = IF clk[p].t < TStop THEN 0 ELSE After(p, Announce, 0)]
            /\ UNCHANGED aborted
    /\ UNCHANGED <<eager, clk, offers, round, chan, told, collected, have, file, ages>>

EnterBarrier(p) ==
    /\ pc[p] = "final" /\ at[p] = 0 /\ Returned(p)
    /\ pc' = [pc EXCEPT ![p] = "barrier"]
    /\ UNCHANGED <<eager, clk, offers, round, at, chan, told, collected, have, file, ages, aborted>>

LeaveBarrier(p) ==
    /\ pc[p] = "barrier" /\ \A q \in Proc : pc[q] \in {"barrier", "done"}
    /\ pc' = [pc EXCEPT ![p] = "done"]
    /\ UNCHANGED <<eager, clk, offers, round, at, chan, told, collected, have, file, ages, aborted>>
-----------------------------------------------------------------------------
(* xomaster *)

Fields(s) ==
    CASE s = "g" -> Range(GlobalVars)
      [] s = "m" -> IF HasMean THEN {"mean"} ELSE {}
      [] s = "p" -> (IF HasPoint THEN {"run", "point"} ELSE {})
                    \cup (IF HasDrifter THEN {"drift"} ELSE {})

\* The streams a record is written for, and the processes a field comes from.
Written(c) == {s \in {"g", "p", "m"} : s \in c.due /\ (s = "m" => c.itm > 1)}

Sources(v) ==
    CASE v \in {"drift", "run"} -> {imaster}
      [] v = "point" -> {Owner}
      [] OTHER -> Compute

\* The write, and back to the top of the loop.
Write ==
    /\ pc[omaster] = "output" /\ at[omaster] = 0 /\ Returned(omaster)
    /\ IF Written(told) = {} THEN UNCHANGED <<file, ages>>
       ELSE /\ file' = Append(file, [at |-> told.t, what |-> Written(told)])
            /\ ages' = Append(ages, UNION {{have[v][p] : p \in Sources(v)} :
                           v \in UNION {Fields(s) : s \in Written(told)}})
    /\ pc' = [pc EXCEPT ![omaster] = "asleep"]
    /\ at' = [at EXCEPT ![omaster] = 1]
    /\ UNCHANGED <<eager, clk, offers, round, chan, told, collected, have, aborted>>

Compute_(p) == Offer(p) \/ Timestep(p) \/ Return(p) \/ EnterBarrier(p)

Process(p) ==
    /\ ~aborted
    /\ \/ Send(p) \/ Receive(p) \/ LeaveBarrier(p)
       \/ p \in Compute /\ Compute_(p)
       \/ p = omaster /\ Write

Next == \E p \in Proc : Process(p)

Spec == Init /\ [][Next]_vars

\* Every process runs on its own processor.
FairSpec == Spec /\ \A p \in Proc : WF_vars(Process(p))
-----------------------------------------------------------------------------
(* Properties *)

TypeOK ==
    /\ \A p \in Compute : clk[p].t \in 0..TStop /\ clk[p].due \subseteq Stream
    /\ pc \in [Proc -> {"asleep", "step", "reduce", "output", "final", "barrier", "done"}]
    /\ round \in [Proc -> Nat] /\ \A p \in Proc : at[p] \in 0..Len(Ops(p))
    /\ \A p \in Proc : at[p] # 0 => TakesPart(p, Here(p))
    /\ eager \in BOOLEAN /\ told.t \in 0..TStop /\ collected \subseteq Field
    /\ have \in [Field -> [Compute -> {-1} \cup (0..TStop)]]
    /\ Len(ages) = Len(file) /\ aborted \in BOOLEAN

\* "matching the call a few lines above": what a process is about to receive
\* is a message of the very operation it is in, of this round and no other,
\* whoever is ahead and by how much, and although each process goes by its own
\* flags.
InStep ==
    \A p \in Proc : (at[p] # 0 /\ p \in Receivers(Here(p))) =>
        \A q \in Senders(Here(p)) :
            chan[q][p] # <<>> => Head(chan[q][p]).part = Part(p)

\* Processes that made the same number of steps have the same clock, flags
\* and error: the reductions of dt leave nothing to differ.
SameClock ==
    \A p, q \in Compute :
        (Len(offers[p]) = Len(offers[q]) /\ (pc[p] = "reduce" <=> pc[q] = "reduce"))
            => clk[p] = clk[q]

\* A record is a snapshot: all its data, from all processes, are of its own
\* time, nothing is left over from an earlier collection.
Snapshot == \A i \in 1..Len(file) : ages[i] \subseteq {file[i].at}

\* The run comes to an end on all processes.
Terminates == <>(aborted \/ \A p \in Proc : pc[p] = "done")

\* Between them the processes do what OutputFile promises.
Promise == INSTANCE OutputFile WITH
    state <- IF aborted THEN "failed"
             ELSE IF \E p \in Compute : clk[p].err THEN "failing"
             ELSE IF \E p \in Proc : pc[p] = "done" THEN "closed" ELSE "open"

KeepsPromise == Promise!Spec

\* "An extra output timestep is created to inquire the last timestep before an
\* error occured": a run that breaks off has a record of its last moment.
ExtraOutputMade ==
    aborted => \E p \in Compute :
        clk[p].err /\ (Written(clk[p]) # {} => \E i \in 1..Len(file) : file[i].at = clk[p].t)
=============================================================================
