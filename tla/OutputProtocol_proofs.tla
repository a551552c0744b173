------------------------ MODULE OutputProtocol_proofs ------------------------
(***************************************************************************)
(* Proofs about OutputProtocol, for any number of processes, any output    *)
(* times and variables: the clocks of the computing processes agree, all   *)
(* processes keep in step, every record is a snapshot, and the file is     *)
(* what OutputFile promises.                                               *)
(*                                                                         *)
(* The computing processes go through one and the same sequence R of       *)
(* rounds of output, given by their clocks at the start of each; each      *)
(* process is somewhere on it, and a channel holds exactly what its sender *)
(* has passed and its receiver has not.                                    *)
(***************************************************************************)
EXTENDS OutputProtocol, FoldLemmas, SequenceTheorems, TLAPS

Clock == [t : 0..TStop, due : SUBSET Stream, err : BOOLEAN, itm : Nat]

\* The steps p has completed; the dt of step k.
Taken(p)  == IF pc[p] = "reduce" THEN Len(offers[p]) - 1 ELSE Len(offers[p])
Agreed(k) == Min({offers[q][k] : q \in Compute})

ClockTypes ==
    /\ clk \in [Compute -> Clock]
    /\ offers \in [Compute -> Seq(Steps)]
    /\ DOMAIN pc = Proc
    /\ \A p \in Compute :
         /\ pc[p] \in {"step", "reduce", "output", "final", "barrier", "done"}
         /\ pc[p] = "reduce" => offers[p] # <<>>
         /\ pc[p] \in {"step", "reduce"} => clk[p].t < TStop /\ ~clk[p].err
         /\ pc[p] \in {"final", "barrier", "done"} => clk[p].t = TStop /\ ~clk[p].err
         /\ ~clk[p].err => (clk[p].itm >= 1 <=> \E u \in Times["m"] : u <= clk[p].t)

ClockSame ==
    \A p, q \in Compute :
        /\ Taken(p) <= Len(offers[q])
        /\ Taken(p) = Taken(q) => clk[p] = clk[q]
        /\ Taken(p) = Taken(q) + 1 => clk[p] = Later(clk[q], Agreed(Taken(p)))

ClockInv == ClockTypes /\ ClockSame
-----------------------------------------------------------------------------
(* The clocks *)

LEMMA NextTimeFollows ==
    ASSUME NEW t \in 0..TStop
    PROVE  /\ NextTime(t) \in 0..TStop /\ t <= NextTime(t)
           /\ t < TStop => t < NextTime(t)
           /\ \A s \in Stream : \A u \in Times[s] : t < u => NextTime(t) <= u
  <1> DEFINE T == {u \in UNION {Times[s] : s \in Stream} : u > t} \cup {TStop}
  <1>1. \A s \in Stream : Times[s] \subseteq Nat
    BY ProtocolAssumption
  <1>2. T \subseteq Nat /\ T # {} /\ TStop \in T /\ \A u \in T : u > t \/ u = TStop
    BY <1>1, ProtocolAssumption
  <1>3. \A s \in Stream : \A u \in Times[s] : t < u => u \in T
    OBVIOUS
  <1> HIDE DEF T
  <1>4. Min(T) \in T /\ \A y \in T : Min(T) <= y
    BY <1>2, MinIsLeast, Zenon
  <1>5. NextTime(t) = Min(T)
    BY DEF NextTime, T
  <1>6. Min(T) \in 0..TStop /\ t <= Min(T) /\ (t < TStop => t < Min(T))
    <2>1. Min(T) \in Nat /\ Min(T) <= TStop /\ (Min(T) > t \/ Min(T) = TStop)
      BY <1>2, <1>4, Zenon
    <2>2. TStop \in Nat
      BY ProtocolAssumption
    <2> HIDE <1>2, <1>4
    <2> QED BY <2>1, <2>2
  <1>7. ASSUME NEW s \in Stream, NEW u \in Times[s], t < u
        PROVE  Min(T) <= u
    BY <1>3, <1>4, <1>7, Zenon
  <1> QED BY <1>5, <1>6, <1>7

\* The clock after a step: later, and past no output time.
LEMMA LaterClock ==
    ASSUME NEW c \in Clock, NEW d \in Steps
    PROVE  /\ Later(c, d) \in Clock
           /\ c.t <= Later(c, d).t /\ (c.t < TStop => c.t < Later(c, d).t)
           /\ \A s \in Stream : \A u \in Times[s] : c.t < u => Later(c, d).t <= u
           /\ Later(c, d).due = IF d \in Bad THEN ForcedAt(Later(c, d).t) ELSE DueAt(Later(c, d).t)
           /\ Later(c, d).err = (d \in Bad)
           /\ Later(c, d).itm = IF "m" \in Later(c, d).due THEN c.itm + 1 ELSE c.itm
  <1> DEFINE n == NextTime(c.t)
             t == IF c.t + d >= n THEN n ELSE c.t + d
             due == IF d \in Bad THEN ForcedAt(t) ELSE DueAt(t)
             itm == IF "m" \in due THEN c.itm + 1 ELSE c.itm
  <1>1. c.t \in 0..TStop /\ c.itm \in Nat
    BY DEF Clock
  <1>2. /\ n \in 0..TStop /\ c.t <= n /\ (c.t < TStop => c.t < n)
        /\ \A s \in Stream : \A u \in Times[s] : c.t < u => n <= u
    BY <1>1, NextTimeFollows
  <1>3. d \in Nat \ {0} /\ TStop \in Nat
    BY ProtocolAssumption
  <1>4. \A s \in Stream : Times[s] \subseteq Nat
    BY ProtocolAssumption
  <1>5. Later(c, d) = [t |-> t, due |-> due, err |-> d \in Bad, itm |-> itm]
    BY Zenon DEF Later
  <1> HIDE DEF n
  <1>6. t \in 0..TStop /\ t <= n /\ c.t <= t /\ (c.t < TStop => c.t < t)
    BY <1>1, <1>2, <1>3
  <1>7. \A s \in Stream : \A u \in Times[s] : c.t < u => t <= u
    <2> SUFFICES ASSUME NEW s \in Stream, NEW u \in Times[s], c.t < u PROVE t <= u
      OBVIOUS
    <2>1. u \in Nat /\ n <= u
      BY <1>2, <1>4
    <2> QED BY <2>1, <1>6, <1>2
  <1> HIDE DEF t
  <1>8. due \in SUBSET Stream
    BY DEF ForcedAt, DueAt
  <1> HIDE DEF due
  <1>9. itm \in Nat
    BY <1>1
  <1> HIDE DEF itm
  <1>10. Later(c, d) \in Clock
    BY <1>5, <1>6, <1>8, <1>9 DEF Clock
  <1>11. /\ Later(c, d).t = t /\ Later(c, d).due = due /\ Later(c, d).err = (d \in Bad)
         /\ Later(c, d).itm = itm
    BY <1>5
  <1>12. due = (IF d \in Bad THEN ForcedAt(t) ELSE DueAt(t))
         /\ itm = (IF "m" \in due THEN c.itm + 1 ELSE c.itm)
    BY Zenon DEF due, itm
  <1> QED BY <1>6, <1>7, <1>10, <1>11, <1>12, Zenon

LEMMA StartClock == Start \in Clock
  <1>1. 0 \in 0..TStop
    BY ProtocolAssumption
  <1>2. DueAt(0) \in SUBSET Stream
    BY DEF DueAt
  <1>3. (IF 0 \in Times["m"] THEN 1 ELSE 0) \in Nat
    OBVIOUS
  <1> HIDE DEF Stream
  <1> QED BY <1>1, <1>2, <1>3 DEF Start, Clock

LEMMA Processes ==
    /\ omaster \in Proc /\ omaster \notin Compute
    /\ imaster \in Compute /\ imaster \in Proc /\ Owner \in Compute
    /\ Compute \subseteq Proc /\ Compute # {}
    /\ \A p \in Proc : p = omaster \/ p \in Compute
  <1>1. Size \in Nat \ {0} /\ Owner \in 1..Size
    BY ProtocolAssumption
  <1>2. 1 \in 1..Size /\ 1 \in 0..Size /\ 0 \in 0..Size /\ 0 \notin 1..Size
    BY <1>1
  <1>3. 1..Size \subseteq 0..Size /\ \A p \in 0..Size : p = 0 \/ p \in 1..Size
    BY <1>1
  <1> QED BY <1>1, <1>2, <1>3, Zenon DEF Proc, Compute, omaster, imaster

LEMMA ClockInit == Init => ClockInv
  <1> SUFFICES ASSUME Init PROVE ClockInv
    OBVIOUS
  <1>1. /\ clk = [p \in Compute |-> Start] /\ offers = [p \in Compute |-> <<>>]
        /\ pc = [p \in Proc |-> IF p = omaster THEN "asleep" ELSE "output"]
    BY Zenon DEF Init
  <1>2. \A p \in Compute : pc[p] = "output" /\ clk[p] = Start /\ offers[p] = <<>>
    BY <1>1, Processes
  <1>3. \A p \in Compute : Taken(p) = 0 /\ Len(offers[p]) = 0
    BY <1>2 DEF Taken
  <1>4. Start.itm >= 1 <=> \E u \in Times["m"] : u <= Start.t
    <2>1. Start.t = 0 /\ Start.itm = IF 0 \in Times["m"] THEN 1 ELSE 0
      BY DEF Start
    <2>2. Times["m"] \subseteq Nat
      BY ProtocolAssumption DEF Stream
    <2> QED BY <2>1, <2>2
  <1>5. ClockTypes
    <2>1. clk \in [Compute -> Clock]
      BY <1>1, StartClock, Zenon
    <2>2. offers \in [Compute -> Seq(Steps)]
      BY <1>1, EmptySeq, Zenon
    <2>3. DOMAIN pc = Proc
      BY <1>1, Zenon
    <2> QED BY <2>1, <2>2, <2>3, <1>2, <1>4, Zenon DEF ClockTypes
  <1>6. ClockSame
    <2>1. \A p, q \in Compute : Taken(p) <= Len(offers[q]) /\ Taken(p) # Taken(q) + 1
      BY <1>3
    <2> QED BY <1>2, <2>1, Zenon DEF ClockSame
  <1> QED BY <1>5, <1>6 DEF ClockInv

LEMMA TakenNat ==
    ASSUME ClockTypes
    PROVE  \A p \in Compute : Taken(p) \in Nat /\ Len(offers[p]) \in Nat
  <1> SUFFICES ASSUME NEW p \in Compute PROVE Taken(p) \in Nat /\ Len(offers[p]) \in Nat
    OBVIOUS
  <1>1. offers[p] \in Seq(Steps) /\ (pc[p] = "reduce" => offers[p] # <<>>)
    BY DEF ClockTypes
  <1>2. Len(offers[p]) \in Nat /\ (pc[p] = "reduce" => Len(offers[p]) >= 1)
    BY <1>1
  <1> QED BY <1>2 DEF Taken

\* Processes are at most one step apart.
LEMMA OneStepApart ==
    ASSUME ClockInv, NEW p \in Compute, NEW q \in Compute
    PROVE  Taken(p) <= Taken(q) + 1
  <1>1. Taken(p) <= Len(offers[q])
    BY DEF ClockInv, ClockSame
  <1>2. Len(offers[q]) <= Taken(q) + 1
    BY TakenNat DEF ClockInv, Taken
  <1> QED BY <1>1, <1>2, TakenNat DEF ClockInv

\* What the computing processes do outside time steps.
LEMMA ClockKept ==
    ASSUME ClockInv, clk' = clk, offers' = offers, DOMAIN pc' = Proc,
           \A p \in Compute :
             /\ pc'[p] \in {"step", "reduce", "output", "final", "barrier", "done"}
             /\ pc'[p] = "reduce" <=> pc[p] = "reduce"
             /\ pc'[p] \in {"step", "reduce"} => clk[p].t < TStop /\ ~clk[p].err
             /\ pc'[p] \in {"final", "barrier", "done"} => clk[p].t = TStop /\ ~clk[p].err
    PROVE  ClockInv'
  <1>1. ClockTypes'
    BY Zenon DEF ClockInv, ClockTypes
  <1>2. \A p \in Compute : Taken(p)' = Taken(p)
    BY Zenon DEF Taken
  <1>4. ClockSame'
    <2> SUFFICES ASSUME NEW p \in Compute, NEW q \in Compute
                 PROVE  /\ Taken(p)' <= Len(offers'[q])
                        /\ Taken(p)' = Taken(q)' => clk'[p] = clk'[q]
                        /\ Taken(p)' = Taken(q)' + 1 => clk'[p] = Later(clk'[q], Agreed(Taken(p))')
      BY Zenon DEF ClockSame
    <2>1. /\ Taken(p) <= Len(offers[q])
          /\ Taken(p) = Taken(q) => clk[p] = clk[q]
          /\ Taken(p) = Taken(q) + 1 => clk[p] = Later(clk[q], Agreed(Taken(p)))
      BY Zenon DEF ClockInv, ClockSame
    <2>2. Taken(p)' = Taken(p) /\ Taken(q)' = Taken(q)
      BY <1>2
    <2>3. Agreed(Taken(p))' = Agreed(Taken(p))
      BY <2>2, Zenon DEF Agreed
    <2> QED BY <2>1, <2>2, <2>3, Zenon
  <1> QED BY <1>1, <1>4 DEF ClockInv

LEMMA ClockOffer ==
    ASSUME ClockInv, NEW p \in Compute, Offer(p)
    PROVE  ClockInv'
  <1>1. PICK dt \in Steps : offers' = [offers EXCEPT ![p] = Append(@, dt)]
    BY DEF Offer
  <1>2. pc[p] = "step" /\ pc' = [pc EXCEPT ![p] = "reduce"] /\ clk' = clk
    BY DEF Offer
  <1>3. offers \in [Compute -> Seq(Steps)] /\ DOMAIN pc = Proc /\ ClockTypes
    BY DEF ClockInv, ClockTypes
  <1>4. /\ offers' \in [Compute -> Seq(Steps)]
        /\ offers'[p] = Append(offers[p], dt)
        /\ \A q \in Compute : q # p => offers'[q] = offers[q]
    BY <1>1, <1>3
  <1>5. /\ Len(offers'[p]) = Len(offers[p]) + 1 /\ offers'[p] # <<>>
        /\ \A k \in 1..Len(offers[p]) : offers'[p][k] = offers[p][k]
    BY <1>3, <1>4
  <1>6. pc'[p] = "reduce" /\ \A q \in Proc : q # p => pc'[q] = pc[q]
    BY <1>2, <1>3, Processes, Zenon
  <1>7. ClockTypes'
    <2>1. \A q \in Compute :
         /\ pc'[q] \in {"step", "reduce", "output", "final", "barrier", "done"}
         /\ pc'[q] = "reduce" => offers'[q] # <<>>
         /\ pc'[q] \in {"step", "reduce"} => clk'[q].t < TStop /\ ~clk'[q].err
         /\ pc'[q] \in {"final", "barrier", "done"} => clk'[q].t = TStop /\ ~clk'[q].err
         /\ ~clk'[q].err => (clk'[q].itm >= 1 <=> \E u \in Times["m"] : u <= clk'[q].t)
      <3> SUFFICES ASSUME NEW q \in Compute
                   PROVE  /\ pc'[q] \in {"step", "reduce", "output", "final", "barrier", "done"}
                          /\ pc'[q] = "reduce" => offers'[q] # <<>>
                          /\ pc'[q] \in {"step", "reduce"} => clk'[q].t < TStop /\ ~clk'[q].err
                          /\ pc'[q] \in {"final", "barrier", "done"} => clk'[q].t = TStop /\ ~clk'[q].err
                          /\ ~clk'[q].err => (clk'[q].itm >= 1 <=> \E u \in Times["m"] : u <= clk'[q].t)
        OBVIOUS
      <3>1. CASE q = p
        BY <3>1, <1>2, <1>3, <1>5, <1>6, Zenon DEF ClockTypes
      <3>2. CASE q # p
        <4>1. pc'[q] = pc[q] /\ offers'[q] = offers[q]
          BY <3>2, <1>4, <1>6, Processes, Zenon
        <4> QED BY <4>1, <1>2, <1>3, Zenon DEF ClockTypes
      <3> QED BY <3>1, <3>2
    <2>2. clk' \in [Compute -> Clock] /\ DOMAIN pc' = Proc
      BY <1>2, <1>3, Zenon DEF ClockTypes
    <2> QED BY <2>1, <2>2, <1>4, Zenon DEF ClockTypes
  <1>8. \A q \in Compute : Taken(q)' = Taken(q) /\ Len(offers[q]) <= Len(offers'[q])
    <2> SUFFICES ASSUME NEW q \in Compute
                 PROVE  Taken(q)' = Taken(q) /\ Len(offers[q]) <= Len(offers'[q])
      OBVIOUS
    <2>0. Len(offers[q]) \in Nat
      BY <1>3, TakenNat
    <2>1. CASE q = p
      BY <2>0, <2>1, <1>2, <1>5, <1>6 DEF Taken
    <2>2. CASE q # p
      <3>1. pc'[q] = pc[q] /\ offers'[q] = offers[q]
        BY <2>2, <1>4, <1>6, Processes, Zenon
      <3> QED BY <2>0, <3>1 DEF Taken
    <2> QED BY <2>1, <2>2
  <1>9. ASSUME NEW q \in Compute, 1 <= Taken(q)
        PROVE  Agreed(Taken(q))' = Agreed(Taken(q))
    <2>1. ASSUME NEW r \in Compute PROVE offers'[r][Taken(q)] = offers[r][Taken(q)]
      <3>1. Taken(q) \in 1..Len(offers[r])
        <4>1. Taken(q) <= Len(offers[r])
          BY DEF ClockInv, ClockSame
        <4> QED BY <4>1, <1>3, <1>9, TakenNat
      <3> QED BY <3>1, <1>4, <1>5, Zenon
    <2>2. {offers'[r][Taken(q)] : r \in Compute} = {offers[r][Taken(q)] : r \in Compute}
      BY <2>1, Zenon
    <2>3. Taken(q)' = Taken(q)
      BY <1>8
    <2> QED BY <2>2, <2>3, Zenon DEF Agreed
  <1>10. ClockSame'
    <2> SUFFICES ASSUME NEW q \in Compute, NEW r \in Compute
                 PROVE  /\ Taken(q)' <= Len(offers'[r])
                        /\ Taken(q)' = Taken(r)' => clk'[q] = clk'[r]
                        /\ Taken(q)' = Taken(r)' + 1 => clk'[q] = Later(clk'[r], Agreed(Taken(q))')
      BY Zenon DEF ClockSame
    <2>1. /\ Taken(q) <= Len(offers[r])
          /\ Taken(q) = Taken(r) => clk[q] = clk[r]
          /\ Taken(q) = Taken(r) + 1 => clk[q] = Later(clk[r], Agreed(Taken(q)))
      BY DEF ClockInv, ClockSame
    <2>2. /\ Taken(q)' = Taken(q) /\ Taken(r)' = Taken(r) /\ Len(offers[r]) <= Len(offers'[r])
          /\ Taken(q) \in Nat /\ Taken(r) \in Nat /\ Len(offers[r]) \in Nat /\ Len(offers'[r]) \in Nat
      <3>1. Taken(q) \in Nat /\ Taken(r) \in Nat /\ Len(offers[r]) \in Nat
        BY <1>3, TakenNat
      <3>2. offers'[r] \in Seq(Steps)
        BY <1>4
      <3>3. Len(offers'[r]) \in Nat
        BY <3>2
      <3> QED BY <3>1, <3>3, <1>8
    <2>3. Taken(q)' <= Len(offers'[r])
      BY <2>1, <2>2
    <2>4. Taken(q) = Taken(r) + 1 => 1 <= Taken(q)
      BY <2>2
    <2> QED BY <2>1, <2>2, <2>3, <2>4, <1>2, <1>9, Zenon
  <1> QED BY <1>7, <1>10 DEF ClockInv

\* The dt all processes take for step k.
LEMMA AgreedStep ==
    ASSUME ClockTypes, NEW k \in Nat \ {0}, \A q \in Compute : Len(offers[q]) >= k
    PROVE  Agreed(k) \in Steps
  <1> DEFINE T == {offers[q][k] : q \in Compute}
  <1>1. \A q \in Compute : offers[q][k] \in Steps
    <2> SUFFICES ASSUME NEW q \in Compute PROVE offers[q][k] \in Steps
      OBVIOUS
    <2>1. offers[q] \in Seq(Steps) /\ Len(offers[q]) >= k
      BY DEF ClockTypes
    <2> QED BY <2>1
  <1>2. T \subseteq Steps /\ T # {}
    BY <1>1, Processes
  <1>3. Steps \subseteq Nat
    BY ProtocolAssumption
  <1> HIDE DEF T
  <1>4. Min(T) \in T
    BY <1>2, <1>3, MinIsLeast
  <1>5. Agreed(k) = Min(T)
    BY DEF Agreed, T
  <1> QED BY <1>2, <1>4, <1>5

\* A time step: the first process to take it sets the clock of all.
LEMMA TimestepTakes ==
    ASSUME ClockInv, NEW p \in Compute, Timestep(p)
    PROVE  /\ clk' = [clk EXCEPT ![p] = Later(clk[p], Agreed(Len(offers[p])))]
           /\ Agreed(Len(offers[p])) \in Steps
           /\ pc[p] = "reduce" /\ pc' = [pc EXCEPT ![p] = "output"] /\ offers' = offers
           /\ Taken(p)' = Taken(p) + 1 /\ Len(offers[p]) = Taken(p) + 1
           /\ \A q \in Compute : q # p => Taken(q)' = Taken(q) /\ clk'[q] = clk[q]
           /\ \A q \in Compute : Taken(q) = Taken(p) => clk[q] = clk[p] 
           /\ \A q \in Compute : q # p => Taken(q) = Taken(p) \/ Taken(q) = Taken(p) + 1
           /\ \A q \in Compute : q # p /\ Taken(q) = Taken(p) + 1 => clk[q] = clk'[p]
           /\ clk[p].t < TStop /\ ~clk[p].err
  <1> DEFINE k == Len(offers[p])
  <1>1. /\ pc[p] = "reduce" /\ pc' = [pc EXCEPT ![p] = "output"] /\ offers' = offers
        /\ \A q \in Compute : Len(offers[q]) >= k
        /\ clk' = [clk EXCEPT ![p] = Later(clk[p], Agreed(k))]
    BY Zenon DEF Timestep, Agreed
  <1>2. ClockTypes /\ ClockSame /\ DOMAIN pc = Proc /\ clk \in [Compute -> Clock]
    BY DEF ClockInv, ClockTypes
  <1>3. k \in Nat \ {0} /\ clk[p].t < TStop /\ ~clk[p].err
    <2>1. offers[p] # <<>> /\ offers[p] \in Seq(Steps)
      BY <1>1, <1>2 DEF ClockTypes
    <2>2. k \in Nat \ {0}
      BY <2>1
    <2> QED BY <2>2, <1>1, <1>2 DEF ClockTypes
  <1>4. Agreed(k) \in Steps
    BY <1>1, <1>2, <1>3, AgreedStep
  <1>5. Taken(p) = k - 1 /\ Taken(p)' = k
    <2>1. pc'[p] = "output"
      BY <1>1, <1>2, Processes
    <2> QED BY <1>1, <2>1 DEF Taken
  <1>6. ASSUME NEW q \in Compute, q # p
        PROVE  Taken(q)' = Taken(q) /\ clk'[q] = clk[q]
    <2>1. pc'[q] = pc[q] /\ clk'[q] = clk[q]
      BY <1>1, <1>2, <1>6, Processes, Zenon
    <2> QED BY <1>1, <2>1, Zenon DEF Taken
  <1>7. ASSUME NEW q \in Compute
        PROVE  /\ Taken(q) = k - 1 \/ Taken(q) = k
               /\ Taken(q) = k - 1 => clk[q] = clk[p]
               /\ Taken(q) = k => clk[q] = Later(clk[p], Agreed(k))
    <2>1. Taken(q) <= k /\ Len(offers[q]) >= k /\ Len(offers[q]) \in Nat
      BY <1>1, <1>2, TakenNat DEF ClockSame
    <2>2. Taken(q) = Len(offers[q]) - 1 \/ Taken(q) = Len(offers[q])
      BY DEF Taken
    <2>3. /\ Taken(q) = Taken(p) => clk[q] = clk[p]
          /\ Taken(q) = Taken(p) + 1 => clk[q] = Later(clk[p], Agreed(Taken(q)))
      BY <1>2 DEF ClockSame
    <2>4. Taken(q) = k - 1 \/ Taken(q) = k
      BY <2>1, <2>2, <1>3
    <2>5. Taken(q) = k => Taken(q) = Taken(p) + 1
      BY <1>3, <1>5
    <2> QED BY <2>3, <2>4, <2>5, <1>5, Zenon
  <1>8. clk'[p] = Later(clk[p], Agreed(k))
    BY <1>1, <1>2
  <1>9. k = Taken(p) + 1 /\ Taken(p)' = Taken(p) + 1
    BY <1>3, <1>5
  <1> HIDE DEF k
  <1> QED BY <1>1, <1>3, <1>4, <1>5, <1>6, <1>7, <1>8, <1>9, Zenon DEF k

LEMMA ClockTimestep ==
    ASSUME ClockInv, NEW p \in Compute, Timestep(p)
    PROVE  ClockInv'
  <1> DEFINE k == Len(offers[p])
             new == Later(clk[p], Agreed(k))
  <1>1. /\ clk' = [clk EXCEPT ![p] = new] /\ Agreed(k) \in Steps
        /\ pc[p] = "reduce" /\ pc' = [pc EXCEPT ![p] = "output"] /\ offers' = offers
        /\ Taken(p)' = Taken(p) + 1 /\ k = Taken(p) + 1
        /\ \A q \in Compute : q # p => Taken(q)' = Taken(q) /\ clk'[q] = clk[q]
        /\ \A q \in Compute : Taken(q) = Taken(p) => clk[q] = clk[p]
        /\ \A q \in Compute : q # p => Taken(q) = Taken(p) \/ Taken(q) = Taken(p) + 1
        /\ \A q \in Compute : q # p /\ Taken(q) = Taken(p) + 1 => clk[q] = clk'[p]
        /\ clk[p].t < TStop /\ ~clk[p].err
    BY TimestepTakes
  <1>2. /\ ClockTypes /\ ClockSame /\ DOMAIN pc = Proc /\ clk \in [Compute -> Clock]
        /\ clk[p] \in Clock /\ clk'[p] = new
    BY <1>1 DEF ClockInv, ClockTypes
  <1>3. /\ new \in Clock /\ clk[p].t < new.t
        /\ \A s \in Stream : \A u \in Times[s] : clk[p].t < u => new.t <= u
        /\ new.err = (Agreed(k) \in Bad)
        /\ new.due = IF Agreed(k) \in Bad THEN ForcedAt(new.t) ELSE DueAt(new.t)
        /\ new.itm = IF "m" \in new.due THEN clk[p].itm + 1 ELSE clk[p].itm
    BY <1>1, <1>2, LaterClock
  <1> HIDE DEF new
  <1>4. \A q \in Compute : q # p => pc'[q] = pc[q]
    BY <1>1, <1>2, Processes, Zenon
  <1>5. ~new.err => (new.itm >= 1 <=> \E u \in Times["m"] : u <= new.t)
    <2> SUFFICES ASSUME ~new.err PROVE new.itm >= 1 <=> \E u \in Times["m"] : u <= new.t
      OBVIOUS
    <2>1. "m" \in Stream /\ Times["m"] \subseteq Nat
      BY ProtocolAssumption DEF Stream
    <2>2. new.due = DueAt(new.t)
      BY <1>3
    <2>3. "m" \in new.due <=> new.t \in Times["m"]
      BY <2>1, <2>2 DEF DueAt
    <2>4. clk[p].itm \in Nat /\ clk[p].t \in Nat /\ new.t \in Nat
      BY <1>2, <1>3 DEF Clock
    <2>5. clk[p].itm >= 1 <=> \E u \in Times["m"] : u <= clk[p].t
      BY <1>1, <1>2 DEF ClockTypes
    <2>6. \A u \in Times["m"] : u <= new.t <=> u = new.t \/ u <= clk[p].t
      <3> SUFFICES ASSUME NEW u \in Times["m"] PROVE u <= new.t <=> u = new.t \/ u <= clk[p].t
        OBVIOUS
      <3>1. u \in Nat /\ (clk[p].t < u => new.t <= u)
        BY <1>3, <2>1
      <3> QED BY <3>1, <2>4, <1>3
    <2>7. (\E u \in Times["m"] : u <= new.t) <=> (new.t \in Times["m"] \/ clk[p].itm >= 1)
      BY <2>5, <2>6, Zenon
    <2>8. new.itm >= 1 <=> ("m" \in new.due \/ clk[p].itm >= 1)
      BY <1>3, <2>4
    <2> QED BY <2>3, <2>7, <2>8
  <1>6. ClockTypes'
    <2>1. clk' \in [Compute -> Clock] /\ offers' \in [Compute -> Seq(Steps)] /\ DOMAIN pc' = Proc
      BY <1>1, <1>2, <1>3 DEF ClockTypes
    <2>2. ASSUME NEW q \in Compute
          PROVE  /\ pc'[q] \in {"step", "reduce", "output", "final", "barrier", "done"}
                 /\ pc'[q] = "reduce" => offers'[q] # <<>>
                 /\ pc'[q] \in {"step", "reduce"} => clk'[q].t < TStop /\ ~clk'[q].err
                 /\ pc'[q] \in {"final", "barrier", "done"} => clk'[q].t = TStop /\ ~clk'[q].err
                 /\ ~clk'[q].err => (clk'[q].itm >= 1 <=> \E u \in Times["m"] : u <= clk'[q].t)
      <3>1. CASE q = p
        <4>1. pc'[p] = "output"
          BY <1>1, <1>2, Processes
        <4> QED BY <3>1, <4>1, <1>2, <1>5, Zenon
      <3>2. CASE q # p
        BY <3>2, <1>1, <1>2, <1>4, Zenon DEF ClockTypes
      <3> QED BY <3>1, <3>2
    <2> QED BY <2>1, <2>2, Zenon DEF ClockTypes
  <1>7. ClockSame'
    <2> SUFFICES ASSUME NEW q \in Compute, NEW r \in Compute
                 PROVE  /\ Taken(q)' <= Len(offers'[r])
                        /\ Taken(q)' = Taken(r)' => clk'[q] = clk'[r]
                        /\ Taken(q)' = Taken(r)' + 1 => clk'[q] = Later(clk'[r], Agreed(Taken(q))')
      BY Zenon DEF ClockSame
    <2>1. /\ Taken(q) <= Len(offers[r])
          /\ Taken(q) = Taken(r) => clk[q] = clk[r]
          /\ Taken(q) = Taken(r) + 1 => clk[q] = Later(clk[r], Agreed(Taken(q)))
      BY <1>2, Zenon DEF ClockSame
    <2>2. Taken(q) \in Nat /\ Taken(r) \in Nat /\ Taken(p) \in Nat
      BY <1>2, TakenNat
    <2>3. Agreed(Taken(q)') = Agreed(Taken(q))'
      BY <1>1, Zenon DEF Agreed
    <2>4. k <= Len(offers[r])
      BY Zenon DEF Timestep
    <2>5. CASE q = p /\ r = p
      <3>1. Taken(q)' # Taken(r)' + 1
        BY <2>2, <2>5, <1>1
      <3> QED BY <3>1, <2>5, <2>4, <1>1, Zenon
    <2>6. CASE q = p /\ r # p
      <3>1. Taken(r)' = Taken(r) /\ clk'[r] = clk[r]
        BY <1>1, <2>6
      <3>2. Taken(q)' = Taken(r)' => clk'[q] = clk'[r]
        BY <1>1, <2>6, <3>1
      <3>3. Taken(q)' = Taken(r)' + 1 => Taken(r) = Taken(p)
        BY <3>1, <1>1, <2>2, <2>6
      <3>4. Taken(q)' = Taken(r)' + 1 => clk'[q] = Later(clk'[r], Agreed(Taken(q)'))
        BY <3>1, <3>3, <1>1, <1>2, <2>6, Zenon DEF new
      <3> QED BY <3>2, <3>4, <2>3, <2>4, <2>6, <1>1, Zenon
    <2>7. CASE q # p /\ r = p
      <3>1. Taken(q)' = Taken(q) /\ clk'[q] = clk[q]
        BY <1>1, <2>7
      <3>2. Taken(q) = Taken(p) \/ Taken(q) = Taken(p) + 1
        BY <1>1, <2>7
      <3>3. Taken(q)' = Taken(r)' => clk'[q] = clk'[r]
        BY <1>1, <2>7, <3>1
      <3>4. Taken(q)' # Taken(r)' + 1
        BY <3>1, <3>2, <1>1, <2>2, <2>7
      <3> QED BY <3>1, <3>3, <3>4, <2>1, <1>1, Zenon
    <2>8. CASE q # p /\ r # p
      <3>1. Taken(q)' = Taken(q) /\ clk'[q] = clk[q] /\ Taken(r)' = Taken(r) /\ clk'[r] = clk[r]
        BY <1>1, <2>8
      <3> QED BY <3>1, <2>1, <2>3, <1>1, Zenon
    <2> QED BY <2>5, <2>6, <2>7, <2>8
  <1> QED BY <1>6, <1>7 DEF ClockInv

LEMMA ClockNext ==
    ASSUME ClockInv, [Next]_vars
    PROVE  ClockInv'
  <1>0. ClockTypes /\ DOMAIN pc = Proc
    BY DEF ClockInv, ClockTypes
  <1>1. ASSUME clk' = clk, offers' = offers, DOMAIN pc' = Proc, \A q \in Compute : pc'[q] = pc[q]
        PROVE  ClockInv'
    BY <1>0, <1>1, ClockKept, Zenon DEF ClockTypes
  <1>2. ASSUME NEW p \in Proc, Send(p) PROVE ClockInv'
    BY <1>0, <1>1, <1>2, Zenon DEF Send
  <1>3. ASSUME NEW p \in Proc, Receive(p) PROVE ClockInv'
    <2>1. clk' = clk /\ offers' = offers
      BY <1>3, Zenon DEF Receive
    <2>2. \/ pc' = pc
          \/ p = omaster /\ \E x : pc' = [pc EXCEPT ![p] = x]
      BY <1>3, Zenon DEF Receive
    <2>3. DOMAIN pc' = Proc /\ \A q \in Compute : pc'[q] = pc[q]
      BY <2>2, <1>0, Processes, Zenon
    <2> QED BY <2>1, <2>3, <1>1, Zenon
  <1>4. ASSUME NEW p \in Proc, LeaveBarrier(p) PROVE ClockInv'
    <2>1. clk' = clk /\ offers' = offers /\ pc[p] = "barrier" /\ pc' = [pc EXCEPT ![p] = "done"]
      BY <1>4, Zenon DEF LeaveBarrier
    <2>2. pc'[p] = "done" /\ DOMAIN pc' = Proc /\ \A q \in Proc : q # p => pc'[q] = pc[q]
      BY <2>1, <1>0, Zenon
    <2>3. ASSUME NEW q \in Compute
          PROVE  /\ pc'[q] \in {"step", "reduce", "output", "final", "barrier", "done"}
                 /\ pc'[q] = "reduce" <=> pc[q] = "reduce"
                 /\ pc'[q] \in {"step", "reduce"} => clk[q].t < TStop /\ ~clk[q].err
                 /\ pc'[q] \in {"final", "barrier", "done"} => clk[q].t = TStop /\ ~clk[q].err
      <3>1. CASE q = p
        BY <3>1, <2>1, <2>2, <1>0 DEF ClockTypes
      <3>2. CASE q # p
        BY <3>2, <2>2, <1>0, Processes, Zenon DEF ClockTypes
      <3> QED BY <3>1, <3>2
    <2> QED BY <2>1, <2>2, <2>3, ClockKept, Zenon
  <1>5. ASSUME NEW p \in Compute, Return(p) PROVE ClockInv'
    <2>1. clk' = clk /\ offers' = offers /\ pc[p] = "output"
      BY <1>5, Zenon DEF Return
    <2>2. CASE clk[p].err
      BY <2>1, <2>2, <1>0, <1>1, <1>5, Zenon DEF Return
    <2>3. CASE ~clk[p].err
      <3>1. pc' = [pc EXCEPT ![p] = IF clk[p].t < TStop THEN "step" ELSE "final"]
        BY <2>3, <1>5, Zenon DEF Return
      <3>2. /\ pc'[p] = (IF clk[p].t < TStop THEN "step" ELSE "final")
            /\ DOMAIN pc' = Proc /\ \A q \in Proc : q # p => pc'[q] = pc[q]
        BY <3>1, <1>0, Processes, Zenon
      <3>3. clk[p].t < TStop \/ clk[p].t = TStop
        <4>1. clk[p].t \in 0..TStop /\ TStop \in Nat
          BY <1>0, ProtocolAssumption DEF ClockTypes, Clock
        <4> QED BY <4>1
      <3>4. ASSUME NEW q \in Compute
            PROVE  /\ pc'[q] \in {"step", "reduce", "output", "final", "barrier", "done"}
                   /\ pc'[q] = "reduce" <=> pc[q] = "reduce"
                   /\ pc'[q] \in {"step", "reduce"} => clk[q].t < TStop /\ ~clk[q].err
                   /\ pc'[q] \in {"final", "barrier", "done"} => clk[q].t = TStop /\ ~clk[q].err
        <4>1. CASE q = p
          BY <4>1, <2>1, <2>3, <3>2, <3>3
        <4>2. CASE q # p
          BY <4>2, <3>2, <1>0, Processes, Zenon DEF ClockTypes
        <4> QED BY <4>1, <4>2
      <3> QED BY <2>1, <3>2, <3>4, ClockKept, Zenon
    <2> QED BY <2>2, <2>3
  <1>6. ASSUME NEW p \in Compute, EnterBarrier(p) PROVE ClockInv'
    <2>1. clk' = clk /\ offers' = offers /\ pc[p] = "final" /\ pc' = [pc EXCEPT ![p] = "barrier"]
      BY <1>6, Zenon DEF EnterBarrier
    <2>2. pc'[p] = "barrier" /\ DOMAIN pc' = Proc /\ \A q \in Proc : q # p => pc'[q] = pc[q]
      BY <2>1, <1>0, Processes, Zenon
    <2>3. ASSUME NEW q \in Compute
          PROVE  /\ pc'[q] \in {"step", "reduce", "output", "final", "barrier", "done"}
                 /\ pc'[q] = "reduce" <=> pc[q] = "reduce"
                 /\ pc'[q] \in {"step", "reduce"} => clk[q].t < TStop /\ ~clk[q].err
                 /\ pc'[q] \in {"final", "barrier", "done"} => clk[q].t = TStop /\ ~clk[q].err
      <3>1. CASE q = p
        BY <3>1, <2>1, <2>2, <1>0 DEF ClockTypes
      <3>2. CASE q # p
        BY <3>2, <2>2, <1>0, Processes, Zenon DEF ClockTypes
      <3> QED BY <3>1, <3>2
    <2> QED BY <2>1, <2>2, <2>3, ClockKept, Zenon
  <1>7. ASSUME Write PROVE ClockInv'
    <2>1. clk' = clk /\ offers' = offers /\ pc' = [pc EXCEPT ![omaster] = "asleep"]
      BY <1>7, Zenon DEF Write
    <2>2. DOMAIN pc' = Proc /\ \A q \in Compute : pc'[q] = pc[q]
      BY <2>1, <1>0, Processes, Zenon
    <2> QED BY <2>1, <2>2, <1>1, Zenon
  <1>8. CASE UNCHANGED vars
    BY <1>8, <1>0, <1>1, Zenon DEF vars
  <1>9. CASE Next
    <2>1. PICK p \in Proc : Process(p)
      BY <1>9, Zenon DEF Next
    <2> QED BY <2>1, <1>2, <1>3, <1>4, <1>5, <1>6, <1>7, ClockOffer, ClockTimestep, Zenon
            DEF Process, Compute_
  <1> QED BY <1>8, <1>9

\* The clock of every process is what the reductions of dt make it.
THEOREM ClocksFollow == Spec => []ClockInv
  <1>1. Init => ClockInv
    BY ClockInit
  <1>2. ClockInv /\ [Next]_vars => ClockInv'
    BY ClockNext
  <1> QED BY <1>1, <1>2, PTL DEF Spec

\* Processes that made the same number of steps have the same clock, output
\* flags and error (compute_dt, outputtimes_update): the reduction of dt
\* leaves nothing to differ.
THEOREM ClocksAgree == Spec => []SameClock
  <1>1. ClockInv => SameClock
    <2> SUFFICES ASSUME ClockInv, NEW p \in Compute, NEW q \in Compute,
                        Len(offers[p]) = Len(offers[q]), pc[p] = "reduce" <=> pc[q] = "reduce"
                 PROVE  clk[p] = clk[q]
      BY DEF SameClock
    <2>1. Taken(p) = Taken(q)
      BY Zenon DEF Taken
    <2> QED BY <2>1 DEF ClockInv, ClockSame
  <1> QED BY <1>1, ClocksFollow, PTL
-----------------------------------------------------------------------------
(* The operations of a round *)

\* The operations of round r; after the last one there is the announcement.
PlanOf(R, r) == IF r \in 1..Len(R) THEN Plan(R[r]) ELSE Announce

\* A gather of what was collected before is left out.
Dropped(ops, j) == ops[j].op = "gather" /\ \E i \in 1..(j - 1) : ops[i] = ops[j]

Turns(p, ops) == {j \in 1..Len(ops) : TakesPart(p, ops[j]) /\ ~Dropped(ops, j)}

Before(r, i, s, j) == r < s \/ (r = s /\ i < j)

\* What operation j of round r carries.
Value(R, r, j) ==
    LET o == PlanOf(R, r)[j] IN
    CASE o.op = "end"  -> r > Len(R)
      [] o.op = "tell" -> R[r]
      [] o.op = "flag" -> Dropped(PlanOf(R, r), j + 1)
      [] o.op \in {"wake", "place"} -> 0
      [] OTHER -> R[r].t

\* Operation j of round r has a message from q to p.
Carries(R, q, p, r, j) ==
    /\ r \in Nat \ {0} /\ j \in 1..Len(PlanOf(R, r))
    /\ ~Dropped(PlanOf(R, r), j)
    /\ q \in Senders(PlanOf(R, r)[j]) /\ p \in Receivers(PlanOf(R, r)[j])

Operation ==
    [op : {"wake", "end", "tell", "reduce", "place"}, of : {"none"}]
    \cup [op : {"flag", "gather", "drift", "relay", "value"}, of : Field]

\* What is collected after the fields of global output.
Others == {OpOf("gather", "mean"), OpOf("drift", "drift"), Op("reduce"),
           OpOf("relay", "run"), Op("place"), OpOf("value", "point")}

Pairs(due) == IF "g" \in due THEN 2 * Len(GlobalVars) ELSE 0

Pair(j) == OpOf(IF j % 2 = 1 THEN "flag" ELSE "gather", GlobalVars[(j + 1) \div 2])

LEMMA FieldNames ==
    /\ GlobalVars \in Seq(Range(GlobalVars))
    /\ \A v : v \in Range(GlobalVars) <=> \E k \in 1..Len(GlobalVars) : GlobalVars[k] = v
    /\ Range(GlobalVars) \subseteq Field
    /\ {"mean", "drift", "run", "point"} \subseteq Field
    /\ {"mean", "drift", "run", "point"} \cap Range(GlobalVars) = {}
    /\ "none" \notin Field
    /\ Len(GlobalVars) \in Nat
  <1>1. GlobalVars \in Seq(STRING) /\ Range(GlobalVars) \cap {"mean", "drift", "run", "point", "none"} = {}
    BY ProtocolAssumption
  <1>2. DOMAIN GlobalVars = 1..Len(GlobalVars) /\ Len(GlobalVars) \in Nat
    BY <1>1
  <1>3. \A v : v \in Range(GlobalVars) <=> \E k \in 1..Len(GlobalVars) : GlobalVars[k] = v
    BY <1>2, Zenon DEF Range
  <1>4. GlobalVars \in Seq(Range(GlobalVars))
    <2>1. GlobalVars = [k \in 1..Len(GlobalVars) |-> GlobalVars[k]]
      BY <1>1
    <2>2. GlobalVars \in [1..Len(GlobalVars) -> Range(GlobalVars)]
      BY <2>1, <1>3, Zenon
    <2> QED BY <2>2, <1>2, SeqDef
  <1>5. {"mean", "drift", "run", "point"} \cap Range(GlobalVars) = {} /\ "none" \notin Field
    BY <1>1 DEF Field
  <1> QED BY <1>2, <1>3, <1>4, <1>5, Zenon DEF Field

LEMMA OthersAre ==
    /\ Others \subseteq Operation
    /\ \A o \in Others : o.op \notin {"wake", "end", "tell", "flag"}
    /\ \A o \in Others : o.op = "gather" => o = OpOf("gather", "mean")
  <1>1. {"mean", "drift", "run", "point", "none"} \subseteq Field \cup {"none"}
    BY FieldNames
  <1> HIDE DEF Field
  <1> QED BY <1>1 DEF Others, Operation, Op, OpOf

LEMMA PairIs ==
    ASSUME NEW j \in 1..(2 * Len(GlobalVars))
    PROVE  /\ Pair(j) \in Operation /\ Pair(j).op \in {"flag", "gather"}
           /\ Pair(j).of \in Range(GlobalVars)
           /\ Pair(j).op = "flag" =>
                j + 1 \in 1..(2 * Len(GlobalVars)) /\ Pair(j + 1) = OpOf("gather", Pair(j).of)
           /\ Pair(j).op = "gather" =>
                j - 1 \in 1..(2 * Len(GlobalVars)) /\ Pair(j - 1) = OpOf("flag", Pair(j).of)
  <1>1. Len(GlobalVars) \in Nat
    BY FieldNames
  <1>2. (j + 1) \div 2 \in 1..Len(GlobalVars)
    BY <1>1
  <1>3. GlobalVars[(j + 1) \div 2] \in Range(GlobalVars)
    BY <1>2, FieldNames, Zenon
  <1>4. Range(GlobalVars) \subseteq Field
    BY FieldNames
  <1>5. (j % 2 = 1 /\ j + 1 \in 1..(2 * Len(GlobalVars)) /\ (j + 1) % 2 # 1
           /\ ((j + 1) + 1) \div 2 = (j + 1) \div 2)
        \/ (j % 2 # 1 /\ j - 1 \in 1..(2 * Len(GlobalVars)) /\ (j - 1) % 2 = 1
           /\ ((j - 1) + 1) \div 2 = (j + 1) \div 2)
    BY <1>1
  <1> DEFINE v == GlobalVars[(j + 1) \div 2]
  <1>6. Pair(j) = (IF j % 2 = 1 THEN OpOf("flag", v) ELSE OpOf("gather", v))
    BY Zenon DEF Pair
  <1>7. ASSUME NEW n \in {"flag", "gather"}
        PROVE  OpOf(n, v) \in Operation /\ OpOf(n, v).op = n /\ OpOf(n, v).of = v
    <2> HIDE DEF v, Field
    <2>1. v \in Field
      BY <1>3, <1>4 DEF v
    <2> QED BY <2>1 DEF OpOf, Operation
  <1>8. CASE j % 2 = 1 /\ j + 1 \in 1..(2 * Len(GlobalVars)) /\ (j + 1) % 2 # 1
           /\ ((j + 1) + 1) \div 2 = (j + 1) \div 2
    <2>1. Pair(j) = OpOf("flag", v) /\ Pair(j + 1) = OpOf("gather", v)
      BY <1>6, <1>8, Zenon DEF Pair
    <2> QED BY <2>1, <1>3, <1>7, <1>8, Zenon
  <1>9. CASE j % 2 # 1 /\ j - 1 \in 1..(2 * Len(GlobalVars)) /\ (j - 1) % 2 = 1
           /\ ((j - 1) + 1) \div 2 = (j + 1) \div 2
    <2>1. Pair(j) = OpOf("gather", v) /\ Pair(j - 1) = OpOf("flag", v)
      BY <1>6, <1>9, Zenon DEF Pair
    <2> QED BY <2>1, <1>3, <1>7, <1>9, Zenon
  <1> QED BY <1>5, <1>8, <1>9

LEMMA Joined ==
    ASSUME NEW X, NEW s \in Seq(X), NEW t \in Seq(X)
    PROVE  /\ s \o t \in Seq(X) /\ Len(s \o t) = Len(s) + Len(t)
           /\ \A j \in 1..Len(s) : (s \o t)[j] = s[j]
           /\ \A j \in 1..Len(t) : (s \o t)[Len(s) + j] = t[j]
  <1> DEFINE u == s \o t
             m == Len(s)
             n == Len(t)
  <1>1. /\ u \in Seq(X) /\ Len(u) = m + n
        /\ \A i \in 1..(m + n) : u[i] = IF i <= m THEN s[i] ELSE t[i - m]
    BY ConcatProperties
  <1>2. m \in Nat /\ n \in Nat
    OBVIOUS
  <1> HIDE DEF u, m, n
  <1>3. \A j \in 1..m : j \in 1..(m + n) /\ j <= m
    BY <1>2
  <1>4. \A j \in 1..n : m + j \in 1..(m + n) /\ ~ (m + j <= m) /\ (m + j) - m = j
    BY <1>2
  <1>5. \A j \in 1..m : u[j] = s[j]
    BY <1>1, <1>3
  <1>6. \A j \in 1..n : u[m + j] = t[j]
    <2> SUFFICES ASSUME NEW j \in 1..n PROVE u[m + j] = t[j]
      OBVIOUS
    <2>1. u[m + j] = t[(m + j) - m]
      BY <1>1, <1>4, Zenon
    <2> QED BY <2>1, <1>4
  <1> QED BY <1>1, <1>5, <1>6 DEF u, m, n

\* The fields of global output two by two, then the others.
LEMMA CollectsShape ==
    ASSUME NEW due \in SUBSET Stream, NEW first \in BOOLEAN
    PROVE  LET S == Collects[due][first] n == Pairs(due) IN
           /\ S \in Seq(Operation) /\ n \in 0..Len(S)
           /\ \A j \in 1..n : S[j] = Pair(j)
           /\ \A j \in (n + 1)..Len(S) : S[j] \in Others
           /\ \A j \in (n + 2)..Len(S) : S[j] # OpOf("gather", "mean")
           /\ "m" \in due /\ ~first /\ HasMean =>
                \E j \in 1..Len(S) : S[j] = OpOf("gather", "mean")
           /\ HasDrifter => \E j \in 1..Len(S) : S[j] = OpOf("drift", "drift")
           /\ "p" \in due /\ HasPoint =>
                /\ \E j \in 1..Len(S) : S[j] = OpOf("relay", "run")
                /\ \E j \in 1..Len(S) : S[j] = OpOf("value", "point")
  <1> DEFINE
        A == IF "g" \in due THEN [i \in 1..(2 * Len(GlobalVars)) |-> Pair(i)] ELSE <<>>
        b == "m" \in due /\ ~first /\ HasMean
        B == IF b THEN <<OpOf("gather", "mean")>> ELSE <<>>
        C == IF HasDrifter THEN <<OpOf("drift", "drift")>> ELSE <<>>
        d == "p" \in due /\ HasPoint
        D == IF d THEN <<Op("reduce"), OpOf("relay", "run"), Op("place"), OpOf("value", "point")>>
             ELSE <<>>
        n == Pairs(due)
        S == ((A \o B) \o C) \o D
  <1>1. Collects[due][first] = S
    BY DEF Collects, Pair
  <1>2. A \in Seq(Operation) /\ Len(A) = n /\ n \in Nat /\ \A j \in 1..n : A[j] = Pair(j)
    <2>1. Len(GlobalVars) \in Nat
      BY FieldNames
    <2>2. CASE "g" \in due
      <3>1. n = 2 * Len(GlobalVars) /\ n \in Nat /\ A = [i \in 1..n |-> Pair(i)]
        BY <2>1, <2>2 DEF Pairs
      <3>2. A \in [1..n -> Operation]
        BY <3>1, PairIs
      <3> HIDE DEF n, A
      <3>3. A \in Seq(Operation)
        BY <3>1, <3>2, SeqDef
      <3> QED BY <3>1, <3>3
    <2>3. CASE "g" \notin due
      BY <2>3 DEF Pairs
    <2> QED BY <2>2, <2>3
  <1>3. /\ B \in Seq(Operation) /\ C \in Seq(Operation) /\ D \in Seq(Operation)
        /\ Len(B) = (IF b THEN 1 ELSE 0) /\ (b => B[1] = OpOf("gather", "mean"))
        /\ Len(C) = (IF HasDrifter THEN 1 ELSE 0) /\ (HasDrifter => C[1] = OpOf("drift", "drift"))
        /\ Len(D) = (IF d THEN 4 ELSE 0)
        /\ d => D[1] = Op("reduce") /\ D[2] = OpOf("relay", "run") /\ D[3] = Op("place")
                /\ D[4] = OpOf("value", "point")
    <2>1. Others \subseteq Operation /\ {OpOf("gather", "mean"), OpOf("drift", "drift"), Op("reduce"),
           OpOf("relay", "run"), Op("place"), OpOf("value", "point")} \subseteq Operation
      BY OthersAre DEF Others
    <2> HIDE DEF b, d
    <2> QED BY <2>1
  <1> HIDE DEF A, B, C, D
  <1>4. /\ S \in Seq(Operation) /\ Len(S) = n + Len(B) + Len(C) + Len(D)
        /\ \A j \in 1..n : S[j] = Pair(j)
        /\ \A j \in 1..Len(B) : S[n + j] = B[j]
        /\ \A j \in 1..Len(C) : S[n + Len(B) + j] = C[j]
        /\ \A j \in 1..Len(D) : S[n + Len(B) + Len(C) + j] = D[j]
    <2>1. n \in Nat /\ Len(B) \in Nat /\ Len(C) \in Nat /\ Len(D) \in Nat
      BY <1>2, <1>3
    <2> HIDE DEF n, b, d
    <2>2. A \o B \in Seq(Operation) /\ Len(A \o B) = n + Len(B)
          /\ (\A j \in 1..n : (A \o B)[j] = Pair(j)) /\ \A j \in 1..Len(B) : (A \o B)[n + j] = B[j]
      <3>1. A \in Seq(Operation) /\ B \in Seq(Operation)
        BY <1>2, <1>3
      <3>2. /\ A \o B \in Seq(Operation) /\ Len(A \o B) = Len(A) + Len(B)
            /\ \A j \in 1..Len(A) : (A \o B)[j] = A[j]
            /\ \A j \in 1..Len(B) : (A \o B)[Len(A) + j] = B[j]
        BY <3>1, Joined
      <3> QED BY <3>2, <1>2, Zenon
    <2> DEFINE E == A \o B
    <2>3. E \in Seq(Operation) /\ Len(E) = n + Len(B)
          /\ (\A j \in 1..n : E[j] = Pair(j)) /\ \A j \in 1..Len(B) : E[n + j] = B[j]
      BY <2>2
    <2> HIDE DEF E
    <2>a. /\ E \o C \in Seq(Operation) /\ Len(E \o C) = Len(E) + Len(C)
          /\ \A j \in 1..Len(E) : (E \o C)[j] = E[j]
          /\ \A j \in 1..Len(C) : (E \o C)[Len(E) + j] = C[j]
      <3>1. E \in Seq(Operation) /\ C \in Seq(Operation)
        BY <2>3, <1>3
      <3> QED BY <3>1, Joined
    <2>b. \A j \in 1..n : j \in 1..(n + Len(B))
      BY <2>1
    <2>c. \A j \in 1..Len(B) : n + j \in 1..(n + Len(B))
      BY <2>1
    <2>4. E \o C \in Seq(Operation) /\ Len(E \o C) = n + Len(B) + Len(C)
          /\ (\A j \in 1..n : (E \o C)[j] = Pair(j)) /\ (\A j \in 1..Len(B) : (E \o C)[n + j] = B[j])
          /\ (\A j \in 1..Len(C) : (E \o C)[n + Len(B) + j] = C[j])
      BY <2>3, <2>a, <2>b, <2>c, Zenon
    <2> DEFINE F == E \o C
    <2>5. F \in Seq(Operation) /\ Len(F) = n + Len(B) + Len(C)
          /\ (\A j \in 1..n : F[j] = Pair(j)) /\ (\A j \in 1..Len(B) : F[n + j] = B[j])
          /\ (\A j \in 1..Len(C) : F[n + Len(B) + j] = C[j])
      BY <2>4
    <2> HIDE DEF F
    <2>d. /\ F \o D \in Seq(Operation) /\ Len(F \o D) = Len(F) + Len(D)
          /\ \A j \in 1..Len(F) : (F \o D)[j] = F[j]
          /\ \A j \in 1..Len(D) : (F \o D)[Len(F) + j] = D[j]
      <3>1. F \in Seq(Operation) /\ D \in Seq(Operation)
        BY <2>5, <1>3
      <3> QED BY <3>1, Joined
    <2>e. \A j \in 1..n : j \in 1..(n + Len(B) + Len(C))
      BY <2>1
    <2>f. \A j \in 1..Len(B) : n + j \in 1..(n + Len(B) + Len(C))
      BY <2>1
    <2>g. \A j \in 1..Len(C) : n + Len(B) + j \in 1..(n + Len(B) + Len(C))
      BY <2>1
    <2>6. F \o D \in Seq(Operation) /\ Len(F \o D) = n + Len(B) + Len(C) + Len(D)
          /\ (\A j \in 1..n : (F \o D)[j] = Pair(j)) /\ (\A j \in 1..Len(B) : (F \o D)[n + j] = B[j])
          /\ (\A j \in 1..Len(C) : (F \o D)[n + Len(B) + j] = C[j])
          /\ (\A j \in 1..Len(D) : (F \o D)[n + Len(B) + Len(C) + j] = D[j])
      BY <2>5, <2>d, <2>e, <2>f, <2>g, Zenon
    <2>7. S = F \o D
      BY DEF E, F
    <2> QED BY <2>6, <2>7, Zenon
  <1> HIDE DEF S, n, b, d
  <1>5. \A j \in (n + 1)..Len(S) :
           \/ b /\ j = n + 1 /\ S[j] = OpOf("gather", "mean")
           \/ HasDrifter /\ j = n + Len(B) + 1 /\ S[j] = OpOf("drift", "drift")
           \/ d /\ \E k \in 1..4 : j = n + Len(B) + Len(C) + k /\ S[j] = D[k]
    <2> SUFFICES ASSUME NEW j \in (n + 1)..Len(S)
                 PROVE  \/ b /\ j = n + 1 /\ S[j] = OpOf("gather", "mean")
                        \/ HasDrifter /\ j = n + Len(B) + 1 /\ S[j] = OpOf("drift", "drift")
                        \/ d /\ \E k \in 1..4 : j = n + Len(B) + Len(C) + k /\ S[j] = D[k]
      OBVIOUS
    <2>1. n \in Nat /\ j \in Nat
      BY <1>2, <1>4, <1>3
    <2>2. CASE j <= n + Len(B)
      <3>1. b /\ j = n + 1 /\ 1 \in 1..Len(B)
        BY <2>1, <2>2, <1>3
      <3>2. S[n + 1] = B[1]
        BY <3>1, <1>4
      <3> QED BY <3>1, <3>2, <1>3
    <2>3. CASE j > n + Len(B) /\ j <= n + Len(B) + Len(C)
      <3>1. HasDrifter /\ j = n + Len(B) + 1 /\ 1 \in 1..Len(C)
        BY <2>1, <2>3, <1>3
      <3>2. S[n + Len(B) + 1] = C[1]
        BY <3>1, <1>4
      <3> QED BY <3>1, <3>2, <1>3
    <2>4. CASE j > n + Len(B) + Len(C)
      <3>0. Len(B) \in Nat /\ Len(C) \in Nat /\ Len(D) \in Nat /\ (Len(D) = 4 \/ Len(D) = 0)
            /\ (Len(D) = 4 => d) /\ j <= n + Len(B) + Len(C) + Len(D)
        BY <1>3, <1>4
      <3> HIDE <1>2, <1>3, <1>4
      <3> DEFINE k == j - (n + Len(B) + Len(C))
      <3>a. Len(D) # 0 /\ Len(D) = 4
        BY <2>1, <2>4, <3>0
      <3>b. k \in 1..4 /\ j = n + Len(B) + Len(C) + k
        BY <2>1, <2>4, <3>0, <3>a
      <3>1. d /\ k \in 1..4 /\ Len(D) = 4 /\ j = n + Len(B) + Len(C) + k
        BY <3>0, <3>a, <3>b
      <3>2. S[n + Len(B) + Len(C) + (j - (n + Len(B) + Len(C)))] = D[j - (n + Len(B) + Len(C))]
        BY <3>1, <1>4
      <3> QED BY <3>1, <3>2
    <2>5. Len(B) \in Nat /\ Len(C) \in Nat
      BY <1>3
    <2> QED BY <2>1, <2>2, <2>3, <2>4, <2>5
  <1>6. d => \A k \in 1..4 : D[k] \in Others /\ D[k] # OpOf("gather", "mean")
    <2>1. \A k \in 1..4 : k = 1 \/ k = 2 \/ k = 3 \/ k = 4
      OBVIOUS
    <2> QED BY <2>1, <1>3 DEF Others, Op, OpOf
  <1>7. \A j \in (n + 1)..Len(S) : S[j] \in Others
    BY <1>5, <1>6, Zenon DEF Others
  <1>8. \A j \in (n + 2)..Len(S) : S[j] # OpOf("gather", "mean")
    <2> SUFFICES ASSUME NEW j \in (n + 2)..Len(S) PROVE S[j] # OpOf("gather", "mean")
      OBVIOUS
    <2>1. j \in (n + 1)..Len(S) /\ j # n + 1
      BY <1>2
    <2>2. OpOf("drift", "drift") # OpOf("gather", "mean")
      BY DEF OpOf
    <2> QED BY <2>1, <2>2, <1>5, <1>6, Zenon
  <1>9. /\ n \in 0..Len(S)
        /\ b => n + 1 \in 1..Len(S) /\ 1 \in 1..Len(B)
        /\ HasDrifter => n + Len(B) + 1 \in 1..Len(S) /\ 1 \in 1..Len(C)
        /\ d => /\ n + Len(B) + Len(C) + 2 \in 1..Len(S) /\ n + Len(B) + Len(C) + 4 \in 1..Len(S)
                /\ 2 \in 1..Len(D) /\ 4 \in 1..Len(D)
    BY <1>2, <1>3, <1>4
  <1>a. /\ b => S[n + 1] = B[1]
        /\ HasDrifter => S[n + Len(B) + 1] = C[1]
        /\ d => S[n + Len(B) + Len(C) + 2] = D[2] /\ S[n + Len(B) + Len(C) + 4] = D[4]
    BY <1>4, <1>9, Zenon
  <1>10. /\ b => \E j \in 1..Len(S) : S[j] = OpOf("gather", "mean")
         /\ HasDrifter => \E j \in 1..Len(S) : S[j] = OpOf("drift", "drift")
         /\ d => \E j \in 1..Len(S) : S[j] = OpOf("relay", "run")
         /\ d => \E j \in 1..Len(S) : S[j] = OpOf("value", "point")
    BY <1>3, <1>a, <1>9, Zenon
  <1>11. Collects[due][first] = S
    BY <1>1 DEF S
  <1> QED BY <1>4, <1>7, <1>8, <1>9, <1>10, <1>11, Zenon DEF b, d, n

\* What the plan of a round has in common with the announcement.
Regular(ops) ==
    /\ ops \in Seq(Operation) /\ Len(ops) >= 2
    /\ ops[1] = Op("wake") /\ ops[2] = Op("end")
    /\ \A j \in 1..Len(ops) : j >= 3 => ops[j].op \notin {"wake", "end"}
    /\ \A j \in 1..Len(ops) : ops[j].op = "flag" =>
         j + 1 \in 1..Len(ops) /\ ops[j + 1] = OpOf("gather", ops[j].of)
    /\ \A j \in 1..Len(ops) : Dropped(ops, j) =>
         j - 1 \in 1..Len(ops) /\ ops[j - 1] = OpOf("flag", ops[j].of)

\* What only the plan of a round has.
Complete(ops, c) ==
    /\ Len(ops) >= 3 /\ ops[3] = Op("tell")
    /\ \A j \in 1..Len(ops) : j >= 4 => ops[j].op # "tell"
    /\ "g" \in c.due =>
         \A v \in Range(GlobalVars) : \E j \in 1..Len(ops) : ops[j] = OpOf("gather", v)
    /\ "m" \in c.due /\ c.itm > 1 /\ HasMean =>
         \E j \in 1..Len(ops) : ops[j] = OpOf("gather", "mean")
    /\ HasDrifter => \E j \in 1..Len(ops) : ops[j] = OpOf("drift", "drift")
    /\ "p" \in c.due /\ HasPoint =>
         /\ \E j \in 1..Len(ops) : ops[j] = OpOf("relay", "run")
         /\ \E j \in 1..Len(ops) : ops[j] = OpOf("value", "point")

LEMMA Announcement ==
    /\ Announce \in Seq(Operation) /\ Len(Announce) = 2
    /\ Announce[1] = Op("wake") /\ Announce[2] = Op("end")
    /\ Regular(Announce)
  <1>1. Op("wake") \in Operation /\ Op("end") \in Operation /\ Op("tell") \in Operation
    BY DEF Op, Operation
  <1>2. /\ Announce \in Seq(Operation) /\ Len(Announce) = 2
        /\ Announce[1] = Op("wake") /\ Announce[2] = Op("end")
    BY <1>1 DEF Announce
  <1>3. \A j \in 1..Len(Announce) : (j = 1 \/ j = 2) /\ ~ (j >= 3)
    BY <1>2
  <1>4. \A j \in 1..Len(Announce) : Announce[j].op \notin {"flag", "gather"}
    BY <1>2, <1>3 DEF Op
  <1>5. Len(Announce) >= 2
    BY <1>2
  <1>6. \A j \in 1..Len(Announce) : ~ Dropped(Announce, j)
    BY <1>4 DEF Dropped
  <1> QED BY <1>2, <1>3, <1>4, <1>5, <1>6, Zenon DEF Regular

LEMMA PlanShape ==
    ASSUME NEW c \in Clock
    PROVE  Regular(Plan(c)) /\ Complete(Plan(c), c)
  <1> DEFINE due == c.due
             first == c.itm <= 1
             S == Collects[due][first]
             n == Pairs(due)
             T == Announce \o <<Op("tell")>>
             ops == T \o S
  <1>1. due \in SUBSET Stream /\ first \in BOOLEAN /\ c.itm \in Nat
    BY DEF Clock
  <1>2. Plan(c) = ops
    BY <1>1, Zenon DEF Plan, Rounds
  <1>3. /\ S \in Seq(Operation) /\ n \in 0..Len(S)
        /\ \A j \in 1..n : S[j] = Pair(j)
        /\ \A j \in (n + 1)..Len(S) : S[j] \in Others
        /\ \A j \in (n + 2)..Len(S) : S[j] # OpOf("gather", "mean")
        /\ "m" \in due /\ ~first /\ HasMean =>
             \E j \in 1..Len(S) : S[j] = OpOf("gather", "mean")
        /\ HasDrifter => \E j \in 1..Len(S) : S[j] = OpOf("drift", "drift")
        /\ "p" \in due /\ HasPoint =>
             /\ \E j \in 1..Len(S) : S[j] = OpOf("relay", "run")
             /\ \E j \in 1..Len(S) : S[j] = OpOf("value", "point")
    BY <1>1, CollectsShape
  <1> HIDE DEF S
  <1>4. /\ T \in Seq(Operation) /\ Len(T) = 3
        /\ T[1] = Op("wake") /\ T[2] = Op("end") /\ T[3] = Op("tell")
    <2>1. Op("tell") \in Operation
      BY DEF Op, Operation
    <2>2. /\ <<Op("tell")>> \in Seq(Operation) /\ Len(<<Op("tell")>>) = 1
          /\ <<Op("tell")>>[1] = Op("tell") /\ 1 \in 1..1 /\ 1 \in 1..2 /\ 2 \in 1..2
          /\ 2 + 1 = 3
      BY <2>1
    <2>3. Announce \in Seq(Operation) /\ <<Op("tell")>> \in Seq(Operation)
      BY <2>2, Announcement
    <2>4. /\ T \in Seq(Operation) /\ Len(T) = Len(Announce) + Len(<<Op("tell")>>)
          /\ \A j \in 1..Len(Announce) : T[j] = Announce[j]
          /\ \A j \in 1..Len(<<Op("tell")>>) : T[Len(Announce) + j] = <<Op("tell")>>[j]
      BY <2>3, Joined
    <2> QED BY <2>2, <2>4, Announcement, Zenon
  <1> HIDE DEF T
  <1>5. /\ ops \in Seq(Operation) /\ Len(ops) = 3 + Len(S)
        /\ ops[1] = Op("wake") /\ ops[2] = Op("end") /\ ops[3] = Op("tell")
        /\ \A j \in 1..Len(S) : ops[3 + j] = S[j]
    <2>1. 1 \in 1..3 /\ 2 \in 1..3 /\ 3 \in 1..3
      OBVIOUS
    <2>2. T \in Seq(Operation) /\ S \in Seq(Operation)
      BY <1>3, <1>4
    <2>3. /\ ops \in Seq(Operation) /\ Len(ops) = Len(T) + Len(S)
          /\ \A j \in 1..Len(T) : ops[j] = T[j]
          /\ \A j \in 1..Len(S) : ops[Len(T) + j] = S[j]
      BY <2>2, Joined
    <2> QED BY <2>1, <2>3, <1>4, Zenon
  <1> HIDE DEF ops
  <1>6. Len(S) \in Nat /\ n \in Nat /\ n <= Len(S) /\ (n = 0 \/ n = 2 * Len(GlobalVars)) /\ Len(GlobalVars) \in Nat
    BY <1>3, FieldNames DEF Pairs
  <1> HIDE DEF n
  <1>7. \A j \in 1..Len(ops) :
           \/ j \in 1..3
           \/ j - 3 \in 1..n /\ j - 3 \in 1..Len(S)
           \/ j - 3 \in (n + 1)..Len(S) /\ j - 3 \in 1..Len(S)
    BY <1>5, <1>6
  <1>8. \A j \in 1..Len(ops) : j - 3 \in 1..Len(S) => ops[j] = S[j - 3]
    <2> SUFFICES ASSUME NEW j \in 1..Len(ops), j - 3 \in 1..Len(S) PROVE ops[j] = S[j - 3]
      OBVIOUS
    <2>1. 3 + (j - 3) = j
      OBVIOUS
    <2> QED BY <2>1, <1>5
  <1>9. \A j \in 1..n : j \in 1..(2 * Len(GlobalVars))
    BY <1>6
  <1>10. \A j \in 1..Len(ops) : j \in 1..3 => ops[j] \in {Op("wake"), Op("end"), Op("tell")}
    <2>1. \A j \in 1..3 : j = 1 \/ j = 2 \/ j = 3
      OBVIOUS
    <2> QED BY <2>1, <1>5, Zenon
  <1>11. ASSUME NEW j \in 1..Len(ops), j - 3 \in 1..n
         PROVE  /\ ops[j] = Pair(j - 3) /\ ops[j].op \in {"flag", "gather"}
                /\ ops[j].of \in Range(GlobalVars)
                /\ ops[j].op = "flag" =>
                     j + 1 \in 1..Len(ops) /\ ops[j + 1] = OpOf("gather", ops[j].of)
                /\ ops[j].op = "gather" =>
                     j - 1 \in 1..Len(ops) /\ ops[j - 1] = OpOf("flag", ops[j].of)
    <2>1. j - 3 \in 1..(2 * Len(GlobalVars)) /\ n = 2 * Len(GlobalVars) /\ j - 3 \in 1..Len(S)
      BY <1>6, <1>11
    <2>2. ops[j] = Pair(j - 3)
      BY <2>1, <1>3, <1>8, <1>11, Zenon
    <2>3. /\ Pair(j - 3).op \in {"flag", "gather"} /\ Pair(j - 3).of \in Range(GlobalVars)
          /\ Pair(j - 3).op = "flag" =>
                (j - 3) + 1 \in 1..(2 * Len(GlobalVars)) /\ Pair((j - 3) + 1) = OpOf("gather", Pair(j - 3).of)
          /\ Pair(j - 3).op = "gather" =>
                (j - 3) - 1 \in 1..(2 * Len(GlobalVars)) /\ Pair((j - 3) - 1) = OpOf("flag", Pair(j - 3).of)
      BY <2>1, PairIs, Zenon
    <2>4. ASSUME NEW k \in 1..(2 * Len(GlobalVars))
          PROVE  k + 3 \in 1..Len(ops) /\ ops[k + 3] = Pair(k)
      <3>1. k \in 1..n /\ k \in 1..Len(S) /\ k + 3 \in 1..Len(ops) /\ k + 3 = 3 + k
        BY <2>1, <1>5, <1>6
      <3> QED BY <3>1, <1>3, <1>5
    <2>5. ((j - 3) + 1) + 3 = j + 1 /\ ((j - 3) - 1) + 3 = j - 1
      OBVIOUS
    <2> QED BY <2>2, <2>3, <2>4, <2>5
  <1>12. ASSUME NEW j \in 1..Len(ops), j - 3 \in (n + 1)..Len(S), j - 3 \in 1..Len(S)
         PROVE  /\ ops[j].op \notin {"wake", "end", "tell", "flag"}
                /\ ops[j].op = "gather" => ops[j] = OpOf("gather", "mean") /\ j = n + 4
    <2>1. ops[j] = S[j - 3] /\ ops[j] \in Others
      BY <1>3, <1>8, <1>12, Zenon
    <2>2. j # n + 4 => j - 3 \in (n + 2)..Len(S)
      BY <1>12, <1>6
    <2> QED BY <2>1, <2>2, <1>3, OthersAre, Zenon
  <1>13. ASSUME NEW j \in 1..Len(ops), ops[j].op = "flag"
         PROVE  j + 1 \in 1..Len(ops) /\ ops[j + 1] = OpOf("gather", ops[j].of)
    <2>1. j \notin 1..3
      BY <1>10, <1>13 DEF Op
    <2> QED BY <2>1, <1>7, <1>11, <1>12, <1>13, Zenon
  <1>14. ASSUME NEW j \in 1..Len(ops), Dropped(ops, j)
         PROVE  j - 1 \in 1..Len(ops) /\ ops[j - 1] = OpOf("flag", ops[j].of)
    <2>1. ops[j].op = "gather"
      BY <1>14 DEF Dropped
    <2>2. PICK i \in 1..(j - 1) : ops[i] = ops[j]
      BY <1>14 DEF Dropped
    <2>3. i \in 1..Len(ops) /\ i # j /\ i < j
      BY <1>5, <1>6
    <2>4. i \notin 1..3 /\ j \notin 1..3
      BY <1>10, <2>1, <2>2, <2>3 DEF Op
    <2>5. CASE j - 3 \in 1..n
      BY <2>1, <2>5, <1>11
    <2>6. CASE j - 3 \in (n + 1)..Len(S) /\ j - 3 \in 1..Len(S)
      <3>1. ops[j] = OpOf("gather", "mean") /\ j = n + 4
        BY <2>1, <2>6, <1>12
      <3>2. ~ (i - 3 \in (n + 1)..Len(S) /\ i - 3 \in 1..Len(S))
        BY <2>1, <2>2, <2>3, <3>1, <1>12
      <3>3. i - 3 \in 1..n
        BY <3>2, <2>3, <2>4, <1>7
      <3>4. ops[i].of \in Range(GlobalVars)
        BY <3>3, <2>3, <1>11
      <3>5. ops[j].of = "mean"
        BY <3>1 DEF OpOf
      <3> QED BY <3>4, <3>5, <2>2, FieldNames
    <2> QED BY <2>4, <2>5, <2>6, <1>7, Zenon
  <1>15. ASSUME NEW j \in 1..Len(ops), j >= 3
         PROVE  ops[j].op \notin {"wake", "end"} /\ (j >= 4 => ops[j].op # "tell")
    <2>1. CASE j \in 1..3
      <3>1. j = 3
        BY <1>15, <2>1
      <3> QED BY <3>1, <1>5 DEF Op
    <2>2. CASE j - 3 \in 1..n
      BY <2>2, <1>11
    <2>3. CASE j - 3 \in (n + 1)..Len(S) /\ j - 3 \in 1..Len(S)
      BY <2>3, <1>12
    <2> QED BY <2>1, <2>2, <2>3, <1>7, Zenon
  <1>16. Regular(ops)
    <2>1. Len(ops) >= 2
      BY <1>5, <1>6
    <2> QED BY <2>1, <1>5, <1>13, <1>14, <1>15, Zenon DEF Regular
  <1>17. ASSUME NEW o, \E j \in 1..Len(S) : S[j] = o
         PROVE  \E j \in 1..Len(ops) : ops[j] = o
    <2>1. PICK j \in 1..Len(S) : S[j] = o
      BY <1>17
    <2>2. 3 + j \in 1..Len(ops) /\ ops[3 + j] = o
      BY <2>1, <1>5, <1>6
    <2> QED BY <2>2
  <1>18. ASSUME "g" \in c.due, NEW v \in Range(GlobalVars)
         PROVE  \E j \in 1..Len(ops) : ops[j] = OpOf("gather", v)
    <2>1. PICK k \in 1..Len(GlobalVars) : GlobalVars[k] = v
      BY FieldNames
    <2>2. n = 2 * Len(GlobalVars)
      BY <1>18 DEF n, Pairs
    <2>3. 2 * k \in 1..n /\ (2 * k) % 2 # 1 /\ ((2 * k) + 1) \div 2 = k /\ 2 * k \in 1..Len(S)
      BY <2>2, <1>6
    <2>4. S[2 * k] = OpOf("gather", v)
      BY <2>1, <2>3, <1>3, Zenon DEF Pair
    <2> QED BY <2>3, <2>4, <1>17, Zenon
  <1>19. Complete(ops, c)
    <2>1. Len(ops) >= 3
      BY <1>5, <1>6
    <2>2. c.itm > 1 => ~first
      BY <1>1
    <2>3. \A j \in 1..Len(ops) : j >= 4 => j >= 3 /\ ops[j].op # "tell"
      BY <1>5, <1>6, <1>15
    <2>4. /\ "m" \in due /\ ~first /\ HasMean =>
               \E j \in 1..Len(ops) : ops[j] = OpOf("gather", "mean")
          /\ HasDrifter => \E j \in 1..Len(ops) : ops[j] = OpOf("drift", "drift")
          /\ "p" \in due /\ HasPoint =>
               /\ \E j \in 1..Len(ops) : ops[j] = OpOf("relay", "run")
               /\ \E j \in 1..Len(ops) : ops[j] = OpOf("value", "point")
      BY <1>3, <1>17, Zenon
    <2>5. ops[3] = Op("tell")
      BY <1>5
    <2> QED BY <2>1, <2>2, <2>3, <2>4, <2>5, <1>18, Zenon DEF Complete
  <1> QED BY <1>2, <1>16, <1>19

LEMMA Parties ==
    ASSUME NEW o \in Operation
    PROVE  /\ Senders(o) \subseteq Proc /\ Receivers(o) \subseteq Proc
           /\ Senders(o) \cap Receivers(o) = {}
           /\ o.op \in {"wake", "end", "tell"} => Senders(o) = {imaster}
           /\ o.op \in {"wake", "tell"} => Receivers(o) = {omaster}
           /\ o.op = "end" => Receivers(o) = Proc \ {imaster}
           /\ o.op \in {"flag", "place"} => Senders(o) = {omaster} /\ Receivers(o) = Compute
           /\ o.op = "gather" => Senders(o) = Compute /\ Receivers(o) = {omaster}
           /\ o.op \in {"drift", "relay"} => Senders(o) = {imaster} /\ Receivers(o) = {omaster}
           /\ o.op = "value" => Senders(o) = {Owner} /\ Receivers(o) = {omaster}
           /\ o.op = "reduce" => Senders(o) = Compute \ {imaster} /\ Receivers(o) = {imaster}
           /\ omaster \in Senders(o) => o.op \in {"flag", "place"}
           /\ \A p \in Compute : p \in Receivers(o) => o.op \in {"end", "flag", "place", "reduce"}
  <1>1. o.op \in {"wake", "end", "tell", "flag", "gather", "drift", "reduce", "relay", "place", "value"}
    BY DEF Operation
  <1>2. CASE o.op \in {"wake", "tell", "drift", "relay"}
    <2>1. Senders(o) = {imaster} /\ Receivers(o) = {omaster}
      BY <1>2 DEF Senders, Receivers
    <2> QED BY <2>1, <1>2, Processes
  <1>3. CASE o.op = "end"
    <2>1. Senders(o) = {imaster} /\ Receivers(o) = Proc \ {imaster}
      BY <1>3 DEF Senders, Receivers
    <2> QED BY <2>1, <1>3, Processes
  <1>4. CASE o.op \in {"flag", "place"}
    <2>1. Senders(o) = {omaster} /\ Receivers(o) = Compute
      BY <1>4 DEF Senders, Receivers
    <2> QED BY <2>1, <1>4, Processes
  <1>5. CASE o.op = "gather"
    <2>1. Senders(o) = Compute /\ Receivers(o) = {omaster}
      BY <1>5 DEF Senders, Receivers
    <2> QED BY <2>1, <1>5, Processes
  <1>6. CASE o.op = "value"
    <2>1. Senders(o) = {Owner} /\ Receivers(o) = {omaster}
      BY <1>6 DEF Senders, Receivers
    <2> QED BY <2>1, <1>6, Processes
  <1>7. CASE o.op = "reduce"
    <2>1. Senders(o) = Compute \ {imaster} /\ Receivers(o) = {imaster}
      BY <1>7 DEF Senders, Receivers
    <2> QED BY <2>1, <1>7, Processes
  <1> QED BY <1>1, <1>2, <1>3, <1>4, <1>5, <1>6, <1>7

LEMMA AllTakePart ==
    ASSUME NEW p \in Proc, NEW o \in Operation, o.op \in {"end", "flag", "gather", "place"}
    PROVE  TakesPart(p, o)
  BY Parties, Processes DEF TakesPart

\* n is the turn of p after i, 0 if there is none.
NextTurn(p, ops, i, n) ==
    IF n = 0 THEN \A j \in Turns(p, ops) : ~ (j > i)
    ELSE n \in Turns(p, ops) /\ n > i /\ \A j \in Turns(p, ops) : j > i => j >= n

LEMMA AfterIsTurn ==
    ASSUME NEW p \in Proc, NEW ops, Regular(ops), NEW i \in 0..Len(ops),
           i + 1 \in 1..Len(ops) => ~ Dropped(ops, i + 1)
    PROVE  NextTurn(p, ops, i, After(p, ops, i))
  <1> DEFINE T == {k \in (i + 1)..Len(ops) : TakesPart(p, ops[k])}
             Least(k) == TakesPart(p, ops[k]) /\ \A h \in (i + 1)..(k - 1) : ~TakesPart(p, ops[h])
  <1>1. Len(ops) \in Nat /\ i \in Nat
    BY DEF Regular
  <1>2. \A j \in Turns(p, ops) : j > i => j \in T
    BY <1>1 DEF Turns
  <1>3. CASE T = {}
    <2>1. After(p, ops, i) = 0
      BY <1>3, Zenon DEF After
    <2> QED BY <2>1, <1>2, <1>3, Zenon DEF NextTurn
  <1>4. CASE T # {}
    <2>1. T \subseteq Nat
      BY <1>1
    <2>2. PICK k \in T : \A y \in T : k <= y
      BY <1>4, <2>1, LeastElement
    <2>3. Least(k) /\ k \in (i + 1)..Len(ops)
      <3>1. \A h \in (i + 1)..(k - 1) : h \in (i + 1)..Len(ops) /\ ~ (k <= h)
        BY <2>2, <1>1
      <3> QED BY <3>1, <2>2, Zenon
    <2>4. After(p, ops, i) = CHOOSE n \in (i + 1)..Len(ops) : Least(n)
      BY <1>4, Zenon DEF After
    <2> DEFINE n == After(p, ops, i)
    <2>5. n \in (i + 1)..Len(ops) /\ TakesPart(p, ops[n])
          /\ \A h \in (i + 1)..(n - 1) : ~TakesPart(p, ops[h])
      BY <2>3, <2>4, Zenon
    <2> HIDE DEF n, Least
    <2>6. n # 0 /\ n > i /\ n \in 1..Len(ops)
      BY <2>5, <1>1
    <2>7. ~ Dropped(ops, n)
      <3> SUFFICES ASSUME Dropped(ops, n) PROVE FALSE
        OBVIOUS
      <3>1. n - 1 \in 1..Len(ops) /\ ops[n - 1] = OpOf("flag", ops[n].of)
        BY <2>6 DEF Regular
      <3>2. n # i + 1 /\ n - 1 \in (i + 1)..(n - 1)
        <4>1. n # i + 1
          BY <2>6
        <4> QED BY <4>1, <2>5, <1>1
      <3>3. ops[n - 1] \in Operation /\ ops[n - 1].op = "flag"
        <4>1. ops[n - 1] \in Operation
          BY <3>1 DEF Regular
        <4> QED BY <4>1, <3>1 DEF OpOf
      <3>4. TakesPart(p, ops[n - 1])
        BY <3>3, AllTakePart
      <3> QED BY <3>2, <3>4, <2>5
    <2>8. n \in Turns(p, ops)
      BY <2>5, <2>6, <2>7 DEF Turns
    <2>9. ASSUME NEW j \in Turns(p, ops), j > i PROVE j >= n
      <3>1. j \in (i + 1)..Len(ops) /\ TakesPart(p, ops[j])
        BY <2>9, <1>2
      <3>2. j \notin (i + 1)..(n - 1)
        BY <3>1, <2>5
      <3> QED BY <3>1, <3>2, <2>6, <1>1
    <2> QED BY <2>6, <2>8, <2>9, Zenon DEF NextTurn, n
  <1> QED BY <1>3, <1>4

\* From one turn to the next, past a gather that is left out.
LEMMA TurnFollows ==
    ASSUME NEW p \in Proc, NEW ops, Regular(ops), NEW i \in Turns(p, ops), NEW known \in BOOLEAN,
           ops[i].op = "flag" => (known <=> Dropped(ops, i + 1))
    PROVE  NextTurn(p, ops, i, After(p, ops, Past(i, ops[i], known)))
  <1>1. i \in 1..Len(ops) /\ Len(ops) \in Nat
    BY DEF Turns, Regular
  <1>2. CASE ops[i].op # "flag"
    <2>1. Past(i, ops[i], known) = i
      BY <1>2 DEF Past
    <2>2. i + 1 \in 1..Len(ops) => ~ Dropped(ops, i + 1)
      <3> SUFFICES ASSUME i + 1 \in 1..Len(ops), Dropped(ops, i + 1) PROVE FALSE
        OBVIOUS
      <3>1. ops[(i + 1) - 1] = OpOf("flag", ops[i + 1].of) /\ (i + 1) - 1 = i
        BY <1>1 DEF Regular
      <3> QED BY <3>1, <1>2 DEF OpOf
    <2>3. i \in 0..Len(ops)
      BY <1>1
    <2> QED BY <2>1, <2>2, <2>3, AfterIsTurn, Zenon
  <1>3. CASE ops[i].op = "flag" /\ ~known
    <2>1. Past(i, ops[i], known) = i
      BY <1>3 DEF Past
    <2>2. ~ Dropped(ops, i + 1)
      BY <1>3
    <2>3. i \in 0..Len(ops)
      BY <1>1
    <2> QED BY <2>1, <2>2, <2>3, AfterIsTurn, Zenon
  <1>4. CASE ops[i].op = "flag" /\ known
    <2>1. Past(i, ops[i], known) = i + 1
      BY <1>4 DEF Past
    <2>2. i + 1 \in 1..Len(ops) /\ ops[i + 1].op = "gather"
      <3>1. i + 1 \in 1..Len(ops) /\ ops[i + 1] = OpOf("gather", ops[i].of)
        BY <1>1, <1>4, Zenon DEF Regular
      <3> QED BY <3>1 DEF OpOf
    <2>3. (i + 1) + 1 \in 1..Len(ops) => ~ Dropped(ops, (i + 1) + 1)
      <3> SUFFICES ASSUME (i + 1) + 1 \in 1..Len(ops), Dropped(ops, (i + 1) + 1) PROVE FALSE
        OBVIOUS
      <3>1. ops[((i + 1) + 1) - 1] = OpOf("flag", ops[(i + 1) + 1].of) /\ ((i + 1) + 1) - 1 = i + 1
        BY <1>1 DEF Regular
      <3> QED BY <3>1, <2>2 DEF OpOf
    <2>4. i + 1 \in 0..Len(ops)
      BY <2>2
    <2>5. NextTurn(p, ops, i + 1, After(p, ops, i + 1))
      BY <2>3, <2>4, AfterIsTurn, Zenon
    <2>6. i + 1 \notin Turns(p, ops)
      BY <1>4, Zenon DEF Turns
    <2>7. \A j \in Turns(p, ops) : j \in Int
      BY <1>1 DEF Turns
    <2> DEFINE n == After(p, ops, i + 1)
    <2>8. NextTurn(p, ops, i, n)
      <3> HIDE DEF n
      <3>1. NextTurn(p, ops, i + 1, n)
        BY <2>5 DEF n
      <3>2. \A j \in Turns(p, ops) : j > i => j > i + 1
        BY <2>6, <2>7, <1>1
      <3>3. CASE n = 0
        BY <3>1, <3>2, <3>3 DEF NextTurn
      <3>4. CASE n # 0
        <4>1. n \in Turns(p, ops) /\ n > i + 1
          BY <3>1, <3>4 DEF NextTurn
        <4>2. n > i
          BY <4>1, <2>7, <1>1
        <4> QED BY <4>1, <4>2, <3>1, <3>2, <3>4, Zenon DEF NextTurn
      <3> QED BY <3>3, <3>4
    <2> QED BY <2>1, <2>8, Zenon
  <1> QED BY <1>2, <1>3, <1>4

\* Every process hears in every round whether it is the last.
LEMMA FirstTurn ==
    ASSUME NEW p \in Proc, NEW ops, Regular(ops)
    PROVE  /\ NextTurn(p, ops, 0, After(p, ops, 0))
           /\ After(p, ops, 0) \in {1, 2}
  <1>1. Len(ops) \in Nat /\ Len(ops) >= 2 /\ ops[1] = Op("wake") /\ ops[2] = Op("end")
    BY DEF Regular
  <1>2. ~ Dropped(ops, 1) /\ ~ Dropped(ops, 2) /\ ops[2].op = "end"
    BY <1>1 DEF Dropped, Op
  <1>3. NextTurn(p, ops, 0, After(p, ops, 0))
    <2>1. 0 \in 0..Len(ops) /\ 0 + 1 = 1
      BY <1>1
    <2> QED BY <2>1, <1>2, AfterIsTurn
  <1>4. 2 \in Turns(p, ops)
    <2>1. 2 \in 1..Len(ops)
      BY <1>1
    <2>2. ops[2] \in Operation
      BY <2>1 DEF Regular
    <2> QED BY <2>1, <2>2, <1>2, AllTakePart DEF Turns
  <1> DEFINE n == After(p, ops, 0)
  <1>5. NextTurn(p, ops, 0, n)
    BY <1>3
  <1> HIDE DEF n
  <1>6. n \in {1, 2}
    <2>1. n # 0
      BY <1>4, <1>5 DEF NextTurn
    <2>2. n \in Turns(p, ops) /\ n > 0 /\ 2 >= n
      BY <1>4, <1>5, <2>1 DEF NextTurn
    <2>3. n \in Nat
      BY <2>2, <1>1 DEF Turns
    <2> QED BY <2>2, <2>3
  <1> QED BY <1>3, <1>6 DEF n
-----------------------------------------------------------------------------
(* What a channel holds *)

Label   == [round : Nat, at : Nat, op : Operation]
Content == Nat \cup BOOLEAN \cup Clock
Message == [part : Label, val : Content]

LEMMA Labels ==
    ASSUME NEW c \in Seq(Message)
    PROVE  /\ Len(c) \in Nat
           /\ \A k \in 1..Len(c) :
                /\ c[k].part \in Label /\ c[k].part.round \in Nat /\ c[k].part.at \in Nat
                /\ c[k].val \in Content
  <1>1. \A l \in Label : l.round \in Nat /\ l.at \in Nat
    BY DEF Label
  <1>2. \A m \in Message : m.part \in Label /\ m.val \in Content
    BY DEF Message
  <1>3. Len(c) \in Nat /\ \A k \in 1..Len(c) : c[k] \in Message
    OBVIOUS
  <1> QED BY <1>1, <1>2, <1>3, Zenon

\* c has the message of operation v of round u.
Holds(c, u, v) == \E k \in 1..Len(c) : c[k].part.round = u /\ c[k].part.at = v

\* What is under way from a sender at operation i of round r to a receiver at
\* operation j of round s: what the one has passed and the other has not, in
\* order; and the receiver has passed nothing that was not sent.
Fits(R, q, p, c, r, i, s, j) ==
    /\ \A k \in 1..Len(c) :
         LET m == c[k].part IN
         /\ Carries(R, q, p, m.round, m.at)
         /\ m.op = PlanOf(R, m.round)[m.at]
         /\ c[k].val = Value(R, m.round, m.at)
         /\ ~Before(m.round, m.at, s, j) /\ Before(m.round, m.at, r, i)
    /\ \A k, l \in 1..Len(c) : k < l =>
         Before(c[k].part.round, c[k].part.at, c[l].part.round, c[l].part.at)
    /\ \A u, v \in Nat : Carries(R, q, p, u, v) /\ Before(u, v, r, i) /\ ~Before(u, v, s, j) =>
         Holds(c, u, v)
    /\ \A u, v \in Nat : Carries(R, q, p, u, v) /\ Before(u, v, s, j) => Before(u, v, r, i)

\* Of what p takes part in, going from (r, i) to (s, j) passes (r, i) only.
Moves(R, p, r, i, s, j) ==
    \A u, v \in Nat : v \in Turns(p, PlanOf(R, u)) =>
        (Before(u, v, s, j) <=> Before(u, v, r, i) \/ (u = r /\ v = i))

LEMMA FitsParts ==
    ASSUME NEW R, NEW q, NEW p, NEW c, NEW r, NEW i, NEW s, NEW j, Fits(R, q, p, c, r, i, s, j)
    PROVE  /\ \A k \in 1..Len(c) :
                /\ Carries(R, q, p, c[k].part.round, c[k].part.at)
                /\ c[k].part.op = PlanOf(R, c[k].part.round)[c[k].part.at]
                /\ c[k].val = Value(R, c[k].part.round, c[k].part.at)
                /\ ~Before(c[k].part.round, c[k].part.at, s, j)
                /\ Before(c[k].part.round, c[k].part.at, r, i)
           /\ \A k, l \in 1..Len(c) : k < l =>
                Before(c[k].part.round, c[k].part.at, c[l].part.round, c[l].part.at)
           /\ \A u, v \in Nat : Carries(R, q, p, u, v) /\ Before(u, v, r, i) /\ ~Before(u, v, s, j) =>
                Holds(c, u, v)
           /\ \A u, v \in Nat : Carries(R, q, p, u, v) /\ Before(u, v, s, j) => Before(u, v, r, i)
  BY Zenon DEF Fits

LEMMA CarriesTurn ==
    ASSUME NEW R, NEW q, NEW p, NEW r, NEW j, Carries(R, q, p, r, j)
    PROVE  j \in Turns(q, PlanOf(R, r)) /\ j \in Turns(p, PlanOf(R, r))
  BY Zenon DEF Carries, Turns, TakesPart

LEMMA TurnMoves ==
    ASSUME NEW R, NEW p, NEW r \in Nat, NEW i \in Nat, NEW n, NextTurn(p, PlanOf(R, r), i, n),
           \A u \in Nat : Turns(p, PlanOf(R, u)) \subseteq Nat \ {0}
    PROVE  Moves(R, p, r, i, IF n = 0 THEN r + 1 ELSE r, n)
  <1> DEFINE s == IF n = 0 THEN r + 1 ELSE r
  <1> SUFFICES ASSUME NEW u \in Nat, NEW v \in Nat, v \in Turns(p, PlanOf(R, u))
               PROVE  Before(u, v, s, n) <=> Before(u, v, r, i) \/ (u = r /\ v = i)
    BY DEF Moves
  <1>1. v > 0
    OBVIOUS
  <1>2. CASE n = 0
    <2>1. Before(u, v, s, n) <=> u <= r
      BY <1>1, <1>2 DEF Before
    <2>2. u = r => ~ (v > i)
      BY <1>2 DEF NextTurn
    <2> QED BY <2>1, <2>2 DEF Before
  <1>3. CASE n # 0
    <2>1. n \in Nat /\ n > i /\ (u = r /\ v > i => v >= n)
      BY <1>3 DEF NextTurn
    <2>2. s = r
      BY <1>3
    <2> QED BY <2>1, <2>2 DEF Before
  <1> QED BY <1>2, <1>3

LEMMA SenderMoves ==
    ASSUME NEW R, NEW q, NEW p, NEW c, NEW r, NEW i, NEW s, NEW j, NEW r2, NEW i2,
           Fits(R, q, p, c, r, i, s, j), c \in Seq(Message), Moves(R, q, r, i, r2, i2), 
           ~Carries(R, q, p, r, i)
    PROVE  Fits(R, q, p, c, r2, i2, s, j)
  <1>1. \A u, v \in Nat : Carries(R, q, p, u, v) => (Before(u, v, r2, i2) <=> Before(u, v, r, i))
    BY CarriesTurn, Zenon DEF Moves
  <1>2. \A k \in 1..Len(c) : c[k].part.round \in Nat /\ c[k].part.at \in Nat
    BY Labels
  <1>3. /\ \A k \in 1..Len(c) :
              /\ Carries(R, q, p, c[k].part.round, c[k].part.at)
              /\ c[k].part.op = PlanOf(R, c[k].part.round)[c[k].part.at]
              /\ c[k].val = Value(R, c[k].part.round, c[k].part.at)
              /\ ~Before(c[k].part.round, c[k].part.at, s, j)
              /\ Before(c[k].part.round, c[k].part.at, r, i)
        /\ \A k, l \in 1..Len(c) : k < l =>
              Before(c[k].part.round, c[k].part.at, c[l].part.round, c[l].part.at)
        /\ \A u, v \in Nat : Carries(R, q, p, u, v) /\ Before(u, v, r, i) /\ ~Before(u, v, s, j) =>
              Holds(c, u, v)
        /\ \A u, v \in Nat : Carries(R, q, p, u, v) /\ Before(u, v, s, j) => Before(u, v, r, i)
    BY FitsParts
  <1>4. \A k \in 1..Len(c) :
              /\ ~Before(c[k].part.round, c[k].part.at, s, j)
              /\ Before(c[k].part.round, c[k].part.at, r2, i2)
    BY <1>1, <1>2, <1>3, Zenon
  <1>5. \A u, v \in Nat : Carries(R, q, p, u, v) /\ Before(u, v, r2, i2) /\ ~Before(u, v, s, j) =>
              Holds(c, u, v)
    BY <1>1, <1>3, Zenon
  <1>6. \A u, v \in Nat : Carries(R, q, p, u, v) /\ Before(u, v, s, j) => Before(u, v, r2, i2)
    BY <1>1, <1>3, Zenon
  <1> QED BY <1>3, <1>4, <1>5, <1>6, Zenon DEF Fits

LEMMA ReceiverMoves ==
    ASSUME NEW R, NEW q, NEW p, NEW c, NEW r, NEW i, NEW s, NEW j, NEW s2, NEW j2,
           Fits(R, q, p, c, r, i, s, j), c \in Seq(Message), Moves(R, p, s, j, s2, j2),
           ~Carries(R, q, p, s, j)
    PROVE  Fits(R, q, p, c, r, i, s2, j2)
  <1>1. \A u, v \in Nat : Carries(R, q, p, u, v) => (Before(u, v, s2, j2) <=> Before(u, v, s, j))
    BY CarriesTurn, Zenon DEF Moves
  <1>2. \A k \in 1..Len(c) : c[k].part.round \in Nat /\ c[k].part.at \in Nat
    BY Labels
  <1>3. /\ \A k \in 1..Len(c) :
              /\ Carries(R, q, p, c[k].part.round, c[k].part.at)
              /\ c[k].part.op = PlanOf(R, c[k].part.round)[c[k].part.at]
              /\ c[k].val = Value(R, c[k].part.round, c[k].part.at)
              /\ ~Before(c[k].part.round, c[k].part.at, s, j)
              /\ Before(c[k].part.round, c[k].part.at, r, i)
        /\ \A k, l \in 1..Len(c) : k < l =>
              Before(c[k].part.round, c[k].part.at, c[l].part.round, c[l].part.at)
        /\ \A u, v \in Nat : Carries(R, q, p, u, v) /\ Before(u, v, r, i) /\ ~Before(u, v, s, j) =>
              Holds(c, u, v)
        /\ \A u, v \in Nat : Carries(R, q, p, u, v) /\ Before(u, v, s, j) => Before(u, v, r, i)
    BY FitsParts
  <1>4. \A k \in 1..Len(c) :
              /\ ~Before(c[k].part.round, c[k].part.at, s2, j2)
              /\ Before(c[k].part.round, c[k].part.at, r, i)
    BY <1>1, <1>2, <1>3, Zenon
  <1>5. \A u, v \in Nat : Carries(R, q, p, u, v) /\ Before(u, v, r, i) /\ ~Before(u, v, s2, j2) =>
              Holds(c, u, v)
    BY <1>1, <1>3, Zenon
  <1>6. \A u, v \in Nat : Carries(R, q, p, u, v) /\ Before(u, v, s2, j2) => Before(u, v, r, i)
    BY <1>1, <1>3, Zenon
  <1> QED BY <1>3, <1>4, <1>5, <1>6, Zenon DEF Fits

LEMMA SendFits ==
    ASSUME NEW R, NEW q, NEW p, NEW c \in Seq(Message), NEW r \in Nat, NEW i \in Nat,
           NEW s \in Nat, NEW j \in Nat, NEW r2, NEW i2, NEW m \in Message,
           Fits(R, q, p, c, r, i, s, j), Moves(R, q, r, i, r2, i2), Carries(R, q, p, r, i),
           m.part = [round |-> r, at |-> i, op |-> PlanOf(R, r)[i]], m.val = Value(R, r, i)
    PROVE  Fits(R, q, p, Append(c, m), r2, i2, s, j)
  <1>0. /\ \A k \in 1..Len(c) :
              /\ Carries(R, q, p, c[k].part.round, c[k].part.at)
              /\ c[k].part.op = PlanOf(R, c[k].part.round)[c[k].part.at]
              /\ c[k].val = Value(R, c[k].part.round, c[k].part.at)
              /\ ~Before(c[k].part.round, c[k].part.at, s, j)
              /\ Before(c[k].part.round, c[k].part.at, r, i)
        /\ \A k, l \in 1..Len(c) : k < l =>
              Before(c[k].part.round, c[k].part.at, c[l].part.round, c[l].part.at)
        /\ \A u, v \in Nat : Carries(R, q, p, u, v) /\ Before(u, v, r, i) /\ ~Before(u, v, s, j) =>
              Holds(c, u, v)
        /\ \A u, v \in Nat : Carries(R, q, p, u, v) /\ Before(u, v, s, j) => Before(u, v, r, i)
    BY Zenon DEF Fits
  <1> DEFINE d == Append(c, m)
             n == Len(c)
  <1>1. \A u, v \in Nat : Carries(R, q, p, u, v) =>
            (Before(u, v, r2, i2) <=> Before(u, v, r, i) \/ (u = r /\ v = i))
    BY CarriesTurn, Zenon DEF Moves
  <1>2. /\ n \in Nat /\ Len(d) = n + 1 /\ d[n + 1] = m
        /\ \A k \in 1..n : d[k] = c[k]
        /\ \A k \in 1..n : c[k].part.round \in Nat /\ c[k].part.at \in Nat
        /\ \A k \in 1..(n + 1) : k \in 1..n \/ k = n + 1
        /\ n + 1 \in 1..(n + 1) /\ \A k \in 1..n : k \in 1..(n + 1)
    <2>1. n \in Nat /\ Len(d) = n + 1 /\ d[n + 1] = m /\ \A k \in 1..n : d[k] = c[k]
      OBVIOUS
    <2>2. \A k \in 1..n : c[k].part.round \in Nat /\ c[k].part.at \in Nat
      BY Labels DEF n
    <2> HIDE DEF d, n
    <2>3. /\ \A k \in 1..(n + 1) : k \in 1..n \/ k = n + 1
          /\ n + 1 \in 1..(n + 1) /\ \A k \in 1..n : k \in 1..(n + 1)
      BY <2>1
    <2> QED BY <2>1, <2>2, <2>3
  <1> HIDE DEF d, n
  <1>3. m.part.round = r /\ m.part.at = i /\ m.part.op = PlanOf(R, r)[i]
    OBVIOUS
  <1>4. ~Before(r, i, s, j) /\ ~Before(r, i, r, i)
    <2>1. ~Before(r, i, r, i)
      BY DEF Before
    <2> QED BY <2>1, <1>0, Zenon
  <1>5. ASSUME NEW k \in 1..Len(d)
        PROVE  /\ Carries(R, q, p, d[k].part.round, d[k].part.at)
               /\ d[k].part.op = PlanOf(R, d[k].part.round)[d[k].part.at]
               /\ d[k].val = Value(R, d[k].part.round, d[k].part.at)
               /\ ~Before(d[k].part.round, d[k].part.at, s, j)
               /\ Before(d[k].part.round, d[k].part.at, r2, i2)
    <2>1. CASE k = n + 1
      BY <2>1, <1>1, <1>2, <1>3, <1>4, Zenon
    <2>2. CASE k \in 1..n
      <3>1. d[k] = c[k] /\ k \in 1..Len(c)
        BY <2>2, <1>2 DEF n
      <3>2. /\ Carries(R, q, p, c[k].part.round, c[k].part.at)
            /\ c[k].part.op = PlanOf(R, c[k].part.round)[c[k].part.at]
            /\ c[k].val = Value(R, c[k].part.round, c[k].part.at)
            /\ ~Before(c[k].part.round, c[k].part.at, s, j)
            /\ Before(c[k].part.round, c[k].part.at, r, i)
        BY <3>1, <1>0, Zenon
      <3> QED BY <3>1, <3>2, <2>2, <1>1, <1>2, Zenon
    <2> QED BY <2>1, <2>2, <1>2, Zenon
  <1>6. ASSUME NEW k \in 1..Len(d), NEW l \in 1..Len(d), k < l
        PROVE  Before(d[k].part.round, d[k].part.at, d[l].part.round, d[l].part.at)
    <2>1. k \in 1..n
      BY <1>2, <1>6
    <2>2. CASE l = n + 1
      <3>1. Before(c[k].part.round, c[k].part.at, r, i)
        BY <2>1, <1>0, Zenon DEF n
      <3> QED BY <2>1, <2>2, <3>1, <1>2, <1>3, Zenon
    <2>3. CASE l \in 1..n
      <3>1. Before(c[k].part.round, c[k].part.at, c[l].part.round, c[l].part.at)
        BY <2>1, <2>3, <1>6, <1>0, Zenon DEF n
      <3> QED BY <2>1, <2>3, <3>1, <1>2, Zenon
    <2> QED BY <2>2, <2>3, <1>2, Zenon
  <1>7. ASSUME NEW u \in Nat, NEW v \in Nat, Carries(R, q, p, u, v), Before(u, v, r2, i2), ~Before(u, v, s, j)
        PROVE  Holds(d, u, v)
    <2>1. CASE u = r /\ v = i
      BY <2>1, <1>2, <1>3, Zenon DEF Holds
    <2>2. CASE ~ (u = r /\ v = i)
      <3>1. Before(u, v, r, i)
        BY <2>2, <1>1, <1>7, Zenon
      <3>2. Holds(c, u, v)
        BY <3>1, <1>7, <1>0, Zenon
      <3> QED BY <3>2, <1>2, Zenon DEF n, Holds
    <2> QED BY <2>1, <2>2
  <1>8. ASSUME NEW u \in Nat, NEW v \in Nat, Carries(R, q, p, u, v), Before(u, v, s, j)
        PROVE  Before(u, v, r2, i2)
    BY <1>1, <1>8, <1>0, Zenon
  <1>9. Fits(R, q, p, d, r2, i2, s, j)
    BY <1>5, <1>6, <1>7, <1>8, Zenon DEF Fits
  <1> QED BY <1>9 DEF d

\* The head of a channel is what the receiver waits for.
LEMMA HeadFits ==
    ASSUME NEW R, NEW q, NEW p, NEW c \in Seq(Message), NEW r \in Nat, NEW i \in Nat,
           NEW s \in Nat, NEW j \in Nat,
           Fits(R, q, p, c, r, i, s, j), Carries(R, q, p, s, j), c # <<>>
    PROVE  /\ Head(c).part = [round |-> s, at |-> j, op |-> PlanOf(R, s)[j]]
           /\ Head(c).val = Value(R, s, j)
           /\ Before(s, j, r, i)
  <1>0. /\ \A k \in 1..Len(c) :
              /\ Carries(R, q, p, c[k].part.round, c[k].part.at)
              /\ c[k].part.op = PlanOf(R, c[k].part.round)[c[k].part.at]
              /\ c[k].val = Value(R, c[k].part.round, c[k].part.at)
              /\ ~Before(c[k].part.round, c[k].part.at, s, j)
              /\ Before(c[k].part.round, c[k].part.at, r, i)
        /\ \A k, l \in 1..Len(c) : k < l =>
              Before(c[k].part.round, c[k].part.at, c[l].part.round, c[l].part.at)
        /\ \A u, v \in Nat : Carries(R, q, p, u, v) /\ Before(u, v, r, i) /\ ~Before(u, v, s, j) =>
              Holds(c, u, v)
        /\ \A u, v \in Nat : Carries(R, q, p, u, v) /\ Before(u, v, s, j) => Before(u, v, r, i)
    BY Zenon DEF Fits
  <1>1. /\ Len(c) \in Nat /\ 1 \in 1..Len(c) /\ Head(c) = c[1]
        /\ \A k \in 1..Len(c) : c[k].part.round \in Nat /\ c[k].part.at \in Nat
        /\ c[1].part \in Label
        /\ \A k \in 1..Len(c) : k = 1 \/ 1 < k
    <2>1. Len(c) \in Nat /\ 1 \in 1..Len(c) /\ Head(c) = c[1] /\ \A k \in 1..Len(c) : k = 1 \/ 1 < k
      OBVIOUS
    <2> QED BY <2>1, Labels
  <1> DEFINE a == c[1].part.round
             b == c[1].part.at
  <1>2. /\ a \in Nat /\ b \in Nat /\ ~Before(a, b, s, j) /\ Before(a, b, r, i)
        /\ c[1].part.op = PlanOf(R, a)[b] /\ c[1].val = Value(R, a, b)
    BY <1>1, <1>0, Zenon
  <1> HIDE DEF a, b
  <1>3. Before(s, j, r, i) /\ ~Before(s, j, s, j)
    BY <1>2 DEF Before
  <1>4. PICK k \in 1..Len(c) : c[k].part.round = s /\ c[k].part.at = j
    <2>1. Holds(c, s, j)
      BY <1>3, <1>0, Zenon
    <2> QED BY <2>1, Zenon DEF Holds
  <1>5. k # 1 => Before(a, b, s, j)
    BY <1>1, <1>4, <1>0, Zenon DEF a, b
  <1>6. a = s /\ b = j
    BY <1>2, <1>4, <1>5, Zenon DEF a, b
  <1>7. c[1].part = [round |-> s, at |-> j, op |-> PlanOf(R, s)[j]]
    <2>1. c[1].part.round = s /\ c[1].part.at = j /\ c[1].part.op = PlanOf(R, s)[j]
      BY <1>2, <1>6, Zenon DEF a, b
    <2> DEFINE o == PlanOf(R, s)[j]
    <2>2. \A l \in Label : l = [round |-> l.round, at |-> l.at, op |-> l.op]
      BY DEF Label
    <2> QED BY <2>1, <2>2, <1>1, Zenon
  <1> QED BY <1>1, <1>2, <1>3, <1>6, <1>7, Zenon

LEMMA ReceiveFits ==
    ASSUME NEW R, NEW q, NEW p, NEW c \in Seq(Message), NEW r \in Nat, NEW i \in Nat,
           NEW s \in Nat, NEW j \in Nat, NEW s2, NEW j2,
           Fits(R, q, p, c, r, i, s, j), Carries(R, q, p, s, j), c # <<>>,
           Moves(R, p, s, j, s2, j2)
    PROVE  Fits(R, q, p, Tail(c), r, i, s2, j2)
  <1>0. /\ \A k \in 1..Len(c) :
              /\ Carries(R, q, p, c[k].part.round, c[k].part.at)
              /\ c[k].part.op = PlanOf(R, c[k].part.round)[c[k].part.at]
              /\ c[k].val = Value(R, c[k].part.round, c[k].part.at)
              /\ ~Before(c[k].part.round, c[k].part.at, s, j)
              /\ Before(c[k].part.round, c[k].part.at, r, i)
        /\ \A k, l \in 1..Len(c) : k < l =>
              Before(c[k].part.round, c[k].part.at, c[l].part.round, c[l].part.at)
        /\ \A u, v \in Nat : Carries(R, q, p, u, v) /\ Before(u, v, r, i) /\ ~Before(u, v, s, j) =>
              Holds(c, u, v)
        /\ \A u, v \in Nat : Carries(R, q, p, u, v) /\ Before(u, v, s, j) => Before(u, v, r, i)
    BY Zenon DEF Fits
  <1> DEFINE d == Tail(c)
             n == Len(d)
  <1>1. \A u, v \in Nat : Carries(R, q, p, u, v) =>
            (Before(u, v, s2, j2) <=> Before(u, v, s, j) \/ (u = s /\ v = j))
    BY CarriesTurn, Zenon DEF Moves
  <1>2. /\ Head(c).part.round = s /\ Head(c).part.at = j /\ Before(s, j, r, i)
    <2>1. Head(c).part = [round |-> s, at |-> j, op |-> PlanOf(R, s)[j]] /\ Before(s, j, r, i)
      BY HeadFits
    <2> QED BY <2>1
  <1>3. /\ n \in Nat /\ Len(c) = n + 1 /\ Head(c) = c[1] /\ \A k \in 1..n : d[k] = c[k + 1]
        /\ \A k \in 1..Len(c) : c[k].part.round \in Nat /\ c[k].part.at \in Nat
    <2>1. n \in Nat /\ Len(c) = n + 1 /\ Head(c) = c[1] /\ \A k \in 1..n : d[k] = c[k + 1]
      BY HeadTailProperties
    <2>2. \A k \in 1..Len(c) : c[k].part.round \in Nat /\ c[k].part.at \in Nat
      BY Labels
    <2> QED BY <2>1, <2>2
  <1> HIDE DEF d, n
  <1>4. /\ 1 \in 1..Len(c) /\ \A k \in 1..n : k + 1 \in 1..Len(c) /\ 1 < k + 1
        /\ \A k, l \in 1..n : k < l => k + 1 < l + 1
        /\ \A k \in 1..Len(c) : k = 1 \/ \E l \in 1..n : k = l + 1
    <2>1. 1 \in 1..Len(c) /\ \A k \in 1..n : k + 1 \in 1..Len(c) /\ 1 < k + 1
      BY <1>3
    <2>2. \A k, l \in 1..n : k < l => k + 1 < l + 1
      BY <1>3
    <2>3. ASSUME NEW k \in 1..Len(c), k # 1 PROVE \E l \in 1..n : k = l + 1
      <3>1. k - 1 \in 1..n /\ k = (k - 1) + 1
        BY <1>3, <2>3
      <3> QED BY <3>1
    <2> QED BY <2>1, <2>2, <2>3
  <1>5. ASSUME NEW k \in 1..n
        PROVE  /\ Carries(R, q, p, d[k].part.round, d[k].part.at)
               /\ d[k].part.op = PlanOf(R, d[k].part.round)[d[k].part.at]
               /\ d[k].val = Value(R, d[k].part.round, d[k].part.at)
               /\ ~Before(d[k].part.round, d[k].part.at, s2, j2)
               /\ Before(d[k].part.round, d[k].part.at, r, i)
    <2> DEFINE a == c[k + 1].part.round
               b == c[k + 1].part.at
    <2>1. /\ Carries(R, q, p, a, b)
          /\ c[k + 1].part.op = PlanOf(R, a)[b]
          /\ c[k + 1].val = Value(R, a, b)
          /\ ~Before(a, b, s, j)
          /\ Before(a, b, r, i)
          /\ a \in Nat /\ b \in Nat
      BY <1>3, <1>4, <1>0, Zenon
    <2>2. Before(s, j, a, b)
      BY <1>2, <1>3, <1>4, <1>0, Zenon
    <2>3. d[k] = c[k + 1]
      BY <1>3
    <2> HIDE DEF a, b
    <2>4. ~ (a = s /\ b = j)
      BY <2>1, <2>2 DEF Before
    <2>5. ~Before(a, b, s2, j2)
      BY <2>1, <2>4, <1>1, Zenon
    <2> QED BY <2>1, <2>3, <2>5, Zenon DEF a, b
  <1>6. ASSUME NEW k \in 1..n, NEW l \in 1..n, k < l
        PROVE  Before(d[k].part.round, d[k].part.at, d[l].part.round, d[l].part.at)
    <2>1. k + 1 \in 1..Len(c) /\ l + 1 \in 1..Len(c) /\ k + 1 < l + 1
      BY <1>4, <1>6, Zenon
    <2>2. Before(c[k + 1].part.round, c[k + 1].part.at, c[l + 1].part.round, c[l + 1].part.at)
      BY <2>1, <1>0, Zenon
    <2> QED BY <2>2, <1>3, Zenon
  <1>7. ASSUME NEW u \in Nat, NEW v \in Nat, Carries(R, q, p, u, v), Before(u, v, r, i), ~Before(u, v, s2, j2)
        PROVE  Holds(d, u, v)
    <2>1. ~Before(u, v, s, j) /\ ~ (u = s /\ v = j)
      BY <1>1, <1>7, Zenon
    <2>2. Holds(c, u, v)
      BY <2>1, <1>7, <1>0, Zenon
    <2>3. PICK k \in 1..Len(c) : c[k].part.round = u /\ c[k].part.at = v
      BY <2>2, Zenon DEF Holds
    <2>4. k # 1
      BY <2>1, <2>3, <1>2, <1>3, Zenon
    <2>5. PICK l \in 1..n : k = l + 1
      BY <2>4, <1>4, Zenon
    <2>6. d[l] = c[k]
      BY <2>5, <1>3
    <2> QED BY <2>3, <2>6, Zenon DEF Holds, n
  <1>8. ASSUME NEW u \in Nat, NEW v \in Nat, Carries(R, q, p, u, v), Before(u, v, s2, j2)
        PROVE  Before(u, v, r, i)
    <2>1. Before(u, v, s, j) \/ (u = s /\ v = j)
      BY <1>1, <1>8, Zenon
    <2>2. Before(u, v, s, j) => Before(u, v, r, i)
      BY <1>8, <1>0, Zenon
    <2> QED BY <2>1, <2>2, <1>2, Zenon
  <1>9. Fits(R, q, p, d, r, i, s2, j2)
    BY <1>5, <1>6, <1>7, <1>8, Zenon DEF Fits, n
  <1> QED BY <1>9 DEF d
-----------------------------------------------------------------------------
(* Where the processes are *)

\* The rounds of output that p has entered.
Started(p) ==
    IF at[p] # 0 THEN (IF pc[p] = "output" THEN round[p] ELSE round[p] - 1)
    ELSE IF pc[p] \in {"final", "barrier", "done"} THEN round[p] - 2
    ELSE round[p] - 1

\* Processes that made the same steps have entered the same rounds.
RoundsFit(R) ==
    /\ \A p \in Compute :
         /\ Started(p) \in 0..Len(R)
         /\ clk[p].due # {} => Started(p) >= 1 /\ R[Started(p)] = clk[p]
    /\ \E p \in Compute : Started(p) = Len(R)
    /\ \A p, q \in Compute :
         /\ Taken(p) = Taken(q) => Started(p) = Started(q)
         /\ Taken(p) = Taken(q) + 1 =>
              Started(p) = Started(q) + (IF clk[p].due = {} THEN 0 ELSE 1)

ComputeFits(R, p) ==
    /\ at[p] # 0 => at[p] \in Turns(p, PlanOf(R, round[p])) /\ pc[p] \in {"output", "final"}
    /\ pc[p] = "output" /\ at[p] # 0 => round[p] \in 1..Len(R) /\ clk[p] = R[round[p]]
    /\ pc[p] = "final" /\ at[p] # 0 => round[p] = Len(R) + 1

\* Until it has been told, xomaster goes by what is the same in every round.
MasterFits(R) ==
    /\ at[omaster] # 0 => at[omaster] \in Turns(omaster, PlanOf(R, round[omaster]))
    /\ pc[omaster] \in {"asleep", "output", "barrier", "done"}
    /\ pc[omaster] = "asleep" => at[omaster] \in {1, 2} /\ round[omaster] \in 1..(Len(R) + 1)
    /\ pc[omaster] = "output" /\ at[omaster] # 0 =>
         /\ at[omaster] >= 3 /\ round[omaster] \in 1..Len(R)
         /\ at[omaster] > 3 => told = R[round[omaster]]
    /\ pc[omaster] = "output" /\ at[omaster] = 0 =>
         round[omaster] - 1 \in 1..Len(R) /\ told = R[round[omaster] - 1]
    /\ pc[omaster] \in {"barrier", "done"} => at[omaster] = 0 /\ round[omaster] = Len(R) + 2

ChannelsFit(R) ==
    \A q, p \in Proc : Fits(R, q, p, chan[q][p], round[q], at[q], round[p], at[p])

\* xomaster has been told the time of the round, and passed operation k of it.
Informed  == pc[omaster] = "output" /\ (at[omaster] = 0 \/ at[omaster] > 3)
Passed(k) == at[omaster] = 0 \/ k < at[omaster]

Brings == {"gather", "drift", "relay", "value"}

Gathered(ops, v) == \E k \in 1..Len(ops) : Passed(k) /\ ops[k] = OpOf("gather", v)

Brought(ops) ==
    \A k \in 1..Len(ops) : Passed(k) /\ ops[k].op \in Brings =>
        \A q \in Senders(ops[k]) : have[ops[k].of][q] = told.t

\* What it has collected; a field it has is of this round.
DataFits ==
    Informed => (\A v : v \in collected <=> Gathered(Plan(told), v)) /\ Brought(Plan(told))

Placed(R) ==
    /\ \A p \in Compute : ComputeFits(R, p)
    /\ MasterFits(R) /\ ChannelsFit(R)

NetTypes ==
    /\ chan \in [Proc -> [Proc -> Seq(Message)]]
    /\ round \in [Proc -> Nat \ {0}] /\ at \in [Proc -> Nat]
    /\ pc \in [Proc -> {"asleep", "step", "reduce", "output", "final", "barrier", "done"}]
    /\ told \in Clock
    /\ have \in [Field -> [Compute -> {-1} \cup (0..TStop)]]

NetworkInv ==
    NetTypes /\ DataFits /\ \E R \in Seq(Clock) : RoundsFit(R) /\ Placed(R)

LEMMA PlanRegular ==
    ASSUME NEW R \in Seq(Clock), NEW r
    PROVE  /\ Regular(PlanOf(R, r))
           /\ r \in 1..Len(R) => R[r] \in Clock /\ PlanOf(R, r) = Plan(R[r]) /\ Complete(PlanOf(R, r), R[r])
           /\ r \notin 1..Len(R) => PlanOf(R, r) = Announce
  <1>1. r \in 1..Len(R) => R[r] \in Clock
    OBVIOUS
  <1> QED BY <1>1, PlanShape, Announcement, Zenon DEF PlanOf

LEMMA TurnsPositive ==
    ASSUME NEW ops, Regular(ops), NEW p
    PROVE  Turns(p, ops) \subseteq Nat \ {0} /\ \A j \in Turns(p, ops) : j \in 1..Len(ops) /\ ops[j] \in Operation
  <1>1. ops \in Seq(Operation) /\ Len(ops) \in Nat
    BY DEF Regular
  <1> QED BY <1>1 DEF Turns

\* The operation p is at is carried out: m is sent, or the heads are received.
Conveys(R, p, m) ==
    /\ \A s \in Proc : Carries(R, p, s, round[p], at[p]) =>
         /\ m \in Message /\ m.val = Value(R, round[p], at[p])
         /\ m.part = [round |-> round[p], at |-> at[p], op |-> PlanOf(R, round[p])[at[p]]]
    /\ \A q \in Proc : Carries(R, q, p, round[p], at[p]) => chan[q][p] # <<>>
    /\ \A q, s \in Proc :
         chan'[q][s] = IF q = p /\ Carries(R, q, s, round[p], at[p]) THEN Append(chan[q][s], m)
                       ELSE IF s = p /\ Carries(R, q, s, round[p], at[p]) THEN Tail(chan[q][s])
                       ELSE chan[q][s]

\* One process goes on from its turn, having sent or received.
LEMMA ChannelsMove ==
    ASSUME NEW R \in Seq(Clock), ChannelsFit(R), NetTypes, NEW p \in Proc,
           Moves(R, p, round[p], at[p], round'[p], at'[p]),
           \A q \in Proc : q # p => round'[q] = round[q] /\ at'[q] = at[q],
           NEW m, Conveys(R, p, m)
    PROVE  ChannelsFit(R)'
  <1> DEFINE r == round[p]
             i == at[p]
  <1>0. /\ \A s \in Proc : Carries(R, p, s, r, i) =>
             /\ m \in Message /\ m.val = Value(R, r, i)
             /\ m.part = [round |-> r, at |-> i, op |-> PlanOf(R, r)[i]]
        /\ \A q \in Proc : Carries(R, q, p, r, i) => chan[q][p] # <<>>
        /\ \A q, s \in Proc :
             chan'[q][s] = IF q = p /\ Carries(R, q, s, r, i) THEN Append(chan[q][s], m)
                           ELSE IF s = p /\ Carries(R, q, s, r, i) THEN Tail(chan[q][s])
                           ELSE chan[q][s]
    BY Zenon DEF Conveys
  <1>1. \A q \in Proc : ~Carries(R, q, q, r, i)
    <2> SUFFICES ASSUME NEW q \in Proc, Carries(R, q, q, r, i) PROVE FALSE
      OBVIOUS
    <2>1. Regular(PlanOf(R, r))
      BY PlanRegular
    <2>2. i \in 1..Len(PlanOf(R, r))
      BY Zenon DEF Carries
    <2>3. PlanOf(R, r)[i] \in Operation
      BY <2>1, <2>2 DEF Regular
    <2> QED BY <2>3, Parties DEF Carries
  <1>2. ASSUME NEW q \in Proc, NEW s \in Proc
        PROVE  Fits(R, q, s, chan[q][s], round[q], at[q], round[s], at[s])
               /\ chan[q][s] \in Seq(Message)
               /\ round[q] \in Nat /\ at[q] \in Nat /\ round[s] \in Nat /\ at[s] \in Nat
    <2>1. Fits(R, q, s, chan[q][s], round[q], at[q], round[s], at[s])
      BY Zenon DEF ChannelsFit
    <2> QED BY <2>1 DEF NetTypes
  <1> SUFFICES ASSUME NEW q \in Proc, NEW s \in Proc
               PROVE  Fits(R, q, s, chan'[q][s], round'[q], at'[q], round'[s], at'[s])
    BY Zenon DEF ChannelsFit
  <1> DEFINE c == chan[q][s]
  <1>3. CASE q # p /\ s # p
    BY <1>0, <1>2, <1>3, Zenon
  <1>4. CASE q = p /\ s # p /\ Carries(R, p, s, r, i)
    <2>1. chan'[p][s] = Append(chan[p][s], m)
      BY <1>0, <1>4, Zenon
    <2>2. Fits(R, p, s, Append(chan[p][s], m), round'[p], at'[p], round[s], at[s])
      BY <1>0, <1>2, <1>4, SendFits
    <2> QED BY <2>1, <2>2, <1>4, Zenon
  <1>5. CASE q = p /\ s # p /\ ~Carries(R, p, s, r, i)
    <2>1. chan'[p][s] = chan[p][s]
      BY <1>0, <1>5, Zenon
    <2>2. Fits(R, p, s, chan[p][s], round'[p], at'[p], round[s], at[s])
      BY <1>2, <1>5, SenderMoves
    <2> QED BY <2>1, <2>2, <1>5, Zenon
  <1>6. CASE q # p /\ s = p /\ Carries(R, q, p, r, i)
    <2>1. chan'[q][p] = Tail(chan[q][p]) /\ chan[q][p] # <<>>
      BY <1>0, <1>6, Zenon
    <2>2. Fits(R, q, p, Tail(chan[q][p]), round[q], at[q], round'[p], at'[p])
      BY <1>2, <1>6, <2>1, ReceiveFits
    <2> QED BY <2>1, <2>2, <1>6, Zenon
  <1>7. CASE q # p /\ s = p /\ ~Carries(R, q, p, r, i)
    <2>1. chan'[q][p] = chan[q][p]
      BY <1>0, <1>7, Zenon
    <2>2. Fits(R, q, p, chan[q][p], round[q], at[q], round'[p], at'[p])
      BY <1>2, <1>7, ReceiverMoves
    <2> QED BY <2>1, <2>2, <1>7, Zenon
  <1>8. CASE q = p /\ s = p
    <2>1. chan'[p][p] = chan[p][p] /\ ~Carries(R, p, p, r, i)
      BY <1>0, <1>1, <1>8, Zenon
    <2>2. Fits(R, p, p, chan[p][p], round'[p], at'[p], r, i)
      BY <1>2, <2>1, SenderMoves
    <2>3. Fits(R, p, p, chan[p][p], round'[p], at'[p], round'[p], at'[p])
      BY <1>2, <2>1, <2>2, ReceiverMoves
    <2> QED BY <2>1, <2>3, <1>8, Zenon
  <1> QED BY <1>3, <1>4, <1>5, <1>6, <1>7, <1>8

\* The operation a process is at is that of the round it is in.
LEMMA HereFits ==
    ASSUME NEW R \in Seq(Clock), Placed(R), NetTypes, NEW p \in Proc, at[p] # 0
    PROVE  /\ at[p] \in Turns(p, PlanOf(R, round[p]))
           /\ Here(p) = PlanOf(R, round[p])[at[p]] /\ Here(p) \in Operation
           /\ Part(p) = [round |-> round[p], at |-> at[p], op |-> PlanOf(R, round[p])[at[p]]]
           /\ p \in Compute \/ at[p] > 3 => Ops(p) = PlanOf(R, round[p])
  <1> DEFINE ops == PlanOf(R, round[p])
  <1>0. Regular(ops)
    BY PlanRegular
  <1>1. at[p] \in Turns(p, ops)
    BY Processes, Zenon DEF Placed, ComputeFits, MasterFits
  <1>2. at[p] \in 1..Len(ops) /\ ops[at[p]] \in Operation
    BY <1>0, <1>1, TurnsPositive
  <1>3. CASE p \in Compute
    <2>1. p # omaster /\ ComputeFits(R, p)
      BY <1>3, Processes DEF Placed
    <2>2. Ops(p) = ops
      <3>1. CASE pc[p] = "output"
        <4>1. round[p] \in 1..Len(R) /\ clk[p] = R[round[p]]
          BY <2>1, <3>1 DEF ComputeFits
        <4>2. ops = Plan(clk[p])
          BY <4>1, PlanRegular
        <4> QED BY <2>1, <3>1, <4>2 DEF Ops
      <3>2. CASE pc[p] = "final"
        <4>1. round[p] = Len(R) + 1
          BY <2>1, <3>2 DEF ComputeFits
        <4>2. round[p] \notin 1..Len(R)
          BY <4>1
        <4>3. ops = Announce
          BY <4>2, PlanRegular
        <4> QED BY <2>1, <3>2, <4>3 DEF Ops
      <3> QED BY <2>1, <3>1, <3>2 DEF ComputeFits
    <2> QED BY <1>1, <1>2, <2>2, Zenon DEF Here, Part
  <1>4. CASE p = omaster
    <2>1. MasterFits(R) /\ Ops(p) = Plan(told) /\ told \in Clock
      BY <1>4 DEF Placed, Ops, NetTypes
    <2>2. Regular(Plan(told)) /\ Complete(Plan(told), told)
      BY <2>1, PlanShape
    <2>3. CASE pc[p] = "asleep"
      <3>1. at[p] \in {1, 2}
        BY <2>1, <2>3, <1>4 DEF MasterFits
      <3>2. Plan(told)[at[p]] = ops[at[p]]
        BY <3>1, <2>2, <1>0, Zenon DEF Regular
      <3>3. ~ (at[p] > 3)
        BY <3>1
      <3> QED BY <1>1, <1>2, <1>4, <2>1, <3>2, <3>3, Processes, Zenon DEF Here, Part
    <2>4. CASE pc[p] = "output"
      <3>1. at[p] >= 3 /\ round[p] \in 1..Len(R) /\ (at[p] > 3 => told = R[round[p]]) /\ at[p] \in Nat
        BY <2>1, <2>4, <1>4 DEF MasterFits, NetTypes
      <3>2. ops = Plan(R[round[p]]) /\ Complete(ops, R[round[p]])
        BY <3>1, PlanRegular
      <3>3. at[p] = 3 \/ at[p] > 3
        BY <3>1
      <3>4. Plan(told)[at[p]] = ops[at[p]]
        BY <3>1, <3>2, <3>3, <2>2, Zenon DEF Complete
      <3>5. at[p] > 3 => Ops(p) = ops
        BY <3>1, <3>2, <2>1, Zenon
      <3> QED BY <1>1, <1>2, <1>4, <2>1, <3>4, <3>5, Processes, Zenon DEF Here, Part
    <2>5. pc[p] \in {"asleep", "output"}
      BY <2>1, <1>4 DEF MasterFits
    <2> QED BY <2>3, <2>4, <2>5
  <1> QED BY <1>3, <1>4, Processes

\* What is gathered was gathered first where it is not left out.
LEMMA FirstGathered ==
    ASSUME NEW ops, Regular(ops), NEW k \in 1..Len(ops)
    PROVE  \E h \in 1..Len(ops) : h <= k /\ ops[h] = ops[k] /\ ~Dropped(ops, h)
  <1> DEFINE T == {h \in 1..Len(ops) : h <= k /\ ops[h] = ops[k]}
  <1>1. Len(ops) \in Nat
    BY DEF Regular
  <1>2. T \subseteq Nat /\ k \in T
    BY <1>1
  <1>3. PICK h \in T : \A y \in T : h <= y
    BY <1>2, LeastElement
  <1>4. ~Dropped(ops, h)
    <2> SUFFICES ASSUME NEW g \in 1..(h - 1), ops[g] = ops[h] PROVE FALSE
      BY DEF Dropped
    <2>1. g \in T /\ ~ (h <= g)
      BY <1>1, <1>3
    <2> QED BY <2>1, <1>3
  <1> QED BY <1>3, <1>4

\* What xomaster passes on its way from one turn to the next it had before.
LEMMA PassedBefore ==
    ASSUME NEW ops, Regular(ops), NEW i \in Nat, NEW n, NextTurn(omaster, ops, i, n),
           NEW k \in 1..Len(ops), n = 0 \/ k < n, ops[k].op \in Brings
    PROVE  \E h \in 1..Len(ops) : h <= i /\ ops[h] = ops[k]
  <1>1. PICK h \in 1..Len(ops) : h <= k /\ ops[h] = ops[k] /\ ~Dropped(ops, h)
    BY FirstGathered
  <1>2. Len(ops) \in Nat /\ ops[h] \in Operation /\ ops[h].op \in {"gather", "drift", "relay", "value"}
    BY <1>1 DEF Regular, Brings
  <1>3. TakesPart(omaster, ops[h])
    BY <1>2, Parties DEF TakesPart
  <1>4. h \in Turns(omaster, ops)
    BY <1>1, <1>3 DEF Turns
  <1>5. h <= i
    <2>1. CASE n = 0
      <3>1. ~ (h > i)
        BY <1>4, <2>1 DEF NextTurn
      <3> QED BY <3>1, <1>2
    <2>2. CASE n # 0
      <3>1. h > i => h >= n
        BY <1>4, <2>2 DEF NextTurn
      <3>2. n \in Nat
        BY <2>2, TurnsPositive DEF NextTurn
      <3> QED BY <2>2, <3>1, <3>2, <1>1, <1>2
    <2> QED BY <2>1, <2>2
  <1> QED BY <1>1, <1>5

LEMMA SenderKnows ==
    ASSUME NEW R \in Seq(Clock), Placed(R), NetTypes, ClockTypes, DataFits,
           NEW p \in Proc, at[p] # 0, p \in Senders(Here(p))
    PROVE  /\ Payload(p, Here(p)) = Value(R, round[p], at[p])
           /\ Payload(p, Here(p)) \in Content
           /\ Here(p).op = "flag" =>
                /\ Payload(p, Here(p)) \in BOOLEAN
                /\ Payload(p, Here(p)) <=> Dropped(PlanOf(R, round[p]), at[p] + 1)
           /\ p = omaster => Informed /\ at[p] > 3 /\ Here(p).op \in {"flag", "place"}
           /\ p # omaster => Here(p).op # "flag"
  <1> DEFINE r == round[p]
             i == at[p]
             ops == PlanOf(R, r)
             o == Here(p)
  <1>1. /\ i \in Turns(p, ops) /\ o = ops[i] /\ o \in Operation
        /\ p \in Compute \/ i > 3 => Ops(p) = ops
    BY HereFits
  <1>2. Regular(ops) /\ i \in 1..Len(ops) /\ Len(ops) \in Nat /\ r \in Nat \ {0} /\ i \in Nat
    <2>1. Regular(ops) /\ r \in Nat \ {0} /\ i \in Nat
      BY PlanRegular DEF NetTypes
    <2>2. i \in 1..Len(ops)
      BY <1>1, <2>1, TurnsPositive, Zenon
    <2>3. Len(ops) \in Nat
      BY <2>1 DEF Regular
    <2> QED BY <2>1, <2>2, <2>3
  <1>3. /\ r \in 1..Len(R) => R[r] \in Clock /\ ops = Plan(R[r]) /\ Complete(ops, R[r])
        /\ r \notin 1..Len(R) => ops = Announce
    BY PlanRegular
  <1>4. r \notin 1..Len(R) => o.op \in {"wake", "end"}
    <2> SUFFICES ASSUME r \notin 1..Len(R) PROVE o.op \in {"wake", "end"}
      OBVIOUS
    <2>1. ops = Announce /\ (i = 1 \/ i = 2)
      <3>1. ops = Announce /\ Len(ops) = 2
        BY <1>3, Announcement
      <3> QED BY <3>1, <1>2
    <2> QED BY <1>1, <2>1, Announcement DEF Op
  <1>5. ASSUME p \in Compute
        PROVE  /\ r \in 1..Len(R) => pc[p] = "output" /\ clk[p] = R[r]
               /\ r \notin 1..Len(R) => pc[p] = "final"
               /\ r \in 1..Len(R) <=> ~ (r > Len(R))
    <2>1. ComputeFits(R, p) /\ Len(R) \in Nat
      BY <1>5 DEF Placed
    <2>2. pc[p] = "final" => r \notin 1..Len(R)
      BY <2>1 DEF ComputeFits
    <2>3. r \in 1..Len(R) <=> ~ (r > Len(R))
      BY <2>1, <1>2
    <2> QED BY <2>1, <2>2, <2>3, Zenon DEF ComputeFits
  <1>6. ASSUME p = omaster
        PROVE  Informed /\ i > 3 /\ o.op \in {"flag", "place"} /\ r \in 1..Len(R) /\ told = R[r]
    <2>1. o.op \in {"flag", "place"}
      BY <1>1, <1>6, Parties
    <2>2. i # 1 /\ i # 2
      BY <1>1, <1>2, <2>1 DEF Regular, Op
    <2>3. r \in 1..Len(R)
      BY <1>4, <2>1
    <2>4. i # 3
      BY <1>1, <1>3, <2>1, <2>3 DEF Complete, Op
    <2>5. i > 3
      BY <1>2, <2>2, <2>4
    <2>6. MasterFits(R)
      BY DEF Placed
    <2>7. pc[omaster] = "output"
      BY <2>2, <2>6, <1>2, <1>6 DEF MasterFits
    <2>8. told = R[r]
      BY <2>5, <2>6, <2>7, <1>2, <1>6 DEF MasterFits
    <2> QED BY <2>1, <2>3, <2>5, <2>7, <2>8, <1>6 DEF Informed
  <1>7. p = omaster \/ p \in Compute
    BY Processes
  <1>8. p \in Compute => p # omaster
    BY Processes
  <1>9. p \in Compute => o.op # "flag"
    BY <1>1, <1>8, Parties
  <1> HIDE DEF o
  <1>10. Value(R, r, i) = (CASE o.op = "end"  -> r > Len(R)
                           [] o.op = "tell" -> R[r]
                           [] o.op = "flag" -> Dropped(ops, i + 1)
                           [] o.op \in {"wake", "place"} -> 0
                           [] OTHER -> R[r].t)
    BY <1>1, Zenon DEF Value
  <1>11. Payload(p, o) = (CASE o.op = "end"  -> pc[p] = "final"
                          [] o.op = "tell" -> clk[p]
                          [] o.op = "flag" -> o.of \in collected
                          [] o.op \in {"wake", "place"} -> 0
                          [] OTHER -> clk[p].t)
    BY Zenon DEF Payload
  <1> HIDE DEF r, i, ops
  <1>12. CASE o.op = "end"
    <2>1. p \in Compute
      BY <1>6, <1>7, <1>12
    <2>2. Value(R, r, i) = (r > Len(R)) /\ Payload(p, o) = (pc[p] = "final")
      BY <1>10, <1>11, <1>12
    <2>3. (pc[p] = "final") = (r > Len(R))
      BY <2>1, <1>5
    <2>4. (pc[p] = "final") \in Content
      BY Zenon DEF Content
    <2> QED BY <2>1, <2>2, <2>3, <2>4, <1>8, <1>12 DEF r, i, o
  <1>13. CASE o.op = "tell"
    <2>1. p \in Compute /\ r \in 1..Len(R)
      BY <1>4, <1>6, <1>7, <1>13
    <2>2. Value(R, r, i) = R[r] /\ Payload(p, o) = clk[p]
      BY <1>10, <1>11, <1>13
    <2>3. clk[p] = R[r] /\ clk[p] \in Content
      BY <2>1, <1>5 DEF ClockTypes, Content
    <2> QED BY <2>1, <2>2, <2>3, <1>8, <1>13 DEF r, i, o
  <1>14. CASE o.op = "flag"
    <2>1. p = omaster
      BY <1>7, <1>9, <1>14
    <2>2. Value(R, r, i) = Dropped(ops, i + 1) /\ Payload(p, o) = (o.of \in collected)
      BY <1>10, <1>11, <1>14
    <2>3. ops = Plan(told) /\ told = R[r]
      BY <2>1, <1>3, <1>6
    <2>4. i + 1 \in 1..Len(ops) /\ ops[i + 1] = OpOf("gather", o.of)
      BY <1>1, <1>2, <1>14, Zenon DEF Regular, r, i, ops
    <2>5. o.of \in collected <=> \E k \in 1..Len(ops) : k < i /\ ops[k] = OpOf("gather", o.of)
      <3>1. i # 0 /\ Informed /\ \A k : Passed(k) <=> k < i
        BY <2>1, <1>6 DEF Passed, i
      <3>2. \A v : v \in collected <=> Gathered(ops, v)
        BY <2>3, <3>1, Zenon DEF DataFits
      <3> QED BY <3>1, <3>2, Zenon DEF Gathered
    <2>6. ops[i + 1].op = "gather" /\ OpOf("gather", o.of) # ops[i]
      <3>1. OpOf("gather", o.of).op = "gather"
        BY DEF OpOf
      <3>2. ops[i] = o
        BY <1>1 DEF ops, i, r, o
      <3> QED BY <2>4, <3>1, <3>2, <1>14
    <2>7. \A k \in 1..((i + 1) - 1) : k \in 1..Len(ops) /\ (k < i \/ k = i)
      BY <1>2 DEF i, r, ops
    <2>8. \A k \in 1..Len(ops) : k < i => k \in 1..((i + 1) - 1)
      BY <1>2 DEF i, r, ops
    <2>9. Dropped(ops, i + 1) <=> \E k \in 1..Len(ops) : k < i /\ ops[k] = OpOf("gather", o.of)
      BY <2>4, <2>6, <2>7, <2>8, Zenon DEF Dropped
    <2>10. Dropped(ops, i + 1) \in BOOLEAN /\ (o.of \in collected) \in BOOLEAN
      <3>1. Dropped(ops, i + 1) \in BOOLEAN
        BY DEF Dropped
      <3>2. (o.of \in collected) \in BOOLEAN
        OBVIOUS
      <3> QED BY <3>1, <3>2
    <2>11. Dropped(ops, i + 1) = (o.of \in collected)
      BY <2>5, <2>9, <2>10
    <2>12. Payload(p, o) \in Content
      BY <2>2, <2>10, Zenon DEF Content
    <2>13. Payload(p, o) \in BOOLEAN /\ (Payload(p, o) <=> Dropped(ops, i + 1))
      BY <2>2, <2>10, <2>11, Zenon
    <2>14. Payload(p, o) = Value(R, r, i)
      BY <2>2, <2>11, Zenon
    <2> QED BY <2>1, <2>12, <2>13, <2>14, <1>6, <1>14, Zenon DEF r, i, o, ops
  <1>15. CASE o.op \in {"wake", "place"}
    <2>1. Value(R, r, i) = 0 /\ Payload(p, o) = 0
      BY <1>10, <1>11, <1>15
    <2>2. 0 \in Content
      BY DEF Content
    <2>3. o.op # "flag"
      BY <1>15
    <2> QED BY <2>1, <2>2, <2>3, <1>6, <1>7, Zenon DEF r, i, o
  <1>16. CASE o.op \notin {"end", "tell", "flag", "wake", "place"}
    <2>1. p \in Compute /\ r \in 1..Len(R)
      BY <1>4, <1>6, <1>7, <1>16
    <2>2. Value(R, r, i) = R[r].t /\ Payload(p, o) = clk[p].t
      BY <1>10, <1>11, <1>16
    <2>3. clk[p] = R[r] /\ clk[p] \in Clock
      BY <2>1, <1>5 DEF ClockTypes
    <2>4. clk[p].t \in Content
      BY <2>3 DEF Clock, Content
    <2> QED BY <2>1, <2>2, <2>3, <2>4, <1>8, <1>16, Zenon DEF r, i, o
  <1> QED BY <1>12, <1>13, <1>14, <1>15, <1>16

\* A process proceeds from the operation it is at to n, or out of the round.
Goes(p, n) ==
    /\ at' = [at EXCEPT ![p] = n]
    /\ round' = [round EXCEPT ![p] = IF n = 0 THEN @ + 1 ELSE @]

LEMMA ProceedGoes ==
    ASSUME NEW p \in Proc, NEW ops, NEW i, Proceed(p, ops, i), NetTypes
    PROVE  Goes(p, After(p, ops, i))
  <1>1. at' = [at EXCEPT ![p] = After(p, ops, i)]
    BY DEF Proceed
  <1>2. at'[p] = After(p, ops, i)
    BY <1>1 DEF NetTypes
  <1> QED BY <1>1, <1>2, Zenon DEF Proceed, Goes

LEMMA GoesOn ==
    ASSUME NEW R \in Seq(Clock), NetTypes, NEW p \in Proc, NEW n, Goes(p, n),
           NextTurn(p, PlanOf(R, round[p]), at[p], n)
    PROVE  /\ Moves(R, p, round[p], at[p], round'[p], at'[p])
           /\ round' \in [Proc -> Nat \ {0}] /\ at' \in [Proc -> Nat]
           /\ \A q \in Proc : q # p => round'[q] = round[q] /\ at'[q] = at[q]
           /\ at'[p] = n
           /\ IF n = 0 THEN round'[p] = round[p] + 1
              ELSE round'[p] = round[p] /\ n \in Turns(p, PlanOf(R, round[p])) /\ n > at[p]
  <1> DEFINE ops == PlanOf(R, round[p])
             s == IF n = 0 THEN round[p] + 1 ELSE round[p]
  <1>1. \A u \in Nat : Turns(p, PlanOf(R, u)) \subseteq Nat \ {0}
    BY PlanRegular, TurnsPositive
  <1>2. round[p] \in Nat \ {0} /\ at[p] \in Nat
    BY DEF NetTypes
  <1>3. Moves(R, p, round[p], at[p], s, n)
    BY <1>1, <1>2, TurnMoves
  <1>4. n \in Nat
    <2>1. CASE n = 0
      BY <2>1
    <2>2. CASE n # 0
      BY <2>2, <1>1, <1>2 DEF NextTurn
    <2> QED BY <2>1, <2>2
  <1>5. s \in Nat \ {0}
    BY <1>2
  <1>6. at' = [at EXCEPT ![p] = n] /\ round' = [round EXCEPT ![p] = s]
    BY Zenon DEF Goes
  <1> HIDE DEF s
  <1>7. /\ round' \in [Proc -> Nat \ {0}] /\ at' \in [Proc -> Nat]
        /\ \A q \in Proc : q # p => round'[q] = round[q] /\ at'[q] = at[q]
        /\ at'[p] = n /\ round'[p] = s
    BY <1>4, <1>5, <1>6 DEF NetTypes
  <1>8. n # 0 => n \in Turns(p, ops) /\ n > at[p]
    BY DEF NextTurn
  <1> QED BY <1>3, <1>7, <1>8, Zenon DEF s

\* A move leaves the rounds entered as they are.
LEMMA StartedKept ==
    ASSUME NEW R \in Seq(Clock), \A q \in Compute : ComputeFits(R, q), NetTypes,
           NEW p \in Proc, at[p] # 0, NEW n, Goes(p, n),
           NextTurn(p, PlanOf(R, round[p]), at[p], n),
           \A q \in Compute : pc'[q] = pc[q]
    PROVE  \A q \in Compute : Started(q)' = Started(q)
  <1> SUFFICES ASSUME NEW q \in Compute PROVE Started(q)' = Started(q)
    OBVIOUS
  <1>1. /\ \A s \in Proc : s # p => round'[s] = round[s] /\ at'[s] = at[s]
        /\ at'[p] = n /\ round'[p] = IF n = 0 THEN round[p] + 1 ELSE round[p]
    BY GoesOn
  <1>2. q \in Proc /\ round[q] \in Nat \ {0} /\ pc'[q] = pc[q]
    BY Processes DEF NetTypes
  <1>3. CASE q # p
    BY <1>1, <1>2, <1>3, Zenon DEF Started
  <1>4. CASE q = p
    <2>1. pc[q] \in {"output", "final"}
      BY <1>4 DEF ComputeFits
    <2>2. CASE n = 0
      BY <2>1, <2>2, <1>1, <1>2, <1>4 DEF Started
    <2>3. CASE n # 0
      BY <2>1, <2>3, <1>1, <1>2, <1>4 DEF Started
    <2> QED BY <2>2, <2>3
  <1> QED BY <1>3, <1>4

LEMMA RoundsKept ==
    ASSUME NEW R, RoundsFit(R), clk' = clk,
           \A q \in Compute : Started(q)' = Started(q) /\ Taken(q)' = Taken(q)
    PROVE  RoundsFit(R)'
  <1>1. /\ \A p \in Compute :
             /\ Started(p)' \in 0..Len(R)
             /\ clk'[p].due # {} => Started(p)' >= 1 /\ R[Started(p)'] = clk'[p]
        /\ \E p \in Compute : Started(p)' = Len(R)
    BY Zenon DEF RoundsFit
  <1>2. \A p, q \in Compute :
         /\ Taken(p)' = Taken(q)' => Started(p)' = Started(q)'
         /\ Taken(p)' = Taken(q)' + 1 =>
              Started(p)' = Started(q)' + (IF clk'[p].due = {} THEN 0 ELSE 1)
    <2> SUFFICES ASSUME NEW p \in Compute, NEW q \in Compute
                 PROVE  /\ Taken(p)' = Taken(q)' => Started(p)' = Started(q)'
                        /\ Taken(p)' = Taken(q)' + 1 =>
                             Started(p)' = Started(q)' + (IF clk'[p].due = {} THEN 0 ELSE 1)
      OBVIOUS
    <2>1. /\ Taken(p) = Taken(q) => Started(p) = Started(q)
          /\ Taken(p) = Taken(q) + 1 =>
               Started(p) = Started(q) + (IF clk[p].due = {} THEN 0 ELSE 1)
      BY Zenon DEF RoundsFit
    <2> QED BY <2>1, Zenon
  <1> QED BY <1>1, <1>2, Zenon DEF RoundsFit

LEMMA ComputeGoes ==
    ASSUME NEW R \in Seq(Clock), \A q \in Compute : ComputeFits(R, q), NetTypes, clk' = clk,
           NEW p \in Proc, at[p] # 0, NEW n, Goes(p, n),
           NextTurn(p, PlanOf(R, round[p]), at[p], n),
           \A q \in Compute : pc'[q] = pc[q]
    PROVE  \A q \in Compute : ComputeFits(R, q)'
  <1> SUFFICES ASSUME NEW q \in Compute PROVE ComputeFits(R, q)'
    OBVIOUS
  <1>1. /\ \A s \in Proc : s # p => round'[s] = round[s] /\ at'[s] = at[s]
        /\ at'[p] = n
        /\ n # 0 => round'[p] = round[p] /\ n \in Turns(p, PlanOf(R, round[p]))
    BY GoesOn
  <1>2. q \in Proc /\ ComputeFits(R, q) /\ pc'[q] = pc[q]
    BY Processes
  <1>3. CASE q # p
    <2>1. round'[q] = round[q] /\ at'[q] = at[q]
      BY <1>1, <1>2, <1>3
    <2> QED BY <2>1, <1>2, Zenon DEF ComputeFits
  <1>4. CASE q = p
    BY <1>1, <1>2, <1>4, Zenon DEF ComputeFits
  <1> QED BY <1>3, <1>4

LEMMA DataKept ==
    ASSUME NEW ops, ops = Plan(told'),
           \A v : v \in collected' <=> \E k \in 1..Len(ops) : Passed(k)' /\ ops[k] = OpOf("gather", v),
           \A k \in 1..Len(ops) : Passed(k)' /\ ops[k].op \in Brings =>
              \A q \in Senders(ops[k]) : have'[ops[k].of][q] = told'.t
    PROVE  DataFits'
  <1>1. \A v : v \in collected' <=>
          \E k \in 1..Len(Plan(told')) : Passed(k)' /\ Plan(told')[k] = OpOf("gather", v)
    OBVIOUS
  <1>2. \A k \in 1..Len(Plan(told')) : Passed(k)' /\ Plan(told')[k].op \in Brings =>
          \A q \in Senders(Plan(told')[k]) : have'[Plan(told')[k].of][q] = told'.t
    OBVIOUS
  <1> QED BY <1>1, <1>2, Zenon DEF DataFits, Gathered, Brought

LEMMA SendKeeps ==
    ASSUME NEW R \in Seq(Clock), RoundsFit(R), Placed(R), NetTypes, DataFits, ClockTypes,
           NEW p \in Proc, Send(p)
    PROVE  NetTypes' /\ DataFits' /\ RoundsFit(R)' /\ Placed(R)'
  <1> DEFINE r == round[p]
             i == at[p]
             ops == PlanOf(R, r)
             o == Here(p)
             x == Payload(p, o)
             m == [part |-> Part(p), val |-> x]
             n == After(p, Ops(p), Past(i, o, x))
  <1>1. /\ at[p] # 0 /\ p \in Senders(o)
        /\ chan' = [chan EXCEPT ![p] = [q \in Proc |->
                     IF q \in Receivers(o) THEN Append(chan[p][q], m) ELSE chan[p][q]]]
        /\ Proceed(p, Ops(p), Past(i, o, x))
        /\ UNCHANGED <<eager, clk, offers, pc, told, collected, have, file, ages, aborted>>
    BY Zenon DEF Send
  <1>2. /\ i \in Turns(p, ops) /\ o = ops[i] /\ o \in Operation
        /\ Part(p) = [round |-> r, at |-> i, op |-> ops[i]]
        /\ p \in Compute \/ i > 3 => Ops(p) = ops
    BY <1>1, HereFits
  <1>3. /\ x = Value(R, r, i) /\ x \in Content
        /\ o.op = "flag" => x \in BOOLEAN /\ (x <=> Dropped(ops, i + 1))
        /\ p = omaster => Informed /\ i > 3 /\ o.op \in {"flag", "place"}
        /\ p # omaster => o.op # "flag"
    BY <1>1, SenderKnows
  <1>4. Regular(ops) /\ i \in 1..Len(ops) /\ r \in Nat \ {0} /\ i \in Nat
    BY <1>2, PlanRegular, TurnsPositive DEF NetTypes
  <1>5. Ops(p) = ops
    BY <1>2, <1>3, Processes
  <1>6. NextTurn(p, ops, i, n)
    <2> DEFINE known == IF o.op = "flag" THEN x ELSE FALSE
    <2>1. known \in BOOLEAN /\ (ops[i].op = "flag" => (known <=> Dropped(ops, i + 1)))
      BY <1>2, <1>3
    <2>2. Past(i, o, x) = Past(i, ops[i], known)
      BY <1>2 DEF Past
    <2> HIDE DEF known
    <2>3. NextTurn(p, ops, i, After(p, ops, Past(i, ops[i], known)))
      BY <2>1, <1>2, <1>4, TurnFollows
    <2> QED BY <2>2, <2>3, <1>5, Zenon
  <1>7. Goes(p, n)
    BY <1>1, ProceedGoes
  <1> HIDE DEF n
  <1>8. /\ Moves(R, p, r, i, round'[p], at'[p])
        /\ round' \in [Proc -> Nat \ {0}] /\ at' \in [Proc -> Nat]
        /\ \A q \in Proc : q # p => round'[q] = round[q] /\ at'[q] = at[q]
        /\ at'[p] = n
        /\ IF n = 0 THEN round'[p] = r + 1
           ELSE round'[p] = r /\ n \in Turns(p, ops) /\ n > i
    BY <1>6, <1>7, GoesOn
  <1>9. m \in Message
    <2>1. Part(p) \in Label
      BY <1>2, <1>4 DEF Label
    <2> HIDE DEF x
    <2> QED BY <2>1, <1>3 DEF Message
  <1>10. \A s \in Proc : Carries(R, p, s, r, i) <=> s \in Receivers(o)
    <2>1. ~Dropped(ops, i)
      BY <1>2 DEF Turns
    <2> QED BY <2>1, <1>1, <1>2, <1>4, Zenon DEF Carries
  <1>11. \A q \in Proc : ~Carries(R, q, p, r, i)
    <2>1. p \notin Receivers(o)
      BY <1>1, <1>2, Parties
    <2> QED BY <2>1, <1>2, Zenon DEF Carries
  <1>12. m.part = [round |-> r, at |-> i, op |-> ops[i]] /\ m.val = Value(R, r, i)
    BY <1>2, <1>3
  <1> HIDE DEF m, x, o
  <1>13. /\ chan' \in [Proc -> [Proc -> Seq(Message)]]
         /\ \A q, s \in Proc :
              chan'[q][s] = IF q = p /\ s \in Receivers(o) THEN Append(chan[q][s], m) ELSE chan[q][s]
    <2> DEFINE row == [q \in Proc |-> IF q \in Receivers(o) THEN Append(chan[p][q], m) ELSE chan[p][q]]
    <2>1. chan \in [Proc -> [Proc -> Seq(Message)]]
      BY DEF NetTypes
    <2>2. \A q \in Proc : chan[p][q] \in Seq(Message) /\ Append(chan[p][q], m) \in Seq(Message)
      BY <2>1, <1>9
    <2>3. row \in [Proc -> Seq(Message)]
      BY <2>2
    <2>4. \A q \in Proc : row[q] = IF q \in Receivers(o) THEN Append(chan[p][q], m) ELSE chan[p][q]
      BY Zenon
    <2> HIDE DEF row
    <2>5. chan' = [chan EXCEPT ![p] = row]
      BY <1>1, Zenon DEF row, m, x, o
    <2> QED BY <2>1, <2>3, <2>4, <2>5
  <1>14. ChannelsFit(R)'
    <2>1. ChannelsFit(R)
      BY DEF Placed
    <2>2. \A q, s \in Proc :
             chan'[q][s] = IF q = p /\ Carries(R, q, s, r, i) THEN Append(chan[q][s], m)
                           ELSE IF s = p /\ Carries(R, q, s, r, i) THEN Tail(chan[q][s])
                           ELSE chan[q][s]
      BY <1>10, <1>11, <1>13, Zenon
    <2>3. \A s \in Proc : Carries(R, p, s, r, i) =>
             /\ m \in Message /\ m.val = Value(R, r, i)
             /\ m.part = [round |-> r, at |-> i, op |-> ops[i]]
      BY <1>9, <1>12, Zenon
    <2>4. \A q \in Proc : Carries(R, q, p, r, i) => chan[q][p] # <<>>
      BY <1>11
    <2>5. Conveys(R, p, m)
      BY <2>2, <2>3, <2>4, Zenon DEF Conveys
    <2> QED BY <2>1, <2>5, <1>8, ChannelsMove
  <1>15. NetTypes'
    BY <1>1, <1>8, <1>13, Zenon DEF NetTypes
  <1>16. pc' = pc /\ clk' = clk /\ offers' = offers /\ told' = told /\ collected' = collected /\ have' = have
    BY <1>1, Zenon
  <1>17. RoundsFit(R)'
    <2>1. \A q \in Compute : Started(q)' = Started(q)
      BY <1>1, <1>6, <1>7, <1>16, StartedKept, Zenon DEF Placed
    <2>2. \A q \in Compute : Taken(q)' = Taken(q)
      BY <1>16, Zenon DEF Taken
    <2> QED BY <2>1, <2>2, <1>16, RoundsKept
  <1>18. \A q \in Compute : ComputeFits(R, q)'
    BY <1>1, <1>6, <1>7, <1>16, ComputeGoes, Zenon DEF Placed
  <1>19. CASE p \in Compute
    <2>1. at'[omaster] = at[omaster] /\ round'[omaster] = round[omaster]
      BY <1>8, <1>19, Processes
    <2>2. MasterFits(R)'
      BY <2>1, <1>16, Zenon DEF MasterFits, Placed
    <2>3. DataFits'
      BY <2>1, <1>16, Zenon DEF DataFits, Informed, Gathered, Brought, Passed
    <2> QED BY <2>2, <2>3, <1>14, <1>15, <1>17, <1>18, Zenon DEF Placed
  <1>20. CASE p = omaster
    <2>1. /\ pc[omaster] = "output" /\ i > 3 /\ o.op \in {"flag", "place"}
          /\ r \in 1..Len(R) /\ told = R[r] /\ ops = Plan(told)
      <3>1. MasterFits(R) /\ pc[omaster] = "output" /\ i > 3 /\ i # 0 /\ o.op \in {"flag", "place"}
        BY <1>1, <1>3, <1>20, Zenon DEF Placed, Informed
      <3>2. r \in 1..Len(R) /\ told = R[r]
        BY <3>1, <1>20 DEF MasterFits
      <3> QED BY <3>1, <3>2, PlanRegular
    <2>2. MasterFits(R)'
      <3>1. CASE n = 0
        <4>1. at'[omaster] = 0 /\ round'[omaster] = r + 1 /\ (r + 1) - 1 = r
          BY <3>1, <1>4, <1>8, <1>20
        <4> QED BY <4>1, <2>1, <1>16, Zenon DEF MasterFits
      <3>2. CASE n # 0
        <4>1. /\ at'[omaster] = n /\ round'[omaster] = r /\ n \in Turns(omaster, ops) 
              /\ n > i
          BY <3>2, <1>8, <1>20
        <4>2. n \in Nat
          BY <4>1, <1>4, TurnsPositive
        <4>3. n > 3 /\ n >= 3
          BY <4>1, <4>2, <2>1, <1>4
        <4> QED BY <4>1, <4>3, <2>1, <1>16, <3>2, Zenon DEF MasterFits
      <3> QED BY <3>1, <3>2
    <2>3. DataFits'
      <3>1. ASSUME NEW k \in 1..Len(ops), ops[k].op \in Brings
            PROVE  Passed(k)' => \E h \in 1..Len(ops) : Passed(h) /\ ops[h] = ops[k]
        <4> SUFFICES ASSUME Passed(k)' PROVE \E h \in 1..Len(ops) : Passed(h) /\ ops[h] = ops[k]
          OBVIOUS
        <4>1. n = 0 \/ k < n
          BY <1>8, <1>20, Zenon DEF Passed
        <4>2. PICK h \in 1..Len(ops) : h <= i /\ ops[h] = ops[k]
          BY <3>1, <4>1, <1>4, <1>6, <1>20, PassedBefore
        <4>3. h # i
          BY <3>1, <4>2, <2>1, <1>2 DEF Brings
        <4>4. h < i
          BY <4>2, <4>3, <1>4
        <4> QED BY <4>2, <4>4, <1>20, Zenon DEF Passed
      <3>2. ASSUME NEW k \in 1..Len(ops), Passed(k)
            PROVE  Passed(k)'
        <4>1. k < i
          BY <3>2, <1>1, <1>20, Zenon DEF Passed
        <4>2. n = 0 \/ k < n
          <5>1. n # 0 => n \in Nat /\ n > i
            BY <1>4, <1>8, TurnsPositive, Zenon
          <5> QED BY <4>1, <5>1, <1>4
        <4> QED BY <4>2, <1>8, <1>20, Zenon DEF Passed
      <3>3. /\ \A v : v \in collected <=> Gathered(ops, v)
            /\ \A k \in 1..Len(ops) : Passed(k) /\ ops[k].op \in Brings =>
                 \A q \in Senders(ops[k]) : have[ops[k].of][q] = told.t
        <4>1. (\A v : v \in collected <=> Gathered(ops, v)) /\ Brought(ops)
          BY <1>3, <1>20, <2>1, Zenon DEF DataFits
        <4> QED BY <4>1, Zenon DEF Brought
      <3>4. \A v : OpOf("gather", v).op \in Brings
        BY DEF OpOf, Brings
      <3>5. \A v : v \in collected <=> \E k \in 1..Len(ops) : Passed(k)' /\ ops[k] = OpOf("gather", v)
        <4> SUFFICES ASSUME NEW v
                     PROVE  v \in collected <=> \E k \in 1..Len(ops) : Passed(k)' /\ ops[k] = OpOf("gather", v)
          OBVIOUS
        <4>1. v \in collected <=> \E k \in 1..Len(ops) : Passed(k) /\ ops[k] = OpOf("gather", v)
          BY <3>3, Zenon DEF Gathered
        <4>2. OpOf("gather", v).op \in Brings
          BY <3>4
        <4> QED BY <4>1, <4>2, <3>1, <3>2, Zenon
      <3>6. ASSUME NEW k \in 1..Len(ops), Passed(k)', ops[k].op \in Brings
            PROVE  \A q \in Senders(ops[k]) : have[ops[k].of][q] = told.t
        <4>1. PICK h \in 1..Len(ops) : Passed(h) /\ ops[h] = ops[k]
          BY <3>1, <3>6, Zenon
        <4> QED BY <4>1, <3>3, <3>6, Zenon
      <3>7. ops = Plan(told') /\ collected' = collected /\ have' = have /\ told' = told
        BY <2>1, <1>16, Zenon
      <3>8. \A v : v \in collected' <=> \E k \in 1..Len(ops) : Passed(k)' /\ ops[k] = OpOf("gather", v)
        BY <3>5, <3>7, Zenon
      <3>9. \A k \in 1..Len(ops) : Passed(k)' /\ ops[k].op \in Brings =>
              \A q \in Senders(ops[k]) : have'[ops[k].of][q] = told'.t
        BY <3>6, <3>7, Zenon
      <3> QED BY <3>7, <3>8, <3>9, DataKept
    <2> QED BY <2>2, <2>3, <1>14, <1>15, <1>17, <1>18, Zenon DEF Placed
  <1> QED BY <1>19, <1>20, Processes

\* A receive takes the messages of the operation the receiver is at.
LEMMA Arrives ==
    ASSUME NEW R \in Seq(Clock), Placed(R), NetTypes, NEW p \in Proc, Receive(p)
    PROVE  /\ Conveys(R, p, 0) /\ chan' \in [Proc -> [Proc -> Seq(Message)]]
           /\ at[p] # 0 /\ p \in Receivers(Here(p))
           /\ \A q \in Senders(Here(p)) :
                /\ Head(chan[q][p]).part = Part(p)
                /\ Head(chan[q][p]).val = Value(R, round[p], at[p])
  <1> DEFINE r == round[p]
             i == at[p]
             ops == PlanOf(R, r)
             o == Here(p)
  <1>1. /\ at[p] # 0 /\ p \in Receivers(o)
        /\ \A q \in Senders(o) : chan[q][p] # <<>>
        /\ chan' = [q \in Proc |-> IF q \in Senders(o) THEN [chan[q] EXCEPT ![p] = Tail(@)] ELSE chan[q]]
    BY Zenon DEF Receive
  <1>2. /\ i \in Turns(p, ops) /\ o = ops[i] /\ o \in Operation
        /\ Part(p) = [round |-> r, at |-> i, op |-> ops[i]]
    BY <1>1, HereFits
  <1>3. Regular(ops) /\ i \in 1..Len(ops) /\ r \in Nat \ {0} /\ i \in Nat
    BY <1>2, PlanRegular, TurnsPositive DEF NetTypes
  <1>4. \A q \in Proc : Carries(R, q, p, r, i) <=> q \in Senders(o)
    <2>1. ~Dropped(ops, i)
      BY <1>2 DEF Turns
    <2> QED BY <2>1, <1>1, <1>2, <1>3, Zenon DEF Carries
  <1>5. \A s \in Proc : ~Carries(R, p, s, r, i)
    <2>1. p \notin Senders(o)
      BY <1>1, <1>2, Parties
    <2> QED BY <2>1, <1>2, Zenon DEF Carries
  <1>6. Senders(o) \subseteq Proc
    BY <1>2, Parties
  <1>7. ASSUME NEW q \in Senders(o)
        PROVE  /\ Head(chan[q][p]).part = Part(p)
               /\ Head(chan[q][p]).val = Value(R, r, i)
    <2>1. q \in Proc /\ chan[q][p] # <<>> /\ Carries(R, q, p, r, i)
      BY <1>1, <1>4, <1>6
    <2>2. Fits(R, q, p, chan[q][p], round[q], at[q], r, i)
      BY <2>1, Zenon DEF Placed, ChannelsFit
    <2>3. chan[q][p] \in Seq(Message) /\ round[q] \in Nat /\ at[q] \in Nat /\ r \in Nat
      BY <2>1 DEF NetTypes
    <2>4. /\ Head(chan[q][p]).part = [round |-> r, at |-> i, op |-> PlanOf(R, r)[i]]
          /\ Head(chan[q][p]).val = Value(R, r, i)
      BY <2>1, <2>2, <2>3, <1>3, HeadFits
    <2> QED BY <2>4, <1>2
  <1> HIDE DEF o
  <1>8. \A q, s \in Proc :
          chan'[q][s] = IF s = p /\ q \in Senders(o) THEN Tail(chan[q][s]) ELSE chan[q][s]
    <2>1. chan \in [Proc -> [Proc -> Seq(Message)]]
      BY DEF NetTypes
    <2> QED BY <2>1, <1>1
  <1>9. chan' \in [Proc -> [Proc -> Seq(Message)]]
    <2>1. chan \in [Proc -> [Proc -> Seq(Message)]]
      BY DEF NetTypes
    <2>2. \A q \in Senders(o) : Tail(chan[q][p]) \in Seq(Message)
      BY <2>1, <1>1, <1>6
    <2>3. \A q \in Senders(o) : [chan[q] EXCEPT ![p] = Tail(@)] \in [Proc -> Seq(Message)]
      BY <2>1, <2>2, <1>6
    <2> QED BY <2>1, <2>3, <1>1
  <1>10. Conveys(R, p, 0)
    <2>1. \A q \in Proc : Carries(R, q, p, r, i) => chan[q][p] # <<>>
      BY <1>1, <1>4
    <2>2. \A q, s \in Proc :
             chan'[q][s] = IF q = p /\ Carries(R, q, s, r, i) THEN Append(chan[q][s], 0)
                           ELSE IF s = p /\ Carries(R, q, s, r, i) THEN Tail(chan[q][s])
                           ELSE chan[q][s]
      BY <1>4, <1>5, <1>8, Zenon
    <2> QED BY <2>1, <2>2, <1>5, Zenon DEF Conveys
  <1> QED BY <1>1, <1>7, <1>9, <1>10 DEF o

\* What a move means for the others.
LEMMA PartyMoves ==
    ASSUME NEW R \in Seq(Clock), RoundsFit(R), Placed(R), NetTypes, DataFits,
           NEW p \in Proc, at[p] # 0, NEW n, Goes(p, n),
           NextTurn(p, PlanOf(R, round[p]), at[p], n),
           NEW m, Conveys(R, p, m), clk' = clk, offers' = offers,
           \A q \in Compute : pc'[q] = pc[q]
    PROVE  /\ RoundsFit(R)' /\ ChannelsFit(R)' /\ \A q \in Compute : ComputeFits(R, q)'
           /\ round' \in [Proc -> Nat \ {0}] /\ at' \in [Proc -> Nat] /\ at'[p] = n
           /\ n = 0 => round'[p] = round[p] + 1
           /\ n # 0 => round'[p] = round[p] /\ n \in Turns(p, PlanOf(R, round[p])) /\ n > at[p]
           /\ p \in Compute /\ UNCHANGED <<pc, told, collected, have>> => Placed(R)' /\ DataFits'
  <1>1. /\ Moves(R, p, round[p], at[p], round'[p], at'[p])
        /\ round' \in [Proc -> Nat \ {0}] /\ at' \in [Proc -> Nat]
        /\ \A q \in Proc : q # p => round'[q] = round[q] /\ at'[q] = at[q]
        /\ at'[p] = n
        /\ n = 0 => round'[p] = round[p] + 1
        /\ n # 0 => round'[p] = round[p] /\ n \in Turns(p, PlanOf(R, round[p])) /\ n > at[p]
    BY GoesOn
  <1>2. ChannelsFit(R)'
    <2>1. ChannelsFit(R)
      BY DEF Placed
    <2> QED BY <2>1, <1>1, ChannelsMove
  <1>3. \A q \in Compute : ComputeFits(R, q)
    BY DEF Placed
  <1>4. RoundsFit(R)'
    <2>1. \A q \in Compute : Started(q)' = Started(q)
      BY <1>3, StartedKept
    <2>2. \A q \in Compute : Taken(q)' = Taken(q)
      BY Zenon DEF Taken
    <2> QED BY <2>1, <2>2, RoundsKept
  <1>5. \A q \in Compute : ComputeFits(R, q)'
    BY <1>3, ComputeGoes
  <1>6. ASSUME p \in Compute, UNCHANGED <<pc, told, collected, have>>
        PROVE  Placed(R)' /\ DataFits'
    <2>1. /\ at'[omaster] = at[omaster] /\ round'[omaster] = round[omaster]
          /\ pc' = pc /\ told' = told /\ collected' = collected /\ have' = have
      BY <1>1, <1>6, Processes
    <2>2. MasterFits(R)'
      BY <2>1, Zenon DEF MasterFits, Placed
    <2>3. DataFits'
      BY <2>1, Zenon DEF DataFits, Informed, Gathered, Brought, Passed
    <2> QED BY <2>2, <2>3, <1>2, <1>5, Zenon DEF Placed
  <1> QED BY <1>1, <1>2, <1>4, <1>5, <1>6

LEMMA ComputeReceives ==
    ASSUME NEW R \in Seq(Clock), RoundsFit(R), Placed(R), NetTypes, DataFits,
           NEW p \in Compute, Receive(p)
    PROVE  NetTypes' /\ DataFits' /\ RoundsFit(R)' /\ Placed(R)'
  <1> DEFINE r == round[p]
             i == at[p]
             ops == PlanOf(R, r)
             o == Here(p)
             from == [q \in Senders(o) |-> Head(chan[q][p]).val]
             x == from[CHOOSE q \in Senders(o) : TRUE]
             n == After(p, Ops(p), Past(i, o, x))
  <1>1. p \in Proc /\ p # omaster
    BY Processes
  <1>2. /\ Conveys(R, p, 0) /\ chan' \in [Proc -> [Proc -> Seq(Message)]]
        /\ at[p] # 0 /\ p \in Receivers(o)
        /\ \A q \in Senders(o) : Head(chan[q][p]).val = Value(R, r, i)
    BY <1>1, Arrives
  <1>3. /\ Proceed(p, Ops(p), Past(i, o, x))
        /\ pc' = pc /\ told' = told /\ collected' = collected /\ have' = have
        /\ clk' = clk /\ offers' = offers
    BY <1>1, Zenon DEF Receive
  <1>4. /\ i \in Turns(p, ops) /\ o = ops[i] /\ o \in Operation /\ Ops(p) = ops
    BY <1>1, <1>2, HereFits
  <1>5. Regular(ops)
    BY PlanRegular
  <1>6. o.op = "flag" => x = Dropped(ops, i + 1)
    <2> SUFFICES ASSUME o.op = "flag" PROVE x = Dropped(ops, i + 1)
      OBVIOUS
    <2>1. Senders(o) = {omaster}
      BY <1>4, Parties
    <2>2. (CHOOSE q \in Senders(o) : TRUE) = omaster /\ omaster \in Senders(o)
      BY <2>1
    <2>3. x = Head(chan[omaster][p]).val
      BY <2>2, Zenon
    <2>4. x = Value(R, r, i)
      BY <1>2, <2>2, <2>3
    <2>5. Value(R, r, i) = Dropped(ops, i + 1)
      BY <1>4 DEF Value
    <2> QED BY <2>4, <2>5, Zenon
  <1> HIDE DEF x
  <1>7. NextTurn(p, ops, i, n)
    <2> DEFINE known == IF o.op = "flag" THEN x ELSE FALSE
    <2>1. Dropped(ops, i + 1) \in BOOLEAN
      BY DEF Dropped
    <2>2. known \in BOOLEAN /\ (ops[i].op = "flag" => (known <=> Dropped(ops, i + 1)))
      BY <2>1, <1>4, <1>6
    <2>3. Past(i, o, x) = Past(i, ops[i], known)
      BY <1>4 DEF Past
    <2> HIDE DEF known
    <2>4. NextTurn(p, ops, i, After(p, ops, Past(i, ops[i], known)))
      BY <2>2, <1>1, <1>4, <1>5, TurnFollows
    <2> QED BY <2>3, <2>4, <1>4, Zenon
  <1>8. Goes(p, n)
    BY <1>1, <1>3, ProceedGoes
  <1> HIDE DEF n
  <1>9. /\ RoundsFit(R)' /\ Placed(R)' /\ DataFits'
        /\ round' \in [Proc -> Nat \ {0}] /\ at' \in [Proc -> Nat]
    BY <1>1, <1>2, <1>3, <1>7, <1>8, PartyMoves
  <1>10. NetTypes'
    BY <1>2, <1>3, <1>9, Zenon DEF NetTypes
  <1> QED BY <1>9, <1>10

\* Where xomaster goes from the operation it receives.
LEMMA MasterReceives ==
    ASSUME NEW R \in Seq(Clock), Placed(R), NetTypes, Receive(omaster)
    PROVE  LET p == omaster
               i == at[omaster]
               ops == PlanOf(R, round[omaster])
               o == Here(omaster)
               n == After(omaster, Following, at[omaster])
           IN  /\ Goes(p, n) /\ NextTurn(p, ops, i, n)
               /\ o = ops[i] /\ o \in Operation /\ i \in Turns(p, ops)
               /\ \/ /\ pc[p] = "asleep" /\ i = 1 /\ o = Op("wake") /\ n = 2
                     /\ pc' = pc /\ told' = told
                  \/ /\ pc[p] = "asleep" /\ i = 2 /\ o = Op("end") /\ told' = told
                     /\ IF round[p] > Len(R)
                        THEN n = 0 /\ pc' = [pc EXCEPT ![p] = "barrier"]
                        ELSE n = 3 /\ pc' = [pc EXCEPT ![p] = "output"]
                  \/ /\ pc[p] = "output" /\ i = 3 /\ o = Op("tell") /\ pc' = pc
                     /\ round[p] \in 1..Len(R) /\ told' = R[round[p]] 
                  \/ /\ pc[p] = "output" /\ i > 3 /\ o.op \in Brings /\ pc' = pc
                     /\ round[p] \in 1..Len(R) /\ told = R[round[p]] /\ told' = told
  <1> DEFINE p == omaster
             r == round[p]
             i == at[p]
             ops == PlanOf(R, r)
             o == Here(p)
             from == [q \in Senders(o) |-> Head(chan[q][p]).val]
             x == from[CHOOSE q \in Senders(o) : TRUE]
             n == After(p, Following, i)
  <1>1. /\ at[p] # 0 /\ p \in Receivers(o)
        /\ \A q \in Senders(o) : Head(chan[q][p]).val = Value(R, r, i)
    BY Processes, Arrives
  <1>2. /\ pc' = [pc EXCEPT ![p] = IF o.op # "end" THEN @ ELSE IF x THEN "barrier" ELSE "output"]
        /\ told' = IF o.op = "tell" THEN from[imaster] ELSE told
        /\ Proceed(p, Following, i)
    BY Zenon DEF Receive, Absorb
  <1>3. i \in Turns(p, ops) /\ o = ops[i] /\ o \in Operation
    BY <1>1, Processes, HereFits
  <1>4. Regular(ops) /\ i \in 1..Len(ops) /\ Len(ops) \in Nat /\ r \in Nat \ {0} /\ i \in Nat
    <2>1. Regular(ops) /\ r \in Nat \ {0} /\ i \in Nat
      BY PlanRegular, Processes DEF NetTypes
    <2>2. i \in 1..Len(ops)
      BY <1>3, <2>1, TurnsPositive, Zenon
    <2> QED BY <2>1, <2>2 DEF Regular
  <1>5. /\ r \in 1..Len(R) => R[r] \in Clock /\ ops = Plan(R[r]) /\ Complete(ops, R[r])
        /\ r \notin 1..Len(R) => ops = Announce
    BY PlanRegular
  <1>6. MasterFits(R) /\ told \in Clock /\ Regular(Plan(told)) /\ Complete(Plan(told), told)
    <2>1. MasterFits(R) /\ told \in Clock
      BY DEF Placed, NetTypes
    <2> QED BY <2>1, PlanShape
  <1>7. Goes(p, n)
    BY <1>2, Processes, ProceedGoes
  <1>8. ASSUME NEW S, Regular(S), NEW j \in Nat, j \in 0..Len(S), j + 1 \in 1..Len(S) => ~Dropped(S, j + 1)
        PROVE  /\ NextTurn(p, S, j, After(p, S, j))
               /\ \A k : k \in Turns(p, S) /\ k = j + 1 => After(p, S, j) = k
    <2>1. NextTurn(p, S, j, After(p, S, j))
      BY <1>8, Processes, AfterIsTurn
    <2>2. Turns(p, S) \subseteq Nat \ {0}
      BY <1>8, TurnsPositive
    <2> QED BY <2>1, <2>2 DEF NextTurn
  <1>9. ASSUME NEW S, Regular(S)
        PROVE  /\ 2 \in Turns(p, S) /\ 2 \in 1..Len(S) /\ Len(S) \in Nat
               /\ ~Dropped(S, 2) /\ ~Dropped(S, 3)
               /\ \A c \in Clock : Complete(S, c) => 3 \in Turns(p, S) /\ 3 \in 1..Len(S)
    <2>1. S[1].op = "wake" /\ S[2].op = "end" /\ Len(S) \in Nat /\ Len(S) >= 2
      BY <1>9 DEF Regular, Op
    <2>2. 1 \in 1..Len(S) /\ 2 \in 1..Len(S)
      BY <2>1
    <2>3. ~Dropped(S, 2)
      BY <2>1 DEF Dropped
    <2>4. ~Dropped(S, 3)
      <3> SUFFICES ASSUME Dropped(S, 3) PROVE FALSE
        OBVIOUS
      <3>1. S[3].op = "gather" /\ S[3] \in {S[1], S[2]}
        BY DEF Dropped
      <3> QED BY <3>1, <2>1
    <2>5. S[2] \in Operation
      BY <1>9, <2>2 DEF Regular
    <2>6. TakesPart(p, S[2])
      BY <2>1, <2>5, Processes, AllTakePart
    <2>7. ASSUME NEW c \in Clock, Complete(S, c)
          PROVE  3 \in Turns(p, S) /\ 3 \in 1..Len(S)
      <3>1. 3 \in 1..Len(S) /\ S[3] = Op("tell")
        BY <2>1, <2>7 DEF Complete
      <3>2. TakesPart(p, S[3])
        BY <3>1 DEF Op, TakesPart, Receivers
      <3> QED BY <3>1, <3>2, <2>4 DEF Turns
    <2> QED BY <2>1, <2>2, <2>3, <2>4, <2>6, <2>7 DEF Turns
  <1> HIDE DEF n
  <1>10. CASE pc[p] = "asleep" /\ i = 1
    <2>1. o = Op("wake")
      BY <1>3, <1>4, <1>10 DEF Regular
    <2>2. told' = told /\ pc' = pc
      <3>1. pc' = [pc EXCEPT ![p] = pc[p]] /\ told' = told
        BY <1>2, <2>1 DEF Op
      <3> QED BY <3>1 DEF NetTypes
    <2>3. NextTurn(p, Plan(told'), 1, n) /\ n = 2
      <3>1. Following = Plan(told')
        BY <2>2, <1>10 DEF Following
      <3>2. n = After(p, Plan(told'), 1)
        BY <3>1, <1>10 DEF n
      <3> QED BY <3>2, <2>2, <1>6, <1>8, <1>9
    <2>4. NextTurn(p, ops, 1, 2)
      <3>1. 2 \in Turns(p, ops)
        BY <1>4, <1>9
      <3>2. \A j \in Turns(p, ops) : j > 1 => j >= 2
        BY <1>4, TurnsPositive
      <3> QED BY <3>1, <3>2 DEF NextTurn
    <2> QED BY <2>1, <2>2, <2>3, <2>4, <1>3, <1>7, <1>10, Zenon DEF n
  <1>11. CASE pc[p] = "asleep" /\ i = 2
    <2>1. o = Op("end")
      BY <1>3, <1>4, <1>11 DEF Regular
    <2>2. x = (r > Len(R))
      <3>1. Senders(o) = {imaster} /\ o.op = "end"
        BY <2>1 DEF Op, Senders
      <3>2. (CHOOSE q \in Senders(o) : TRUE) = imaster /\ imaster \in Senders(o)
        BY <3>1
      <3>3. x = Head(chan[imaster][p]).val
        BY <3>2, Zenon
      <3>4. x = Value(R, r, i)
        BY <3>2, <3>3, <1>1
      <3>5. Value(R, r, i) = (r > Len(R))
        BY <3>1, <1>3 DEF Value
      <3> QED BY <3>4, <3>5, Zenon
    <2>3. /\ told' = told
          /\ pc' = [pc EXCEPT ![p] = IF r > Len(R) THEN "barrier" ELSE "output"]
      <3> HIDE DEF x
      <3>1. o.op = "end"
        BY <2>1 DEF Op
      <3> QED BY <3>1, <2>2, <1>2
    <2>4. pc'[p] = IF r > Len(R) THEN "barrier" ELSE "output"
      BY <2>3, Processes DEF NetTypes
    <2>5. CASE r > Len(R)
      <3>1. ops = Announce /\ Len(ops) = 2
        <4>1. Len(R) \in Nat
          OBVIOUS
        <4>2. r \notin 1..Len(R)
          BY <4>1, <2>5, <1>4
        <4> QED BY <4>2, <1>5, Announcement
      <3>2. Following = ops
        BY <3>1, <2>4, <2>5 DEF Following
      <3>3. n = After(p, ops, 2)
        BY <3>2, <1>11 DEF n
      <3>4. NextTurn(p, ops, 2, n)
        <4>1. 2 \in 0..Len(ops) /\ 2 \in Nat /\ ~ (2 + 1 \in 1..Len(ops))
          BY <3>1
        <4>2. NextTurn(p, ops, 2, After(p, ops, 2))
          BY <4>1, <1>4, <1>8
        <4> QED BY <4>2, <3>3
      <3>5. n = 0
        <4>1. \A j \in Turns(p, ops) : j \in 1..2
          BY <3>1, <1>4, TurnsPositive
        <4> QED BY <3>4, <4>1 DEF NextTurn
      <3> QED BY <3>4, <3>5, <2>1, <2>3, <2>5, <1>3, <1>7, <1>11, Zenon DEF n
    <2>6. CASE ~ (r > Len(R))
      <3>1. r \in 1..Len(R)
        <4>1. Len(R) \in Nat
          OBVIOUS
        <4> QED BY <4>1, <2>6, <1>4
      <3>2. Following = Plan(told)
        BY <2>3, <2>4, <2>6 DEF Following
      <3>3. n = After(p, Plan(told), 2)
        BY <3>2, <1>11 DEF n
      <3>4. 3 \in Turns(p, Plan(told)) /\ ~Dropped(Plan(told), 3) /\ 2 \in 0..Len(Plan(told))
        <4>1. 3 \in Turns(p, Plan(told)) /\ ~Dropped(Plan(told), 3) /\ 2 \in 1..Len(Plan(told))
          BY <1>6, <1>9
        <4> QED BY <4>1
      <3>5. n = 3
        BY <3>3, <3>4, <1>6, <1>8
      <3>6. NextTurn(p, ops, 2, 3)
        <4>1. 3 \in Turns(p, ops)
          BY <3>1, <1>4, <1>5, <1>9
        <4>2. \A j \in Turns(p, ops) : j > 2 => j >= 3
          BY <1>4, TurnsPositive
        <4> QED BY <4>1, <4>2 DEF NextTurn
      <3> QED BY <3>5, <3>6, <2>1, <2>3, <2>6, <1>3, <1>7, <1>11, Zenon DEF n
    <2> QED BY <2>5, <2>6
  <1>12. CASE pc[p] = "output"
    <2>1. i >= 3 /\ r \in 1..Len(R) /\ (i > 3 => told = R[r])
      BY <1>1, <1>6, <1>12, Zenon DEF MasterFits
    <2>2. R[r] \in Clock /\ ops = Plan(R[r]) /\ Complete(ops, R[r])
      BY <2>1, <1>5
    <2>3. o.op \notin {"wake", "end"}
      BY <2>1, <1>3, <1>4 DEF Regular
    <2>4. pc' = pc
      <3>1. pc' = [pc EXCEPT ![p] = pc[p]]
        <4> HIDE DEF x
        <4> QED BY <2>3, <1>2
      <3> QED BY <3>1 DEF NetTypes
    <2>5. Following = Plan(told')
      BY <2>4, <1>12 DEF Following
    <2>6. CASE i = 3
      <3>1. o = Op("tell")
        BY <2>2, <2>6, <1>3 DEF Complete
      <3>2. told' = R[r]
        <4>1. o.op = "tell" /\ imaster \in Senders(o)
          BY <3>1 DEF Op, Senders
        <4>2. told' = Head(chan[imaster][p]).val
          BY <4>1, <1>2
        <4>3. Value(R, r, i) = R[r]
          BY <4>1, <1>3 DEF Value
        <4> QED BY <4>1, <4>2, <4>3, <1>1
      <3>3. n = After(p, ops, 3)
        BY <2>2, <2>5, <2>6, <3>2 DEF n
      <3>4. 3 + 1 \in 1..Len(ops) => ~Dropped(ops, 3 + 1)
        <4> SUFFICES ASSUME 3 + 1 \in 1..Len(ops), Dropped(ops, 3 + 1) PROVE FALSE
          OBVIOUS
        <4>1. ops[(3 + 1) - 1] = OpOf("flag", ops[3 + 1].of)
          BY <1>4 DEF Regular
        <4>2. ops[3].op = "flag"
          BY <4>1 DEF OpOf
        <4> QED BY <4>2, <3>1, <2>6, <1>3 DEF Op
      <3>5. NextTurn(p, ops, 3, n)
        BY <3>3, <3>4, <2>6, <1>4, <1>8
      <3> QED BY <3>1, <3>2, <3>5, <2>1, <2>4, <2>6, <1>3, <1>7, <1>12, Zenon DEF n
    <2>7. CASE i > 3
      <3>1. o.op \in Brings
        <4>1. o.op # "tell"
          BY <2>2, <2>7, <1>3, <1>4 DEF Complete
        <4>2. p \notin Compute /\ p # imaster
          BY Processes
        <4> QED BY <4>1, <4>2, <2>3, <1>1, <1>3, Parties DEF Brings, Operation
      <3>2. told' = told
        <4>1. o.op # "tell"
          BY <3>1 DEF Brings
        <4> QED BY <4>1, <1>2
      <3>3. told = R[r]
        BY <2>1, <2>7
      <3>4. n = After(p, ops, Past(i, ops[i], FALSE))
        BY <2>2, <2>5, <3>2, <3>3 DEF n, Past
      <3>5. NextTurn(p, ops, i, n)
        <4>1. ops[i].op = "flag" => (FALSE <=> Dropped(ops, i + 1))
          BY <3>1, <1>3 DEF Brings
        <4>2. NextTurn(p, ops, i, After(p, ops, Past(i, ops[i], FALSE)))
          BY <4>1, <1>3, <1>4, Processes, TurnFollows
        <4> QED BY <3>4, <4>2, Zenon
      <3> QED BY <3>1, <3>2, <3>3, <3>5, <2>1, <2>4, <2>7, <1>3, <1>7, <1>12, Zenon DEF n
    <2>8. i = 3 \/ i > 3
      BY <2>1, <1>4
    <2> QED BY <2>6, <2>7, <2>8
  <1>13. (pc[p] = "asleep" /\ i = 1) \/ (pc[p] = "asleep" /\ i = 2) \/ pc[p] = "output"
    <2>1. /\ pc[omaster] \in {"asleep", "output", "barrier", "done"}
          /\ pc[omaster] = "asleep" => at[omaster] \in {1, 2}
          /\ pc[omaster] \in {"barrier", "done"} => at[omaster] = 0
      BY <1>6, Zenon DEF MasterFits
    <2>2. at[omaster] # 0
      BY <1>1
    <2> HIDE DEF o, x, n
    <2> QED BY <2>1, <2>2
  <1> QED BY <1>10, <1>11, <1>12, <1>13

LEMMA MasterKeeps ==
    ASSUME NEW R \in Seq(Clock), RoundsFit(R), Placed(R), NetTypes, DataFits, Receive(omaster)
    PROVE  NetTypes' /\ DataFits' /\ RoundsFit(R)' /\ Placed(R)'
  <1> DEFINE p == omaster
             r == round[p]
             i == at[p]
             ops == PlanOf(R, r)
             o == Here(p)
             from == [q \in Senders(o) |-> Head(chan[q][p]).val]
             n == After(p, Following, i)
  <1>1. /\ Conveys(R, p, 0) /\ chan' \in [Proc -> [Proc -> Seq(Message)]]
        /\ at[p] # 0
        /\ \A q \in Senders(o) : Head(chan[q][p]).val = Value(R, r, i)
    BY Processes, Arrives
  <1>2. /\ clk' = clk /\ offers' = offers
        /\ collected' = CASE o.op = "tell"   -> {}
                          [] o.op = "gather" -> collected \cup {o.of}
                          [] OTHER           -> collected
        /\ have' = IF o.of \in Field /\ o.op # "place"
                   THEN [have EXCEPT ![o.of] = [q \in Compute |->
                            IF q \in Senders(o) THEN from[q] ELSE @[q]]]
                   ELSE have
    BY Zenon DEF Receive, Absorb
  <1>3. /\ Goes(p, n) /\ NextTurn(p, ops, i, n)
        /\ o = ops[i] /\ o \in Operation /\ i \in Turns(p, ops)
        /\ \/ /\ pc[p] = "asleep" /\ i = 1 /\ o = Op("wake") /\ n = 2
              /\ pc' = pc /\ told' = told
           \/ /\ pc[p] = "asleep" /\ i = 2 /\ o = Op("end") /\ told' = told
              /\ IF r > Len(R)
                 THEN n = 0 /\ pc' = [pc EXCEPT ![p] = "barrier"]
                 ELSE n = 3 /\ pc' = [pc EXCEPT ![p] = "output"]
           \/ /\ pc[p] = "output" /\ i = 3 /\ o = Op("tell") /\ pc' = pc
              /\ r \in 1..Len(R) /\ told' = R[r]
           \/ /\ pc[p] = "output" /\ i > 3 /\ o.op \in Brings /\ pc' = pc
              /\ r \in 1..Len(R) /\ told = R[r] /\ told' = told
    BY MasterReceives
  <1>4. /\ Regular(ops) /\ Len(R) \in Nat /\ r \in Nat \ {0} /\ i \in Nat
        /\ r \in 1..Len(R) => R[r] \in Clock /\ ops = Plan(R[r]) /\ Complete(ops, R[r])
    <2>1. Regular(ops) /\ (r \in 1..Len(R) => R[r] \in Clock /\ ops = Plan(R[r]) /\ Complete(ops, R[r]))
      BY PlanRegular
    <2>2. Len(R) \in Nat /\ r \in Nat \ {0} /\ i \in Nat
      BY Processes DEF NetTypes
    <2> QED BY <2>1, <2>2, Zenon
  <1>5. Len(ops) \in Nat /\ i \in 1..Len(ops)
    <2>1. Len(ops) \in Nat
      BY <1>4 DEF Regular
    <2> QED BY <2>1, <1>3, <1>4, TurnsPositive, Zenon
  <1>6. MasterFits(R)
    BY DEF Placed
  <1>7. \A q \in Compute : pc'[q] = pc[q]
    <2>1. pc \in [Proc -> {"asleep", "step", "reduce", "output", "final", "barrier", "done"}]
      BY DEF NetTypes
    <2>2. pc' = pc \/ \E z : pc' = [pc EXCEPT ![p] = z]
      BY <1>3
    <2> QED BY <2>1, <2>2, Processes
  <1> HIDE DEF n
  <1>8. /\ RoundsFit(R)' /\ ChannelsFit(R)' /\ \A q \in Compute : ComputeFits(R, q)'
        /\ round' \in [Proc -> Nat \ {0}] /\ at' \in [Proc -> Nat] /\ at'[p] = n
        /\ n = 0 => round'[p] = r + 1
        /\ n # 0 => round'[p] = r /\ n \in Turns(p, ops) /\ n > i
    <2> HIDE DEF o
    <2>1. p \in Proc /\ at[p] # 0 /\ Goes(p, n) /\ NextTurn(p, PlanOf(R, round[p]), at[p], n)
      BY <1>1, <1>3, Processes
    <2>2. Conveys(R, p, 0) /\ clk' = clk /\ offers' = offers
      BY <1>1, <1>2
    <2> QED BY <2>1, <2>2, <1>7, PartyMoves
  <1>9. /\ pc' \in [Proc -> {"asleep", "step", "reduce", "output", "final", "barrier", "done"}]
        /\ told' \in Clock
    <2>1. /\ pc \in [Proc -> {"asleep", "step", "reduce", "output", "final", "barrier", "done"}]
          /\ told \in Clock
      BY DEF NetTypes
    <2>2. pc' = pc \/ pc' = [pc EXCEPT ![p] = "barrier"] \/ pc' = [pc EXCEPT ![p] = "output"]
      BY <1>3
    <2>3. told' \in Clock
      BY <1>3, <1>4, <2>1
    <2> QED BY <2>1, <2>2, <2>3
  <1>10. o.op \in {"wake", "end", "tell"} => o.of = "none"
    BY <1>3 DEF Op, Brings
  <1>11. have' = have \/ o.op \in Brings
    <2>1. o.op \in {"wake", "end", "tell"} => have' = have
      BY <1>2, <1>10, FieldNames
    <2>2. o.op \in {"wake", "end", "tell"} \/ o.op \in Brings
      BY <1>3 DEF Op
    <2> QED BY <2>1, <2>2
  <1>12. ASSUME o.op \in Brings
         PROVE  /\ \A q \in Senders(o) : from[q] = R[r].t
                /\ Senders(o) \subseteq Compute /\ o.of \in Field
                /\ r \in 1..Len(R) /\ R[r].t \in 0..TStop
                /\ pc[p] = "output" /\ i > 3 /\ pc' = pc /\ told = R[r] /\ told' = told
    <2>1. o.op \notin {"wake", "end", "tell", "flag", "place"} /\ o.of \in Field
      BY <1>12, <1>3 DEF Brings, Operation
    <2>2. Value(R, r, i) = R[r].t
      BY <2>1, <1>3 DEF Value
    <2>3. \A q \in Senders(o) : from[q] = R[r].t
      BY <2>2, <1>1
    <2>4. Senders(o) \subseteq Compute
      BY <1>12, <1>3, Parties, Processes DEF Brings
    <2>5. /\ r \in 1..Len(R) /\ pc[p] = "output" /\ i > 3 /\ pc' = pc /\ told = R[r] /\ told' = told
      BY <1>3, <2>1 DEF Op
    <2>6. R[r].t \in 0..TStop
      BY <2>5, <1>4 DEF Clock
    <2> HIDE DEF o, from
    <2> QED BY <2>1, <2>3, <2>4, <2>5, <2>6
  <1>13. have' \in [Field -> [Compute -> {-1} \cup (0..TStop)]]
    <2>1. have \in [Field -> [Compute -> {-1} \cup (0..TStop)]]
      BY DEF NetTypes
    <2>2. CASE o.op \in Brings /\ have' # have
      <3> HIDE DEF o, from
      <3>1. have' = [have EXCEPT ![o.of] = [q \in Compute |->
                        IF q \in Senders(o) THEN from[q] ELSE have[o.of][q]]]
        BY <1>2, <2>2
      <3>2. \A q \in Senders(o) : from[q] \in 0..TStop
        BY <1>12, <2>2
      <3>3. [q \in Compute |-> IF q \in Senders(o) THEN from[q] ELSE have[o.of][q]]
                \in [Compute -> {-1} \cup (0..TStop)]
        BY <3>2, <2>1, <2>2, <1>12
      <3> QED BY <3>1, <3>3, <2>1
    <2> QED BY <2>1, <2>2, <1>11
  <1>14. NetTypes'
    BY <1>1, <1>8, <1>9, <1>13, Zenon DEF NetTypes
  <1> HIDE DEF o, from
  <1>15. MasterFits(R)'
    <2>1. /\ pc[p] = "asleep" => r \in 1..(Len(R) + 1)
          /\ pc \in [Proc -> {"asleep", "step", "reduce", "output", "final", "barrier", "done"}]
      BY <1>6, Zenon DEF MasterFits, NetTypes
    <2>2. CASE pc[p] = "asleep" /\ i = 1
      <3>1. pc'[omaster] = "asleep" /\ at'[omaster] = 2 /\ round'[omaster] = r /\ 2 \in Turns(omaster, ops)
        BY <1>3, <1>8, <2>2
      <3>2. round'[omaster] \in 1..(Len(R) + 1)
        BY <3>1, <2>1, <2>2
      <3> QED BY <3>1, <3>2 DEF MasterFits
    <2>3. CASE pc[p] = "asleep" /\ i = 2 /\ r > Len(R)
      <3>1. n = 0 /\ pc'[omaster] = "barrier"
        BY <1>3, <2>1, <2>3, Processes
      <3>2. at'[omaster] = 0 /\ round'[omaster] = Len(R) + 2
        BY <3>1, <1>4, <1>8, <2>1, <2>3
      <3> QED BY <3>1, <3>2 DEF MasterFits
    <2>4. CASE pc[p] = "asleep" /\ i = 2 /\ ~ (r > Len(R))
      <3>1. n = 3 /\ pc'[omaster] = "output"
        BY <1>3, <2>1, <2>4, Processes
      <3>2. at'[omaster] = 3 /\ round'[omaster] = r /\ 3 \in Turns(omaster, ops)
        BY <3>1, <1>8
      <3>3. r \in 1..Len(R)
        BY <1>4, <2>4
      <3> QED BY <3>1, <3>2, <3>3 DEF MasterFits
    <2>5. CASE pc[p] = "output"
      <3>1. pc'[omaster] = "output" /\ told' = R[r] /\ r \in 1..Len(R) /\ (i = 3 \/ i > 3)
        BY <1>3, <2>5
      <3>2. CASE n = 0
        <4>1. at'[omaster] = 0 /\ round'[omaster] = r + 1 /\ (r + 1) - 1 = r
          BY <3>2, <1>4, <1>8
        <4> QED BY <3>1, <4>1, Zenon DEF MasterFits
      <3>3. CASE n # 0
        <4>1. at'[omaster] = n /\ round'[omaster] = r /\ n \in Turns(omaster, ops) /\ n > i
          BY <3>3, <1>8
        <4>2. n \in Nat
          BY <4>1, <1>4, TurnsPositive
        <4>3. n >= 3
          BY <4>1, <4>2, <3>1, <1>4
        <4> QED BY <3>1, <3>3, <4>1, <4>3, Zenon DEF MasterFits
      <3> QED BY <3>2, <3>3
    <2> QED BY <1>3, <2>2, <2>3, <2>4, <2>5
  <1>16. ASSUME NEW k \in 1..Len(ops), Passed(k)', ops[k].op \in Brings
         PROVE  \E h \in 1..Len(ops) : h <= i /\ ops[h] = ops[k]
    <2>1. n = 0 \/ k < n
      BY <1>8, <1>16, Zenon DEF Passed
    <2> QED BY <2>1, <1>3, <1>4, <1>16, PassedBefore
  <1>17. CASE pc[p] = "asleep"
    <2>1. pc'[omaster] # "output" \/ at'[omaster] = 3
      <3>1. pc \in [Proc -> {"asleep", "step", "reduce", "output", "final", "barrier", "done"}]
        BY DEF NetTypes
      <3> QED BY <3>1, <1>3, <1>8, <1>17, Processes
    <2>2. ~Informed'
      BY <2>1 DEF Informed
    <2> QED BY <2>2, <1>8, <1>14, <1>15, Zenon DEF Placed, DataFits
  <1>18. CASE pc[p] = "output" /\ i = 3
    <2>1. o = Op("tell") /\ r \in 1..Len(R) /\ told' = R[r]
      BY <1>3, <1>18
    <2>2. ops = Plan(told') /\ collected' = {}
      BY <2>1, <1>2, <1>4 DEF Op
    <2>3. ASSUME NEW k \in 1..Len(ops), Passed(k)', ops[k].op \in Brings
          PROVE  FALSE
      <3>1. PICK h \in 1..Len(ops) : h <= i /\ ops[h] = ops[k]
        BY <1>16, <2>3
      <3>2. h \in 1..3
        BY <3>1, <1>18
      <3>3. ops[h].op \in {"wake", "end", "tell"}
        BY <3>2, <1>3, <1>4, <1>18, <2>1 DEF Regular, Op
      <3> QED BY <3>1, <3>3, <2>3 DEF Brings
    <2>4. \A v : OpOf("gather", v).op \in Brings
      BY DEF OpOf, Brings
    <2>5. \A v : v \in collected' <=> \E k \in 1..Len(ops) : Passed(k)' /\ ops[k] = OpOf("gather", v)
      BY <2>2, <2>3, <2>4, Zenon
    <2>6. DataFits'
      BY <2>2, <2>3, <2>5, DataKept
    <2> QED BY <2>6, <1>8, <1>14, <1>15, Zenon DEF Placed
  <1>19. CASE pc[p] = "output" /\ i > 3
    <2>1. /\ o.op \in Brings /\ o = ops[i] /\ o \in Operation
          /\ r \in 1..Len(R) /\ told = R[r] /\ told' = told
      BY <1>3, <1>19
    <2>2. ops = Plan(told) /\ Informed /\ i # 0
      BY <2>1, <1>1, <1>4, <1>19 DEF Informed
    <2>3. (\A v : v \in collected <=> Gathered(ops, v)) /\ Brought(ops)
      BY <2>2, Zenon DEF DataFits
    <2>4. ASSUME NEW k \in 1..Len(ops), k < i
          PROVE  Passed(k) /\ Passed(k)'
      <3>1. n = 0 \/ k < n
        <4>1. n # 0 => n \in Nat /\ n > i
          BY <1>4, <1>8, TurnsPositive, Zenon
        <4> QED BY <2>4, <4>1, <1>4
      <3> QED BY <2>4, <3>1, <1>8, Zenon DEF Passed
    <2>5. ASSUME NEW k, k = i
          PROVE  Passed(k)'
      <3>1. n = 0 \/ k < n
        <4>1. n # 0 => n \in Nat /\ n > i
          BY <1>4, <1>8, TurnsPositive, Zenon
        <4> QED BY <2>5, <4>1, <1>4
      <3> QED BY <3>1, <1>8, Zenon DEF Passed
    <2>6. ASSUME NEW k \in 1..Len(ops), Passed(k)', ops[k].op \in Brings
          PROVE  ops[k] = o \/ \E h \in 1..Len(ops) : h < i /\ Passed(h) /\ ops[h] = ops[k]
      <3>1. PICK h \in 1..Len(ops) : h <= i /\ ops[h] = ops[k]
        BY <1>16, <2>6
      <3>2. h = i \/ h < i
        BY <3>1, <1>4
      <3> QED BY <3>1, <3>2, <2>1, <2>4, Zenon
    <2>7. ASSUME NEW k \in 1..Len(ops), Passed(k)
          PROVE  k < i /\ Passed(k)'
      BY <2>2, <2>4, <2>7, Zenon DEF Passed
    <2>8. \A v : v \in collected' <=> v \in collected \/ o = OpOf("gather", v)
      <3>1. o.op # "tell"
        BY <2>1 DEF Brings
      <3>2. \A v : o = OpOf("gather", v) <=> o.op = "gather" /\ o.of = v
        BY <2>1 DEF OpOf, Operation
      <3> QED BY <3>1, <3>2, <1>2
    <2>9. \A v : v \in collected' <=> \E k \in 1..Len(ops) : Passed(k)' /\ ops[k] = OpOf("gather", v)
      <3> SUFFICES ASSUME NEW v
                   PROVE  v \in collected' <=> \E k \in 1..Len(ops) : Passed(k)' /\ ops[k] = OpOf("gather", v)
        OBVIOUS
      <3>1. v \in collected <=> \E k \in 1..Len(ops) : Passed(k) /\ ops[k] = OpOf("gather", v)
        BY <2>3, Zenon DEF Gathered
      <3>2. OpOf("gather", v).op \in Brings
        BY DEF OpOf, Brings
      <3>3. ASSUME v \in collected'
            PROVE  \E k \in 1..Len(ops) : Passed(k)' /\ ops[k] = OpOf("gather", v)
        <4>1. CASE v \in collected
          BY <4>1, <3>1, <2>7, Zenon
        <4>2. CASE o = OpOf("gather", v)
          <5>1. PICK k \in 1..Len(ops) : k = i
            BY <1>5
          <5>2. Passed(k)' /\ ops[k] = OpOf("gather", v)
            BY <5>1, <4>2, <2>1, <2>5
          <5> QED BY <5>2, Zenon
        <4> QED BY <4>1, <4>2, <3>3, <2>8
      <3>4. ASSUME NEW k \in 1..Len(ops), Passed(k)', ops[k] = OpOf("gather", v)
            PROVE  v \in collected'
        BY <3>1, <3>2, <3>4, <2>6, <2>8, Zenon
      <3> QED BY <3>3, <3>4, Zenon
    <2>10. \A w \in Field, q \in Compute :
             have'[w][q] = IF w = o.of /\ q \in Senders(o) THEN told.t ELSE have[w][q]
      <3>1. o.op # "place"
        BY <2>1 DEF Brings
      <3>2. /\ \A q \in Senders(o) : from[q] = told.t
            /\ o.of \in Field
        BY <1>12, <2>1
      <3>3. have' = [have EXCEPT ![o.of] = [q \in Compute |->
                        IF q \in Senders(o) THEN from[q] ELSE have[o.of][q]]]
        BY <3>1, <3>2, <1>2
      <3>4. have \in [Field -> [Compute -> {-1} \cup (0..TStop)]]
        BY DEF NetTypes
      <3> QED BY <3>2, <3>3, <3>4
    <2>11. \A k \in 1..Len(ops) : Passed(k)' /\ ops[k].op \in Brings =>
              \A q \in Senders(ops[k]) : have'[ops[k].of][q] = told'.t
      <3> SUFFICES ASSUME NEW k \in 1..Len(ops), Passed(k)', ops[k].op \in Brings, NEW q \in Senders(ops[k])
                   PROVE  have'[ops[k].of][q] = told'.t
        OBVIOUS
      <3>0. ops[k].of \in Field /\ q \in Compute
        <4>1. ops[k] \in Operation
          BY <1>4 DEF Regular
        <4> QED BY <4>1, Parties, Processes DEF Brings, Operation
      <3>1. CASE ops[k] = o
        BY <3>0, <3>1, <2>1, <2>10
      <3>2. CASE \E h \in 1..Len(ops) : h < i /\ Passed(h) /\ ops[h] = ops[k]
        <4>1. have[ops[k].of][q] = told.t
          BY <3>2, <2>3, Zenon DEF Brought
        <4> QED BY <3>0, <4>1, <2>1, <2>10
      <3> QED BY <3>1, <3>2, <2>6
    <2>12. DataFits'
      BY <2>1, <2>2, <2>9, <2>11, DataKept
    <2> QED BY <2>12, <1>8, <1>14, <1>15, Zenon DEF Placed
  <1>20. pc[p] = "asleep" \/ (pc[p] = "output" /\ i = 3) \/ (pc[p] = "output" /\ i > 3)
    BY <1>3
  <1> QED BY <1>8, <1>14, <1>17, <1>18, <1>19, <1>20

\* A process that is at no operation goes to the first of the round ahead.
LEMMA Enters ==
    ASSUME NEW R \in Seq(Clock), ChannelsFit(R), NetTypes, NEW p \in Proc, at[p] = 0,
           NEW n \in Nat \ {0}, NextTurn(p, PlanOf(R, round[p]), 0, n),
           chan' = chan, round' = round, at' = [at EXCEPT ![p] = n]
    PROVE  ChannelsFit(R)'
  <1>1. \A u \in Nat : Turns(p, PlanOf(R, u)) \subseteq Nat \ {0}
    BY PlanRegular, TurnsPositive
  <1>2. round[p] \in Nat
    BY DEF NetTypes
  <1>3. Moves(R, p, round[p], 0, IF n = 0 THEN round[p] + 1 ELSE round[p], n)
    BY <1>1, <1>2, TurnMoves
  <1>4. at'[p] = n /\ \A q \in Proc : q # p => at'[q] = at[q]
    BY DEF NetTypes
  <1>5. Moves(R, p, round[p], at[p], round'[p], at'[p])
    BY <1>3, <1>4
  <1>6. \A q, s \in Proc : ~Carries(R, q, s, round[p], at[p])
    <2>1. ~ (0 \in 1..Len(PlanOf(R, round[p])))
      OBVIOUS
    <2> QED BY <2>1, Zenon DEF Carries
  <1>7. Conveys(R, p, 0)
    BY <1>6, Zenon DEF Conveys
  <1> QED BY <1>4, <1>5, <1>7, ChannelsMove

\* The next round changes nothing for those who have not entered it.
LEMMA Extended ==
    ASSUME NEW R \in Seq(Clock), NEW c \in Clock
    PROVE  LET R2 == Append(R, c) IN
           /\ R2 \in Seq(Clock) /\ Len(R2) = Len(R) + 1 /\ R2[Len(R) + 1] = c
           /\ \A u \in 1..Len(R) : u \in 1..Len(R2) /\ R2[u] = R[u] /\ PlanOf(R2, u) = PlanOf(R, u)
           /\ \A u, v \in Nat : u <= Len(R) \/ (u = Len(R) + 1 /\ v < 2) =>
                /\ \A q, p : Carries(R2, q, p, u, v) <=> Carries(R, q, p, u, v)
                /\ v \in 1..Len(PlanOf(R, u)) /\ u >= 1 =>
                     PlanOf(R2, u)[v] = PlanOf(R, u)[v] /\ Value(R2, u, v) = Value(R, u, v)
           /\ \A p \in Proc, u \in Nat, v \in {1, 2} :
                v \in Turns(p, PlanOf(R2, u)) <=> v \in Turns(p, PlanOf(R, u))
  <1> DEFINE R2 == Append(R, c)
  <1>1. R2 \in Seq(Clock) /\ Len(R2) = Len(R) + 1 /\ R2[Len(R) + 1] = c /\ Len(R) \in Nat
    OBVIOUS
  <1>2. \A u \in 1..Len(R) : u \in 1..Len(R2) /\ R2[u] = R[u]
    OBVIOUS
  <1> HIDE DEF R2
  <1>3. \A u \in 1..Len(R) : PlanOf(R2, u) = PlanOf(R, u)
    BY <1>2, Zenon DEF PlanOf
  <1>4. \A u : Regular(PlanOf(R, u)) /\ Regular(PlanOf(R2, u))
    BY <1>1, PlanRegular
  <1>5. ASSUME NEW S, Regular(S)
        PROVE  /\ S[1] = Op("wake") /\ S[2] = Op("end") /\ 1 \in 1..Len(S) /\ 2 \in 1..Len(S)
               /\ ~Dropped(S, 1) /\ ~Dropped(S, 2)
    <2>1. S[1] = Op("wake") /\ S[2] = Op("end") /\ Len(S) \in Nat /\ Len(S) >= 2
      BY <1>5 DEF Regular
    <2>2. ~Dropped(S, 1) /\ ~Dropped(S, 2)
      BY <2>1 DEF Dropped, Op
    <2> QED BY <2>1, <2>2
  <1>6. ASSUME NEW u \in Nat, NEW v \in Nat, u <= Len(R) \/ (u = Len(R) + 1 /\ v < 2)
        PROVE  /\ \A q, p : Carries(R2, q, p, u, v) <=> Carries(R, q, p, u, v)
               /\ v \in 1..Len(PlanOf(R, u)) /\ u >= 1 =>
                    PlanOf(R2, u)[v] = PlanOf(R, u)[v] /\ Value(R2, u, v) = Value(R, u, v)
    <2>1. CASE u = 0
      BY <2>1, <1>1 DEF Carries
    <2>2. CASE u \in 1..Len(R)
      <3>1. PlanOf(R2, u) = PlanOf(R, u) /\ R2[u] = R[u]
        BY <2>2, <1>2, <1>3
      <3>2. (u > Len(R2)) = FALSE /\ (u > Len(R)) = FALSE
        BY <2>2, <1>1
      <3>3. \A q, p : Carries(R2, q, p, u, v) <=> Carries(R, q, p, u, v)
        BY <3>1, Zenon DEF Carries
      <3>4. Value(R2, u, v) = Value(R, u, v)
        BY <3>1, <3>2, Zenon DEF Value
      <3> QED BY <3>1, <3>3, <3>4
    <2>3. CASE u = Len(R) + 1 /\ v = 0
      <3>1. v \notin 1..Len(PlanOf(R, u)) /\ v \notin 1..Len(PlanOf(R2, u))
        BY <2>3
      <3> QED BY <3>1, Zenon DEF Carries
    <2>4. CASE u = Len(R) + 1 /\ v = 1
      <3>1. /\ PlanOf(R, u)[v] = Op("wake") /\ PlanOf(R2, u)[v] = Op("wake")
            /\ v \in 1..Len(PlanOf(R, u)) /\ v \in 1..Len(PlanOf(R2, u))
            /\ ~Dropped(PlanOf(R, u), v) /\ ~Dropped(PlanOf(R2, u), v)
        BY <2>4, <1>4, <1>5, Zenon
      <3>2. \A q, p : Carries(R2, q, p, u, v) <=> Carries(R, q, p, u, v)
        BY <3>1, Zenon DEF Carries
      <3>3. Value(R2, u, v) = 0 /\ Value(R, u, v) = 0
        BY <3>1 DEF Value, Op
      <3> QED BY <3>1, <3>2, <3>3
    <2> QED BY <2>1, <2>2, <2>3, <2>4, <1>1, <1>6
  <1>7. ASSUME NEW p \in Proc, NEW u \in Nat, NEW v \in {1, 2}
        PROVE  v \in Turns(p, PlanOf(R2, u)) <=> v \in Turns(p, PlanOf(R, u))
    <2>1. \A S : Regular(S) => (v \in Turns(p, S) <=> TakesPart(p, IF v = 1 THEN Op("wake") ELSE Op("end")))
      BY <1>5, <1>7 DEF Turns
    <2> QED BY <2>1, <1>4
  <1> QED BY <1>1, <1>2, <1>3, <1>6, <1>7, Zenon DEF R2

LEMMA FitsExtended ==
    ASSUME NEW R \in Seq(Clock), NEW c \in Clock, NEW q, NEW p, NEW s \in Seq(Message),
           NEW r \in Nat, NEW i \in Nat, NEW u \in Nat, NEW j \in Nat,
           r <= Len(R) \/ (r = Len(R) + 1 /\ i <= 2), u <= Len(R) \/ (u = Len(R) + 1 /\ j <= 2),
           Fits(R, q, p, s, r, i, u, j)
    PROVE  Fits(Append(R, c), q, p, s, r, i, u, j)
  <1> DEFINE R2 == Append(R, c)
  <1>1. \A a, b \in Nat : a <= Len(R) \/ (a = Len(R) + 1 /\ b < 2) =>
           /\ Carries(R2, q, p, a, b) <=> Carries(R, q, p, a, b)
           /\ b \in 1..Len(PlanOf(R, a)) /\ a >= 1 =>
                PlanOf(R2, a)[b] = PlanOf(R, a)[b] /\ Value(R2, a, b) = Value(R, a, b)
    BY Extended, Zenon
  <1>2. Len(R) \in Nat
    OBVIOUS
  <1>3. \A a, b \in Nat : Before(a, b, r, i) \/ Before(a, b, u, j) =>
           a <= Len(R) \/ (a = Len(R) + 1 /\ b < 2)
    BY <1>2 DEF Before
  <1> HIDE DEF R2
  <1>4. /\ \A k \in 1..Len(s) :
             /\ Carries(R, q, p, s[k].part.round, s[k].part.at)
             /\ s[k].part.op = PlanOf(R, s[k].part.round)[s[k].part.at]
             /\ s[k].val = Value(R, s[k].part.round, s[k].part.at)
             /\ ~Before(s[k].part.round, s[k].part.at, u, j)
             /\ Before(s[k].part.round, s[k].part.at, r, i)
        /\ \A k, l \in 1..Len(s) : k < l =>
             Before(s[k].part.round, s[k].part.at, s[l].part.round, s[l].part.at)
        /\ \A a, b \in Nat : Carries(R, q, p, a, b) /\ Before(a, b, r, i) /\ ~Before(a, b, u, j) =>
             Holds(s, a, b)
        /\ \A a, b \in Nat : Carries(R, q, p, a, b) /\ Before(a, b, u, j) => Before(a, b, r, i)
    BY FitsParts
  <1>5. \A k \in 1..Len(s) :
             /\ Carries(R2, q, p, s[k].part.round, s[k].part.at)
             /\ s[k].part.op = PlanOf(R2, s[k].part.round)[s[k].part.at]
             /\ s[k].val = Value(R2, s[k].part.round, s[k].part.at)
             /\ ~Before(s[k].part.round, s[k].part.at, u, j)
             /\ Before(s[k].part.round, s[k].part.at, r, i)
    <2> SUFFICES ASSUME NEW k \in 1..Len(s)
                 PROVE  /\ Carries(R2, q, p, s[k].part.round, s[k].part.at)
                        /\ s[k].part.op = PlanOf(R2, s[k].part.round)[s[k].part.at]
                        /\ s[k].val = Value(R2, s[k].part.round, s[k].part.at)
      BY <1>4
    <2> DEFINE a == s[k].part.round
               b == s[k].part.at
    <2>1. a \in Nat /\ b \in Nat
      BY Labels
    <2>2. /\ Carries(R, q, p, a, b) /\ Before(a, b, r, i)
          /\ s[k].part.op = PlanOf(R, a)[b] /\ s[k].val = Value(R, a, b)
      BY <1>4
    <2>3. b \in 1..Len(PlanOf(R, a)) /\ a >= 1
      <3>1. b \in 1..Len(PlanOf(R, a)) /\ a \in Nat \ {0}
        BY <2>2, Zenon DEF Carries
      <3> QED BY <3>1
    <2> HIDE DEF a, b
    <2>4. /\ Carries(R2, q, p, a, b)
          /\ PlanOf(R2, a)[b] = PlanOf(R, a)[b] /\ Value(R2, a, b) = Value(R, a, b)
      BY <2>1, <2>2, <2>3, <1>1, <1>3, Zenon
    <2> QED BY <2>2, <2>4, Zenon DEF a, b
  <1>6. \A a, b \in Nat : Carries(R2, q, p, a, b) /\ Before(a, b, r, i) /\ ~Before(a, b, u, j) =>
             Holds(s, a, b)
    BY <1>1, <1>3, <1>4, Zenon
  <1>7. \A a, b \in Nat : Carries(R2, q, p, a, b) /\ Before(a, b, u, j) => Before(a, b, r, i)
    BY <1>1, <1>3, <1>4, Zenon
  <1>8. Fits(R2, q, p, s, r, i, u, j)
    BY <1>4, <1>5, <1>6, <1>7, Zenon DEF Fits
  <1> QED BY <1>8, Zenon DEF R2

\* A round is added when all computing processes have passed those before.
LEMMA Widened ==
    ASSUME NEW R \in Seq(Clock), NEW c \in Clock, Placed(R), NetTypes,
           \A q \in Compute : at[q] = 0 /\ round[q] = Len(R) + 1
    PROVE  Placed(Append(R, c))
  <1> DEFINE R2 == Append(R, c)
             r == round[omaster]
             i == at[omaster]
  <1>1. /\ R2 \in Seq(Clock) /\ Len(R2) = Len(R) + 1
        /\ \A u \in 1..Len(R) : u \in 1..Len(R2) /\ R2[u] = R[u] /\ PlanOf(R2, u) = PlanOf(R, u)
        /\ \A u \in Nat, v \in {1, 2} :
             v \in Turns(omaster, PlanOf(R2, u)) <=> v \in Turns(omaster, PlanOf(R, u))
    BY Extended, Processes
  <1>2. Len(R) \in Nat /\ r \in Nat \ {0} /\ i \in Nat
    BY Processes DEF NetTypes
  <1>3. /\ pc[omaster] \in {"asleep", "output", "barrier", "done"}
        /\ i # 0 => i \in Turns(omaster, PlanOf(R, r))
        /\ pc[omaster] = "asleep" => i \in {1, 2} /\ r \in 1..(Len(R) + 1)
        /\ pc[omaster] = "output" /\ i # 0 =>
             /\ i >= 3 /\ r \in 1..Len(R)
             /\ i > 3 => told = R[r]
        /\ pc[omaster] = "output" /\ i = 0 => r - 1 \in 1..Len(R) /\ told = R[r - 1]
        /\ pc[omaster] \in {"barrier", "done"} => i = 0 /\ r = Len(R) + 2
    BY Zenon DEF Placed, MasterFits
  <1>4. pc[omaster] \in {"asleep", "output"}
    <2> SUFFICES ASSUME pc[omaster] \in {"barrier", "done"} PROVE FALSE
      BY <1>3
    <2>1. i = 0 /\ r = Len(R) + 2
      BY <1>3
    <2>2. Fits(R, imaster, omaster, chan[imaster][omaster], Len(R) + 1, 0, r, i)
      <3>1. Fits(R, imaster, omaster, chan[imaster][omaster], round[imaster], at[imaster], r, i)
        BY Processes, Zenon DEF Placed, ChannelsFit
      <3> QED BY <3>1, Processes
    <2>3. Carries(R, imaster, omaster, Len(R) + 1, 2)
      <3>1. PlanOf(R, Len(R) + 1) = Announce
        BY <1>2, PlanRegular
      <3>2. Announce[2] = Op("end") /\ 2 \in 1..Len(Announce)
        BY Announcement
      <3>3. ~Dropped(Announce, 2)
        BY <3>2 DEF Dropped, Op
      <3>4. imaster \in Senders(Op("end")) /\ omaster \in Receivers(Op("end"))
        BY Processes DEF Op, Senders, Receivers, imaster, omaster
      <3>5. Len(R) + 1 \in Nat \ {0}
        BY <1>2
      <3> QED BY <3>1, <3>2, <3>3, <3>4, <3>5, Zenon DEF Carries
    <2>4. Before(Len(R) + 1, 2, r, i) /\ ~Before(Len(R) + 1, 2, Len(R) + 1, 0)
      BY <1>2, <2>1 DEF Before
    <2>5. Len(R) + 1 \in Nat /\ 2 \in Nat
      BY <1>2
    <2>6. \A u, v \in Nat : Carries(R, imaster, omaster, u, v) /\ Before(u, v, r, i) =>
             Before(u, v, Len(R) + 1, 0)
      BY <2>2, FitsParts
    <2> QED BY <2>3, <2>4, <2>5, <2>6, Zenon
  <1>5. r <= Len(R) \/ (r = Len(R) + 1 /\ i <= 2)
    BY <1>2, <1>3, <1>4
  <1>6. ChannelsFit(R2)
    <2> SUFFICES ASSUME NEW q \in Proc, NEW p \in Proc
                 PROVE  Fits(R2, q, p, chan[q][p], round[q], at[q], round[p], at[p])
      BY Zenon DEF ChannelsFit
    <2>1. Fits(R, q, p, chan[q][p], round[q], at[q], round[p], at[p])
      BY Zenon DEF Placed, ChannelsFit
    <2>2. /\ chan[q][p] \in Seq(Message) /\ round[q] \in Nat /\ at[q] \in Nat
          /\ round[p] \in Nat /\ at[p] \in Nat
      BY DEF NetTypes
    <2>3. \A s \in Proc : round[s] <= Len(R) \/ (round[s] = Len(R) + 1 /\ at[s] <= 2)
      <3> SUFFICES ASSUME NEW s \in Proc
                   PROVE  round[s] <= Len(R) \/ (round[s] = Len(R) + 1 /\ at[s] <= 2)
        OBVIOUS
      <3>1. CASE s = omaster
        BY <3>1, <1>5
      <3>2. CASE s \in Compute
        BY <3>2
      <3> QED BY <3>1, <3>2, Processes
    <2> QED BY <2>1, <2>2, <2>3, FitsExtended
  <1> HIDE DEF R2
  <1>7. MasterFits(R2)
    <2>1. CASE pc[omaster] = "asleep"
      <3>1. i \in {1, 2} /\ i # 0 /\ r \in 1..(Len(R2) + 1)
        BY <2>1, <1>1, <1>2, <1>3
      <3>2. i \in Turns(omaster, PlanOf(R2, r))
        BY <3>1, <1>1, <1>2, <1>3
      <3> QED BY <3>1, <3>2, <2>1 DEF MasterFits
    <2>2. CASE pc[omaster] = "output" /\ i # 0
      <3>1. r \in 1..Len(R) /\ i >= 3 /\ (i > 3 => told = R[r]) /\ i \in Turns(omaster, PlanOf(R, r))
        BY <2>2, <1>3
      <3>2. r \in 1..Len(R2) /\ i >= 3 /\ (i > 3 => told = R2[r]) /\ i \in Turns(omaster, PlanOf(R2, r))
        BY <3>1, <1>1, Zenon
      <3> QED BY <2>2, <3>2, Zenon DEF MasterFits
    <2>3. CASE pc[omaster] = "output" /\ i = 0
      <3>1. r - 1 \in 1..Len(R) /\ told = R[r - 1]
        BY <2>3, <1>3
      <3>2. r - 1 \in 1..Len(R2) /\ told = R2[r - 1]
        BY <3>1, <1>1, Zenon
      <3> QED BY <2>3, <3>2, Zenon DEF MasterFits
    <2> QED BY <2>1, <2>2, <2>3, <1>4
  <1>8. \A q \in Compute : ComputeFits(R2, q)
    BY Zenon DEF ComputeFits
  <1> QED BY <1>6, <1>7, <1>8, Zenon DEF Placed, R2

\* A time step that ends at an output time takes the process into the round of
\* that time, which is a new one if no other process has taken the step.
Grows(R, S, p) == S = R \/ (S = Append(R, clk'[p]) /\ \A q \in Compute : clk[q] = clk[p])

LEMMA TimestepKeeps ==
    ASSUME NEW R \in Seq(Clock), RoundsFit(R), Placed(R), NetTypes, DataFits, ClockInv, ClockInv',
           NEW p \in Compute, Timestep(p)
    PROVE  NetTypes' /\ DataFits' /\ \E S \in Seq(Clock) : RoundsFit(S)' /\ Placed(S)' /\ Grows(R, S, p)
  <1> DEFINE c == clk'[p]
             n == Entry(p, c)
             Next1(q) == Taken(q) = Taken(p) + 1
  <1>1. /\ pc[p] = "reduce" /\ pc' = [pc EXCEPT ![p] = "output"] /\ offers' = offers
        /\ Taken(p)' = Taken(p) + 1 /\ Len(offers[p]) = Taken(p) + 1
        /\ \A q \in Compute : q # p => Taken(q)' = Taken(q) /\ clk'[q] = clk[q]
        /\ \A q \in Compute : q # p => Taken(q) = Taken(p) \/ Next1(q)
        /\ \A q \in Compute : q # p /\ Next1(q) => clk[q] = c
    BY TimestepTakes
  <1>2. /\ at' = [at EXCEPT ![p] = n]
        /\ round' = round /\ chan' = chan /\ told' = told /\ collected' = collected /\ have' = have
        /\ \A q \in Compute : Len(offers[q]) >= Len(offers[p])
    BY Zenon DEF Timestep
  <1>3. c \in Clock
    BY DEF ClockInv, ClockTypes
  <1>4. \A q \in Compute : Taken(q) \in Nat /\ Len(offers[q]) \in Nat
    BY TakenNat DEF ClockInv
  <1>5. p \in Proc /\ p # omaster /\ Len(R) \in Nat
    BY Processes
  <1>6. at[p] = 0 /\ round[p] \in Nat \ {0} /\ Started(p) = round[p] - 1 
    <2>1. at[p] = 0
      <3>1. ComputeFits(R, p)
        BY DEF Placed
      <3> QED BY <3>1, <1>1 DEF ComputeFits
    <2>2. round[p] \in Nat \ {0}
      BY <1>5 DEF NetTypes
    <2> QED BY <2>1, <2>2, <1>1 DEF Started
  <1>7. n \in Nat /\ (c.due = {} => n = 0)
        /\ (c.due # {} => n \in {1, 2} /\ \A S \in Seq(Clock) : round[p] \in 1..Len(S) /\ S[round[p]] = c =>
                            NextTurn(p, PlanOf(S, round[p]), 0, n))
    <2>1. Regular(Plan(c))
      BY <1>3, PlanShape
    <2>2. NextTurn(p, Plan(c), 0, After(p, Plan(c), 0)) /\ After(p, Plan(c), 0) \in {1, 2}
      BY <2>1, <1>5, FirstTurn
    <2>3. \A S \in Seq(Clock) : round[p] \in 1..Len(S) /\ S[round[p]] = c => PlanOf(S, round[p]) = Plan(c)
      BY PlanRegular
    <2>4. n = IF c.due = {} THEN 0 ELSE After(p, Plan(c), 0)
      BY DEF Entry
    <2> HIDE DEF c, n
    <2>5. CASE c.due = {}
      BY <2>4, <2>5
    <2>6. CASE c.due # {}
      BY <2>2, <2>3, <2>4, <2>6
    <2> QED BY <2>5, <2>6
  <1> HIDE DEF c, n
  <1>8. at'[p] = n /\ (\A q \in Proc : q # p => at'[q] = at[q] /\ pc'[q] = pc[q])
        /\ pc'[p] = "output" /\ at' \in [Proc -> Nat]
        /\ pc' \in [Proc -> {"asleep", "step", "reduce", "output", "final", "barrier", "done"}]
    BY <1>1, <1>2, <1>5, <1>7 DEF NetTypes
  <1>9. NetTypes'
    BY <1>2, <1>8, Zenon DEF NetTypes
  <1>10. at'[omaster] = at[omaster] /\ pc'[omaster] = pc[omaster]
    BY <1>5, <1>8, Processes
  <1>11. DataFits'
    BY <1>2, <1>10, Zenon DEF DataFits, Informed, Gathered, Brought, Passed
  <1>12. /\ Started(p)' = IF c.due = {} THEN Started(p) ELSE Started(p) + 1
         /\ \A q \in Compute : q # p => Started(q)' = Started(q)
    <2>1. Started(p)' = IF n = 0 THEN round[p] - 1 ELSE round[p]
      BY <1>2, <1>8 DEF Started
    <2>2. Started(p)' = IF c.due = {} THEN Started(p) ELSE Started(p) + 1
      BY <2>1, <1>6, <1>7
    <2>3. \A q \in Compute : q # p => Started(q)' = Started(q)
      BY <1>2, <1>8, Processes, Zenon DEF Started
    <2> QED BY <2>2, <2>3
  <1>13. /\ \A q \in Compute : Started(q) \in 0..Len(R) /\ (clk[q].due # {} => Started(q) >= 1 /\ R[Started(q)] = clk[q])
         /\ \E q \in Compute : Started(q) = Len(R)
         /\ \A q, s \in Compute :
              /\ Taken(q) = Taken(s) => Started(q) = Started(s)
              /\ Taken(q) = Taken(s) + 1 => Started(q) = Started(s) + (IF clk[q].due = {} THEN 0 ELSE 1)
    BY Zenon DEF RoundsFit
  \* Whatever S, the processes are no more than a round apart.
  <1>14. \A q, s \in Compute :
            /\ Taken(q)' = Taken(s)' => Started(q)' = Started(s)'
            /\ Taken(q)' = Taken(s)' + 1 => Started(q)' = Started(s)' + (IF clk'[q].due = {} THEN 0 ELSE 1)
    <2> SUFFICES ASSUME NEW q \in Compute, NEW s \in Compute
                 PROVE  /\ Taken(q)' = Taken(s)' => Started(q)' = Started(s)'
                        /\ Taken(q)' = Taken(s)' + 1 =>
                             Started(q)' = Started(s)' + (IF clk'[q].due = {} THEN 0 ELSE 1)
      OBVIOUS
    <2>1. Started(p) \in Nat /\ Started(q) \in Nat /\ Started(s) \in Nat
          /\ Taken(p) \in Nat /\ Taken(q) \in Nat /\ Taken(s) \in Nat
      BY <1>4, <1>5, <1>13
    <2>2. CASE q # p /\ s # p
      <3>1. Taken(q)' = Taken(q) /\ Taken(s)' = Taken(s) /\ Started(q)' = Started(q)
            /\ Started(s)' = Started(s) /\ clk'[q] = clk[q]
        BY <2>2, <1>1, <1>12
      <3>2. /\ Taken(q) = Taken(s) => Started(q) = Started(s)
            /\ Taken(q) = Taken(s) + 1 => Started(q) = Started(s) + (IF clk[q].due = {} THEN 0 ELSE 1)
        BY <1>13, Zenon
      <3> QED BY <3>1, <3>2, Zenon
    <2>3. CASE q = p /\ s = p
      <3>1. Taken(p) + 1 # (Taken(p) + 1) + 1
        BY <2>1
      <3> QED BY <2>3, <3>1, <1>1, Zenon
    <2>4. CASE q = p /\ s # p
      <3>1. Taken(s)' = Taken(s) /\ Started(s)' = Started(s)
        BY <2>4, <1>1, <1>12
      <3>2. CASE Next1(s)
        <4>1. c = clk[s] /\ Taken(s) = Taken(p) + 1
          BY <2>4, <3>2, <1>1
        <4>2. Started(s) = Started(p) + (IF c.due = {} THEN 0 ELSE 1)
          BY <4>1, <1>13
        <4>3. Started(p)' = Started(s)'
          BY <4>2, <3>1, <2>1, <1>12
        <4>4. Taken(p) + 1 # (Taken(p) + 1) + 1
          BY <2>1
        <4> QED BY <2>4, <4>1, <4>3, <4>4, <3>1, <1>1, Zenon
      <3>3. CASE Taken(s) = Taken(p)
        <4>1. Started(s) = Started(p)
          BY <3>3, <1>13
        <4>2. Started(p)' = Started(s)' + (IF c.due = {} THEN 0 ELSE 1)
          BY <4>1, <3>1, <2>1, <1>12
        <4>3. Taken(p) + 1 # Taken(p)
          BY <2>1
        <4> QED BY <2>4, <3>3, <4>2, <4>3, <3>1, <1>1, Zenon DEF c
      <3> QED BY <3>2, <3>3, <2>4, <1>1
    <2>5. CASE q # p /\ s = p
      <3>1. Taken(q)' = Taken(q) /\ Started(q)' = Started(q) /\ clk'[q] = clk[q]
        BY <2>5, <1>1, <1>12
      <3>2. CASE Next1(q)
        <4>1. c = clk[q] /\ Taken(q) = Taken(p) + 1
          BY <2>5, <3>2, <1>1
        <4>2. Started(q) = Started(p) + (IF c.due = {} THEN 0 ELSE 1)
          BY <4>1, <1>13
        <4>3. Started(q)' = Started(p)'
          BY <4>2, <3>1, <2>1, <1>12
        <4>4. Taken(p) + 1 # (Taken(p) + 1) + 1
          BY <2>1
        <4> QED BY <2>5, <4>1, <4>3, <4>4, <3>1, <1>1, Zenon
      <3>3. CASE Taken(q) = Taken(p)
        <4>1. Taken(p) # Taken(p) + 1 /\ Taken(p) # (Taken(p) + 1) + 1
          BY <2>1
        <4> QED BY <2>5, <3>1, <3>3, <4>1, <1>1, Zenon
      <3> QED BY <3>2, <3>3, <2>5, <1>1
    <2> QED BY <2>2, <2>3, <2>4, <2>5
  <1>15. ASSUME NEW S \in Seq(Clock), Placed(S), c.due # {} => round[p] \in 1..Len(S) /\ S[round[p]] = c
         PROVE  Placed(S)'
    <2>1. ChannelsFit(S)'
      <3>1. ChannelsFit(S)
        BY <1>15 DEF Placed
      <3>2. CASE c.due = {}
        <4>1. at' = at
          BY <3>2, <1>2, <1>6, <1>7 DEF NetTypes
        <4> QED BY <3>1, <4>1, <1>2, Zenon DEF ChannelsFit
      <3>3. CASE c.due # {}
        <4>1. n \in Nat \ {0} /\ NextTurn(p, PlanOf(S, round[p]), 0, n)
          BY <3>3, <1>7, <1>15
        <4>2. p \in Proc /\ at[p] = 0 /\ chan' = chan /\ round' = round /\ at' = [at EXCEPT ![p] = n]
          BY <1>2, <1>5, <1>6
        <4> QED BY <3>1, <4>1, <4>2, Enters
      <3> QED BY <3>2, <3>3
    <2>2. MasterFits(S)'
      BY <1>2, <1>10, <1>15, Zenon DEF MasterFits, Placed
    <2>3. ASSUME NEW q \in Compute
          PROVE  ComputeFits(S, q)'
      <3>1. CASE q # p
        <4>1. ComputeFits(S, q)
          BY <1>15 DEF Placed
        <4>2. at'[q] = at[q] /\ pc'[q] = pc[q] /\ clk'[q] = clk[q] /\ round'[q] = round[q]
          BY <3>1, <1>1, <1>2, <1>8, Processes
        <4> QED BY <4>1, <4>2, Zenon DEF ComputeFits
      <3>2. CASE q = p /\ c.due = {}
        <4>1. at'[p] = 0
          BY <3>2, <1>7, <1>8
        <4> QED BY <3>2, <4>1, Zenon DEF ComputeFits
      <3>3. CASE q = p /\ c.due # {}
        <4>1. n # 0 /\ NextTurn(p, PlanOf(S, round[p]), 0, n)
          BY <3>3, <1>7, <1>15
        <4>2. n \in Turns(p, PlanOf(S, round[p]))
          BY <4>1 DEF NextTurn
        <4>3. clk'[p] = S[round[p]] /\ round[p] \in 1..Len(S)
          BY <3>3, <1>15 DEF c
        <4> QED BY <3>3, <4>2, <4>3, <1>2, <1>8 DEF ComputeFits
      <3> QED BY <3>1, <3>2, <3>3
    <2> QED BY <2>1, <2>2, <2>3, Zenon DEF Placed
  <1>16. CASE c.due = {} \/ \E q \in Compute : q # p /\ Next1(q)
    <2>1. c.due # {} => round[p] \in 1..Len(R) /\ R[round[p]] = c /\ round[p] = Started(p) + 1
      <3> SUFFICES ASSUME c.due # {}
                   PROVE  round[p] \in 1..Len(R) /\ R[round[p]] = c /\ round[p] = Started(p) + 1
        OBVIOUS
      <3>1. PICK q \in Compute : q # p /\ Next1(q)
        BY <1>16
      <3>2. clk[q] = c /\ Taken(q) = Taken(p) + 1
        BY <3>1, <1>1
      <3>3. Started(q) = Started(p) + 1 /\ Started(q) \in 0..Len(R) /\ R[Started(q)] = c
        BY <3>2, <1>13
      <3>4. round[p] = Started(p) + 1 /\ round[p] \in Nat \ {0}
        BY <1>6
      <3> QED BY <3>3, <3>4, <1>5
    <2>2. Placed(R)'
      BY <2>1, <1>15
    <2>3. ASSUME NEW q \in Compute
          PROVE  Started(q)' \in 0..Len(R) /\ (clk'[q].due # {} => Started(q)' >= 1 /\ R[Started(q)'] = clk'[q])
      <3>1. CASE q # p
        BY <3>1, <1>1, <1>12, <1>13
      <3>2. CASE q = p /\ c.due = {}
        BY <3>2, <1>12, <1>13 DEF c
      <3>3. CASE q = p /\ c.due # {}
        <4>1. Started(p)' = round[p] /\ round[p] \in 1..Len(R) /\ R[round[p]] = c
          BY <3>3, <2>1, <1>12
        <4>2. round[p] >= 1 /\ round[p] \in 0..Len(R)
          BY <4>1
        <4> QED BY <3>3, <4>1, <4>2, Zenon DEF c
      <3> QED BY <3>1, <3>2, <3>3
    <2>4. \E q \in Compute : Started(q)' = Len(R)
      <3>1. PICK q \in Compute : Started(q) = Len(R)
        BY <1>13
      <3>2. CASE q # p
        BY <3>1, <3>2, <1>12
      <3>3. CASE q = p /\ c.due = {}
        BY <3>1, <3>3, <1>12
      <3>4. CASE q = p /\ c.due # {}
        BY <3>1, <3>4, <2>1, <1>5
      <3> QED BY <3>2, <3>3, <3>4
    <2>5. RoundsFit(R)'
      BY <2>3, <2>4, <1>14, Zenon DEF RoundsFit
    <2>6. Grows(R, R, p)
      BY DEF Grows
    <2> QED BY <2>2, <2>5, <2>6, <1>9, <1>11
  <1>17. CASE c.due # {} /\ \A q \in Compute : q # p => ~Next1(q)
    <2>1. \A q \in Compute : Taken(q) = Taken(p) /\ Started(q) = Started(p)
      BY <1>1, <1>13, <1>17
    <2>2. Started(p) = Len(R)
      BY <2>1, <1>13
    <2>3. \A q \in Compute : at[q] = 0 /\ round[q] = Len(R) + 1
      <3> SUFFICES ASSUME NEW q \in Compute PROVE at[q] = 0 /\ round[q] = Len(R) + 1
        OBVIOUS
      <3>1. pc[q] = "reduce"
        <4>1. Taken(q) = Taken(p) /\ Len(offers[p]) = Taken(p) + 1 /\ Len(offers[q]) >= Len(offers[p])
              /\ Taken(q) \in Nat
          BY <2>1, <1>1, <1>2, <1>4
        <4>2. Len(offers[q]) # Taken(q)
          BY <4>1, <1>4
        <4> QED BY <4>2 DEF Taken
      <3>2. at[q] = 0
        <4>1. ComputeFits(R, q)
          BY DEF Placed
        <4> QED BY <4>1, <3>1 DEF ComputeFits
      <3>3. Started(q) = round[q] - 1 /\ round[q] \in Nat
        BY <3>1, <3>2, Processes DEF Started, NetTypes
      <3> QED BY <3>2, <3>3, <2>1, <2>2, <1>5
    <2>0. PICK d \in Clock : d = c
      BY <1>3
    <2> DEFINE S == Append(R, d)
    <2>4. /\ S \in Seq(Clock) /\ Len(S) = Len(R) + 1 /\ S[Len(R) + 1] = c
          /\ \A u \in 1..Len(R) : u \in 1..Len(S) /\ S[u] = R[u]
      BY <2>0, Extended
    <2>5. Placed(S)
      BY <2>0, <2>3, Widened
    <2> HIDE DEF S
    <2>6. round[p] \in 1..Len(S) /\ S[round[p]] = c /\ round[p] = Len(R) + 1
      BY <2>3, <2>4, <1>5
    <2>7. Placed(S)'
      BY <2>4, <2>5, <2>6, <1>15
    <2>8. Started(p)' = Len(S)
      BY <2>2, <2>4, <1>12, <1>17
    <2>9. ASSUME NEW q \in Compute
          PROVE  Started(q)' \in 0..Len(S) /\ (clk'[q].due # {} => Started(q)' >= 1 /\ S[Started(q)'] = clk'[q])
      <3>1. CASE q # p
        <4>1. /\ Started(q)' = Started(q) /\ clk'[q] = clk[q] /\ Started(q) \in 0..Len(R)
              /\ clk[q].due # {} => Started(q) >= 1 /\ R[Started(q)] = clk[q]
          BY <3>1, <1>1, <1>12, <1>13
        <4>2. Started(q) >= 1 => Started(q) \in 1..Len(R)
          BY <4>1, <1>5
        <4>3. Started(q) \in 0..Len(S)
          BY <4>1, <2>4, <1>5
        <4> QED BY <4>1, <4>2, <4>3, <2>4, Zenon
      <3>2. CASE q = p
        <4>1. Len(S) >= 1 /\ Len(S) \in 0..Len(S)
          BY <2>4, <1>5
        <4> QED BY <3>2, <4>1, <2>4, <2>8, Zenon DEF c
      <3> QED BY <3>1, <3>2
    <2>10. RoundsFit(S)'
      <3>1. \E q \in Compute : Started(q)' = Len(S)
        BY <2>8
      <3> QED BY <2>9, <3>1, <1>14, Zenon DEF RoundsFit
    <2>11. Grows(R, S, p)
      <3>1. \A q \in Compute : clk[q] = clk[p]
        BY <2>1, Zenon DEF ClockInv, ClockSame
      <3> QED BY <3>1, <2>0, Zenon DEF Grows, S, c
    <2> QED BY <2>4, <2>7, <2>10, <2>11, <1>9, <1>11
  <1> QED BY <1>16, <1>17

Where == {"asleep", "step", "reduce", "output", "final", "barrier", "done"}

\* Steps outside the rounds of output.
LEMMA QuietKeeps ==
    ASSUME NEW R \in Seq(Clock), RoundsFit(R), Placed(R), NetTypes, DataFits,
           clk' = clk, round' = round, at' = at, chan' = chan,
           told' = told, collected' = collected, have' = have, pc' \in [Proc -> Where],
           \A q \in Compute : /\ Started(q)' = Started(q) /\ Taken(q)' = Taken(q)
                              /\ pc'[q] = pc[q] \/ at[q] = 0,
           \/ pc'[omaster] = pc[omaster]
           \/ pc[omaster] = "barrier" /\ pc'[omaster] = "done"
    PROVE  NetTypes' /\ DataFits' /\ RoundsFit(R)' /\ Placed(R)'
  <1>1. RoundsFit(R)'
    BY RoundsKept
  <1>2. NetTypes'
    BY Zenon DEF NetTypes, Where
  <1>3. ChannelsFit(R)'
    BY Zenon DEF Placed, ChannelsFit
  <1>4. ASSUME NEW q \in Compute
        PROVE  ComputeFits(R, q)'
    <2>1. ComputeFits(R, q)
      BY DEF Placed
    <2>2. CASE pc'[q] = pc[q]
      BY <2>1, <2>2, Zenon DEF ComputeFits
    <2>3. CASE at[q] = 0
      BY <2>3, Zenon DEF ComputeFits
    <2> QED BY <2>2, <2>3
  <1>5. MasterFits(R)' /\ DataFits'
    <2>1. CASE pc'[omaster] = pc[omaster]
      BY <2>1, Zenon DEF Placed, MasterFits, DataFits, Informed, Gathered, Brought, Passed
    <2>2. CASE pc[omaster] = "barrier" /\ pc'[omaster] = "done"
      <3>1. at[omaster] = 0 /\ round[omaster] = Len(R) + 2
        BY <2>2, Zenon DEF Placed, MasterFits
      <3>2. at'[omaster] = 0 /\ round'[omaster] = Len(R) + 2
        BY <3>1
      <3>3. MasterFits(R)'
        BY <2>2, <3>2 DEF MasterFits
      <3>4. DataFits'
        BY <2>2, Zenon DEF DataFits, Informed
      <3> QED BY <3>3, <3>4
    <2> QED BY <2>1, <2>2
  <1> QED BY <1>1, <1>2, <1>3, <1>4, <1>5, Zenon DEF Placed

LEMMA OfferKeeps ==
    ASSUME NEW R \in Seq(Clock), RoundsFit(R), Placed(R), NetTypes, DataFits, ClockTypes,
           NEW p \in Compute, Offer(p)
    PROVE  NetTypes' /\ DataFits' /\ RoundsFit(R)' /\ Placed(R)'
  <1>1. /\ pc[p] = "step" /\ pc' = [pc EXCEPT ![p] = "reduce"]
        /\ \E d \in Steps : offers' = [offers EXCEPT ![p] = Append(@, d)]
        /\ clk' = clk /\ round' = round /\ at' = at /\ chan' = chan
        /\ told' = told /\ collected' = collected /\ have' = have
    BY Zenon DEF Offer
  <1>2. p \in Proc /\ p # omaster /\ pc \in [Proc -> Where]
    BY Processes DEF NetTypes, Where
  <1>3. pc' \in [Proc -> Where] /\ pc'[p] = "reduce" /\ \A q \in Proc : q # p => pc'[q] = pc[q]
    BY <1>1, <1>2 DEF Where
  <1>4. at[p] = 0
    <2>1. ComputeFits(R, p)
      BY DEF Placed
    <2> QED BY <2>1, <1>1 DEF ComputeFits
  <1>5. Taken(p)' = Taken(p)
    <2>1. PICK d \in Steps : offers' = [offers EXCEPT ![p] = Append(@, d)]
      BY <1>1
    <2>2. offers \in [Compute -> Seq(Steps)]
      BY DEF ClockTypes
    <2>3. Len(offers[p]) \in Nat /\ Len(offers'[p]) = Len(offers[p]) + 1
      BY <2>1, <2>2
    <2> QED BY <2>3, <1>1, <1>3 DEF Taken
  <1>6. \A q \in Compute : q # p => Taken(q)' = Taken(q)
    <2>1. offers \in [Compute -> Seq(Steps)]
      BY DEF ClockTypes
    <2>2. \A q \in Compute : q # p => offers'[q] = offers[q] /\ pc'[q] = pc[q]
      BY <2>1, <1>1, <1>3, Processes
    <2> QED BY <2>2, Zenon DEF Taken
  <1>7. \A q \in Compute : Started(q)' = Started(q)
    <2>1. Started(p)' = Started(p)
      BY <1>1, <1>3, <1>4 DEF Started
    <2>2. \A q \in Compute : q # p => Started(q)' = Started(q)
      BY <1>1, <1>3, Processes, Zenon DEF Started
    <2> QED BY <2>1, <2>2
  <1>8. \A q \in Compute : pc'[q] = pc[q] \/ at[q] = 0
    BY <1>3, <1>4, Processes
  <1>9. pc'[omaster] = pc[omaster]
    BY <1>2, <1>3, Processes
  <1> QED BY <1>1, <1>3, <1>5, <1>6, <1>7, <1>8, <1>9, QuietKeeps

\* The last steps of a process, and those between rounds of output.
LEMMA StagesKeep ==
    ASSUME NEW R \in Seq(Clock), RoundsFit(R), Placed(R), NetTypes, DataFits, ClockTypes,
           NEW p \in Proc,
           \/ EnterBarrier(p) /\ p \in Compute
           \/ LeaveBarrier(p)
           \/ Return(p) /\ p \in Compute /\ (clk[p].err \/ clk[p].t < TStop)
    PROVE  NetTypes' /\ DataFits' /\ RoundsFit(R)' /\ Placed(R)'
  <1>1. /\ clk' = clk /\ round' = round /\ chan' = chan /\ offers' = offers
        /\ told' = told /\ collected' = collected /\ have' = have
    BY Zenon DEF EnterBarrier, LeaveBarrier, Return
  <1>2. pc \in [Proc -> Where] /\ at \in [Proc -> Nat]
    BY DEF NetTypes, Where
  <1>3. \/ p \in Compute /\ pc[p] = "final" /\ at[p] = 0 /\ pc' = [pc EXCEPT ![p] = "barrier"] /\ at' = at
        \/ pc[p] = "barrier" /\ pc' = [pc EXCEPT ![p] = "done"] /\ at' = at
        \/ pc' = pc /\ at' = at
        \/ /\ p \in Compute /\ pc[p] = "output" /\ at[p] = 0
           /\ pc' = [pc EXCEPT ![p] = "step"] /\ at' = [at EXCEPT ![p] = 0]
    BY Zenon DEF EnterBarrier, LeaveBarrier, Return
  <1>4. at' = at
    BY <1>2, <1>3
  <1>5. /\ pc' \in [Proc -> Where] /\ \A q \in Proc : q # p => pc'[q] = pc[q]
        /\ \/ p \in Compute /\ at[p] = 0 /\ pc[p] = "final" /\ pc'[p] = "barrier"
           \/ pc[p] = "barrier" /\ pc'[p] = "done"
           \/ pc'[p] = pc[p]
           \/ p \in Compute /\ at[p] = 0 /\ pc[p] = "output" /\ pc'[p] = "step"
    BY <1>2, <1>3 DEF Where
  <1>6. p \in Compute => (pc'[p] = pc[p] \/ at[p] = 0)
    <2>1. p \in Compute => ComputeFits(R, p)
      BY DEF Placed
    <2> QED BY <2>1, <1>5 DEF ComputeFits
  <1>7. ASSUME NEW q \in Compute
        PROVE  /\ Started(q)' = Started(q) /\ Taken(q)' = Taken(q)
               /\ pc'[q] = pc[q] \/ at[q] = 0
    <2>1. q \in Proc
      BY Processes
    <2>2. CASE pc'[q] = pc[q]
      BY <2>2, <1>1, <1>4, Zenon DEF Started, Taken
    <2>3. CASE pc'[q] # pc[q]
      <3>1. q = p /\ at[p] = 0
        BY <2>1, <2>3, <1>5, <1>6
      <3>2. Started(p)' = Started(p) /\ Taken(p)' = Taken(p)
        BY <3>1, <1>1, <1>4, <1>5 DEF Started, Taken
      <3> QED BY <3>1, <3>2
    <2> QED BY <2>2, <2>3
  <1>8. \/ pc'[omaster] = pc[omaster]
        \/ pc[omaster] = "barrier" /\ pc'[omaster] = "done"
    BY <1>5, Processes
  <1> QED BY <1>1, <1>4, <1>5, <1>7, <1>8, QuietKeeps

\* At the end of the simulated time a process has passed all rounds.
LEMMA FinalKeeps ==
    ASSUME NEW R \in Seq(Clock), RoundsFit(R), Placed(R), NetTypes, DataFits, ClockInv,
           NEW p \in Compute, Return(p), ~clk[p].err, ~ (clk[p].t < TStop)
    PROVE  NetTypes' /\ DataFits' /\ RoundsFit(R)' /\ Placed(R)'
  <1> DEFINE n == After(p, Announce, 0)
  <1>1. /\ pc[p] = "output" /\ at[p] = 0
        /\ pc' = [pc EXCEPT ![p] = "final"] /\ at' = [at EXCEPT ![p] = n]
        /\ clk' = clk /\ round' = round /\ chan' = chan /\ offers' = offers
        /\ told' = told /\ collected' = collected /\ have' = have
    BY Zenon DEF Return
  <1>2. p \in Proc /\ p # omaster /\ Len(R) \in Nat /\ pc \in [Proc -> Where] /\ at \in [Proc -> Nat]
        /\ round[p] \in Nat \ {0}
    <2>1. /\ pc \in [Proc -> Where] /\ at \in [Proc -> Nat]
          /\ round \in [Proc -> Nat \ {0}]
      BY Zenon DEF NetTypes, Where
    <2>2. p \in Proc /\ p # omaster /\ Len(R) \in Nat
      BY Processes
    <2> QED BY <2>1, <2>2
  <1>3. NextTurn(p, Announce, 0, n) /\ n \in {1, 2}
    BY <1>2, Announcement, FirstTurn
  <1> HIDE DEF n
  <1>4. /\ pc' \in [Proc -> Where] /\ pc'[p] = "final" /\ \A q \in Proc : q # p => pc'[q] = pc[q]
        /\ at' \in [Proc -> Nat] /\ at'[p] = n /\ \A q \in Proc : q # p => at'[q] = at[q]
    BY <1>1, <1>2, <1>3 DEF Where
  <1>5. Started(p) = Len(R)
    <2>1. PICK q \in Compute : Started(q) = Len(R)
      BY Zenon DEF RoundsFit
    <2>2. /\ Taken(q) <= Len(offers[p]) /\ Taken(p) <= Taken(q) + 1
          /\ Len(offers[p]) = Taken(p) /\ Taken(p) \in Nat /\ Taken(q) \in Nat
      <3>1. Taken(q) <= Len(offers[p])
        BY Zenon DEF ClockInv, ClockSame
      <3>2. Taken(p) <= Taken(q) + 1
        BY OneStepApart
      <3>3. Len(offers[p]) = Taken(p)
        BY <1>1 DEF Taken
      <3> QED BY <3>1, <3>2, <3>3, TakenNat DEF ClockInv
    <2>3. Taken(p) = Taken(q) \/ Taken(p) = Taken(q) + 1
      BY <2>2
    <2>4. /\ Taken(p) = Taken(q) => Started(p) = Started(q)
          /\ Taken(p) = Taken(q) + 1 => Started(p) = Started(q) + (IF clk[p].due = {} THEN 0 ELSE 1)
          /\ Started(p) \in 0..Len(R)
      BY Zenon DEF RoundsFit
    <2> QED BY <2>1, <2>3, <2>4, <1>2
  <1>6. round[p] = Len(R) + 1 /\ PlanOf(R, round[p]) = Announce
    <2>1. Started(p) = round[p] - 1
      BY <1>1 DEF Started
    <2>2. round[p] = Len(R) + 1
      BY <2>1, <1>2, <1>5
    <2>3. round[p] \notin 1..Len(R)
      BY <2>2, <1>2
    <2> QED BY <2>2, <2>3, PlanRegular
  <1>7. ChannelsFit(R)'
    <2>1. ChannelsFit(R) /\ n \in Nat \ {0} /\ NextTurn(p, PlanOf(R, round[p]), 0, n)
      BY <1>3, <1>6 DEF Placed
    <2> QED BY <2>1, <1>1, <1>2, Enters
  <1>8. \A q \in Compute : Started(q)' = Started(q) /\ Taken(q)' = Taken(q)
    <2>1. Started(p)' = Started(p)
      <3>1. at'[p] # 0 /\ pc'[p] = "final" /\ round'[p] = round[p]
        BY <1>1, <1>3, <1>4
      <3>2. Started(p)' = round[p] - 1
        BY <3>1, Zenon DEF Started
      <3>3. Started(p) = round[p] - 1
        BY <1>1, Zenon DEF Started
      <3> QED BY <3>2, <3>3
    <2>2. Taken(p)' = Taken(p)
      BY <1>1, <1>4 DEF Taken
    <2>3. \A q \in Compute : q # p => Started(q)' = Started(q) /\ Taken(q)' = Taken(q)
      BY <1>1, <1>4, Processes, Zenon DEF Started, Taken
    <2> QED BY <2>1, <2>2, <2>3
  <1>9. RoundsFit(R)'
    BY <1>1, <1>8, RoundsKept
  <1>10. ASSUME NEW q \in Compute
         PROVE  ComputeFits(R, q)'
    <2>1. CASE q = p
      <3>1. n \in Turns(p, PlanOf(R, round[p]))
        BY <1>3, <1>6 DEF NextTurn
      <3> QED BY <2>1, <3>1, <1>1, <1>4, <1>6 DEF ComputeFits
    <2>2. CASE q # p
      <3>1. ComputeFits(R, q) /\ pc'[q] = pc[q] /\ at'[q] = at[q]
        BY <2>2, <1>4, Processes DEF Placed
      <3> QED BY <3>1, <1>1, Zenon DEF ComputeFits
    <2> QED BY <2>1, <2>2
  <1>11. pc'[omaster] = pc[omaster] /\ at'[omaster] = at[omaster]
    BY <1>2, <1>4, Processes
  <1>12. MasterFits(R)' /\ DataFits'
    BY <1>1, <1>11, Zenon DEF Placed, MasterFits, DataFits, Informed, Gathered, Brought, Passed
  <1>13. NetTypes'
    BY <1>1, <1>4, Zenon DEF NetTypes, Where
  <1> QED BY <1>7, <1>9, <1>10, <1>12, <1>13, Zenon DEF Placed

\* xomaster has written and waits to be woken again.
LEMMA WriteKeeps ==
    ASSUME NEW R \in Seq(Clock), RoundsFit(R), Placed(R), NetTypes, DataFits, Write
    PROVE  NetTypes' /\ DataFits' /\ RoundsFit(R)' /\ Placed(R)'
  <1> DEFINE p == omaster
  <1>1. /\ pc[p] = "output" /\ at[p] = 0
        /\ pc' = [pc EXCEPT ![p] = "asleep"] /\ at' = [at EXCEPT ![p] = 1]
        /\ clk' = clk /\ round' = round /\ chan' = chan /\ offers' = offers
        /\ told' = told /\ collected' = collected /\ have' = have
    BY Zenon DEF Write
  <1>2. p \in Proc /\ Len(R) \in Nat /\ pc \in [Proc -> Where] /\ at \in [Proc -> Nat]
        /\ round[p] \in Nat \ {0}
    <2>1. /\ pc \in [Proc -> Where] /\ at \in [Proc -> Nat]
          /\ round \in [Proc -> Nat \ {0}]
      BY Zenon DEF NetTypes, Where
    <2>2. p \in Proc /\ Len(R) \in Nat
      BY Processes
    <2> QED BY <2>1, <2>2
  <1>3. /\ pc' \in [Proc -> Where] /\ pc'[p] = "asleep" /\ \A q \in Proc : q # p => pc'[q] = pc[q]
        /\ at' \in [Proc -> Nat] /\ at'[p] = 1 /\ \A q \in Proc : q # p => at'[q] = at[q]
    BY <1>1, <1>2 DEF Where
  <1>4. NextTurn(p, PlanOf(R, round[p]), 0, 1)
    <2> DEFINE ops == PlanOf(R, round[p])
    <2>1. Regular(ops)
      BY PlanRegular
    <2> HIDE DEF ops
    <2>2. NextTurn(p, ops, 0, After(p, ops, 0)) /\ After(p, ops, 0) \in {1, 2}
      BY <2>1, <1>2, FirstTurn
    <2>3. 1 \in 1..Len(ops) /\ ops[1] = Op("wake")
      BY <2>1 DEF Regular
    <2>4. TakesPart(p, ops[1]) /\ ~Dropped(ops, 1)
      BY <2>3 DEF Op, TakesPart, Receivers, Dropped
    <2>5. 1 \in Turns(p, ops)
      BY <2>3, <2>4 DEF Turns
    <2>6. After(p, ops, 0) = 1
      BY <2>2, <2>5 DEF NextTurn
    <2>7. NextTurn(p, ops, 0, 1)
      BY <2>2, <2>6
    <2> QED BY <2>7 DEF ops
  <1>5. ChannelsFit(R)'
    <2>1. ChannelsFit(R)
      BY DEF Placed
    <2>2. 1 \in Nat \ {0} /\ at[p] = 0 /\ at' = [at EXCEPT ![p] = 1]
      BY <1>1
    <2> QED BY <2>1, <2>2, <1>1, <1>2, <1>4, Enters
  <1>6. ASSUME NEW q \in Compute
        PROVE  pc'[q] = pc[q] /\ at'[q] = at[q]
    BY <1>3, Processes
  <1>7. RoundsFit(R)'
    <2>1. \A q \in Compute : Started(q)' = Started(q) /\ Taken(q)' = Taken(q)
      BY <1>1, <1>6, Zenon DEF Started, Taken
    <2> QED BY <2>1, <1>1, RoundsKept
  <1>8. \A q \in Compute : ComputeFits(R, q)'
    BY <1>1, <1>6, Zenon DEF Placed, ComputeFits
  <1>9. MasterFits(R)'
    <2>1. round[p] - 1 \in 1..Len(R)
      BY <1>1, Zenon DEF Placed, MasterFits
    <2>2. round[p] \in 1..(Len(R) + 1)
      BY <2>1, <1>2
    <2>3. 1 \in Turns(p, PlanOf(R, round[p]))
      BY <1>4 DEF NextTurn
    <2> QED BY <2>2, <2>3, <1>1, <1>3 DEF MasterFits
  <1>10. DataFits'
    BY <1>3, Zenon DEF DataFits, Informed
  <1>11. NetTypes'
    BY <1>1, <1>3, Zenon DEF NetTypes, Where
  <1> QED BY <1>5, <1>7, <1>8, <1>9, <1>10, <1>11, Zenon DEF Placed

\* The rounds stay, or a time step that all processes are about to take adds one.
Follows(R, S) ==
    \/ S = R /\ clk' = clk
    \/ \E p \in Compute : Timestep(p) /\ Grows(R, S, p)

LEMMA RoundsNext ==
    ASSUME NEW R \in Seq(Clock), RoundsFit(R), Placed(R), NetTypes, DataFits,
           ClockInv, ClockInv', [Next]_vars
    PROVE  NetTypes' /\ DataFits' /\ \E S \in Seq(Clock) : RoundsFit(S)' /\ Placed(S)' /\ Follows(R, S)
  <1>1. RoundsFit(R) /\ Placed(R)
    OBVIOUS
  <1>2. NetTypes /\ DataFits /\ ClockTypes
    BY DEF ClockInv
  <1>0. ASSUME clk' = clk PROVE Follows(R, R)
    BY <1>0, Zenon DEF Follows
  <1>3. ASSUME NEW p \in Proc, Process(p)
        PROVE  NetTypes' /\ DataFits' /\ \E S \in Seq(Clock) : RoundsFit(S)' /\ Placed(S)' /\ Follows(R, S)
    <2>0. /\ Send(p) \/ Receive(p) \/ LeaveBarrier(p) => clk' = clk
          /\ Offer(p) \/ Return(p) \/ EnterBarrier(p) \/ Write => clk' = clk
      BY Zenon DEF Send, Receive, LeaveBarrier, Offer, Return, EnterBarrier, Write
    <2>1. CASE Send(p)
      <3>1. NetTypes' /\ DataFits' /\ RoundsFit(R)' /\ Placed(R)'
        BY <1>1, <1>2, <1>3, <2>1, SendKeeps
      <3> QED BY <3>1, <2>0, <2>1, <1>0, Zenon
    <2>2. CASE Receive(p) /\ p \in Compute
      <3>1. NetTypes' /\ DataFits' /\ RoundsFit(R)' /\ Placed(R)'
        BY <1>1, <1>2, <2>2, ComputeReceives
      <3> QED BY <3>1, <2>0, <2>2, <1>0, Zenon
    <2>3. CASE Receive(p) /\ p = omaster
      <3>1. NetTypes' /\ DataFits' /\ RoundsFit(R)' /\ Placed(R)'
        BY <1>1, <1>2, <2>3, MasterKeeps
      <3> QED BY <3>1, <2>0, <2>3, <1>0, Zenon
    <2>4. CASE p \in Compute /\ Offer(p)
      <3>1. NetTypes' /\ DataFits' /\ RoundsFit(R)' /\ Placed(R)'
        BY <1>1, <1>2, <2>4, OfferKeeps
      <3> QED BY <3>1, <2>0, <2>4, <1>0, Zenon
    <2>5. CASE p \in Compute /\ Timestep(p)
      <3>1. NetTypes' /\ DataFits' /\ \E S \in Seq(Clock) : RoundsFit(S)' /\ Placed(S)' /\ Grows(R, S, p)
        BY <1>1, <1>2, <2>5, TimestepKeeps
      <3> QED BY <3>1, <2>5, Zenon DEF Follows
    <2>6. CASE p \in Compute /\ Return(p) /\ ~clk[p].err /\ ~ (clk[p].t < TStop)
      <3>1. NetTypes' /\ DataFits' /\ RoundsFit(R)' /\ Placed(R)'
        BY <1>1, <1>2, <2>6, FinalKeeps
      <3> QED BY <3>1, <2>0, <2>6, <1>0, Zenon
    <2>7. CASE \/ EnterBarrier(p) /\ p \in Compute
               \/ LeaveBarrier(p)
               \/ Return(p) /\ p \in Compute /\ (clk[p].err \/ clk[p].t < TStop)
      <3>1. NetTypes' /\ DataFits' /\ RoundsFit(R)' /\ Placed(R)'
        BY <1>1, <1>2, <1>3, <2>7, StagesKeep
      <3> QED BY <3>1, <2>0, <2>7, <1>0, Zenon
    <2>8. CASE p = omaster /\ Write
      <3>1. NetTypes' /\ DataFits' /\ RoundsFit(R)' /\ Placed(R)'
        BY <1>1, <1>2, <2>8, WriteKeeps
      <3> QED BY <3>1, <2>0, <2>8, <1>0, Zenon
    <2> QED BY <1>3, <2>1, <2>2, <2>3, <2>4, <2>5, <2>6, <2>7, <2>8, Processes, Zenon DEF Process, Compute_
  <1>4. CASE UNCHANGED vars
    <2>1. /\ pc' = pc /\ clk' = clk /\ offers' = offers /\ round' = round /\ at' = at /\ chan' = chan
          /\ told' = told /\ collected' = collected /\ have' = have
      BY <1>4, Zenon DEF vars
    <2>2. /\ pc' \in [Proc -> Where]
          /\ \A q \in Compute : /\ Started(q)' = Started(q) /\ Taken(q)' = Taken(q)
                                /\ pc'[q] = pc[q] \/ at[q] = 0
      BY <2>1, <1>2, Zenon DEF Started, Taken, NetTypes, Where
    <2>3. NetTypes' /\ DataFits' /\ RoundsFit(R)' /\ Placed(R)'
      BY <2>1, <2>2, <1>1, <1>2, QuietKeeps
    <2> QED BY <2>1, <2>3, <1>0, Zenon
  <1> QED BY <1>3, <1>4, Zenon DEF Next

LEMMA NetworkNext ==
    ASSUME NetworkInv, ClockInv, ClockInv', [Next]_vars
    PROVE  NetworkInv'
  <1>1. PICK R \in Seq(Clock) : RoundsFit(R) /\ Placed(R)
    BY DEF NetworkInv
  <1>2. NetTypes' /\ DataFits' /\ \E S \in Seq(Clock) : RoundsFit(S)' /\ Placed(S)' /\ Follows(R, S)
    BY <1>1, RoundsNext DEF NetworkInv
  <1> QED BY <1>2, Zenon DEF NetworkInv

\* The rounds as the run begins.
FirstRounds == IF Start.due = {} THEN <<>> ELSE <<Start>>

LEMMA NetworkInit ==
    ASSUME Init
    PROVE  /\ FirstRounds \in Seq(Clock) /\ RoundsFit(FirstRounds) /\ Placed(FirstRounds)
           /\ NetworkInv
  <1> DEFINE R == FirstRounds
             ops == PlanOf(R, 1)
  <1>1. /\ clk = [p \in Compute |-> Start] /\ offers = [p \in Compute |-> <<>>]
        /\ pc = [p \in Proc |-> IF p = omaster THEN "asleep" ELSE "output"]
        /\ round = [p \in Proc |-> 1]
        /\ at = [p \in Proc |-> IF p = omaster THEN 1 ELSE Entry(p, Start)]
        /\ chan = [p \in Proc |-> [q \in Proc |-> <<>>]]
        /\ told = Start /\ have = [v \in Field |-> [p \in Compute |-> -1]]
    BY Zenon DEF Init
  <1>2. Start \in Clock
    BY StartClock
  <1>3. /\ R \in Seq(Clock)
        /\ Start.due = {} => Len(R) = 0
        /\ Start.due # {} => Len(R) = 1 /\ R[1] = Start
    BY <1>2 DEF FirstRounds
  <1> HIDE DEF R
  <1>4. Regular(ops) /\ (Start.due # {} => ops = Plan(Start))
    <2>1. Start.due # {} => 1 \in 1..Len(R) /\ R[1] = Start
      BY <1>3
    <2> QED BY <2>1, <1>3, PlanRegular
  <1>5. \A p \in Proc : NextTurn(p, ops, 0, After(p, ops, 0)) /\ After(p, ops, 0) \in {1, 2}
    BY <1>4, FirstTurn
  <1> HIDE DEF ops
  <1>6. 1 \in Turns(omaster, ops) /\ NextTurn(omaster, ops, 0, 1)
    <2>1. 1 \in 1..Len(ops) /\ ops[1] = Op("wake")
      BY <1>4 DEF Regular
    <2>2. TakesPart(omaster, ops[1]) /\ ~Dropped(ops, 1)
      BY <2>1 DEF Op, TakesPart, Receivers, Dropped
    <2>3. 1 \in Turns(omaster, ops)
      BY <2>1, <2>2 DEF Turns
    <2>4. NextTurn(omaster, ops, 0, After(omaster, ops, 0)) /\ After(omaster, ops, 0) \in {1, 2}
      BY <1>5, Processes
    <2>5. After(omaster, ops, 0) = 1
      BY <2>3, <2>4 DEF NextTurn
    <2> QED BY <2>3, <2>4, <2>5, Zenon
  <1>7. ASSUME NEW p \in Compute
        PROVE  /\ pc[p] = "output" /\ round[p] = 1 /\ clk[p] = Start /\ Len(offers[p]) = 0
               /\ Start.due = {} => at[p] = 0
               /\ Start.due # {} => at[p] \in {1, 2} /\ NextTurn(p, ops, 0, at[p])
    <2>1. p \in Proc /\ p # omaster
      BY Processes
    <2>2. at[p] = Entry(p, Start)
      BY <2>1, <1>1
    <2>3. Start.due # {} => Entry(p, Start) = After(p, ops, 0)
      BY <1>4, Zenon DEF Entry
    <2>4. Start.due = {} => Entry(p, Start) = 0
      BY Zenon DEF Entry
    <2> QED BY <2>1, <2>2, <2>3, <2>4, <1>1, <1>5
  <1>8. pc[omaster] = "asleep" /\ round[omaster] = 1 /\ at[omaster] = 1
    BY <1>1, Processes
  <1>9. \A p \in Proc : round[p] = 1 /\ at[p] \in Nat /\ (at[p] = 0 \/ NextTurn(p, ops, 0, at[p]))
    <2> SUFFICES ASSUME NEW p \in Proc
                 PROVE  round[p] = 1 /\ at[p] \in Nat /\ (at[p] = 0 \/ NextTurn(p, ops, 0, at[p]))
      OBVIOUS
    <2>1. CASE p = omaster
      BY <2>1, <1>6, <1>8
    <2>2. CASE p \in Compute
      <3>1. CASE Start.due = {}
        BY <2>2, <3>1, <1>7
      <3>2. CASE Start.due # {}
        BY <2>2, <3>2, <1>7
      <3> QED BY <3>1, <3>2
    <2> QED BY <2>1, <2>2, Processes
  \* Nobody has passed anything.
  <1>10. ASSUME NEW p \in Proc, NEW u \in Nat, NEW v \in Nat, v \in Turns(p, PlanOf(R, u)), u # 0
         PROVE  ~Before(u, v, round[p], at[p])
    <2>1. v >= 1
      BY <1>3, <1>10, PlanRegular, TurnsPositive
    <2>2. round[p] = 1 /\ at[p] \in Nat /\ (at[p] = 0 \/ NextTurn(p, ops, 0, at[p]))
      BY <1>9
    <2>3. CASE u > 1
      BY <2>2, <2>3 DEF Before
    <2>4. CASE u = 1
      <3>1. v \in Turns(p, ops)
        BY <2>4, <1>10 DEF ops
      <3>2. at[p] = 0 \/ v >= at[p]
        BY <2>1, <2>2, <3>1 DEF NextTurn
      <3> QED BY <2>1, <2>2, <2>4, <3>2 DEF Before
    <2> QED BY <2>3, <2>4, <1>10
  <1>11. ChannelsFit(R)
    <2> SUFFICES ASSUME NEW q \in Proc, NEW p \in Proc
                 PROVE  Fits(R, q, p, chan[q][p], round[q], at[q], round[p], at[p])
      BY Zenon DEF ChannelsFit
    <2>1. chan[q][p] = <<>> /\ 1..Len(chan[q][p]) = {}
      BY <1>1
    <2>2. \A u, v \in Nat : Carries(R, q, p, u, v) =>
             ~Before(u, v, round[q], at[q]) /\ ~Before(u, v, round[p], at[p])
      <3> SUFFICES ASSUME NEW u \in Nat, NEW v \in Nat, Carries(R, q, p, u, v)
                   PROVE  ~Before(u, v, round[q], at[q]) /\ ~Before(u, v, round[p], at[p])
        OBVIOUS
      <3>1. v \in Turns(q, PlanOf(R, u)) /\ v \in Turns(p, PlanOf(R, u))
        BY CarriesTurn
      <3>2. u # 0
        BY DEF Carries
      <3> QED BY <3>1, <3>2, <1>10
    <2> QED BY <2>1, <2>2, Zenon DEF Fits
  <1>12. NetTypes
    <2>1. chan \in [Proc -> [Proc -> Seq(Message)]]
      BY <1>1
    <2>2. round \in [Proc -> Nat \ {0}] /\ at \in [Proc -> Nat]
      <3>1. \A p \in Proc : at[p] \in Nat
        BY <1>9
      <3>2. round \in [Proc -> Nat \ {0}]
        BY <1>1
      <3>3. at = [p \in Proc |-> at[p]]
        BY <1>1
      <3> QED BY <3>1, <3>2, <3>3
    <2>3. pc \in [Proc -> {"asleep", "step", "reduce", "output", "final", "barrier", "done"}]
      BY <1>1
    <2>4. have \in [Field -> [Compute -> {-1} \cup (0..TStop)]]
      BY <1>1
    <2> QED BY <2>1, <2>2, <2>3, <2>4, <1>1, <1>2, Zenon DEF NetTypes
  <1>13. RoundsFit(R)
    <2>1. \A p \in Compute : Started(p) = Len(R) /\ Taken(p) = 0 /\ (clk[p].due # {} => Len(R) >= 1 /\ R[Len(R)] = clk[p])
      <3> SUFFICES ASSUME NEW p \in Compute
                   PROVE  Started(p) = Len(R) /\ Taken(p) = 0 /\ (clk[p].due # {} => Len(R) >= 1 /\ R[Len(R)] = clk[p])
        OBVIOUS
      <3>1. Started(p) = IF at[p] # 0 THEN 1 ELSE 0
        BY <1>7 DEF Started
      <3>2. Taken(p) = 0
        BY <1>7 DEF Taken
      <3>3. CASE Start.due = {}
        BY <3>1, <3>2, <3>3, <1>3, <1>7
      <3>4. CASE Start.due # {}
        BY <3>1, <3>2, <3>4, <1>3, <1>7
      <3> QED BY <3>3, <3>4
    <2>2. Len(R) \in 0..Len(R) /\ 0 # 0 + 1
      BY <1>3
    <2>3. \E p \in Compute : Started(p) = Len(R)
      BY <2>1, Processes
    <2> QED BY <2>1, <2>2, <2>3, Zenon DEF RoundsFit
  <1>14. MasterFits(R)
    <2>1. 1 \in 1..(Len(R) + 1)
      BY <1>3
    <2>2. 1 \in Turns(omaster, PlanOf(R, 1))
      BY <1>6 DEF ops
    <2> QED BY <2>1, <2>2, <1>8 DEF MasterFits
  <1>15. ASSUME NEW p \in Compute
         PROVE  ComputeFits(R, p)
    <2>1. CASE Start.due = {}
      BY <2>1, <1>7 DEF ComputeFits
    <2>2. CASE Start.due # {}
      <3>1. at[p] \in Turns(p, ops)
        BY <2>2, <1>7 DEF NextTurn
      <3>2. 1 \in 1..Len(R) /\ R[1] = Start
        BY <2>2, <1>3
      <3> QED BY <3>1, <3>2, <1>7 DEF ComputeFits, ops
    <2> QED BY <2>1, <2>2
  <1>16. DataFits
    BY <1>8 DEF DataFits, Informed
  <1>17. RoundsFit(R) /\ Placed(R)
    BY <1>11, <1>13, <1>14, <1>15, Zenon DEF Placed
  <1> QED BY <1>3, <1>12, <1>16, <1>17, Zenon DEF NetworkInv, R

\* Wherever the processes are, they go through one sequence of rounds, and the
\* channels hold what lies between them.
THEOREM NetworkHolds == Spec => []NetworkInv
  <1>1. Init => NetworkInv
    BY NetworkInit
  <1>2. NetworkInv /\ ClockInv /\ ClockInv' /\ [Next]_vars => NetworkInv'
    BY NetworkNext
  <1> QED BY <1>1, <1>2, ClocksFollow, PTL DEF Spec

\* What a process is about to receive in output is the message of the
\* operation it is at, of this round and no other, although each process goes
\* by its own copy of the flags (output.F90, ncoutput.F90).
THEOREM KeepsInStep == Spec => []InStep
  <1>1. NetworkInv => InStep
    <2> SUFFICES ASSUME NetworkInv, NEW p \in Proc, at[p] # 0, p \in Receivers(Here(p)),
                        NEW q \in Senders(Here(p)), chan[q][p] # <<>>
                 PROVE  Head(chan[q][p]).part = Part(p)
      BY Zenon DEF InStep
    <2>1. PICK R \in Seq(Clock) : Placed(R)
      BY DEF NetworkInv
    <2>2. NetTypes
      BY DEF NetworkInv
    <2> DEFINE r == round[p]
               i == at[p]
               ops == PlanOf(R, r)
    <2>3. /\ i \in Turns(p, ops) /\ Here(p) = ops[i] /\ Here(p) \in Operation
          /\ Part(p) = [round |-> r, at |-> i, op |-> ops[i]]
      BY <2>1, <2>2, HereFits
    <2>4. q \in Proc
      BY <2>3, Parties
    <2>5. chan[q][p] \in Seq(Message) /\ r \in Nat \ {0} /\ i \in Nat /\ round[q] \in Nat /\ at[q] \in Nat /\ r \in Nat
      BY <2>2, <2>4 DEF NetTypes
    <2>6. Carries(R, q, p, r, i)
      <3>1. i \in 1..Len(ops) /\ ~Dropped(ops, i)
        BY <2>3 DEF Turns
      <3> QED BY <3>1, <2>3, <2>5, Zenon DEF Carries
    <2>7. Fits(R, q, p, chan[q][p], round[q], at[q], r, i)
      BY <2>1, <2>4, Zenon DEF Placed, ChannelsFit
    <2>8. Head(chan[q][p]).part = [round |-> r, at |-> i, op |-> ops[i]]
      BY <2>5, <2>6, <2>7, HeadFits
    <2> QED BY <2>3, <2>8
  <1> QED BY <1>1, NetworkHolds, PTL
-----------------------------------------------------------------------------
(* What is written *)

\* The records, and what is not part of the network.
FileTypes ==
    /\ eager \in BOOLEAN /\ aborted \in BOOLEAN /\ collected \subseteq Field
    /\ file \in Seq([at : 0..TStop, what : SUBSET Stream])
    /\ ages \in Seq(SUBSET Int) /\ Len(ages) = Len(file)

SnapshotInv == FileTypes /\ Snapshot

\* When xomaster writes, it has all there is to write from this round.
LEMMA AllCollected ==
    ASSUME NetworkInv, pc[omaster] = "output", at[omaster] = 0
    PROVE  \A s \in Written(told) : \A v \in Fields(s) : \A p \in Sources(v) : have[v][p] = told.t
  <1> DEFINE ops == Plan(told)
  <1>1. told \in Clock
    BY DEF NetworkInv, NetTypes
  <1>2. Complete(ops, told)
    BY <1>1, PlanShape
  <1>3. Brought(ops)
    BY Zenon DEF NetworkInv, DataFits, Informed
  <1> HIDE DEF ops
  <1>4. ASSUME NEW k \in 1..Len(ops), ops[k].op \in Brings
        PROVE  \A q \in Senders(ops[k]) : have[ops[k].of][q] = told.t
    <2>1. Passed(k)
      BY Zenon DEF Passed
    <2> QED BY <2>1, <1>3, <1>4, Zenon DEF Brought
  <1>5. ASSUME NEW n \in Brings, NEW v, \E k \in 1..Len(ops) : ops[k] = OpOf(n, v)
        PROVE  \A q \in Senders(OpOf(n, v)) : have[v][q] = told.t
    <2>1. PICK k \in 1..Len(ops) : ops[k] = OpOf(n, v)
      BY <1>5
    <2>2. ops[k].op = n /\ ops[k].of = v
      BY <2>1 DEF OpOf
    <2> QED BY <2>1, <2>2, <1>4
  <1>6. /\ {"gather", "drift", "relay", "value"} \subseteq Brings
        /\ \A v : Senders(OpOf("gather", v)) = Compute
        /\ \A v : Senders(OpOf("drift", v)) = {imaster} /\ Senders(OpOf("relay", v)) = {imaster}
        /\ \A v : Senders(OpOf("value", v)) = {Owner}
    BY DEF Brings, OpOf, Senders
  <1> SUFFICES ASSUME NEW s \in Written(told), NEW v \in Fields(s), NEW p \in Sources(v)
               PROVE  have[v][p] = told.t
    OBVIOUS
  <1>7. s \in {"g", "p", "m"} /\ s \in told.due /\ (s = "m" => told.itm > 1)
    BY DEF Written
  <1>8. CASE s = "g"
    <2>1. v \in Range(GlobalVars)
      BY <1>8 DEF Fields
    <2>2. \E k \in 1..Len(ops) : ops[k] = OpOf("gather", v)
      BY <1>2, <1>7, <1>8, <2>1, Zenon DEF Complete
    <2>3. Sources(v) = Compute
      <3>1. v \notin {"drift", "run", "point"}
        BY <2>1, FieldNames
      <3> QED BY <3>1 DEF Sources
    <2> QED BY <2>2, <2>3, <1>5, <1>6
  <1>9. CASE s = "m"
    <2>1. v = "mean" /\ HasMean
      BY <1>9 DEF Fields
    <2>2. \E k \in 1..Len(ops) : ops[k] = OpOf("gather", v)
      BY <1>2, <1>7, <1>9, <2>1, Zenon DEF Complete
    <2>3. Sources(v) = Compute
      BY <2>1 DEF Sources
    <2> QED BY <2>2, <2>3, <1>5, <1>6
  <1>10. CASE s = "p"
    <2>1. (v = "run" /\ HasPoint) \/ (v = "point" /\ HasPoint) \/ (v = "drift" /\ HasDrifter)
      BY <1>10 DEF Fields
    <2>2. CASE v = "run" /\ HasPoint
      <3>1. \E k \in 1..Len(ops) : ops[k] = OpOf("relay", v)
        BY <1>2, <1>7, <1>10, <2>2, Zenon DEF Complete
      <3>2. Sources(v) = {imaster}
        BY <2>2 DEF Sources
      <3> QED BY <3>1, <3>2, <1>5, <1>6
    <2>3. CASE v = "point" /\ HasPoint
      <3>1. \E k \in 1..Len(ops) : ops[k] = OpOf("value", v)
        BY <1>2, <1>7, <1>10, <2>3, Zenon DEF Complete
      <3>2. Sources(v) = {Owner}
        BY <2>3 DEF Sources
      <3> QED BY <3>1, <3>2, <1>5, <1>6
    <2>4. CASE v = "drift" /\ HasDrifter
      <3>1. \E k \in 1..Len(ops) : ops[k] = OpOf("drift", v)
        BY <1>2, <2>4, Zenon DEF Complete
      <3>2. Sources(v) = {imaster}
        BY <2>4 DEF Sources
      <3> QED BY <3>1, <3>2, <1>5, <1>6
    <2> QED BY <2>1, <2>2, <2>3, <2>4
  <1> QED BY <1>7, <1>8, <1>9, <1>10

LEMMA WriteSnapshot ==
    ASSUME NetworkInv, SnapshotInv, Write
    PROVE  SnapshotInv'
  <1> DEFINE rec == [at |-> told.t, what |-> Written(told)]
             age == UNION {{have[v][p] : p \in Sources(v)} : v \in UNION {Fields(s) : s \in Written(told)}}
  <1>1. /\ pc[omaster] = "output" /\ at[omaster] = 0
        /\ IF Written(told) = {} THEN file' = file /\ ages' = ages
           ELSE file' = Append(file, rec) /\ ages' = Append(ages, age)
        /\ eager' = eager /\ aborted' = aborted /\ collected' = collected
    BY Zenon DEF Write
  <1>2. age \subseteq {told.t}
    <2>1. \A s \in Written(told) : \A v \in Fields(s) : \A p \in Sources(v) : have[v][p] = told.t
      BY <1>1, AllCollected
    <2> QED BY <2>1
  <1>3. told.t \in 0..TStop
    BY DEF NetworkInv, NetTypes, Clock
  <1>4. rec \in [at : 0..TStop, what : SUBSET Stream] /\ rec.at = told.t
    BY <1>3 DEF Written, Stream
  <1>5. age \in SUBSET Int
    BY <1>2, <1>3
  <1> HIDE DEF rec, age
  <1>6. /\ file \in Seq([at : 0..TStop, what : SUBSET Stream]) /\ ages \in Seq(SUBSET Int)
        /\ Len(ages) = Len(file) /\ \A i \in 1..Len(file) : ages[i] \subseteq {file[i].at}
    BY DEF SnapshotInv, FileTypes, Snapshot
  <1>7. CASE Written(told) = {}
    BY <1>1, <1>7, Zenon DEF SnapshotInv, FileTypes, Snapshot
  <1>8. CASE Written(told) # {}
    <2>1. file' = Append(file, rec) /\ ages' = Append(ages, age)
      BY <1>1, <1>8
    <2>2. /\ file' \in Seq([at : 0..TStop, what : SUBSET Stream]) /\ ages' \in Seq(SUBSET Int)
          /\ Len(ages') = Len(file')
      BY <2>1, <1>4, <1>5, <1>6
    <2>3. ASSUME NEW i \in 1..Len(file') PROVE ages'[i] \subseteq {file'[i].at}
      <3>1. CASE i \in 1..Len(file)
        <4>1. file'[i] = file[i] /\ ages'[i] = ages[i]
          BY <2>1, <3>1, <1>6
        <4> QED BY <3>1, <4>1, <1>6, Zenon
      <3>2. CASE i = Len(file) + 1
        <4>1. file'[i] = rec /\ ages'[i] = age
          BY <2>1, <3>2, <1>4, <1>6
        <4> QED BY <4>1, <1>2, <1>4, Zenon
      <3>3. i \in 1..Len(file) \/ i = Len(file) + 1
        BY <2>1, <1>4, <1>6
      <3> QED BY <3>1, <3>2, <3>3
    <2> QED BY <2>2, <2>3, <1>1, Zenon DEF SnapshotInv, FileTypes, Snapshot
  <1> QED BY <1>7, <1>8

LEMMA SnapshotInit == Init => SnapshotInv
  <1> SUFFICES ASSUME Init PROVE SnapshotInv
    OBVIOUS
  <1>1. eager \in BOOLEAN /\ aborted = FALSE /\ collected = {} /\ file = <<>> /\ ages = <<>>
    BY Zenon DEF Init
  <1>2. /\ file \in Seq([at : 0..TStop, what : SUBSET Stream]) /\ ages \in Seq(SUBSET Int)
        /\ Len(ages) = Len(file) /\ 1..Len(file) = {}
    BY <1>1
  <1> QED BY <1>1, <1>2, Zenon DEF SnapshotInv, FileTypes, Snapshot

LEMMA SnapshotNext ==
    ASSUME NetworkInv, SnapshotInv, [Next]_vars
    PROVE  SnapshotInv'
  <1>1. CASE Write
    BY <1>1, WriteSnapshot
  <1>2. ASSUME NEW p \in Proc, Receive(p)
        PROVE  SnapshotInv'
    <2>1. eager' = eager /\ aborted' = aborted /\ file' = file /\ ages' = ages
      BY <1>2, Zenon DEF Receive
    <2>2. collected' = collected \/ collected' = {}
          \/ (collected' = collected \cup {Here(p).of} /\ Here(p).op = "gather")
      BY <1>2 DEF Receive, Absorb
    <2>3. Here(p).op = "gather" => Here(p).of \in Field
      <3>1. PICK R \in Seq(Clock) : Placed(R)
        BY DEF NetworkInv
      <3>2. Here(p) \in Operation
        BY <3>1, <1>2, HereFits DEF NetworkInv, Receive
      <3> QED BY <3>2 DEF Operation
    <2>4. collected' \subseteq Field
      <3>1. collected \subseteq Field
        BY DEF SnapshotInv, FileTypes
      <3> QED BY <3>1, <2>2, <2>3
    <2> QED BY <2>1, <2>4, Zenon DEF SnapshotInv, FileTypes, Snapshot
  <1>3. ASSUME NEW p \in Proc, Return(p)
        PROVE  SnapshotInv'
    <2>1. /\ eager' = eager /\ collected' = collected /\ file' = file /\ ages' = ages
          /\ aborted' = TRUE \/ aborted' = aborted
      BY <1>3, Zenon DEF Return
    <2>2. aborted' \in BOOLEAN
      BY <2>1, Zenon DEF SnapshotInv, FileTypes
    <2> QED BY <2>1, <2>2, Zenon DEF SnapshotInv, FileTypes, Snapshot
  <1>4. CASE UNCHANGED <<eager, aborted, collected, file, ages>>
    BY <1>4, Zenon DEF SnapshotInv, FileTypes, Snapshot
  <1>5. ASSUME NEW p \in Proc, Send(p) \/ Offer(p) \/ Timestep(p) \/ EnterBarrier(p) \/ LeaveBarrier(p)
        PROVE  UNCHANGED <<eager, aborted, collected, file, ages>>
    BY <1>5, Zenon DEF Send, Offer, Timestep, EnterBarrier, LeaveBarrier
  <1>6. UNCHANGED vars => UNCHANGED <<eager, aborted, collected, file, ages>>
    BY Zenon DEF vars
  <1> QED BY <1>1, <1>2, <1>3, <1>4, <1>5, <1>6, Zenon DEF Next, Process, Compute_

\* A record holds data of its own time only, from all processes (ncoutput.F90).
THEOREM SnapshotsHold == Spec => []Snapshot
  <1>1. Init => SnapshotInv
    BY SnapshotInit
  <1>2. NetworkInv /\ SnapshotInv /\ [Next]_vars => SnapshotInv'
    BY SnapshotNext
  <1>3. SnapshotInv => Snapshot
    BY DEF SnapshotInv
  <1> QED BY <1>1, <1>2, <1>3, NetworkHolds, PTL DEF Spec

\* Every process is at an operation it takes part in.
THEOREM TypesFit == Spec => []TypeOK
  <1>1. NetworkInv /\ ClockInv /\ SnapshotInv => TypeOK
    <2> SUFFICES ASSUME NetworkInv, ClockInv, SnapshotInv PROVE TypeOK
      OBVIOUS
    <2>1. PICK R \in Seq(Clock) : Placed(R)
      BY DEF NetworkInv
    <2>2. NetTypes /\ FileTypes /\ clk \in [Compute -> Clock]
      BY DEF NetworkInv, SnapshotInv, ClockInv, ClockTypes
    <2>3. \A p \in Compute : clk[p].t \in 0..TStop /\ clk[p].due \subseteq Stream
      BY <2>2 DEF Clock
    <2>4. round \in [Proc -> Nat] /\ told.t \in 0..TStop
      BY <2>2 DEF NetTypes, Clock
    <2>5. ASSUME NEW p \in Proc
          PROVE  at[p] \in 0..Len(Ops(p)) /\ (at[p] # 0 => TakesPart(p, Here(p)))
      <3> DEFINE ops == PlanOf(R, round[p])
      <3>1. at[p] \in Nat
        BY <2>2 DEF NetTypes
      <3>2. CASE at[p] = 0
        <4>1. Len(Ops(p)) \in Nat
          <5>1. Regular(Announce) /\ \A c \in Clock : Regular(Plan(c))
            BY Announcement, PlanShape
          <5>2. p # omaster => clk[p] \in Clock
            BY <2>2, Processes
          <5>3. told \in Clock
            BY <2>2 DEF NetTypes
          <5>4. Regular(Ops(p))
            BY <5>1, <5>2, <5>3, Zenon DEF Ops
          <5> QED BY <5>4 DEF Regular
        <4> QED BY <3>2, <4>1
      <3>3. CASE at[p] # 0
        <4>1. /\ at[p] \in Turns(p, ops) /\ Here(p) = ops[at[p]]
              /\ p \in Compute \/ at[p] > 3 => Ops(p) = ops
          BY <2>1, <2>2, <3>3, HereFits
        <4>2. at[p] \in 1..Len(ops) /\ TakesPart(p, Here(p))
          BY <4>1 DEF Turns
        <4>3. CASE Ops(p) = ops
          BY <3>1, <4>2, <4>3
        <4>4. CASE p = omaster /\ ~ (at[p] > 3)
          <5>1. Ops(p) = Plan(told) /\ told \in Clock
            BY <4>4, <2>2 DEF Ops, NetTypes
          <5>2. Len(Ops(p)) >= 3 /\ Len(Ops(p)) \in Nat
            BY <5>1, PlanShape DEF Complete, Regular
          <5> QED BY <3>1, <4>2, <4>4, <5>2
        <4> QED BY <4>1, <4>3, <4>4, Processes
      <3> QED BY <3>2, <3>3
    <2> QED BY <2>2, <2>3, <2>4, <2>5, Zenon DEF TypeOK, NetTypes, FileTypes
  <1>2. Init => SnapshotInv
    BY SnapshotInit
  <1>3. NetworkInv /\ SnapshotInv /\ [Next]_vars => SnapshotInv'
    BY SnapshotNext
  <1> QED BY <1>1, <1>2, <1>3, NetworkHolds, ClocksFollow, PTL DEF Spec
-----------------------------------------------------------------------------
(* The file is what OutputFile promises *)

\* The clocks at which output is made: of all output times so far, in order.
TimesFit(R) ==
    /\ \A i, j \in 1..Len(R) : i < j => R[i].t < R[j].t /\ ~R[i].err
    /\ \A i \in 1..Len(R) : ~R[i].err => Written(R[i]) = Promise!What(R[i].t)
    /\ \A i \in 1..Len(R) :
         \E p \in Compute : R[i].t <= clk[p].t /\ (R[i].err => clk[p].err)
    /\ \A p \in Compute : \A u \in 0..TStop :
         u <= clk[p].t /\ Promise!What(u) # {} => \E i \in 1..Len(R) : R[i].t = u

\* A stream with a record at u has the output time u.
LEMMA WhatIsDue ==
    ASSUME NEW u, Promise!What(u) # {}
    PROVE  DueAt(u) # {} /\ ForcedAt(u) # {} /\ \E s \in Stream : u \in Times[s]
  <1>1. PICK s \in {"g", "p", "m"} : u \in Times[s]
    BY Zenon DEF Promise!What, Promise!Recorded
  <1>2. s \in Stream /\ s # "w"
    BY <1>1 DEF Stream
  <1>3. s \in DueAt(u)
    BY <1>1, <1>2 DEF DueAt
  <1>4. u \in Nat /\ u >= u
    BY <1>1, <1>2, ProtocolAssumption
  <1>5. s \in ForcedAt(u)
    BY <1>1, <1>2, <1>4 DEF ForcedAt
  <1> QED BY <1>1, <1>2, <1>3, <1>5

\* What is written at an output time of the run.
LEMMA NewWhat ==
    ASSUME NEW c \in Clock, NEW d \in Steps, c.t < TStop, d \notin Bad,
           c.itm >= 1 <=> \E u \in Times["m"] : u <= c.t
    PROVE  Written(Later(c, d)) = Promise!What(Later(c, d).t)
  <1> DEFINE e == Later(c, d)
  <1>1. /\ e \in Clock /\ c.t < e.t
        /\ \A s \in Stream : \A u \in Times[s] : c.t < u => e.t <= u
        /\ e.due = DueAt(e.t) /\ e.itm = IF "m" \in e.due THEN c.itm + 1 ELSE c.itm
    BY LaterClock
  <1> HIDE DEF e
  <1>2. c.t \in Nat /\ e.t \in Nat /\ c.itm \in Nat
    BY <1>1, ProtocolAssumption DEF Clock
  <1>3. {"g", "p", "m"} \subseteq Stream /\ \A s \in Stream : Times[s] \subseteq Nat
    BY ProtocolAssumption DEF Stream
  <1>4. (\E u \in Times["m"] : u <= c.t) <=> \E u \in Times["m"] : u < e.t
    <2>1. ASSUME NEW u \in Times["m"] PROVE u <= c.t <=> u < e.t
      <3>1. u \in Nat /\ (c.t < u => e.t <= u)
        BY <1>1, <1>3
      <3> QED BY <3>1, <1>1, <1>2
    <2> QED BY <2>1
  <1>5. ASSUME NEW s \in {"g", "p", "m"}
        PROVE  s \in e.due /\ (s = "m" => e.itm > 1) <=>
               e.t \in Times[s] /\ (s = "m" => \E u \in Times[s] : u < e.t)
    <2>1. s \in e.due <=> e.t \in Times[s]
      BY <1>1, <1>3 DEF DueAt
    <2>2. CASE s = "m" /\ s \in e.due
      <3>1. e.itm = c.itm + 1
        BY <1>1, <2>2
      <3>2. e.itm > 1 <=> c.itm >= 1
        BY <3>1, <1>2
      <3> QED BY <2>1, <2>2, <3>2, <1>4
    <2>3. CASE s # "m" \/ s \notin e.due
      BY <2>1, <2>3
    <2> QED BY <2>2, <2>3
  <1>6. Written(e) = {s \in {"g", "p", "m"} : s \in e.due /\ (s = "m" => e.itm > 1)}
    BY Zenon DEF Written
  <1>7. Promise!What(e.t) = {s \in {"g", "p", "m"} : e.t \in Times[s] /\ (s = "m" => \E u \in Times[s] : u < e.t)}
    BY Zenon DEF Promise!What, Promise!Recorded
  <1>8. Written(e) = Promise!What(e.t)
    BY <1>5, <1>6, <1>7
  <1> QED BY <1>8 DEF e

LEMMA TimesInit ==
    ASSUME Init
    PROVE  TimesFit(FirstRounds)
  <1> DEFINE R == FirstRounds
  <1>1. clk = [p \in Compute |-> Start] /\ Start \in Clock
    BY StartClock, Zenon DEF Init
  <1>2. /\ Start.due = {} => Len(R) = 0
        /\ Start.due # {} => Len(R) = 1 /\ R[1] = Start
    BY <1>1 DEF FirstRounds
  <1>3. /\ Start.t = 0 /\ Start.due = DueAt(0) /\ Start.err = FALSE
        /\ Start.itm = IF 0 \in Times["m"] THEN 1 ELSE 0
    BY DEF Start
  <1> HIDE DEF R
  <1>4. Written(Start) = Promise!What(0)
    <2>1. \A s \in {"g", "p", "m"} : s \in Stream /\ Times[s] \subseteq Nat
      BY ProtocolAssumption DEF Stream
    <2>2. "m" \in {"g", "p", "m"}
      OBVIOUS
    <2>3. ~ (Start.itm > 1) /\ ~ \E u \in Times["m"] : u < 0
      BY <1>3, <2>1, <2>2
    <2>4. \A s \in {"g", "p", "m"} : s \in Start.due <=> 0 \in Times[s]
      BY <1>3, <2>1 DEF DueAt
    <2>5. Written(Start) = {s \in {"g", "p", "m"} : s \in Start.due /\ (s = "m" => Start.itm > 1)}
      BY Zenon DEF Written
    <2>6. Promise!What(0) = {s \in {"g", "p", "m"} : 0 \in Times[s] /\ (s = "m" => \E u \in Times[s] : u < 0)}
      BY Zenon DEF Promise!What, Promise!Recorded
    <2> QED BY <2>3, <2>4, <2>5, <2>6
  <1>5. \A i, j \in 1..Len(R) : ~ (i < j)
    <2>1. Len(R) = 0 \/ Len(R) = 1
      BY <1>2
    <2>2. \A n \in {0, 1} : \A i, j \in 1..n : ~ (i < j)
      OBVIOUS
    <2> QED BY <2>1, <2>2
  <1>6. \A i \in 1..Len(R) : R[i] = Start
    BY <1>2
  <1>7. \A i \in 1..Len(R) : R[i].t <= clk[imaster].t /\ (R[i].err => clk[imaster].err)
    BY <1>1, <1>3, <1>6, Processes
  <1>8. ASSUME NEW p \in Compute, NEW u \in 0..TStop, u <= clk[p].t, Promise!What(u) # {}
        PROVE  \E i \in 1..Len(R) : R[i].t = u
    <2>1. u = 0
      BY <1>1, <1>3, <1>8
    <2>2. Start.due # {}
      BY <2>1, <1>3, <1>8, WhatIsDue
    <2> QED BY <2>1, <2>2, <1>2, <1>3
  <1>9. \A i \in 1..Len(R) : ~R[i].err => Written(R[i]) = Promise!What(R[i].t)
    BY <1>3, <1>4, <1>6, Zenon
  <1>10. imaster \in Compute
    BY Processes
  <1>11. TimesFit(R)
    BY <1>5, <1>7, <1>8, <1>9, <1>10, Zenon DEF TimesFit
  <1> QED BY <1>11 DEF R

LEMMA TimesStep ==
    ASSUME NEW R \in Seq(Clock), NEW S \in Seq(Clock), TimesFit(R), RoundsFit(S)',
           ClockInv, ClockInv', NEW p \in Compute, Timestep(p), Grows(R, S, p)
    PROVE  TimesFit(S)'
  <1>1. PICK c \in Clock : c = clk'[p]
    BY DEF ClockInv, ClockTypes
  <1>2. PICK d \in Steps : c = Later(clk[p], d)
    <2>1. /\ clk' = [clk EXCEPT ![p] = Later(clk[p], Agreed(Len(offers[p])))]
          /\ Agreed(Len(offers[p])) \in Steps
      BY TimestepTakes
    <2>2. clk \in [Compute -> Clock]
      BY DEF ClockInv, ClockTypes
    <2>3. clk'[p] = Later(clk[p], Agreed(Len(offers[p])))
      BY <2>1, <2>2, Zenon
    <2> QED BY <1>1, <2>1, <2>3, Zenon
  <1>3. PICK b \in Clock : b = clk[p]
    BY DEF ClockInv, ClockTypes
  <1>4. /\ b.t < TStop /\ ~b.err
        /\ \A q \in Compute : q # p => clk'[q] = clk[q]
    BY <1>3, TimestepTakes
  <1>5. /\ b.t < c.t /\ c.err = (d \in Bad)
        /\ \A s \in Stream : \A u \in Times[s] : b.t < u => c.t <= u
        /\ c.due = IF d \in Bad THEN ForcedAt(c.t) ELSE DueAt(c.t)
    BY <1>2, <1>3, <1>4, LaterClock
  <1>6. ~c.err => Written(c) = Promise!What(c.t)
    <2>1. b.itm >= 1 <=> \E u \in Times["m"] : u <= b.t
      BY <1>3, <1>4 DEF ClockInv, ClockTypes
    <2> QED BY <2>1, <1>2, <1>3, <1>4, <1>5, NewWhat
  <1>7. /\ b.t \in Nat /\ c.t \in Nat /\ \A i \in 1..Len(R) : R[i].t \in Nat
        /\ \A q \in Compute : clk[q].t \in Nat
    <2>1. \A e \in Clock : e.t \in Nat
      BY ProtocolAssumption DEF Clock
    <2>2. clk \in [Compute -> Clock]
      BY DEF ClockInv, ClockTypes
    <2> QED BY <2>1, <2>2
  <1>8. /\ \A i, j \in 1..Len(R) : i < j => R[i].t < R[j].t /\ ~R[i].err
        /\ \A i \in 1..Len(R) : ~R[i].err => Written(R[i]) = Promise!What(R[i].t)
        /\ \A i \in 1..Len(R) : \E q \in Compute : R[i].t <= clk[q].t /\ (R[i].err => clk[q].err)
        /\ \A q \in Compute : \A u \in 0..TStop :
             u <= clk[q].t /\ Promise!What(u) # {} => \E i \in 1..Len(R) : R[i].t = u
    BY Zenon DEF TimesFit
  <1>9. S = R \/ (S = Append(R, c) /\ \A q \in Compute : clk[q] = b)
    BY <1>1, <1>3, Zenon DEF Grows
  <1>10. /\ Len(R) \in Nat /\ Len(S) \in Nat
         /\ \A i \in 1..Len(R) : i \in 1..Len(S) /\ S[i] = R[i]
         /\ \A i \in 1..Len(S) : i \in 1..Len(R) \/
              (i = Len(R) + 1 /\ S[i] = c /\ \A q \in Compute : clk[q] = b)
    <2>1. CASE S = R
      BY <2>1
    <2>2. CASE S = Append(R, c) /\ \A q \in Compute : clk[q] = b
      BY <2>2, Extended
    <2> QED BY <1>9, <2>1, <2>2
  <1>11. \A i, j \in 1..Len(S) : i < j => S[i].t < S[j].t /\ ~S[i].err
    <2> SUFFICES ASSUME NEW i \in 1..Len(S), NEW j \in 1..Len(S), i < j
                 PROVE  S[i].t < S[j].t /\ ~S[i].err
      OBVIOUS
    <2>1. CASE j \in 1..Len(R)
      <3>1. i \in 1..Len(R) /\ S[i] = R[i] /\ S[j] = R[j]
        BY <1>10, <2>1
      <3> QED BY <3>1, <2>1, <1>8
    <2>2. CASE j = Len(R) + 1 /\ S[j] = c /\ \A q \in Compute : clk[q] = b
      <3>1. i \in 1..Len(R) /\ S[i] = R[i]
        BY <1>10, <2>2
      <3>2. PICK q \in Compute : R[i].t <= clk[q].t /\ (R[i].err => clk[q].err)
        BY <1>8, <3>1
      <3>3. R[i].t <= b.t /\ (R[i].err => b.err) /\ R[i].t \in Nat
        BY <3>1, <3>2, <2>2, <1>7
      <3>4. R[i].t < c.t
        BY <3>3, <1>5, <1>7
      <3> QED BY <3>1, <3>3, <3>4, <2>2, <1>4
    <2> QED BY <1>10, <2>1, <2>2
  <1>12. \A i \in 1..Len(S) : ~S[i].err => Written(S[i]) = Promise!What(S[i].t)
    <2> SUFFICES ASSUME NEW i \in 1..Len(S), ~S[i].err PROVE Written(S[i]) = Promise!What(S[i].t)
      OBVIOUS
    <2>1. CASE i \in 1..Len(R)
      <3>1. S[i] = R[i]
        BY <2>1, <1>10
      <3>2. Written(R[i]) = Promise!What(R[i].t)
        BY <2>1, <3>1, <1>8, Zenon
      <3> QED BY <3>1, <3>2, Zenon
    <2>2. CASE S[i] = c
      BY <2>2, <1>6, Zenon
    <2> QED BY <1>10, <2>1, <2>2
  <1>13. \A i \in 1..Len(S) : \E q \in Compute : S[i].t <= clk'[q].t /\ (S[i].err => clk'[q].err)
    <2> SUFFICES ASSUME NEW i \in 1..Len(S)
                 PROVE  \E q \in Compute : S[i].t <= clk'[q].t /\ (S[i].err => clk'[q].err)
      OBVIOUS
    <2>1. CASE i \in 1..Len(R)
      <3>1. S[i] = R[i]
        BY <2>1, <1>10
      <3>2. PICK q \in Compute : R[i].t <= clk[q].t /\ (R[i].err => clk[q].err)
        BY <2>1, <1>8
      <3>3. CASE q # p
        BY <3>1, <3>2, <3>3, <1>4
      <3>4. CASE q = p
        <4>1. R[i].t <= b.t /\ ~R[i].err /\ R[i].t \in Nat
          BY <2>1, <3>2, <3>4, <1>3, <1>4, <1>7
        <4>2. R[i].t <= c.t
          BY <4>1, <1>5, <1>7
        <4> QED BY <3>1, <4>1, <4>2, <1>1
      <3> QED BY <3>3, <3>4
    <2>2. CASE S[i] = c
      <3>1. c.t <= c.t
        BY <1>7
      <3> QED BY <2>2, <3>1, <1>1
    <2> QED BY <1>10, <2>1, <2>2
  <1>14. ASSUME NEW q \in Compute, NEW u \in 0..TStop, u <= clk'[q].t, Promise!What(u) # {}
         PROVE  \E i \in 1..Len(S) : S[i].t = u
    <2>1. CASE u <= clk[q].t
      <3>1. PICK i \in 1..Len(R) : R[i].t = u
        BY <2>1, <1>8, <1>14
      <3> QED BY <3>1, <1>10
    <2>2. CASE ~ (u <= clk[q].t)
      <3>1. q = p /\ u <= c.t /\ ~ (u <= b.t)
        BY <2>2, <1>1, <1>3, <1>4, <1>14
      <3>2. u = c.t
        <4>1. PICK s \in Stream : u \in Times[s]
          BY <1>14, WhatIsDue
        <4>2. b.t < u
          BY <3>1, <1>7, ProtocolAssumption
        <4>3. c.t <= u
          BY <4>1, <4>2, <1>5
        <4> QED BY <3>1, <4>3, <1>7, ProtocolAssumption
      <3>3. c.due # {}
        BY <3>2, <1>5, <1>14, WhatIsDue
      <3>4. PICK k : k = Started(p)'
        OBVIOUS
      <3>5. k \in 0..Len(S) /\ (c.due # {} => k >= 1 /\ S[k] = c)
        <4>1. Started(p)' \in 0..Len(S) /\ (clk'[p].due # {} => Started(p)' >= 1 /\ S[Started(p)'] = clk'[p])
          BY Zenon DEF RoundsFit
        <4> QED BY <4>1, <3>4, <1>1, Zenon
      <3>6. k \in 1..Len(S) /\ S[k] = c
        BY <3>3, <3>5
      <3> QED BY <3>2, <3>6
    <2> QED BY <2>1, <2>2
  <1> QED BY <1>11, <1>12, <1>13, <1>14, Zenon DEF TimesFit

\* The rounds xomaster has written.
Served ==
    IF pc[omaster] \in {"barrier", "done"} \/ (pc[omaster] = "output" /\ at[omaster] = 0)
    THEN round[omaster] - 2 ELSE round[omaster] - 1

\* The last record is of a round that was written, none of these is left out.
FileFits(R) ==
    /\ file # <<>> => \E i \in 1..Served : R[i].t = Promise!LastAt
    /\ \A i \in 1..Served : Written(R[i]) # {} => R[i].t <= Promise!LastAt

NobodyDone == \A p \in Proc : pc[p] # "done"

\* All leave the last barrier when all have come there.
AllDone == NobodyDone \/ \A p \in Proc : pc[p] \in {"barrier", "done"}

LEMMA ServedRounds ==
    ASSUME NEW R \in Seq(Clock), Placed(R), NetTypes
    PROVE  Served \in 0..Len(R)
  <1>1. MasterFits(R) /\ Len(R) \in Nat /\ round[omaster] \in Nat
    BY Processes DEF Placed, NetTypes
  <1>2. CASE pc[omaster] = "asleep"
    <2>1. round[omaster] \in 1..(Len(R) + 1)
      BY <1>1, <1>2, Zenon DEF MasterFits
    <2> QED BY <2>1, <1>1, <1>2 DEF Served
  <1>3. CASE pc[omaster] = "output" /\ at[omaster] # 0
    <2>1. round[omaster] \in 1..Len(R)
      BY <1>1, <1>3, Zenon DEF MasterFits
    <2> QED BY <2>1, <1>1, <1>3 DEF Served
  <1>4. CASE pc[omaster] = "output" /\ at[omaster] = 0
    <2>1. round[omaster] - 1 \in 1..Len(R)
      BY <1>1, <1>4, Zenon DEF MasterFits
    <2> QED BY <2>1, <1>1, <1>4 DEF Served
  <1>5. CASE pc[omaster] \in {"barrier", "done"}
    <2>1. round[omaster] = Len(R) + 2
      BY <1>1, <1>5, Zenon DEF MasterFits
    <2> QED BY <2>1, <1>1, <1>5 DEF Served
  <1> QED BY <1>1, <1>2, <1>3, <1>4, <1>5, Zenon DEF MasterFits

\* Once a process has left the last barrier, nothing but that happens.
LEMMA StagesMove ==
    ASSUME NEW R \in Seq(Clock), Placed(R), NetTypes, AllDone,
           NEW p \in Proc, Process(p), ~LeaveBarrier(p)
    PROVE  NobodyDone /\ NobodyDone'
  <1>1. pc \in [Proc -> Where]
    BY Zenon DEF NetTypes, Where
  <1>2. at[p] # 0 => pc[p] \notin {"barrier", "done"}
    <2>1. p = omaster \/ p \in Compute
      BY Processes
    <2>2. MasterFits(R) /\ \A q \in Compute : ComputeFits(R, q)
      BY DEF Placed
    <2>3. CASE p = omaster
      BY <2>2, <2>3, Zenon DEF MasterFits
    <2>4. CASE p \in Compute
      BY <2>2, <2>4 DEF ComputeFits
    <2> QED BY <2>1, <2>3, <2>4
  <1>3. /\ pc[p] \notin {"barrier", "done"}
        /\ pc' = pc \/ \E x \in Where \ {"done"} : pc' = [pc EXCEPT ![p] = x]
    <2>1. CASE Send(p)
      BY <2>1, <1>2, Zenon DEF Send
    <2>2. CASE Receive(p)
      <3>1. at[p] # 0
        BY <2>2 DEF Receive
      <3>2. pc' = pc \/ \E x \in {"barrier", "output", pc[p]} : pc' = [pc EXCEPT ![p] = x]
        BY <2>2 DEF Receive
      <3>3. pc[p] \in Where
        BY <1>1
      <3> QED BY <3>1, <3>2, <3>3, <1>2 DEF Where
    <2>3. CASE Offer(p)
      BY <2>3 DEF Offer, Where
    <2>4. CASE Timestep(p)
      BY <2>4 DEF Timestep, Where
    <2>5. CASE Return(p)
      BY <2>5 DEF Return, Where
    <2>6. CASE EnterBarrier(p)
      BY <2>6 DEF EnterBarrier, Where
    <2>7. CASE p = omaster /\ Write
      BY <2>7 DEF Write, Where
    <2> QED BY <2>1, <2>2, <2>3, <2>4, <2>5, <2>6, <2>7, Zenon DEF Process, Compute_
  <1>4. NobodyDone
    BY <1>3, Zenon DEF AllDone
  <1>5. \A q \in Proc : pc'[q] # "done"
    <2>1. \A q \in Proc : pc[q] # "done"
      BY <1>4 DEF NobodyDone
    <2>2. CASE pc' = pc
      BY <2>1, <2>2
    <2>3. CASE \E x \in Where \ {"done"} : pc' = [pc EXCEPT ![p] = x]
      BY <2>1, <2>3, <1>1
    <2> QED BY <1>3, <2>2, <2>3
  <1> QED BY <1>4, <1>5, Zenon DEF NobodyDone

LEMMA AllDoneNext ==
    ASSUME NEW R \in Seq(Clock), Placed(R), NetTypes, AllDone, [Next]_vars
    PROVE  AllDone'
  <1>1. ASSUME NEW p \in Proc, LeaveBarrier(p)
        PROVE  AllDone'
    <2>1. \A q \in Proc : pc'[q] \in {"barrier", "done"}
      <3>1. pc \in [Proc -> Where]
        BY Zenon DEF NetTypes, Where
      <3> QED BY <3>1, <1>1 DEF LeaveBarrier
    <2> QED BY <2>1, Zenon DEF AllDone
  <1>2. ASSUME NEW p \in Proc, Process(p), ~LeaveBarrier(p)
        PROVE  AllDone'
    <2>1. NobodyDone'
      BY <1>2, StagesMove
    <2> QED BY <2>1, Zenon DEF AllDone
  <1>3. UNCHANGED vars => AllDone'
    BY Zenon DEF vars, AllDone, NobodyDone
  <1> QED BY <1>1, <1>2, <1>3, Zenon DEF Next

\* Only the write ends a round for the file.
LEMMA ServedKept ==
    ASSUME NEW R \in Seq(Clock), Placed(R), NetTypes, ClockTypes, DataFits,
           NEW p \in Proc, Process(p), ~ (p = omaster /\ Write)
    PROVE  Served' = Served
  <1>1. pc \in [Proc -> Where] /\ at \in [Proc -> Nat] /\ round \in [Proc -> Nat \ {0}]
    BY Zenon DEF NetTypes, Where
  <1>2. ASSUME p # omaster PROVE Served' = Served
    <2>0. omaster \in Proc
      BY Processes
    <2>1. /\ pc' = pc \/ \E x : pc' = [pc EXCEPT ![p] = x]
          /\ at' = at \/ \E x : at' = [at EXCEPT ![p] = x]
          /\ round' = round \/ \E x : round' = [round EXCEPT ![p] = x]
      <3>1. CASE Send(p)
        BY <3>1 DEF Send, Proceed
      <3>2. CASE Receive(p)
        BY <3>2, <1>2 DEF Receive, Proceed
      <3>3. CASE Offer(p) \/ EnterBarrier(p) \/ LeaveBarrier(p) \/ Timestep(p)
        BY <3>3, Zenon DEF Offer, EnterBarrier, LeaveBarrier, Timestep
      <3>4. CASE Return(p)
        BY <3>4, Zenon DEF Return
      <3> QED BY <1>2, <3>1, <3>2, <3>3, <3>4, Zenon DEF Process, Compute_
    <2>2. pc'[omaster] = pc[omaster]
      BY <2>0, <2>1, <1>1, <1>2
    <2>3. at'[omaster] = at[omaster] /\ round'[omaster] = round[omaster]
      BY <2>0, <2>1, <1>1, <1>2
    <2> QED BY <2>2, <2>3, Zenon DEF Served
  <1>3. ASSUME p = omaster, Send(p) PROVE Served' = Served
    <2>1. /\ at[p] # 0 /\ p \in Senders(Here(p)) /\ pc' = pc
          /\ \E i : Proceed(p, Ops(p), i)
      BY <1>3, Zenon DEF Send
    <2>2. pc[p] = "output"
      BY <1>3, <2>1, SenderKnows DEF Informed
    <2>3. PICK n : Goes(p, n)
      BY <2>1, ProceedGoes, Zenon
    <2>4. at'[p] = n /\ round'[p] = IF n = 0 THEN round[p] + 1 ELSE round[p]
      BY <2>3, <1>1 DEF Goes
    <2>5. round[p] \in Nat
      BY <1>1
    <2> QED BY <1>3, <2>1, <2>2, <2>4, <2>5 DEF Served
  <1>4. ASSUME p = omaster, Receive(p) PROVE Served' = Served
    <2> DEFINE n == After(omaster, Following, at[omaster])
    <2>1. /\ Goes(omaster, n)
          /\ \/ /\ pc[omaster] = "asleep" /\ at[omaster] = 1 /\ n = 2 /\ pc' = pc
             \/ /\ pc[omaster] = "asleep" /\ at[omaster] = 2
                /\ \/ n = 0 /\ pc' = [pc EXCEPT ![omaster] = "barrier"]
                   \/ n = 3 /\ pc' = [pc EXCEPT ![omaster] = "output"]
             \/ pc[omaster] = "output" /\ at[omaster] >= 3 /\ pc' = pc
      <3>1. Receive(omaster)
        BY <1>4
      <3>2. omaster \in Proc
        BY Processes
      <3>3. at[omaster] \in Nat
        BY <3>2, <1>1
      <3> QED BY <3>1, <3>3, MasterReceives
    <2> HIDE DEF n
    <2>2. omaster \in Proc
      BY Processes
    <2>3. at'[omaster] = n /\ round'[omaster] = IF n = 0 THEN round[omaster] + 1 ELSE round[omaster]
      BY <2>1, <2>2, <1>1 DEF Goes
    <2>4. round[omaster] \in Nat /\ at[omaster] \in Nat
      BY <2>2, <1>1
    <2>5. CASE pc' = [pc EXCEPT ![omaster] = "barrier"] /\ pc[omaster] = "asleep" /\ n = 0
      <3>1. pc'[omaster] = "barrier"
        BY <2>2, <2>5, <1>1
      <3> QED BY <3>1, <2>3, <2>4, <2>5 DEF Served
    <2>6. CASE pc' = [pc EXCEPT ![omaster] = "output"] /\ pc[omaster] = "asleep" /\ n = 3
      <3>1. pc'[omaster] = "output"
        BY <2>2, <2>6, <1>1
      <3> QED BY <3>1, <2>3, <2>4, <2>6 DEF Served
    <2>7. CASE pc' = pc /\ pc[omaster] = "asleep" /\ n = 2
      BY <2>3, <2>4, <2>7 DEF Served
    <2>8. CASE pc' = pc /\ pc[omaster] = "output" /\ at[omaster] >= 3
      BY <2>3, <2>4, <2>8 DEF Served
    <2> QED BY <2>1, <2>5, <2>6, <2>7, <2>8
  <1>5. ASSUME p = omaster, LeaveBarrier(p) PROVE Served' = Served
    <2>1. pc[p] = "barrier" /\ pc'[p] = "done" /\ at' = at /\ round' = round
      BY <1>1, <1>5 DEF LeaveBarrier
    <2> QED BY <1>5, <2>1, Zenon DEF Served
  <1> QED BY <1>2, <1>3, <1>4, <1>5, Processes, Zenon DEF Process

Promised(R) == RoundsFit(R) /\ Placed(R) /\ TimesFit(R) /\ FileFits(R)

PromiseInv ==
    NetTypes /\ DataFits /\ SnapshotInv /\ AllDone /\ \E R \in Seq(Clock) : Promised(R)

\* What the processes tell of the run as a whole, as Promise sees it.
RunState ==
    IF aborted THEN "failed"
    ELSE IF \E p \in Compute : clk[p].err THEN "failing"
    ELSE IF \E p \in Proc : pc[p] = "done" THEN "closed" ELSE "open"

LEMMA FileKept ==
    ASSUME NEW R \in Seq(Clock), NEW S \in Seq(Clock), Placed(R), NetTypes, FileFits(R),
           Follows(R, S), Served' = Served, file' = file
    PROVE  FileFits(S)'
  <1>1. PICK n : n = Served
    OBVIOUS
  <1>2. n \in 0..Len(R) /\ Len(R) \in Nat
    BY <1>1, ServedRounds
  <1>3. \A i \in 1..Len(R) : S[i] = R[i]
    <2>1. S = R \/ \E p \in Compute : S = Append(R, clk'[p])
      BY Zenon DEF Follows, Grows
    <2> QED BY <2>1
  <1>4. \A i \in 1..n : S[i] = R[i]
    BY <1>2, <1>3
  <1>5. Promise!LastAt' = Promise!LastAt
    BY Zenon DEF Promise!LastAt
  <1>6. /\ file # <<>> => \E i \in 1..n : R[i].t = Promise!LastAt
        /\ \A i \in 1..n : Written(R[i]) # {} => R[i].t <= Promise!LastAt
    BY <1>1, Zenon DEF FileFits
  <1>7. /\ file' # <<>> => \E i \in 1..n : S[i].t = Promise!LastAt'
        /\ \A i \in 1..n : Written(S[i]) # {} => S[i].t <= Promise!LastAt'
    BY <1>4, <1>5, <1>6, Zenon
  <1>8. Served' = n
    BY <1>1
  <1> QED BY <1>7, <1>8, Zenon DEF FileFits

LEMMA LastAtInt ==
    ASSUME FileTypes
    PROVE  Promise!LastAt \in Int
  <1>1. ASSUME NEW T, NEW f \in Seq(T), f # <<>>
        PROVE  f[Len(f)] \in T
    <2>1. Len(f) \in 1..Len(f)
      BY <1>1
    <2> QED BY <2>1
  <1>2. file # <<>> => file[Len(file)] \in [at : 0..TStop, what : SUBSET Stream]
    BY <1>1, Zenon DEF FileTypes
  <1>3. file # <<>> => file[Len(file)].at \in 0..TStop
    BY <1>2
  <1> QED BY <1>3 DEF Promise!LastAt

\* What xomaster writes, and after what.
LEMMA WriteFollows ==
    ASSUME NEW R \in Seq(Clock), Placed(R), NetTypes, ClockTypes, FileTypes,
           TimesFit(R), FileFits(R), Write
    PROVE  /\ FileFits(R)' /\ told \in Clock /\ \E i \in 1..Len(R) : told = R[i]
           /\ IF Written(told) = {} THEN file' = file
              ELSE file' = Append(file, [at |-> told.t, what |-> Written(told)])
           /\ Promise!LastAt < told.t
           /\ \A u \in Promise!Pending : u >= told.t
  <1>1. PICK d : d = round[omaster] - 1
    OBVIOUS
  <1>2. /\ pc[omaster] = "output" /\ at[omaster] = 0 /\ round' = round
        /\ pc' = [pc EXCEPT ![omaster] = "asleep"] /\ at' = [at EXCEPT ![omaster] = 1]
        /\ IF Written(told) = {} THEN file' = file
           ELSE file' = Append(file, [at |-> told.t, what |-> Written(told)])
    BY Zenon DEF Write
  <1>3. d \in 1..Len(R) /\ told = R[d] /\ Len(R) \in Nat
    BY <1>1, <1>2 DEF Placed, MasterFits
  <1>4. Served = d - 1
    <2>1. round[omaster] \in Nat
      BY Processes DEF NetTypes
    <2> QED BY <2>1, <1>1, <1>2 DEF Served
  <1>5. Served' = d
    <2>1. pc'[omaster] = "asleep" /\ at'[omaster] = 1
      BY <1>2, Processes DEF NetTypes
    <2> QED BY <2>1, <1>1, <1>2 DEF Served
  <1>6. /\ \A i, j \in 1..Len(R) : i < j => R[i].t < R[j].t /\ ~R[i].err
        /\ \A i \in 1..Len(R) : ~R[i].err => Written(R[i]) = Promise!What(R[i].t)
        /\ \A i \in 1..Len(R) : \E p \in Compute : R[i].t <= clk[p].t /\ (R[i].err => clk[p].err)
        /\ \A p \in Compute : \A u \in 0..TStop :
             u <= clk[p].t /\ Promise!What(u) # {} => \E i \in 1..Len(R) : R[i].t = u
    BY Zenon DEF TimesFit
  <1>7. /\ file # <<>> => \E i \in 1..(d - 1) : R[i].t = Promise!LastAt
        /\ \A i \in 1..(d - 1) : Written(R[i]) # {} => R[i].t <= Promise!LastAt
    BY <1>4, Zenon DEF FileFits
  <1>8. \A i \in 1..Len(R) : R[i].t \in 0..TStop
    <2>1. \A c \in Clock : c.t \in 0..TStop
      BY DEF Clock
    <2>2. \A i \in 1..Len(R) : R[i] \in Clock
      OBVIOUS
    <2> QED BY <2>1, <2>2, Zenon
  <1>9. Promise!LastAt < told.t
    <2>1. CASE file = <<>>
      <3>1. Promise!LastAt = -1
        BY <2>1 DEF Promise!LastAt
      <3>2. told.t \in 0..TStop
        BY <1>3, <1>8
      <3> QED BY <3>1, <3>2, ProtocolAssumption
    <2>2. CASE file # <<>>
      <3>1. PICK i \in 1..(d - 1) : R[i].t = Promise!LastAt
        BY <2>2, <1>7
      <3>2. i \in 1..Len(R) /\ i < d
        BY <1>3
      <3> QED BY <3>1, <3>2, <1>3, <1>6
    <2> QED BY <2>1, <2>2
  <1>10. ASSUME NEW u \in Promise!Pending
         PROVE  u >= told.t
    <2>1. u \in 0..TStop /\ u > Promise!LastAt /\ Promise!What(u) # {}
      BY Zenon DEF Promise!Pending
    <2>2. told.t \in 0..TStop
      BY <1>3, <1>8
    <2>3. CASE u < told.t
      <3>1. PICK p \in Compute : told.t <= clk[p].t
        BY <1>3, <1>6
      <3>2. u <= clk[p].t
        <4>1. clk[p] \in Clock
          BY DEF ClockTypes
        <4>2. clk[p].t \in 0..TStop
          BY <4>1 DEF Clock
        <4> QED BY <4>2, <3>1, <2>1, <2>2, <2>3
      <3>3. PICK i \in 1..Len(R) : R[i].t = u
        BY <3>2, <2>1, <1>6
      <3>4. i < d
        <4>1. d < i => R[d].t < R[i].t
          BY <1>3, <1>6
        <4>2. i \in Nat /\ d \in Nat /\ (d = i \/ d < i \/ i < d)
          BY <1>3
        <4>3. ~ (R[d].t < R[i].t) /\ R[i].t # R[d].t
          BY <3>3, <2>1, <2>2, <2>3, <1>3
        <4> QED BY <4>1, <4>2, <4>3
      <3>5. ~R[i].err /\ i \in 1..(d - 1)
        BY <3>4, <1>3, <1>6
      <3>6. Written(R[i]) # {}
        BY <3>3, <3>5, <2>1, <1>6
      <3>7. u <= Promise!LastAt
        BY <3>3, <3>5, <3>6, <1>7
      <3>8. Promise!LastAt \in Int
        BY LastAtInt
      <3> QED BY <3>7, <3>8, <2>1
    <2> QED BY <2>1, <2>2, <2>3
  <1>11. FileFits(R)'
    <2>1. /\ file' # <<>> => \E i \in 1..d : R[i].t = Promise!LastAt'
          /\ \A i \in 1..d : Written(R[i]) # {} => R[i].t <= Promise!LastAt'
      <3>1. \A i \in 1..d : i \in 1..(d - 1) \/ i = d
        BY <1>3
      <3>2. \A i \in 1..(d - 1) : i \in 1..d
        BY <1>3
      <3>3. CASE Written(told) = {}
        <4>1. Promise!LastAt' = Promise!LastAt /\ file' = file
          BY <3>3, <1>2, Zenon DEF Promise!LastAt
        <4> QED BY <3>1, <3>2, <3>3, <4>1, <1>3, <1>7, Zenon
      <3>4. CASE Written(told) # {}
        <4>1. Promise!LastAt' = told.t /\ d \in 1..d
          <5>1. file \in Seq([at : 0..TStop, what : SUBSET Stream])
            BY DEF FileTypes
          <5>2. file' = Append(file, [at |-> told.t, what |-> Written(told)])
            BY <3>4, <1>2
          <5>3. PICK r : r = [at |-> told.t, what |-> Written(told)]
            OBVIOUS
          <5>4. Len(file') = Len(file) + 1 /\ file'[Len(file) + 1] = r /\ file' # <<>>
            BY <5>1, <5>2, <5>3
          <5>5. Promise!LastAt' = r.at
            BY <5>4 DEF Promise!LastAt
          <5> QED BY <5>3, <5>5, <1>3
        <4>2. \A i \in 1..d : R[i].t <= R[d].t
          <5>1. R[d].t \in Nat
            BY <1>3, <1>8
          <5>2. \A i \in 1..(d - 1) : R[i].t \in Nat /\ R[i].t < R[d].t
            BY <1>3, <1>6, <1>8
          <5> QED BY <3>1, <5>1, <5>2
        <4> QED BY <4>1, <4>2, <1>3, Zenon
      <3> QED BY <3>3, <3>4
    <2> QED BY <2>1, <1>5, Zenon DEF FileFits
  <1>12. told \in Clock
    BY DEF NetTypes
  <1> QED BY <1>2, <1>3, <1>9, <1>10, <1>11, <1>12

LEMMA PromiseBegins ==
    ASSUME Init
    PROVE  PromiseInv /\ Promise!Init
  <1>1. /\ pc = [p \in Proc |-> IF p = omaster THEN "asleep" ELSE "output"]
        /\ round = [p \in Proc |-> 1] /\ clk = [p \in Compute |-> Start]
        /\ file = <<>> /\ aborted = FALSE
    BY Zenon DEF Init
  <1>2. /\ FirstRounds \in Seq(Clock) /\ RoundsFit(FirstRounds) /\ Placed(FirstRounds)
        /\ NetTypes /\ DataFits
    BY NetworkInit DEF NetworkInv
  <1>3. NobodyDone
    BY <1>1 DEF NobodyDone
  <1>4. FileFits(FirstRounds)
    <2>1. Served = 0
      BY <1>1, Processes DEF Served
    <2>2. 1..Served = {}
      BY <2>1
    <2> QED BY <1>1, <2>2, Zenon DEF FileFits
  <1>5. PromiseInv
    BY <1>2, <1>3, <1>4, TimesInit, SnapshotInit, Zenon DEF PromiseInv, Promised, AllDone
  <1>6. RunState = "open"
    <2>1. \A p \in Compute : ~clk[p].err
      BY <1>1 DEF Start
    <2> QED BY <1>1, <1>3, <2>1, Zenon DEF RunState, NobodyDone
  <1>7. Promise!Init
    BY <1>1, <1>6, Zenon DEF Promise!Init, RunState
  <1> QED BY <1>5, <1>7

LEMMA PromiseHolds ==
    ASSUME PromiseInv, ClockInv, ClockInv', [Next]_vars
    PROVE  PromiseInv'
  <1>1. /\ NetTypes /\ DataFits /\ SnapshotInv /\ AllDone /\ ClockTypes
    BY Zenon DEF PromiseInv, ClockInv
  <1>2. PICK R \in Seq(Clock) : RoundsFit(R) /\ Placed(R) /\ TimesFit(R) /\ FileFits(R)
    BY Zenon DEF PromiseInv, Promised
  <1>3. NetTypes' /\ DataFits' /\ \E S \in Seq(Clock) : RoundsFit(S)' /\ Placed(S)' /\ Follows(R, S)
    BY <1>1, <1>2, RoundsNext
  <1>4. PICK S \in Seq(Clock) : RoundsFit(S)' /\ Placed(S)' /\ Follows(R, S)
    BY <1>3
  <1>5. SnapshotInv'
    BY <1>1, <1>2, SnapshotNext, Zenon DEF NetworkInv
  <1>6. AllDone'
    BY <1>1, <1>2, AllDoneNext
  <1>7. TimesFit(S)'
    <2>1. CASE S = R /\ clk' = clk
      BY <1>2, <2>1, Zenon DEF TimesFit
    <2>2. CASE \E p \in Compute : Timestep(p) /\ Grows(R, S, p)
      BY <1>2, <1>4, <2>2, TimesStep
    <2> QED BY <1>4, <2>1, <2>2, Zenon DEF Follows
  <1>8. FileFits(S)'
    <2>1. CASE Write
      <3>1. FileFits(R)'
        BY <1>1, <1>2, <2>1, WriteFollows DEF SnapshotInv
      <3>2. S = R
        <4>1. ASSUME NEW p \in Compute PROVE ~Timestep(p)
          <5>1. Timestep(p) => pc' = [pc EXCEPT ![p] = "output"]
            BY Zenon DEF Timestep
          <5>2. pc' = [pc EXCEPT ![omaster] = "asleep"] /\ pc[omaster] = "output"
            BY <2>1, Zenon DEF Write
          <5>3. pc \in [Proc -> Where]
            BY <1>1, Zenon DEF NetTypes, Where
          <5> QED BY <5>1, <5>2, <5>3, Processes
        <4> QED BY <4>1, <1>4, Zenon DEF Follows
      <3> QED BY <3>1, <3>2
    <2>2. CASE Served' = Served /\ file' = file
      BY <1>1, <1>2, <1>4, <2>2, FileKept
    <2>3. ASSUME NEW p \in Proc, Process(p), ~Write
          PROVE  Served' = Served /\ file' = file
      <3>1. Served' = Served
        BY <1>1, <1>2, <2>3, ServedKept
      <3>2. file' = file
        BY <2>3, Zenon DEF Process, Compute_, Send, Receive, LeaveBarrier, Offer, Timestep, Return, EnterBarrier
      <3> QED BY <3>1, <3>2
    <2>4. UNCHANGED vars => Served' = Served /\ file' = file
      BY Zenon DEF vars, Served
    <2> QED BY <2>1, <2>2, <2>3, <2>4, Zenon DEF Next
  <1> QED BY <1>3, <1>4, <1>5, <1>6, <1>7, <1>8, Zenon DEF PromiseInv, Promised

\* A step of the processes is a step of the promise, or none.
LEMMA PromiseSteps ==
    ASSUME PromiseInv, ClockInv, ClockInv', [Next]_vars
    PROVE  Promise!Next \/ (file' = file /\ RunState' = RunState)
  <1>1. /\ NetTypes /\ DataFits /\ FileTypes /\ AllDone /\ ClockTypes
    BY Zenon DEF PromiseInv, SnapshotInv, ClockInv
  <1>2. PICK R \in Seq(Clock) : RoundsFit(R) /\ Placed(R) /\ TimesFit(R) /\ FileFits(R)
    BY Zenon DEF PromiseInv, Promised
  <1>3. ASSUME clk' = clk, aborted' = aborted, NobodyDone, NobodyDone'
        PROVE  RunState' = RunState
    BY <1>3, Zenon DEF RunState, NobodyDone
  \* A time step may fail.
  <1>4. ASSUME NEW p \in Compute, Process(p), Timestep(p)
        PROVE  Promise!Next \/ (file' = file /\ RunState' = RunState)
    <2>1. NobodyDone /\ NobodyDone'
      <3>1. ~LeaveBarrier(p) /\ p \in Proc
        BY <1>4, Processes DEF LeaveBarrier, Timestep
      <3> QED BY <3>1, <1>1, <1>2, <1>4, StagesMove
    <2>2. ~aborted /\ aborted' = aborted /\ file' = file
      BY <1>4, Zenon DEF Process, Timestep
    <2>3. ~clk[p].err /\ \A q \in Compute : q # p => clk'[q] = clk[q]
      BY <1>4, TimestepTakes
    <2>4. CASE \E q \in Compute : clk[q].err
      <3>1. \E q \in Compute : clk'[q].err
        BY <2>3, <2>4
      <3> QED BY <2>2, <2>4, <3>1, Zenon DEF RunState
    <2>5. CASE (\A q \in Compute : ~clk[q].err) /\ ~clk'[p].err
      <3>1. \A q \in Compute : ~clk'[q].err
        BY <2>3, <2>5
      <3> QED BY <2>1, <2>2, <2>5, <3>1, Zenon DEF RunState, NobodyDone
    <2>6. CASE (\A q \in Compute : ~clk[q].err) /\ clk'[p].err
      <3>1. RunState = "open" /\ RunState' = "failing"
        BY <2>1, <2>2, <2>6, Zenon DEF RunState, NobodyDone
      <3>2. Promise!Stumble
        BY <2>2, <3>1, Zenon DEF Promise!Stumble, RunState
      <3> QED BY <3>2, Zenon DEF Promise!Next
    <2> QED BY <2>4, <2>5, <2>6
  \* After the forced output the run is given up.
  <1>5. ASSUME NEW p \in Compute, Process(p), Return(p)
        PROVE  Promise!Next \/ (file' = file /\ RunState' = RunState)
    <2>1. NobodyDone /\ NobodyDone'
      <3>1. ~LeaveBarrier(p) /\ p \in Proc
        BY <1>5, Processes DEF LeaveBarrier, Return
      <3> QED BY <3>1, <1>1, <1>2, <1>5, StagesMove
    <2>2. /\ ~aborted /\ file' = file /\ clk' = clk
          /\ aborted' = aborted \/ (clk[p].err /\ aborted' = TRUE)
      BY <1>5, Zenon DEF Process, Return
    <2>3. CASE aborted' = aborted
      BY <1>3, <2>1, <2>2, <2>3, Zenon
    <2>4. CASE clk[p].err /\ aborted' = TRUE
      <3>0. aborted'
        BY <2>4
      <3>1. RunState = "failing" /\ RunState' = "failed"
        BY <2>2, <2>4, <3>0, Zenon DEF RunState
      <3>2. Promise!Fail
        BY <2>2, <2>4, <3>0, <3>1, Zenon DEF Promise!Fail, RunState
      <3> QED BY <3>2, Zenon DEF Promise!Next
    <2> QED BY <2>2, <2>3, <2>4
  \* When the first process leaves the barrier, all rounds are written.
  <1>6. ASSUME NEW p \in Proc, Process(p), LeaveBarrier(p)
        PROVE  Promise!Next \/ (file' = file /\ RunState' = RunState)
    <2>1. /\ ~aborted /\ aborted' = aborted /\ file' = file /\ clk' = clk
          /\ \A q \in Proc : pc[q] \in {"barrier", "done"}
          /\ pc' = [pc EXCEPT ![p] = "done"]
      BY <1>6, Zenon DEF Process, LeaveBarrier
    <2>2. pc \in [Proc -> Where]
      BY <1>1, Zenon DEF NetTypes, Where
    <2>3. pc'[p] = "done"
      BY <2>1, <2>2
    <2>4. \A q \in Compute : clk[q].t = TStop /\ ~clk[q].err
      BY <1>1, <2>1, Processes DEF ClockTypes
    <2>5. RunState' = "closed" /\ (RunState = "open" \/ RunState = "closed")
      BY <2>1, <2>3, <2>4, Zenon DEF RunState
    <2>6. Served = Len(R) /\ Len(R) \in Nat
      <3>1. pc[omaster] \in {"barrier", "done"}
        BY <2>1, Processes
      <3>2. round[omaster] = Len(R) + 2
        BY <3>1, <1>2, Zenon DEF Placed, MasterFits
      <3>3. Len(R) \in Nat
        OBVIOUS
      <3> QED BY <3>1, <3>2, <3>3 DEF Served
    <2>7. ASSUME NEW u \in 0..TStop, Promise!What(u) # {}
          PROVE  u <= Promise!LastAt
      <3>1. u <= clk[imaster].t /\ imaster \in Compute
        BY <2>4, <2>7, Processes, ProtocolAssumption
      <3>2. PICK i \in 1..Len(R) : R[i].t = u
        BY <3>1, <1>2, <2>7, Zenon DEF TimesFit
      <3>3. ~R[i].err
        <4>1. \E q \in Compute : R[i].err => clk[q].err
          BY <1>2, Zenon DEF TimesFit
        <4> QED BY <4>1, <2>4
      <3>4. Written(R[i]) # {}
        <4>1. Written(R[i]) = Promise!What(R[i].t)
          BY <3>3, <1>2, Zenon DEF TimesFit
        <4> QED BY <4>1, <3>2, <2>7, Zenon
      <3>5. R[i].t <= Promise!LastAt
        BY <3>4, <2>6, <1>2, Zenon DEF FileFits
      <3> QED BY <3>2, <3>5
    <2>8. Promise!Pending = {}
      <3>1. Promise!LastAt \in Int
        BY <1>1, LastAtInt
      <3>2. ASSUME NEW u \in 0..TStop, u > Promise!LastAt, Promise!What(u) # {} PROVE FALSE
        <4>1. u <= Promise!LastAt
          BY <2>7, <3>2
        <4> QED BY <3>1, <3>2, <4>1, ProtocolAssumption
      <3> QED BY <3>2, Zenon DEF Promise!Pending
    <2>9. CASE RunState = "open"
      <3>1. Promise!Close
        BY <2>1, <2>5, <2>8, <2>9, Zenon DEF Promise!Close, RunState
      <3> QED BY <3>1, Zenon DEF Promise!Next
    <2> QED BY <2>1, <2>5, <2>9, Zenon
  <1>7. ASSUME Process(omaster), Write
        PROVE  Promise!Next \/ (file' = file /\ RunState' = RunState)
    <2>1. NobodyDone /\ NobodyDone'
      <3>1. ~LeaveBarrier(omaster) /\ omaster \in Proc
        BY <1>7, Processes DEF LeaveBarrier, Write
      <3> QED BY <3>1, <1>1, <1>2, <1>7, StagesMove
    <2>2. ~aborted /\ aborted' = aborted /\ clk' = clk
      BY <1>7, Zenon DEF Process, Write
    <2>3. RunState' = RunState
      BY <1>3, <2>1, <2>2
    <2>4. RunState = IF \E p \in Compute : clk[p].err THEN "failing" ELSE "open"
      BY <2>1, <2>2, Zenon DEF RunState, NobodyDone
    <2>5. /\ told \in Clock /\ \E i \in 1..Len(R) : told = R[i]
          /\ IF Written(told) = {} THEN file' = file
             ELSE file' = Append(file, [at |-> told.t, what |-> Written(told)])
          /\ Promise!LastAt < told.t
          /\ \A u \in Promise!Pending : u >= told.t
      BY <1>1, <1>2, <1>7, WriteFollows
    <2>6. told.t \in 0..TStop /\ Promise!LastAt \in Int
      BY <1>1, <2>5, LastAtInt DEF Clock
    <2>7. CASE Written(told) = {}
      BY <2>3, <2>5, <2>7
    <2>8. CASE Written(told) # {} /\ ~told.err
      <3>1. Written(told) = Promise!What(told.t)
        BY <2>5, <2>8, <1>2, Zenon DEF TimesFit
      <3>2. told.t \in Promise!Pending
        <4>1. told.t > Promise!LastAt
          BY <2>5, <2>6
        <4> QED BY <4>1, <2>6, <2>8, <3>1, Zenon DEF Promise!Pending
      <3>3. Promise!Min(Promise!Pending) = told.t
        <4>1. \A u \in Promise!Pending : u \in 0..TStop
          BY Zenon DEF Promise!Pending
        <4>2. \A u \in Promise!Pending : told.t <= u
          BY <4>1, <2>5, <2>6, ProtocolAssumption
        <4>3. ASSUME NEW x \in Promise!Pending, \A u \in Promise!Pending : x <= u
              PROVE  x = told.t
          BY <4>1, <4>2, <4>3, <3>2, <2>6, ProtocolAssumption
        <4> QED BY <3>2, <4>2, <4>3, Zenon DEF Promise!Min
      <3>4. file' = Append(file, [at |-> told.t, what |-> Promise!What(told.t)])
        BY <2>5, <2>8, <3>1
      <3>5. RunState \in {"open", "failing"} /\ Promise!Pending # {}
        BY <2>4, <3>2
      <3>6. Promise!Publish
        BY <2>3, <3>3, <3>4, <3>5, Zenon DEF Promise!Publish, RunState
      <3> QED BY <3>6, Zenon DEF Promise!Next
    <2>9. CASE Written(told) # {} /\ told.err
      <3>1. RunState = "failing"
        <4>1. \E p \in Compute : told.err => clk[p].err
          BY <2>5, <1>2, Zenon DEF TimesFit
        <4> QED BY <4>1, <2>4, <2>9
      <3>2. told.t \in (Promise!LastAt + 1)..TStop
        BY <2>5, <2>6, ProtocolAssumption
      <3>3. Written(told) \in SUBSET Promise!Recorded
        BY DEF Written, Promise!Recorded
      <3>4. file' = Append(file, [at |-> told.t, what |-> Written(told)])
        BY <2>5, <2>9
      <3>5. Promise!PublishLast
        BY <2>3, <2>5, <3>1, <3>2, <3>3, <3>4, Zenon DEF Promise!PublishLast, RunState
      <3> QED BY <3>5, Zenon DEF Promise!Next
    <2> QED BY <2>7, <2>8, <2>9
  <1>8. ASSUME NEW p \in Proc, Process(p),
               Send(p) \/ Receive(p) \/ (p \in Compute /\ (Offer(p) \/ EnterBarrier(p)))
        PROVE  file' = file /\ RunState' = RunState
    <2>1. file' = file /\ clk' = clk /\ aborted' = aborted
      BY <1>8, Zenon DEF Send, Receive, Offer, EnterBarrier
    <2>2. CASE LeaveBarrier(p)
      <3>1. at[p] = 0
        BY <2>2, <1>2, Processes DEF LeaveBarrier, Placed, ComputeFits, MasterFits
      <3>2. pc[p] = "barrier"
        BY <2>2 DEF LeaveBarrier
      <3> QED BY <3>1, <3>2, <1>8, Zenon DEF Send, Receive, Offer, EnterBarrier
    <2>3. CASE ~LeaveBarrier(p)
      <3>1. NobodyDone /\ NobodyDone'
        BY <2>3, <1>1, <1>2, <1>8, StagesMove
      <3> QED BY <3>1, <2>1, <1>3
    <2> QED BY <2>2, <2>3
  <1>9. CASE UNCHANGED vars
    <2>1. file' = file /\ clk' = clk /\ pc' = pc /\ aborted' = aborted
      BY <1>9, Zenon DEF vars
    <2>2. CASE aborted
      <3>1. aborted'
        BY <2>1, <2>2
      <3> QED BY <2>1, <2>2, <3>1, Zenon DEF RunState
    <2>3. CASE ~aborted
      <3>1. ~aborted'
        BY <2>1, <2>3
      <3> QED BY <2>1, <2>3, <3>1, Zenon DEF RunState
    <2> QED BY <2>2, <2>3
  <1> QED BY <1>4, <1>5, <1>6, <1>7, <1>8, <1>9, Zenon DEF Next, Process, Compute_

\* Between them the processes keep the promise of OutputFile: every output time
\* is written once, in order, with the streams due, the file is closed complete,
\* and a run that breaks off has at most one record more.
THEOREM PromiseKept == Spec => KeepsPromise
  <1>1. Init => PromiseInv /\ Promise!Init
    BY PromiseBegins
  <1>2. PromiseInv /\ ClockInv /\ ClockInv' /\ [Next]_vars => PromiseInv'
    BY PromiseHolds
  <1>3. PromiseInv /\ ClockInv /\ ClockInv' /\ [Next]_vars
        => [Promise!Next]_<<file, IF aborted THEN "failed"
             ELSE IF \E p \in Compute : clk[p].err THEN "failing"
             ELSE IF \E p \in Proc : pc[p] = "done" THEN "closed" ELSE "open">>
    BY PromiseSteps, Zenon DEF RunState
  <1> QED BY <1>1, <1>2, <1>3, ClocksFollow, PTL DEF Spec, KeepsPromise, Promise!Spec
=============================================================================
