----------------------------- MODULE OutputFile -----------------------------
(***************************************************************************)
(* What the output of a run promises, whoever computes and whoever writes: *)
(* one record for every output time, in order, none left out; the file is  *)
(* closed only when it is complete.  A run that breaks off has the records *)
(* up to the break, and possibly one more of the last moment.              *)
(***************************************************************************)
EXTENDS Integers, Sequences, FiniteSetsExt

CONSTANTS Times,   \* the output times of each stream
          TStop

VARIABLES file,    \* records [at |-> time, what |-> streams]
          state

Recorded == {"g", "p", "m"}       \* global, point and mean output

\* The first mean time only starts the averaging.
What(at) == {s \in Recorded : at \in Times[s] /\ (s = "m" => \E u \in Times[s] : u < at)}

LastAt == IF file = <<>> THEN -1 ELSE file[Len(file)].at

Pending == {at \in 0..TStop : at > LastAt /\ What(at) # {}}

Init == file = <<>> /\ state = "open"

Publish ==
    /\ state \in {"open", "failing"} /\ Pending # {}
    /\ file' = Append(file, [at |-> Min(Pending), what |-> What(Min(Pending))])
    /\ UNCHANGED state

Close ==
    /\ state = "open" /\ Pending = {}
    /\ state' = "closed" /\ UNCHANGED file

Stumble == state = "open" /\ state' = "failing" /\ UNCHANGED file

\* The record of the last moment: no output time lies before it.
PublishLast ==
    /\ state = "failing"
    /\ \E at \in (LastAt + 1)..TStop, what \in SUBSET Recorded :
         /\ \A u \in Pending : u >= at
         /\ file' = Append(file, [at |-> at, what |-> what])
    /\ UNCHANGED state

Fail == state = "failing" /\ state' = "failed" /\ UNCHANGED file

Next == Publish \/ Close \/ Stumble \/ PublishLast \/ Fail

Spec == Init /\ [][Next]_<<file, state>>
=============================================================================
