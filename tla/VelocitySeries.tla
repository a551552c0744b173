--------------------------- MODULE VelocitySeries ---------------------------
(***************************************************************************)
(* A series of boundary values in a sequential file, read as time goes on: *)
(* velocity_Boundary of boundaryconditions.F90.                            *)
(*                                                                         *)
(* A file is the sequence of the times of its records.  The values are     *)
(* left out: the number of a record stands for them.  Two records are kept *)
(* in memory, the window; the value handed out lies between them.          *)
(***************************************************************************)
EXTENDS Integers, Sequences, FiniteSetsExt

Junk == 0     \* memory that was allocated and not written to

NoSeries == [pos |-> 0, t0 |-> 0, t1 |-> 0, u0 |-> Junk, u1 |-> Junk,
             eof |-> FALSE, ug |-> <<Junk, Junk>>]
-----------------------------------------------------------------------------
\* A new file: its first two records, whatever the time is.  When the second
\* one is missing t1 stays what it was, and u1 gets the first value.
OpenSeries(file, s) ==
    IF Len(file) > 1
    THEN [pos |-> 2, t0 |-> file[1], t1 |-> file[2], u0 |-> 1, u1 |-> 2,
          eof |-> FALSE, ug |-> <<1, 2>>]
    ELSE [pos |-> 1, t0 |-> file[1], t1 |-> s.t1, u0 |-> 1, u1 |-> 1,
          eof |-> TRUE, ug |-> <<1, 1>>]

InWindow(s, now) == s.t0 <= now /\ now < s.t1

\* Where the loop of reads stops: a pair of records from pos on around now.
Stops(file, s, now) ==
    {k \in s.pos..(Len(file) - 1) : file[k] <= now /\ now < file[k + 1]}

Window(file, k) ==
    [pos |-> k + 1, t0 |-> file[k], t1 |-> file[k + 1], u0 |-> k, u1 |-> k + 1,
     eof |-> FALSE, ug |-> <<k, k + 1>>]

\* The end of the file.  The record is read into a buffer allocated for this
\* call: it holds the last record only when this call has read that.
AtEnd(file, s) ==
    LET last == IF s.pos = Len(file) THEN Junk ELSE Len(file)
    IN  [pos |-> Len(file), t0 |-> file[Len(file)], t1 |-> file[Len(file)],
         u0 |-> Len(file), u1 |-> last, eof |-> TRUE, ug |-> <<last, last>>]

\* Mutant of ReadSeries: one record a call, however far the clock went.
ReadOnce(file, s, now) ==
    IF s.eof THEN [s EXCEPT !.ug = <<s.u1, s.u1>>]
    ELSE IF InWindow(s, now) THEN [s EXCEPT !.ug = <<s.u0, s.u1>>]
    ELSE IF s.pos < Len(file) THEN Window(file, s.pos)
    ELSE AtEnd(file, s)

\* A regular call.
ReadSeries(file, s, now) ==
    IF s.eof THEN [s EXCEPT !.ug = <<s.u1, s.u1>>]
    ELSE IF InWindow(s, now) THEN [s EXCEPT !.ug = <<s.u0, s.u1>>]
    ELSE IF Stops(file, s, now) # {} THEN Window(file, Min(Stops(file, s, now)))
    ELSE AtEnd(file, s)
=============================================================================
