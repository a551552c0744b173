---------------------------- MODULE MCMeanOutput ----------------------------
(* Small instances of MeanOutput, and with it of TimeStep. *)
EXTENDS MeanOutput

NoFile == [s \in Timed |-> <<>>]

\* Intervals for two streams, a file for the points, and stationary waves.
Mixed == [tstop |-> 12, tstart |-> 0, tint |-> [g |-> 5, p |-> 5, m |-> 4],
          file |-> [NoFile EXCEPT !["p"] = <<2, 4, 9, 14>>],
          wants |-> Stream, wavint |-> 5, morfac |-> 1, morfacopt |-> 1, embedded |-> FALSE]

\* All times from files, the last ones before tstop; no wave points.
Files == [tstop |-> 11, tstart |-> 0, tint |-> [g |-> 5, p |-> 5, m |-> 4],
          file |-> [g |-> <<0, 3, 7>>, p |-> <<11>>, m |-> <<1, 3, 8>>],
          wants |-> Timed, wavint |-> 5, morfac |-> 1, morfacopt |-> 1, embedded |-> FALSE]

\* Output starts late; nothing but the mean output.
Late == [tstop |-> 10, tstart |-> 4, tint |-> [g |-> 3, p |-> 3, m |-> 2],
         file |-> NoFile, wants |-> {"m"}, wavint |-> 5,
         morfac |-> 2, morfacopt |-> 1, embedded |-> FALSE]

\* One averaging period does not fit: timestep_init stops the program.
TooShort == [Late EXCEPT !.tint = [g |-> 3, p |-> 3, m |-> 8]]

\* The same under a driver that has its own idea of the step.
Driven == {[p EXCEPT !.embedded = TRUE] : p \in {Mixed, Files, Late}}

\* Three averaging periods of one length, with global output in between.
Even == [tstop |-> 12, tstart |-> 0, tint |-> [g |-> 5, p |-> 5, m |-> 4],
         file |-> NoFile, wants |-> {"g", "m"}, wavint |-> 5,
         morfac |-> 1, morfacopt |-> 1, embedded |-> FALSE]
\* Averaging starts late, and the last mean time is not the end of the run.
LateEven == [Even EXCEPT !.tstart = 5, !.tint = [g |-> 4, p |-> 4, m |-> 3],
                         !.file = [NoFile EXCEPT !["g"] = <<1, 7>>]]
\* Mean times from a file, periods of different length.
Uneven == [Even EXCEPT !.file = [NoFile EXCEPT !["m"] = <<1, 3, 8>>]]
\* The same with a first time at zero.
UnevenZero == [Even EXCEPT !.file = [NoFile EXCEPT !["m"] = <<0, 5, 7, 12>>]]

MCPars == {Mixed, Files, Late, TooShort, Even, LateEven, Uneven, UnevenZero} \cup Driven
MCCfl == {2, 3, 7}
MCGiven == {0, 1, 2}
NoGiven == {}
=============================================================================
