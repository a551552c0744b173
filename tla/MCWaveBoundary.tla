--------------------------- MODULE MCWaveBoundary ---------------------------
(* Small instances of WaveBoundary. *)
EXTENDS WaveBoundary

Clock == [tstop |-> 20, tstart |-> 0, tint |-> [g |-> 9, p |-> 9, m |-> 9],
          file |-> [s \in Timed |-> <<>>], wants |-> {"g"}, wavint |-> 5,
          morfac |-> 1, morfacopt |-> 1, embedded |-> FALSE]

MCPars == {Clock, [Clock EXCEPT !.embedded = TRUE]}

Wave(kind, dur, keep, dtbc, file) ==
    [kind |-> kind, dur |-> dur, keep |-> keep, dtbc |-> dtbc, file |-> file]

Tables == {Wave("table", <<d>>, FALSE, 1, <<>>) :
              d \in {<<8, 5, 9>>, <<4, 6, 12>>, <<3, 2, 1, 9, 7>>}}

\* One location or two, with and without a FILELIST, input that is too short,
\* durations that are no whole number of records.
Spectra ==
    {Wave("spectra", d, FALSE, k, <<>>) :
        d \in {<<<<8, 12>>>>, <<<<17>>>>, <<<<3, 2, 1, 9, 7>>>>, <<<<8, 5, 4>>>>,
               <<<<9, 12>>, <<6, 6, 9>>>>, <<<<6, 6, 9>>, <<6, 6, 9>>>>}, k \in {2, 3}}
    \cup {Wave("spectra", <<<<r>>>>, TRUE, k, <<>>) : r \in {7, 10}, k \in {2, 3}}

Reused == {Wave("reuse", <<d>>, FALSE, k, <<>>) :
              d \in {<<8, 12>>, <<9, 7, 3>>, <<8, 7, 7>>}, k \in {2, 3}}

Series == {Wave("series", <<<<>>>>, FALSE, 1, f) :
              f \in {<<0, 4, 5, 9, 20>>, <<1, 3, 11>>, <<0>>, <<6, 8>>, <<0, 25>>}}

MCWaves == Tables \cup Spectra \cup Reused \cup Series
\* Program xbeach on its way to tstop without output in between.
MCStraight == {[Clock EXCEPT !.tint = [g |-> 20, p |-> 20, m |-> 20]]}
MCSpectra == {Wave("spectra", <<<<9, 9, 12>>>>, FALSE, 3, <<>>)}
MCSeries == {Wave("series", <<<<>>>>, FALSE, 1, <<0, 4, 5, 9>>)}
MCCfl == {2, 3, 7}
MCGiven == {0, 1}
NoGiven == {}
=============================================================================
