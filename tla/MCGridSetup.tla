---------------------------- MODULE MCGridSetup ----------------------------
(* Small instances of GridSetup. *)
EXTENDS GridSetup

Input(nx, ny, size, cyclic, div, mm, nn) ==
    [nx |-> nx, ny |-> ny, size |-> size, cyclic |-> cyclic,
     div |-> div, mmpi |-> mm, nmpi |-> nn]

\* All grids from one cell too small for two parts to three comfortable parts,
\* one- and two-dimensional, with the divisions that can be chosen.
MCInputs ==
    {Input(nx, ny, size, c, d, 1, 1) :
        nx \in {7, 10, 14}, ny \in {0, 6, 7, 9, 13}, size \in 0..3,
        c \in BOOLEAN, d \in {"y", "auto"}}
    \cup {Input(nx, ny, size, FALSE, "x", 1, 1) :
        nx \in {7, 14}, ny \in {6, 7, 12}, size \in 2..3}
    \cup {Input(nx, ny, 4, c, "man", 2, nn) :
        nx \in {6, 7, 9}, ny \in {7, 10}, c \in BOOLEAN, nn \in {2, 3}}
=============================================================================
