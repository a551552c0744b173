---------------------------- MODULE MCAvalanche ----------------------------
(* Small instances of Avalanche. *)
EXTENDS Avalanche

\* Eight cells on two processes with an overlap of four.
MCCell  == 1..8
MCProc  == {0, 1}
MCFirst == [p \in MCProc |-> IF p = 0 THEN 1 ELSE 3]
MCLast  == [p \in MCProc |-> IF p = 0 THEN 6 ELSE 8]
MCOwner == [c \in MCCell |-> IF c <= 4 THEN 0 ELSE 1]

\* Steps and ridges around the border, on deep sand and on a hard layer just
\* below the surface.
MCBeds == {[level |-> [c \in MCCell |-> IF c < a THEN 0 ELSE IF c = a THEN h ELSE k],
            sand  |-> [c \in MCCell |-> d]] :
              a \in 3..6, h \in {3, 6}, k \in {0, 5}, d \in {0, 2, 3, 20}}
          \cup {[level |-> [c \in MCCell |-> (c * m) % 7],
                 sand |-> [c \in MCCell |-> (c * n) % 5]] : m \in {2, 3, 5}, n \in 1..4}

\* No run-up; the same run-up and water line but another toe on each process;
\* more or less run-up on water that has just gone up; a water line that only
\* the first process has, so that the other one reads an index nothing has set.
MCWater(runs, d, n, wet, up, lines, toes) ==
    [swrunup |-> runs, depth |-> [c \in MCCell |-> IF c <= n THEN d ELSE 0], wet |-> 1..wet,
     runup   |-> [p \in MCProc |-> up[p + 1]],
     iwl     |-> [p \in MCProc |-> lines[p + 1]],
     istruct |-> [p \in MCProc |-> toes[p + 1]]]
MCWaters ==
    {MCWater(FALSE, 3, 3, 3, <<0, 0>>, <<1, 3>>, <<8, 8>>),
     MCWater(TRUE,  3, 4, 4, <<2, 2>>, <<4, 4>>, <<2, 4>>),
     MCWater(TRUE,  2, 5, 4, <<-1, 3>>, <<4, 4>>, <<4, 3>>)}
    \cup {MCWater(TRUE, 2, 2, 2, <<4, 0>>, <<2, n>>, <<1, 8>>) : n \in {3, 8}}
=============================================================================
