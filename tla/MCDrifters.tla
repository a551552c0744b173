----------------------------- MODULE MCDrifters -----------------------------
(* Small instances of Drifters, on parts as the decomposition makes them. *)
EXTENDS Drifters

D == INSTANCE Decomposition

\* Two by two processes on 8 rows and 9 columns.
MCProc == 0..3
MCIs == [p \in MCProc |-> D!SubStart(8, 2, D!RowPart(2, p))]
MCJs == [p \in MCProc |-> D!SubStart(9, 2, D!ColPart(2, p))]
MCNx == [p \in MCProc |-> D!SubLength(8, 2, D!RowPart(2, p)) - 1]
MCNy == [p \in MCProc |-> D!SubLength(9, 2, D!ColPart(2, p)) - 1]

MCGrid == (1..7) \X (1..8)

MCWindow == <<[from |-> 0, to |-> 9], [from |-> 1, to |-> 3]>>

\* In half cells: near the borders of the parts, and near the edges.
MCStarts == {[i |-> 5, j |-> 7], [i |-> 9, j |-> 10], [i |-> 13, j |-> 3], [i |-> 2, j |-> 16]}

\* Along and across the borders, and a flow that differs between neighbours.
MCFlows == {[u |-> [x \in MCGrid |-> a], v |-> [x \in MCGrid |-> b]] :
               a \in {-3, 3}, b \in {-1, 2}}
           \cup {[u |-> [x \in MCGrid |-> x[1] - 4], v |-> [x \in MCGrid |-> 4 - x[2]]],
                 [u |-> [x \in MCGrid |-> x[2] - 4], v |-> [x \in MCGrid |-> x[1] - 4]]}
=============================================================================
