---------------------------- MODULE MCBedLayers ----------------------------
(* Small instances of BedLayers. *)
EXTENDS BedLayers

\* Coarse sand on top, at the bottom, and half and half.
MCBeds == {[k \in Layer |-> IF k \in s THEN Thickness(k) ELSE 0] : s \in {{1, 2}, {3, 4}, {}}}
          \cup {[k \in Layer |-> Thickness(k) \div 2]}

\* Erosion and deposition of one fraction or both, also against each other.
MCChanges == {c \in [coarse : {-2, 0, 1, 2}, all : {-3, -2, -1, 1, 2, 3}] :
                 c.coarse * c.all >= 0 /\ c.coarse <= 2}
             \cup {[coarse |-> 1, all |-> -1]}

\* Erosion of less than the thickness of a layer, again and again.
MCSmall == {[coarse |-> 0, all |-> 3]}
=============================================================================
