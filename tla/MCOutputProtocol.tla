-------------------------- MODULE MCOutputProtocol --------------------------
(* Small instances of OutputProtocol. *)
EXTENDS OutputProtocol

MCTimes == [g |-> {0, 5}, p |-> {1, 5}, m |-> {0, 5}, w |-> {2}]
MCSteps == {2, 3}
MCVars  == <<"u", "v", "u">>       \* u is also the sister field of v
MCBad   == {3}
=============================================================================
