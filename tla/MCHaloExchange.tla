--------------------------- MODULE MCHaloExchange ---------------------------
(* Small instances of HaloExchange. *)
EXTENDS HaloExchange

MCKinds == Kind
=============================================================================
