------------------------- MODULE MCDevshardSettlement -------------------------
(* Instances of DevshardSettlement for TLC. *)
EXTENDS MCDevshardState, DevshardSettlement
=============================================================================
