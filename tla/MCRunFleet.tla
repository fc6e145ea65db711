----------------------------- MODULE MCRunFleet -----------------------------
(* Instances of RunFleet for TLC. *)
EXTENDS RunFleet

CONSTANTS b1, b2
=============================================================================
