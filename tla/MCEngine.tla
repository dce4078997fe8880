------------------------------ MODULE MCEngine ------------------------------
(* The Engine runs take their constants from the configuration alone. *)
EXTENDS Engine
=============================================================================
