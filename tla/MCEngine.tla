------------------------------ MODULE MCEngine ------------------------------
(* Engine with a few addresses and analyzers, given in the configurations. *)
EXTENDS Engine
=============================================================================
