------------------------------ MODULE MCBlocks ------------------------------
(* Blocks on a segment of a few bytes and two values of the info field. *)
EXTENDS Blocks
=============================================================================
