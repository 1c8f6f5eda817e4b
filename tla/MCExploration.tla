---------------------------- MODULE MCExploration ----------------------------
(* The instances of MCAlgorithm, with the history of what was decoded.      *)
EXTENDS MCAlgorithm, Exploration
=============================================================================
