-------------------------- MODULE MCPossessionPlay --------------------------
(* A TLC instance of PossessionPlay: silence, a slow and a fast answer. *)
EXTENDS PossessionPlay, TLC

SamplePoints == {0, 40, 100}
=============================================================================
