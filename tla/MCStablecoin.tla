---------------------------- MODULE MCStablecoin ----------------------------
(* Two positions and their clients at the scale 1.0 = 4, for TLC. *)
EXTENDS StablecoinClient, TLC

PositionSymmetry == Permutations(PositionId)
=============================================================================
