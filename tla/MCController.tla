---------------------------- MODULE MCController ----------------------------
(* The controller and its clients, at the scale 1.0 = 10, for TLC. *)
EXTENDS ControllerClient, TLC

\* Gains inside the band and just outside it.
MCGainInput == {-1, 0, 5}

AccountSymmetry == Permutations(Account)
=============================================================================
