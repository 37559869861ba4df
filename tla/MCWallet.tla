------------------------------ MODULE MCWallet ------------------------------
(* The wallet session with a few requests of the user, for TLC. *)
EXTENDS WalletSession
=============================================================================
