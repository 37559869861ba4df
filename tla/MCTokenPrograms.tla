--------------------------- MODULE MCTokenPrograms ---------------------------
(* Two users, a definition, the users' associated accounts of it, for TLC. *)
EXTENDS TokenPrograms

CONSTANTS coin, u1, u2, a1, a2

MCAssociated == [p \in {u1, u2} \X {coin} |-> IF p[1] = u1 THEN a1 ELSE a2]
==============================================================================
