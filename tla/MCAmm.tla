------------------------------- MODULE MCAmm -------------------------------
(* One pool, for TLC.  A price is its own tick, so that two prices are never *)
(* confused; Q64 is small enough for the division to round.                  *)
EXTENDS Amm

CONSTANTS u1, u2

\* The second user starts with nothing, not even a holding.
MCInitialBalance == [s \in Side |-> [u \in User |-> IF u = u1 THEN 4 ELSE 0]]
\* The pool's own address.
MCSquattable == {POOL}
MCPriceToTick(p) == p
=============================================================================
