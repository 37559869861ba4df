----------------------------- MODULE MCAmmClient -----------------------------
(* One client and one outsider on one pool, for TLC. *)
EXTENDS AmmClient

CONSTANTS u1, u2

\* The client has none of the second token.
MCInitialBalance ==
    [s \in Side |-> [u \in User |-> IF u = u1 THEN (IF s = "a" THEN 3 ELSE 0)
                                    ELSE (IF s = "a" THEN 3 ELSE 4)]]
\* The holding of the protocol's cut in the first token.
MCSquattable == {<<"a", FEES>>, POOL}
MCPriceToTick(p) == p
==============================================================================
