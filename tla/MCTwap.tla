------------------------------- MODULE MCTwap -------------------------------
(* A ring of three slots sampled every second unit of time, for TLC. *)
EXTENDS PoolOracle

\* Prices 0..5 stand for ticks -3..2.
MCTick == {-3, 0, 2}
MCPriceToTick(p) == p - 3
MCTickToPrice(t) == t + 100

\* What another program may leave at the buffer's address: a full-looking ring.
MCForeignObservations ==
    {[owner |-> "other", write_index |-> 0, total_entries |-> 3, last_recorded_tick |-> 2,
      entries |-> [i \in Slot |-> [timestamp |-> i, tick_cumulative |-> 2 * i]]]}
=============================================================================
