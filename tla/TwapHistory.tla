---------------------------- MODULE TwapHistory ----------------------------
(***************************************************************************)
(* The TWAP oracle with a history variable, the log of everything it ever  *)
(* recorded, to state what the ring buffer and the accumulator stand for.  *)
(***************************************************************************)
EXTENDS TwapOracle, Sequences

\* NONE is not a report either.
ASSUME LiveAssumption == NONE \notin [tick : Tick, since : Nat]

VARIABLE log

HistoryInit == Init /\ log = <<>>

Logged ==
    log' = IF observations' # observations /\ observations'.owner = "oracle"
           THEN Append(log, [at |-> clock, tick |-> observations'.last_recorded_tick])
           ELSE log

HistoryNext == Next /\ Logged

HistorySpec == HistoryInit /\ [][HistoryNext]_<<vars, log>>

\* The oracle implements the price feed: the ring buffer with its running sums
\* publishes the mean of the last samples, through wrap-around, late recording,
\* reports between samples and accounts another program claimed first.
Feed == INSTANCE PriceFeed WITH
    WindowLength <- OBSERVATIONS_CAPACITY,
    Interval <- min_interval,
    MaxTail <- max_tail,
    Reach <- MAX_TICK_DELTA,
    to_price <- tick_to_oracle_price,
    now <- clock,
    live <- IF current # NONE /\ current.owner = "oracle"
            THEN [tick |-> current.tick, since |-> current.last_updated] ELSE NONE,
    published <- price_account

ImplementsPriceFeed == Feed!Spec

\* However far the source's price jumps, the recorded tick walks: between two
\* samples it moves by at most the clamp for each sample in between.
RecordedWalkIsBounded ==
    \A i, j \in 1..Len(log) : i < j =>
        /\ log[j].tick - log[i].tick <= (j - i) * MAX_TICK_DELTA
        /\ log[i].tick - log[j].tick <= (j - i) * MAX_TICK_DELTA
=============================================================================
