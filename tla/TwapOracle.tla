---------------------------- MODULE TwapOracle -----------------------------
(***************************************************************************)
(* The TWAP oracle (programs/twap_oracle) for one price source and one     *)
(* window: its current-tick account, the ring buffer of observations and   *)
(* the price account its average is published to.                          *)
(*                                                                         *)
(* Recording and publishing are permissionless, so nothing orders them     *)
(* with the price source's updates or with each other; the clock is the    *)
(* canonical one-block clock, which never runs backwards.  An address that *)
(* is not in use can be claimed by any program that writes to it first.    *)
(*                                                                         *)
(* Ticks, times and the accumulator are unbounded integers: the clamp      *)
(* keeps every tick difference the code saturates within the clamp's range,*)
(* and the i64 accumulator lasts for 300 years of the largest tick.        *)
(*                                                                         *)
(* A definition under "Slip:" is the next one with a plausible mistake the *)
(* properties are there to notice; no action uses it.                      *)
(***************************************************************************)
EXTENDS Integers

CONSTANTS
    OBSERVATIONS_CAPACITY,
    MAX_TICK_DELTA,
    MAX_TAIL_INTERVALS,
    window_duration,
    Tick,                    \* ticks a price can map to
    Price,                   \* prices the source may report
    price_to_tick(_),
    tick_to_oracle_price(_),
    InitialPrice,            \* prices a price account may be created with
    ForeignObservations,     \* what another program may write at the buffer's address
    MAX_TIME,                \* bound on the clock
    NONE                     \* an account that does not exist

ASSUME CapacityAssumption ==
    /\ OBSERVATIONS_CAPACITY \in Nat \ {0, 1}
    /\ window_duration \in Nat
ASSUME BoundsAssumption ==
    MAX_TICK_DELTA \in Nat /\ MAX_TAIL_INTERVALS \in Nat \ {0} /\ MAX_TIME \in Nat
ASSUME TickAssumption == Tick \subseteq Int /\ \A p \in Price : price_to_tick(p) \in Tick
ASSUME PriceAssumption == Price \subseteq InitialPrice /\ InitialPrice \subseteq Nat

Slot == 0..(OBSERVATIONS_CAPACITY - 1)
Owner == {"oracle", "other"}

CurrentTickAccount == [owner : Owner, tick : Tick, last_updated : Nat]
ObservationEntry == [timestamp : Nat, tick_cumulative : Int]
PriceObservations ==
    [owner : Owner, write_index : Slot, total_entries : Nat, last_recorded_tick : Int,
     entries : [Slot -> ObservationEntry]]

ASSUME ForeignAssumption ==
    /\ ForeignObservations \subseteq PriceObservations
    /\ \A o \in ForeignObservations : o.owner = "other"
ASSUME NoneAssumption == NONE \notin CurrentTickAccount \union PriceObservations

VARIABLES
    clock,          \* timestamp of the canonical clock account
    current,        \* CurrentTickAccount of the source
    observations,   \* PriceObservations of the source and window
    price_account   \* OraclePriceAccount of the source and window

vars == <<clock, current, observations, price_account>>

---------------------------------------------------------------------------
(* Arithmetic                                                              *)

Clamp(x, lo, hi) == IF x < lo THEN lo ELSE IF x > hi THEN hi ELSE x

\* Never zero, whatever the window.
min_interval == IF window_duration >= OBSERVATIONS_CAPACITY
                THEN window_duration \div OBSERVATIONS_CAPACITY ELSE 1

max_tail == min_interval * MAX_TAIL_INTERVALS

\* The live tick as far as one observation may follow it.
\* Slip: the live tick is recorded as it is.
clamped_tick_Raw(last_recorded, tick) == tick
clamped_tick(last_recorded, tick) ==
    last_recorded + Clamp(tick - last_recorded, -MAX_TICK_DELTA, MAX_TICK_DELTA)

last_index(o) == IF o.write_index = 0 THEN OBSERVATIONS_CAPACITY - 1 ELSE o.write_index - 1

\* Slip: the wrap of the ring is forgotten.
oldest_index_AlwaysFirst(o) == 0
oldest_index(o) == IF o.total_entries >= OBSERVATIONS_CAPACITY THEN o.write_index ELSE 0

next_index(i) == (i + 1) % OBSERVATIONS_CAPACITY

newest(o) == o.entries[last_index(o)]
oldest(o) == o.entries[oldest_index(o)]

---------------------------------------------------------------------------
(* Accounts the price source controls                                      *)

CreateCurrentTickAccount(price) ==
    /\ current = NONE
    /\ current' = [owner |-> "oracle", tick |-> price_to_tick(price), last_updated |-> clock]
    /\ UNCHANGED <<clock, observations, price_account>>

\* The runtime refuses the write to an account the oracle does not own.
UpdateCurrentTick(price) ==
    /\ current # NONE
    /\ current.owner = "oracle"
    /\ current' = [current EXCEPT !.tick = price_to_tick(price), !.last_updated = clock]
    /\ UNCHANGED <<clock, observations, price_account>>

CreatePriceObservations(initial_tick) ==
    /\ observations = NONE
    /\ window_duration >= OBSERVATIONS_CAPACITY
    /\ observations' =
          [owner |-> "oracle", write_index |-> 1, total_entries |-> 1,
           last_recorded_tick |-> initial_tick,
           entries |-> [i \in Slot |-> [timestamp |-> IF i = 0 THEN clock ELSE 0,
                                        tick_cumulative |-> 0]]]
    /\ UNCHANGED <<clock, current, price_account>>

CreateOraclePriceAccount(initial_price) ==
    /\ price_account = NONE
    /\ window_duration >= OBSERVATIONS_CAPACITY
    /\ initial_price # 0
    /\ clock # 0
    /\ price_account' = [price |-> initial_price, timestamp |-> clock]
    /\ UNCHANGED <<clock, current, observations>>

---------------------------------------------------------------------------
(* Permissionless instructions                                             *)

\* Slip: the move of the tick is accumulated, not the tick.
next_entry_Delta(o, tick, now) ==
    [timestamp |-> now,
     tick_cumulative |-> newest(o).tick_cumulative + (tick - o.last_recorded_tick)]

\* The average integrates the recorded tick over the whole time it stands for.
next_entry(o, tick, now) ==
    [timestamp |-> now,
     tick_cumulative |-> newest(o).tick_cumulative + tick * (now - newest(o).timestamp)]

\* Slip: a whole window between samples.
sampling_due_WholeWindow(o, now) == now - newest(o).timestamp >= window_duration
sampling_due(o, now) == now - newest(o).timestamp >= min_interval

\* Too early is a transaction that changes nothing: a stuttering step.
CanRecordTick ==
    /\ current # NONE /\ observations # NONE
    /\ current.owner = "oracle"
    /\ observations.owner = "oracle"
    /\ sampling_due(observations, clock)

RecordTick ==
    /\ CanRecordTick
    /\ LET tick == clamped_tick(observations.last_recorded_tick, current.tick)
       IN  observations' =
              [observations EXCEPT
                  !.entries[observations.write_index] = next_entry(observations, tick, clock),
                  !.write_index = next_index(@),
                  !.total_entries = @ + 1,
                  !.last_recorded_tick = tick]
    /\ UNCHANGED <<clock, current, price_account>>

\* The accumulator projected to now: the recorded tick until the live one was
\* reported, the live one (clamped) from there.

tail_cumulative(o, c, now) ==
    LET boundary == Clamp(c.last_updated, newest(o).timestamp, now)
    IN  o.last_recorded_tick * (boundary - newest(o).timestamp)
        + clamped_tick(o.last_recorded_tick, c.tick) * (now - boundary)

\* Rounded towards minus infinity.
twap_tick(o, c, now) ==
    (newest(o).tick_cumulative + tail_cumulative(o, c, now) - oldest(o).tick_cumulative)
        \div (now - oldest(o).timestamp)

\* Slip: no bound on the tail.
tail_bounded_Never(o, now) == TRUE
tail_bounded(o, now) == now - newest(o).timestamp <= max_tail

\* With fewer than two observations the transaction changes nothing.
PublishPrice ==
    /\ current # NONE /\ observations # NONE /\ price_account # NONE
    /\ current.owner = "oracle"
    /\ observations.owner = "oracle"
    /\ observations.total_entries >= 2
    /\ tail_bounded(observations, clock)
    /\ clock - oldest(observations).timestamp > 0
    /\ price_account' =
          [price |-> tick_to_oracle_price(twap_tick(observations, current, clock)),
           timestamp |-> clock]
    /\ UNCHANGED <<clock, current, observations>>

---------------------------------------------------------------------------
(* Around the program                                                      *)

AdvanceClock ==
    /\ clock < MAX_TIME
    /\ clock' = clock + 1
    /\ UNCHANGED <<current, observations, price_account>>

\* Another program takes an unused address, or rewrites what it holds there.
ClaimCurrentTick(tick) ==
    /\ current # NONE => current.owner = "other"
    /\ current' = [owner |-> "other", tick |-> tick, last_updated |-> clock]
    /\ UNCHANGED <<clock, observations, price_account>>

ClaimObservations(o) ==
    /\ observations # NONE => observations.owner = "other"
    /\ observations' = o
    /\ UNCHANGED <<clock, current, price_account>>

Init ==
    /\ clock = 0
    /\ current = NONE
    /\ observations = NONE
    /\ price_account = NONE

\* What takes the price source's authority.
SourceNext ==
    \/ \E p \in Price : CreateCurrentTickAccount(p) \/ UpdateCurrentTick(p)
    \/ \E t \in Tick : CreatePriceObservations(t)
    \/ \E p \in InitialPrice : CreateOraclePriceAccount(p)

KeeperNext == RecordTick \/ PublishPrice

OutsideNext ==
    \/ AdvanceClock
    \/ \E t \in Tick : ClaimCurrentTick(t)
    \/ \E o \in ForeignObservations : ClaimObservations(o)

Next == SourceNext \/ KeeperNext \/ OutsideNext

Spec == Init /\ [][Next]_vars

---------------------------------------------------------------------------
(* Properties                                                              *)

\* Each account is absent or holds data of its type.
TypeOK ==
    /\ clock \in Nat
    /\ current \in CurrentTickAccount \union {NONE}
    /\ observations \in PriceObservations \union {NONE}

Recording == observations # NONE /\ observations.owner = "oracle"

\* The slot of the i-th newest observation still in the buffer, from 0.
SlotBack(o, i) == (o.write_index + OBSERVATIONS_CAPACITY - 1 - i) % OBSERVATIONS_CAPACITY

Stored(o) == IF o.total_entries >= OBSERVATIONS_CAPACITY
             THEN OBSERVATIONS_CAPACITY ELSE o.total_entries

\* Read backwards from the write index the stored observations are at least the
\* sampling interval apart, across the wrap of the ring too: two of them never
\* share a timestamp, and the average never divides by zero.
SamplesAreSpaced ==
    Recording => \A i \in 1..(Stored(observations) - 1) :
        observations.entries[SlotBack(observations, i)].timestamp + min_interval
          <= observations.entries[SlotBack(observations, i - 1)].timestamp

\* The oldest slot the average starts from is the far end of that walk, and the
\* newest is not in the future.
WindowIsTheRing ==
    Recording =>
        /\ oldest_index(observations) = SlotBack(observations, Stored(observations) - 1)
        /\ last_index(observations) = SlotBack(observations, 0)
        /\ newest(observations).timestamp <= clock

\* A tick reported in the block of a publication carries no weight in it, and the
\* tail before a report is not attributed to the tick reported.
LateReportHasNoWeight ==
    (Recording /\ current # NONE /\ observations.total_entries >= 2
               /\ current.last_updated = clock /\ clock > oldest(observations).timestamp) =>
        \A t \in Tick :
            twap_tick(observations, [current EXCEPT !.tick = t], clock)
              = twap_tick(observations, current, clock)

\* What a publication averages over is what was sampled, whole and in order.
WindowIsSound == SamplesAreSpaced /\ WindowIsTheRing /\ LateReportHasNoWeight

\* The price account's timestamp never runs ahead of the clock or backwards.
FreshnessIsTruthful ==
    [][price_account # NONE =>
         /\ price_account'.timestamp >= price_account.timestamp
         /\ price_account'.timestamp <= clock'
         /\ price_account' # price_account =>
               newest(observations).timestamp + max_tail >= price_account'.timestamp]_vars
=============================================================================
