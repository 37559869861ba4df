----------------------------- MODULE PoolOracle -----------------------------
(***************************************************************************)
(* The TWAP oracle of an AMM pool (programs/amm: create_price_observations,*)
(* create_oracle_price_account, and the oracle calls the pool's handlers   *)
(* chain).  Only the AMM can prove the pool's authority, so a pool is a    *)
(* price source that takes fewer liberties than the oracle allows: nobody  *)
(* names a price, a tick or a start of the feed for it.                    *)
(*                                                                         *)
(* Of the pool only its spot price matters here; module Amm shows that the *)
(* price the oracle was told last is that of the reserves.  The window is  *)
(* the caller's, and one window is all that is modelled.                   *)
(***************************************************************************)
EXTENDS TwapHistory

VARIABLES
    source,     \* whose price this is: a pool of the AMM or another program
    spot        \* the pool's spot price, NONE while there is no pool

poolVars == <<vars, log, source, spot>>

---------------------------------------------------------------------------
\* new_definition chains the creation of the current-tick account, so a claimed
\* address means there will be no pool.
NewPool(price) ==
    /\ spot = NONE
    /\ spot' = price
    /\ CreateCurrentTickAccount(price)

\* Every handler that changes the reserves chains the update.
MovePrice(price) ==
    /\ spot # NONE
    /\ spot' = price
    /\ UpdateCurrentTick(price)

\* The feed starts at the tick the oracle has for the pool.
create_price_observations ==
    /\ spot # NONE
    /\ current # NONE /\ current.owner = "oracle"
    /\ CreatePriceObservations(current.tick)
    /\ UNCHANGED spot

\* The price account starts at the pool's spot price.
create_oracle_price_account ==
    /\ spot # NONE
    /\ spot # 0
    /\ CreateOraclePriceAccount(spot)
    /\ UNCHANGED spot

AmmNext ==
    \/ \E p \in Price : NewPool(p) \/ MovePrice(p)
    \/ create_price_observations
    \/ create_oracle_price_account

PoolInit == HistoryInit /\ source \in {"pool", "other"} /\ spot = NONE

PoolNext ==
    /\ \/ source = "pool" /\ (AmmNext \/ ((KeeperNext \/ OutsideNext) /\ UNCHANGED spot))
       \/ source = "other" /\ Next /\ UNCHANGED spot
    /\ Logged
    /\ UNCHANGED source

PoolSpec == PoolInit /\ [][PoolNext]_poolVars

---------------------------------------------------------------------------
(* Properties                                                              *)

\* A publication the staleness bound refuses can be made possible by anyone: whenever
\* a feed with a live tick is too old to publish, recording is due; and the feed of a
\* pool always has one, whatever others wrote to its addresses first (record_tick,
\* publish_price, create_price_observations).
StaleFeedCanBeRecorded ==
    /\ Recording /\ source = "pool" => current # NONE /\ current.owner = "oracle"
    /\ (Recording /\ current # NONE /\ current.owner = "oracle"
                  /\ clock - newest(observations).timestamp > max_tail) => CanRecordTick
=============================================================================
