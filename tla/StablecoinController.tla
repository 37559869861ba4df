------------------------ MODULE StablecoinController ------------------------
(***************************************************************************)
(* The stablecoin program's redemption price, the controller that steers   *)
(* it and the administration of the protocol's parameters                  *)
(* (programs/stablecoin: initialize_program, update_redemption_rate, the   *)
(* redemption half of refresh_globals, reset_redemption_rate_controller,   *)
(* admin, freeze).  Module Stablecoin adds positions and the stability fee *)
(* to it.                                                                  *)
(*                                                                         *)
(* An action is one transaction; a transaction that panics changes         *)
(* nothing.  The oracle accounts belong to other programs, which write     *)
(* them whenever they like: a missing account, one for another pair and a  *)
(* zero price are all readings the handlers meet.  The clock is the        *)
(* runtime's and does not run backwards.                                   *)
(*                                                                         *)
(* A definition Can... or Is... has the checks of the action it is in; the *)
(* rest of the action assigns, so the transaction succeeds exactly when    *)
(* they hold.                                                              *)
(***************************************************************************)
EXTENDS StablecoinMath

CONSTANTS
    Account,                                \* accounts that may sign
    OracleId,                               \* addresses an oracle may have
    LiveOracle,                             \* those at which one may come to exist
    OraclePrice,                            \* prices an oracle may report
    MIN_COLLATERALIZATION_RATIO, MAX_COLLATERALIZATION_RATIO,
    MAX_STABILITY_FEE,
    MAXIMUM_CONTROLLER_PROPORTIONAL_GAIN, MAXIMUM_CONTROLLER_INTEGRAL_GAIN,
    MAX_TIMING,
    FeeInput, RatioInput, GainInput, TimingInput, PriceInput,   \* arguments of the setters
    MAX_TIME,                               \* bound on the clock
    ABSENT                                  \* an account that does not exist

ASSUME BandAssumption ==
    /\ MAX_STABILITY_FEE \in Nat /\ FIXED_POINT_ONE <= MAX_STABILITY_FEE
    /\ MIN_COLLATERALIZATION_RATIO \in Nat /\ MAX_COLLATERALIZATION_RATIO \in Nat
    /\ FIXED_POINT_ONE < MIN_COLLATERALIZATION_RATIO
    /\ MAXIMUM_CONTROLLER_PROPORTIONAL_GAIN \in Nat
    /\ MAXIMUM_CONTROLLER_INTEGRAL_GAIN \in Nat
    /\ MAX_TIMING \in Nat /\ MAX_TIME \in Nat
ASSUME InputAssumption ==
    /\ FeeInput \subseteq Nat /\ RatioInput \subseteq Nat /\ PriceInput \subseteq Nat
    /\ LiveOracle \subseteq OracleId
    /\ GainInput \subseteq Int /\ TimingInput \subseteq Nat /\ OraclePrice \subseteq Nat

fee_in_band(f) == f \in FIXED_POINT_ONE..MAX_STABILITY_FEE
ratio_in_band(r) == r \in MIN_COLLATERALIZATION_RATIO..MAX_COLLATERALIZATION_RATIO
gains_in_band(kp, ki) ==
    /\ kp \in 0..MAXIMUM_CONTROLLER_PROPORTIONAL_GAIN
    /\ ki \in 0..MAXIMUM_CONTROLLER_INTEGRAL_GAIN
timing_in_band(t) == t \in 1..MAX_TIMING
price_in_band(p) == p \in MINIMUM_REDEMPTION_PRICE..MAXIMUM_REDEMPTION_PRICE

OraclePriceAccount == [price : Nat, timestamp : Nat, quotes_the_pair : BOOLEAN]
ASSUME AbsentAssumption == ABSENT \notin OraclePriceAccount

ProtocolParameters ==
    [admin : Account, freeze_authority : Account, market_price_oracle : OracleId,
     stability_fee : {f \in FeeInput : fee_in_band(f)},
     minimum_collateralization_ratio : {r \in RatioInput : ratio_in_band(r)},
     kp : 0..MAXIMUM_CONTROLLER_PROPORTIONAL_GAIN, ki : 0..MAXIMUM_CONTROLLER_INTEGRAL_GAIN,
     minimum_between_updates : 1..MAX_TIMING, maximum_oracle_age : 1..MAX_TIMING,
     is_frozen : BOOLEAN]
RedemptionPriceState ==
    [price : Nat, rate : Nat, integral : Int, last_updated_at : Nat]

VARIABLES
    now,            \* timestamp of the system clock account
    oracles,        \* the account at each oracle address, or ABSENT
    initialized,    \* whether the global accounts exist
    params,         \* ProtocolParameters
    redemption      \* RedemptionPriceState

globals == <<initialized, params, redemption>>
controllerVars == <<now, oracles, initialized, params, redemption>>

----------------------------------------------------------------------------
CurrentRedemptionPrice ==
    project_forward(redemption.price, redemption.rate, redemption.last_updated_at, now)

\* Slip: the price is re-anchored where it was, its drift since then forgotten.
UndriftedPrice == bound_redemption_price(redemption.price)

\* The price a re-anchoring handler stores.
AnchoredPrice == bound_redemption_price(CurrentRedemptionPrice)

\* read_oracle: the bound oracle has an observation of this pair.
OracleReads ==
    LET account == oracles[params.market_price_oracle]
    IN  account # ABSENT /\ account.quotes_the_pair

Oracle == oracles[params.market_price_oracle]

\* The soft gate of refresh_globals on the observation.
UsablePrice ==
    /\ elapsed_since(Oracle.timestamp, now) <= params.maximum_oracle_age
    /\ Oracle.price > 0

IntervalDue ==
    elapsed_since(redemption.last_updated_at, now) >= params.minimum_between_updates

\* advance_redemption_price: carry the price forward at the old rate, then let the
\* controller choose the new one.  The integral is weighted with the whole gap, the
\* projection with one compounding window at most.
AdvancedRedemption ==
    LET tick == run_controller_tick(
                    AnchoredPrice, oracle_price_to_fixed_point(Oracle.price),
                    redemption.integral, params.kp, params.ki,
                    elapsed_since(redemption.last_updated_at, now))
    IN  [price |-> AnchoredPrice, rate |-> tick.rate,
         integral |-> tick.integral, last_updated_at |-> now]

AdvanceRedemptionPrice == redemption' = AdvancedRedemption

----------------------------------------------------------------------------
(* Bootstrap                                                               *)

\* Both initialize_program and set_market_price_oracle accept an address nothing
\* exists at yet; what does exist has to quote the stablecoin in collateral.
AcceptableOracle(o) == oracles[o] # ABSENT => oracles[o].quotes_the_pair

CanInitializeWith(o) == ~initialized /\ AcceptableOracle(o)

InitializeGlobals(admin) ==
    /\ \E guard \in Account, o \in OracleId, fee \in FeeInput, ratio \in RatioInput,
          kp \in GainInput, ki \in GainInput, interval \in TimingInput, age \in TimingInput,
          price \in PriceInput :
        /\ CanInitializeWith(o)
        /\ fee_in_band(fee) /\ ratio_in_band(ratio) /\ gains_in_band(kp, ki)
        /\ timing_in_band(interval) /\ timing_in_band(age)
        /\ price_in_band(price)
        /\ params' = [admin |-> admin, freeze_authority |-> guard, market_price_oracle |-> o,
                      stability_fee |-> fee, minimum_collateralization_ratio |-> ratio,
                      kp |-> kp, ki |-> ki, minimum_between_updates |-> interval,
                      maximum_oracle_age |-> age, is_frozen |-> FALSE]
        /\ redemption' = [price |-> price, rate |-> FIXED_POINT_ONE, integral |-> 0,
                          last_updated_at |-> now]
    /\ initialized' = TRUE
    /\ UNCHANGED <<now, oracles>>

----------------------------------------------------------------------------
(* The pokes anybody may send                                              *)

\* Every gate is a failure here.
CanUpdateRedemptionRate ==
    /\ initialized
    /\ OracleReads
    /\ elapsed_since(Oracle.timestamp, now) <= params.maximum_oracle_age
    /\ Oracle.price > 0
    /\ elapsed_since(redemption.last_updated_at, now) >= params.minimum_between_updates

UpdateRedemptionRate ==
    /\ CanUpdateRedemptionRate
    /\ AdvanceRedemptionPrice
    /\ UNCHANGED <<now, oracles, initialized, params>>

\* The redemption half of refresh_globals: the same gates skip it.
RefreshedRedemption ==
    IF IntervalDue /\ OracleReads /\ UsablePrice THEN AdvancedRedemption ELSE redemption

RefreshRedemption ==
    /\ initialized
    /\ redemption' = RefreshedRedemption
    /\ UNCHANGED <<now, oracles, initialized, params>>

----------------------------------------------------------------------------
(* Administration                                                          *)

\* Slip: the controller restarts from the stored price.
ResetToStoredPrice(authority) ==
    /\ initialized
    /\ authority \in {params.admin, params.freeze_authority}
    /\ redemption' = [price |-> UndriftedPrice, rate |-> FIXED_POINT_ONE, integral |-> 0,
                      last_updated_at |-> now]
    /\ UNCHANGED <<now, oracles, initialized, params>>

ResetRedemptionRateController(authority) ==
    /\ initialized
    /\ authority \in {params.admin, params.freeze_authority}
    /\ redemption' = [price |-> AnchoredPrice, rate |-> FIXED_POINT_ONE, integral |-> 0,
                      last_updated_at |-> now]
    /\ UNCHANGED <<now, oracles, initialized, params>>

\* update_parameters: what the setters share.
IsAdmin(signer) == initialized /\ signer = params.admin

UpdateParameters(signer, new_params) ==
    /\ IsAdmin(signer)
    /\ params' = new_params
    /\ UNCHANGED <<now, oracles, initialized, redemption>>

CanSetMinimumCollateralizationRatio(signer, ratio) == IsAdmin(signer) /\ ratio_in_band(ratio)

SetMinimumCollateralizationRatio(signer, ratio) ==
    /\ CanSetMinimumCollateralizationRatio(signer, ratio)
    /\ UpdateParameters(signer, [params EXCEPT !.minimum_collateralization_ratio = ratio])

CanSetControllerGains(signer, kp, ki) == IsAdmin(signer) /\ gains_in_band(kp, ki)

\* The integral term is kept: it was clamped for any gains.
SetControllerGains(signer, kp, ki) ==
    /\ CanSetControllerGains(signer, kp, ki)
    /\ UpdateParameters(signer, [params EXCEPT !.kp = kp, !.ki = ki])

CanSetTimingParameters(signer, interval, age) ==
    IsAdmin(signer) /\ timing_in_band(interval) /\ timing_in_band(age)

SetTimingParameters(signer, interval, age) ==
    /\ CanSetTimingParameters(signer, interval, age)
    /\ UpdateParameters(signer, [params EXCEPT !.minimum_between_updates = interval,
                                               !.maximum_oracle_age = age])

SetAdmin(signer, new_admin) ==
    UpdateParameters(signer, [params EXCEPT !.admin = new_admin])

SetFreezeAuthority(signer, new_authority) ==
    UpdateParameters(signer, [params EXCEPT !.freeze_authority = new_authority])

CanSetMarketPriceOracle(signer, o) == IsAdmin(signer) /\ AcceptableOracle(o)

SetMarketPriceOracle(signer, o) ==
    /\ CanSetMarketPriceOracle(signer, o)
    /\ UpdateParameters(signer, [params EXCEPT !.market_price_oracle = o])

\* freeze and unfreeze, both no-ops when already done.
IsFreezeAuthority(signer) == initialized /\ signer = params.freeze_authority

SetFrozen(signer, frozen) ==
    /\ IsFreezeAuthority(signer)
    /\ params' = [params EXCEPT !.is_frozen = frozen]
    /\ UNCHANGED <<now, oracles, initialized, redemption>>

----------------------------------------------------------------------------
(* The world outside                                                       *)

Tick ==
    /\ now < MAX_TIME
    /\ now' \in (now + 1)..MAX_TIME
    /\ UNCHANGED <<oracles, globals>>

\* Any program may own the account, date its observation as it likes and report a
\* zero price.
OracleWrites(o, account) ==
    /\ oracles' = [oracles EXCEPT ![o] = account]
    /\ UNCHANGED <<now, globals>>

\* What an oracle's owner may write now: a price of this pair, or of another one.
OracleReports ==
    [price : OraclePrice, timestamp : {now}, quotes_the_pair : {TRUE}]
        \union [price : {1}, timestamp : {now}, quotes_the_pair : {FALSE}]

Administration(signer) ==
    \/ \E kp \in GainInput, ki \in GainInput : SetControllerGains(signer, kp, ki)
    \/ \E interval \in TimingInput, age \in TimingInput :
        SetTimingParameters(signer, interval, age)
    \/ \E ratio \in RatioInput : SetMinimumCollateralizationRatio(signer, ratio)
    \/ \E a \in Account : SetAdmin(signer, a)
    \/ \E a \in Account : SetFreezeAuthority(signer, a)
    \/ \E o \in OracleId : SetMarketPriceOracle(signer, o)
    \/ \E frozen \in BOOLEAN : SetFrozen(signer, frozen)
    \/ ResetRedemptionRateController(signer)

Environment ==
    \/ Tick
    \/ \E o \in LiveOracle : \E account \in OracleReports : OracleWrites(o, account)

ControllerInit ==
    /\ now = 0
    /\ oracles = [o \in OracleId |-> ABSENT]
    /\ initialized = FALSE
    /\ params = ABSENT
    /\ redemption = ABSENT

ControllerNext ==
    \/ \E a \in Account : InitializeGlobals(a)
    \/ UpdateRedemptionRate
    \/ RefreshRedemption
    \/ \E a \in Account : Administration(a)
    \/ Environment

ControllerSpec == ControllerInit /\ [][ControllerNext]_controllerVars

----------------------------------------------------------------------------
\* The global accounts have their types; parameters are inside the bands that
\* initialize_program and the setters check.
ControllerTypeOK ==
    /\ now \in 0..MAX_TIME
    /\ oracles \in [OracleId -> OraclePriceAccount \union {ABSENT}]
    /\ initialized \in BOOLEAN
    /\ initialized => params \in ProtocolParameters /\ redemption \in RedemptionPriceState
    /\ ~initialized => params = ABSENT /\ redemption = ABSENT

\* Whatever oracle readings, gains, gaps and resets the controller went through, the
\* stored price is inside its band, rate and integral are inside their clamps, and a
\* price at the edge of the band is not driven out of it (advance_redemption_price,
\* bound_redemption_price, run_controller_tick).
AnchorIsBounded ==
    initialized =>
        /\ price_in_band(redemption.price)
        /\ redemption.rate \in (FIXED_POINT_ONE - RATE_DELTA_CLAMP)
                               ..(FIXED_POINT_ONE + RATE_DELTA_CLAMP)
        /\ redemption.integral \in -INTEGRAL_CLAMP..INTEGRAL_CLAMP
        /\ redemption.price = MINIMUM_REDEMPTION_PRICE => redemption.rate >= FIXED_POINT_ONE
        /\ redemption.price = MAXIMUM_REDEMPTION_PRICE => redemption.rate <= FIXED_POINT_ONE
        /\ redemption.last_updated_at <= now

\* No transaction moves the price a reader computes at that instant (inside its band):
\* an update, a reset or a new set of gains changes the drift from now on, never the
\* drift of the time already elapsed (advance_redemption_price,
\* reset_redemption_rate_controller).
PriceNeverJumps ==
    [][initialized /\ now' = now => AnchoredPrice' = AnchoredPrice]_controllerVars

\* A rate pinned at its upper clamp leaves it at the first update that sees the market
\* above the redemption price with enough weight to count, however long the error had
\* the other sign; and the same downwards (INTEGRAL_CLAMP).
NoWindup ==
    [][initialized /\ initialized' /\ redemption'.last_updated_at > redemption.last_updated_at
         /\ OracleReads /\ UsablePrice /\ IntervalDue =>
         LET error == AnchoredPrice - oracle_price_to_fixed_point(Oracle.price)
             weight == TruncatedDiv(params.ki * error * (now - redemption.last_updated_at),
                                    FIXED_POINT_ONE)
         IN  /\ weight < 0 => redemption'.rate < FIXED_POINT_ONE + RATE_DELTA_CLAMP
             /\ weight > 0 => redemption'.rate > FIXED_POINT_ONE - RATE_DELTA_CLAMP]_controllerVars
=============================================================================
