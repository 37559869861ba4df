-------------------------- MODULE ControllerClient --------------------------
(***************************************************************************)
(* What the off-chain stablecoin module offers of the redemption price and *)
(* of the administration (modules/stablecoin: ffi/src/api quote, plan,     *)
(* admin and freeze, and the C++ module that reads the accounts for them). *)
(*                                                                         *)
(* Each operation is a predicate of the state the module reads: it holds   *)
(* when the module submits the transaction, and is false when it answers   *)
(* with an error.  A planner checks what the Rust library is handed; the   *)
(* operation of the same name in camel case adds what the C++ module       *)
(* requires of the accounts it read.  The accounts are read at one         *)
(* instant; the wallet holds the signer's key and the payer can pay.       *)
(***************************************************************************)
EXTENDS StablecoinController

\* The status of a read: an account nobody has written to is not found.
publicAccountRead(account) == IF account = ABSENT THEN "not_found" ELSE "ok"

----------------------------------------------------------------------------
(* The quote of a redemption-rate update                                   *)

\* The set of the one observation the quote may use, empty when there is none.
usable_market_price_oracle ==
    {o \in {Oracle} : o # ABSENT /\ o.quotes_the_pair}

\* Why the quoted update would fail.
QuoteErrors ==
    LET when(condition, code) == IF condition THEN {code} ELSE {}
        oracle == usable_market_price_oracle
    IN  UNION {
          when(oracle = {}, "oracle_unavailable"),
          when(\E o \in oracle :
                 elapsed_since(o.timestamp, now) > params.maximum_oracle_age, "oracle_stale"),
          when(\E o \in oracle : o.price = 0, "oracle_price_zero"),
          when(elapsed_since(redemption.last_updated_at, now)
                 < params.minimum_between_updates, "rate_update_too_soon")}

\* Slip: the price is quoted as the read operations project it, outside the band too.
UnboundedQuotePrice(projected) == projected

QuotePrice(projected) == bound_redemption_price(projected)

\* Rate and integral are quoted only when the update can be submitted.
redemption_rate_update_quote ==
    LET price == QuotePrice(CurrentRedemptionPrice)
        tick == run_controller_tick(
                    price, oracle_price_to_fixed_point(Oracle.price),
                    redemption.integral, params.kp, params.ki,
                    elapsed_since(redemption.last_updated_at, now))
    IN  [price |-> price,
         next |-> IF QuoteErrors = {} THEN {tick} ELSE {}]

redemptionRateUpdateQuote ==
    /\ initialized
    /\ publicAccountRead(Oracle) = "ok"

----------------------------------------------------------------------------
(* The pokes                                                               *)

\* require_ready_quote refuses a quote with an error.
update_redemption_rate_plan == QuoteErrors = {}

updateRedemptionRate ==
    /\ initialized
    /\ publicAccountRead(Oracle) = "ok"
    /\ update_redemption_rate_plan

\* An oracle with no usable observation only skips the redemption half.
refresh_globals_plan == initialized

refreshGlobals ==
    /\ refresh_globals_plan
    /\ publicAccountRead(Oracle) = "ok"

----------------------------------------------------------------------------
(* Bootstrap and administration                                            *)

\* An oracle may be missing; one that exists has to quote the pair.  The planner leaves
\* the bands of the numbers to the program.
initialize_program_plan(o) == oracles[o] # ABSENT => oracles[o].quotes_the_pair

initializeProgram(o) ==
    /\ ~initialized
    /\ publicAccountRead(oracles[o]) = "ok"
    /\ initialize_program_plan(o)

adminPlanAndSubmit(signer) ==
    /\ initialized
    /\ signer = params.admin

set_minimum_collateralization_ratio_plan(ratio) == ratio_in_band(ratio)

set_controller_gains_plan(kp, ki) == gains_in_band(kp, ki)

set_timing_parameters_plan(interval, age) == timing_in_band(interval) /\ timing_in_band(age)

set_market_price_oracle_plan(o) == oracles[o] # ABSENT => oracles[o].quotes_the_pair

setMarketPriceOracle(signer, o) ==
    /\ adminPlanAndSubmit(signer)
    /\ publicAccountRead(oracles[o]) = "ok"
    /\ set_market_price_oracle_plan(o)

freezeAuthorityPlanAndSubmit(signer) ==
    /\ initialized
    /\ signer = params.freeze_authority

----------------------------------------------------------------------------
\* The gates of an update exist three times: in the poke, in the combined poke and in the
\* module's quote.
RateGatesAgree ==
    /\ initialized /\ RefreshedRedemption # redemption <=> CanUpdateRedemptionRate
    /\ updateRedemptionRate <=> CanUpdateRedemptionRate
    /\ updateRedemptionRate =>
         \E tick \in redemption_rate_update_quote.next :
            /\ AdvancedRedemption.price = redemption_rate_update_quote.price
            /\ AdvancedRedemption.rate = tick.rate
            /\ AdvancedRedemption.integral = tick.integral

\* Of the setters, and of an oracle that exists.
AdminPlansAgree ==
    \A signer \in Account :
        /\ \A ratio \in RatioInput :
             adminPlanAndSubmit(signer) /\ set_minimum_collateralization_ratio_plan(ratio)
                <=> CanSetMinimumCollateralizationRatio(signer, ratio)
        /\ \A kp \in GainInput, ki \in GainInput :
             adminPlanAndSubmit(signer) /\ set_controller_gains_plan(kp, ki)
                <=> CanSetControllerGains(signer, kp, ki)
        /\ \A interval \in TimingInput, age \in TimingInput :
             adminPlanAndSubmit(signer) /\ set_timing_parameters_plan(interval, age)
                <=> CanSetTimingParameters(signer, interval, age)
        /\ adminPlanAndSubmit(signer) <=> IsAdmin(signer)
        /\ freezeAuthorityPlanAndSubmit(signer) <=> IsFreezeAuthority(signer)
        /\ \A o \in OracleId : oracles[o] # ABSENT =>
             /\ setMarketPriceOracle(signer, o) <=> CanSetMarketPriceOracle(signer, o)
             /\ initializeProgram(o) <=> CanInitializeWith(o)

\* Whatever state its other clients have brought the protocol to, the module submits what
\* the chain accepts and nothing else: the combined poke moves the redemption state, and a
\* quote is ready, exactly when the update would succeed; what a ready quote shows is what
\* the update stores; and a setter is planned for the signers and arguments the program
\* takes (redemption_rate_update_quote, the planners of plan, admin and freeze, and the
\* handlers they speak for).
ControllerPlansAgree == RateGatesAgree /\ AdminPlansAgree

\* What the planners' comments state of an oracle nobody has created yet: it may be bound
\* ("The oracle may not exist yet", plan.rs:46) and only skips the redemption half of the
\* combined poke (plan.rs:407).
UnbornOracleIsServed ==
    initialized =>
        /\ refreshGlobals
        /\ \A o \in OracleId :
             oracles[o] = ABSENT => setMarketPriceOracle(params.admin, o)
=============================================================================
