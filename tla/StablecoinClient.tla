-------------------------- MODULE StablecoinClient --------------------------
(***************************************************************************)
(* What the off-chain stablecoin module offers of positions and the        *)
(* stability fee (modules/stablecoin: ffi/src/api plan, debt, withdraw,    *)
(* close, health and admin, and the C++ module around them), in the manner *)
(* of module ControllerClient.                                             *)
(*                                                                         *)
(* The planners repeat the program's arithmetic on the accounts they read, *)
(* some of it in a second implementation that reports a failure instead of *)
(* panicking.                                                              *)
(***************************************************************************)
EXTENDS Stablecoin, ControllerClient

\* An unopened position is not found; a closed one is, with its data cleared.
position_status(p) == IF positions[p].status = "unopened" THEN "not_found" ELSE "ok"

\* Position::try_from refuses the empty data of a closed position.
validated_position(p) == positions[p].status = "open"

\* A position operation reads the parameters and the position before it plans.
Reads(p) == initialized /\ position_status(p) = "ok"

----------------------------------------------------------------------------
(* Collateral                                                              *)

\* The holding's kind is checked; its balance is left to the token program.
open_position_plan == ~params.is_frozen

openPosition(p, amount) ==
    /\ initialized
    /\ open_position_plan
    /\ position_status(p) = "not_found"

deposit_collateral_plan(p, amount) ==
    /\ validated_position(p)
    /\ amount <= purse

depositCollateral(p, amount) == Reads(p) /\ deposit_collateral_plan(p, amount)

\* Slip: health is asked of the position before the withdrawal.
withdrawal_judged_before(p, amount) ==
    Collateralized(positions[p].collateral, positions[p].normalized_debt)

\* The post-withdrawal health gate.
withdrawal_keeps_health(p, amount) ==
    Collateralized(positions[p].collateral - amount, positions[p].normalized_debt)

withdraw_collateral_plan(p, amount) ==
    /\ ~params.is_frozen
    /\ validated_position(p)
    /\ amount <= positions[p].collateral
    /\ amount <= vaults[p]
    /\ amount # 0 /\ positions[p].normalized_debt # 0 =>
         CurrentRedemptionPrice # 0 /\ withdrawal_keeps_health(p, amount)

withdrawCollateral(p, amount) == Reads(p) /\ withdraw_collateral_plan(p, amount)

close_position_plan(p) ==
    /\ validated_position(p)
    /\ positions[p].normalized_debt = 0
    /\ positions[p].collateral = 0
    /\ vaults[p] = 0

closePosition(p) == Reads(p) /\ close_position_plan(p)

----------------------------------------------------------------------------
(* Debt                                                                    *)

\* checked_accumulator: the program's projection once more.  The rate 1.0 is not
\* compounded.
checked_accumulator ==
    LET fee == params.stability_fee
        exponent == Least(elapsed_since(accumulator.last_accrued_at, now),
                          MAXIMUM_COMPOUNDING_WINDOW)
        factor == IF fee = FIXED_POINT_ONE THEN FIXED_POINT_ONE ELSE compound_rate(fee, exponent)
    IN  MulDiv(accumulator.rate, factor, FIXED_POINT_ONE)

\* Quotient and remainder: any remainder rounds up.
checked_debt_delta(amount, rate) ==
    LET product == amount * FIXED_POINT_ONE
        quotient == product \div rate
    IN  IF product % rate = 0 THEN quotient ELSE quotient + 1

generate_debt_plan(p, amount) ==
    /\ validated_position(p)
    /\ ~params.is_frozen
    /\ CurrentRedemptionPrice # 0
    /\ is_collateralized(
            positions[p].collateral,
            positions[p].normalized_debt + checked_debt_delta(amount, checked_accumulator),
            checked_accumulator, CurrentRedemptionPrice,
            params.minimum_collateralization_ratio)

generateDebt(p, amount) == Reads(p) /\ generate_debt_plan(p, amount)

repay_debt_plan(p, amount) ==
    /\ validated_position(p)
    /\ amount <= coins
    /\ MulDiv(amount, FIXED_POINT_ONE, CurrentAccumulatedRate) <= positions[p].normalized_debt

repayDebt(p, amount) == Reads(p) /\ repay_debt_plan(p, amount)

\* What the health page shows of a position: the debt rounds down to whole coins, the
\* verdict compares the exact debt.
position_health(p) ==
    [nominal_debt |-> MulDiv(positions[p].normalized_debt, CurrentAccumulatedRate,
                             FIXED_POINT_ONE),
     is_collateralized |-> Collateralized(positions[p].collateral,
                                          positions[p].normalized_debt)]

positionHealth(p) == Reads(p) /\ validated_position(p)

----------------------------------------------------------------------------
(* The fee                                                                 *)

\* The planner decodes the accounts and checks nothing of them.
accrueStabilityFee == initialized

set_stability_fee_per_millisecond_plan(fee) == fee_in_band(fee)

setStabilityFeePerMillisecond(signer, fee) ==
    /\ adminPlanAndSubmit(signer)
    /\ set_stability_fee_per_millisecond_plan(fee)

----------------------------------------------------------------------------
\* Of every operation on positions and the fee the module plans exactly what the chain
\* accepts, an opening deposit the holding cannot pay aside; and its health page can be
\* acted on.  A position shown as collateralized, and no other, may draw a loan of nothing
\* while the protocol is not frozen and the projected price is not zero; paying the debt
\* shown is never too much, and leaves less than a coin's worth and one unit of normalized
\* debt (the planners, position_health, and the handlers generate_debt, repay_debt,
\* withdraw_collateral, close_position).
PositionPlansAgree ==
    /\ \A p \in PositionId :
        /\ \A a \in Amount :
            /\ openPosition(p, a) /\ a <= purse <=> CanOpenPosition(p, a)
            /\ depositCollateral(p, a) <=> CanDepositCollateral(p, a)
            /\ withdrawCollateral(p, a) <=> CanWithdrawCollateral(p, a)
            /\ generateDebt(p, a) <=> CanGenerateDebt(p, a)
            /\ repayDebt(p, a) <=> CanRepayDebt(p, a)
        /\ closePosition(p) <=> CanClosePosition(p)
        /\ positionHealth(p) =>
            LET health == position_health(p)
                left == positions[p].normalized_debt - RepaidDebt(health.nominal_debt)
            IN  /\ ~params.is_frozen =>
                     (health.is_collateralized /\ CurrentRedemptionPrice # 0
                        <=> CanGenerateDebt(p, 0))
                /\ health.nominal_debt <= coins => CanRepayDebt(p, health.nominal_debt)
                /\ (left - 1) * CurrentAccumulatedRate < FIXED_POINT_ONE
    /\ accrueStabilityFee <=> CanAccrueStabilityFee
    /\ \A signer \in Account, fee \in FeeInput :
         setStabilityFeePerMillisecond(signer, fee) <=> CanSetStabilityFee(signer, fee)
=============================================================================
