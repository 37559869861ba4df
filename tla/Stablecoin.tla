----------------------------- MODULE Stablecoin -----------------------------
(***************************************************************************)
(* Positions, debt and the stability fee of the stablecoin program         *)
(* (programs/stablecoin), on top of the redemption price that module       *)
(* StablecoinController describes.                                         *)
(*                                                                         *)
(* Debt is stored normalized: a position owes its normalized debt times a  *)
(* global accumulator that only grows.  Everything is one transaction per  *)
(* action, the chained calls to the token program included: vaults, user   *)
(* holdings and the master holding the fees are minted to are balances     *)
(* here.  All users' collateral outside the vaults is one purse and all    *)
(* the stablecoin they hold one balance, because they can pay each other.  *)
(* The owner's authorization is implied: an action on a position is its    *)
(* owner's, and anybody may send collateral to a vault.                    *)
(***************************************************************************)
EXTENDS StablecoinController, FiniteSets, Functions

CONSTANTS
    PositionId,         \* (owner, nonce) pairs
    Amount,             \* amounts a user may name
    CollateralSupply    \* collateral in existence

ASSUME AmountAssumption == Amount \subseteq Nat /\ CollateralSupply \in Nat
\* Two 32-byte values.
ASSUME PositionAssumption == IsFiniteSet(PositionId)

\* A closed position's account stays behind, owned by the program and empty.
Position ==
    [status : {"unopened", "open", "closed"}, collateral : Nat, normalized_debt : Nat]
StabilityFeeAccumulator == [rate : Nat, last_accrued_at : Nat, total_normalized_debt : Nat]

VARIABLES
    accumulator,    \* StabilityFeeAccumulator
    positions,      \* Position of each PositionId
    vaults,         \* balance of each position's vault holding
    purse,          \* collateral in users' holdings
    coins,          \* stablecoin in users' holdings
    surplus         \* balance of the stablecoin master holding

bank == <<accumulator, positions, vaults, purse, coins, surplus>>
vars == <<now, oracles, globals, bank>>

supply == coins + surplus

----------------------------------------------------------------------------
\* What every reader computes for the accumulator now.
CurrentAccumulatedRate ==
    project_forward(accumulator.rate, params.stability_fee, accumulator.last_accrued_at, now)

\* Slip: the fee is charged to borrowers but not minted.
AccrueSilently(total) ==
    /\ accumulator' = [rate |-> CurrentAccumulatedRate, last_accrued_at |-> now,
                       total_normalized_debt |-> total]
    /\ UNCHANGED surplus

\* The fee of the debt outstanding since the last accrual.
AccruedFee ==
    MulDiv(accumulator.total_normalized_debt, CurrentAccumulatedRate - accumulator.rate,
           FIXED_POINT_ONE)

\* surplus_mint_call: the chained mint to the master holding.
MintSurplus(fee) == surplus' = surplus + fee

\* accrue_fees: the accumulator is carried to now, the fee of the debt outstanding
\* before the operation is minted, and the operation leaves `total` normalized debt.
AccrueFees(total) ==
    /\ accumulator' = [rate |-> CurrentAccumulatedRate, last_accrued_at |-> now,
                       total_normalized_debt |-> total]
    /\ MintSurplus(AccruedFee)

\* Slip: the debt is judged at the accumulator of the last accrual.
CollateralizedWhenAccrued(collateral, debt) ==
    is_collateralized(collateral, debt, accumulator.rate, CurrentRedemptionPrice,
                      params.minimum_collateralization_ratio)

\* assert_position_is_collateralized, with both globals projected to now.
Collateralized(collateral, debt) ==
    is_collateralized(collateral, debt, CurrentAccumulatedRate, CurrentRedemptionPrice,
                      params.minimum_collateralization_ratio)

IsOpen(p) == initialized /\ positions[p].status = "open"

----------------------------------------------------------------------------
Initialize(admin) ==
    /\ InitializeGlobals(admin)
    /\ accumulator' = [rate |-> FIXED_POINT_ONE, last_accrued_at |-> now,
                       total_normalized_debt |-> 0]
    /\ UNCHANGED <<positions, vaults, purse, coins, surplus>>

\* Neither account may exist: a closed position's lingers and cannot be opened again.
CanOpenPosition(p, amount) ==
    /\ initialized
    /\ positions[p].status = "unopened"
    /\ ~params.is_frozen
    /\ amount <= purse

OpenPosition(p, amount) ==
    /\ CanOpenPosition(p, amount)
    /\ positions' = [positions EXCEPT ![p] = [status |-> "open", collateral |-> amount,
                                              normalized_debt |-> 0]]
    /\ vaults' = [vaults EXCEPT ![p] = amount]
    /\ purse' = purse - amount
    /\ UNCHANGED <<now, oracles, globals, accumulator, coins, surplus>>

\* Slip: the deposit is added to the record, not to what the vault holds.
DepositOnRecord(p, amount) == positions[p].collateral + amount

\* The record is reconciled with the vault, donations included.
CollateralAfterDeposit(p, amount) == vaults[p] + amount

CanDepositCollateral(p, amount) == IsOpen(p) /\ amount <= purse

DepositCollateral(p, amount) ==
    /\ CanDepositCollateral(p, amount)
    /\ positions' = [positions EXCEPT ![p].collateral = CollateralAfterDeposit(p, amount)]
    /\ vaults' = [vaults EXCEPT ![p] = @ + amount]
    /\ purse' = purse - amount
    /\ UNCHANGED <<now, oracles, globals, accumulator, coins, surplus>>

\* Withdrawing nothing, or from a position without debt, skips the check.  The vault pays
\* by a chained transfer.
CanWithdrawCollateral(p, amount) ==
    /\ IsOpen(p)
    /\ ~params.is_frozen
    /\ amount <= positions[p].collateral
    /\ LET debt == positions[p].normalized_debt
       IN  amount # 0 /\ debt # 0 =>
                /\ CurrentRedemptionPrice # 0
                /\ Collateralized(positions[p].collateral - amount, debt)
    /\ amount <= vaults[p]

WithdrawCollateral(p, amount) ==
    /\ CanWithdrawCollateral(p, amount)
    /\ positions' = [positions EXCEPT ![p].collateral = @ - amount]
    /\ vaults' = [vaults EXCEPT ![p] = @ - amount]
    /\ purse' = purse + amount
    /\ UNCHANGED <<now, oracles, globals, accumulator, coins, surplus>>

\* Slip: the debt recorded for a new loan rounds down.
DebtRoundedDown(amount, rate) == MulDiv(amount, FIXED_POINT_ONE, rate)

\* A new loan owes at least what it minted.
NormalizedLoan(amount, rate) == MulDivCeil(amount, FIXED_POINT_ONE, rate)

CanGenerateDebt(p, amount) ==
    /\ IsOpen(p)
    /\ ~params.is_frozen
    /\ CurrentRedemptionPrice # 0
    /\ Collateralized(positions[p].collateral,
                      positions[p].normalized_debt
                        + NormalizedLoan(amount, CurrentAccumulatedRate))

GenerateDebt(p, amount) ==
    /\ CanGenerateDebt(p, amount)
    /\ LET delta == NormalizedLoan(amount, CurrentAccumulatedRate)
       IN  /\ positions' = [positions EXCEPT ![p].normalized_debt = @ + delta]
           /\ AccrueFees(accumulator.total_normalized_debt + delta)
    /\ coins' = coins + amount
    /\ UNCHANGED <<now, oracles, globals, vaults, purse>>

\* Burning `amount` pays off at most `amount`.
RepaidDebt(amount) == MulDiv(amount, FIXED_POINT_ONE, CurrentAccumulatedRate)

\* Paying more than is owed fails.
CanRepayDebt(p, amount) ==
    /\ IsOpen(p)
    /\ amount <= coins
    /\ RepaidDebt(amount) <= positions[p].normalized_debt
    /\ RepaidDebt(amount) <= accumulator.total_normalized_debt

RepayDebt(p, amount) ==
    /\ CanRepayDebt(p, amount)
    /\ positions' = [positions EXCEPT ![p].normalized_debt = @ - RepaidDebt(amount)]
    /\ AccrueFees(accumulator.total_normalized_debt - RepaidDebt(amount))
    /\ coins' = coins - amount
    /\ UNCHANGED <<now, oracles, globals, vaults, purse>>

\* Slip: only the debt has to be gone.
CloseUnemptied(p) ==
    /\ IsOpen(p)
    /\ positions[p].normalized_debt = 0
    /\ positions' = [positions EXCEPT ![p].status = "closed"]
    /\ UNCHANGED <<now, oracles, globals, accumulator, vaults, purse, coins, surplus>>

CanClosePosition(p) ==
    /\ IsOpen(p)
    /\ positions[p].normalized_debt = 0
    /\ positions[p].collateral = 0
    /\ vaults[p] = 0

ClosePosition(p) ==
    /\ CanClosePosition(p)
    /\ positions' = [positions EXCEPT ![p].status = "closed"]
    /\ UNCHANGED <<now, oracles, globals, accumulator, vaults, purse, coins, surplus>>

\* A token transfer into a vault is not the program's to refuse.
Donate(p, amount) ==
    /\ positions[p].status # "unopened"
    /\ amount \in 1..purse
    /\ vaults' = [vaults EXCEPT ![p] = @ + amount]
    /\ purse' = purse - amount
    /\ UNCHANGED <<now, oracles, globals, accumulator, positions, coins, surplus>>

----------------------------------------------------------------------------
CanAccrueStabilityFee == initialized

AccrueStabilityFee ==
    /\ CanAccrueStabilityFee
    /\ AccrueFees(accumulator.total_normalized_debt)
    /\ UNCHANGED <<now, oracles, globals, positions, vaults, purse, coins>>

\* The fee half always runs, whatever the oracle and the throttle say.
RefreshGlobals ==
    /\ RefreshRedemption
    /\ AccrueFees(accumulator.total_normalized_debt)
    /\ UNCHANGED <<positions, vaults, purse, coins>>

\* Slip: the new fee applies to the time since the last accrual as well.
SetFeeWithoutAccruing(signer, fee) ==
    /\ fee_in_band(fee)
    /\ UpdateParameters(signer, [params EXCEPT !.stability_fee = fee])
    /\ UNCHANGED bank

CanSetStabilityFee(signer, fee) == IsAdmin(signer) /\ fee_in_band(fee)

\* The gap so far is accrued at the old rate before the new one is stored.
SetStabilityFee(signer, fee) ==
    /\ CanSetStabilityFee(signer, fee)
    /\ UpdateParameters(signer, [params EXCEPT !.stability_fee = fee])
    /\ AccrueFees(accumulator.total_normalized_debt)
    /\ UNCHANGED <<positions, vaults, purse, coins>>

CollateralNext(p) ==
    \/ \E a \in Amount : OpenPosition(p, a)
    \/ \E a \in Amount : DepositCollateral(p, a)
    \/ \E a \in Amount : WithdrawCollateral(p, a)
    \/ ClosePosition(p)
    \/ \E a \in Amount : Donate(p, a)

DebtNext(p) == \E a \in Amount : GenerateDebt(p, a) \/ RepayDebt(p, a)

PositionNext(p) == CollateralNext(p) \/ DebtNext(p)

GlobalsNext ==
    \/ \E a \in Account : Initialize(a)
    \/ AccrueStabilityFee
    \/ RefreshGlobals
    \/ UpdateRedemptionRate /\ UNCHANGED bank

Init ==
    /\ ControllerInit
    /\ accumulator = ABSENT
    /\ positions = [p \in PositionId |->
                        [status |-> "unopened", collateral |-> 0, normalized_debt |-> 0]]
    /\ vaults = [p \in PositionId |-> 0]
    /\ purse = CollateralSupply
    /\ coins = 0
    /\ surplus = 0

Next ==
    \/ GlobalsNext
    \/ \E p \in PositionId : PositionNext(p)
    \/ \E a \in Account, fee \in FeeInput : SetStabilityFee(a, fee)
    \/ \E a \in Account : Administration(a) /\ UNCHANGED bank
    \/ Environment /\ UNCHANGED bank

Spec == Init /\ [][Next]_vars

----------------------------------------------------------------------------
\* Accounts and balances have their types, the accumulator started at 1.0 and never
\* fell, and only an open position has collateral or debt on record.
TypeOK ==
    /\ ControllerTypeOK
    /\ initialized =>
        /\ accumulator \in StabilityFeeAccumulator
        /\ accumulator.rate >= FIXED_POINT_ONE
        /\ accumulator.last_accrued_at <= now
    /\ positions \in [PositionId -> Position]
    /\ \A p \in PositionId : positions[p].status # "open" =>
            positions[p].collateral = 0 /\ positions[p].normalized_debt = 0
    /\ vaults \in [PositionId -> Nat]
    /\ purse \in Nat /\ coins \in Nat /\ surplus \in Nat

\* The total covers every position's debt.
DebtIsTheSumOfPositions ==
    initialized =>
        accumulator.total_normalized_debt
            = SumFunctionOnSet([p \in PositionId |-> positions[p].normalized_debt], PositionId)

\* The total, worth what it was at the last accrual, covers every coin.
SupplyIsOwed ==
    initialized =>
        supply * FIXED_POINT_ONE <= accumulator.total_normalized_debt * accumulator.rate

\* The global total is the sum of the positions' normalized debts after every transaction,
\* so the fee of all debt can be minted without visiting the positions; and every coin in
\* existence, fees minted to the protocol included, is owed by some position: the roundings
\* of loans, repayments and fee mints never favour the borrower (generate_debt, repay_debt,
\* accrue_fees).
DebtCoversSupply == DebtIsTheSumOfPositions /\ SupplyIsOwed

\* Whatever moves the accumulator mints exactly the fee that borrowers were charged in
\* that step, once (accrue_fees with surplus_mint_call, in all six callers).
AccrualMintsTheFee ==
    [][initialized =>
         surplus' - surplus = MulDiv(accumulator.total_normalized_debt,
                                     accumulator'.rate - accumulator.rate,
                                     FIXED_POINT_ONE)]_vars

\* No transaction changes what a debt is worth at that instant: accruing early, late or
\* twice, and changing the fee, leave the projected accumulator where it was
\* (set_stability_fee_per_millisecond, accrue_stability_fee).
DebtNeverJumps ==
    [][initialized /\ now' = now => CurrentAccumulatedRate' = CurrentAccumulatedRate]_vars

Sound(p) ==
    positions[p].status = "open" =>
        Collateralized(positions[p].collateral, positions[p].normalized_debt)

\* A position that meets the ratio now still meets it after any transaction at this
\* instant - its owner's, another user's, a keeper's - other than the admin raising the
\* ratio.  Time may undo it, and so may the band: a price that has drifted below the
\* minimum is raised to it when it is stored (withdraw_collateral, generate_debt,
\* advance_redemption_price).
SoundPositionsStaySound ==
    [][\A p \in PositionId :
         /\ initialized /\ now' = now
         /\ AnchoredPrice = CurrentRedemptionPrice
         /\ params'.minimum_collateralization_ratio <= params.minimum_collateralization_ratio
         /\ Sound(p)
         => Sound(p)']_vars

\* The owner can always leave, frozen or not up to the withdrawal: some payment clears
\* the debt exactly if the coins for it exist, a donation to the vault can be taken on
\* record, what is on record without debt can be withdrawn, and an empty position closes
\* (repay_debt, deposit_collateral, withdraw_collateral, close_position).
NoPositionIsTrapped ==
    \A p \in PositionId : IsOpen(p) =>
        LET debt == positions[p].normalized_debt
            collateral == positions[p].collateral
            owed == MulDivCeil(debt, CurrentAccumulatedRate, FIXED_POINT_ONE)
        IN  /\ owed <= coins => CanRepayDebt(p, owed) /\ RepaidDebt(owed) = debt
            /\ CanDepositCollateral(p, 0) /\ CollateralAfterDeposit(p, 0) = vaults[p]
            /\ debt = 0 /\ ~params.is_frozen => CanWithdrawCollateral(p, collateral)
            /\ debt = 0 /\ vaults[p] = 0 => CanClosePosition(p)
=============================================================================
