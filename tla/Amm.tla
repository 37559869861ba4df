-------------------------------- MODULE Amm --------------------------------
(***************************************************************************)
(* The AMM program (programs/amm): one namespace (config account) and one  *)
(* constant-product pool of it, with the token ledger its chained calls    *)
(* move and the current-tick account they refresh.                         *)
(*                                                                         *)
(* One action is one transaction: the handler's checks, the pool account   *)
(* it writes and every chained call it makes.  The runtime applies all of  *)
(* them or none, so a check that fails in a chained call is a guard of the *)
(* action like the handler's own.  Program-derived addresses and the       *)
(* namespace checks pin which accounts take part; the model has exactly    *)
(* those accounts.                                                         *)
(*                                                                         *)
(* A guard is a definition of its own: CanAddLiquidity says when           *)
(* AddLiquidity succeeds and AddLiquidity assigns what it then leaves, so  *)
(* that what a caller can do is a state predicate.                         *)
(*                                                                         *)
(* A holding exists once it is initialised or first credited, and until    *)
(* then its balance is zero (TokenHolding::zeroized_clone_from).  A handler *)
(* that checks the owner of a holding asks that it exist.  A derived       *)
(* address of the pool or of its fee holdings can be occupied by another   *)
(* account before its own creation: the token program leaves it to the     *)
(* runtime to prevent that.                                                *)
(*                                                                         *)
(* A definition under "Slip:" is the next one with a plausible mistake the *)
(* properties are there to notice; no action uses it.                      *)
(***************************************************************************)
EXTENDS Integers, FiniteSets, Functions

CONSTANTS
    User,                 \* who holds tokens and trades
    VAULT, FEES, LOCK,    \* the pool's vaults, the protocol-fee and LP lock holdings
    Authority,            \* accounts that may be the admin
    POOL,                 \* the pool account, its LP definition and its current tick
    InitialBalance,       \* what each user holds of each side at first
    Squattable,           \* derived addresses the runtime lets somebody occupy
    MINIMUM_LIQUIDITY,
    FEE_BPS_DENOMINATOR,
    Q64,                  \* 2^64, the scale of a Q64.64 price
    U128_MAX,
    price_to_tick(_),     \* the oracle's price-to-tick conversion
    NONE,                 \* no tick: the current-tick account does not exist yet
    SwapFee, ProtocolFee, \* the fees an owner may ask for at initialisation
    Input,                \* the amounts a caller may pass
    Limit                 \* the slippage limits a caller may pass

Side == {"a", "b"}
Token == Side \union {"lp"}
Holder == User \union {VAULT, FEES, LOCK}
Amount == 0..U128_MAX

\* The addresses the program derives, with the accounts made there.
Derived == (Side \X {VAULT, FEES}) \union {<<"lp", LOCK>>, POOL}

ASSUME HolderAssumption ==
    VAULT \notin User /\ FEES \notin User /\ LOCK \notin User
    /\ VAULT # FEES /\ VAULT # LOCK /\ FEES # LOCK
\* An account id is 32 bytes.
ASSUME UserAssumption == IsFiniteSet(User)
ASSUME NumberAssumption ==
    /\ U128_MAX \in Nat \ {0}
    /\ MINIMUM_LIQUIDITY \in Nat \ {0}
    /\ FEE_BPS_DENOMINATOR \in Nat \ {0}
    /\ Q64 \in Nat \ {0}
    /\ SwapFee \subseteq Nat /\ ProtocolFee \subseteq Nat
    /\ Input \subseteq Amount /\ Limit \subseteq Amount
ASSUME BalanceAssumption == InitialBalance \in [Side -> [User -> Amount]]
\* The total supply of a token, which the holdings add up to, is a u128.
ASSUME SupplyAssumption ==
    \A s \in Side : SumFunctionOnSet(InitialBalance[s], User) <= U128_MAX
ASSUME SquatAssumption == Squattable \subseteq Derived
ASSUME TickAssumption == \A p \in Amount : price_to_tick(p) \in Int
ASSUME NoTickAssumption == NONE \notin Int

VARIABLES
    holding,               \* holding[t][h]: balance of token t in holding h
    opened,                \* the holdings that exist, each <<token, holder>>
    taken,                 \* derived addresses another account occupies
    lp_total_supply,       \* total_supply of the LP token's definition
    initialized,           \* the pool account exists
    liquidity_pool_supply, \* LP supply the pool account tracks
    reserve,               \* reserve_a and reserve_b
    config,                \* the namespace's AmmConfig
    tick                   \* tick of the pool's current-tick account

addresses == <<opened, taken>>
vars == <<holding, addresses, lp_total_supply, initialized, liquidity_pool_supply, reserve,
          config, tick>>

Other(s) == IF s = "a" THEN "b" ELSE "a"

---------------------------------------------------------------------------
(* Arithmetic (amm_core): exact products, one rounding                     *)

mul_div_floor(x, y, z) == (x * y) \div z
mul_div_ceil(x, y, z) == (x * y + z - 1) \div z

IsIsqrt(root, n) == root * root <= n /\ n < (root + 1) * (root + 1)

Min2(x, y) == IF x <= y THEN x ELSE y
Max2(x, y) == IF x <= y THEN y ELSE x

spot_price_q64_64(reserve_base, reserve_quote) ==
    Min2(mul_div_floor(reserve_quote, Q64, reserve_base), U128_MAX)

SpotTick(r) == price_to_tick(spot_price_q64_64(r["a"], r["b"]))

HasSpotPrice(r) == r["a"] # 0

\* The chained UpdateCurrentTick: the tick of the reserves the handler leaves.
RefreshTick == tick' = SpotTick(reserve')

protocol_fee_amount(swap_fee, protocol_fee_bps) ==
    mul_div_floor(swap_fee, protocol_fee_bps, FEE_BPS_DENOMINATOR)

effective_amount_in(amount_in, fee_bps) ==
    mul_div_floor(amount_in, FEE_BPS_DENOMINATOR - fee_bps, FEE_BPS_DENOMINATOR)

\* Output of the constant product for a fee-adjusted input.
\* Slip: the output is rounded up.
amount_out_RoundedUp(reserve_in, reserve_out, effective) ==
    mul_div_ceil(reserve_out, effective, reserve_in + effective)

amount_out(reserve_in, reserve_out, effective) ==
    IF reserve_in + effective > U128_MAX \/ reserve_in + effective = 0 THEN 0
    ELSE mul_div_floor(reserve_out, effective, reserve_in + effective)

\* Input of the constant product for an exact output, before and after the fee.
effective_in_min(out, reserve_in, reserve_out) ==
    mul_div_ceil(reserve_in, out, reserve_out - out)

required_in(effective, fee_bps) ==
    mul_div_ceil(effective, FEE_BPS_DENOMINATOR, FEE_BPS_DENOMINATOR - fee_bps)

---------------------------------------------------------------------------
(* Token program calls, on the ledger h of one token                       *)

\* Slip: the sender balance is not checked.
Transferable_Overdraft(h, from, to, n) == h[to] + n <= U128_MAX
Transferable(h, from, to, n) == h[from] >= n /\ h[to] + n <= U128_MAX

Transferred(h, from, to, n) == [h EXCEPT ![from] = @ - n, ![to] = @ + n]

\* h has a holding of either side, initialised and the token program's.
HoldingsExist(h) == \A s \in Side : <<s, h>> \in opened

\* A user may send tokens to another user, or donate them to any holding.  A holding that
\* does not exist yet is made by the transfer.
TokenTransfer(t, from, to, n) ==
    /\ from # to
    /\ to \in User \union (IF t = "lp" THEN {LOCK} ELSE {VAULT, FEES})
    /\ <<t, from>> \in opened
    /\ <<t, to>> \notin taken
    /\ Transferable(holding[t], from, to, n)
    /\ holding' = [holding EXCEPT ![t] = Transferred(@, from, to, n)]
    /\ opened' = opened \union {<<t, to>>}
    /\ UNCHANGED <<taken, lp_total_supply, initialized, liquidity_pool_supply, reserve, config,
                   tick>>

\* An account of the user's becomes an empty holding; the LP token's definition is made
\* with the pool.
CanOpenHolding(u, t) == <<t, u>> \notin opened /\ (t = "lp" => initialized)

OpenHolding(u, t) ==
    /\ CanOpenHolding(u, t)
    /\ opened' = opened \union {<<t, u>>}
    /\ UNCHANGED <<holding, taken, lp_total_supply, initialized, liquidity_pool_supply, reserve,
                   config, tick>>

\* Somebody's transfer of another token claims a derived address nothing is at yet.
Squat(x) ==
    /\ x \in Squattable \ (opened \union taken)
    /\ x = POOL => ~initialized
    /\ taken' = taken \union {x}
    /\ UNCHANGED <<holding, opened, lp_total_supply, initialized, liquidity_pool_supply, reserve,
                   config, tick>>

\* LP tokens can be burned directly, without telling the pool.
BurnLp(u, n) ==
    /\ <<"lp", u>> \in opened
    /\ holding["lp"][u] >= n
    /\ lp_total_supply >= n
    /\ holding' = [holding EXCEPT !["lp"][u] = @ - n]
    /\ lp_total_supply' = lp_total_supply - n
    /\ UNCHANGED <<addresses, initialized, liquidity_pool_supply, reserve, config, tick>>

---------------------------------------------------------------------------
(* Namespace                                                               *)

\* assert_valid_swap_fee_bps, assert_valid_protocol_fee_bps: a trade keeps some input,
\* and the protocol's cut is part of the fee.
ValidFees(swap_fee_bps, protocol_fee_bps) ==
    swap_fee_bps < FEE_BPS_DENOMINATOR /\ protocol_fee_bps <= FEE_BPS_DENOMINATOR

Initialize(authority, swap_fee_bps, protocol_fee_bps) ==
    /\ ~config.initialized
    /\ ValidFees(swap_fee_bps, protocol_fee_bps)
    /\ config' = [initialized |-> TRUE, authority |-> authority,
                  swap_fee_bps |-> swap_fee_bps, protocol_fee_bps |-> protocol_fee_bps]
    /\ UNCHANGED <<holding, addresses, lp_total_supply, initialized, liquidity_pool_supply,
                   reserve, tick>>

\* Only the authority can change: the fees are fixed when the namespace is made.
UpdateConfig(authority, new_authority) ==
    /\ config.initialized
    /\ authority = config.authority
    /\ config' = [config EXCEPT !.authority = new_authority]
    /\ UNCHANGED <<holding, addresses, lp_total_supply, initialized, liquidity_pool_supply,
                   reserve, tick>>

WithdrawProtocolFees(authority, s, destination, n) ==
    /\ config.initialized
    /\ authority = config.authority
    /\ {<<s, FEES>>, <<s, destination>>} \subseteq opened
    /\ Transferable(holding[s], FEES, destination, n)
    /\ holding' = [holding EXCEPT ![s] = Transferred(@, FEES, destination, n)]
    /\ UNCHANGED <<addresses, lp_total_supply, initialized, liquidity_pool_supply, reserve, config,
                   tick>>

---------------------------------------------------------------------------
(* Liquidity                                                               *)

user_lp(initial_lp) == initial_lp - MINIMUM_LIQUIDITY

\* The pool account and the chained calls: create the LP definition with the locked
\* minimum, mint the rest to the user, move both deposits into the vaults, create the
\* current-tick account.  The holdings credited exist from then on.
OpenPool(u, amount, initial_lp) ==
    /\ initialized' = TRUE
    /\ liquidity_pool_supply' = initial_lp
    /\ reserve' = amount
    /\ lp_total_supply' = MINIMUM_LIQUIDITY + user_lp(initial_lp)
    /\ holding' = [t \in Token |->
          IF t = "lp" THEN [holding["lp"] EXCEPT ![LOCK] = MINIMUM_LIQUIDITY,
                                                 ![u] = @ + user_lp(initial_lp)]
          ELSE Transferred(holding[t], u, VAULT, amount[t])]
    /\ opened' = opened \union (Side \X {VAULT}) \union ({"lp"} \X {LOCK, u})
    /\ tick' = SpotTick(amount)
    /\ UNCHANGED <<taken, config>>

\* Nothing else is at the addresses the pool is made of: its own accounts are new, and the
\* token program credits a vault only as a holding of its token.
PoolAddressesFree == taken \intersect ((Side \X {VAULT}) \union {<<"lp", LOCK>>, POOL}) = {}

CanNewDefinition(u, amount, initial_lp) ==
    /\ config.initialized
    /\ HoldingsExist(u)
    /\ ~initialized
    /\ PoolAddressesFree
    /\ \A s \in Side : amount[s] # 0
    /\ IsIsqrt(initial_lp, amount["a"] * amount["b"])
    /\ initial_lp > MINIMUM_LIQUIDITY
    /\ \A s \in Side : Transferable(holding[s], u, VAULT, amount[s])
    /\ MINIMUM_LIQUIDITY + user_lp(initial_lp) <= U128_MAX

NewDefinition(u, amount, initial_lp) ==
    /\ CanNewDefinition(u, amount, initial_lp)
    /\ OpenPool(u, amount, initial_lp)

\* What the other side's maximum is worth of side s, at the pool's ratio.
ideal(r, max, s) == mul_div_floor(r[s], max[Other(s)], r[Other(s)])

actual_amount(r, max) == [s \in Side |-> Min2(ideal(r, max, s), max[s])]

lp_share(supply, r, amount, s) == mul_div_floor(supply, amount[s], r[s])

\* Slip: the larger of the two shares is minted.
delta_lp_Larger(supply, r, amount) ==
    Max2(lp_share(supply, r, amount, "a"), lp_share(supply, r, amount, "b"))
delta_lp(supply, r, amount) ==
    Min2(lp_share(supply, r, amount, "a"), lp_share(supply, r, amount, "b"))

\* What the token program and the checked sums say of both deposits and the mint.
CanDeposit(u, to, amount, minted) ==
    /\ liquidity_pool_supply + minted <= U128_MAX
    /\ \A s \in Side : reserve[s] + amount[s] <= U128_MAX
    /\ \A s \in Side : Transferable(holding[s], u, VAULT, amount[s])
    /\ lp_total_supply + minted <= U128_MAX
    /\ holding["lp"][to] + minted <= U128_MAX
    /\ HasSpotPrice([s \in Side |-> reserve[s] + amount[s]])

\* The pool account and the chained calls: both deposits into the vaults, the new LP
\* tokens to the holding `to`, the tick.
Deposit(u, to, amount, minted) ==
    /\ liquidity_pool_supply' = liquidity_pool_supply + minted
    /\ reserve' = [s \in Side |-> reserve[s] + amount[s]]
    /\ lp_total_supply' = lp_total_supply + minted
    /\ holding' = [t \in Token |->
          IF t = "lp" THEN [holding["lp"] EXCEPT ![to] = @ + minted]
          ELSE Transferred(holding[t], u, VAULT, amount[t])]
    /\ opened' = opened \union {<<"lp", to>>}
    /\ RefreshTick
    /\ UNCHANGED <<taken, initialized, config>>

\* LP tokens a deposit up to max is worth.
minted_lp(max) == delta_lp(liquidity_pool_supply, reserve, actual_amount(reserve, max))

\* to is the LP holding credited: any holding of the LP token.
CanAddLiquidity(u, to, max, min_amount_liquidity) ==
    LET amount == actual_amount(reserve, max)
        minted == minted_lp(max)
    IN  /\ config.initialized
        /\ initialized
        /\ HoldingsExist(VAULT) /\ HoldingsExist(u)
        /\ min_amount_liquidity # 0
        /\ \A s \in Side : max[s] # 0
        /\ \A s \in Side : holding[s][VAULT] >= reserve[s]
        /\ \A s \in Side : reserve[s] # 0
        /\ \A s \in Side : ideal(reserve, max, s) <= U128_MAX
        /\ \A s \in Side : amount[s] # 0
        /\ minted # 0
        /\ minted >= min_amount_liquidity
        /\ CanDeposit(u, to, amount, minted)

AddLiquidity(u, to, max, min_amount_liquidity) ==
    /\ CanAddLiquidity(u, to, max, min_amount_liquidity)
    /\ Deposit(u, to, actual_amount(reserve, max), minted_lp(max))

withdraw_amount(supply, r, n) == [s \in Side |-> mul_div_floor(r[s], n, supply)]

\* Slip: one unit too many stays locked.
unlocked_liquidity_OffByOne(supply) == supply - MINIMUM_LIQUIDITY - 1
unlocked_liquidity(supply) == supply - MINIMUM_LIQUIDITY

CanPayOut(u, n, amount) ==
    /\ \A s \in Side : reserve[s] >= amount[s]
    /\ \A s \in Side : Transferable(holding[s], VAULT, u, amount[s])
    /\ lp_total_supply >= n
    /\ HasSpotPrice([s \in Side |-> reserve[s] - amount[s]])

\* The pool account and the chained calls: both payments out of the vaults, the burn of
\* the LP tokens, the tick.
PayOut(u, n, amount) ==
    /\ liquidity_pool_supply' = liquidity_pool_supply - n
    /\ reserve' = [s \in Side |-> reserve[s] - amount[s]]
    /\ lp_total_supply' = lp_total_supply - n
    /\ holding' = [t \in Token |->
          IF t = "lp" THEN [holding["lp"] EXCEPT ![u] = @ - n]
          ELSE Transferred(holding[t], VAULT, u, amount[t])]
    /\ RefreshTick
    /\ UNCHANGED <<addresses, initialized, config>>

CanRemoveLiquidity(u, n, min) ==
    LET amount == withdraw_amount(liquidity_pool_supply, reserve, n)
    IN  /\ config.initialized
        /\ initialized
        /\ HoldingsExist(VAULT) /\ HoldingsExist(u)
        /\ n # 0
        /\ \A s \in Side : min[s] # 0
        /\ holding["lp"][u] <= liquidity_pool_supply
        /\ liquidity_pool_supply > MINIMUM_LIQUIDITY
        /\ n <= holding["lp"][u]
        /\ n <= unlocked_liquidity(liquidity_pool_supply)
        /\ \A s \in Side : amount[s] >= min[s]
        /\ CanPayOut(u, n, amount)

RemoveLiquidity(u, n, min) ==
    /\ CanRemoveLiquidity(u, n, min)
    /\ PayOut(u, n, withdraw_amount(liquidity_pool_supply, reserve, n))

---------------------------------------------------------------------------
(* Swaps                                                                   *)

validate_swap_setup ==
    /\ initialized
    /\ HoldingsExist(VAULT)
    /\ liquidity_pool_supply >= MINIMUM_LIQUIDITY
    /\ \A s \in Side : holding[s][VAULT] >= reserve[s]

\* What the reserves grow by: the input less the protocol's cut, which leaves
\* the vault in the same transaction.
\* Slip: the reserves grow by the gross input.
net_deposit_Gross(amount_in, protocol_fee) == amount_in
net_deposit(amount_in, protocol_fee) == amount_in - protocol_fee

\* The protocol's cut of an input of which effective was priced.
cut(amount_in, effective) ==
    protocol_fee_amount(amount_in - effective, config.protocol_fee_bps)

\* The ledger of the input once it is in the vault.
Paid(u, s, amount_in) == Transferred(holding[s], u, VAULT, amount_in)

\* What the owner checks of the user's two holdings, the token program and the checked
\* sums say of the three transfers; without a protocol fee there is no third.
CanExecuteSwap(u, s, amount_in, effective, out) ==
    LET o   == Other(s)
        fee == cut(amount_in, effective)
        net == net_deposit(amount_in, fee)
    IN  /\ HoldingsExist(u)
        /\ fee # 0 => <<s, FEES>> \notin taken
        /\ Transferable(holding[s], u, VAULT, amount_in)
        /\ Transferable(holding[o], VAULT, u, out)
        /\ Transferable(Paid(u, s, amount_in), VAULT, FEES, fee)
        /\ reserve[s] + net <= U128_MAX
        /\ reserve[o] >= out
        /\ HasSpotPrice([reserve EXCEPT ![s] = @ + net, ![o] = @ - out])

\* u pays amount_in of side s, of which effective was priced, and receives out of the
\* other side; the protocol's cut leaves the vault it came into, for a holding the first
\* cut makes.
ExecuteSwap(u, s, amount_in, effective, out) ==
    LET o   == Other(s)
        fee == cut(amount_in, effective)
    IN  /\ holding' = [holding EXCEPT
                          ![s] = Transferred(Paid(u, s, amount_in), VAULT, FEES, fee),
                          ![o] = Transferred(@, VAULT, u, out)]
        /\ reserve' = [reserve EXCEPT ![s] = @ + net_deposit(amount_in, fee), ![o] = @ - out]
        /\ opened' = IF fee = 0 THEN opened ELSE opened \union {<<s, FEES>>}
        /\ RefreshTick
        /\ UNCHANGED <<taken, lp_total_supply, initialized, liquidity_pool_supply, config>>

\* What an input of side s is priced at, and what it buys.
priced_in(amount_in) == effective_amount_in(amount_in, config.swap_fee_bps)
swap_output(s, amount_in) == amount_out(reserve[s], reserve[Other(s)], priced_in(amount_in))

CanSwapExactInput(u, s, amount_in, min_amount_out) ==
    /\ validate_swap_setup
    /\ config.initialized
    /\ priced_in(amount_in) # 0
    /\ min_amount_out <= swap_output(s, amount_in)
    /\ swap_output(s, amount_in) # 0
    /\ CanExecuteSwap(u, s, amount_in, priced_in(amount_in), swap_output(s, amount_in))

SwapExactInput(u, s, amount_in, min_amount_out) ==
    /\ CanSwapExactInput(u, s, amount_in, min_amount_out)
    /\ ExecuteSwap(u, s, amount_in, priced_in(amount_in), swap_output(s, amount_in))

\* What an output of the other side takes, before the fee and with it.
priced_out(s, out) == effective_in_min(out, reserve[s], reserve[Other(s)])
swap_input(s, out) == required_in(priced_out(s, out), config.swap_fee_bps)

CanSwapExactOutput(u, s, out, max_amount_in) ==
    /\ validate_swap_setup
    /\ config.initialized
    /\ out # 0
    /\ out < reserve[Other(s)]
    /\ reserve[s] # 0
    /\ swap_input(s, out) <= U128_MAX
    /\ swap_input(s, out) <= max_amount_in
    /\ CanExecuteSwap(u, s, swap_input(s, out), priced_out(s, out), out)

SwapExactOutput(u, s, out, max_amount_in) ==
    /\ CanSwapExactOutput(u, s, out, max_amount_in)
    /\ ExecuteSwap(u, s, swap_input(s, out), priced_out(s, out), out)

\* Slip: no tick update is chained.
SyncReserves_TickForgotten ==
    /\ initialized
    /\ reserve' = [s \in Side |-> holding[s][VAULT]]
    /\ UNCHANGED <<holding, addresses, lp_total_supply, initialized, liquidity_pool_supply,
                   config, tick>>

\* Permissionless: takes what was donated to the vaults into the reserves.
SyncReserves ==
    /\ validate_swap_setup
    /\ config.initialized
    /\ HasSpotPrice([s \in Side |-> holding[s][VAULT]])
    /\ reserve' = [s \in Side |-> holding[s][VAULT]]
    /\ RefreshTick
    /\ UNCHANGED <<holding, addresses, lp_total_supply, initialized, liquidity_pool_supply,
                   config>>

---------------------------------------------------------------------------

Init ==
    /\ holding = [t \in Token |-> [h \in Holder |->
                     IF t # "lp" /\ h \in User THEN InitialBalance[t][h] ELSE 0]]
    /\ opened = {x \in Side \X User : InitialBalance[x[1]][x[2]] # 0}
    /\ taken = {}
    /\ lp_total_supply = 0
    /\ initialized = FALSE
    /\ liquidity_pool_supply = 0
    /\ reserve = [s \in Side |-> 0]
    /\ config = [initialized |-> FALSE, authority |-> NONE,
                 swap_fee_bps |-> 0, protocol_fee_bps |-> 0]
    /\ tick = NONE

NamespaceNext ==
    \/ \E x \in Authority, f \in SwapFee, p \in ProtocolFee : Initialize(x, f, p)
    \/ \E x, y \in Authority : UpdateConfig(x, y)
    \/ \E x \in Authority, s \in Side, d \in User \union {VAULT}, n \in Input :
          WithdrawProtocolFees(x, s, d, n)

LiquidityNext ==
    \/ \E u \in User, amount \in [Side -> Input], lp \in Amount : NewDefinition(u, amount, lp)
    \/ \E u \in User, to \in User \union {LOCK}, max \in [Side -> Input], l \in Limit :
          AddLiquidity(u, to, max, l)
    \/ \E u \in User, n \in Input, min \in [Side -> Limit] : RemoveLiquidity(u, n, min)

SwapNext ==
    \/ \E u \in User, s \in Side, n \in Input, l \in Limit : SwapExactInput(u, s, n, l)
    \/ \E u \in User, s \in Side, n \in Input, l \in Limit : SwapExactOutput(u, s, n, l)
    \/ SyncReserves

\* The pool's tokens outside the AMM's instructions.
TokenNext ==
    \/ \E t \in Token, u \in User, h \in Holder, n \in Input : TokenTransfer(t, u, h, n)
    \/ \E u \in User, n \in Input : BurnLp(u, n)
    \/ \E u \in User, t \in Token : OpenHolding(u, t)
    \/ \E x \in Derived : Squat(x)

Next == NamespaceNext \/ LiquidityNext \/ SwapNext \/ TokenNext

Spec == Init /\ [][Next]_vars

---------------------------------------------------------------------------
(* Properties                                                              *)

\* Balances, supplies and reserves stay u128 values: no handler computes a
\* negative or oversized one and writes it.
TypeOK ==
    /\ holding \in [Token -> [Holder -> Amount]]
    /\ opened \subseteq Token \X Holder
    /\ taken \subseteq Derived
    /\ lp_total_supply \in Amount
    /\ initialized \in BOOLEAN
    /\ liquidity_pool_supply \in Amount
    /\ reserve \in [Side -> Amount]
    /\ config \in [initialized : BOOLEAN, authority : Authority \union {NONE},
                   swap_fee_bps : Nat, protocol_fee_bps : Nat]
    /\ tick \in Int \union {NONE}

\* The vaults hold what the pool says it has.  A swap touches the deposit vault
\* twice (the trader's input in, the protocol's cut out), remove_liquidity never
\* compares the two, and a pool that broke this could not be traded again.
VaultsCoverReserves == initialized => \A s \in Side : reserve[s] <= holding[s][VAULT]

\* The pool can never be emptied: the minimum stays locked, and both reserves
\* stay positive whatever is swapped, removed or burned.
LiquidityStaysLocked ==
    initialized => /\ holding["lp"][LOCK] >= MINIMUM_LIQUIDITY
                   /\ liquidity_pool_supply >= MINIMUM_LIQUIDITY
                   /\ \A s \in Side : reserve[s] > 0

\* The LP definition's total supply is the sum of the LP holdings, and the pool
\* never tracks less than it: a holder can burn LP tokens without telling the
\* pool, but none exist that the pool does not know of.
LpSupplyIsTracked ==
    /\ lp_total_supply = SumFunctionOnSet(holding["lp"], Holder)
    /\ lp_total_supply <= liquidity_pool_supply

\* The pool can pay whoever leaves: the vaults hold the reserves, the minimum stays
\* locked and neither reserve runs out, and no LP token is unknown to the pool.
PoolIsSolvent == VaultsCoverReserves /\ LiquidityStaysLocked /\ LpSupplyIsTracked

\* The tick the oracle samples is the tick of the reserves, after every handler
\* that changes them.
TickFollowsReserves == initialized => tick = SpotTick(reserve)

\* A share of the pool is never worth less: the reserves' product per squared LP
\* supply grows or stays through every deposit, withdrawal, swap and sync, so
\* each rounding falls on the caller.
ShareValueNeverFalls ==
    [][initialized =>
         (reserve["a"] * reserve["b"]) * (liquidity_pool_supply' * liquidity_pool_supply')
           <= (reserve'["a"] * reserve'["b"])
                 * (liquidity_pool_supply * liquidity_pool_supply)]_vars

surplus(s) == holding[s][VAULT] - reserve[s]

\* What was donated to a vault stays there, out of the traders' and the protocol's
\* reach, until a step that pays nobody takes all of it, on both sides, into the
\* reserves: no swap, withdrawal or deposit spends a unit of it, not even one that
\* leaves no surplus (the handlers' vault arithmetic, and sync_reserves).
SurplusLeavesOnlyBySync ==
    [][(initialized /\ \E s \in Side : surplus(s)' < surplus(s)) =>
         /\ UNCHANGED <<holding, lp_total_supply, liquidity_pool_supply>>
         /\ \A s \in Side : surplus(s)' = 0]_vars

\* Adding liquidity and taking it out again returns at most what went in.
AddThenRemoveNeverProfits ==
    (initialized /\ \A s \in Side : reserve[s] # 0) => \A max \in [Side -> Input \ {0}] :
        LET amount == actual_amount(reserve, max)
            minted == delta_lp(liquidity_pool_supply, reserve, amount)
            out    == withdraw_amount(liquidity_pool_supply + minted,
                                      [s \in Side |-> reserve[s] + amount[s]], minted)
        IN  \A s \in Side : out[s] <= amount[s]

\* Swapping there and back, at any fee, returns at most what went in.
SwapBackNeverProfits ==
    initialized => \A s \in Side, n \in Input :
        LET o    == Other(s)
            eff  == effective_amount_in(n, config.swap_fee_bps)
            out  == amount_out(reserve[s], reserve[o], eff)
            fee  == protocol_fee_amount(n - eff, config.protocol_fee_bps)
            back == effective_amount_in(out, config.swap_fee_bps)
        IN  amount_out(reserve[o] - out, reserve[s] + net_deposit(n, fee), back) <= n

\* The two swap instructions agree: the input exact-output charges buys at least
\* that output through exact-input, and one unit less does not.
ExactOutputIsTight ==
    initialized => \A s \in Side : \A out \in 1..(reserve[Other(s)] - 1) :
        LET n == required_in(effective_in_min(out, reserve[s], reserve[Other(s)]),
                             config.swap_fee_bps)
            bought(m) == amount_out(reserve[s], reserve[Other(s)],
                                    effective_amount_in(m, config.swap_fee_bps))
        IN  reserve[s] + n <= U128_MAX => bought(n) >= out /\ bought(n - 1) < out

\* No sequence of amounts, fees and reserves lets rounding pay the caller: adding
\* and removing, swapping and swapping back, and the two ways to swap agree on it.
RoundingFavoursThePool ==
    AddThenRemoveNeverProfits /\ SwapBackNeverProfits /\ ExactOutputIsTight
=============================================================================
