----------------------------- MODULE AmmClient -----------------------------
(***************************************************************************)
(* How the application trades with the AMM: the amm module (modules/amm)   *)
(* reads the namespace's config and the pool, prices an operation with its *)
(* own copy of the program's arithmetic (modules/amm/ffi), the user        *)
(* accepts the bounds shown, and the module builds a transaction that      *)
(* lands later, on a pool others may have changed, or never.               *)
(*                                                                         *)
(* A user names a pair of tokens in display order, which need not be the   *)
(* order the pool stores.  An amount per token is therefore a pair in      *)
(* display order on the user's side and a function of the sides on the     *)
(* chain's, and every quote and every plan converts.  Parsing, encoding,   *)
(* address derivation and the fixed account lists are left out: a request  *)
(* is well-formed, and a plan is the program instruction it encodes.       *)
(*                                                                         *)
(* A definition under "Slip:" is the next one with a plausible mistake the *)
(* properties are there to notice; no action uses it.                      *)
(***************************************************************************)
EXTENDS Amm

CONSTANTS
    Client,     \* the users who trade through the application
    Slippage,   \* tolerances a user may set, in the fee's basis points
    OpeningPrice, \* prices a pool may be opened at without naming amounts
    REJECTED    \* an operation that cannot be priced; no intent

ASSUME ClientAssumption ==
    /\ Client \subseteq User
    /\ Slippage \subseteq Nat
    /\ OpeningPrice \subseteq Nat \ {0}

VARIABLE intent     \* what each client was quoted, and whether it was sent

clientVars == <<vars, intent>>

\* Display orders of the pair; the first is the canonical one.
Pair == {<<"a", "b">>, <<"b", "a">>}

\* Two amounts, in display order.
TwoAmounts == [1..2 -> Nat]

\* No quote reads as a rejection.
ASSUME RejectedAssumption ==
    REJECTED \notin [op : {"swap_in", "swap_out", "create", "add", "remove"},
                     pair : Pair, tolerance : Nat, expected : TwoAmounts, lp : Nat,
                     limit : TwoAmounts, limit_lp : Nat,
                     pool : [supply : Amount, reserve : [Side -> Amount]], sent : BOOLEAN]

---------------------------------------------------------------------------
(* Display order and the pool's order                                      *)

\* Slip: the amounts are taken to be in the pool's order already.
Stored_AsShown(pair, amounts) == [s \in Side |-> IF s = "a" THEN amounts[1] ELSE amounts[2]]

\* The amounts of a request, by the side of the pool each one is of.
Stored(pair, amounts) == [s \in Side |-> IF s = pair[1] THEN amounts[1] ELSE amounts[2]]

\* Slip: the user sees the amounts in the pool's order.
Displayed_AsStored(pair, amount) == <<amount["a"], amount["b"]>>

\* The amounts of the pool's sides, as the user sees the pair.
Displayed(pair, amount) == <<amount[pair[1]], amount[pair[2]]>>

---------------------------------------------------------------------------
(* Quotes: what the application shows before a user signs                  *)

\* resolve_pool: a pool nobody can trade with reads as no pool.
HasLiquidity ==
    initialized /\ liquidity_pool_supply # 0 /\ \A s \in Side : reserve[s] # 0

PoolRead == [supply |-> liquidity_pool_supply, reserve |-> reserve]

\* expected and lp: what the quote shows; limit and limit_lp: what the transaction
\* will insist on.
Quote(op, pair, tolerance, expected, lp, limit, limit_lp) ==
    [op |-> op, pair |-> pair, tolerance |-> tolerance, expected |-> expected, lp |-> lp,
     limit |-> limit, limit_lp |-> limit_lp, pool |-> PoolRead, sent |-> FALSE]

slippage_floor(n, tolerance) ==
    mul_div_floor(n, FEE_BPS_DENOMINATOR - tolerance, FEE_BPS_DENOMINATOR)

slippage_ceiling(n, tolerance) ==
    mul_div_ceil(n, FEE_BPS_DENOMINATOR + tolerance, FEE_BPS_DENOMINATOR)

swap_exact_in_quote(pair, n, tolerance) ==
    LET effective == effective_amount_in(n, config.swap_fee_bps)
        out       == amount_out(reserve[pair[1]], reserve[pair[2]], effective)
    IN  IF tolerance < FEE_BPS_DENOMINATOR /\ HasLiquidity /\ effective # 0 /\ out # 0
        THEN Quote("swap_in", pair, tolerance, <<n, out>>, 0,
                   <<n, slippage_floor(out, tolerance)>>, 0)
        ELSE REJECTED

swap_exact_out_quote(pair, out, tolerance) ==
    LET charged == required_in(effective_in_min(out, reserve[pair[1]], reserve[pair[2]]),
                               config.swap_fee_bps)
    IN  IF tolerance < FEE_BPS_DENOMINATOR /\ HasLiquidity
           /\ out # 0 /\ out < reserve[pair[2]]
           /\ slippage_ceiling(charged, tolerance) <= U128_MAX
        THEN Quote("swap_out", pair, tolerance, <<charged, out>>, 0,
                   <<slippage_ceiling(charged, tolerance), out>>, 0)
        ELSE REJECTED

\* The smallest deposit at a price that leaves the creator any LP tokens; the search
\* for it halves an interval, the result is this minimum.
minimum_opening_pair(price) ==
    LET Clears(x, y) == x * y >= (MINIMUM_LIQUIDITY + 1) * (MINIMUM_LIQUIDITY + 1)
        Smallest(other(_)) ==
            CHOOSE n \in 1..(MINIMUM_LIQUIDITY + 1) :
                Clears(n, other(n)) /\ \A m \in 1..(n - 1) : ~Clears(m, other(m))
        B(x) == mul_div_ceil(x, price, Q64)
        A(y) == mul_div_ceil(y, Q64, price)
    IN  IF price >= Q64 THEN <<Smallest(B), B(Smallest(B))>> ELSE <<A(Smallest(A)), Smallest(A)>>

create_pool_quote(pair, amounts) ==
    LET initial_lp == CHOOSE l \in 0..U128_MAX : IsIsqrt(l, amounts[1] * amounts[2])
    IN  IF amounts[1] # 0 /\ amounts[2] # 0 /\ initial_lp > MINIMUM_LIQUIDITY
        THEN Quote("create", pair, 0, amounts, user_lp(initial_lp), amounts, 0)
        ELSE REJECTED

add_liquidity_quote(pair, max, tolerance) ==
    LET amount == actual_amount(reserve, Stored(pair, max))
        minted == delta_lp(liquidity_pool_supply, reserve, amount)
        least  == slippage_floor(minted, tolerance)
    IN  IF /\ max[1] # 0 /\ max[2] # 0
           /\ tolerance < FEE_BPS_DENOMINATOR
           /\ HasLiquidity
           /\ \A s \in Side : ideal(reserve, Stored(pair, max), s) <= U128_MAX
           /\ amount["a"] # 0 /\ amount["b"] # 0 /\ minted # 0
           /\ least # 0
        THEN Quote("add", pair, tolerance, Displayed(pair, amount), minted, max, least)
        ELSE REJECTED

\* Slip: the program's demand for a floor above zero is not mirrored.
Floored_NotMirrored(minimum) == TRUE

Floored(minimum) == \A i \in 1..2 : minimum[i] # 0

remove_liquidity_quote(pair, n, tolerance) ==
    LET amount  == Displayed(pair, withdraw_amount(liquidity_pool_supply, reserve, n))
        minimum == [i \in 1..2 |-> slippage_floor(amount[i], tolerance)]
    IN  IF /\ n # 0
           /\ tolerance < FEE_BPS_DENOMINATOR
           /\ HasLiquidity
           /\ liquidity_pool_supply > MINIMUM_LIQUIDITY
           /\ n <= unlocked_liquidity(liquidity_pool_supply)
           /\ amount[1] # 0 /\ amount[2] # 0
           /\ Floored(minimum)
        THEN Quote("remove", pair, tolerance, amount, n, minimum, n)
        ELSE REJECTED

---------------------------------------------------------------------------
(* Plans: the arguments of the instruction a quote becomes, in the pool's  *)
(* order.                                                                  *)

swap_exact_in_plan(q) ==
    [token |-> q.pair[1], swap_amount_in |-> q.limit[1], min_amount_out |-> q.limit[2]]

swap_exact_out_plan(q) ==
    [token |-> q.pair[1], exact_amount_out |-> q.limit[2], max_amount_in |-> q.limit[1]]

\* canonical_triples: a new pool stores the canonical order.
create_pool_plan(q) == Stored(q.pair, q.limit)

add_liquidity_plan(q) == [max_amount |-> Stored(q.pair, q.limit), min_lp |-> q.limit_lp]

remove_liquidity_plan(q) == [lp_amount |-> q.lp, min_amount |-> Stored(q.pair, q.limit)]

\* The checks the program makes of the instruction.
CanExecute(u, q) ==
    \/ /\ q.op = "swap_in"
       /\ LET p == swap_exact_in_plan(q)
          IN  CanSwapExactInput(u, p.token, p.swap_amount_in, p.min_amount_out)
    \/ /\ q.op = "swap_out"
       /\ LET p == swap_exact_out_plan(q)
          IN  CanSwapExactOutput(u, p.token, p.exact_amount_out, p.max_amount_in)
    \/ /\ q.op = "create"
       /\ \E initial_lp \in Amount : CanNewDefinition(u, create_pool_plan(q), initial_lp)
    \/ /\ q.op = "add"
       /\ LET p == add_liquidity_plan(q) IN CanAddLiquidity(u, u, p.max_amount, p.min_lp)
    \/ /\ q.op = "remove"
       /\ LET p == remove_liquidity_plan(q) IN CanRemoveLiquidity(u, p.lp_amount, p.min_amount)

\* The instruction as the program executes it.
Execute(u, q) ==
    \/ /\ q.op = "swap_in"
       /\ LET p == swap_exact_in_plan(q)
          IN  SwapExactInput(u, p.token, p.swap_amount_in, p.min_amount_out)
    \/ /\ q.op = "swap_out"
       /\ LET p == swap_exact_out_plan(q)
          IN  SwapExactOutput(u, p.token, p.exact_amount_out, p.max_amount_in)
    \/ /\ q.op = "create"
       /\ \E initial_lp \in Amount : NewDefinition(u, create_pool_plan(q), initial_lp)
    \/ /\ q.op = "add"
       /\ LET p == add_liquidity_plan(q) IN AddLiquidity(u, u, p.max_amount, p.min_lp)
    \/ /\ q.op = "remove"
       /\ LET p == remove_liquidity_plan(q) IN RemoveLiquidity(u, p.lp_amount, p.min_amount)

---------------------------------------------------------------------------
(* The module's calls                                                      *)

InFlight(u) == intent[u] # REJECTED /\ intent[u].sent

\* A new quote replaces the one shown, and a failed one clears it.  A bound of the
\* model: a client has one transaction in flight at a time.
Show(u, q) ==
    /\ config.initialized
    /\ ~InFlight(u)
    /\ intent' = [intent EXCEPT ![u] = q]
    /\ UNCHANGED vars

SwapExactInQuote(u, pair, n, tolerance) == Show(u, swap_exact_in_quote(pair, n, tolerance))

SwapExactOutQuote(u, pair, n, tolerance) == Show(u, swap_exact_out_quote(pair, n, tolerance))

\* The amounts are the user's, or the smallest ones of a price.
CreatePoolQuote(u, pair, amounts) == ~initialized /\ Show(u, create_pool_quote(pair, amounts))

AddLiquidityQuote(u, pair, max, tolerance) == Show(u, add_liquidity_quote(pair, max, tolerance))

RemoveLiquidityQuote(u, pair, n, tolerance) == Show(u, remove_liquidity_quote(pair, n, tolerance))

\* The module reads the pool again for the ids it stores, not for its reserves.
Submit(u, op) ==
    /\ intent[u] # REJECTED
    /\ intent[u].op = op
    /\ ~intent[u].sent
    /\ config.initialized
    /\ op # "create" => initialized
    /\ intent' = [intent EXCEPT ![u].sent = TRUE]
    /\ UNCHANGED vars

SubmitSwapExactInput(u) == Submit(u, "swap_in")
SubmitSwapExactOutput(u) == Submit(u, "swap_out")
SubmitCreatePool(u) == Submit(u, "create")
SubmitAddLiquidity(u) == Submit(u, "add")
SubmitRemoveLiquidity(u) == Submit(u, "remove")

\* The keeper call needs no quote.
SubmitSyncReserves == SyncReserves /\ UNCHANGED intent

\* Neither do the admin's calls: the signer is the authority the module reads.
SubmitTransferOwnership(new) == UpdateConfig(config.authority, new) /\ UNCHANGED intent

SubmitWithdrawProtocolFees(s, destination, n) ==
    WithdrawProtocolFees(config.authority, s, destination, n) /\ UNCHANGED intent

\* A block takes the transaction; its checks decide whether it does anything.
Land(u) ==
    /\ InFlight(u)
    /\ Execute(u, intent[u])
    /\ intent' = [intent EXCEPT ![u] = REJECTED]

\* It fails one of the checks, or no block ever takes it.
Vanish(u) ==
    /\ InFlight(u)
    /\ intent' = [intent EXCEPT ![u] = REJECTED]
    /\ UNCHANGED vars

---------------------------------------------------------------------------
\* Everybody else, by any other tool.  A bound of the model: a gift to a client is the
\* first the client has of that token.
Outsider(u) ==
    \/ \E s \in Side, n \in Input : SwapExactInput(u, s, n, 0)
    \/ \E max \in [Side -> Input] : AddLiquidity(u, u, max, 1)
    \/ \E n \in Input : RemoveLiquidity(u, n, [s \in Side |-> 1])
    \/ \E s \in Side, n \in Input : TokenTransfer(s, u, VAULT, n)
    \/ \E t \in Token, h \in Client, n \in Input :
          <<t, h>> \notin opened /\ TokenTransfer(t, u, h, n)
    \/ \E n \in Input : BurnLp(u, n)
    \/ \E amount \in [Side -> Input], lp \in Amount : NewDefinition(u, amount, lp)

ClientInit == Init /\ intent = [u \in Client |-> REJECTED]

\* What a user may ask a quote for.
Request(u, pair, tolerance) ==
    \/ \E n \in Input : SwapExactInQuote(u, pair, n, tolerance)
    \/ \E n \in Input : SwapExactOutQuote(u, pair, n, tolerance)
    \/ \E n, m \in Input : CreatePoolQuote(u, pair, <<n, m>>)
    \/ \E price \in OpeningPrice : CreatePoolQuote(u, pair, minimum_opening_pair(price))
    \/ \E n, m \in Input : AddLiquidityQuote(u, pair, <<n, m>>, tolerance)
    \/ \E n \in Input : RemoveLiquidityQuote(u, pair, n, tolerance)

ClientNext ==
    \/ \E u \in Client, pair \in Pair, tolerance \in Slippage : Request(u, pair, tolerance)
    \/ \E u \in Client : SubmitSwapExactInput(u)
    \/ \E u \in Client : SubmitSwapExactOutput(u)
    \/ \E u \in Client : SubmitCreatePool(u)
    \/ \E u \in Client : SubmitAddLiquidity(u)
    \/ \E u \in Client : SubmitRemoveLiquidity(u)
    \/ \E u \in Client : Land(u)
    \/ \E u \in Client : Vanish(u)
    \/ SubmitSyncReserves
    \/ \E x \in Authority : SubmitTransferOwnership(x)
    \/ \E s \in Side, u \in User \ Client, n \in Input : SubmitWithdrawProtocolFees(s, u, n)
    \/ \E u \in User \ Client : Outsider(u) /\ UNCHANGED intent
    \/ \E u \in Client, t \in Token : OpenHolding(u, t) /\ UNCHANGED intent
    \/ \E x \in Derived : Squat(x) /\ UNCHANGED intent
    \/ \E x \in Authority, f \in SwapFee, p \in ProtocolFee :
          Initialize(x, f, p) /\ UNCHANGED intent

ClientSpec == ClientInit /\ [][ClientNext]_clientVars

---------------------------------------------------------------------------
(* Properties                                                              *)

Landed(u) == InFlight(u) /\ intent'[u] = REJECTED /\ vars' # vars

\* What u's balance of token t gained in the step.
Gained(u, t) == holding'[t][u] - holding[t][u]

\* The step moves the amounts u was shown.
MovesAsShown(u) ==
    LET q == intent[u]
    IN  /\ q.op \in {"swap_in", "swap_out"} =>
                Gained(u, q.pair[1]) = -q.expected[1] /\ Gained(u, q.pair[2]) = q.expected[2]
        /\ q.op \in {"create", "add"} =>
                /\ \A i \in 1..2 : Gained(u, q.pair[i]) = -q.expected[i]
                /\ Gained(u, "lp") = q.lp
        /\ q.op = "remove" =>
                /\ \A i \in 1..2 : Gained(u, q.pair[i]) = q.expected[i]
                /\ Gained(u, "lp") = -q.lp

\* The application prices with its own code, display order and all: on a pool
\* nobody touched since the quote, the transaction moves exactly the amounts
\* that were shown.
QuoteIsExact ==
    [][\A u \in Client : (Landed(u) /\ PoolRead = intent[u].pool) => MovesAsShown(u)]_clientVars

\* n is at least, at most, the amount shown with the tolerance: a floor is rounded
\* down by less than a unit, a ceiling up by less.
AtLeast(n, shown, tolerance) ==
    n * FEE_BPS_DENOMINATOR > shown * (FEE_BPS_DENOMINATOR - tolerance) - FEE_BPS_DENOMINATOR

AtMost(n, shown, tolerance) ==
    n * FEE_BPS_DENOMINATOR < shown * (FEE_BPS_DENOMINATOR + tolerance) + FEE_BPS_DENOMINATOR

\* The step moves what u accepted, or better.
MovesAsAccepted(u) ==
    LET q == intent[u]
    IN  /\ q.op \in {"swap_in", "swap_out"} =>
                /\ AtMost(-Gained(u, q.pair[1]), q.expected[1], q.tolerance)
                /\ AtLeast(Gained(u, q.pair[2]), q.expected[2], q.tolerance)
        /\ q.op = "add" =>
                /\ \A i \in 1..2 : -Gained(u, q.pair[i]) <= q.limit[i]
                /\ AtLeast(Gained(u, "lp"), q.lp, q.tolerance)
        /\ q.op = "remove" =>
                /\ \A i \in 1..2 : AtLeast(Gained(u, q.pair[i]), q.expected[i], q.tolerance)
                /\ Gained(u, "lp") = -q.lp

\* Whatever others did between the quote and the block, the user gives at most
\* and gets at least what the tolerance on the quote shown allows, in the tokens
\* shown.
ToleranceIsHonoured ==
    [][\A u \in Client : Landed(u) => MovesAsAccepted(u)]_clientVars

\* The user has a holding of either token, as the application lets only those be chosen,
\* and can pay what the quote shows.
Funded(u, q) ==
    /\ HoldingsExist(u)
    /\ q.op \in {"swap_in", "swap_out"} => holding[q.pair[1]][u] >= q.expected[1]
    /\ q.op \in {"create", "add"} => \A i \in 1..2 : holding[q.pair[i]][u] >= q.expected[i]
    /\ q.op = "remove" => holding["lp"][u] >= q.lp

\* Every check the program makes of the numbers is mirrored: what the application quotes,
\* it can also do, as long as the pool is the one that was quoted, the user's holdings
\* exist and can pay (the quote looks at neither), and nobody sits at a derived address.
QuotedMeansExecutable ==
    \A u \in Client : intent[u] # REJECTED =>
        LET q == intent[u]
        IN  (/\ PoolRead = q.pool
             /\ q.op = "create" <=> ~initialized
             /\ Funded(u, q)
             /\ taken = {}) => CanExecute(u, q)

\* Leaving through the application: a client's LP tokens, as soon as they are worth a
\* unit of each side, get a quote at tolerance zero, in either display order.  The
\* program executes it if the client has a holding of either token, and one that is
\* missing is the client's to open.  No lock, stale supply, floor or occupied address
\* blocks it (remove_liquidity, which asks for both holdings at remove.rs:93-100).
EveryClientCanExit ==
    \A u \in Client, pair \in Pair :
        LET n == holding["lp"][u]
            q == remove_liquidity_quote(pair, n, 0)
        IN  (initialized /\ \A s \in Side :
                withdraw_amount(liquidity_pool_supply, reserve, n)[s] >= 1) =>
            /\ q # REJECTED
            /\ CanExecute(u, q) \/ \E s \in Side : CanOpenHolding(u, s)
=============================================================================
